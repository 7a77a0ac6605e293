----------------------------- MODULE TaskKernel -----------------------------
(***************************************************************************)
(* One task in the hands of the engine: the workflow's states, the         *)
(* operations recorded before they run, the requests a human decides and   *)
(* the simulated external effect.                                          *)
(*                                                                         *)
(* Every action is one transaction of the code, so a crash may come        *)
(* between any two.  All of it happens under the task's lock (module       *)
(* Ownership): while a worker is inside advance nobody decides, so an      *)
(* operator's action needs the worker idle.  Approvals expire at any time. *)
(*                                                                         *)
(* A document is named by what produced it: a plan by its planning         *)
(* attempt, a patch, test, review or action request by the implementation  *)
(* attempt, an operation by its stage and slot.  Left out: the drafting of *)
(* a specification (the task starts with a confirmed one), the content of  *)
(* documents and events, an operation's generation (its holder has the     *)
(* task's lock, so it always matches), what the broker does inside an      *)
(* operation, and repository tasks, which have their own transitions.      *)
(***************************************************************************)
EXTENDS Naturals, Sequences, FiniteSets

CONSTANTS
    MaxAttempts,    \* implementation attempts: 3 in the code
    MaxPlannings,   \* planning attempts, bounded for TLC
    MaxRequests,    \* no renewal once there are this many requests, for TLC
    MaxCrashes,     \* crashes of the worker, bounded for TLC
    None            \* no state, no operation

ASSUME KernelAssumption ==
    /\ MaxAttempts \in Nat \ {0} /\ MaxPlannings \in Nat
    /\ MaxRequests \in Nat /\ MaxCrashes \in Nat

VARIABLES
    state,      \* the workflow state
    resume,     \* resume_state
    revision,   \* the task's revision
    attempt,    \* context.attempt
    planning,   \* context.planning_attempt
    evidence,   \* the current plan, patch, test, review, action request and receipt
    requests,   \* approval requests, oldest first, each with its decision
    current,    \* kind -> the request in context
    approval,   \* kind -> the request whose decision is in context
    pending,    \* pending_approval
    expired,    \* requests up to this one have expired
    ops,        \* operation -> its row
    active,     \* active_operation_id
    invocation, \* whether active_invocation_id is set
    effects,    \* action request -> the outcome of its external effect
    recovery,   \* context.operator_recovery
    pc,         \* where the holder of the task's lock is
    crashes

subject == <<evidence, requests, current, approval, pending, expired>>
work == <<ops, active, invocation, effects>>
counters == <<attempt, planning>>
workflow == <<state, resume, revision>>
vars == <<state, resume, revision, attempt, planning, evidence, requests, current,
          approval, pending, expired, ops, active, invocation, effects, recovery, pc, crashes>>

-----------------------------------------------------------------------------
(* The workflow. *)

Working ==
    {"PLANNING", "IMPLEMENTING", "TESTING", "REVIEWING", "READY_FOR_PR"}
Terminal == {"FAILED", "COMPLETED", "CANCELLED"}
Paused == Terminal \cup {"AWAITING_PLAN_APPROVAL", "AWAITING_ACTION_APPROVAL", "BLOCKED"}
States == Working \cup Paused \cup
    {"SPEC_READY", "READY_FOR_IMPLEMENTATION", "CHANGES_REQUESTED", "PR_CREATED"}

Edges ==
    {<<"SPEC_READY", "PLANNING">>, <<"PLANNING", "AWAITING_PLAN_APPROVAL">>,
     <<"AWAITING_PLAN_APPROVAL", "READY_FOR_IMPLEMENTATION">>,
     <<"AWAITING_PLAN_APPROVAL", "PLANNING">>,
     <<"READY_FOR_IMPLEMENTATION", "IMPLEMENTING">>,
     <<"IMPLEMENTING", "TESTING">>, <<"IMPLEMENTING", "CHANGES_REQUESTED">>,
     <<"TESTING", "REVIEWING">>, <<"TESTING", "CHANGES_REQUESTED">>,
     <<"REVIEWING", "AWAITING_ACTION_APPROVAL">>, <<"REVIEWING", "CHANGES_REQUESTED">>,
     <<"CHANGES_REQUESTED", "READY_FOR_IMPLEMENTATION">>,
     <<"AWAITING_ACTION_APPROVAL", "READY_FOR_PR">>,
     <<"AWAITING_ACTION_APPROVAL", "CHANGES_REQUESTED">>,
     <<"READY_FOR_PR", "PR_CREATED">>, <<"PR_CREATED", "COMPLETED">>}

Allowed(source, target) ==
    /\ source \notin Terminal
    /\ \/ target \in {"FAILED", "CANCELLED", "BLOCKED"} /\ source # target
       \/ source = "BLOCKED" /\ target = resume /\ target \notin Paused
       \/ <<source, target>> \in Edges

Stages == {"planning", "implementation", "tests", "review", "external_action"}
StageOf(s) ==
    CASE s = "PLANNING" -> "planning"
      [] s = "IMPLEMENTING" -> "implementation"
      [] s = "TESTING" -> "tests"
      [] s = "REVIEWING" -> "review"
      [] s = "READY_FOR_PR" -> "external_action"

(* One operation per stage and slot. *)
Slots == 0 .. (MaxAttempts + MaxPlannings)

ASSUME NoneAssumption == None \notin STRING \cup (Stages \X Slots)

Op ==
    <<StageOf(state), IF state = "PLANNING" THEN planning
                      ELSE IF state = "READY_FOR_PR" THEN evidence.action ELSE attempt>>
NoOp == [status |-> "none", result |-> "none", patch |-> 0, test |-> 0]
Row == ops[Op]
Started == {o \in DOMAIN ops : ops[o].status = "started"}
Succeeded == {a \in DOMAIN effects : effects[a] = "succeeded"}

-----------------------------------------------------------------------------
(* What a human decides. *)

Kinds == {"plan", "action"}
Subject(kind) ==
    IF kind = "plan" THEN <<evidence.plan>>
    ELSE <<evidence.plan, evidence.patch, evidence.test, evidence.review, evidence.action>>
AwaitingOf(kind) ==
    IF kind = "plan" THEN "AWAITING_PLAN_APPROVAL" ELSE "AWAITING_ACTION_APPROVAL"

Expired(r) == r <= expired
Approved(kind) ==
    LET r == approval[kind] IN
    /\ r # 0
    /\ r = current[kind]
    /\ requests[r].decision = "approve"
    /\ ~Expired(r)
    /\ requests[r].about = Subject(kind)

(* A new request for the evidence as the transaction leaves it, bound to   *)
(* the revision the task is about to have.                                 *)
Request(kind) ==
    /\ requests' = Append(requests, [kind |-> kind, about |-> Subject(kind)',
                                     revision |-> revision + 1, decision |-> "none"])
    /\ pending' = Len(requests) + 1
    /\ current' = [current EXCEPT ![kind] = Len(requests) + 1]
    /\ approval' = [approval EXCEPT ![kind] = 0]

PassingTest ==
    /\ evidence.test # 0
    /\ ops[<<"tests", evidence.test>>].result = "passed"
    /\ ops[<<"tests", evidence.test>>].patch = evidence.patch
AcceptedReview ==
    /\ evidence.review # 0
    /\ ops[<<"review", evidence.review>>].result = "accepted"
    /\ ops[<<"review", evidence.review>>].patch = evidence.patch
    /\ ops[<<"review", evidence.review>>].test = evidence.test

(* What a transition's target demands of the context it is entered with. *)
Guarded(target) ==
    /\ target \in {"READY_FOR_IMPLEMENTATION", "IMPLEMENTING", "TESTING", "REVIEWING",
                   "AWAITING_ACTION_APPROVAL"} => Approved("plan")
    /\ target = "TESTING" => evidence.patch # 0
    /\ target \in {"REVIEWING", "AWAITING_ACTION_APPROVAL", "READY_FOR_PR", "PR_CREATED"} =>
           PassingTest
    /\ target \in {"AWAITING_ACTION_APPROVAL", "READY_FOR_PR", "PR_CREATED"} => AcceptedReview
    /\ target \in {"READY_FOR_PR", "PR_CREATED"} => Approved("action")
    /\ target \in {"PR_CREATED", "COMPLETED"} =>
           evidence.external # 0 /\ effects[evidence.external] = "succeeded"

Transition(target) ==
    /\ Allowed(state, target)
    /\ Guarded(target)'
    /\ state' = target
    /\ revision' = revision + 1
    /\ resume' = IF target = "BLOCKED" THEN state ELSE resume

-----------------------------------------------------------------------------

Init ==
    /\ state = "SPEC_READY" /\ resume = None /\ revision = 1
    /\ attempt = 0 /\ planning = 0
    /\ evidence = [plan |-> 0, patch |-> 0, test |-> 0, review |-> 0,
                   action |-> 0, external |-> 0]
    /\ requests = <<>> /\ pending = 0 /\ expired = 0
    /\ current = [k \in Kinds |-> 0] /\ approval = [k \in Kinds |-> 0]
    /\ ops = [o \in Stages \X Slots |-> NoOp]
    /\ active = None /\ invocation = FALSE
    /\ effects = [a \in 1..MaxAttempts |-> "none"]
    /\ recovery = [op |-> None, revision |-> 0, cleanup |-> "none"]
    /\ pc = "idle" /\ crashes = 0

Goto(step) == pc' = step

-----------------------------------------------------------------------------
(* advance, where the state needs no operation: one transaction. *)

BeginPlanning ==
    /\ pc = "idle" /\ state = "SPEC_READY"
    /\ UNCHANGED <<counters, subject, work, recovery, pc, crashes>>
    /\ Transition("PLANNING")

(* A fresh attempt forgets the last one's patch, test and review. *)
BeginAttempt ==
    /\ pc = "idle" /\ state = "READY_FOR_IMPLEMENTATION"
    /\ Approved("plan")
    /\ attempt' = attempt + 1
    /\ evidence' = [evidence EXCEPT !.patch = 0, !.test = 0, !.review = 0]
    /\ UNCHANGED <<planning, requests, current, approval, pending, expired>>
    /\ UNCHANGED <<work, recovery, pc, crashes>>
    /\ Transition("IMPLEMENTING")

Exhausted == attempt >= MaxAttempts
RetryOrFail ==
    /\ pc = "idle" /\ state = "CHANGES_REQUESTED"
    /\ UNCHANGED <<counters, subject, work, recovery, pc, crashes>>
    /\ \/ Exhausted /\ Transition("FAILED")
       \/ ~Exhausted /\ Transition("READY_FOR_IMPLEMENTATION")

Complete ==
    /\ pc = "idle" /\ state = "PR_CREATED"
    /\ UNCHANGED <<counters, subject, work, recovery, pc, crashes>>
    /\ Transition("COMPLETED")

-----------------------------------------------------------------------------
(* advance, where the state needs an operation. *)

(* The approval is looked at first, before the operation's row. *)
CheckStage ==
    /\ pc = "idle" /\ state \in Working
    /\ state \in {"IMPLEMENTING", "TESTING"} => Approved("plan")
    /\ state = "READY_FOR_PR" => Approved("action")
    /\ Goto("checked")
    /\ UNCHANGED <<workflow, counters, subject, work, recovery, crashes>>

(* Mutant: a failure that was recorded before a crash is not replayed. *)
ReplaySuccess ==
    /\ pc = "checked" /\ Row.status = "done" /\ Row.result \notin {"failed", "error"}
    /\ Goto("settled")
    /\ UNCHANGED <<workflow, counters, subject, work, recovery, crashes>>

Replay ==
    /\ pc = "checked" /\ Row.status = "done"
    /\ Goto("settled")
    /\ UNCHANGED <<workflow, counters, subject, work, recovery, crashes>>

Done(result) == ops' = [ops EXCEPT ![Op].status = "done", ![Op].result = result]
Effected == state = "READY_FOR_PR" /\ effects[evidence.action] # "none"

(* Nobody knows whether it ran: it is never run again from here. *)
BlockUnresolved ==
    /\ pc = "checked" /\ Row.status = "started" /\ ~Effected
    /\ Goto("idle")
    /\ UNCHANGED <<counters, subject, work, recovery, crashes>>
    /\ Transition("BLOCKED")

(* Mutant: the reconciled operation stays the task's active one. *)
ReconcileKeepingActive ==
    /\ pc = "checked" /\ Row.status = "started" /\ Effected
    /\ Done(effects[evidence.action])
    /\ Goto("settled")
    /\ UNCHANGED <<workflow, counters, subject, active, invocation, effects, recovery, crashes>>

Reconcile ==
    /\ pc = "checked" /\ Row.status = "started" /\ Effected
    /\ Done(effects[evidence.action])
    /\ active' = None
    /\ Goto("settled")
    /\ UNCHANGED <<workflow, counters, subject, invocation, effects, recovery, crashes>>

StartOperation ==
    /\ pc = "checked" /\ Row.status = "none"
    /\ ops' = [ops EXCEPT ![Op] = [status |-> "started", result |-> "none",
                                   patch |-> evidence.patch, test |-> evidence.test]]
    /\ active' = Op
    /\ Goto("started")
    /\ UNCHANGED <<workflow, counters, subject, invocation, effects, recovery, crashes>>

StartInvocation ==
    /\ pc = "started" /\ state \in {"PLANNING", "IMPLEMENTING", "REVIEWING"}
    /\ invocation' = TRUE
    /\ Goto("invoking")
    /\ UNCHANGED <<workflow, counters, subject, ops, active, effects, recovery, crashes>>

EndInvocation ==
    /\ pc = "invoking"
    /\ invocation' = FALSE
    /\ Goto("invoked")
    /\ UNCHANGED <<workflow, counters, subject, ops, active, effects, recovery, crashes>>

(* A tool is permitted only under a plan approval that is still good. *)
Results ==
    IF pc = "invoked" /\ state = "PLANNING" THEN {"ok", "failed"}
    ELSE IF pc = "invoked" /\ state = "REVIEWING" THEN {"accepted", "changes", "failed"}
    ELSE IF pc = "invoked" /\ state = "IMPLEMENTING"
        THEN {"failed"} \cup (IF Approved("plan") THEN {"ok"} ELSE {})
    ELSE IF pc = "started" /\ state = "TESTING" /\ Approved("plan") THEN {"passed", "failed"}
    ELSE {}

FinishOperation(result) ==
    /\ result \in Results
    /\ Done(result)
    /\ active' = None
    /\ Goto("settled")
    /\ UNCHANGED <<workflow, counters, subject, invocation, effects, recovery, crashes>>

(* Rejected or OSError inside the operation, or while its result is being  *)
(* stored; an external effect may be committed by then.                    *)
FailOperation ==
    /\ pc \in {"started", "invoking", "invoked", "effected"}
    /\ Done("error")
    /\ active' = None
    /\ Goto("settled")
    /\ UNCHANGED <<workflow, counters, subject, invocation, effects, recovery, crashes>>

(* The broker cannot say whether the work was done; the row stays started. *)
LoseBroker ==
    /\ \/ pc = "invoked" /\ state = "IMPLEMENTING"
       \/ pc = "started" /\ state = "TESTING"
    /\ Approved("plan")
    /\ Goto("idle")
    /\ UNCHANGED <<counters, subject, work, recovery, crashes>>
    /\ Transition("BLOCKED")

(* Mutant: the approval is not looked at again inside the transaction. *)
ApplyEffectUnchecked(outcome) ==
    /\ pc = "started" /\ state = "READY_FOR_PR"
    /\ effects' = [effects EXCEPT ![evidence.action] = outcome]
    /\ Goto("effected")
    /\ UNCHANGED <<workflow, counters, subject, ops, active, invocation, recovery, crashes>>

(* The simulated effect and its receipt commit together. *)
ApplyEffect(outcome) ==
    /\ pc = "started" /\ state = "READY_FOR_PR"
    /\ Approved("action")
    /\ effects' = [effects EXCEPT ![evidence.action] = outcome]
    /\ Goto("effected")
    /\ UNCHANGED <<workflow, counters, subject, ops, active, invocation, recovery, crashes>>

FinishExternal ==
    /\ pc = "effected"
    /\ Done(effects[evidence.action])
    /\ active' = None
    /\ Goto("settled")
    /\ UNCHANGED <<workflow, counters, subject, invocation, effects, recovery, crashes>>

-----------------------------------------------------------------------------
(* The transition the operation's result calls for. *)

Settling(s, results) == pc = "settled" /\ state = s /\ Row.result \in results
Failure == {"failed", "error"}

SettlePlan ==
    /\ Settling("PLANNING", {"ok"})
    /\ evidence' = [evidence EXCEPT !.plan = planning + 1]
    /\ Request("plan")
    /\ UNCHANGED <<counters, expired, work, recovery, crashes>>
    /\ Transition("AWAITING_PLAN_APPROVAL")

SettlePatch ==
    /\ Settling("IMPLEMENTING", {"ok"})
    /\ evidence' = [evidence EXCEPT !.patch = attempt]
    /\ UNCHANGED <<counters, requests, current, approval, pending, expired>>
    /\ UNCHANGED <<work, recovery, crashes>>
    /\ Transition("TESTING")

SettleTest ==
    /\ Settling("TESTING", {"passed", "failed"})
    /\ evidence' = [evidence EXCEPT !.test = attempt]
    /\ UNCHANGED <<counters, requests, current, approval, pending, expired>>
    /\ UNCHANGED <<work, recovery, crashes>>
    /\ \/ Row.result = "passed" /\ Transition("REVIEWING")
       \/ Row.result = "failed" /\ Transition("CHANGES_REQUESTED")

SettleReview ==
    /\ Settling("REVIEWING", {"accepted"})
    /\ evidence' = [evidence EXCEPT !.review = attempt, !.action = attempt]
    /\ Request("action")
    /\ UNCHANGED <<counters, expired, work, recovery, crashes>>
    /\ Transition("AWAITING_ACTION_APPROVAL")

SettleChanges ==
    /\ \/ Settling("IMPLEMENTING", Failure) /\ UNCHANGED evidence
       \/ Settling("TESTING", {"error"}) /\ UNCHANGED evidence
       \/ Settling("REVIEWING", Failure) /\ UNCHANGED evidence
       \/ /\ Settling("REVIEWING", {"changes"})
          /\ evidence' = [evidence EXCEPT !.review = attempt]
    /\ UNCHANGED <<counters, requests, current, approval, pending, expired>>
    /\ UNCHANGED <<work, recovery, crashes>>
    /\ Transition("CHANGES_REQUESTED")

SettleExternal ==
    /\ Settling("READY_FOR_PR", {"succeeded", "failed"})
    /\ evidence' = [evidence EXCEPT !.external = evidence.action]
    /\ UNCHANGED <<counters, requests, current, approval, pending, expired>>
    /\ UNCHANGED <<work, recovery, crashes>>
    /\ \/ Row.result = "succeeded" /\ Transition("PR_CREATED")
       \/ Row.result = "failed" /\ Transition("FAILED")

SettleFailed ==
    /\ Settling("PLANNING", Failure) \/ Settling("READY_FOR_PR", {"error"})
    /\ UNCHANGED <<counters, subject, work, recovery, crashes>>
    /\ Transition("FAILED")

Settle ==
    /\ \/ SettlePlan \/ SettlePatch \/ SettleTest \/ SettleReview
       \/ SettleChanges \/ SettleExternal \/ SettleFailed
    /\ Goto("idle")

(* The approval ran out while the operation ran: the transition is rolled  *)
(* back and advance fails.                                                 *)
SettleRefused ==
    /\ \/ Settling("IMPLEMENTING", {"ok"}) /\ ~Approved("plan")
       \/ Settling("TESTING", {"passed"}) /\ ~Approved("plan")
       \/ Settling("REVIEWING", {"accepted"}) /\ ~Approved("plan")
       \/ Settling("READY_FOR_PR", {"succeeded"}) /\ ~Approved("action")
    /\ Goto("idle")
    /\ UNCHANGED <<workflow, counters, subject, work, recovery, crashes>>

-----------------------------------------------------------------------------
(* The operator. *)

Deciding == pc = "idle"

(* A decision names a request and the revision its page showed. *)
Decidable(r) ==
    /\ requests[r].decision = "none"
    /\ requests[r].revision = revision
    /\ pending = r
    /\ state = AwaitingOf(requests[r].kind)
    /\ ~Expired(r)

Approve(r, decision) ==
    LET kind == requests[r].kind IN
    /\ Deciding
    /\ Decidable(r)
    /\ requests' = [requests EXCEPT ![r].decision = decision]
    /\ approval' = [approval EXCEPT ![kind] = r]
    /\ pending' = 0
    /\ UNCHANGED <<attempt, evidence, current, expired, work, recovery, pc, crashes>>
    /\ \/ kind = "plan" /\ decision = "approve" /\ UNCHANGED planning
          /\ Transition("READY_FOR_IMPLEMENTATION")
       \/ kind = "plan" /\ decision = "reject" /\ planning' = planning + 1
          /\ planning' < MaxPlannings
          /\ Transition("PLANNING")
       \/ kind = "action" /\ decision = "approve" /\ UNCHANGED planning
          /\ Transition("READY_FOR_PR")
       \/ kind = "action" /\ decision = "reject" /\ UNCHANGED planning
          /\ Transition("CHANGES_REQUESTED")

Quiet == active = None /\ ~invocation /\ Started = {}

Renewable(r) ==
    /\ pending = r
    /\ requests[r].revision = revision
    /\ state = AwaitingOf(requests[r].kind)
    /\ Quiet
    /\ Expired(r)
    /\ requests[r].about = Subject(requests[r].kind)

(* Mutant: the new request is bound to a revision the task does not reach. *)
RenewInPlace(r) ==
    /\ Deciding
    /\ Len(requests) < MaxRequests
    /\ Renewable(r)
    /\ UNCHANGED evidence
    /\ \E kind \in {requests[r].kind} : Request(kind)
    /\ UNCHANGED <<workflow, counters, expired, work, recovery, pc, crashes>>

Renew(r) ==
    /\ Deciding
    /\ Len(requests) < MaxRequests
    /\ Renewable(r)
    /\ UNCHANGED evidence
    /\ \E kind \in {requests[r].kind} : Request(kind)
    /\ revision' = revision + 1
    /\ UNCHANGED <<state, resume, counters, expired, work, recovery, pc, crashes>>

(* Mutant: a committed effect does not prevent cancellation. *)
CancellableAfterEffect == state \notin Terminal /\ Quiet /\ state # "PR_CREATED"

Cancellable == state \notin Terminal /\ Quiet /\ state # "PR_CREATED" /\ Succeeded = {}

Cancel ==
    /\ Deciding
    /\ Cancellable
    /\ pending' = 0
    /\ resume' = None
    /\ state' = "CANCELLED"
    /\ revision' = revision + 1
    /\ UNCHANGED <<counters, evidence, requests, current, approval, expired>>
    /\ UNCHANGED <<work, recovery, pc, crashes>>

(* Mutant: whatever stage was interrupted, and without the plan's approval. *)
RecoverableAnywhere == state = "BLOCKED" /\ active # None /\ Started = {active}

Recoverable ==
    /\ state = "BLOCKED"
    /\ active # None /\ Started = {active}
    /\ resume \in {"IMPLEMENTING", "TESTING"}
    /\ Approved("plan")

(* Once the broker has a result, or has proved that none can come.  The    *)
(* task passes through the state it was blocked in, in one transaction.    *)
Recover ==
    /\ Deciding
    /\ Recoverable
    /\ ops' = [ops EXCEPT ![active].status = "done", ![active].result = "error"]
    /\ active' = None
    /\ resume' = None
    /\ state' = "CHANGES_REQUESTED"
    /\ revision' = revision + 2
    /\ recovery' = [op |-> active, revision |-> revision + 2, cleanup |-> "pending"]
    /\ Goto("cleaning")
    /\ UNCHANGED <<counters, subject, invocation, effects, crashes>>

FinishCleanup(outcome) ==
    /\ pc = "cleaning"
    /\ recovery' = [recovery EXCEPT !.cleanup = outcome]
    /\ Goto("idle")
    /\ UNCHANGED <<workflow, counters, subject, work, crashes>>

(* Asked again, by the same recovery or by retry-cleanup. *)
RetryCleanup ==
    /\ Deciding
    /\ state = "CHANGES_REQUESTED" /\ revision = recovery.revision
    /\ recovery.cleanup \in {"pending", "deferred"}
    /\ active = None /\ Started = {}
    /\ recovery' = [recovery EXCEPT !.cleanup = "pending"]
    /\ Goto("cleaning")
    /\ UNCHANGED <<workflow, counters, subject, work, crashes>>

-----------------------------------------------------------------------------

Expire ==
    /\ expired < Len(requests)
    /\ expired' = expired + 1
    /\ UNCHANGED <<workflow, counters, evidence, requests, current, approval, pending>>
    /\ UNCHANGED <<work, recovery, pc, crashes>>

Crash ==
    /\ pc # "idle"
    /\ crashes < MaxCrashes
    /\ crashes' = crashes + 1
    /\ Goto("idle")
    /\ UNCHANGED <<workflow, counters, subject, work, recovery>>

Advance ==
    \/ BeginPlanning \/ BeginAttempt \/ RetryOrFail \/ Complete
    \/ CheckStage \/ Replay \/ BlockUnresolved \/ Reconcile
    \/ StartOperation \/ StartInvocation \/ EndInvocation
    \/ \E r \in {"ok", "accepted", "changes", "passed", "failed"} : FinishOperation(r)
    \/ FailOperation \/ LoseBroker
    \/ \E o \in {"succeeded", "failed"} : ApplyEffect(o)
    \/ FinishExternal \/ Settle \/ SettleRefused

Operate ==
    \/ \E r \in DOMAIN requests, d \in {"approve", "reject"} : Approve(r, d)
    \/ \E r \in DOMAIN requests : Renew(r)
    \/ Cancel \/ Recover \/ RetryCleanup

Clean == \E o \in {"completed", "deferred"} : FinishCleanup(o)

Next == Advance \/ Operate \/ Clean \/ Expire \/ Crash

Spec == Init /\ [][Next]_vars

(* Whoever holds the task's lock goes on, and the task is run again after  *)
(* a pause or a crash, however often an operator takes the lock meanwhile; *)
(* nobody has to decide, and nothing has to expire.                        *)
FairSpec == Spec /\ SF_vars(Advance) /\ WF_vars(Clean)

-----------------------------------------------------------------------------
(* What must hold. *)

Outcomes == {"none", "ok", "accepted", "changes", "passed", "succeeded", "failed", "error"}
Requests == 0 .. Len(requests)
Attempts == 0..MaxAttempts

TypeOK ==
    /\ state \in States /\ resume \in Working \cup {None} /\ revision \in Nat
    /\ attempt \in Attempts /\ planning \in 0..MaxPlannings
    /\ evidence \in [plan : 0..(MaxPlannings + 1), patch : Attempts, test : Attempts,
                     review : Attempts, action : Attempts, external : Attempts]
    /\ requests \in Seq([kind : Kinds, about : Seq(Nat), revision : Nat,
                         decision : {"none", "approve", "reject"}])
    /\ pending \in Requests /\ expired \in Requests
    /\ current \in [Kinds -> Requests] /\ approval \in [Kinds -> Requests]
    /\ ops \in [Stages \X Slots -> [status : {"none", "started", "done"}, result : Outcomes,
                                    patch : Attempts, test : Attempts]]
    /\ active \in (Stages \X Slots) \cup {None}
    /\ invocation \in BOOLEAN
    /\ effects \in [1..MaxAttempts -> {"none", "succeeded", "failed"}]
    /\ recovery \in [op : (Stages \X Slots) \cup {None}, revision : Nat,
                     cleanup : {"none", "pending", "completed", "deferred"}]
    /\ pc \in {"idle", "checked", "started", "invoking", "invoked", "effected",
               "settled", "cleaning"}
    /\ crashes \in 0..MaxCrashes

(* Whatever crashed, the unresolved operation is the one the task names,   *)
(* and there is one exactly when the task is blocked or work has begun:    *)
(* recover and cancel judge by either.                                     *)
OneUnresolved ==
    /\ Started = IF active = None THEN {} ELSE {active}
    /\ state = "BLOCKED" => active # None
    /\ active # None => state \in Working \cup {"BLOCKED"}

(* A task that waits for a human can be decided or, once its request has   *)
(* expired, renewed: no crash or expiry leaves a pause nobody can end.     *)
PauseIsDecidable ==
    \A kind \in Kinds : state = AwaitingOf(kind) =>
        /\ pending # 0
        /\ requests[pending].kind = kind
        /\ Decidable(pending) \/ Renewable(pending)

AfterPlan ==
    {"READY_FOR_IMPLEMENTATION", "IMPLEMENTING", "TESTING", "REVIEWING", "CHANGES_REQUESTED",
     "AWAITING_ACTION_APPROVAL", "READY_FOR_PR", "PR_CREATED", "COMPLETED"}

(* From the first attempt on, a human approved exactly the plan in use.    *)
PlanWasApproved ==
    state \in AfterPlan =>
        \E r \in DOMAIN requests :
            /\ requests[r].kind = "plan"
            /\ requests[r].decision = "approve"
            /\ requests[r].about = <<evidence.plan>>

(* The external action succeeds once at most, whatever crashed or was      *)
(* retried, and never in a task that is cancelled.                         *)
OneEffect ==
    /\ Cardinality(Succeeded) <= 1
    /\ state = "CANCELLED" => Succeeded = {} /\ Started = {}

(* It happens only under an unexpired approval, by a human, of exactly     *)
(* this plan, patch, test and review; the test passed on this patch and    *)
(* the review accepted that test.                                          *)
EffectIsApproved ==
    [][Succeeded' # Succeeded =>
          /\ \E r \in DOMAIN requests :
                 /\ requests[r].kind = "action" /\ requests[r].decision = "approve"
                 /\ requests[r].about = Subject("action") /\ ~Expired(r)
          /\ PassingTest /\ AcceptedReview]_vars

(* Run again after every crash, a task comes to a pause or an end, unless  *)
(* an approval it needs has expired.                                       *)
Lapsed == \E kind \in Kinds : approval[kind] # 0 /\ Expired(approval[kind])
RunEnds == []<>(state \in Paused \/ Lapsed)

-----------------------------------------------------------------------------
(* The promise this keeps. *)

PhaseOf ==
    [s \in States |->
        CASE s \in {"SPEC_READY", "PLANNING"} -> "planning"
          [] s = "AWAITING_PLAN_APPROVAL" -> "plan pause"
          [] s \in {"READY_FOR_IMPLEMENTATION", "IMPLEMENTING", "TESTING", "REVIEWING",
                    "CHANGES_REQUESTED"} -> "attempting"
          [] s = "AWAITING_ACTION_APPROVAL" -> "action pause"
          [] s = "READY_FOR_PR" -> "acting"
          [] s = "PR_CREATED" -> "created"
          [] s = "BLOCKED" -> "blocked"
          [] s = "FAILED" -> "failed"
          [] s = "COMPLETED" -> "completed"
          [] s = "CANCELLED" -> "cancelled"]
Effect ==
    IF Succeeded # {} THEN "succeeded"
    ELSE IF \E a \in DOMAIN effects : effects[a] = "failed" THEN "failed" ELSE "none"

Lifecycle == INSTANCE TaskLifecycle
    WITH phase <- PhaseOf[state], attempts <- attempt, effect <- Effect

ImplementsLifecycle == Lifecycle!Spec

=============================================================================
