--------------------------- MODULE TaskKernelProofs ---------------------------
(***************************************************************************)
(* Proofs about TaskKernel, for any number of attempts, plans, requests    *)
(* and crashes, and, at the end, about Consultations, for any questions,   *)
(* agents and bounds.                                                      *)
(***************************************************************************)
EXTENDS TaskKernel, Consultations, FiniteSetTheorems, TLAPS

Operations == Stages \X Slots
Rows == [status : {"none", "started", "done"}, result : Outcomes, patch : Attempts, test : Attempts]
Evidence == [plan : 0..(MaxPlannings + 1), patch : Attempts, test : Attempts,
             review : Attempts, action : Attempts, external : Attempts]
Documents == [kind : Kinds, about : Seq(Nat), revision : Nat, decision : {"none", "approve", "reject"}]

WorkflowType ==
    /\ state \in States /\ resume \in Working \cup {None} /\ revision \in Nat
    /\ attempt \in Attempts /\ planning \in 0..MaxPlannings
RequestType ==
    /\ requests \in Seq(Documents)
    /\ pending \in Requests /\ expired \in Requests
    /\ current \in [Kinds -> Requests] /\ approval \in [Kinds -> Requests]
WorkType ==
    /\ ops \in [Operations -> Rows]
    /\ active \in Operations \cup {None}
    /\ invocation \in BOOLEAN
    /\ effects \in [1..MaxAttempts -> {"none", "succeeded", "failed"}]
RestType ==
    /\ recovery \in [op : Operations \cup {None}, revision : Nat,
                     cleanup : {"none", "pending", "completed", "deferred"}]
    /\ pc \in {"idle", "checked", "started", "invoking", "invoked", "effected", "settled", "cleaning"}
    /\ crashes \in 0..MaxCrashes

(* Attempts are counted where they begin. *)
AttemptFits ==
    /\ state \in {"SPEC_READY", "PLANNING", "AWAITING_PLAN_APPROVAL"} => attempt = 0
    /\ state = "READY_FOR_IMPLEMENTATION" => attempt < MaxAttempts
    /\ state \in {"IMPLEMENTING", "TESTING", "REVIEWING"} => attempt # 0
    /\ state \in {"AWAITING_ACTION_APPROVAL", "READY_FOR_PR"} => evidence.action # 0

(* The unresolved operation is the active one, and the one of this state. *)
ActiveFits ==
    /\ \A o \in Operations : ops[o].status = "started" <=> o = active
    /\ state = "BLOCKED" => active # None
    /\ active # None => state \in Working \cup {"BLOCKED"}
    /\ active # None /\ state \in Working => active = Op

HolderFits ==
    /\ pc \notin {"idle", "cleaning"} => state \in Working
    /\ pc \in {"started", "invoking", "invoked", "effected"} => active = Op
    /\ pc = "settled" => active = None
    /\ pc = "effected" => state = "READY_FOR_PR"
    /\ pc = "cleaning" => state = "CHANGES_REQUESTED"

(* An effect is the current action's, and its operation has begun. *)
EffectsFit ==
    /\ \A a \in 1..MaxAttempts : effects[a] # "none" =>
        /\ a = evidence.action
        /\ state \in {"READY_FOR_PR", "PR_CREATED", "COMPLETED", "FAILED", "CANCELLED"}
        /\ state = "READY_FOR_PR" => ops[<<"external_action", a>>].status # "none"
        /\ state = "CANCELLED" => effects[a] # "succeeded"
    /\ pc = "started" /\ state = "READY_FOR_PR" => effects[evidence.action] = "none"

ApprovalsFit == \A kind \in Kinds : approval[kind] # 0 => requests[approval[kind]].kind = kind

EvidenceHolds == state = "READY_FOR_PR" => PassingTest /\ AcceptedReview

IInv ==
    /\ WorkflowType /\ evidence \in Evidence /\ RequestType /\ WorkType /\ RestType
    /\ AttemptFits /\ ActiveFits /\ HolderFits
    /\ EffectsFit /\ ApprovalsFit /\ EvidenceHolds /\ PlanWasApproved

-----------------------------------------------------------------------------
LEMMA TypeParts ==
    TypeOK <=> WorkflowType /\ evidence \in Evidence /\ RequestType /\ WorkType /\ RestType
BY DEF TypeOK, WorkflowType, Evidence, RequestType, WorkType, RestType, Operations, Rows, Documents

LEMMA NoneIsNoOperation == None \notin Operations
BY NoneAssumption DEF Operations

(* The operation of a working state. *)
LEMMA OpHere ==
    ASSUME IInv, state \in Working
    PROVE  /\ Op \in Operations /\ Op # None
           /\ state = "READY_FOR_PR" => Op = <<"external_action", evidence.action>>
<1>1. /\ attempt \in Slots /\ planning \in Slots
      /\ evidence.action \in Slots
  BY KernelAssumption DEF IInv, WorkflowType, Evidence, Slots, Attempts
<1>2. StageOf(state) \in Stages /\ (state = "READY_FOR_PR" => StageOf(state) = "external_action")
  BY DEF Working, StageOf, Stages
<1>3. Op \in Operations
  BY <1>1, <1>2 DEF Op, Operations
<1>4. state = "READY_FOR_PR" => Op = <<"external_action", evidence.action>>
  BY <1>2 DEF Op
<1> QED BY <1>3, <1>4, NoneIsNoOperation

(* Only the operation of the state at hand can be unresolved. *)
LEMMA OnlyHere ==
    ASSUME IInv, state \in Working
    PROVE  /\ active \in {None, Op}
           /\ \A o \in Operations \ {Op} : ops[o].status # "started"
BY OpHere, NoneIsNoOperation DEF IInv, ActiveFits

-----------------------------------------------------------------------------
(* Steps inside an operation: the workflow and what was decided stay.      *)

LEMMA StageStep ==
    ASSUME IInv, UNCHANGED <<workflow, counters, subject>>,
           WorkType', RestType', ActiveFits', HolderFits', EffectsFit', EvidenceHolds'
    PROVE  IInv'
<1>1. WorkflowType' /\ evidence' \in Evidence /\ AttemptFits'
  BY DEF IInv, WorkflowType, AttemptFits, workflow, counters, subject
<1>2. RequestType' /\ ApprovalsFit' /\ PlanWasApproved'
  BY DEF IInv, RequestType, Requests, ApprovalsFit, PlanWasApproved, workflow, subject
<1> QED BY <1>1, <1>2 DEF IInv, Evidence

(* The holder goes on, and nothing else. *)
LEMMA PcStep ==
    ASSUME IInv, UNCHANGED <<workflow, counters, subject, ops, active, effects, recovery>>,
           invocation' \in BOOLEAN, crashes' \in 0..MaxCrashes,
           pc' \in {"idle", "checked", "invoking", "invoked", "settled"},
           pc' # "idle" => state \in Working,
           pc' \in {"invoking", "invoked"} => active = Op,
           pc' = "settled" => active = None
    PROVE  IInv'
<1>1. WorkType' /\ RestType'
  BY DEF IInv, WorkType, RestType
<1>2. ActiveFits' /\ HolderFits'
  BY DEF IInv, ActiveFits, HolderFits, Op, workflow, counters, subject
<1>3. EffectsFit' /\ EvidenceHolds'
  BY DEF IInv, EffectsFit, EvidenceHolds, PassingTest, AcceptedReview, workflow, subject
<1> QED BY <1>1, <1>2, <1>3, StageStep

LEMMA CheckStageKeeps == ASSUME IInv, CheckStage PROVE IInv'
<1>1. crashes \in 0..MaxCrashes /\ invocation \in BOOLEAN
  BY DEF IInv, RestType, WorkType
<1> QED BY <1>1, PcStep DEF CheckStage, Goto, work

LEMMA ReplayKeeps == ASSUME IInv, Replay PROVE IInv'
<1>1. crashes \in 0..MaxCrashes /\ invocation \in BOOLEAN
  BY DEF IInv, RestType, WorkType
<1>2. state \in Working /\ ops[Op].status = "done"
  BY DEF Replay, Row, IInv, HolderFits
<1>3. active = None
  BY <1>2, OpHere, OnlyHere DEF IInv, ActiveFits
<1> QED BY <1>1, <1>2, <1>3, PcStep DEF Replay, Goto, work

LEMMA SettleRefusedKeeps == ASSUME IInv, SettleRefused PROVE IInv'
<1>1. crashes \in 0..MaxCrashes /\ invocation \in BOOLEAN
  BY DEF IInv, RestType, WorkType
<1> QED BY <1>1, PcStep DEF SettleRefused, Goto, work

LEMMA CrashKeeps == ASSUME IInv, Crash PROVE IInv'
<1>1. crashes' \in 0..MaxCrashes /\ invocation \in BOOLEAN
  BY KernelAssumption DEF Crash, IInv, RestType, WorkType
<1> QED BY <1>1, PcStep DEF Crash, Goto, work

LEMMA InvocationKeeps == ASSUME IInv, StartInvocation \/ EndInvocation PROVE IInv'
<1>1. crashes \in 0..MaxCrashes
  BY DEF IInv, RestType
<1>2. state \in Working /\ active = Op
  BY DEF IInv, HolderFits, StartInvocation, EndInvocation
<1> QED BY <1>1, <1>2, PcStep DEF StartInvocation, EndInvocation, Goto

(* The row of the operation at hand is written. *)
LEMMA RowStep ==
    ASSUME IInv, state \in Working, NEW row \in Rows, ops' = [ops EXCEPT ![Op] = row],
           \/ row.status = "started" /\ active' = Op /\ pc' = "started"
           \/ row.status = "done" /\ active' = None /\ pc' = "settled",
           pc' = "started" /\ state = "READY_FOR_PR" => effects[evidence.action] = "none",
           UNCHANGED <<workflow, counters, subject, invocation, effects, recovery, crashes>>
    PROVE  IInv'
<1>1. Op \in Operations /\ Op # None /\ Op' = Op
  BY OpHere DEF Op, workflow, counters, subject
<1>2. /\ ops' \in [Operations -> Rows] /\ ops'[Op] = row
      /\ \A o \in Operations \ {Op} : ops'[o] = ops[o]
  BY <1>1 DEF IInv, WorkType
<1>3. WorkType' /\ RestType'
  BY <1>1, <1>2 DEF IInv, WorkType, RestType
<1>4. ActiveFits'
  <2>1. \A o \in Operations : ops'[o].status = "started" <=> o = active'
    BY <1>1, <1>2, OnlyHere, NoneIsNoOperation
  <2> QED BY <1>1, <2>1 DEF ActiveFits, workflow, Working
<1>5. HolderFits'
  BY <1>1 DEF HolderFits, workflow
<1>6. EffectsFit'
  BY <1>2, <1>1, OpHere DEF IInv, EffectsFit, WorkType, workflow, subject, Operations, Slots, Attempts, Evidence
<1>7. EvidenceHolds'
  <2> SUFFICES ASSUME state = "READY_FOR_PR" PROVE PassingTest' /\ AcceptedReview'
    BY DEF EvidenceHolds, workflow
  <2>1. <<"tests", evidence.test>> \in Operations /\ <<"review", evidence.review>> \in Operations
    BY KernelAssumption DEF IInv, Evidence, Operations, Stages, Slots, Attempts
  <2>2. /\ ops'[<<"tests", evidence.test>>] = ops[<<"tests", evidence.test>>]
        /\ ops'[<<"review", evidence.review>>] = ops[<<"review", evidence.review>>]
    BY <1>2, <2>1, OpHere
  <2>3. PassingTest /\ AcceptedReview
    BY DEF IInv, EvidenceHolds
  <2> QED BY <2>2, <2>3 DEF PassingTest, AcceptedReview, subject
<1> QED BY <1>3, <1>4, <1>5, <1>6, <1>7, StageStep

(* A result is recorded, whatever the operation's row said before. *)
LEMMA ResultStep ==
    ASSUME IInv, state \in Working, NEW result \in Outcomes, Done(result),
           active' = None, Goto("settled"),
           UNCHANGED <<workflow, counters, subject, invocation, effects, recovery, crashes>>
    PROVE  IInv'
<1> DEFINE row == [ops[Op] EXCEPT !.status = "done", !.result = result]
<1>1. Op \in Operations /\ ops[Op] \in Rows /\ ops \in [Operations -> Rows]
  BY OpHere DEF IInv, WorkType
<1>2. row \in Rows /\ row.status = "done"
  BY <1>1 DEF Rows
<1>3. ops' = [ops EXCEPT ![Op] = row]
  BY <1>1 DEF Done
<1>4. pc' = "settled"
  BY DEF Goto
<1> HIDE DEF row
<1> QED BY <1>2, <1>3, <1>4, RowStep

LEMMA EffectIsOutcome ==
    ASSUME IInv, state = "READY_FOR_PR"
    PROVE  evidence.action \in 1..MaxAttempts /\ effects[evidence.action] \in Outcomes
<1>1. evidence.action \in 1..MaxAttempts
  BY KernelAssumption DEF IInv, AttemptFits, Evidence, Attempts
<1>2. effects[evidence.action] \in {"none", "succeeded", "failed"}
  BY <1>1 DEF IInv, WorkType
<1> QED BY <1>1, <1>2 DEF Outcomes

LEMMA ReconcileKeeps == ASSUME IInv, Reconcile PROVE IInv'
<1>1. state \in Working /\ state = "READY_FOR_PR"
  BY DEF Reconcile, Effected, Working
<1> QED BY <1>1, EffectIsOutcome, ResultStep DEF Reconcile

LEMMA FinishExternalKeeps == ASSUME IInv, FinishExternal PROVE IInv'
<1>1. state \in Working /\ state = "READY_FOR_PR"
  BY DEF FinishExternal, IInv, HolderFits, Working
<1> QED BY <1>1, EffectIsOutcome, ResultStep DEF FinishExternal

LEMMA FinishOperationKeeps == ASSUME IInv, NEW r, FinishOperation(r) PROVE IInv'
<1>1. state \in Working
  BY DEF FinishOperation, Results, Working
<1>2. r \in Outcomes
  BY DEF FinishOperation, Results, Outcomes
<1> QED BY <1>1, <1>2, ResultStep DEF FinishOperation

LEMMA FailOperationKeeps == ASSUME IInv, FailOperation PROVE IInv'
<1>1. state \in Working /\ "error" \in Outcomes
  BY DEF FailOperation, IInv, HolderFits, Outcomes
<1> QED BY <1>1, ResultStep DEF FailOperation

LEMMA StartOperationKeeps == ASSUME IInv, StartOperation PROVE IInv'
<1> DEFINE row == [status |-> "started", result |-> "none",
                   patch |-> evidence.patch, test |-> evidence.test]
<1>1. state \in Working /\ ops[Op].status = "none"
  BY DEF StartOperation, Row, IInv, HolderFits
<1>2. row \in Rows /\ row.status = "started"
  BY DEF IInv, Evidence, Rows, Outcomes
<1>3. state = "READY_FOR_PR" => effects[evidence.action] = "none"
  <2> SUFFICES ASSUME state = "READY_FOR_PR", effects[evidence.action] # "none" PROVE FALSE
    OBVIOUS
  <2>1. evidence.action \in 1..MaxAttempts /\ Op = <<"external_action", evidence.action>>
    BY <1>1, OpHere, EffectIsOutcome
  <2> QED BY <1>1, <2>1 DEF IInv, EffectsFit
<1>4. ops' = [ops EXCEPT ![Op] = row] /\ active' = Op /\ pc' = "started"
  BY DEF StartOperation, Goto
<1>5. UNCHANGED <<workflow, counters, subject, invocation, effects, recovery, crashes>>
  BY DEF StartOperation
<1> HIDE DEF row
<1> QED BY <1>1, <1>2, <1>3, <1>4, <1>5, RowStep

(* The effect of an action whose operation is unresolved, and had none.    *)
LEMMA ApplyEffectKeeps ==
    ASSUME IInv, NEW outcome \in {"succeeded", "failed"}, ApplyEffect(outcome)
    PROVE  IInv'
<1>1. /\ state = "READY_FOR_PR" /\ pc' = "effected"
      /\ effects' = [effects EXCEPT ![evidence.action] = outcome]
      /\ UNCHANGED <<workflow, counters, subject, ops, active, invocation, recovery, crashes>>
  BY DEF ApplyEffect, Goto
<1>2. evidence.action \in 1..MaxAttempts
  BY <1>1, EffectIsOutcome
<1>3. active = Op /\ Op \in Operations /\ Op = <<"external_action", evidence.action>>
  BY <1>1, OpHere DEF ApplyEffect, IInv, HolderFits, Working
<1>4. ops[<<"external_action", evidence.action>>].status = "started"
  BY <1>3 DEF IInv, ActiveFits
<1>5. WorkType' /\ RestType'
  BY <1>1, <1>2 DEF IInv, WorkType, RestType
<1>6. ActiveFits' /\ HolderFits'
  BY <1>1, <1>3 DEF IInv, ActiveFits, HolderFits, Op, Working, workflow, counters, subject
<1>7. EffectsFit'
  BY <1>1, <1>2, <1>4 DEF IInv, EffectsFit, WorkType, workflow, subject
<1>8. EvidenceHolds'
  BY <1>1 DEF IInv, EvidenceHolds, PassingTest, AcceptedReview, workflow, subject
<1> QED BY <1>1, <1>5, <1>6, <1>7, <1>8, StageStep

-----------------------------------------------------------------------------
(* Transitions. *)

NoEffect == \A a \in 1..MaxAttempts : effects[a] = "none"

LEMMA NoEffectBefore ==
    ASSUME IInv, state \notin {"READY_FOR_PR", "PR_CREATED", "COMPLETED", "FAILED", "CANCELLED"}
    PROVE  NoEffect
BY DEF IInv, EffectsFit, NoEffect

LEMMA TransitionDoes ==
    ASSUME IInv, NEW target, Transition(target), target = "BLOCKED" => state \in Working
    PROVE  state' = target /\ revision' \in Nat /\ resume' \in Working \cup {None}
BY DEF Transition, IInv, WorkflowType

(* The lock's holder leaves work as it is and the task somewhere else. *)
LEMMA WorkRests ==
    ASSUME IInv, UNCHANGED <<work, recovery, crashes>>, pc' = "idle",
           state' = "BLOCKED" <=> active # None
    PROVE  WorkType' /\ RestType' /\ ActiveFits' /\ HolderFits'
<1>1. WorkType' /\ RestType'
  BY DEF IInv, WorkType, RestType, work
<1>2. ActiveFits'
  BY DEF IInv, ActiveFits, work, Working
<1> QED BY <1>1, <1>2 DEF HolderFits

LEMMA EffectsRest ==
    ASSUME IInv, UNCHANGED work, pc' = "idle",
           \/ NoEffect
           \/ state' \in {"PR_CREATED", "COMPLETED", "FAILED"} /\ evidence'.action = evidence.action
           \/ state' = "CANCELLED" /\ evidence'.action = evidence.action /\ Succeeded = {}
    PROVE  EffectsFit'
<1>1. Succeeded = {} => \A a \in 1..MaxAttempts : effects[a] # "succeeded"
  BY DEF Succeeded, IInv, WorkType
<1> QED BY <1>1 DEF IInv, EffectsFit, NoEffect, work

(* What a person approved is still on record, of the same plan. *)
LEMMA PlanStays ==
    ASSUME IInv, state' \in AfterPlan => state \in AfterPlan, evidence'.plan = evidence.plan,
           \A r \in DOMAIN requests :
               r \in DOMAIN requests' /\ (requests[r].decision = "approve" => requests'[r] = requests[r])
    PROVE  PlanWasApproved'
<1> SUFFICES ASSUME state' \in AfterPlan PROVE PlanWasApproved'
  BY DEF PlanWasApproved
<1>1. PICK r \in DOMAIN requests :
         requests[r].kind = "plan" /\ requests[r].decision = "approve" /\ requests[r].about = <<evidence.plan>>
  BY DEF IInv, PlanWasApproved
<1> QED BY <1>1 DEF PlanWasApproved

(* A step to another state that asks nobody anything. *)
LEMMA MoveStep ==
    ASSUME IInv, NEW target \in States, state' = target, revision' \in Nat,
           resume' \in Working \cup {None}, attempt' \in Attempts,
           evidence' \in Evidence, evidence'.plan = evidence.plan, pending' \in Requests,
           UNCHANGED <<planning, requests, current, approval, expired, work, recovery, crashes>>,
           pc' = "idle", target = "BLOCKED" <=> active # None,
           target # "READY_FOR_PR", target \in AfterPlan => state \in AfterPlan, AttemptFits',
           \/ NoEffect
           \/ target \in {"PR_CREATED", "COMPLETED", "FAILED"} /\ evidence'.action = evidence.action
           \/ target = "CANCELLED" /\ evidence'.action = evidence.action /\ Succeeded = {}
    PROVE  IInv'
<1>1. WorkflowType'
  BY DEF IInv, WorkflowType
<1>2. RequestType' /\ ApprovalsFit'
  BY DEF IInv, RequestType, Requests, ApprovalsFit
<1>3. WorkType' /\ RestType' /\ ActiveFits' /\ HolderFits'
  BY WorkRests
<1>4. EffectsFit'
  BY EffectsRest
<1>5. PlanWasApproved'
  BY PlanStays
<1>6. EvidenceHolds'
  BY DEF EvidenceHolds
<1> QED BY <1>1, <1>2, <1>3, <1>4, <1>5, <1>6 DEF IInv, Evidence

(* Where every transition of the kind starts from. *)
LEMMA Here ==
    ASSUME IInv
    PROVE  /\ attempt \in Attempts /\ pending \in Requests /\ evidence \in Evidence
           /\ state \notin Working \cup {"BLOCKED"} => active = None
           /\ pc = "settled" => active = None /\ state \in Working
BY DEF IInv, WorkflowType, RequestType, ActiveFits, HolderFits

LEMMA BeginPlanningKeeps == ASSUME IInv, BeginPlanning PROVE IInv'
<1>1. state = "SPEC_READY" /\ state' = "PLANNING" /\ revision' \in Nat /\ resume' \in Working \cup {None}
  BY TransitionDoes DEF BeginPlanning
<1>2. UNCHANGED <<counters, subject, work, recovery, pc, crashes>> /\ pc = "idle"
  BY DEF BeginPlanning
<1>3. AttemptFits' /\ NoEffect /\ active = None
  BY <1>1, <1>2, NoEffectBefore DEF IInv, AttemptFits, ActiveFits, counters, Working
<1> QED BY <1>1, <1>2, <1>3, Here, MoveStep DEF counters, subject, States, Working, AfterPlan

LEMMA BeginAttemptKeeps == ASSUME IInv, BeginAttempt PROVE IInv'
<1>1. /\ state = "READY_FOR_IMPLEMENTATION" /\ state' = "IMPLEMENTING"
      /\ revision' \in Nat /\ resume' \in Working \cup {None}
  BY TransitionDoes DEF BeginAttempt
<1>2. /\ attempt' = attempt + 1 /\ pc = "idle"
      /\ evidence' = [evidence EXCEPT !.patch = 0, !.test = 0, !.review = 0]
      /\ UNCHANGED <<planning, requests, current, approval, pending, expired, work, recovery, pc, crashes>>
  BY DEF BeginAttempt
<1>3. attempt' \in Attempts /\ attempt' # 0
  BY <1>1, <1>2, Here, KernelAssumption DEF IInv, AttemptFits, Attempts
<1>4. evidence' \in Evidence /\ evidence'.plan = evidence.plan
  <2>1. 0 \in Attempts /\ evidence \in Evidence
    BY Here, KernelAssumption DEF Attempts
  <2> QED BY <1>2, <2>1 DEF Evidence
<1>5. AttemptFits' /\ NoEffect /\ active = None
  BY <1>1, <1>3, Here, NoEffectBefore DEF AttemptFits, Working
<1> QED BY <1>1, <1>2, <1>3, <1>4, <1>5, Here, MoveStep DEF States, Working, AfterPlan, Requests

LEMMA RetryOrFailKeeps == ASSUME IInv, RetryOrFail PROVE IInv'
<1>1. /\ state = "CHANGES_REQUESTED" /\ state' \in {"FAILED", "READY_FOR_IMPLEMENTATION"}
      /\ state' = "READY_FOR_IMPLEMENTATION" => ~Exhausted
      /\ revision' \in Nat /\ resume' \in Working \cup {None}
  BY TransitionDoes DEF RetryOrFail
<1>2. UNCHANGED <<counters, subject, work, recovery, pc, crashes>> /\ pc = "idle"
  BY DEF RetryOrFail
<1>3. AttemptFits' /\ NoEffect /\ active = None
  BY <1>1, <1>2, Here, NoEffectBefore, KernelAssumption DEF AttemptFits, Exhausted, Attempts, counters, Working
<1> QED BY <1>1, <1>2, <1>3, Here, MoveStep DEF counters, subject, States, Paused, Terminal, AfterPlan, Requests

LEMMA CompleteKeeps == ASSUME IInv, Complete PROVE IInv'
<1>1. /\ state = "PR_CREATED" /\ state' = "COMPLETED"
      /\ revision' \in Nat /\ resume' \in Working \cup {None}
  BY TransitionDoes DEF Complete
<1>2. UNCHANGED <<counters, subject, work, recovery, pc, crashes>> /\ pc = "idle"
  BY DEF Complete
<1>3. AttemptFits' /\ active = None
  BY <1>1, Here DEF AttemptFits, Working
<1> QED BY <1>1, <1>2, <1>3, Here, MoveStep DEF counters, subject, States, Paused, Terminal, AfterPlan, Requests

(* What cannot be judged blocks the task, its operation still active. *)
LEMMA BlockStep ==
    ASSUME IInv, state \in Working, active # None, NoEffect, Transition("BLOCKED"), pc' = "idle",
           UNCHANGED <<counters, subject, work, recovery, crashes>>
    PROVE  IInv'
<1>1. state' = "BLOCKED" /\ revision' \in Nat /\ resume' \in Working \cup {None}
  BY TransitionDoes
<1>2. AttemptFits'
  BY <1>1 DEF AttemptFits
<1> QED BY <1>1, <1>2, Here, MoveStep DEF counters, subject, States, Paused, AfterPlan, Requests

LEMMA BlockUnresolvedKeeps == ASSUME IInv, BlockUnresolved PROVE IInv'
<1>1. state \in Working /\ ops[Op].status = "started" /\ ~Effected
  BY DEF BlockUnresolved, Row, IInv, HolderFits
<1>2. active # None
  BY <1>1, OpHere DEF IInv, ActiveFits
<1>3. NoEffect
  <2>1. CASE state = "READY_FOR_PR"
    BY <1>1, <2>1 DEF Effected, NoEffect, IInv, EffectsFit
  <2>2. CASE state # "READY_FOR_PR"
    BY <1>1, <2>2, NoEffectBefore DEF Working
  <2> QED BY <2>1, <2>2
<1> QED BY <1>1, <1>2, <1>3, BlockStep DEF BlockUnresolved, Goto

LEMMA LoseBrokerKeeps == ASSUME IInv, LoseBroker PROVE IInv'
<1>1. state \in {"IMPLEMENTING", "TESTING"} /\ active = Op
  BY DEF LoseBroker, IInv, HolderFits
<1>2. active # None /\ NoEffect
  BY <1>1, OpHere, NoEffectBefore DEF Working
<1> QED BY <1>1, <1>2, BlockStep DEF LoseBroker, Goto, Working

LEMMA CancelKeeps == ASSUME IInv, Cancel PROVE IInv'
<1>1. /\ state' = "CANCELLED" /\ pending' = 0 /\ resume' = None /\ revision' = revision + 1
      /\ active = None /\ Succeeded = {} /\ pc = "idle"
      /\ UNCHANGED <<counters, evidence, requests, current, approval, expired, work, recovery, pc, crashes>>
  BY DEF Cancel, Cancellable, Quiet, Deciding
<1>2. revision' \in Nat /\ pending' \in Requests
  BY <1>1 DEF IInv, WorkflowType, RequestType, Requests
<1>3. AttemptFits'
  BY <1>1 DEF AttemptFits
<1> QED BY <1>1, <1>2, <1>3, Here, MoveStep DEF counters, States, Paused, Terminal, AfterPlan

(* A settled operation's transition that asks nobody anything. *)
LEMMA SettleStep ==
    ASSUME IInv, pc = "settled", NEW target \in States \ {"BLOCKED", "READY_FOR_PR"}, Transition(target),
           evidence' \in Evidence, evidence'.plan = evidence.plan, pc' = "idle",
           UNCHANGED <<counters, requests, current, approval, pending, expired, work, recovery, crashes>>,
           target \in AfterPlan => state \in AfterPlan, AttemptFits',
           NoEffect \/ (target \in {"PR_CREATED", "FAILED"} /\ evidence'.action = evidence.action)
    PROVE  IInv'
<1>1. state' = target /\ revision' \in Nat /\ resume' \in Working \cup {None}
  BY TransitionDoes
<1>2. active = None /\ attempt \in Attempts /\ pending \in Requests
  BY Here
<1>3. pending' \in Requests /\ attempt' \in Attempts /\ UNCHANGED planning
  BY <1>2 DEF counters, Requests
<1> QED BY <1>1, <1>2, <1>3, MoveStep

LEMMA SettlePatchKeeps == ASSUME IInv, SettlePatch, pc' = "idle" PROVE IInv'
<1>1. /\ pc = "settled" /\ state = "IMPLEMENTING" /\ Transition("TESTING") /\ state' = "TESTING"
      /\ evidence' = [evidence EXCEPT !.patch = attempt]
      /\ UNCHANGED <<counters, requests, current, approval, pending, expired, work, recovery, crashes>>
  BY TransitionDoes DEF SettlePatch, Settling
<1>2. evidence' \in Evidence /\ evidence'.plan = evidence.plan
  BY <1>1, Here DEF Evidence
<1>3. AttemptFits' /\ NoEffect
  BY <1>1, NoEffectBefore DEF IInv, AttemptFits, counters
<1>4. "TESTING" \in States \ {"BLOCKED", "READY_FOR_PR"} /\ state \in AfterPlan
  BY <1>1 DEF States, Working, AfterPlan
<1> QED BY <1>1, <1>2, <1>3, <1>4, SettleStep

LEMMA SettleTestKeeps == ASSUME IInv, SettleTest, pc' = "idle" PROVE IInv'
<1>1. /\ pc = "settled" /\ state = "TESTING"
      /\ evidence' = [evidence EXCEPT !.test = attempt]
      /\ UNCHANGED <<counters, requests, current, approval, pending, expired, work, recovery, crashes>>
  BY DEF SettleTest, Settling
<1>2. PICK target \in {"REVIEWING", "CHANGES_REQUESTED"} : Transition(target)
  BY DEF SettleTest
<1>3. evidence' \in Evidence /\ evidence'.plan = evidence.plan
  BY <1>1, Here DEF Evidence
<1>4. AttemptFits' /\ NoEffect
  BY <1>1, <1>2, NoEffectBefore, TransitionDoes DEF IInv, AttemptFits, counters
<1>5. target \in States \ {"BLOCKED", "READY_FOR_PR"} /\ state \in AfterPlan
  BY <1>1, <1>2 DEF States, Working, AfterPlan
<1> QED BY <1>1, <1>2, <1>3, <1>4, <1>5, SettleStep

LEMMA SettleChangesKeeps == ASSUME IInv, SettleChanges, pc' = "idle" PROVE IInv'
<1>1. pc = "settled" /\ state \in {"IMPLEMENTING", "TESTING", "REVIEWING"}
  BY DEF SettleChanges, Settling
<1>2. PICK target \in {"CHANGES_REQUESTED"} : Transition(target)
  BY DEF SettleChanges
<1>3. UNCHANGED <<counters, requests, current, approval, pending, expired, work, recovery, crashes>>
  BY DEF SettleChanges
<1>4. evidence' \in Evidence /\ evidence'.plan = evidence.plan /\ evidence'.action = evidence.action
  BY Here DEF SettleChanges, Evidence
<1>5. AttemptFits' /\ NoEffect
  BY <1>1, <1>2, NoEffectBefore, TransitionDoes DEF AttemptFits
<1>6. target \in States \ {"BLOCKED", "READY_FOR_PR"} /\ state \in AfterPlan
  BY <1>1, <1>2 DEF States, AfterPlan
<1> QED BY <1>1, <1>2, <1>3, <1>4, <1>5, <1>6, SettleStep

LEMMA SettleExternalKeeps == ASSUME IInv, SettleExternal, pc' = "idle" PROVE IInv'
<1>1. /\ pc = "settled" /\ state = "READY_FOR_PR"
      /\ evidence' = [evidence EXCEPT !.external = evidence.action]
      /\ UNCHANGED <<counters, requests, current, approval, pending, expired, work, recovery, crashes>>
  BY DEF SettleExternal, Settling
<1>2. PICK target \in {"PR_CREATED", "FAILED"} : Transition(target)
  BY DEF SettleExternal
<1>3. evidence' \in Evidence /\ evidence'.plan = evidence.plan /\ evidence'.action = evidence.action
  BY <1>1, Here DEF Evidence
<1>4. AttemptFits'
  BY <1>1, <1>2, TransitionDoes DEF AttemptFits
<1>5. target \in States \ {"BLOCKED", "READY_FOR_PR"} /\ state \in AfterPlan
  BY <1>1, <1>2 DEF States, Paused, Terminal, AfterPlan
<1> QED BY <1>1, <1>2, <1>3, <1>4, <1>5, SettleStep

LEMMA SettleFailedKeeps == ASSUME IInv, SettleFailed, pc' = "idle" PROVE IInv'
<1>1. /\ pc = "settled" /\ state' = "FAILED" /\ Transition("FAILED")
      /\ UNCHANGED <<counters, subject, work, recovery, crashes>>
  BY TransitionDoes DEF SettleFailed, Settling
<1>2. AttemptFits'
  BY <1>1 DEF AttemptFits
<1>3. "FAILED" \in States \ {"BLOCKED", "READY_FOR_PR"} /\ "FAILED" \notin AfterPlan
  BY DEF States, Paused, Terminal, AfterPlan
<1> QED BY <1>1, <1>2, <1>3, Here, SettleStep DEF subject, Evidence, Attempts

-----------------------------------------------------------------------------
(* Transitions that ask a person, and a person's. *)

LEMMA SubjectIsNumbers ==
    ASSUME NEW kind \in Kinds, evidence' \in Evidence
    PROVE  Subject(kind)' \in Seq(Nat)
<1>1. /\ evidence'.plan \in Nat /\ evidence'.patch \in Nat /\ evidence'.test \in Nat
      /\ evidence'.review \in Nat /\ evidence'.action \in Nat
  BY KernelAssumption DEF Evidence, Attempts
<1> QED BY <1>1 DEF Subject

LEMMA AskStep ==
    ASSUME IInv, NEW kind \in Kinds, Request(kind), evidence' \in Evidence, expired' = expired
    PROVE  /\ RequestType' /\ ApprovalsFit'
           /\ \A r \in DOMAIN requests : r \in DOMAIN requests' /\ requests'[r] = requests[r]
<1> DEFINE asked == [kind |-> kind, about |-> Subject(kind)', revision |-> revision + 1, decision |-> "none"]
<1>1. asked \in Documents
  BY SubjectIsNumbers DEF Documents, IInv, WorkflowType
<1>2. requests \in Seq(Documents) /\ requests' = Append(requests, asked)
  BY DEF Request, IInv, RequestType
<1> HIDE DEF asked
<1>3. /\ requests' \in Seq(Documents) /\ Len(requests') = Len(requests) + 1
      /\ \A r \in DOMAIN requests : r \in DOMAIN requests' /\ requests'[r] = requests[r]
  BY <1>1, <1>2
<1>4. Len(requests) \in Nat
  BY <1>2
<1>5. RequestType'
  BY <1>3, <1>4 DEF Request, IInv, RequestType, Requests
<1>6. ApprovalsFit'
  <2> SUFFICES ASSUME NEW k \in Kinds, approval'[k] # 0 PROVE requests'[approval'[k]].kind = k
    BY DEF ApprovalsFit
  <2>1. approval[k] \in Requests /\ approval'[k] = approval[k] /\ requests[approval[k]].kind = k
    BY DEF Request, IInv, RequestType, ApprovalsFit
  <2>2. approval[k] \in DOMAIN requests
    BY <1>2, <1>4, <2>1 DEF Requests
  <2> QED BY <1>3, <2>1, <2>2
<1> QED BY <1>3, <1>5, <1>6

LEMMA SettlePlanKeeps == ASSUME IInv, SettlePlan, pc' = "idle" PROVE IInv'
<1>1. /\ pc = "settled" /\ state = "PLANNING" /\ Request("plan")
      /\ evidence' = [evidence EXCEPT !.plan = planning + 1]
      /\ UNCHANGED <<counters, expired, work, recovery, crashes>>
      /\ Transition("AWAITING_PLAN_APPROVAL")
  BY DEF SettlePlan, Settling
<1>2. /\ state' = "AWAITING_PLAN_APPROVAL" /\ revision' \in Nat /\ resume' \in Working \cup {None}
  BY <1>1, TransitionDoes
<1>3. evidence' \in Evidence
  <2>1. planning + 1 \in 0..(MaxPlannings + 1) /\ evidence \in Evidence
    BY KernelAssumption DEF IInv, WorkflowType
  <2> QED BY <1>1, <2>1 DEF Evidence
<1>4. RequestType' /\ ApprovalsFit'
  BY <1>1, <1>3, AskStep DEF Kinds
<1>5. WorkflowType'
  BY <1>1, <1>2 DEF IInv, WorkflowType, counters, States, Paused, Attempts
<1>6. active = None /\ NoEffect
  BY <1>1, Here, NoEffectBefore
<1>7. WorkType' /\ RestType' /\ ActiveFits' /\ HolderFits' /\ EffectsFit'
  BY <1>1, <1>2, <1>6, WorkRests, EffectsRest
<1>8. AttemptFits' /\ EvidenceHolds' /\ PlanWasApproved'
  BY <1>1, <1>2 DEF IInv, AttemptFits, EvidenceHolds, PlanWasApproved, AfterPlan, counters
<1> QED BY <1>3, <1>4, <1>5, <1>7, <1>8 DEF IInv, Evidence, Attempts

LEMMA SettleReviewKeeps == ASSUME IInv, SettleReview, pc' = "idle" PROVE IInv'
<1>1. /\ pc = "settled" /\ state = "REVIEWING" /\ Request("action")
      /\ evidence' = [evidence EXCEPT !.review = attempt, !.action = attempt]
      /\ UNCHANGED <<counters, expired, work, recovery, crashes>>
      /\ Transition("AWAITING_ACTION_APPROVAL")
  BY DEF SettleReview, Settling
<1>2. /\ state' = "AWAITING_ACTION_APPROVAL" /\ revision' \in Nat /\ resume' \in Working \cup {None}
  BY <1>1, TransitionDoes
<1>3. evidence' \in Evidence /\ evidence'.plan = evidence.plan /\ evidence'.action = attempt
  BY <1>1, Here DEF Evidence
<1>4. RequestType' /\ ApprovalsFit'
  BY <1>1, <1>3, AskStep DEF Kinds
<1>5. \A r \in DOMAIN requests : r \in DOMAIN requests' /\ requests'[r] = requests[r]
  BY <1>1, <1>3, AskStep DEF Kinds
<1>6. WorkflowType'
  BY <1>1, <1>2 DEF IInv, WorkflowType, counters, States, Paused, Attempts
<1>7. active = None /\ NoEffect
  BY <1>1, Here, NoEffectBefore
<1>8. WorkType' /\ RestType' /\ ActiveFits' /\ HolderFits' /\ EffectsFit'
  BY <1>1, <1>2, <1>7, WorkRests, EffectsRest
<1>9. AttemptFits' /\ EvidenceHolds'
  BY <1>1, <1>2, <1>3 DEF IInv, AttemptFits, EvidenceHolds, counters
<1>10. PlanWasApproved'
  <2>1. state \in AfterPlan
    BY <1>1 DEF AfterPlan
  <2> QED BY <1>3, <1>5, <2>1, PlanStays
<1> QED BY <1>3, <1>4, <1>6, <1>8, <1>9, <1>10 DEF IInv, Evidence, Attempts

(* The plan an approval in force is about was approved by a person. *)
LEMMA ApprovedIsOnRecord ==
    ASSUME RequestType', ApprovalsFit', Approved("plan")'
    PROVE  PlanWasApproved'
<1> DEFINE r == approval'["plan"]
<1>1. "plan" \in Kinds /\ r # 0 /\ r \in Requests'
  BY DEF RequestType, Approved, Kinds
<1>2. r \in DOMAIN requests'
  BY <1>1 DEF RequestType, Requests
<1>3. requests'[r].kind = "plan"
  BY <1>1 DEF ApprovalsFit
<1>4. requests'[r].decision = "approve" /\ requests'[r].about = <<evidence'.plan>>
  BY DEF Approved, Subject
<1> QED BY <1>2, <1>3, <1>4 DEF PlanWasApproved

LEMMA RequestHere ==
    ASSUME IInv, NEW r \in DOMAIN requests
    PROVE  /\ requests \in Seq(Documents) /\ Len(requests) \in Nat /\ r \in 1..Len(requests)
           /\ requests[r] \in Documents /\ requests[r].kind \in Kinds
<1>1. requests \in Seq(Documents)
  BY DEF IInv, RequestType
<1>2. Len(requests) \in Nat /\ r \in 1..Len(requests) /\ requests[r] \in Documents
  BY <1>1
<1> QED BY <1>1, <1>2 DEF Documents

LEMMA DecisionStep ==
    ASSUME IInv, NEW r \in DOMAIN requests, NEW decision \in {"approve", "reject"},
           Approve(r, decision)
    PROVE  /\ RequestType' /\ ApprovalsFit'
           /\ \A q \in DOMAIN requests :
                  q \in DOMAIN requests' /\ (requests[q].decision = "approve" => requests'[q] = requests[q])
<1> DEFINE kind == requests[r].kind
<1>1. /\ requests' = [requests EXCEPT ![r].decision = decision] /\ requests[r].decision = "none"
      /\ approval' = [approval EXCEPT ![kind] = r] /\ pending' = 0
      /\ UNCHANGED <<current, expired>>
  BY DEF Approve, Decidable
<1>2. /\ requests \in Seq(Documents) /\ requests[r] \in Documents /\ kind \in Kinds
      /\ r \in Requests /\ r # 0 /\ Len(requests) \in Nat
  BY RequestHere DEF Requests
<1>3. [requests[r] EXCEPT !.decision = decision] \in Documents
  BY <1>2 DEF Documents
<1>4. /\ requests' \in Seq(Documents) /\ Len(requests') = Len(requests)
      /\ DOMAIN requests' = DOMAIN requests /\ requests'[r].kind = kind
      /\ \A q \in DOMAIN requests : q # r => requests'[q] = requests[q]
  <2> DEFINE decided == [requests[r] EXCEPT !.decision = decision]
  <2>1. requests' = [requests EXCEPT ![r] = decided] /\ decided.kind = kind
    BY <1>1, <1>2 DEF Documents
  <2>2. decided \in Documents
    BY <1>3
  <2> HIDE DEF decided, kind
  <2> QED BY <1>2, <2>1, <2>2
<1>5. RequestType'
  BY <1>1, <1>2, <1>4 DEF IInv, RequestType, Requests
<1>6. ApprovalsFit'
  <2> SUFFICES ASSUME NEW k \in Kinds, approval'[k] # 0 PROVE requests'[approval'[k]].kind = k
    BY DEF ApprovalsFit
  <2>1. CASE k = kind
    BY <1>1, <1>2, <1>4, <2>1 DEF IInv, RequestType
  <2>2. CASE k # kind
    <3>1. approval'[k] = approval[k] /\ approval[k] \in Requests /\ requests[approval[k]].kind = k
      BY <1>1, <2>2 DEF IInv, RequestType, ApprovalsFit
    <3>2. approval[k] \in DOMAIN requests /\ approval[k] # r
      BY <1>2, <2>2, <3>1 DEF Requests
    <3> QED BY <1>4, <3>1, <3>2
  <2> QED BY <2>1, <2>2
<1> QED BY <1>1, <1>4, <1>5, <1>6

LEMMA ApproveKeeps ==
    ASSUME IInv, NEW r \in DOMAIN requests, NEW decision \in {"approve", "reject"},
           Approve(r, decision)
    PROVE  IInv'
<1> DEFINE kind == requests[r].kind
<1>1. /\ pc = "idle" /\ state = AwaitingOf(kind) /\ kind \in Kinds
      /\ UNCHANGED <<attempt, evidence, work, recovery, pc, crashes>>
  BY RequestHere DEF Approve, Deciding, Decidable
<1>2. RequestType' /\ ApprovalsFit'
  BY DecisionStep
<1>3. state \in {"AWAITING_PLAN_APPROVAL", "AWAITING_ACTION_APPROVAL"} /\ active = None /\ NoEffect
  BY <1>1, Here, NoEffectBefore DEF AwaitingOf, Working
<1>4. PICK target \in {"READY_FOR_IMPLEMENTATION", "PLANNING", "READY_FOR_PR", "CHANGES_REQUESTED"} :
         /\ Transition(target)
         /\ target \in {"READY_FOR_IMPLEMENTATION", "PLANNING"} <=> kind = "plan"
         /\ UNCHANGED planning \/ (planning' = planning + 1 /\ planning' < MaxPlannings)
  BY <1>1 DEF Approve, Kinds
<1>5. state' = target /\ revision' \in Nat /\ resume' \in Working \cup {None} /\ Guarded(target)'
  BY <1>4, TransitionDoes DEF Transition
<1>6. WorkflowType'
  <2>1. planning' \in 0..MaxPlannings
    BY <1>4, KernelAssumption DEF IInv, WorkflowType
  <2> QED BY <1>1, <1>4, <1>5, <2>1 DEF IInv, WorkflowType, States, Working, Paused, Attempts
<1>7. WorkType' /\ RestType' /\ ActiveFits' /\ HolderFits' /\ EffectsFit'
  BY <1>1, <1>3, <1>4, <1>5, WorkRests, EffectsRest
<1>8. AttemptFits'
  BY <1>1, <1>4, <1>5, KernelAssumption DEF IInv, AttemptFits, AwaitingOf, Kinds
<1>9. EvidenceHolds'
  BY <1>5 DEF EvidenceHolds, Guarded
<1>10. PlanWasApproved'
  <2>1. CASE target = "READY_FOR_IMPLEMENTATION"
    <3>1. Approved("plan")'
      BY <1>5, <2>1 DEF Guarded
    <3> QED BY <1>2, <3>1, ApprovedIsOnRecord
  <2>2. CASE target = "PLANNING"
    BY <1>5, <2>2 DEF PlanWasApproved, AfterPlan
  <2>3. CASE target \in {"READY_FOR_PR", "CHANGES_REQUESTED"}
    <3>1. state \in AfterPlan
      BY <1>1, <1>4, <2>3 DEF AwaitingOf, Kinds, AfterPlan
    <3> QED BY <1>1, <3>1, DecisionStep, PlanStays
  <2> QED BY <2>1, <2>2, <2>3
<1> QED BY <1>1, <1>2, <1>6, <1>7, <1>8, <1>9, <1>10 DEF IInv, Evidence, Attempts

(* A renewal leaves the task where it was, at the next revision. *)
LEMMA RenewKeeps == ASSUME IInv, NEW r \in DOMAIN requests, Renew(r) PROVE IInv'
<1>1. /\ pc = "idle" /\ state = AwaitingOf(requests[r].kind) /\ requests[r].kind \in Kinds
      /\ Request(requests[r].kind) /\ revision' = revision + 1
      /\ UNCHANGED <<state, resume, counters, evidence, expired, work, recovery, pc, crashes>>
  BY RequestHere DEF Renew, Renewable, Deciding
<1>2. evidence' \in Evidence
  BY <1>1, Here
<1>3. /\ RequestType' /\ ApprovalsFit'
      /\ \A q \in DOMAIN requests : q \in DOMAIN requests' /\ requests'[q] = requests[q]
  BY <1>1, <1>2, AskStep
<1>4. state \in {"AWAITING_PLAN_APPROVAL", "AWAITING_ACTION_APPROVAL"} /\ active = None /\ NoEffect
  BY <1>1, Here, NoEffectBefore DEF AwaitingOf, Working
<1>5. WorkflowType' /\ AttemptFits' /\ EvidenceHolds'
  BY <1>1, <1>4 DEF IInv, WorkflowType, AttemptFits, EvidenceHolds, counters, Attempts
<1>6. WorkType' /\ RestType' /\ ActiveFits' /\ HolderFits' /\ EffectsFit'
  BY <1>1, <1>4, WorkRests, EffectsRest
<1>7. PlanWasApproved'
  BY <1>1, <1>3, PlanStays
<1> QED BY <1>2, <1>3, <1>5, <1>6, <1>7 DEF IInv, Evidence, Attempts

LEMMA RecoverKeeps == ASSUME IInv, Recover PROVE IInv'
<1>1. /\ state = "BLOCKED" /\ active # None /\ Approved("plan") /\ Started = {active}
      /\ ops' = [ops EXCEPT ![active].status = "done", ![active].result = "error"]
      /\ active' = None /\ resume' = None /\ state' = "CHANGES_REQUESTED" /\ revision' = revision + 2
      /\ recovery' = [op |-> active, revision |-> revision + 2, cleanup |-> "pending"]
      /\ pc' = "cleaning" /\ UNCHANGED <<counters, subject, invocation, effects, crashes>>
  BY DEF Recover, Recoverable, Goto
<1>2. active \in Operations /\ ops \in [Operations -> Rows] /\ ops[active] \in Rows
  BY <1>1 DEF IInv, WorkType
<1>3. /\ ops' \in [Operations -> Rows] /\ ops'[active].status = "done"
      /\ \A o \in Operations \ {active} : ops'[o] = ops[o]
  <2>1. [ops[active] EXCEPT !.status = "done", !.result = "error"] \in Rows
    BY <1>2 DEF Rows, Outcomes
  <2> QED BY <1>1, <1>2, <2>1 DEF Rows
<1>4. WorkflowType' /\ AttemptFits' /\ EvidenceHolds'
  BY <1>1 DEF IInv, WorkflowType, AttemptFits, EvidenceHolds, counters, States, Attempts
<1>5. RequestType' /\ ApprovalsFit' /\ evidence' \in Evidence
  BY <1>1 DEF IInv, RequestType, Requests, ApprovalsFit, subject
<1>6. WorkType' /\ RestType'
  BY <1>1, <1>2, <1>3 DEF IInv, WorkflowType, WorkType, RestType
<1>7. ActiveFits'
  BY <1>1, <1>3, NoneIsNoOperation DEF IInv, ActiveFits
<1>8. HolderFits' /\ EffectsFit'
  BY <1>1, NoEffectBefore DEF HolderFits, EffectsFit, NoEffect
<1>9. PlanWasApproved'
  <2>1. PlanWasApproved /\ Approved("plan") /\ RequestType /\ ApprovalsFit
    BY <1>1 DEF IInv
  <2>2. Approved("plan")'
    BY <1>1 DEF Approved, Expired, Subject, subject
  <2> QED BY <1>5, <2>2, ApprovedIsOnRecord
<1> QED BY <1>4, <1>5, <1>6, <1>7, <1>8, <1>9 DEF IInv, Evidence, Attempts

LEMMA CleanupKeeps ==
    ASSUME IInv, NEW o \in {"completed", "deferred"}, RetryCleanup \/ FinishCleanup(o)
    PROVE  IInv'
<1>1. /\ UNCHANGED <<workflow, counters, subject, work, crashes>>
      /\ pc' = "idle" \/ (pc' = "cleaning" /\ state = "CHANGES_REQUESTED")
  <2>1. CASE RetryCleanup
    BY <2>1 DEF RetryCleanup, Goto
  <2>2. CASE FinishCleanup(o)
    BY <2>2 DEF FinishCleanup, Goto
  <2> QED BY <2>1, <2>2
<1>2. RestType'
  BY <1>1 DEF RetryCleanup, FinishCleanup, Goto, IInv, RestType
<1>3. WorkType' /\ ActiveFits' /\ HolderFits'
  BY <1>1 DEF IInv, WorkType, ActiveFits, HolderFits, Op, workflow, counters, subject, work
<1>4. EffectsFit' /\ EvidenceHolds'
  BY <1>1 DEF IInv, EffectsFit, EvidenceHolds, PassingTest, AcceptedReview, workflow, subject, work
<1> QED BY <1>1, <1>2, <1>3, <1>4, StageStep

LEMMA ExpireKeeps == ASSUME IInv, Expire PROVE IInv'
<1>1. /\ expired < Len(requests) /\ expired' = expired + 1
      /\ UNCHANGED <<workflow, counters, evidence, requests, current, approval, pending>>
      /\ UNCHANGED <<work, recovery, pc, crashes>>
  BY DEF Expire
<1>2. RequestType'
  BY <1>1 DEF IInv, RequestType, Requests
<1>3. WorkflowType' /\ AttemptFits' /\ ApprovalsFit' /\ PlanWasApproved' /\ evidence' \in Evidence
  BY <1>1 DEF IInv, WorkflowType, AttemptFits, ApprovalsFit, PlanWasApproved, workflow, counters
<1>4. WorkType' /\ RestType' /\ ActiveFits' /\ HolderFits'
  BY <1>1 DEF IInv, WorkType, RestType, ActiveFits, HolderFits, Op, workflow, counters, work
<1>5. EffectsFit' /\ EvidenceHolds'
  BY <1>1 DEF IInv, EffectsFit, EvidenceHolds, PassingTest, AcceptedReview, workflow, work
<1> QED BY <1>2, <1>3, <1>4, <1>5 DEF IInv, Evidence, Attempts

-----------------------------------------------------------------------------
LEMMA InitKeeps == Init => IInv
<1> SUFFICES ASSUME Init PROVE IInv
  OBVIOUS
<1>1. WorkflowType /\ evidence \in Evidence
  BY KernelAssumption DEF Init, WorkflowType, Evidence, States, Attempts
<1>2. RequestType /\ ApprovalsFit
  BY DEF Init, RequestType, Requests, ApprovalsFit, Kinds
<1>3. NoOp \in Rows /\ NoOp.status = "none"
  BY KernelAssumption DEF NoOp, Rows, Outcomes, Attempts
<1>4. WorkType
  BY <1>3 DEF Init, WorkType, Operations
<1>5. RestType
  BY KernelAssumption DEF Init, RestType
<1>6. ActiveFits
  BY <1>3, NoneIsNoOperation DEF Init, ActiveFits, Operations
<1>7. AttemptFits /\ HolderFits /\ EffectsFit /\ EvidenceHolds /\ PlanWasApproved
  BY DEF Init, AttemptFits, HolderFits, EffectsFit, EvidenceHolds, PlanWasApproved, AfterPlan
<1> QED BY <1>1, <1>2, <1>4, <1>5, <1>6, <1>7 DEF IInv

LEMMA AdvanceKeeps == ASSUME IInv, Advance PROVE IInv'
<1>1. CASE BeginPlanning \/ BeginAttempt \/ RetryOrFail \/ Complete
  BY <1>1, BeginPlanningKeeps, BeginAttemptKeeps, RetryOrFailKeeps, CompleteKeeps
<1>2. CASE CheckStage \/ Replay \/ BlockUnresolved \/ Reconcile \/ LoseBroker
  BY <1>2, CheckStageKeeps, ReplayKeeps, BlockUnresolvedKeeps, ReconcileKeeps, LoseBrokerKeeps
<1>3. CASE StartOperation \/ StartInvocation \/ EndInvocation \/ FailOperation \/ FinishExternal
  BY <1>3, StartOperationKeeps, InvocationKeeps, FailOperationKeeps, FinishExternalKeeps
<1>4. CASE \E r \in {"ok", "accepted", "changes", "passed", "failed"} : FinishOperation(r)
  BY <1>4, FinishOperationKeeps
<1>5. CASE \E o \in {"succeeded", "failed"} : ApplyEffect(o)
  BY <1>5, ApplyEffectKeeps
<1>6. CASE Settle
  <2>1. pc' = "idle"
    BY <1>6 DEF Settle, Goto
  <2> QED BY <1>6, <2>1, SettlePlanKeeps, SettlePatchKeeps, SettleTestKeeps, SettleReviewKeeps,
             SettleChangesKeeps, SettleExternalKeeps, SettleFailedKeeps DEF Settle
<1> QED BY <1>1, <1>2, <1>3, <1>4, <1>5, <1>6, SettleRefusedKeeps DEF Advance

LEMMA StepKeeps == IInv /\ [Next]_vars => IInv'
<1> SUFFICES ASSUME IInv, [Next]_vars PROVE IInv'
  OBVIOUS
<1>1. CASE Advance
  BY <1>1, AdvanceKeeps
<1>2. CASE Operate
  <2>1. ASSUME NEW r \in DOMAIN requests, NEW d \in {"approve", "reject"}, Approve(r, d) PROVE IInv'
    BY <2>1, ApproveKeeps
  <2>2. ASSUME NEW r \in DOMAIN requests, Renew(r) PROVE IInv'
    BY <2>2, RenewKeeps
  <2>3. CASE Cancel \/ Recover \/ RetryCleanup
    BY <2>3, CancelKeeps, RecoverKeeps, CleanupKeeps
  <2> QED BY <1>2, <2>1, <2>2, <2>3 DEF Operate
<1>3. CASE Clean
  BY <1>3, CleanupKeeps DEF Clean
<1>4. CASE Expire \/ Crash
  BY <1>4, ExpireKeeps, CrashKeeps
<1>5. CASE UNCHANGED vars
  <2>1. WorkflowType' /\ evidence' \in Evidence /\ RequestType' /\ WorkType' /\ RestType'
    BY <1>5 DEF vars, IInv, WorkflowType, RequestType, Requests, WorkType, RestType
  <2>2. AttemptFits' /\ ActiveFits' /\ HolderFits'
    BY <1>5 DEF vars, IInv, AttemptFits, ActiveFits, HolderFits, Op
  <2>3. EffectsFit' /\ ApprovalsFit' /\ EvidenceHolds' /\ PlanWasApproved'
    BY <1>5 DEF vars, IInv, EffectsFit, ApprovalsFit, EvidenceHolds, PassingTest, AcceptedReview,
                PlanWasApproved
  <2> QED BY <2>1, <2>2, <2>3 DEF IInv, Evidence, Attempts
<1> QED BY <1>1, <1>2, <1>3, <1>4, <1>5 DEF Next

(* What every transaction of the engine leaves behind, for any number of   *)
(* attempts, plans and crashes.                                            *)
THEOREM InductiveInvariant == Spec => []IInv
BY InitKeeps, StepKeeps, PTL DEF Spec

(* Every value of the model is of its type; no attempt beyond the last.    *)
THEOREM TypeCorrect == Spec => []TypeOK
<1>1. IInv => TypeOK
  BY TypeParts DEF IInv
<1> QED BY <1>1, InductiveInvariant, PTL

(* recover, cancel and the next advance judge what is unresolved by the    *)
(* rows or by active_operation_id: the two always agree.                   *)
THEOREM UnresolvedIsActive == Spec => []OneUnresolved
<1>1. IInv => OneUnresolved
  <2> SUFFICES ASSUME IInv PROVE OneUnresolved
    OBVIOUS
  <2>1. DOMAIN ops = Operations /\ active \in Operations \cup {None}
    BY DEF IInv, WorkType
  <2>2. Started = IF active = None THEN {} ELSE {active}
    BY <2>1, NoneIsNoOperation DEF IInv, ActiveFits, Started
  <2> QED BY <2>2 DEF IInv, ActiveFits, OneUnresolved
<1> QED BY <1>1, InductiveInvariant, PTL

(* Past its approval a task works on exactly the plan a person approved,   *)
(* however it got there: retried, blocked, recovered or approved again.    *)
THEOREM OnlyApprovedPlans == Spec => []PlanWasApproved
<1>1. IInv => PlanWasApproved
  BY DEF IInv
<1> QED BY <1>1, InductiveInvariant, PTL

(* The external action succeeds once at most, and in no cancelled task,    *)
(* whatever crashed between the effect's transaction and the task's.       *)
THEOREM EffectHappensOnce == Spec => []OneEffect
<1>1. ASSUME IInv PROVE Succeeded \subseteq {evidence.action}
  BY <1>1 DEF IInv, WorkType, EffectsFit, Succeeded
<1>2. ASSUME IInv PROVE Cardinality(Succeeded) <= 1
  <2>1. IsFiniteSet({evidence.action}) /\ Cardinality({evidence.action}) = 1
    BY FS_Singleton
  <2> QED BY <1>1, <1>2, <2>1, FS_Subset
<1>3. ASSUME IInv, state = "CANCELLED" PROVE Succeeded = {} /\ Started = {}
  <2>1. active = None
    BY <1>3 DEF IInv, ActiveFits, Working
  <2>2. Started = {}
    BY <1>3, <2>1, NoneIsNoOperation DEF IInv, WorkType, ActiveFits, Started
  <2>3. Succeeded = {}
    BY <1>3 DEF IInv, WorkType, EffectsFit, Succeeded
  <2> QED BY <2>2, <2>3
<1>4. IInv => OneEffect
  BY <1>2, <1>3 DEF OneEffect
<1> QED BY <1>4, InductiveInvariant, PTL

LEMMA OnlyApplyEffect ==
    ASSUME [Next]_vars, effects' # effects
    PROVE  \E o \in {"succeeded", "failed"} : ApplyEffect(o)
<1>1. ~Operate
  BY DEF Operate, Approve, Renew, Cancel, Recover, RetryCleanup, work
<1>2. ~(Clean \/ Expire \/ Crash \/ UNCHANGED vars)
  BY DEF Clean, FinishCleanup, Expire, Crash, work, vars
<1>3. ~Settle
  BY DEF Settle, SettlePlan, SettlePatch, SettleTest, SettleReview, SettleChanges, SettleExternal,
         SettleFailed, work
<1> QED BY <1>1, <1>2, <1>3
        DEF Next, Advance, BeginPlanning, BeginAttempt, RetryOrFail, Complete, CheckStage, Replay,
            BlockUnresolved, Reconcile, StartOperation, StartInvocation, EndInvocation,
            FinishOperation, FailOperation, LoseBroker, FinishExternal, SettleRefused, work

(* It happens under an unexpired approval of exactly this evidence: the    *)
(* approval is read in the effect's own transaction, and the test and the  *)
(* review it relies on cannot have changed since they were judged.         *)
THEOREM EffectNeedsApproval == Spec => EffectIsApproved
<1>1. ASSUME IInv, [Next]_vars, Succeeded' # Succeeded
      PROVE  /\ \E r \in DOMAIN requests :
                    /\ requests[r].kind = "action" /\ requests[r].decision = "approve"
                    /\ requests[r].about = Subject("action") /\ ~Expired(r)
             /\ PassingTest /\ AcceptedReview
  <2>1. effects' # effects
    BY <1>1 DEF Succeeded
  <2>2. state = "READY_FOR_PR" /\ Approved("action")
    BY <1>1, <2>1, OnlyApplyEffect DEF ApplyEffect
  <2> DEFINE r == approval["action"]
  <2>3. r \in DOMAIN requests /\ requests[r].kind = "action"
    <3>1. "action" \in Kinds /\ r # 0 /\ r \in Requests
      BY <1>1, <2>2 DEF IInv, RequestType, Approved, Kinds
    <3>2. requests \in Seq(Documents)
      BY <1>1 DEF IInv, RequestType
    <3> QED BY <1>1, <3>1, <3>2 DEF IInv, ApprovalsFit, Requests
  <2>4. requests[r].decision = "approve" /\ requests[r].about = Subject("action") /\ ~Expired(r)
    BY <2>2 DEF Approved
  <2>5. PassingTest /\ AcceptedReview
    BY <1>1, <2>2 DEF IInv, EvidenceHolds
  <2> QED BY <2>3, <2>4, <2>5
<1>2. IInv /\ [Next]_vars =>
        [Succeeded' # Succeeded =>
          /\ \E r \in DOMAIN requests :
                 /\ requests[r].kind = "action" /\ requests[r].decision = "approve"
                 /\ requests[r].about = Subject("action") /\ ~Expired(r)
          /\ PassingTest /\ AcceptedReview]_vars
  BY <1>1
<1> QED BY <1>2, InductiveInvariant, PTL DEF Spec, EffectIsApproved

-----------------------------------------------------------------------------
(* The engine keeps the promise of TaskLifecycle: every transaction is a   *)
(* step of the abstract life, or none.                                     *)

LEMMA Phases ==
    /\ PhaseOf["SPEC_READY"] = "planning" /\ PhaseOf["PLANNING"] = "planning"
    /\ PhaseOf["AWAITING_PLAN_APPROVAL"] = "plan pause"
    /\ PhaseOf["READY_FOR_IMPLEMENTATION"] = "attempting" /\ PhaseOf["IMPLEMENTING"] = "attempting"
    /\ PhaseOf["TESTING"] = "attempting" /\ PhaseOf["REVIEWING"] = "attempting"
    /\ PhaseOf["CHANGES_REQUESTED"] = "attempting"
    /\ PhaseOf["AWAITING_ACTION_APPROVAL"] = "action pause"
    /\ PhaseOf["READY_FOR_PR"] = "acting" /\ PhaseOf["PR_CREATED"] = "created"
    /\ PhaseOf["BLOCKED"] = "blocked" /\ PhaseOf["FAILED"] = "failed"
    /\ PhaseOf["COMPLETED"] = "completed" /\ PhaseOf["CANCELLED"] = "cancelled"
BY DEF PhaseOf, States, Working, Paused, Terminal

LEMMA NotEnded ==
    ASSUME NEW s \in States, s \notin Terminal, s # "PR_CREATED"
    PROVE  PhaseOf[s] \notin {"failed", "completed", "cancelled", "created"}
BY Phases DEF States, Working, Paused, Terminal

LEMMA WorkIsWork ==
    ASSUME NEW s \in Working
    PROVE  PhaseOf[s] \in {"planning", "attempting", "acting"}
BY Phases DEF Working

LEMMA SameEffect == ASSUME effects' = effects PROVE Effect' = Effect
BY DEF Effect, Succeeded

LEMMA NoneYet == ASSUME IInv, NoEffect PROVE Effect = "none"
BY DEF IInv, WorkType, NoEffect, Effect, Succeeded

Abstractly == Lifecycle!Next \/ UNCHANGED Lifecycle!vars

LEMMA Stutters ==
    ASSUME PhaseOf[state'] = PhaseOf[state], attempt' = attempt, effects' = effects
    PROVE  Abstractly
BY SameEffect DEF Abstractly, Lifecycle!vars

(* A transition between phases: attempts and effects are counted elsewhere. *)
LEMMA Moves ==
    ASSUME attempt' = attempt, effects' = effects, NEW from, NEW to,
           PhaseOf[state] = from, PhaseOf[state'] = to,
           \/ <<from, to>> \in {<<"planning", "plan pause">>, <<"plan pause", "planning">>,
                                <<"plan pause", "attempting">>, <<"attempting", "action pause">>,
                                <<"action pause", "acting">>, <<"action pause", "attempting">>,
                                <<"created", "completed">>, <<"blocked", "attempting">>}
           \/ from \in {"planning", "attempting", "acting"} /\ to \in {"blocked", "failed"}
           \/ from = "acting" /\ to = "created" /\ Effect = "succeeded"
    PROVE  Abstractly
<1>1. UNCHANGED attempt /\ Lifecycle!Move(from, to)
  BY SameEffect DEF Lifecycle!Move
<1>2. CASE <<from, to>> = <<"planning", "plan pause">>
  BY <1>1, <1>2 DEF Abstractly, Lifecycle!Next, Lifecycle!Ask
<1>3. CASE <<from, to>> \in {<<"plan pause", "planning">>, <<"plan pause", "attempting">>}
  BY <1>1, <1>3 DEF Abstractly, Lifecycle!Next, Lifecycle!DecidePlan
<1>4. CASE <<from, to>> = <<"attempting", "action pause">>
  BY <1>1, <1>4 DEF Abstractly, Lifecycle!Next, Lifecycle!AskAgain
<1>5. CASE <<from, to>> \in {<<"action pause", "acting">>, <<"action pause", "attempting">>}
  BY <1>1, <1>5 DEF Abstractly, Lifecycle!Next, Lifecycle!DecideAction
<1>6. CASE <<from, to>> = <<"created", "completed">>
  BY <1>1, <1>6 DEF Abstractly, Lifecycle!Next, Lifecycle!Finish
<1>7. CASE <<from, to>> = <<"blocked", "attempting">>
  BY <1>1, <1>7 DEF Abstractly, Lifecycle!Next, Lifecycle!Recover
<1>8. CASE from \in {"planning", "attempting", "acting"} /\ to = "blocked"
  BY <1>1, <1>8 DEF Abstractly, Lifecycle!Next, Lifecycle!Block, Lifecycle!AtWork
<1>9. CASE from \in {"planning", "attempting", "acting"} /\ to = "failed"
  BY <1>1, <1>9 DEF Abstractly, Lifecycle!Next, Lifecycle!Fail, Lifecycle!AtWork
<1>10. CASE from = "acting" /\ to = "created" /\ Effect = "succeeded"
  BY <1>1, <1>10 DEF Abstractly, Lifecycle!Next, Lifecycle!Create
<1> QED BY <1>2, <1>3, <1>4, <1>5, <1>6, <1>7, <1>8, <1>9, <1>10

LEMMA StageAbstractly ==
    ASSUME UNCHANGED <<workflow, counters, effects>>
    PROVE  Abstractly
BY Stutters DEF workflow, counters

LEMMA BeginAbstractly ==
    ASSUME IInv, BeginPlanning \/ BeginAttempt \/ RetryOrFail \/ Complete
    PROVE  Abstractly
<1>1. CASE BeginPlanning
  <2>1. state = "SPEC_READY" /\ state' = "PLANNING" /\ attempt' = attempt /\ effects' = effects
    BY <1>1 DEF BeginPlanning, Transition, counters, work
  <2> QED BY <2>1, Phases, Stutters
<1>2. CASE BeginAttempt
  <2>1. /\ state = "READY_FOR_IMPLEMENTATION" /\ state' = "IMPLEMENTING"
        /\ attempt' = attempt + 1 /\ effects' = effects /\ attempt < MaxAttempts
    BY <1>2 DEF BeginAttempt, Transition, work, IInv, AttemptFits
  <2> QED BY <2>1, Phases, SameEffect DEF Abstractly, Lifecycle!Next, Lifecycle!BeginAttempt
<1>3. CASE RetryOrFail
  <2>1. /\ state = "CHANGES_REQUESTED" /\ state' \in {"FAILED", "READY_FOR_IMPLEMENTATION"}
        /\ attempt' = attempt /\ effects' = effects
    BY <1>3 DEF RetryOrFail, Transition, counters, work
  <2>2. CASE state' = "FAILED"
    BY <2>1, <2>2, Phases, Moves
  <2>3. CASE state' = "READY_FOR_IMPLEMENTATION"
    BY <2>1, <2>3, Phases, Stutters
  <2> QED BY <2>1, <2>2, <2>3
<1>4. CASE Complete
  <2>1. state = "PR_CREATED" /\ state' = "COMPLETED" /\ attempt' = attempt /\ effects' = effects
    BY <1>4 DEF Complete, Transition, counters, work
  <2> QED BY <2>1, Phases, Moves
<1> QED BY <1>1, <1>2, <1>3, <1>4

LEMMA BlockAbstractly ==
    ASSUME IInv, BlockUnresolved \/ LoseBroker
    PROVE  Abstractly
<1>1. state \in Working /\ state' = "BLOCKED" /\ attempt' = attempt /\ effects' = effects
  BY DEF BlockUnresolved, LoseBroker, Transition, counters, work, IInv, HolderFits, Working
<1> QED BY <1>1, Phases, WorkIsWork, Moves

LEMMA ActAbstractly ==
    ASSUME IInv, NEW outcome \in {"succeeded", "failed"}, ApplyEffect(outcome)
    PROVE  Abstractly
<1>1. /\ state = "READY_FOR_PR" /\ state' = state /\ attempt' = attempt /\ pc = "started"
      /\ effects' = [effects EXCEPT ![evidence.action] = outcome]
  BY DEF ApplyEffect, workflow, counters
<1>2. evidence.action \in 1..MaxAttempts /\ effects \in [1..MaxAttempts -> {"none", "succeeded", "failed"}]
  BY <1>1, EffectIsOutcome DEF IInv, WorkType
<1>3. NoEffect
  BY <1>1 DEF IInv, EffectsFit, NoEffect
<1>4. Effect' = outcome
  BY <1>1, <1>2, <1>3 DEF Effect, Succeeded, NoEffect
<1> QED BY <1>1, <1>3, <1>4, Phases, NoneYet DEF Abstractly, Lifecycle!Next, Lifecycle!Act

LEMMA SettleAbstractly == ASSUME IInv, Settle PROVE Abstractly
<1>1. attempt' = attempt /\ effects' = effects
  BY DEF Settle, SettlePlan, SettlePatch, SettleTest, SettleReview, SettleChanges, SettleExternal,
         SettleFailed, counters, work
<1>2. CASE SettlePlan
  <2>1. state = "PLANNING" /\ state' = "AWAITING_PLAN_APPROVAL"
    BY <1>2 DEF SettlePlan, Settling, Transition
  <2> QED BY <1>1, <2>1, Phases, Moves
<1>3. CASE SettleReview
  <2>1. state = "REVIEWING" /\ state' = "AWAITING_ACTION_APPROVAL"
    BY <1>3 DEF SettleReview, Settling, Transition
  <2> QED BY <1>1, <2>1, Phases, Moves
<1>4. CASE SettlePatch \/ SettleTest \/ SettleChanges
  <2>1. /\ state \in {"IMPLEMENTING", "TESTING", "REVIEWING"}
        /\ state' \in {"TESTING", "REVIEWING", "CHANGES_REQUESTED"}
    BY <1>4 DEF SettlePatch, SettleTest, SettleChanges, Settling, Transition
  <2>2. PhaseOf[state] = "attempting" /\ PhaseOf[state'] = "attempting"
    BY <2>1, Phases
  <2> QED BY <1>1, <2>2, Stutters
<1>5. CASE SettleFailed
  <2>1. state \in Working /\ state' = "FAILED"
    BY <1>5 DEF SettleFailed, Settling, Transition, Working
  <2> QED BY <1>1, <2>1, Phases, WorkIsWork, Moves
<1>6. CASE SettleExternal
  <2>1. /\ state = "READY_FOR_PR" /\ state' \in {"PR_CREATED", "FAILED"}
        /\ state' = "PR_CREATED" => Guarded("PR_CREATED")'
    BY <1>6 DEF SettleExternal, Settling, Transition
  <2>2. CASE state' = "FAILED"
    BY <1>1, <2>1, <2>2, Phases, Moves
  <2>3. CASE state' = "PR_CREATED"
    <3>1. evidence'.external # 0 /\ effects[evidence'.external] = "succeeded"
      BY <1>1, <2>1, <2>3 DEF Guarded
    <3>2. evidence'.external = evidence.action /\ evidence.action \in 1..MaxAttempts
      BY <1>6, <2>1, EffectIsOutcome DEF SettleExternal, IInv, Evidence
    <3>3. Effect = "succeeded"
      BY <3>1, <3>2 DEF Effect, Succeeded, IInv, WorkType
    <3> QED BY <1>1, <2>1, <2>3, <3>3, Phases, Moves
  <2> QED BY <2>1, <2>2, <2>3
<1> QED BY <1>2, <1>3, <1>4, <1>5, <1>6 DEF Settle

LEMMA OperateAbstractly == ASSUME IInv, Operate PROVE Abstractly
<1>1. ASSUME NEW r \in DOMAIN requests, NEW d \in {"approve", "reject"}, Approve(r, d) PROVE Abstractly
  <2>1. /\ attempt' = attempt /\ effects' = effects
        /\ \/ state = "AWAITING_PLAN_APPROVAL" /\ state' \in {"READY_FOR_IMPLEMENTATION", "PLANNING"}
           \/ state = "AWAITING_ACTION_APPROVAL" /\ state' \in {"READY_FOR_PR", "CHANGES_REQUESTED"}
    BY <1>1 DEF Approve, Decidable, AwaitingOf, Transition, work
  <2>2. <<PhaseOf[state], PhaseOf[state']>> \in
           {<<"plan pause", "planning">>, <<"plan pause", "attempting">>,
            <<"action pause", "acting">>, <<"action pause", "attempting">>}
    BY <2>1, Phases
  <2> QED BY <2>1, <2>2, Moves
<1>2. ASSUME NEW r \in DOMAIN requests, Renew(r) PROVE Abstractly
  BY <1>2, Stutters DEF Renew, counters, work
<1>3. CASE Cancel
  <2>1. /\ state \in States /\ state \notin Terminal /\ state # "PR_CREATED" /\ state' = "CANCELLED"
        /\ attempt' = attempt /\ effects' = effects /\ Succeeded = {}
    BY <1>3 DEF Cancel, Cancellable, counters, work, IInv, WorkflowType
  <2>2. Effect # "succeeded"
    BY <2>1 DEF Effect
  <2> QED BY <2>1, <2>2, Phases, NotEnded, SameEffect
          DEF Abstractly, Lifecycle!Next, Lifecycle!Cancel, Lifecycle!Ended
<1>4. CASE Recover
  <2>1. state = "BLOCKED" /\ state' = "CHANGES_REQUESTED" /\ attempt' = attempt /\ effects' = effects
    BY <1>4 DEF Recover, Recoverable, counters
  <2> QED BY <2>1, Phases, Moves
<1>5. CASE RetryCleanup
  BY <1>5, StageAbstractly DEF RetryCleanup, work
<1> QED BY <1>1, <1>2, <1>3, <1>4, <1>5 DEF Operate

LEMMA StepsAbstractly == IInv /\ [Next]_vars => Abstractly
<1> SUFFICES ASSUME IInv, [Next]_vars PROVE Abstractly
  OBVIOUS
<1>1. CASE CheckStage \/ Replay \/ Reconcile \/ StartOperation \/ StartInvocation \/ EndInvocation
  BY <1>1, StageAbstractly DEF CheckStage, Replay, Reconcile, StartOperation, StartInvocation, EndInvocation, work
<1>2. CASE FailOperation \/ FinishExternal \/ SettleRefused \/ Expire \/ Crash \/ UNCHANGED vars
  BY <1>2, StageAbstractly DEF FailOperation, FinishExternal, SettleRefused, Expire, Crash, work, vars,
     workflow, counters
<1>3. ASSUME NEW r, FinishOperation(r) PROVE Abstractly
  BY <1>3, StageAbstractly DEF FinishOperation
<1>4. CASE Clean
  BY <1>4, StageAbstractly DEF Clean, FinishCleanup, work
<1>5. CASE Advance
  BY <1>1, <1>2, <1>3, <1>5, BeginAbstractly, BlockAbstractly, ActAbstractly, SettleAbstractly DEF Advance
<1> QED BY <1>2, <1>4, <1>5, OperateAbstractly DEF Next

(* Operations, documents, expiring approvals, retries and crashes leave    *)
(* the life of a task as TaskLifecycle has it.                             *)
THEOREM KeepsLifecycle == Spec => ImplementsLifecycle
<1>1. Init => Lifecycle!Init
  BY Phases DEF Init, Lifecycle!Init, Effect, Succeeded
<1>2. IInv /\ [Next]_vars => [Lifecycle!Next]_Lifecycle!vars
  BY StepsAbstractly DEF Abstractly
<1> QED BY <1>1, <1>2, InductiveInvariant, PTL DEF Spec, ImplementsLifecycle, Lifecycle!Spec

-----------------------------------------------------------------------------
(* Nobody is left in a pause that cannot be ended.  The request a pause    *)
(* waits for is bound to this revision and this evidence, undecided; and a *)
(* model's call that failed or was lost is over before the next request,   *)
(* so that a renewal finds the task quiet.                                 *)

PauseFits ==
    \A kind \in Kinds : state = AwaitingOf(kind) =>
        /\ pending # 0
        /\ requests[pending].kind = kind /\ requests[pending].decision = "none"
        /\ requests[pending].revision = revision
        /\ requests[pending].about = Subject(kind)

Fruitful == {"ok", "accepted"}
InvocationFits ==
    /\ pc = "invoked" => ~invocation
    /\ invocation => state \in {"PLANNING", "IMPLEMENTING", "REVIEWING", "BLOCKED",
                                "CHANGES_REQUESTED", "READY_FOR_IMPLEMENTATION", "FAILED"}
    /\ invocation /\ state \in Working => ops[Op].result \notin Fruitful
    /\ \A o \in Operations : ops[o].status = "started" => ops[o].result = "none"
    /\ \A n \in Slots : n > attempt => ops[<<"implementation", n>>].result \notin Fruitful

(* Where nothing a pause is judged by has changed, or it is no pause. *)
LEMMA PauseStays ==
    ASSUME PauseFits,
           \/ UNCHANGED <<state, revision, evidence, requests, pending>>
           \/ state' \notin {"AWAITING_PLAN_APPROVAL", "AWAITING_ACTION_APPROVAL"}
    PROVE  PauseFits'
<1>1. CASE UNCHANGED <<state, revision, evidence, requests, pending>>
  BY <1>1 DEF PauseFits, AwaitingOf, Subject
<1>2. CASE state' \notin {"AWAITING_PLAN_APPROVAL", "AWAITING_ACTION_APPROVAL"}
  BY <1>2 DEF PauseFits, AwaitingOf
<1> QED BY <1>1, <1>2

(* A new request is bound to the revision its transaction reaches. *)
LEMMA PauseAsked ==
    ASSUME IInv, NEW kind \in Kinds, Request(kind), state' = AwaitingOf(kind),
           revision' = revision + 1
    PROVE  PauseFits'
<1> DEFINE asked == [kind |-> kind, about |-> Subject(kind)', revision |-> revision + 1, decision |-> "none"]
<1>1. requests \in Seq(Documents) /\ requests' = Append(requests, asked) /\ pending' = Len(requests) + 1
  BY DEF Request, IInv, RequestType
<1>2. Len(requests) \in Nat /\ requests'[pending'] = asked
  BY <1>1
<1>3. \A k \in Kinds : state' = AwaitingOf(k) => k = kind
  BY DEF AwaitingOf, Kinds
<1> QED BY <1>1, <1>2, <1>3 DEF PauseFits, AwaitingOf

LEMMA PauseKeeps == ASSUME IInv, PauseFits, [Next]_vars PROVE PauseFits'
<1>1. CASE BeginPlanning \/ BeginAttempt \/ RetryOrFail \/ Complete \/ BlockUnresolved \/ LoseBroker
  <2>1. state' \notin {"AWAITING_PLAN_APPROVAL", "AWAITING_ACTION_APPROVAL"}
    BY <1>1 DEF BeginPlanning, BeginAttempt, RetryOrFail, Complete, BlockUnresolved, LoseBroker, Transition
  <2> QED BY <2>1, PauseStays
<1>2. CASE CheckStage \/ Replay \/ Reconcile \/ StartOperation \/ StartInvocation \/ EndInvocation
  BY <1>2, PauseStays DEF CheckStage, Replay, Reconcile, StartOperation, StartInvocation, EndInvocation,
     workflow, subject
<1>3. CASE FailOperation \/ FinishExternal \/ SettleRefused \/ Clean \/ Expire \/ Crash \/ UNCHANGED vars
  BY <1>3, PauseStays DEF FailOperation, FinishExternal, SettleRefused, Clean, FinishCleanup, Expire,
     Crash, vars, workflow, subject
<1>4. ASSUME NEW r, FinishOperation(r) \/ ApplyEffect(r) PROVE PauseFits'
  BY <1>4, PauseStays DEF FinishOperation, ApplyEffect, workflow, subject
<1>5. CASE Settle
  <2>1. CASE SettlePlan
    <3>1. Request("plan") /\ state' = AwaitingOf("plan") /\ revision' = revision + 1
      BY <2>1 DEF SettlePlan, Transition, AwaitingOf
    <3> QED BY <3>1, PauseAsked DEF Kinds
  <2>2. CASE SettleReview
    <3>1. Request("action") /\ state' = AwaitingOf("action") /\ revision' = revision + 1
      BY <2>2 DEF SettleReview, Transition, AwaitingOf
    <3> QED BY <3>1, PauseAsked DEF Kinds
  <2>3. CASE SettlePatch \/ SettleTest \/ SettleChanges \/ SettleExternal \/ SettleFailed
    <3>1. state' \notin {"AWAITING_PLAN_APPROVAL", "AWAITING_ACTION_APPROVAL"}
      BY <2>3 DEF SettlePatch, SettleTest, SettleChanges, SettleExternal, SettleFailed, Transition
    <3> QED BY <3>1, PauseStays
  <2> QED BY <1>5, <2>1, <2>2, <2>3 DEF Settle
<1>6. ASSUME NEW r \in DOMAIN requests, NEW d \in {"approve", "reject"}, Approve(r, d) PROVE PauseFits'
  <2>1. state' \notin {"AWAITING_PLAN_APPROVAL", "AWAITING_ACTION_APPROVAL"}
    BY <1>6 DEF Approve, Transition
  <2> QED BY <2>1, PauseStays
<1>7. ASSUME NEW r \in DOMAIN requests, Renew(r) PROVE PauseFits'
  <2>1. /\ requests[r].kind \in Kinds /\ Request(requests[r].kind)
        /\ state' = AwaitingOf(requests[r].kind) /\ revision' = revision + 1
    BY <1>7, RequestHere DEF Renew, Renewable
  <2> QED BY <2>1, PauseAsked
<1>8. CASE Cancel \/ Recover
  BY <1>8, PauseStays DEF Cancel, Recover
<1>9. CASE RetryCleanup
  BY <1>9, PauseStays DEF RetryCleanup, workflow, subject
<1> QED BY <1>1, <1>2, <1>3, <1>4, <1>5, <1>6, <1>7, <1>8, <1>9 DEF Next, Advance, Operate

(* Nothing an invocation is judged by has changed. *)
LEMMA InvocationStays ==
    ASSUME InvocationFits, UNCHANGED <<state, attempt, planning, evidence, ops>>,
           pc' # "invoked" \/ pc' = pc, invocation' = invocation
    PROVE  InvocationFits'
BY DEF InvocationFits, Op

(* A transition to a state where no call can still be fruitful. *)
LEMMA InvocationMoves ==
    ASSUME InvocationFits, UNCHANGED work, pc' # "invoked", attempt' = attempt,
           \/ state' \in {"BLOCKED", "CHANGES_REQUESTED", "READY_FOR_IMPLEMENTATION", "FAILED"}
           \/ ~invocation
    PROVE  InvocationFits'
BY DEF InvocationFits, work, Working

(* A result is written into the row of the operation at hand. *)
LEMMA InvocationResult ==
    ASSUME IInv, InvocationFits, state \in Working, NEW row \in Rows, ops' = [ops EXCEPT ![Op] = row],
           row.status = "started" => row.result = "none",
           row.result \in Fruitful => ~invocation, pc' # "invoked",
           UNCHANGED <<workflow, counters, subject, invocation>>
    PROVE  InvocationFits'
<1>1. Op \in Operations /\ Op' = Op /\ (Op[1] = "implementation" => Op[2] = attempt)
  BY OpHere DEF Op, workflow, counters, subject, Working, StageOf
<1>2. ops'[Op] = row /\ \A o \in Operations \ {Op} : ops'[o] = ops[o]
  BY <1>1 DEF IInv, WorkType
<1>3. \A o \in Operations : ops'[o].status = "started" => ops'[o].result = "none"
  BY <1>2 DEF InvocationFits
<1>4. \A n \in Slots : n > attempt => ops'[<<"implementation", n>>].result \notin Fruitful
  <2> SUFFICES ASSUME NEW n \in Slots, n > attempt PROVE ops'[<<"implementation", n>>].result \notin Fruitful
    OBVIOUS
  <2>1. <<"implementation", n>> \in Operations
    BY DEF Operations, Stages
  <2>2. attempt \in Nat /\ n \in Nat
    BY KernelAssumption DEF IInv, WorkflowType, Attempts, Slots
  <2>3. <<"implementation", n>> # Op
    BY <1>1, <2>2
  <2> QED BY <1>2, <2>1, <2>3 DEF InvocationFits
<1>5. invocation /\ state \in Working => ops'[Op].result \notin Fruitful
  BY <1>2
<1> QED BY <1>1, <1>3, <1>4, <1>5 DEF InvocationFits, workflow, counters

(* The same, of Done. *)
LEMMA InvocationDone ==
    ASSUME IInv, InvocationFits, state \in Working, NEW result \in Outcomes, Done(result),
           result \in Fruitful => ~invocation, Goto("settled"),
           UNCHANGED <<workflow, counters, subject, invocation>>
    PROVE  InvocationFits'
<1> DEFINE row == [ops[Op] EXCEPT !.status = "done", !.result = result]
<1>1. Op \in Operations /\ ops[Op] \in Rows /\ ops \in [Operations -> Rows]
  BY OpHere DEF IInv, WorkType
<1>2. row \in Rows /\ row.status = "done" /\ row.result = result
  BY <1>1 DEF Rows
<1>3. ops' = [ops EXCEPT ![Op] = row] /\ pc' = "settled"
  BY <1>1 DEF Done, Goto
<1> HIDE DEF row
<1> QED BY <1>2, <1>3, InvocationResult

LEMMA InvocationAdvances == ASSUME IInv, InvocationFits, Advance PROVE InvocationFits'
<1>1. CASE BeginPlanning \/ RetryOrFail \/ Complete \/ BlockUnresolved \/ LoseBroker
  <2>1. /\ UNCHANGED <<work, counters>> /\ pc' # "invoked"
        /\ \/ state' \in {"BLOCKED", "READY_FOR_IMPLEMENTATION", "FAILED"}
           \/ state \in {"SPEC_READY", "PR_CREATED"}
    BY <1>1 DEF BeginPlanning, RetryOrFail, Complete, BlockUnresolved, LoseBroker, Transition, Goto
  <2>2. state \in {"SPEC_READY", "PR_CREATED"} => ~invocation
    BY DEF InvocationFits
  <2> QED BY <2>1, <2>2, InvocationMoves DEF counters
<1>2. CASE BeginAttempt
  <2>1. /\ state' = "IMPLEMENTING" /\ attempt' = attempt + 1 /\ pc' # "invoked" /\ UNCHANGED work
        /\ attempt \in Nat
    BY <1>2, Here, KernelAssumption DEF BeginAttempt, Transition, Attempts
  <2>2. attempt' \in Slots /\ attempt' > attempt /\ \A n \in Slots : n > attempt' => n > attempt
    BY <1>2, <2>1, KernelAssumption DEF BeginAttempt, IInv, AttemptFits, Slots
  <2>3. Op' = <<"implementation", attempt'>>
    BY <2>1 DEF Op, StageOf
  <2>4. ops[Op'].result \notin Fruitful
    BY <2>2, <2>3 DEF InvocationFits
  <2> QED BY <2>1, <2>2, <2>4 DEF InvocationFits, work
<1>3. CASE CheckStage \/ Replay \/ SettleRefused
  <2>1. UNCHANGED <<workflow, counters, subject, work>> /\ pc' # "invoked"
    BY <1>3 DEF CheckStage, Replay, SettleRefused, Goto
  <2> QED BY <2>1, InvocationStays DEF workflow, counters, subject, work
<1>4. CASE StartInvocation \/ EndInvocation
  <2>1. /\ UNCHANGED <<workflow, counters, subject, ops>> /\ state \in Working
        /\ state \in {"PLANNING", "IMPLEMENTING", "REVIEWING"} \/ invocation' = FALSE
        /\ pc' = "invoked" => invocation' = FALSE
    BY <1>4 DEF StartInvocation, EndInvocation, Goto, IInv, HolderFits
  <2>2. Op \in Operations /\ Op' = Op /\ ops[Op].status = "started"
    BY <1>4, <2>1, OpHere DEF StartInvocation, EndInvocation, IInv, HolderFits, ActiveFits, Op,
       workflow, counters, subject
  <2>3. ops[Op].result \notin Fruitful
    BY <2>2 DEF InvocationFits, Fruitful
  <2> QED BY <2>1, <2>2, <2>3 DEF InvocationFits, workflow, counters
<1>5. CASE Reconcile \/ FinishExternal
  <2>1. state = "READY_FOR_PR" /\ state \in Working
    BY <1>5 DEF Reconcile, Effected, FinishExternal, IInv, HolderFits, Working
  <2>2. effects[evidence.action] \in Outcomes /\ ~invocation
    BY <2>1, EffectIsOutcome DEF InvocationFits
  <2> QED BY <1>5, <2>1, <2>2, InvocationDone DEF Reconcile, FinishExternal
<1>6. CASE StartOperation
  <2> DEFINE row == [status |-> "started", result |-> "none",
                     patch |-> evidence.patch, test |-> evidence.test]
  <2>1. state \in Working /\ ops' = [ops EXCEPT ![Op] = row] /\ pc' # "invoked"
        /\ UNCHANGED <<workflow, counters, subject, invocation>>
    BY <1>6 DEF StartOperation, Goto, IInv, HolderFits
  <2>2. row \in Rows /\ row.result = "none" /\ row.result \notin Fruitful
    BY DEF IInv, Evidence, Rows, Outcomes, Fruitful
  <2> HIDE DEF row
  <2> QED BY <2>1, <2>2, InvocationResult
<1>7. ASSUME NEW r \in {"ok", "accepted", "changes", "passed", "failed"}, FinishOperation(r)
      PROVE  InvocationFits'
  <2>1. state \in Working /\ r \in Outcomes
    BY <1>7 DEF FinishOperation, Results, Working, Outcomes
  <2>2. r \in Fruitful => ~invocation
    BY <1>7 DEF FinishOperation, Results, Fruitful, InvocationFits
  <2> QED BY <1>7, <2>1, <2>2, InvocationDone DEF FinishOperation
<1>8. CASE FailOperation
  <2>1. state \in Working /\ "error" \in Outcomes /\ "error" \notin Fruitful
    BY <1>8 DEF FailOperation, IInv, HolderFits, Outcomes, Fruitful
  <2> QED BY <1>8, <2>1, InvocationDone DEF FailOperation
<1>9. ASSUME NEW o, ApplyEffect(o) PROVE InvocationFits'
  BY <1>9, InvocationStays DEF ApplyEffect, Goto, workflow, counters, subject
<1>10. CASE Settle
  <2>1. /\ UNCHANGED work /\ attempt' = attempt /\ pc' # "invoked" /\ state \in Working
        /\ \/ state' \in {"CHANGES_REQUESTED", "FAILED"}
           \/ state \in {"TESTING", "READY_FOR_PR"}
           \/ ops[Op].result \in Fruitful
    BY <1>10 DEF Settle, SettlePlan, SettlePatch, SettleTest, SettleReview, SettleChanges, SettleExternal,
       SettleFailed, Settling, Transition, Goto, Row, Fruitful, Working, counters
  <2>2. state \in {"TESTING", "READY_FOR_PR"} \/ ops[Op].result \in Fruitful => ~invocation
    BY <2>1 DEF InvocationFits
  <2> QED BY <2>1, <2>2, InvocationMoves
<1> QED BY <1>1, <1>2, <1>3, <1>4, <1>5, <1>6, <1>7, <1>8, <1>9, <1>10 DEF Advance

LEMMA InvocationKept == ASSUME IInv, InvocationFits, [Next]_vars PROVE InvocationFits'
<1>1. CASE Advance
  BY <1>1, InvocationAdvances
<1>2. ASSUME NEW r \in DOMAIN requests, NEW d \in {"approve", "reject"}, Approve(r, d) PROVE InvocationFits'
  <2>1. ~invocation
    BY <1>2 DEF Approve, Decidable, AwaitingOf, InvocationFits
  <2>2. UNCHANGED work /\ pc' # "invoked" /\ attempt' = attempt
    BY <1>2 DEF Approve, Deciding
  <2> QED BY <2>1, <2>2, InvocationMoves
<1>3. ASSUME NEW r \in DOMAIN requests, Renew(r) PROVE InvocationFits'
  BY <1>3, InvocationStays DEF Renew, Deciding, counters, work
<1>4. CASE Cancel
  BY <1>4, InvocationMoves DEF Cancel, Cancellable, Quiet, Deciding, counters
<1>5. CASE Recover
  <2>1. /\ state' = "CHANGES_REQUESTED" /\ pc' = "cleaning" /\ attempt' = attempt
        /\ active \in Operations /\ ops \in [Operations -> Rows]
        /\ ops' = [ops EXCEPT ![active].status = "done", ![active].result = "error"]
    BY <1>5 DEF Recover, Recoverable, Goto, counters, IInv, WorkType
  <2>2. /\ \A o \in Operations \ {active} : ops'[o] = ops[o]
        /\ ops'[active].status = "done" /\ ops'[active].result = "error"
    BY <2>1 DEF Rows
  <2>3. \A n \in Slots : <<"implementation", n>> \in Operations
    BY DEF Operations, Stages
  <2> QED BY <2>1, <2>2, <2>3 DEF InvocationFits, Working, Fruitful
<1>6. CASE RetryCleanup \/ Clean
  BY <1>6, InvocationStays DEF RetryCleanup, Clean, FinishCleanup, Goto, workflow, counters, subject, work
<1>7. CASE Expire \/ Crash \/ UNCHANGED vars
  BY <1>7, InvocationStays DEF Expire, Crash, Goto, vars, workflow, counters, subject, work
<1> QED BY <1>1, <1>2, <1>3, <1>4, <1>5, <1>6, <1>7 DEF Next, Operate

(* No crash, failed call or expiry leaves a pause that nobody can end: the *)
(* request is decided or, expired, renewed.                                *)
THEOREM PausesEnd == Spec => []PauseIsDecidable
<1>1. Init => PauseFits /\ InvocationFits
  <2> SUFFICES ASSUME Init PROVE PauseFits /\ InvocationFits
    OBVIOUS
  <2>1. ASSUME NEW o \in Operations PROVE ops[o].status = "none" /\ ops[o].result = "none"
    BY <2>1 DEF Init, Operations, NoOp
  <2>2. \A n \in Slots : <<"implementation", n>> \in Operations
    BY DEF Operations, Stages
  <2>3. state = "SPEC_READY" /\ pc = "idle" /\ invocation = FALSE
    BY DEF Init
  <2>4. PauseFits
    BY <2>3 DEF PauseFits, AwaitingOf
  <2> QED BY <2>1, <2>2, <2>3, <2>4 DEF InvocationFits, Fruitful
<1>2. IInv /\ PauseFits /\ InvocationFits /\ [Next]_vars => PauseFits' /\ InvocationFits'
  BY PauseKeeps, InvocationKept
<1>3. ASSUME IInv, PauseFits, InvocationFits PROVE PauseIsDecidable
  <2> SUFFICES ASSUME NEW kind \in Kinds, state = AwaitingOf(kind)
               PROVE  /\ pending # 0 /\ requests[pending].kind = kind
                      /\ Decidable(pending) \/ Renewable(pending)
    BY DEF PauseIsDecidable
  <2>1. /\ state \in {"AWAITING_PLAN_APPROVAL", "AWAITING_ACTION_APPROVAL"}
        /\ pending # 0 /\ requests[pending].kind = kind /\ requests[pending].decision = "none"
        /\ requests[pending].revision = revision /\ requests[pending].about = Subject(kind)
    BY <1>3 DEF PauseFits, AwaitingOf
  <2>2. active = None /\ ~invocation
    BY <1>3, <2>1, Here DEF Working, InvocationFits
  <2>3. Started = {}
    BY <1>3, <2>2, NoneIsNoOperation DEF IInv, WorkType, ActiveFits, Started
  <2>4. CASE Expired(pending)
    BY <2>1, <2>2, <2>3, <2>4 DEF Renewable, Quiet
  <2>5. CASE ~Expired(pending)
    BY <2>1, <2>5 DEF Decidable
  <2> QED BY <2>1, <2>4, <2>5
<1> QED BY <1>1, <1>2, <1>3, InductiveInvariant, PTL DEF Spec

-----------------------------------------------------------------------------
(***************************************************************************)
(* Consultations: the service answers requests that come late, twice or    *)
(* from the dead as it must, because every transaction looks at the record *)
(* again.                                                                  *)
(***************************************************************************)

Calls == {"taking", "answering"}
AgentRequests == [from : Agents, call : Calls, about : Questions]
Questioned == {"taking", "taken", "answering"}

(* What an agent is doing, apart from the record. *)
RunnersFit ==
    /\ round \in [Agents -> {"idle", "reading"} \cup Questioned]
    /\ on \in [Agents -> Questions \cup {Nobody}]
    /\ \A a \in Agents : round[a] \in Questioned => on[a] # Nobody
    /\ offered \in [Agents -> SUBSET Questions]

RecordFits ==
    /\ stateOf \in [Questions -> {"unasked", "asked", "answering", "answered",
                                "withdrawn", "closed"}]
    /\ agent \in [Questions -> Agents \cup {Nobody}]
    /\ fresh \in [Questions -> BOOLEAN]
    /\ answer \in [Questions -> Agents \cup {Nobody}]
    /\ \A q \in Questions : stateOf[q] = "answering" => agent[q] # Nobody

LEMMA TypeOKParts == ConsultationsTypeOK <=> RecordFits /\ RunnersFit /\ sent \subseteq AgentRequests /\ faults \in 0..MaxFaults
BY DEF ConsultationsTypeOK, RecordFits, RunnersFit, AgentRequests, Calls, Questioned

LEMMA ProceedKeeps ==
    ASSUME RunnersFit, NEW a \in Agents, NEW q \in Questions \cup {Nobody},
           NEW step \in {"idle", "reading", "taken"}, step = "taken" => q # Nobody,
           Proceed(a, q, step)
    PROVE  RunnersFit'
BY DEF RunnersFit, Proceed, Questioned

LEMMA FaultCounts == ConsultationsTypeOK /\ Fault => faults' \in 0..MaxFaults
BY ConsultationsAssumption DEF ConsultationsTypeOK, Fault

-----------------------------------------------------------------------------
(* Each action keeps the types. *)

LEMMA PersonKeeps ==
    ASSUME ConsultationsTypeOK, NEW q \in Questions, Ask(q) \/ Withdraw(q) \/ Close(q) \/ GoStale(q)
    PROVE  ConsultationsTypeOK'
<1>1. RecordFits'
  BY TypeOKParts DEF RecordFits, Ask, Withdraw, Close, GoStale
<1>2. RunnersFit' /\ sent' = sent /\ faults' = faults
  BY TypeOKParts DEF RunnersFit, runner, Ask, Withdraw, Close, GoStale
<1> QED BY <1>1, <1>2, TypeOKParts DEF ConsultationsTypeOK, RecordFits, RunnersFit, AgentRequests, Calls, Questioned

LEMMA ReplyKeeps ==
    ASSUME RunnersFit, NEW m \in AgentRequests, NEW accepted \in BOOLEAN, Reply(m, accepted)
    PROVE  RunnersFit'
<1>1. m.from \in Agents /\ m.about \in Questions /\ m.about # Nobody
  BY ConsultationsAssumption DEF AgentRequests
<1>2. CASE Proceed(m.from, m.about, "taken")
  BY <1>1, <1>2, ProceedKeeps
<1>3. CASE Proceed(m.from, Nobody, "idle")
  BY <1>1, <1>3, ProceedKeeps
<1>4. CASE Proceed(m.from, Nobody, "reading")
  BY <1>1, <1>4, ProceedKeeps
<1>5. CASE UNCHANGED runner
  BY <1>5 DEF runner, RunnersFit
<1> QED BY <1>2, <1>3, <1>4, <1>5 DEF Reply

LEMMA HandleKeeps ==
    ASSUME ConsultationsTypeOK, NEW m \in sent, Handle(m)
    PROVE  ConsultationsTypeOK'
<1>1. m \in AgentRequests
  BY TypeOKParts
<1>2. RunnersFit'
  BY <1>1, ReplyKeeps, TypeOKParts DEF Handle
<1>3. RecordFits'
  <2>1. m.from \in Agents /\ m.about \in Questions /\ m.from # Nobody
    BY <1>1, ConsultationsAssumption DEF AgentRequests
  <2> QED BY <2>1, TypeOKParts DEF Handle, Take, Answer, RecordFits, record
<1>4. sent' \subseteq AgentRequests /\ faults' = faults
  BY TypeOKParts DEF Handle
<1> QED BY <1>2, <1>3, <1>4, TypeOKParts DEF ConsultationsTypeOK, RecordFits, RunnersFit, AgentRequests, Calls, Questioned

LEMMA StepTypes ==
    ASSUME ConsultationsTypeOK, NEW a \in Agents, Step(a)
    PROVE  ConsultationsTypeOK'
<1>1. RecordFits'
  BY TypeOKParts DEF RecordFits, Step, List, Advise, SayNothing, SendAnswer, EndRound, record
<1>2. RunnersFit' /\ sent' \subseteq AgentRequests /\ faults' = faults
  <2>1. CASE List(a)
    <3>1. Listed \in SUBSET Questions
      BY DEF Listed
    <3>2. RunnersFit'
      BY <2>1, <3>1, TypeOKParts DEF List, RunnersFit, Questioned
    <3> QED BY <2>1, <3>2, TypeOKParts DEF List
  <2>2. CASE Advise(a)
    <3>1. PICK q \in First(a) :
            /\ on' = [on EXCEPT ![a] = q]
            /\ offered' = [offered EXCEPT ![a] = @ \ {q}]
            /\ sent' = sent \cup {[from |-> a, call |-> "taking", about |-> q]}
      BY <2>2 DEF Advise
    <3>2. q \in Questions /\ q # Nobody
      BY <3>1, TypeOKParts, ConsultationsAssumption DEF First, RunnersFit
    <3>3. RunnersFit'
      BY <2>2, <3>1, <3>2, TypeOKParts DEF Advise, RunnersFit, Questioned
    <3> QED BY <2>2, <3>1, <3>2, <3>3, TypeOKParts DEF Advise, AgentRequests, Calls
  <2>3. CASE SayNothing(a)
    BY <2>3, TypeOKParts DEF SayNothing, RunnersFit, runner
  <2>4. CASE SendAnswer(a)
    <3>1. on[a] \in Questions
      BY <2>4, TypeOKParts DEF SendAnswer, RunnersFit, Questioned
    <3>2. RunnersFit'
      BY <2>4, TypeOKParts DEF SendAnswer, RunnersFit, Questioned
    <3> QED BY <2>4, <3>1, <3>2, TypeOKParts DEF SendAnswer, AgentRequests, Calls
  <2>5. CASE EndRound(a)
    BY <2>5, TypeOKParts, ProceedKeeps DEF EndRound
  <2> QED BY <2>1, <2>2, <2>3, <2>4, <2>5 DEF Step
<1> QED BY <1>1, <1>2, TypeOKParts DEF ConsultationsTypeOK, RecordFits, RunnersFit, AgentRequests, Calls, Questioned

LEMMA FaultKeeps ==
    ASSUME ConsultationsTypeOK,
           (\E a \in Agents : GiveUp(a) \/ Vanish(a)) \/ (\E m \in sent : Lose(m))
    PROVE  ConsultationsTypeOK'
<1>1. RecordFits' /\ sent' \subseteq AgentRequests
  BY TypeOKParts DEF RecordFits, GiveUp, Vanish, Lose, record
<1>2. faults' \in 0..MaxFaults
  BY FaultCounts DEF GiveUp, Vanish, Lose
<1>3. RunnersFit'
  <2>1. ASSUME NEW a \in Agents, GiveUp(a) \/ Vanish(a) PROVE RunnersFit'
    BY <2>1, TypeOKParts, ProceedKeeps DEF GiveUp, Vanish
  <2>2. ASSUME NEW m \in sent, Lose(m) PROVE RunnersFit'
    <3>1. m.from \in Agents
      BY TypeOKParts DEF AgentRequests
    <3>2. CASE Proceed(m.from, Nobody, "reading")
      BY <3>1, <3>2, TypeOKParts, ProceedKeeps
    <3>3. CASE UNCHANGED runner
      BY <3>3, TypeOKParts DEF runner, RunnersFit
    <3> QED BY <2>2, <3>2, <3>3 DEF Lose
  <2> QED BY <2>1, <2>2
<1> QED BY <1>1, <1>2, <1>3, TypeOKParts DEF ConsultationsTypeOK, RecordFits, RunnersFit, AgentRequests, Calls, Questioned

LEMMA NextTypes == ConsultationsTypeOK /\ [ConsultationsNext]_consultationVars => ConsultationsTypeOK'
<1>1. ASSUME ConsultationsTypeOK, ConsultationsNext PROVE ConsultationsTypeOK'
  BY <1>1, PersonKeeps, HandleKeeps, StepTypes, FaultKeeps DEF ConsultationsNext
<1>2. ConsultationsTypeOK /\ UNCHANGED consultationVars => ConsultationsTypeOK'
  BY DEF ConsultationsTypeOK, consultationVars
<1> QED BY <1>1, <1>2

(* Questions, requests and rounds are always of the kinds the code keeps,  *)
(* and a question that is being answered says by whom                      *)
(* (consultations.py, Runner.consult).                                     *)
THEOREM ConsultationsTypeCorrect == ConsultationsSpec => []ConsultationsTypeOK
<1>1. ConsultationsInit => ConsultationsTypeOK
  BY ConsultationsAssumption DEF ConsultationsInit, ConsultationsTypeOK
<1> QED BY <1>1, NextTypes, PTL DEF ConsultationsSpec

-----------------------------------------------------------------------------
(* What no step may do to a question. *)

(* A question that is not handled in a step is left as it was, but for the *)
(* person's decisions and for time.                                        *)
LEMMA HandleTouchesOne ==
    ASSUME ConsultationsTypeOK, NEW m \in sent, Handle(m), NEW q \in Questions
    PROVE  \/ stateOf'[q] = stateOf[q] /\ agent'[q] = agent[q] /\ answer'[q] = answer[q]
           \/ /\ Answerable(q, m.from)
              /\ \/ stateOf'[q] = "answering" /\ answer'[q] = answer[q] /\ agent'[q] = m.from
                 \/ stateOf'[q] = "answered" /\ answer'[q] = m.from /\ agent'[q] = m.from
<1>1. m.about \in Questions
  BY TypeOKParts DEF AgentRequests
<1> QED BY <1>1 DEF Handle, Take, Answer, ConsultationsTypeOK, record

LEMMA OthersTouchNothing ==
    ASSUME \/ \E m \in sent : Lose(m)
           \/ \E a \in Agents : Step(a) \/ GiveUp(a) \/ Vanish(a)
    PROVE  UNCHANGED record
BY DEF Lose, Step, List, Advise, SayNothing, SendAnswer, EndRound, GiveUp, Vanish, record

(* What is settled stays settled. *)
Stands(q) ==
    /\ stateOf[q] = "answered" => stateOf'[q] \in {"answered", "closed"} /\ answer'[q] = answer[q]
    /\ stateOf[q] = "withdrawn" => stateOf'[q] = "withdrawn" /\ answer'[q] = answer[q]

LEMMA NextStands ==
    ASSUME ConsultationsTypeOK, [ConsultationsNext]_consultationVars, NEW q \in Questions
    PROVE  Stands(q)
<1>1. ASSUME NEW m \in sent, Handle(m) PROVE Stands(q)
  BY <1>1, HandleTouchesOne DEF Stands, Answerable
<1>2. ASSUME NEW r \in Questions, Ask(r) \/ Withdraw(r) \/ Close(r) \/ GoStale(r) PROVE Stands(q)
  BY <1>2 DEF Stands, Ask, Withdraw, Close, GoStale, Open, ConsultationsTypeOK
<1>3. CASE UNCHANGED record
  BY <1>3 DEF record, Stands
<1> QED BY <1>1, <1>2, <1>3, OthersTouchNothing DEF ConsultationsNext, consultationVars, record

(* An agent that took a question lately is the one who ends it. *)
Kept(q) ==
    stateOf[q] = "answering" /\ fresh[q] =>
        \/ stateOf'[q] = "answering" /\ agent'[q] = agent[q]
        \/ stateOf'[q] = "answered" /\ answer'[q] = agent[q]
        \/ stateOf'[q] = "withdrawn"

LEMMA NextKept ==
    ASSUME ConsultationsTypeOK, [ConsultationsNext]_consultationVars, NEW q \in Questions
    PROVE  Kept(q)
<1>1. ASSUME NEW m \in sent, Handle(m) PROVE Kept(q)
  BY <1>1, HandleTouchesOne DEF Kept, Answerable, Stale
<1>2. ASSUME NEW r \in Questions, Ask(r) \/ Withdraw(r) \/ Close(r) \/ GoStale(r) PROVE Kept(q)
  BY <1>2 DEF Kept, Ask, Withdraw, Close, GoStale, Open, ConsultationsTypeOK
<1>3. CASE UNCHANGED record
  BY <1>3 DEF record, Kept
<1> QED BY <1>1, <1>2, <1>3, OthersTouchNothing DEF ConsultationsNext, consultationVars, record

(* However late or often requests arrive, an answer nobody has read stays  *)
(* as it was recorded, and what was taken back stays so                    *)
(* (consultations.take, answer, withdraw, close).                     *)
THEOREM SettledQuestionsStand == ConsultationsSpec => SettledStands
<1>1. ConsultationsTypeOK /\ [ConsultationsNext]_consultationVars =>
        [\A q \in Questions :
            /\ stateOf[q] = "answered" => stateOf'[q] \in {"answered", "closed"} /\ answer'[q] = answer[q]
            /\ stateOf[q] = "withdrawn" => stateOf'[q] = "withdrawn" /\ answer'[q] = answer[q]]_consultationVars
  BY NextStands DEF Stands
<1> QED BY <1>1, ConsultationsTypeCorrect, PTL DEF ConsultationsSpec, SettledStands

(* Until a taking goes stale its agent alone ends it with an answer: the   *)
(* check under the store's transaction is enough, whoever listed the       *)
(* question before (consultations.answerable).                            *)
THEOREM NobodyIsRobbed == ConsultationsSpec => TakerIsNotRobbed
<1>1. ConsultationsTypeOK /\ [ConsultationsNext]_consultationVars =>
        [\A q \in Questions : stateOf[q] = "answering" /\ fresh[q] =>
            \/ stateOf'[q] = "answering" /\ agent'[q] = agent[q]
            \/ stateOf'[q] = "answered" /\ answer'[q] = agent[q]
            \/ stateOf'[q] = "withdrawn"]_consultationVars
  BY NextKept DEF Kept
<1> QED BY <1>1, ConsultationsTypeCorrect, PTL DEF ConsultationsSpec, TakerIsNotRobbed

=============================================================================
