----------------------------- MODULE RepositoryTask -----------------------------
(***************************************************************************)
(* Repository tasks (orch/repository_tasks.py) and the pilots they are     *)
(* bound to: a person approves a plan, one pilot run is made for it, a     *)
(* person accepts the snapshot it left.  The task's store and the pilot's  *)
(* journal are two databases, each with transactions of its own; a run     *)
(* reads the store while it has the journal's transaction open.            *)
(*                                                                         *)
(* The lock of a task (Ownership) is held by advance and recover; a        *)
(* decision is one transaction under it.                                   *)
(*                                                                         *)
(* Left out: revisions and request identities of decisions (a stale one is *)
(* refused and changes nothing), events, digests, the store's lock.        *)
(***************************************************************************)
EXTENDS Pilot

Tasks == Pilots  \* a task and its pilot have one name

VARIABLES
    state,     \* of each task
    op,        \* its repository_pilot operation: "none", "started", "completed"
    stale,     \* the request to accept its snapshot has expired
    taskLock   \* who is in a call about it

taskVars == <<state, op, stale, taskLock>>
vars == <<pilotVars, taskVars>>

Terminal == {"COMPLETED", "FAILED", "CANCELLED"}

Init ==
    /\ PilotInit
    /\ state = [t \in Tasks |-> "NONE"]
    /\ op = [t \in Tasks |-> "none"]
    /\ stale = [t \in Tasks |-> FALSE]
    /\ taskLock = [t \in Tasks |-> None]

Move(t, to) == state' = [state EXCEPT ![t] = to]
Lock(w, t) == taskLock[t] = None /\ taskLock' = [taskLock EXCEPT ![t] = w]
End(w) ==
    /\ taskLock' = [t \in Tasks |-> IF taskLock[t] = w THEN None ELSE taskLock[t]]
    /\ at' = [at EXCEPT ![w] = Idle]
Holds(w, call, step) == at[w].call = call /\ at[w].step = step

-----------------------------------------------------------------------------
(* create: the pilot is prepared, then the task is committed. *)

BeginCreate(w, t) ==
    /\ at[w] = Idle
    /\ Prepare(t)
    /\ Begin(w, "create", t, "binding", Unseen)
    /\ UNCHANGED <<faults, taskVars>>

CommitTask(w) ==
    /\ Holds(w, "create", "binding")
    /\ Move(at[w].on, "AWAITING_PLAN_APPROVAL")
    /\ End(w)
    /\ UNCHANGED <<mode, journal, world, locks, op, stale, faults>>

-----------------------------------------------------------------------------
(* A person's decisions. *)

Decide(t, to) ==
    /\ taskLock[t] = None
    /\ Move(t, to)
    /\ UNCHANGED <<pilotVars, op, taskLock>>

ApprovePlan(t) ==
    /\ state[t] = "AWAITING_PLAN_APPROVAL" /\ ~expired[t]
    /\ \E to \in {"READY_FOR_IMPLEMENTATION", "CANCELLED"} : Decide(t, to)
    /\ UNCHANGED stale

AcceptResult(t) ==
    /\ state[t] = "AWAITING_ACTION_APPROVAL" /\ ~stale[t]
    /\ \E to \in {"COMPLETED", "CANCELLED"} : Decide(t, to)
    /\ UNCHANGED stale

Cancel(t) ==
    /\ state[t] \in {"AWAITING_PLAN_APPROVAL", "READY_FOR_IMPLEMENTATION", "AWAITING_ACTION_APPROVAL"}
    /\ op[t] # "started"
    /\ Decide(t, "CANCELLED")
    /\ UNCHANGED stale

Renew(t) ==
    /\ state[t] = "AWAITING_ACTION_APPROVAL" /\ stale[t]
    /\ taskLock[t] = None
    /\ stale' = [stale EXCEPT ![t] = FALSE]
    /\ UNCHANGED <<pilotVars, state, op, taskLock>>

ExpireResult(t) ==
    /\ state[t] = "AWAITING_ACTION_APPROVAL" /\ ~stale[t]
    /\ stale' = [stale EXCEPT ![t] = TRUE]
    /\ UNCHANGED <<pilotVars, state, op, taskLock>>

-----------------------------------------------------------------------------
(* advance. *)

(* The pilot was unused when looked at; the operation comes after. *)
TakeUp(w, t) ==
    /\ at[w] = Idle
    /\ state[t] = "READY_FOR_IMPLEMENTATION"
    /\ ~expired[t] /\ status[t] = "prepared"
    /\ Lock(w, t)
    /\ Begin(w, "advance", t, "approved", Look(t))
    /\ UNCHANGED <<mode, journal, world, locks, faults, state, op, stale>>

StartOperation(w) ==
    LET t == at[w].on IN
    /\ Holds(w, "advance", "approved")
    /\ op' = [op EXCEPT ![t] = "started"]
    /\ Move(t, "IMPLEMENTING")
    /\ Goto(w, "entering")
    /\ UNCHANGED <<mode, journal, world, locks, faults, stale, taskLock>>

(* require_task_admission, as the run finds the store while it judges. *)
(* Mutant: an approved plan is enough.                                     *)
AdmitReady(t) == state[t] \in {"READY_FOR_IMPLEMENTATION", "IMPLEMENTING"}

Admission(t) == state[t] = "IMPLEMENTING" /\ op[t] = "started"

JudgeRun(w) == Judge(w, Admission(at[w].on)) /\ UNCHANGED taskVars

(* The result, its snapshot and the next state in one transaction. *)
FinishRun(w) ==
    LET t == at[w].on IN
    /\ Holds(w, "advance", "returned")
    /\ op' = [op EXCEPT ![t] = "completed"]
    /\ Move(t, IF status[t] = "passed" THEN "AWAITING_ACTION_APPROVAL" ELSE "FAILED")
    /\ End(w)
    /\ UNCHANGED <<mode, journal, world, locks, faults, stale>>

(* The workspace could not be read, or the evidence not be kept. *)
FailEvidence(w) ==
    /\ Holds(w, "advance", "returned")
    /\ Fault
    /\ Goto(w, "rejected")
    /\ UNCHANGED <<mode, journal, world, locks, taskVars>>

(* The run was refused or uncertain, or an earlier worker never came back. *)
BlockRejected(w) ==
    /\ Holds(w, "advance", "rejected")
    /\ Move(at[w].on, "BLOCKED")
    /\ End(w)
    /\ UNCHANGED <<mode, journal, world, locks, faults, op, stale>>

BlockUncertain(t) ==
    /\ state[t] = "IMPLEMENTING"
    /\ Decide(t, "BLOCKED")
    /\ UNCHANGED stale

-----------------------------------------------------------------------------
(* recover. *)

BeginRecover(w, t) ==
    /\ at[w] = Idle
    /\ state[t] = "BLOCKED" /\ op[t] = "started"
    /\ Lock(w, t)
    /\ Begin(w, "recover", t, "inspected", Look(t))
    /\ UNCHANGED <<mode, journal, world, locks, faults, state, op, stale>>

(* Mutant: only a reserved pilot can be cleaned up. *)
RefuseUnused(w) ==
    /\ Holds(w, "recover", "inspected")
    /\ at[w].seen.status = "prepared"
    /\ Goto(w, "rejected")
    /\ UNCHANGED <<mode, journal, world, locks, faults, taskVars>>

(* An unused pilot is abandoned, a reserved one reconciled, a settled one  *)
(* taken as it is.                                                         *)
AbandonUnused(w) ==
    LET t == at[w].on  seen == at[w].seen IN
    /\ Holds(w, "recover", "inspected")
    /\ seen.status = "prepared"
    /\ \/ Abandon(t, seen) /\ Goto(w, "resolved")
       \/ /\ ~(journalLock = None /\ Fence(t, seen))
          /\ Goto(w, "rejected")
          /\ UNCHANGED <<mode, journal, world, locks>>
    /\ UNCHANGED <<faults, taskVars>>

ResumeCleanup(w) ==
    /\ Holds(w, "recover", "inspected")
    /\ at[w].seen.status # "prepared"
    /\ Goto(w, IF at[w].seen.status = "reserved" THEN "cleaning" ELSE "resolved")
    /\ UNCHANGED <<mode, journal, world, locks, faults, taskVars>>

(* Whatever the run came to, the task has failed. *)
SettleTask(w) ==
    LET t == at[w].on IN
    /\ Holds(w, "recover", "resolved")
    /\ op' = [op EXCEPT ![t] = "completed"]
    /\ Move(t, "FAILED")
    /\ End(w)
    /\ UNCHANGED <<mode, journal, world, locks, faults, stale>>

KeepBlocked(w) ==
    /\ Holds(w, "recover", "rejected")
    /\ End(w)
    /\ UNCHANGED <<mode, journal, world, locks, faults, state, op, stale>>

-----------------------------------------------------------------------------
(* The command line, and what goes wrong. *)

AbandonPilot(p) == Abandon(p, Look(p)) /\ UNCHANGED <<at, faults, taskVars>>

Reclaim(w, p) ==
    /\ BeginReclaim(w, p, state[p] \in Terminal)
    /\ UNCHANGED taskVars

Call(w, p) ==
    /\ BeginRun(w, p, Admission(p)) \/ BeginReconcile(w, p)
    /\ UNCHANGED taskVars

Expire(p) == ExpireScope(p) /\ UNCHANGED taskVars

Daemon(p, f) == (Create(p, f) \/ Exit(p, f)) /\ UNCHANGED taskVars

Crash(w) ==
    /\ Die(w)
    /\ taskLock' = [t \in Tasks |-> IF taskLock[t] = w THEN None ELSE taskLock[t]]
    /\ UNCHANGED <<state, op, stale>>

Step(w) ==
    \/ CommitTask(w) \/ StartOperation(w) \/ JudgeRun(w)
    \/ PilotStep(w) /\ UNCHANGED taskVars
    \/ FinishRun(w) \/ FailEvidence(w) \/ BlockRejected(w)
    \/ AbandonUnused(w) \/ ResumeCleanup(w) \/ SettleTask(w) \/ KeepBlocked(w)

Person(t) == ApprovePlan(t) \/ AcceptResult(t) \/ Cancel(t) \/ Renew(t) \/ ExpireResult(t)

Next ==
    \/ \E w \in Procs : Step(w) \/ Crash(w)
    \/ \E w \in Procs, t \in Tasks : BeginCreate(w, t) \/ TakeUp(w, t) \/ BeginRecover(w, t)
    \/ \E w \in Procs, p \in Pilots : Call(w, p) \/ Reclaim(w, p)
    \/ \E t \in Tasks : Person(t) \/ BlockUncertain(t)
    \/ \E p \in Pilots : AbandonPilot(p) \/ Expire(p)
    \/ \E p \in Pilots, f \in Phases : Daemon(p, f)

Spec == Init /\ [][Next]_vars

(* Processes in a call and Docker go on; a task that was interrupted is    *)
(* advanced again, an operator recovers a blocked one and resumes a        *)
(* reclamation, as often as it takes.  Nobody has to decide anything.      *)
FairSpec ==
    /\ Spec
    /\ \A w \in Procs : WF_vars(Step(w))
    /\ \A p \in Pilots, f \in Phases : WF_vars(Daemon(p, f))
    /\ \A t \in Tasks : SF_vars(BlockUncertain(t)) /\ SF_vars(\E w \in Procs : BeginRecover(w, t))
    /\ \A p \in Pilots :
          SF_vars(reclamation[p] = "reclaiming" /\ \E w \in Procs : Reclaim(w, p))

-----------------------------------------------------------------------------
(* What must hold. *)

TypeOK ==
    /\ PilotTypeOK
    /\ state \in [Tasks -> {"NONE", "AWAITING_PLAN_APPROVAL", "READY_FOR_IMPLEMENTATION",
                            "IMPLEMENTING", "BLOCKED", "AWAITING_ACTION_APPROVAL"} \cup Terminal]
    /\ op \in [Tasks -> {"none", "started", "completed"}]
    /\ stale \in [Tasks -> BOOLEAN]
    /\ taskLock \in [Tasks -> Procs \cup {None}]

(* A run is only ever under way for a task whose operation is open: when   *)
(* the task has moved on, its pilot is settled, whoever ran it, and is a   *)
(* passing one if there is a snapshot to accept.                           *)
RunsBelongToTheirTask ==
    \A t \in Tasks :
        /\ status[t] = "reserved" => op[t] = "started" /\ state[t] \in {"IMPLEMENTING", "BLOCKED"}
        /\ op[t] = "completed" => status[t] \in Settled
        /\ state[t] \in {"AWAITING_ACTION_APPROVAL", "COMPLETED"} => status[t] = "passed"

(* What a run came to is never changed by another call about it. *)
SettledRunStands ==
    [][\A p \in Pilots : status[p] \in Settled => status'[p] = status[p]]_vars

(* Nobody works in a workspace that is being deleted or was: no process is *)
(* in a run of it, no container of it exists or is still to come.          *)
ReclaimedIsUntouched ==
    \A p \in Pilots : reclamation[p] # "none" =>
        /\ \A f \in Phases : container[p][f] \notin {"starting", "running"}
        /\ \A w \in Procs : at[w].on = p => at[w].step \notin Running

(* An interrupted task gets to its end, unless its reconciliations are     *)
(* used up.                                                                *)
InterruptedTaskEnds ==
    \A t \in Tasks :
        state[t] \in {"IMPLEMENTING", "BLOCKED"} ~>
            state[t] \notin {"IMPLEMENTING", "BLOCKED"} \/ revision[t] = RevisionCap

(* A reclamation that was begun is finished, whoever died in it. *)
ReclamationEnds ==
    \A p \in Pilots : reclamation[p] = "reclaiming" ~> reclamation[p] = "reclaimed"

=============================================================================
