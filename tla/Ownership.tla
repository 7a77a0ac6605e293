------------------------------ MODULE Ownership ------------------------------
(***************************************************************************)
(* Who may touch a task, and when whole-store work may run.                *)
(*                                                                         *)
(* Every process that opens the store takes the same two kinds of file     *)
(* lock: one per task, and one for the whole store.  A worker holds the    *)
(* task's lock while it advances the task and the store's lock only while  *)
(* it registers a claim; an operator's decision and an agent's session     *)
(* call hold both; maintenance holds the store's lock after refusing if    *)
(* any claim is live.  A worker's claim is live while the task's lock is   *)
(* held, an agent's lease until it expires.                                *)
(*                                                                         *)
(* A file lock dies with its process; a claim row does not.  A probe for   *)
(* "is this worker alive" takes the lock it asks about and gives it back,  *)
(* so it is two steps here, and other processes see the lock held between  *)
(* them.                                                                   *)
(*                                                                         *)
(* Left out: the role and revision an agent's claim is checked against     *)
(* (an agent asks only for a task it may claim), what a decision or a      *)
(* worker's step writes (module TaskKernel), and the wording of refusals.  *)
(***************************************************************************)
EXTENDS Naturals, FiniteSets

CONSTANTS
    Tasks,          \* tasks of one store
    Procs,          \* processes (or service threads) that open the store
    Agents,         \* agents that hold leases
    MayCall,        \* process -> the calls it makes
    Bound,          \* MAX_ACTIVE_TASKS
    MaxGeneration,  \* bound on a claim's generation, for TLC
    None,           \* no task, no process, no agent
    Gone            \* the identity of a process that has died

Calls == {"advance", "decide", "claim", "renew", "release", "draft", "maintain", "list"}

ASSUME OwnershipAssumption ==
    /\ IsFiniteSet(Tasks)
    /\ MayCall \in [Procs -> SUBSET Calls]
    /\ Bound \in Nat
    /\ MaxGeneration \in Nat
    /\ None \notin Tasks \cup Procs \cup Agents \cup {Gone}
    /\ Gone \notin Procs \cup Agents
    /\ Procs \cap Agents = {}

VARIABLES
    taskLock,   \* task -> the process holding its lock
    storeLock,  \* the process holding the store-wide lock
    row,        \* task -> its task_owners row
    taken,      \* task -> the last task_ownership_taken event
    pc,         \* process -> where it is in its call
    op,         \* process -> the call it is making
    on,         \* process -> the task the call is about
    who,        \* process -> the agent it is calling for
    leases,     \* process -> lease rows read and not yet compared to the clock
    probes,     \* process -> worker rows read and not yet probed
    found       \* process -> tasks whose claim it found live

durable == <<row, taken>>
call == <<op, on, who>>
scanVars == <<leases, probes, found>>
vars == <<taskLock, storeLock, row, taken, pc, op, on, who, leases, probes, found>>

-----------------------------------------------------------------------------
(* The registry. *)

Owners == Procs \cup Agents \cup {Gone}
Row == [kind : {"none", "worker", "lease"}, owner : Owners \cup {None},
        fresh : BOOLEAN, generation : 0..MaxGeneration]
NoRow == [kind |-> "none", owner |-> None, fresh |-> FALSE, generation |-> 0]
SetOwner(r, o) ==
    [kind |-> r.kind, owner |-> o, fresh |-> r.fresh, generation |-> r.generation]
SetFresh(r, f) ==
    [kind |-> r.kind, owner |-> r.owner, fresh |-> f, generation |-> r.generation]
NoEvent == [from |-> None, generation |-> 0]

Held(t) == taskLock[t] # None
FreshLease(t) == row[t].kind = "lease" /\ row[t].fresh
Live(t) == FreshLease(t) \/ (row[t].kind = "worker" /\ Held(t))

Steps == {"idle", "checked", "task", "scan", "probe", "claim", "body",
          "deciding", "maintain", "leaving"}
Init ==
    /\ taskLock = [t \in Tasks |-> None]
    /\ storeLock = None
    /\ row = [t \in Tasks |-> NoRow]
    /\ taken = [t \in Tasks |-> NoEvent]
    /\ pc = [p \in Procs |-> "idle"]
    /\ op = [p \in Procs |-> "none"]
    /\ on = [p \in Procs |-> None]
    /\ who = [p \in Procs |-> None]
    /\ leases = [p \in Procs |-> {}]
    /\ probes = [p \in Procs |-> {}]
    /\ found = [p \in Procs |-> {}]

-----------------------------------------------------------------------------
(* Building blocks. *)

Goto(p, step) == pc' = [pc EXCEPT ![p] = step]

Calling(p, o, t, a) ==
    /\ o \in MayCall[p] \cup {"none"}
    /\ op' = [op EXCEPT ![p] = o]
    /\ on' = [on EXCEPT ![p] = t]
    /\ who' = [who EXCEPT ![p] = a]

ForgetScan(p) ==
    /\ leases' = [leases EXCEPT ![p] = {}]
    /\ probes' = [probes EXCEPT ![p] = {}]
    /\ found' = [found EXCEPT ![p] = {}]

(* Mutant: only agents' leases are judged, never workers' claims. *)
ReadLeases(p) ==
    /\ leases' = [leases EXCEPT ![p] = {t \in Tasks : row[t].kind = "lease"}]
    /\ probes' = [probes EXCEPT ![p] = {}]
    /\ found' = [found EXCEPT ![p] = {}]

(* The rows are read once; each is judged later, one at a time. *)
ReadRegistry(p) ==
    /\ leases' = [leases EXCEPT ![p] = {t \in Tasks : row[t].kind = "lease"}]
    /\ probes' = [probes EXCEPT ![p] = {t \in Tasks : row[t].kind = "worker"}]
    /\ found' = [found EXCEPT ![p] = {}]

Return(p) == Goto(p, "idle") /\ Calling(p, "none", None, None) /\ ForgetScan(p)

(* Leaving both `with` blocks: the store's lock first, the task's lock next. *)
Leave(p) == storeLock' = None /\ Goto(p, "leaving") /\ ForgetScan(p)

(* For TLC: no call begins on a task whose claim reached the bound. *)
Callable(t) == row[t].generation < MaxGeneration

-----------------------------------------------------------------------------
(* Taking the two locks. *)

(* Mutant: a decision does not take the task's own lock. *)
TakeTaskUnlessDeciding(p, o, t, a) ==
    /\ pc[p] = "idle"
    /\ o = "decide" \/ taskLock[t] = None
    /\ Callable(t)
    /\ o \in {"advance", "decide"} <=> a = None
    /\ taskLock' = [taskLock EXCEPT ![t] = p]
    /\ Goto(p, "task")
    /\ Calling(p, o, t, a)
    /\ UNCHANGED <<storeLock, durable, scanVars>>

TakeTask(p, o, t, a) ==
    /\ pc[p] = "idle"
    /\ taskLock[t] = None
    /\ Callable(t)
    /\ o \in {"advance", "decide"} <=> a = None
    /\ taskLock' = [taskLock EXCEPT ![t] = p]
    /\ Goto(p, "task")
    /\ Calling(p, o, t, a)
    /\ UNCHANGED <<storeLock, durable, scanVars>>

TakeStore(p) ==
    /\ pc[p] = "task"
    /\ storeLock = None
    /\ storeLock' = p
    /\ \/ op[p] = "advance" /\ Goto(p, "scan") /\ ReadRegistry(p)
       \/ op[p] # "advance" /\ Goto(p, "deciding") /\ UNCHANGED scanVars
    /\ UNCHANGED <<taskLock, durable, call>>

(* Mutant: a worker waits for the store's lock for ever. *)
GiveUpUnlessAdvancing(p) ==
    /\ pc[p] = "task"
    /\ op[p] # "advance"
    /\ storeLock # None
    /\ taskLock' = [taskLock EXCEPT ![on[p]] = None]
    /\ Return(p)
    /\ UNCHANGED <<storeLock, durable>>

(* A decision gives up at once; a worker after CLAIM_TIMEOUT. *)
GiveUp(p) ==
    /\ pc[p] = "task"
    /\ storeLock # None
    /\ taskLock' = [taskLock EXCEPT ![on[p]] = None]
    /\ Return(p)
    /\ UNCHANGED <<storeLock, durable>>

Unlock(p) ==
    /\ pc[p] = "leaving"
    /\ taskLock' = [taskLock EXCEPT ![on[p]] = None]
    /\ Return(p)
    /\ UNCHANGED <<storeLock, durable>>

-----------------------------------------------------------------------------
(* Judging the claims: active_owners, live and held. *)

CompareLease(p, t) ==
    /\ pc[p] = "scan"
    /\ t \in leases[p]
    /\ leases' = [leases EXCEPT ![p] = @ \ {t}]
    /\ found' = [found EXCEPT ![p] = IF row[t].fresh THEN @ \cup {t} ELSE @]
    /\ UNCHANGED <<taskLock, storeLock, durable, pc, call, probes>>

ProbeHeld(p, t) ==
    /\ pc[p] = "scan"
    /\ t \in probes[p]
    /\ Held(t)
    /\ probes' = [probes EXCEPT ![p] = @ \ {t}]
    /\ found' = [found EXCEPT ![p] = @ \cup {t}]
    /\ UNCHANGED <<taskLock, storeLock, durable, pc, call, leases>>

ProbeFree(p, t) ==
    /\ pc[p] = "scan"
    /\ t \in probes[p]
    /\ ~Held(t)
    /\ taskLock' = [taskLock EXCEPT ![t] = p]
    /\ Goto(p, "probe")
    /\ UNCHANGED <<storeLock, durable, call, scanVars>>

EndProbe(p, t) ==
    /\ pc[p] = "probe"
    /\ t \in probes[p] \ {on[p]}
    /\ taskLock[t] = p
    /\ taskLock' = [taskLock EXCEPT ![t] = None]
    /\ probes' = [probes EXCEPT ![p] = @ \ {t}]
    /\ Goto(p, "scan")
    /\ UNCHANGED <<storeLock, durable, call, leases, found>>

Scanned(p, o) == pc[p] = "scan" /\ op[p] = o /\ leases[p] = {} /\ probes[p] = {}
Admitted(p) == Cardinality(found[p] \ {on[p]}) < Bound

-----------------------------------------------------------------------------
(* A worker advances a task: Engine.advancing. *)

RefuseFull(p, o) ==
    /\ Scanned(p, o)
    /\ ~Admitted(p)
    /\ Leave(p)
    /\ UNCHANGED <<taskLock, durable, call>>

RefuseLeased(p) ==
    /\ Scanned(p, "advance")
    /\ Admitted(p)
    /\ FreshLease(on[p])
    /\ Leave(p)
    /\ UNCHANGED <<taskLock, durable, call>>

(* Mutant: replacing an agent's expired lease is not a takeover. *)
TakeoverFromWorker(p) == row[on[p]].kind = "worker" /\ row[on[p]].owner # p
Takeover(p) == row[on[p]].kind # "none" /\ row[on[p]].owner # p

(* The event commits in a transaction of its own, before the claim's. *)
RecordTakeover(p) ==
    /\ Scanned(p, "advance")
    /\ Admitted(p)
    /\ ~FreshLease(on[p])
    /\ Takeover(p)
    /\ taken' = [taken EXCEPT ![on[p]] =
                   [from |-> row[on[p]].owner, generation |-> row[on[p]].generation + 1]]
    /\ Goto(p, "claim")
    /\ UNCHANGED <<taskLock, storeLock, row, call, scanVars>>

ClaimGeneration(p) ==
    IF Takeover(p) THEN row[on[p]].generation + 1
    ELSE IF row[on[p]].generation = 0 THEN 1 ELSE row[on[p]].generation

ClaimWorker(p) ==
    /\ \/ pc[p] = "claim"
       \/ Scanned(p, "advance") /\ Admitted(p) /\ ~FreshLease(on[p]) /\ ~Takeover(p)
    /\ row' = [row EXCEPT ![on[p]] = [kind |-> "worker", owner |-> p, fresh |-> FALSE,
                                      generation |-> ClaimGeneration(p)]]
    /\ storeLock' = None
    /\ Goto(p, "body")
    /\ ForgetScan(p)
    /\ UNCHANGED <<taskLock, taken, call>>

(* The body is over; an error while releasing the claim is swallowed. *)
FinishBody(p) ==
    /\ pc[p] = "body"
    /\ \/ row[on[p]].owner = p /\ row' = [row EXCEPT ![on[p]] = NoRow]
       \/ UNCHANGED row
    /\ Goto(p, "leaving")
    /\ UNCHANGED <<taskLock, storeLock, taken, call, scanVars>>

-----------------------------------------------------------------------------
(* An operator's decision, and an agent's claim, renewal, release and draft. *)

EndDecision(p) ==
    /\ pc[p] = "deciding"
    /\ op[p] \in {"decide", "draft"}
    /\ Leave(p)
    /\ UNCHANGED <<taskLock, durable, call>>

(* Every claim opens a session of its own, so a live lease is another's    *)
(* even when the same agent holds it.  A decision holds the task's lock,   *)
(* so the row of a worker that died is found live as well.                 *)
RefuseHeld(p) ==
    /\ pc[p] = "deciding"
    /\ op[p] = "claim"
    /\ Live(on[p])
    /\ Leave(p)
    /\ UNCHANGED <<taskLock, durable, call>>

StartClaimScan(p) ==
    /\ pc[p] = "deciding"
    /\ op[p] = "claim"
    /\ ~Live(on[p])
    /\ Goto(p, "scan")
    /\ ReadRegistry(p)
    /\ UNCHANGED <<taskLock, storeLock, durable, call>>

GrantLease(p) ==
    /\ Scanned(p, "claim")
    /\ Admitted(p)
    /\ row' = [row EXCEPT ![on[p]] = [kind |-> "lease", owner |-> who[p], fresh |-> TRUE,
                                      generation |-> row[on[p]].generation + 1]]
    /\ Leave(p)
    /\ UNCHANGED <<taskLock, taken, call>>

HoldsLease(a, t) == row[t].kind = "lease" /\ row[t].owner = a

(* Mutant: an expired lease may be renewed. *)
RenewableWhenExpired(a, t) == HoldsLease(a, t)
Renewable(a, t) == HoldsLease(a, t) /\ row[t].fresh

RenewLease(p) ==
    /\ pc[p] = "deciding"
    /\ op[p] = "renew"
    /\ row' = IF Renewable(who[p], on[p])
              THEN [row EXCEPT ![on[p]] = SetFresh(row[on[p]], TRUE)] ELSE row
    /\ Leave(p)
    /\ UNCHANGED <<taskLock, taken, call>>

ReleaseLease(p) ==
    /\ pc[p] = "deciding"
    /\ op[p] = "release"
    /\ row' = [row EXCEPT ![on[p]] = IF HoldsLease(who[p], on[p]) THEN NoRow ELSE @]
    /\ Leave(p)
    /\ UNCHANGED <<taskLock, taken, call>>

(* The agent service looks at the lease first and takes the locks after. *)
CheckLease(p, t, a) ==
    /\ pc[p] = "idle"
    /\ HoldsLease(a, t)
    /\ row[t].fresh
    /\ Goto(p, "checked")
    /\ Calling(p, "draft", t, a)
    /\ UNCHANGED <<taskLock, storeLock, durable, scanVars>>

TakeTaskToDraft(p) ==
    /\ pc[p] = "checked"
    /\ \/ /\ ~Held(on[p])
          /\ taskLock' = [taskLock EXCEPT ![on[p]] = p]
          /\ Goto(p, "task")
          /\ UNCHANGED <<call, scanVars>>
       \/ /\ Held(on[p])
          /\ Return(p)
          /\ UNCHANGED taskLock
    /\ UNCHANGED <<storeLock, durable>>

-----------------------------------------------------------------------------
(* Whole-store maintenance, and listings that judge claims without a lock. *)

BeginMaintenance(p) ==
    /\ pc[p] = "idle"
    /\ storeLock = None
    /\ storeLock' = p
    /\ Goto(p, "scan")
    /\ Calling(p, "maintain", None, None)
    /\ ReadRegistry(p)
    /\ UNCHANGED <<taskLock, durable>>

Quiescent(p) ==
    /\ Scanned(p, "maintain")
    /\ found[p] = {}
    /\ Goto(p, "maintain")
    /\ UNCHANGED <<taskLock, storeLock, durable, call, scanVars>>

RefuseBusy(p) ==
    /\ Scanned(p, "maintain")
    /\ found[p] # {}
    /\ storeLock' = None
    /\ Return(p)
    /\ UNCHANGED <<taskLock, durable>>

EndMaintenance(p) ==
    /\ pc[p] = "maintain"
    /\ storeLock' = None
    /\ Return(p)
    /\ UNCHANGED <<taskLock, durable>>

BeginListing(p) ==
    /\ pc[p] = "idle"
    /\ Goto(p, "scan")
    /\ Calling(p, "list", None, None)
    /\ ReadRegistry(p)
    /\ UNCHANGED <<taskLock, storeLock, durable>>

EndListing(p) ==
    /\ Scanned(p, "list")
    /\ Return(p)
    /\ UNCHANGED <<taskLock, storeLock, durable>>

-----------------------------------------------------------------------------
(* Time and death. *)

Expire(t) ==
    /\ FreshLease(t)
    /\ row' = [row EXCEPT ![t] = SetFresh(row[t], FALSE)]
    /\ UNCHANGED <<taskLock, storeLock, taken, pc, call, scanVars>>

(* The kernel releases the locks of a dead process; its claim row stays.  *)
(* The process that replaces it has another session, so another identity:  *)
(* wherever p was named, a dead process is named now.                      *)
Crash(p) ==
    /\ taskLock' = [t \in Tasks |-> IF taskLock[t] = p THEN None ELSE taskLock[t]]
    /\ storeLock' = IF storeLock = p THEN None ELSE storeLock
    /\ row' = [t \in Tasks |-> IF row[t].owner = p THEN SetOwner(row[t], Gone)
                               ELSE row[t]]
    /\ taken' = [t \in Tasks |-> IF taken[t].from = p
                                 THEN [from |-> Gone, generation |-> taken[t].generation]
                                 ELSE taken[t]]
    /\ Return(p)

-----------------------------------------------------------------------------

Begin(p) ==
    \/ \E o \in {"advance", "decide", "claim", "renew", "release"}, t \in Tasks,
          a \in Agents \cup {None} : TakeTask(p, o, t, a)
    \/ \E t \in Tasks, a \in Agents : CheckLease(p, t, a)
    \/ BeginMaintenance(p)
    \/ BeginListing(p)

Judge(p) ==
    \E t \in Tasks : CompareLease(p, t) \/ ProbeHeld(p, t) \/ ProbeFree(p, t) \/ EndProbe(p, t)

Work(p) ==
    \/ RefuseFull(p, "advance") \/ RefuseLeased(p) \/ RecordTakeover(p)
    \/ ClaimWorker(p) \/ FinishBody(p)

Decide(p) ==
    \/ EndDecision(p) \/ RefuseHeld(p) \/ StartClaimScan(p) \/ RefuseFull(p, "claim")
    \/ GrantLease(p) \/ RenewLease(p) \/ ReleaseLease(p) \/ TakeTaskToDraft(p)

Maintain(p) == Quiescent(p) \/ RefuseBusy(p) \/ EndMaintenance(p) \/ EndListing(p)

(* What a process does once its call has begun. *)
Step(p) ==
    \/ TakeStore(p) \/ GiveUp(p) \/ Unlock(p)
    \/ Judge(p) \/ Work(p) \/ Decide(p) \/ Maintain(p)

Next ==
    \/ \E p \in Procs : Begin(p) \/ Step(p) \/ Crash(p)
    \/ \E t \in Tasks : Expire(t)

Spec == Init /\ [][Next]_vars

(* A process that has begun a call keeps running until it returns; nothing *)
(* obliges anyone to begin one, to die, or a lease to expire.              *)
FairSpec == Spec /\ \A p \in Procs : WF_vars(Step(p))

-----------------------------------------------------------------------------
(* What the locks and the claims are for. *)

Working(t) == \E p \in Procs : pc[p] = "body" /\ on[p] = t
Deciding(p) == pc[p] = "deciding"
Advancing == {t \in Tasks : Working(t) \/ FreshLease(t)}

TypeOK ==
    /\ taskLock \in [Tasks -> Procs \cup {None}]
    /\ storeLock \in Procs \cup {None}
    /\ row \in [Tasks -> Row]
    /\ taken \in [Tasks -> [from : Owners \cup {None}, generation : 0..MaxGeneration]]
    /\ pc \in [Procs -> Steps]
    /\ op \in [Procs -> Calls \cup {"none"}]
    /\ on \in [Procs -> Tasks \cup {None}]
    /\ who \in [Procs -> Agents \cup {None}]
    /\ leases \in [Procs -> SUBSET Tasks]
    /\ probes \in [Procs -> SUBSET Tasks]
    /\ found \in [Procs -> SUBSET Tasks]

(* At most Bound tasks are advancing, workers and agents together, through *)
(* crashes, expiries and probes (docs/worker-admission.md: two workers     *)
(* cannot both see the last free slot).                                    *)
AdmissionBound == Cardinality(Advancing) <= Bound

(* A task is worked by one process, never while a lease on it is live and  *)
(* never while someone decides about it.                                   *)
OneHolder ==
    \A p \in Procs : pc[p] = "body" =>
        /\ ~FreshLease(on[p])
        /\ \A q \in Procs \ {p} : on[q] = on[p] => ~(pc[q] = "body" \/ Deciding(q))

(* While maintenance runs nothing is advanced, leased or decided, so what  *)
(* it copies, audits or deletes has no writer.                             *)
MaintenanceIsAlone ==
    \A p \in Procs : pc[p] = "maintain" =>
        Advancing = {} /\ \A q \in Procs : ~Deciding(q)

(* A worker that replaces another holder's claim leaves the event that     *)
(* names that holder and the new generation, whatever crashed in between.  *)
TakeoverIsRecorded ==
    [][\A t \in Tasks :
          /\ row'[t].kind = "worker"
          /\ row[t].kind # "none"
          /\ row'[t].owner \notin {row[t].owner, Gone}
          => taken[t] = [from |-> row[t].owner, generation |-> row'[t].generation]]_vars

(* Every call returns: no order of locks, waits, probes and deaths leaves  *)
(* a process inside one for ever.                                          *)
EveryCallReturns == \A p \in Procs : pc[p] # "idle" ~> pc[p] = "idle"

-----------------------------------------------------------------------------
(* Why they hold: an invariant that every step preserves. *)

Registering(p) == op[p] \in {"advance", "claim"}
Scanning(p) == pc[p] \in {"scan", "probe"}
HoldsTask(p) ==
    pc[p] \in {"task", "deciding", "claim", "body", "leaving"} \/ (Scanning(p) /\ Registering(p))
HoldsStore(p) ==
    pc[p] \in {"deciding", "claim", "maintain"} \/ (Scanning(p) /\ op[p] # "list")

CallMatchesStep ==
    \A p \in Procs :
        /\ Scanning(p) => Registering(p) \/ op[p] \in {"maintain", "list"}
        /\ pc[p] \in {"claim", "body"} => op[p] = "advance"
        /\ pc[p] = "maintain" => op[p] = "maintain"
        /\ op[p] = "maintain" => on[p] = None
        /\ pc[p] = "checked" => op[p] = "draft" /\ on[p] \in Tasks

LocksMatchSteps ==
    \A p \in Procs :
        /\ HoldsTask(p) => on[p] \in Tasks /\ taskLock[on[p]] = p
        /\ HoldsStore(p) => storeLock = p

BodyIsClaimed ==
    \A p \in Procs : pc[p] = "body" => row[on[p]].kind = "worker" /\ row[on[p]].owner = p

(* Until a claim is judged it is still on one of the two lists: whatever   *)
(* is advanced elsewhere has been found, or will be.                       *)
ScanMissesNothing ==
    \A p \in Procs : HoldsStore(p) /\ (Scanning(p) \/ pc[p] = "claim") =>
        \A t \in Tasks \ (found[p] \cup {on[p]}) :
            /\ FreshLease(t) => t \in leases[p]
            /\ Working(t) => t \in probes[p]

(* What was checked under the store's lock still holds when the claim is   *)
(* written in a later transaction.                                         *)
ClaimStillAdmitted ==
    \A p \in Procs : pc[p] = "claim" =>
        /\ Admitted(p) /\ leases[p] = {} /\ probes[p] = {}
        /\ ~FreshLease(on[p]) /\ Takeover(p)
        /\ taken[on[p]] = [from |-> row[on[p]].owner, generation |-> row[on[p]].generation + 1]

GenerationFits ==
    \A p \in Procs : HoldsTask(p) /\ Registering(p) /\ pc[p] \notin {"body", "leaving"} =>
        Callable(on[p])

IInv ==
    /\ TypeOK /\ CallMatchesStep /\ LocksMatchSteps /\ BodyIsClaimed
    /\ ScanMissesNothing /\ ClaimStillAdmitted /\ GenerationFits
    /\ AdmissionBound /\ MaintenanceIsAlone

-----------------------------------------------------------------------------
(* What the documents say and the code does not do. *)

(* An agent's claim is refused as held only while someone holds the task:  *)
(* a live lease, or a worker in its body.                                  *)
RefusedOnlyWhileHeld ==
    [][\A p \in Procs : RefuseHeld(p) => on[p] \in Advancing]_vars

=============================================================================
