--------------------------- MODULE OwnershipProofs ---------------------------
(***************************************************************************)
(* Proofs about Ownership, for every set of tasks, processes and agents    *)
(* and every bound.  IInv is inductive; each safety property checked by    *)
(* TLC follows from it.                                                    *)
(***************************************************************************)
EXTENDS Ownership, FiniteSetTheorems, TLAPS

-----------------------------------------------------------------------------
(* Type correctness. *)

LEMMA InitTypeOK == Init => TypeOK
BY OwnershipAssumption DEF Init, TypeOK, NoRow, NoEvent, Row, Steps, Owners

LEMMA ReadRegistryTypeOK ==
    ASSUME TypeOK, NEW p \in Procs, ReadRegistry(p)
    PROVE  /\ leases' \in [Procs -> SUBSET Tasks]
           /\ probes' \in [Procs -> SUBSET Tasks]
           /\ found' \in [Procs -> SUBSET Tasks]
<1> DEFINE L == {t \in Tasks : row[t].kind = "lease"}
           W == {t \in Tasks : row[t].kind = "worker"}
<1>1. L \in SUBSET Tasks /\ W \in SUBSET Tasks
  OBVIOUS
<1>2. leases' = [leases EXCEPT ![p] = L] /\ probes' = [probes EXCEPT ![p] = W]
  BY DEF ReadRegistry
<1> HIDE DEF L, W
<1> QED BY <1>1, <1>2 DEF TypeOK, ReadRegistry

LEMMA BeginTypeOK ==
    ASSUME IInv, NEW p \in Procs, Begin(p)
    PROVE  TypeOK'
<1> USE OwnershipAssumption DEF IInv, TypeOK, Goto, Calling, durable, scanVars, Steps, Calls
<1>1. ASSUME NEW o \in {"advance", "decide", "claim", "renew", "release"}, NEW t \in Tasks,
             NEW a \in Agents \cup {None}, TakeTask(p, o, t, a)
      PROVE  TypeOK'
  BY <1>1 DEF TakeTask
<1>2. ASSUME NEW t \in Tasks, NEW a \in Agents, CheckLease(p, t, a)
      PROVE  TypeOK'
  BY <1>2 DEF CheckLease
<1>3. CASE BeginMaintenance(p)
  BY <1>3, ReadRegistryTypeOK DEF BeginMaintenance
<1>4. CASE BeginListing(p)
  BY <1>4, ReadRegistryTypeOK DEF BeginListing
<1> QED BY <1>1, <1>2, <1>3, <1>4 DEF Begin

LEMMA StepTypeOK ==
    ASSUME IInv, NEW p \in Procs, Step(p)
    PROVE  TypeOK'
<1> USE OwnershipAssumption
    DEF IInv, TypeOK, Goto, Return, Leave, Calling, ForgetScan, durable,
        call, scanVars, Steps
<1>1. CASE TakeStore(p)
  <2>1. CASE op[p] = "advance"
    BY <1>1, <2>1, ReadRegistryTypeOK DEF TakeStore
  <2>2. CASE op[p] # "advance"
    BY <1>1, <2>2 DEF TakeStore
  <2> QED BY <2>1, <2>2
<1>1a. CASE GiveUp(p)
  BY <1>1a DEF GiveUp
<1>1b. CASE Unlock(p)
  BY <1>1b DEF Unlock
<1>2. CASE Judge(p)
  <2>1. PICK t \in Tasks : CompareLease(p, t) \/ ProbeHeld(p, t) \/ ProbeFree(p, t) \/ EndProbe(p, t)
    BY <1>2 DEF Judge
  <2>2. CASE CompareLease(p, t)
    BY <2>2 DEF CompareLease
  <2>3. CASE ProbeHeld(p, t)
    BY <2>3 DEF ProbeHeld
  <2>4. CASE ProbeFree(p, t)
    BY <2>4 DEF ProbeFree
  <2>5. CASE EndProbe(p, t)
    BY <2>5 DEF EndProbe
  <2> QED BY <2>1, <2>2, <2>3, <2>4, <2>5
<1>3. CASE RefuseFull(p, "advance") \/ RefuseFull(p, "claim") \/ RefuseLeased(p)
  BY <1>3 DEF RefuseFull, RefuseLeased
<1>4. CASE RecordTakeover(p)
  <2>1. on[p] \in Tasks /\ Callable(on[p])
    BY <1>4 DEF RecordTakeover, Scanned, LocksMatchSteps, GenerationFits, HoldsTask, Scanning, Registering
  <2> QED BY <1>4, <2>1 DEF RecordTakeover, Callable, Row
<1>5. CASE ClaimWorker(p)
  <2>1. on[p] \in Tasks /\ Callable(on[p])
    BY <1>5 DEF ClaimWorker, Scanned, LocksMatchSteps, GenerationFits, CallMatchesStep,
                HoldsTask, Scanning, Registering
  <2>2. ClaimGeneration(p) \in 0..MaxGeneration
    BY <2>1 DEF ClaimGeneration, Callable, Row
  <2> QED BY <1>5, <2>2 DEF ClaimWorker, Row, Owners
<1>6. CASE FinishBody(p)
  <2>1. NoRow \in Row
    BY DEF NoRow, Row
  <2>2. row' \in [Tasks -> Row]
    BY <1>6, <2>1 DEF FinishBody
  <2> QED BY <1>6, <2>2 DEF FinishBody
<1>7. CASE GrantLease(p)
  <2>1. on[p] \in Tasks /\ Callable(on[p])
    BY <1>7 DEF GrantLease, Scanned, LocksMatchSteps, GenerationFits, HoldsTask, Scanning, Registering
  <2> QED BY <1>7, <2>1 DEF GrantLease, Row, Owners, Callable
<1>8. CASE EndDecision(p) \/ RefuseHeld(p)
  BY <1>8 DEF EndDecision, RefuseHeld
<1>8b. CASE StartClaimScan(p)
  BY <1>8b, ReadRegistryTypeOK DEF StartClaimScan
<1>8a. CASE TakeTaskToDraft(p)
  <2>1. CASE Held(on[p])
    BY <1>8a, <2>1 DEF TakeTaskToDraft
  <2>2. CASE ~Held(on[p])
    BY <1>8a, <2>2 DEF TakeTaskToDraft
  <2> QED BY <2>1, <2>2
<1>9. CASE RenewLease(p)
  <2>1. on[p] \in Tasks
    BY <1>9 DEF RenewLease, LocksMatchSteps, HoldsTask
  <2>2. SetFresh(row[on[p]], TRUE) \in Row
    BY <2>1 DEF SetFresh, Row
  <2> QED BY <1>9, <2>2 DEF RenewLease
<1>9a. CASE ReleaseLease(p)
  <2>1. NoRow \in Row
    BY DEF NoRow, Row
  <2>2. row' \in [Tasks -> Row]
    BY <1>9a, <2>1 DEF ReleaseLease
  <2> QED BY <1>9a, <2>2 DEF ReleaseLease
<1>10. CASE Maintain(p)
  BY <1>10 DEF Maintain, Quiescent, RefuseBusy, EndMaintenance, EndListing
<1> QED BY <1>1, <1>1a, <1>1b, <1>2, <1>3, <1>4, <1>5, <1>6, <1>7, <1>8, <1>8a, <1>8b, <1>9, <1>9a, <1>10
         DEF Step, Work, Decide

LEMMA NextTypeOK == IInv /\ [Next]_vars => TypeOK'
<1> SUFFICES ASSUME IInv, [Next]_vars PROVE TypeOK'
  OBVIOUS
<1> USE DEF IInv, TypeOK
<1>1. ASSUME NEW p \in Procs, Crash(p) PROVE TypeOK'
  <2> USE <1>1, OwnershipAssumption DEF Crash, Return, Goto, Calling, ForgetScan
  <2>1. row' \in [Tasks -> Row]
    BY DEF SetOwner, Row, Owners
  <2>2. taken' \in [Tasks -> [from : Owners \cup {None}, generation : 0..MaxGeneration]]
    BY DEF Owners
  <2> QED BY <2>1, <2>2 DEF Steps
<1>2. ASSUME NEW t \in Tasks, Expire(t) PROVE TypeOK'
  BY <1>2 DEF Expire, SetFresh, call, scanVars, Row
<1>3. CASE UNCHANGED vars
  BY <1>3 DEF vars
<1> QED BY <1>1, <1>2, <1>3, BeginTypeOK, StepTypeOK DEF Next
-----------------------------------------------------------------------------
(* The locks a process holds, and the call it is in, follow from its step. *)

LockInv == CallMatchesStep /\ LocksMatchSteps

LEMMA BeginLockInv ==
    ASSUME IInv, NEW p \in Procs, Begin(p)
    PROVE  LockInv'
<1> USE OwnershipAssumption
    DEF IInv, TypeOK, LockInv, CallMatchesStep, LocksMatchSteps, HoldsTask, HoldsStore,
        Scanning, Registering, Goto, Calling, durable, scanVars
<1>1. ASSUME NEW o \in {"advance", "decide", "claim", "renew", "release"}, NEW t \in Tasks,
             NEW a \in Agents \cup {None}, TakeTask(p, o, t, a)
      PROVE  LockInv'
  BY <1>1 DEF TakeTask
<1>2. ASSUME NEW t \in Tasks, NEW a \in Agents, CheckLease(p, t, a)
      PROVE  LockInv'
  BY <1>2 DEF CheckLease
<1>3. CASE BeginMaintenance(p)
  BY <1>3 DEF BeginMaintenance
<1>4. CASE BeginListing(p)
  BY <1>4 DEF BeginListing
<1> QED BY <1>1, <1>2, <1>3, <1>4 DEF Begin

LEMMA StepLockInv ==
    ASSUME IInv, NEW p \in Procs, Step(p)
    PROVE  LockInv'
<1> USE OwnershipAssumption
    DEF IInv, TypeOK, LockInv, CallMatchesStep, LocksMatchSteps, HoldsTask, HoldsStore,
        Scanning, Registering, Scanned, Goto, Return, Leave, Calling, durable, call, scanVars
<1>1. CASE TakeStore(p)
  BY <1>1 DEF TakeStore
<1>1a. CASE GiveUp(p)
  BY <1>1a DEF GiveUp
<1>1b. CASE Unlock(p)
  BY <1>1b DEF Unlock
<1>2. CASE Judge(p)
  BY <1>2 DEF Judge, CompareLease, ProbeHeld, ProbeFree, EndProbe, Held
<1>3. CASE Work(p)
  BY <1>3 DEF Work, RefuseFull, RefuseLeased, RecordTakeover, ClaimWorker, FinishBody
<1>4. CASE Decide(p)
  <2>1. CASE EndDecision(p) \/ RefuseHeld(p)
    BY <2>1 DEF EndDecision, RefuseHeld
  <2>1a. CASE RefuseFull(p, "claim")
    BY <2>1a DEF RefuseFull
  <2>1b. CASE GrantLease(p)
    BY <2>1b DEF GrantLease
  <2>2. CASE StartClaimScan(p)
    BY <2>2 DEF StartClaimScan
  <2>3. CASE RenewLease(p)
    BY <2>3 DEF RenewLease
  <2>4. CASE ReleaseLease(p)
    BY <2>4 DEF ReleaseLease
  <2>5. CASE TakeTaskToDraft(p)
    BY <2>5 DEF TakeTaskToDraft, Held
  <2> QED BY <1>4, <2>1, <2>1a, <2>1b, <2>2, <2>3, <2>4, <2>5 DEF Decide
<1>5. CASE Maintain(p)
  <2>1. CASE Quiescent(p)
    BY <2>1 DEF Quiescent
  <2>2. CASE RefuseBusy(p)
    BY <2>2 DEF RefuseBusy
  <2>3. CASE EndMaintenance(p)
    BY <2>3 DEF EndMaintenance
  <2>4. CASE EndListing(p)
    BY <2>4 DEF EndListing
  <2> QED BY <1>5, <2>1, <2>2, <2>3, <2>4 DEF Maintain
<1> QED BY <1>1, <1>1a, <1>1b, <1>2, <1>3, <1>4, <1>5 DEF Step

LEMMA NextLockInv == IInv /\ [Next]_vars => LockInv'
<1> SUFFICES ASSUME IInv, [Next]_vars PROVE LockInv'
  OBVIOUS
<1> USE DEF IInv, TypeOK, LockInv, CallMatchesStep, LocksMatchSteps, HoldsTask, HoldsStore,
            Scanning, Registering
<1>1. ASSUME NEW p \in Procs, Crash(p) PROVE LockInv'
  BY <1>1, OwnershipAssumption DEF Crash, Return, Goto, Calling
<1>2. ASSUME NEW t \in Tasks, Expire(t) PROVE LockInv'
  BY <1>2 DEF Expire, call
<1>3. CASE UNCHANGED vars
  BY <1>3 DEF vars
<1> QED BY <1>1, <1>2, <1>3, BeginLockInv, StepLockInv DEF Next

-----------------------------------------------------------------------------
(* Only the process that holds a task's lock, or the store's, changes the  *)
(* task's row; so what a process has read about its own task stays true.   *)

(* The rows one step may change, and how. *)
LEMMA RowFrame ==
    ASSUME IInv, NEW p \in Procs, Begin(p) \/ Step(p), NEW t \in Tasks, row'[t] # row[t]
    PROVE  /\ taskLock[t] = p /\ on[p] = t
           /\ ClaimWorker(p) \/ FinishBody(p) \/ GrantLease(p) \/ RenewLease(p) \/ ReleaseLease(p)
<1> USE DEF IInv, TypeOK, LocksMatchSteps, CallMatchesStep, HoldsTask, Scanning, Registering, Scanned
<1>1. UNCHANGED row \/ ClaimWorker(p) \/ FinishBody(p) \/ GrantLease(p)
                    \/ RenewLease(p) \/ ReleaseLease(p)
  BY DEF Begin, TakeTask, CheckLease, BeginMaintenance, BeginListing, Step, TakeStore, GiveUp,
         Unlock, Judge, CompareLease, ProbeHeld, ProbeFree, EndProbe, Work, RefuseFull,
         RefuseLeased, RecordTakeover, Decide, EndDecision, RefuseHeld, StartClaimScan,
         TakeTaskToDraft, Maintain, Quiescent, RefuseBusy, EndMaintenance, EndListing, durable
<1>2. CASE ClaimWorker(p)
  BY <1>2 DEF ClaimWorker
<1>3. CASE FinishBody(p)
  BY <1>3 DEF FinishBody
<1>4. CASE GrantLease(p)
  BY <1>4 DEF GrantLease
<1>5. CASE RenewLease(p)
  BY <1>5 DEF RenewLease
<1>6. CASE ReleaseLease(p)
  BY <1>6 DEF ReleaseLease
<1> QED BY <1>1, <1>2, <1>3, <1>4, <1>5, <1>6

(* A step of one process changes no other process's place, call or scan. *)
LEMMA OthersFrame ==
    ASSUME IInv, NEW p \in Procs, Begin(p) \/ Step(p) \/ Crash(p), NEW q \in Procs \ {p}
    PROVE  /\ pc'[q] = pc[q] /\ op'[q] = op[q] /\ on'[q] = on[q] /\ who'[q] = who[q]
           /\ leases'[q] = leases[q] /\ probes'[q] = probes[q] /\ found'[q] = found[q]
<1> USE DEF IInv, TypeOK, Goto, Return, Leave, Calling, ForgetScan, ReadRegistry, durable, call, scanVars
<1>1. CASE Begin(p)
  BY <1>1 DEF Begin, TakeTask, CheckLease, BeginMaintenance, BeginListing
<1>2. CASE TakeStore(p) \/ GiveUp(p) \/ Unlock(p)
  BY <1>2 DEF TakeStore, GiveUp, Unlock
<1>3. CASE Judge(p)
  BY <1>3 DEF Judge, CompareLease, ProbeHeld, ProbeFree, EndProbe
<1>4. CASE Work(p)
  BY <1>4 DEF Work, RefuseFull, RefuseLeased, RecordTakeover, ClaimWorker, FinishBody
<1>5. CASE Decide(p)
  BY <1>5 DEF Decide, EndDecision, RefuseHeld, StartClaimScan, RefuseFull, GrantLease,
              RenewLease, ReleaseLease, TakeTaskToDraft
<1>6. CASE Maintain(p)
  BY <1>6 DEF Maintain, Quiescent, RefuseBusy, EndMaintenance, EndListing
<1>7. CASE Crash(p)
  BY <1>7 DEF Crash
<1> QED BY <1>1, <1>2, <1>3, <1>4, <1>5, <1>6, <1>7 DEF Step

(* The steps that put a process where an invariant speaks about it. *)
LEMMA Arrivals ==
    ASSUME IInv, NEW p \in Procs, Begin(p) \/ Step(p) \/ Crash(p)
    PROVE  /\ pc'[p] = "body" => ClaimWorker(p)
           /\ pc'[p] = "claim" => RecordTakeover(p)
           /\ pc'[p] = "maintain" => Quiescent(p)
<1> USE DEF IInv, TypeOK, Goto, Return, Leave, Calling, ForgetScan, durable, call, scanVars
<1>1. CASE Begin(p)
  BY <1>1 DEF Begin, TakeTask, CheckLease, BeginMaintenance, BeginListing
<1>2. CASE TakeStore(p) \/ GiveUp(p) \/ Unlock(p)
  BY <1>2 DEF TakeStore, GiveUp, Unlock
<1>3. CASE Judge(p)
  BY <1>3 DEF Judge, CompareLease, ProbeHeld, ProbeFree, EndProbe
<1>4. CASE Work(p)
  BY <1>4 DEF Work, RefuseFull, RefuseLeased, RecordTakeover, ClaimWorker, FinishBody
<1>5. CASE Decide(p)
  BY <1>5 DEF Decide, EndDecision, RefuseHeld, StartClaimScan, RefuseFull, GrantLease,
              RenewLease, ReleaseLease, TakeTaskToDraft
<1>6. CASE Maintain(p)
  BY <1>6 DEF Maintain, Quiescent, RefuseBusy, EndMaintenance, EndListing
<1>7. CASE Crash(p)
  BY <1>7 DEF Crash
<1> QED BY <1>1, <1>2, <1>3, <1>4, <1>5, <1>6, <1>7 DEF Step

LEMMA BodyInv == IInv /\ [Next]_vars => BodyIsClaimed'
<1> SUFFICES ASSUME IInv, [Next]_vars, NEW q \in Procs, pc'[q] = "body"
             PROVE  row'[on'[q]].kind = "worker" /\ row'[on'[q]].owner = q
  BY DEF BodyIsClaimed
<1> USE DEF IInv
<1>1. ASSUME NEW p \in Procs, Begin(p) \/ Step(p)
      PROVE  row'[on'[q]].kind = "worker" /\ row'[on'[q]].owner = q
  <2>1. CASE q = p
    <3>1. ClaimWorker(p)
      BY <1>1, <2>1, Arrivals
    <3>2. on[p] \in Tasks /\ on'[p] = on[p]
      BY <3>1 DEF ClaimWorker, call, LocksMatchSteps, HoldsTask, Scanned, Scanning, Registering
    <3> QED BY <2>1, <3>1, <3>2 DEF ClaimWorker, TypeOK
  <2>2. CASE q # p
    <3>1. pc[q] = "body" /\ on'[q] = on[q]
      BY <1>1, <2>2, OthersFrame
    <3>2. on[q] \in Tasks /\ taskLock[on[q]] = q
      BY <3>1 DEF LocksMatchSteps, HoldsTask
    <3>3. row'[on[q]] = row[on[q]]
      BY <1>1, <2>2, <3>2, RowFrame
    <3> QED BY <3>1, <3>3 DEF BodyIsClaimed
  <2> QED BY <2>1, <2>2
<1>2. ASSUME NEW p \in Procs, Crash(p)
      PROVE  row'[on'[q]].kind = "worker" /\ row'[on'[q]].owner = q
  <2>1. q # p
    BY <1>2 DEF Crash, Return, Goto, TypeOK
  <2>2. pc[q] = "body" /\ on'[q] = on[q]
    BY <1>2, <2>1, OthersFrame
  <2>3. on[q] \in Tasks /\ row[on[q]].owner = q /\ row[on[q]].kind = "worker"
    BY <2>2 DEF LocksMatchSteps, HoldsTask, BodyIsClaimed
  <2> QED BY <1>2, <2>1, <2>2, <2>3 DEF Crash
<1>3. ASSUME NEW t \in Tasks, Expire(t)
      PROVE  row'[on'[q]].kind = "worker" /\ row'[on'[q]].owner = q
  BY <1>3 DEF Expire, call, SetFresh, BodyIsClaimed, TypeOK, Row
<1>4. CASE UNCHANGED vars
  BY <1>4 DEF vars, BodyIsClaimed
<1> QED BY <1>1, <1>2, <1>3, <1>4 DEF Next

LEMMA GenerationInv == IInv /\ [Next]_vars => GenerationFits'
<1> SUFFICES ASSUME IInv, [Next]_vars, NEW q \in Procs,
                    HoldsTask(q)', Registering(q)', pc'[q] \notin {"body", "leaving"}
             PROVE  row'[on'[q]].generation < MaxGeneration
  BY DEF GenerationFits, Callable
<1> USE DEF IInv
<1>1. ASSUME NEW p \in Procs, Begin(p)
      PROVE  row'[on'[q]].generation < MaxGeneration
  <2>1. UNCHANGED row
    BY <1>1 DEF Begin, TakeTask, CheckLease, BeginMaintenance, BeginListing, durable
  <2>2. CASE q = p
    BY <1>1, <2>1, <2>2 DEF Begin, TakeTask, CheckLease, BeginMaintenance, BeginListing, Callable,
       Goto, Calling, HoldsTask, Scanning, Registering, TypeOK
  <2>3. CASE q # p
    BY <1>1, <2>1, <2>3, OthersFrame DEF GenerationFits, HoldsTask, Scanning, Registering, Callable
  <2> QED BY <2>2, <2>3
<1>2. ASSUME NEW p \in Procs, Step(p)
      PROVE  row'[on'[q]].generation < MaxGeneration
  <2>1. CASE q = p
    <3>1. /\ HoldsTask(q) /\ Registering(q) /\ pc[q] \notin {"body", "leaving"}
          /\ on'[q] = on[q]
          /\ UNCHANGED row
      <4> USE DEF Goto, Return, Leave, Calling, HoldsTask, Scanning, Registering, TypeOK,
                  durable, call, scanVars, CallMatchesStep
      <4>1. CASE TakeStore(p) \/ GiveUp(p) \/ Unlock(p)
        BY <2>1, <4>1 DEF TakeStore, GiveUp, Unlock
      <4>2. CASE Judge(p)
        BY <2>1, <4>2 DEF Judge, CompareLease, ProbeHeld, ProbeFree, EndProbe
      <4>3. CASE Work(p)
        BY <2>1, <4>3 DEF Work, RefuseFull, RefuseLeased, RecordTakeover, ClaimWorker,
                          FinishBody, Scanned
      <4>4. CASE Decide(p)
        BY <2>1, <4>4 DEF Decide, EndDecision, RefuseHeld, StartClaimScan, RefuseFull,
                          GrantLease, RenewLease, ReleaseLease, TakeTaskToDraft, Scanned
      <4>5. CASE Maintain(p)
        BY <2>1, <4>5 DEF Maintain, Quiescent, RefuseBusy, EndMaintenance, EndListing
      <4> QED BY <1>2, <4>1, <4>2, <4>3, <4>4, <4>5 DEF Step
    <3> QED BY <3>1 DEF GenerationFits, Callable
  <2>2. CASE q # p
    <3>1. HoldsTask(q) /\ Registering(q) /\ pc[q] \notin {"body", "leaving"} /\ on'[q] = on[q]
      BY <1>2, <2>2, OthersFrame DEF HoldsTask, Scanning, Registering
    <3>2. row'[on[q]] = row[on[q]]
      BY <1>2, <2>2, <3>1, RowFrame DEF LocksMatchSteps
    <3> QED BY <3>1, <3>2 DEF GenerationFits, Callable
  <2> QED BY <2>1, <2>2
<1>3. ASSUME NEW p \in Procs, Crash(p)
      PROVE  row'[on'[q]].generation < MaxGeneration
  <2>1. q # p
    BY <1>3 DEF Crash, Return, Goto, TypeOK, HoldsTask, Scanning
  <2>2. HoldsTask(q) /\ Registering(q) /\ pc[q] \notin {"body", "leaving"} /\ on'[q] = on[q]
    BY <1>3, <2>1, OthersFrame DEF HoldsTask, Scanning, Registering
  <2>3. on[q] \in Tasks /\ row'[on[q]].generation = row[on[q]].generation
    BY <1>3, <2>2 DEF Crash, SetOwner, LocksMatchSteps
  <2> QED BY <2>2, <2>3 DEF GenerationFits, Callable
<1>4. ASSUME NEW t \in Tasks, Expire(t)
      PROVE  row'[on'[q]].generation < MaxGeneration
  BY <1>4 DEF Expire, call, SetFresh, GenerationFits, Callable, HoldsTask, Scanning, Registering,
     TypeOK
<1>5. CASE UNCHANGED vars
  BY <1>5 DEF vars, GenerationFits, Callable, HoldsTask, Scanning, Registering
<1> QED BY <1>1, <1>2, <1>3, <1>4, <1>5 DEF Next

LEMMA ClaimInv == IInv /\ [Next]_vars => ClaimStillAdmitted'
<1> DEFINE Kept(q) ==
      /\ Admitted(q) /\ leases[q] = {} /\ probes[q] = {}
      /\ ~FreshLease(on[q]) /\ Takeover(q)
      /\ taken[on[q]] = [from |-> row[on[q]].owner, generation |-> row[on[q]].generation + 1]
<1> SUFFICES ASSUME IInv, [Next]_vars, NEW q \in Procs, pc'[q] = "claim"
             PROVE  Kept(q)'
  BY DEF ClaimStillAdmitted
<1> USE DEF IInv
<1>1. ASSUME NEW p \in Procs, Begin(p) \/ Step(p)
      PROVE  Kept(q)'
  <2>1. CASE q = p
    <3>1. RecordTakeover(p)
      BY <1>1, <2>1, Arrivals
    <3> QED BY <2>1, <3>1 DEF RecordTakeover, Scanned, Admitted, FreshLease, Takeover, call, scanVars,
               TypeOK, LocksMatchSteps, HoldsTask, Scanning, Registering
  <2>2. CASE q # p
    <3>1. /\ pc[q] = "claim" /\ on'[q] = on[q]
          /\ leases'[q] = leases[q] /\ probes'[q] = probes[q] /\ found'[q] = found[q]
      BY <1>1, <2>2, OthersFrame
    <3>2. on[q] \in Tasks /\ taskLock[on[q]] = q /\ storeLock = q
      BY <3>1 DEF LocksMatchSteps, HoldsTask, HoldsStore
    <3>3. row'[on[q]] = row[on[q]]
      BY <1>1, <2>2, <3>2, RowFrame
    <3>4. ~RecordTakeover(p)
      BY <2>2, <3>2 DEF RecordTakeover, Scanned, LocksMatchSteps, HoldsStore, Scanning
    <3>5. taken' = taken
      BY <1>1, <3>4
      DEF Begin, TakeTask, CheckLease, BeginMaintenance, BeginListing, Step, TakeStore, GiveUp,
          Unlock, Judge, CompareLease, ProbeHeld, ProbeFree, EndProbe, Work, RefuseFull,
          RefuseLeased, ClaimWorker, FinishBody, Decide, EndDecision, RefuseHeld,
          StartClaimScan, GrantLease, RenewLease, ReleaseLease, TakeTaskToDraft, Maintain,
          Quiescent, RefuseBusy, EndMaintenance, EndListing, durable
    <3> QED BY <3>1, <3>3, <3>5 DEF ClaimStillAdmitted, Admitted, FreshLease, Takeover
  <2> QED BY <2>1, <2>2
<1>2. ASSUME NEW p \in Procs, Crash(p)
      PROVE  Kept(q)'
  <2>1. q # p
    BY <1>2 DEF Crash, Return, Goto, TypeOK
  <2>2. /\ pc[q] = "claim" /\ on'[q] = on[q]
        /\ leases'[q] = leases[q] /\ probes'[q] = probes[q] /\ found'[q] = found[q]
    BY <1>2, <2>1, OthersFrame
  <2>3. on[q] \in Tasks /\ Kept(q)
    BY <2>2 DEF LocksMatchSteps, HoldsTask, ClaimStillAdmitted
  <2>4. /\ row'[on[q]] = IF row[on[q]].owner = p THEN SetOwner(row[on[q]], Gone) ELSE row[on[q]]
        /\ taken'[on[q]] = IF taken[on[q]].from = p
                           THEN [from |-> Gone, generation |-> taken[on[q]].generation]
                           ELSE taken[on[q]]
    BY <1>2, <2>3 DEF Crash
  <2>5. Gone # q
    BY OwnershipAssumption
  <2> QED BY <2>1, <2>2, <2>3, <2>4, <2>5 DEF Admitted, FreshLease, Takeover, SetOwner
<1>3. ASSUME NEW t \in Tasks, Expire(t)
      PROVE  Kept(q)'
  <2>1. pc[q] = "claim" /\ on[q] \in Tasks /\ Kept(q) /\ UNCHANGED <<on, taken, found, leases, probes>>
    BY <1>3 DEF Expire, call, scanVars, LocksMatchSteps, HoldsTask, ClaimStillAdmitted
  <2>2. row'[on[q]] = IF on[q] = t THEN SetFresh(row[t], FALSE) ELSE row[on[q]]
    BY <1>3, <2>1 DEF Expire, TypeOK
  <2> QED BY <2>1, <2>2 DEF Admitted, FreshLease, Takeover, SetFresh
<1>4. CASE UNCHANGED vars
  BY <1>4 DEF vars, ClaimStillAdmitted, Admitted, FreshLease, Takeover
<1> QED BY <1>1, <1>2, <1>3, <1>4 DEF Next

-----------------------------------------------------------------------------
(* A task starts being advanced in two steps only, both under the store's  *)
(* lock: a scan by another process cannot miss it.                         *)

LEMMA StepGrowth ==
    ASSUME IInv, NEW p \in Procs, Begin(p) \/ Step(p), NEW t \in Tasks
    PROVE  /\ FreshLease(t)' => FreshLease(t) \/ (GrantLease(p) /\ on[p] = t)
           /\ Working(t)' => Working(t) \/ (ClaimWorker(p) /\ on[p] = t)
           /\ GrantLease(p) \/ ClaimWorker(p) => storeLock = p
<1> USE DEF IInv
<1>1. ASSUME FreshLease(t)', ~FreshLease(t) PROVE GrantLease(p) /\ on[p] = t
  <2>1. row'[t] # row[t]
    BY <1>1 DEF FreshLease
  <2>2. /\ taskLock[t] = p /\ on[p] = t
        /\ ClaimWorker(p) \/ FinishBody(p) \/ GrantLease(p) \/ RenewLease(p) \/ ReleaseLease(p)
    BY <2>1, RowFrame
  <2>3. ~ClaimWorker(p)
    BY <1>1, <2>2 DEF ClaimWorker, FreshLease, TypeOK
  <2>4. ~FinishBody(p)
    BY <1>1, <2>1, <2>2 DEF FinishBody, FreshLease, TypeOK, NoRow
  <2>5. ~ReleaseLease(p)
    BY <1>1, <2>1, <2>2 DEF ReleaseLease, FreshLease, TypeOK, NoRow
  <2>6. ~RenewLease(p)
    BY <1>1, <2>1, <2>2 DEF RenewLease, Renewable, HoldsLease, FreshLease, TypeOK, SetFresh
  <2> QED BY <2>2, <2>3, <2>4, <2>5, <2>6
<1>2. ASSUME Working(t)', ~Working(t) PROVE ClaimWorker(p) /\ on[p] = t
  <2>1. PICK q \in Procs : pc'[q] = "body" /\ on'[q] = t
    BY <1>2 DEF Working
  <2>2. q = p
    BY <1>2, <2>1, OthersFrame DEF Working
  <2>3. ClaimWorker(p)
    BY <2>1, <2>2, Arrivals
  <2> QED BY <2>1, <2>2, <2>3 DEF ClaimWorker, call
<1>3. GrantLease(p) \/ ClaimWorker(p) => storeLock = p
  BY DEF GrantLease, ClaimWorker, Scanned, LocksMatchSteps, HoldsStore, Scanning
<1> QED BY <1>1, <1>2, <1>3

LEMMA CrashGrowth ==
    ASSUME IInv, NEW p \in Procs, Crash(p), NEW t \in Tasks
    PROVE  (FreshLease(t)' => FreshLease(t)) /\ (Working(t)' => Working(t))
<1>1. FreshLease(t)' => FreshLease(t)
  BY DEF Crash, FreshLease, SetOwner, IInv, TypeOK
<1>2. pc'[p] = "idle"
  BY DEF Crash, Return, Goto, IInv, TypeOK
<1>3. Working(t)' => Working(t)
  BY <1>2, OthersFrame DEF Working
<1> QED BY <1>1, <1>3

LEMMA ExpireGrowth ==
    ASSUME IInv, NEW s \in Tasks, Expire(s), NEW t \in Tasks
    PROVE  (FreshLease(t)' => FreshLease(t)) /\ (Working(t)' <=> Working(t))
BY DEF Expire, FreshLease, Working, SetFresh, IInv, TypeOK, call

-----------------------------------------------------------------------------
(* A scan misses nothing. *)

ScanSound(q, t) ==
    (FreshLease(t) => t \in leases[q]) /\ (Working(t) => t \in probes[q])

LEMMA FreshScan ==
    ASSUME IInv, NEW p \in Procs, ReadRegistry(p), UNCHANGED row, NEW t \in Tasks,
           FreshLease(t)' => FreshLease(t), Working(t)' => Working(t)
    PROVE  ScanSound(p, t)'
<1>1. /\ leases'[p] = {s \in Tasks : row[s].kind = "lease"}
      /\ probes'[p] = {s \in Tasks : row[s].kind = "worker"}
  BY DEF ReadRegistry, IInv, TypeOK
<1>2. FreshLease(t) => row[t].kind = "lease"
  BY DEF FreshLease
<1>3. Working(t) => row[t].kind = "worker"
  BY DEF Working, IInv, BodyIsClaimed
<1> QED BY <1>1, <1>2, <1>3 DEF ScanSound

LEMMA ScanInv == IInv /\ [Next]_vars => ScanMissesNothing'
<1> SUFFICES ASSUME IInv, [Next]_vars, NEW q \in Procs, NEW t \in Tasks,
                    HoldsStore(q)', Scanning(q)' \/ pc'[q] = "claim",
                    t \notin found'[q], t # on'[q]
             PROVE  ScanSound(q, t)'
  BY DEF ScanMissesNothing, ScanSound
<1> USE DEF IInv
<1>1. ASSUME NEW p \in Procs, Begin(p) \/ Step(p)
      PROVE  ScanSound(q, t)'
  <2>0. /\ FreshLease(t)' => FreshLease(t) \/ (GrantLease(p) /\ on[p] = t)
        /\ Working(t)' => Working(t) \/ (ClaimWorker(p) /\ on[p] = t)
        /\ GrantLease(p) \/ ClaimWorker(p) => storeLock = p
    BY <1>1, StepGrowth
  <2>1. CASE q # p
    <3>1. /\ pc'[q] = pc[q] /\ op'[q] = op[q] /\ on'[q] = on[q]
          /\ leases'[q] = leases[q] /\ probes'[q] = probes[q] /\ found'[q] = found[q]
      BY <1>1, <2>1, OthersFrame
    <3>2. HoldsStore(q) /\ (Scanning(q) \/ pc[q] = "claim")
      BY <3>1 DEF HoldsStore, Scanning
    <3>3. storeLock = q /\ ScanSound(q, t)
      BY <3>1, <3>2 DEF LocksMatchSteps, ScanMissesNothing, ScanSound
    <3> QED BY <2>0, <2>1, <3>1, <3>3 DEF ScanSound
  <2>2. CASE q = p
    <3>0. ~GrantLease(p) /\ ~ClaimWorker(p)
      BY <2>2 DEF GrantLease, ClaimWorker, Leave, Goto, HoldsStore, Scanning, TypeOK
    <3>1. CASE BeginMaintenance(p) \/ (TakeStore(p) /\ op[p] = "advance") \/ StartClaimScan(p)
      <4>1. ReadRegistry(p) /\ UNCHANGED row
        BY <3>1 DEF BeginMaintenance, TakeStore, StartClaimScan, durable
      <4> QED BY <2>0, <2>2, <3>0, <4>1, FreshScan
    <3>2. CASE RecordTakeover(p)
      BY <2>0, <2>2, <3>0, <3>2 DEF RecordTakeover, Scanned, call, scanVars, ScanMissesNothing,
         ScanSound, HoldsStore, Scanning
    <3>3. ASSUME NEW s \in Tasks, CompareLease(p, s)
          PROVE  ScanSound(p, t)'
      <4>1. /\ HoldsStore(p) /\ Scanning(p) /\ on'[p] = on[p]
            /\ UNCHANGED probes /\ row' = row
            /\ leases'[p] = leases[p] \ {s}
            /\ found'[p] = IF row[s].fresh THEN found[p] \cup {s} ELSE found[p]
        BY <2>2, <3>3 DEF CompareLease, call, durable, HoldsStore, Scanning, TypeOK
      <4>2. t \notin found[p] /\ t # on[p]
        BY <2>2, <4>1
      <4>3. ScanSound(p, t)
        BY <4>1, <4>2 DEF ScanMissesNothing, ScanSound
      <4> QED BY <2>0, <2>2, <3>0, <4>1, <4>3 DEF ScanSound, FreshLease
    <3>4. ASSUME NEW s \in Tasks, ProbeHeld(p, s)
          PROVE  ScanSound(p, t)'
      <4>1. /\ HoldsStore(p) /\ Scanning(p) /\ on'[p] = on[p]
            /\ UNCHANGED leases
            /\ probes'[p] = probes[p] \ {s} /\ found'[p] = found[p] \cup {s}
        BY <2>2, <3>4 DEF ProbeHeld, call, HoldsStore, Scanning, TypeOK
      <4>2. t \notin found[p] /\ t # on[p] /\ t # s
        BY <2>2, <4>1
      <4>3. ScanSound(p, t)
        BY <4>1, <4>2 DEF ScanMissesNothing, ScanSound
      <4> QED BY <2>0, <2>2, <3>0, <4>1, <4>2, <4>3 DEF ScanSound
    <3>5. ASSUME NEW s \in Tasks, ProbeFree(p, s)
          PROVE  ScanSound(p, t)'
      <4>1. /\ HoldsStore(p) /\ Scanning(p) /\ on'[p] = on[p]
            /\ UNCHANGED <<leases, probes, found>>
        BY <2>2, <3>5 DEF ProbeFree, Goto, call, scanVars, HoldsStore, Scanning, TypeOK
      <4>2. ScanSound(p, t)
        BY <2>2, <4>1 DEF ScanMissesNothing, ScanSound
      <4> QED BY <2>0, <2>2, <3>0, <4>1, <4>2 DEF ScanSound
    <3>6. ASSUME NEW s \in Tasks, EndProbe(p, s)
          PROVE  ScanSound(p, t)'
      <4>1. /\ HoldsStore(p) /\ Scanning(p) /\ on'[p] = on[p]
            /\ UNCHANGED <<leases, found>> /\ probes'[p] = probes[p] \ {s}
        BY <2>2, <3>6 DEF EndProbe, Goto, call, HoldsStore, Scanning, TypeOK
      <4>2. ScanSound(p, t)
        BY <2>2, <4>1 DEF ScanMissesNothing, ScanSound
      <4>3. ~Working(s)
        BY <3>6 DEF EndProbe, Working, LocksMatchSteps, HoldsTask
      <4> QED BY <2>0, <2>2, <3>0, <4>1, <4>2, <4>3 DEF ScanSound
    <3>7. \/ BeginMaintenance(p) \/ (TakeStore(p) /\ op[p] = "advance") \/ StartClaimScan(p)
          \/ RecordTakeover(p)
          \/ Judge(p)
      <4> USE DEF Goto, Return, Leave, Calling, HoldsStore, Scanning, TypeOK, durable, call, scanVars
      <4>1. CASE Begin(p)
        BY <2>2, <4>1 DEF Begin, TakeTask, CheckLease, BeginListing
      <4>2. CASE TakeStore(p) \/ GiveUp(p) \/ Unlock(p)
        BY <2>2, <4>2 DEF TakeStore, GiveUp, Unlock
      <4>3. CASE Work(p)
        BY <2>2, <4>3 DEF Work, RefuseFull, RefuseLeased, ClaimWorker, FinishBody
      <4>4. CASE Decide(p)
        BY <2>2, <4>4 DEF Decide, EndDecision, RefuseHeld, RefuseFull, GrantLease,
                          RenewLease, ReleaseLease, TakeTaskToDraft
      <4>5. CASE Maintain(p)
        BY <2>2, <4>5 DEF Maintain, Quiescent, RefuseBusy, EndMaintenance, EndListing
      <4> QED BY <1>1, <4>1, <4>2, <4>3, <4>4, <4>5 DEF Step
    <3> QED BY <2>2, <3>1, <3>2, <3>3, <3>4, <3>5, <3>6, <3>7 DEF Judge
  <2> QED BY <2>1, <2>2
<1>2. ASSUME NEW p \in Procs, Crash(p)
      PROVE  ScanSound(q, t)'
  <2>1. q # p
    BY <1>2 DEF Crash, Return, Goto, HoldsStore, Scanning, TypeOK
  <2>2. /\ pc'[q] = pc[q] /\ op'[q] = op[q] /\ on'[q] = on[q]
        /\ leases'[q] = leases[q] /\ probes'[q] = probes[q] /\ found'[q] = found[q]
    BY <1>2, <2>1, OthersFrame
  <2>3. ScanSound(q, t)
    BY <2>2 DEF ScanMissesNothing, ScanSound, HoldsStore, Scanning
  <2> QED BY <1>2, <2>2, <2>3, CrashGrowth DEF ScanSound
<1>3. ASSUME NEW s \in Tasks, Expire(s)
      PROVE  ScanSound(q, t)'
  <2>1. UNCHANGED <<pc, op, on, leases, probes, found>>
    BY <1>3 DEF Expire, call, scanVars
  <2>2. ScanSound(q, t)
    BY <2>1 DEF ScanMissesNothing, ScanSound, HoldsStore, Scanning
  <2> QED BY <1>3, <2>1, <2>2, ExpireGrowth DEF ScanSound
<1>4. CASE UNCHANGED vars
  BY <1>4 DEF vars, ScanMissesNothing, ScanSound, HoldsStore, Scanning, FreshLease, Working
<1> QED BY <1>1, <1>2, <1>3, <1>4 DEF Next

-----------------------------------------------------------------------------
(* What follows from it: nothing is advanced while maintenance runs, and   *)
(* never more than Bound tasks at all.                                     *)

LEMMA Deciders ==
    ASSUME IInv, NEW p \in Procs, Begin(p) \/ Step(p), pc'[p] = "deciding"
    PROVE  pc[p] = "deciding" \/ storeLock = None
<1> USE DEF IInv, TypeOK, Goto, Return, Leave, Calling, durable, call, scanVars
<1>1. CASE Begin(p)
  BY <1>1 DEF Begin, TakeTask, CheckLease, BeginMaintenance, BeginListing
<1>2. CASE TakeStore(p) \/ GiveUp(p) \/ Unlock(p)
  BY <1>2 DEF TakeStore, GiveUp, Unlock
<1>3. CASE Judge(p)
  BY <1>3 DEF Judge, CompareLease, ProbeHeld, ProbeFree, EndProbe
<1>4. CASE Work(p)
  BY <1>4 DEF Work, RefuseFull, RefuseLeased, RecordTakeover, ClaimWorker, FinishBody
<1>5. CASE Decide(p)
  BY <1>5 DEF Decide, EndDecision, RefuseHeld, StartClaimScan, RefuseFull, GrantLease,
              RenewLease, ReleaseLease, TakeTaskToDraft
<1>6. CASE Maintain(p)
  BY <1>6 DEF Maintain, Quiescent, RefuseBusy, EndMaintenance, EndListing
<1> QED BY <1>1, <1>2, <1>3, <1>4, <1>5, <1>6 DEF Step

LEMMA AloneInv == IInv /\ [Next]_vars => MaintenanceIsAlone'
<1> SUFFICES ASSUME IInv, [Next]_vars, NEW p \in Procs, pc'[p] = "maintain"
             PROVE  /\ \A t \in Tasks : ~FreshLease(t)' /\ ~Working(t)'
                    /\ \A q \in Procs : pc'[q] # "deciding"
  BY DEF MaintenanceIsAlone, Advancing, Deciding
<1> USE DEF IInv
<1>0. pc[p] = "maintain" => /\ storeLock = p
                            /\ \A t \in Tasks : ~FreshLease(t) /\ ~Working(t)
                            /\ \A q \in Procs : pc[q] # "deciding"
  BY DEF MaintenanceIsAlone, Advancing, Deciding, LocksMatchSteps, HoldsStore
<1>1. ASSUME NEW r \in Procs, Begin(r) \/ Step(r)
      PROVE  /\ \A t \in Tasks : ~FreshLease(t)' /\ ~Working(t)'
             /\ \A q \in Procs : pc'[q] # "deciding"
  <2>1. CASE r = p
    <3>1. Quiescent(p)
      BY <1>1, <2>1, Arrivals
    <3>2. HoldsStore(p) /\ Scanning(p) /\ storeLock = p /\ on[p] = None
      BY <3>1 DEF Quiescent, Scanned, HoldsStore, Scanning, LocksMatchSteps, CallMatchesStep
    <3>3. \A t \in Tasks : ~FreshLease(t) /\ ~Working(t)
      BY <3>1, <3>2, OwnershipAssumption DEF Quiescent, Scanned, ScanMissesNothing
    <3>4. UNCHANGED <<row, on>> /\ pc' = [pc EXCEPT ![p] = "maintain"]
      BY <3>1 DEF Quiescent, durable, call, Goto
    <3>5. \A q \in Procs : pc[q] # "deciding"
      BY <3>1, <3>2 DEF LocksMatchSteps, HoldsStore, Quiescent, Scanned
    <3>6. \A t \in Tasks : ~FreshLease(t)' /\ ~Working(t)'
      BY <3>3, <3>4 DEF FreshLease, Working, TypeOK
    <3> QED BY <3>4, <3>5, <3>6 DEF TypeOK
  <2>2. CASE r # p
    <3>1. pc[p] = "maintain"
      BY <1>1, <2>2, OthersFrame
    <3>2. ~GrantLease(r) /\ ~ClaimWorker(r)
      <4> SUFFICES ASSUME NEW t \in Tasks, GrantLease(r) \/ ClaimWorker(r) PROVE FALSE
        BY DEF GrantLease, ClaimWorker, Scanned, LocksMatchSteps, HoldsTask, Scanning, Registering
      <4> QED BY <1>0, <1>1, <2>2, <3>1, StepGrowth
    <3>3. \A t \in Tasks : ~FreshLease(t)' /\ ~Working(t)'
      BY <1>0, <1>1, <3>1, <3>2, StepGrowth
    <3>4. ASSUME NEW q \in Procs PROVE pc'[q] # "deciding"
      <4>1. CASE q = r
        BY <1>0, <1>1, <3>1, <4>1, Deciders, OwnershipAssumption
      <4>2. CASE q # r
        BY <1>0, <1>1, <3>1, <4>2, OthersFrame
      <4> QED BY <4>1, <4>2
    <3> QED BY <3>3, <3>4
  <2> QED BY <2>1, <2>2
<1>2. ASSUME NEW r \in Procs, Crash(r)
      PROVE  /\ \A t \in Tasks : ~FreshLease(t)' /\ ~Working(t)'
             /\ \A q \in Procs : pc'[q] # "deciding"
  <2>1. pc'[r] = "idle"
    BY <1>2 DEF Crash, Return, Goto, TypeOK
  <2>2. \A q \in Procs \ {r} : pc'[q] = pc[q]
    BY <1>2, OthersFrame
  <2> QED BY <1>0, <1>2, <2>1, <2>2, CrashGrowth
<1>3. ASSUME NEW s \in Tasks, Expire(s)
      PROVE  /\ \A t \in Tasks : ~FreshLease(t)' /\ ~Working(t)'
             /\ \A q \in Procs : pc'[q] # "deciding"
  <2>1. pc' = pc
    BY <1>3 DEF Expire
  <2> QED BY <1>0, <1>3, <2>1, ExpireGrowth
<1>4. CASE UNCHANGED vars
  BY <1>0, <1>4 DEF vars, FreshLease, Working
<1> QED BY <1>1, <1>2, <1>3, <1>4 DEF Next

(* One admission adds one task to a set that has room for it. *)
LEMMA RoomForOne ==
    ASSUME NEW S, IsFiniteSet(S), NEW t, t \notin S, Bound \in Nat, Cardinality(S) < Bound,
           NEW A \in SUBSET (S \cup {t})
    PROVE  Cardinality(A) <= Bound
<1>1. IsFiniteSet(S \cup {t}) /\ Cardinality(S \cup {t}) = Cardinality(S) + 1
  BY FS_AddElement
<1>2. IsFiniteSet(A) /\ Cardinality(A) <= Cardinality(S \cup {t})
  BY <1>1, FS_Subset
<1>3. Cardinality(S) \in Nat /\ Cardinality(A) \in Nat
  BY <1>2, FS_CardinalityType
<1> QED BY <1>1, <1>2, <1>3

LEMMA AdmissionInv == IInv /\ [Next]_vars => AdmissionBound'
<1> SUFFICES ASSUME IInv, [Next]_vars PROVE Cardinality(Advancing') <= Bound
  BY DEF AdmissionBound
<1> USE DEF IInv
<1>0. ASSUME \A t \in Tasks : t \in Advancing' => t \in Advancing
      PROVE  Cardinality(Advancing') <= Bound
  <2>1. Advancing' \in SUBSET Advancing /\ Advancing \in SUBSET Tasks
    BY <1>0 DEF Advancing
  <2>2. IsFiniteSet(Advancing) /\ IsFiniteSet(Advancing')
    BY <2>1, OwnershipAssumption, FS_Subset
  <2>3. Cardinality(Advancing') <= Cardinality(Advancing)
    BY <2>1, <2>2, FS_Subset
  <2>4. Cardinality(Advancing) \in Nat /\ Cardinality(Advancing') \in Nat
    BY <2>2, FS_CardinalityType
  <2> QED BY <2>3, <2>4, OwnershipAssumption DEF AdmissionBound
<1>1. ASSUME NEW p \in Procs, Begin(p) \/ Step(p)
      PROVE  Cardinality(Advancing') <= Bound
  <2>1. CASE GrantLease(p) \/ ClaimWorker(p)
    <3>1. /\ Admitted(p) /\ leases[p] = {} /\ probes[p] = {}
          /\ HoldsStore(p) /\ (Scanning(p) \/ pc[p] = "claim")
      BY <2>1 DEF GrantLease, ClaimWorker, Scanned, ClaimStillAdmitted, HoldsStore, Scanning
    <3>2. \A t \in Tasks : t \in Advancing => t \in found[p] \cup {on[p]}
      BY <3>1 DEF Advancing, ScanMissesNothing
    <3>3. \A t \in Tasks : t \in Advancing' => t \in Advancing \cup {on[p]}
      BY <1>1, StepGrowth DEF Advancing
    <3> DEFINE S == found[p] \ {on[p]}
    <3>4. Advancing' \in SUBSET (S \cup {on[p]})
      BY <3>2, <3>3 DEF Advancing
    <3>5. IsFiniteSet(S)
      <4>1. S \in SUBSET Tasks
        BY DEF TypeOK
      <4> QED BY <4>1, OwnershipAssumption, FS_Subset
    <3>6. Cardinality(S) < Bound /\ on[p] \notin S
      BY <3>1 DEF Admitted
    <3> HIDE DEF S
    <3> QED BY <3>4, <3>5, <3>6, RoomForOne, OwnershipAssumption
  <2>2. CASE ~GrantLease(p) /\ ~ClaimWorker(p)
    <3>1. \A t \in Tasks : t \in Advancing' => t \in Advancing
      BY <1>1, <2>2, StepGrowth DEF Advancing
    <3> QED BY <1>0, <3>1
  <2> QED BY <2>1, <2>2
<1>2. ASSUME NEW p \in Procs, Crash(p)
      PROVE  Cardinality(Advancing') <= Bound
  BY <1>0, <1>2, CrashGrowth DEF Advancing
<1>3. ASSUME NEW s \in Tasks, Expire(s)
      PROVE  Cardinality(Advancing') <= Bound
  BY <1>0, <1>3, ExpireGrowth DEF Advancing
<1>4. CASE UNCHANGED vars
  BY <1>0, <1>4 DEF vars, Advancing, Working, FreshLease
<1> QED BY <1>1, <1>2, <1>3, <1>4 DEF Next

-----------------------------------------------------------------------------
(* The theorems. *)

LEMMA InitIInv == Init => IInv
<1> SUFFICES ASSUME Init PROVE IInv
  OBVIOUS
<1>1. TypeOK
  BY InitTypeOK
<1>2. Advancing = {}
  BY DEF Init, Advancing, Working, FreshLease, NoRow
<1>3. AdmissionBound
  BY <1>2, FS_EmptySet, OwnershipAssumption DEF AdmissionBound
<1>4. /\ CallMatchesStep /\ LocksMatchSteps /\ BodyIsClaimed /\ ScanMissesNothing
      /\ ClaimStillAdmitted /\ GenerationFits /\ MaintenanceIsAlone
  BY DEF Init, CallMatchesStep, LocksMatchSteps, BodyIsClaimed, ScanMissesNothing,
         ClaimStillAdmitted, GenerationFits, MaintenanceIsAlone, HoldsTask, HoldsStore,
         Scanning, Registering
<1> QED BY <1>1, <1>3, <1>4 DEF IInv

LEMMA NextIInv == IInv /\ [Next]_vars => IInv'
BY NextTypeOK, NextLockInv, BodyInv, ScanInv, ClaimInv, GenerationInv, AdmissionInv, AloneInv
   DEF IInv, LockInv

LEMMA IInvOneHolder == IInv => OneHolder
BY DEF IInv, OneHolder, LocksMatchSteps, BodyIsClaimed, FreshLease, Deciding, HoldsTask

(* Every state the program reaches satisfies the inductive invariant: the  *)
(* locks are where the calls' steps say, a body's claim is its own, a scan *)
(* under the store's lock misses no live claim, and what a worker checked  *)
(* still holds when it writes its claim a transaction later.               *)
THEOREM InductiveInvariant == Spec => []IInv
BY InitIInv, NextIInv, PTL DEF Spec

(* The variables keep the types the code gives them, whatever the calls,   *)
(* crashes and expiries of engine.advancing, deciding and the maintenance  *)
(* commands.                                                               *)
THEOREM TypeCorrect == Spec => []TypeOK
<1>1. IInv => TypeOK
  BY DEF IInv
<1> QED BY <1>1, InductiveInvariant, PTL

(* MAX_ACTIVE_TASKS is a true bound for any number of workers, services    *)
(* and agents: two of them never both see the last free slot.              *)
THEOREM NeverOverAdmitted == Spec => []AdmissionBound
<1>1. IInv => AdmissionBound
  BY DEF IInv
<1> QED BY <1>1, InductiveInvariant, PTL

(* While a process is in the body of Engine.advancing no lease on the task *)
(* is live, nobody else is in its body and nobody decides about it.        *)
THEOREM TaskHasOneHolder == Spec => []OneHolder
BY InductiveInvariant, IInvOneHolder, PTL

(* Backup, restore and artifact collection run with nothing advanced,      *)
(* leased or decided, because Storage.quiescent refuses any live claim and *)
(* keeps the store's lock.                                                 *)
THEOREM MaintenanceRunsAlone == Spec => []MaintenanceIsAlone
<1>1. IInv => MaintenanceIsAlone
  BY DEF IInv
<1> QED BY <1>1, InductiveInvariant, PTL

LEMMA OnlyAClaimTakesOver ==
    ASSUME IInv, NEW p \in Procs, Begin(p) \/ Step(p), NEW t \in Tasks,
           row'[t].kind = "worker", row[t].kind # "none",
           row'[t].owner # row[t].owner
    PROVE  taken[t] = [from |-> row[t].owner, generation |-> row'[t].generation]
<1> USE DEF IInv
<1>1. on[p] = t /\ (ClaimWorker(p) \/ FinishBody(p) \/ GrantLease(p) \/ RenewLease(p) \/ ReleaseLease(p))
  BY RowFrame
<1>2. ~FinishBody(p)
  BY <1>1 DEF FinishBody, NoRow, TypeOK
<1>3. ~ReleaseLease(p)
  BY <1>1 DEF ReleaseLease, NoRow, TypeOK
<1>4. ~GrantLease(p)
  BY <1>1 DEF GrantLease, TypeOK
<1>5. ~RenewLease(p)
  BY <1>1 DEF RenewLease, SetFresh, TypeOK
<1>6. ClaimWorker(p)
  BY <1>1, <1>2, <1>3, <1>4, <1>5
<1>7. row'[t].owner = p /\ row'[t].generation = ClaimGeneration(p)
  BY <1>1, <1>6 DEF ClaimWorker, TypeOK
<1>8. Takeover(p)
  BY <1>1, <1>7 DEF Takeover
<1>9. pc[p] = "claim"
  BY <1>6, <1>8 DEF ClaimWorker
<1> QED BY <1>1, <1>7, <1>8, <1>9 DEF ClaimStillAdmitted, ClaimGeneration

(* A worker that replaces another's claim has already committed the        *)
(* task_ownership_taken event naming that holder and the new generation.   *)
THEOREM TakeoversAreRecorded == Spec => TakeoverIsRecorded
<1> DEFINE Recorded ==
      \A t \in Tasks :
          /\ row'[t].kind = "worker"
          /\ row[t].kind # "none"
          /\ row'[t].owner \notin {row[t].owner, Gone}
          => taken[t] = [from |-> row[t].owner, generation |-> row'[t].generation]
<1>1. IInv /\ [Next]_vars => [Recorded]_vars
  <2> SUFFICES ASSUME IInv, [Next]_vars, NEW t \in Tasks, row'[t].kind = "worker",
                      row[t].kind # "none", row'[t].owner \notin {row[t].owner, Gone}
               PROVE  taken[t] = [from |-> row[t].owner, generation |-> row'[t].generation]
    OBVIOUS
  <2>1. ASSUME NEW p \in Procs, Begin(p) \/ Step(p)
        PROVE  taken[t] = [from |-> row[t].owner, generation |-> row'[t].generation]
    BY <2>1, OnlyAClaimTakesOver
  <2>2. ASSUME NEW p \in Procs, Crash(p) PROVE FALSE
    BY <2>2 DEF Crash, SetOwner
  <2>3. ASSUME NEW s \in Tasks, Expire(s) PROVE FALSE
    BY <2>3 DEF Expire, SetFresh, IInv, TypeOK
  <2>4. CASE UNCHANGED vars
    BY <2>4 DEF vars
  <2> QED BY <2>1, <2>2, <2>3, <2>4 DEF Next
<1> QED BY <1>1, InductiveInvariant, PTL DEF Spec, TakeoverIsRecorded

=============================================================================
