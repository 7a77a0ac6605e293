----------------------------- MODULE BatchesProofs -----------------------------
(***************************************************************************)
(* Proofs about Batches, for any batches, tasks and processes and any      *)
(* bounds.  IInv is inductive; each safety property checked by TLC is one  *)
(* of its parts.                                                           *)
(***************************************************************************)
EXTENDS Batches, TLAPS

Inside == {"advancing", "operating"}
Working == {"stepping", "returned"} \cup Inside
Records == [Tasks -> [operation : Stages, invoked : BOOLEAN, approved : BOOLEAN]]

(* What a process is doing fits what it holds and what is reserved. *)
CallFits(w) ==
    /\ at[w].slot = None => at[w].step \in {"idle"} \cup Inside
    /\ at[w].slot # None =>
          /\ dispatch = w
          /\ at[w].step \in {"choosing"} \cup Working
          /\ at[w].step \in Working =>
                /\ at[w].task = TaskOf(at[w].slot)
                /\ entry[at[w].slot].status = "running"
                /\ entry[at[w].slot].steps < StepLimit
    /\ at[w].step \in Inside => at[w].task \in Tasks /\ lock[at[w].task] = w

CallsFit == \A w \in Workers : CallFits(w)

LocksFit == \A w \in Workers, t \in Tasks :
    lock[t] = w => at[w].task = t /\ at[w].step \in Inside

PendingIsFresh == \A e \in Listed : entry[e].status = "pending" => entry[e].steps = 0

(* A running batch has nothing in need of review but what it works on. *)
NothingElseOpen == \A w \in Workers, f \in Listed :
    /\ at[w].slot # None
    /\ f[1] = at[w].slot[1]
    /\ f # at[w].slot \/ at[w].step = "choosing"
    => ~NeedsReview(f)

(* A snapshot that still is its task's is the reviewed one or the entry's  *)
(* own, saved or on its way to be.                                         *)
SnapshotsAreOwn ==
    /\ \A e \in matching : e \notin foreign
    /\ \A w \in Workers :
          at[w].step = "returned" /\ at[w].fresh => at[w].slot \notin foreign
    /\ \A e \in foreign : journal[e[1]] = "written"

IInv ==
    /\ TypeOK
    /\ PendingIsFresh
    /\ CallsFit
    /\ LocksFit
    /\ NothingElseOpen
    /\ EarlierAreDone
    /\ SnapshotsAreOwn
    /\ ReviewedWorkOnly

(* Whatever a step writes into a task's record is a record. *)
LEMMA Recorded ==
    ASSUME TypeOK, NEW t \in Tasks, NEW stage \in Stages, NEW invoked \in {record[t].invoked, TRUE, FALSE}
    PROVE  /\ [record EXCEPT ![t].operation = stage, ![t].invoked = invoked] \in Records
           /\ [record EXCEPT ![t].operation = stage] \in Records
           /\ [record EXCEPT ![t].approved = FALSE] \in Records
<1>1. record \in Records /\ record[t] \in [operation : Stages, invoked : BOOLEAN, approved : BOOLEAN]
  BY DEF TypeOK, Records
<1>2. /\ [record[t] EXCEPT !.operation = stage, !.invoked = invoked]
            \in [operation : Stages, invoked : BOOLEAN, approved : BOOLEAN]
      /\ [record[t] EXCEPT !.operation = stage] \in [operation : Stages, invoked : BOOLEAN, approved : BOOLEAN]
      /\ [record[t] EXCEPT !.approved = FALSE] \in [operation : Stages, invoked : BOOLEAN, approved : BOOLEAN]
  BY <1>1
<1> QED BY <1>1, <1>2 DEF Records

LEMMA ListedFacts ==
    \A e \in Listed : e[1] \in Batches /\ e[2] \in Nat /\ TaskOf(e) \in Tasks /\ e # None
BY BatchAssumption DEF Listed, Slots, Batches, Tasks, TaskOf

LEMMA IdleIsCall == Idle \in Calls
BY DEF Idle, Calls

LEMMA GotoType ==
    ASSUME TypeOK, NEW w \in Workers, NEW step \in {"choosing", "stepping", "advancing"}, Goto(w, step)
    PROVE  at' \in [Workers -> Calls]
<1>1. at \in [Workers -> Calls]
  BY DEF TypeOK
<1>2. [at[w] EXCEPT !.step = step, !.reached = None, !.fresh = FALSE] \in Calls
  BY <1>1 DEF Calls
<1> QED BY <1>1, <1>2 DEF Goto

LEMMA LeaveType ==
    ASSUME TypeOK, NEW w \in Workers, Leave(w)
    PROVE  /\ dispatch' \in Workers \cup {None}
           /\ lock' \in [Tasks -> Workers \cup {None}]
           /\ at' \in [Workers -> Calls]
BY IdleIsCall DEF TypeOK, Leave

LEMMA ReturnType ==
    ASSUME TypeOK, NEW w \in Workers, NEW to \in PAUSED \cup {"RUNNABLE"}
    PROVE  Return(w, to) \in [Workers -> Calls]
<1>1. at \in [Workers -> Calls]
  BY DEF TypeOK
<1>2. [at[w] EXCEPT !.step = "returned", !.reached = to, !.fresh = TRUE] \in Calls
  BY <1>1 DEF Calls
<1> QED BY <1>1, <1>2, IdleIsCall DEF Return

LEMMA ChangeType ==
    ASSUME TypeOK, NEW t, NEW w, NEW next \in [Workers -> Calls], Change(t, w, next)
    PROVE  /\ matching' \subseteq Listed
           /\ foreign' \subseteq Listed
           /\ at' \in [Workers -> Calls]
<1>1. \A v \in Workers : [next[v] EXCEPT !.fresh = FALSE] \in Calls
  BY DEF Calls
<1> QED BY <1>1 DEF TypeOK, Change

LEMMA StartType ==
    ASSUME TypeOK, NEW w \in Workers
    PROVE  [at EXCEPT ![w].step = "operating"] \in [Workers -> Calls]
<1>1. at \in [Workers -> Calls]
  BY DEF TypeOK
<1>2. [at[w] EXCEPT !.step = "operating"] \in Calls
  BY <1>1 DEF Calls
<1> QED BY <1>1, <1>2

LEMMA BeginType ==
    /\ \A e \in Listed : [Idle EXCEPT !.step = "choosing", !.slot = e] \in Calls
    /\ \A t \in Tasks : [Idle EXCEPT !.step = "advancing", !.task = t] \in Calls
BY DEF Idle, Calls

LEMMA CallFacts ==
    ASSUME IInv, NEW w \in Workers
    PROVE  /\ at[w] \in Calls
           /\ w # None
           /\ at[w].step \in {"choosing", "stepping", "returned"} => at[w].slot \in Listed
           /\ at[w].slot # None => at[w].slot \in Listed /\ dispatch = w
           /\ at[w].slot # None /\ at[w].step # "choosing" => at[w].task = TaskOf(at[w].slot)
           /\ at[w].step \in {"stepping", "returned"} =>
                 /\ at[w].task = TaskOf(at[w].slot)
                 /\ entry[at[w].slot].steps < StepLimit
           /\ at[w].step \in Inside => at[w].task \in Tasks
<1>1. at[w] \in Calls /\ CallFits(w) /\ w # None
  BY BatchAssumption DEF IInv, TypeOK, CallsFit
<1> QED BY <1>1 DEF CallFits, Calls, Working, Inside

(* What leaves the entries alone leaves alone what is said of them only. *)
LEMMA EntriesStand ==
    ASSUME IInv, UNCHANGED entry
    PROVE  PendingIsFresh' /\ EarlierAreDone'
BY DEF IInv, PendingIsFresh, EarlierAreDone, NeedsReview

-----------------------------------------------------------------------------
(* The calls that end, come back or come from outside. *)

(* A call ends or its process dies, and nothing else happens. *)
LEMMA LeaveKeeps ==
    ASSUME IInv, NEW w \in Workers, Leave(w), faults' \in 0..MaxFaults,
           UNCHANGED <<journal, over, entry, matching, phase, record, foreign, moves>>
    PROVE  IInv'
<1> USE ListedFacts DEF IInv
<1>1. TypeOK'
  BY LeaveType DEF TypeOK
<1>2. CallsFit'
  BY BatchAssumption DEF CallsFit, CallFits, TypeOK, Inside, Working, Leave, Idle
<1>3. LocksFit'
  BY CallFacts DEF LocksFit, Leave, Idle
<1>4. NothingElseOpen'
  BY DEF NothingElseOpen, NeedsReview, Leave, Idle
<1>5. SnapshotsAreOwn' /\ ReviewedWorkOnly'
  BY DEF SnapshotsAreOwn, ReviewedWorkOnly, Leave, Idle
<1> QED BY <1>1, <1>2, <1>3, <1>4, <1>5, EntriesStand

(* What a process changed and returns is its entry's own. *)
LEMMA ReturnSnapshots ==
    ASSUME IInv, NEW w \in Workers, at[w].step \in Inside, NEW to,
           Change(at[w].task, w, Return(w, to)), UNCHANGED journal
    PROVE  SnapshotsAreOwn'
<1> DEFINE t == at[w].task
<1>1. foreign' = foreign \cup {e \in Listed : TaskOf(e) = t /\ Unfinished(e) /\ (w = None \/ at[w].slot # e)}
  BY DEF Change
<1>2. \A e \in matching' : e \notin foreign'
  BY <1>1 DEF Change, IInv, SnapshotsAreOwn
<1>3. \A e \in foreign' : journal'[e[1]] = "written"
  BY <1>1 DEF Unfinished, IInv, SnapshotsAreOwn
<1>4. ASSUME NEW v \in Workers, at'[v].step = "returned", at'[v].fresh
      PROVE  at'[v].slot \notin foreign'
  <2>1. CASE v = w
    <3>1. at'[w].slot = at[w].slot /\ at[w].slot # None
      BY <1>4, <2>1, CallFacts DEF Change, Return, IInv, TypeOK, Calls, Idle
    <3> QED BY <2>1, <3>1, <1>1, CallFacts DEF IInv, ReviewedWorkOnly, Inside
  <2>2. CASE v # w
    <3>1. at'[v] = at[v] /\ at[v].task # t
      BY <1>4, <2>2, CallFacts DEF Change, Return, IInv, TypeOK, Calls
    <3>2. at[v].slot \in Listed /\ TaskOf(at[v].slot) # t
      BY <1>4, <3>1, CallFacts
    <3> QED BY <1>4, <1>1, <3>1, <3>2 DEF IInv, SnapshotsAreOwn
  <2> QED BY <2>1, <2>2
<1> QED BY <1>2, <1>3, <1>4 DEF SnapshotsAreOwn

(* Engine.advance comes back with the task as it left it. *)
LEMMA ReturnKeeps ==
    ASSUME IInv, NEW w \in Workers, at[w].step \in Inside,
           NEW to \in PAUSED \cup {"RUNNABLE"},
           phase' = [phase EXCEPT ![at[w].task] = to],
           Change(at[w].task, w, Return(w, to)), Unlock(w),
           record' \in Records, faults' \in 0..MaxFaults,
           UNCHANGED <<journal, over, entry, dispatch, moves>>
    PROVE  IInv'
<1> USE ListedFacts DEF IInv
<1>1. TypeOK'
  <2>1. at[w].task \in Tasks
    BY CallFacts
  <2>2. matching' \subseteq Listed /\ foreign' \subseteq Listed /\ at' \in [Workers -> Calls]
    BY ReturnType, ChangeType
  <2> QED BY <2>1, <2>2 DEF TypeOK, Records, Unlock
<1>2. CallsFit'
  BY BatchAssumption DEF CallsFit, CallFits, TypeOK, Inside, Working, Change, Return, Idle, Unlock
<1>3. LocksFit'
  BY BatchAssumption DEF LocksFit, TypeOK, CallsFit, CallFits, Inside, Working, Change, Return, Idle, Unlock
<1>4. NothingElseOpen'
  BY DEF NothingElseOpen, NeedsReview, Change, Return, Idle
<1>5. SnapshotsAreOwn'
  BY ReturnSnapshots
<1>6. ReviewedWorkOnly'
  BY BatchAssumption DEF ReviewedWorkOnly, TypeOK, CallsFit, CallFits, Inside, Working, Change, Return, Idle
<1> QED BY <1>1, <1>2, <1>3, <1>4, <1>5, <1>6, EntriesStand

(* Somebody outside of all calls changes a task nobody has locked. *)
LEMMA OutsideKeeps ==
    ASSUME IInv, NEW t \in Tasks, lock[t] = None,
           NEW to \in PAUSED \cup {"RUNNABLE"}, phase' = [phase EXCEPT ![t] = to],
           Change(t, None, at),
           record' \in Records, moves' \in 0..MaxMoves,
           UNCHANGED <<journal, over, entry, dispatch, lock, faults>>
    PROVE  IInv'
<1> USE ListedFacts DEF IInv
<1>1. TypeOK'
  <2>1. matching' \subseteq Listed /\ foreign' \subseteq Listed /\ at' \in [Workers -> Calls]
    BY ChangeType DEF TypeOK
  <2> QED BY <2>1 DEF TypeOK, Records
<1>2. CallsFit' /\ LocksFit'
  BY DEF CallsFit, CallFits, LocksFit, Change
<1>3. NothingElseOpen'
  BY DEF NothingElseOpen, NeedsReview, Change
<1>4. SnapshotsAreOwn'
  BY CallFacts DEF SnapshotsAreOwn, Change, Unfinished
<1>5. ReviewedWorkOnly'
  BY BatchAssumption DEF ReviewedWorkOnly, TypeOK, CallsFit, CallFits, Inside, Working, Change
<1> QED BY <1>1, <1>2, <1>3, <1>4, <1>5, EntriesStand

-----------------------------------------------------------------------------
(* The steps. *)

LEMMA CreateKeeps ==
    ASSUME IInv, NEW w \in Workers, NEW b \in Batches, Create(w, b)
    PROVE  IInv'
<1> USE ListedFacts DEF IInv, batchVars, taskVars, Create, Fault
<1>1. TypeOK'
  BY BatchAssumption DEF TypeOK
<1>2. CallsFit'
  BY DEF CallsFit, CallFits
<1>3. LocksFit'
  BY DEF LocksFit
<1>4. NothingElseOpen'
  BY DEF NothingElseOpen, NeedsReview
<1>5. SnapshotsAreOwn'
  BY DEF SnapshotsAreOwn, TypeOK
<1>6. ReviewedWorkOnly'
  BY DEF ReviewedWorkOnly
<1> QED BY <1>1, <1>2, <1>3, <1>4, <1>5, <1>6, EntriesStand

LEMMA ExpireKeeps ==
    ASSUME IInv, NEW b \in Batches, Expire(b)
    PROVE  IInv'
<1> USE ListedFacts DEF IInv, batchVars, taskVars, Expire
<1>1. TypeOK'
  BY DEF TypeOK
<1>2. CallsFit'
  BY DEF CallsFit, CallFits
<1>3. LocksFit'
  BY DEF LocksFit
<1>4. NothingElseOpen'
  BY DEF NothingElseOpen, NeedsReview
<1>5. SnapshotsAreOwn'
  BY DEF SnapshotsAreOwn
<1>6. ReviewedWorkOnly'
  BY DEF ReviewedWorkOnly
<1> QED BY <1>1, <1>2, <1>3, <1>4, <1>5, <1>6, EntriesStand

LEMMA BeginRunKeeps ==
    ASSUME IInv, NEW w \in Workers, NEW b \in Batches, BeginRun(w, b)
    PROVE  IInv'
<1> USE ListedFacts DEF IInv, batchVars, taskVars, BeginRun, Waiting, Clear
<1>1. TypeOK'
  <2>1. PICK e \in Listed : at' = [at EXCEPT ![w] = [Idle EXCEPT !.step = "choosing", !.slot = e]]
    BY DEF Waiting
  <2>2. at' \in [Workers -> Calls]
    BY <2>1, BeginType DEF TypeOK
  <2> QED BY <2>2 DEF TypeOK
<1>2. CallsFit'
  BY BatchAssumption DEF CallsFit, CallFits, TypeOK, Inside, Working, Idle
<1>3. LocksFit'
  BY DEF LocksFit, CallsFit, CallFits, Inside, Working, Idle
<1>4. NothingElseOpen'
  BY DEF NothingElseOpen, NeedsReview, Idle
<1>5. SnapshotsAreOwn'
  BY DEF SnapshotsAreOwn, Idle
<1>6. ReviewedWorkOnly'
  BY DEF ReviewedWorkOnly, Idle
<1> QED BY <1>1, <1>2, <1>3, <1>4, <1>5, <1>6, EntriesStand

LEMMA ReserveKeeps ==
    ASSUME IInv, NEW w \in Workers, Reserve(w)
    PROVE  IInv'
<1> USE ListedFacts DEF IInv, batchVars, taskVars, Reserve, Waiting, Foremost
<1>1. TypeOK'
  <2>1. at[w] \in Calls
    BY CallFacts
  <2>2. PICK e \in Listed :
          /\ entry' = [entry EXCEPT ![e].status = "running"]
          /\ at' = [at EXCEPT ![w].step = "stepping", ![w].slot = e, ![w].task = TaskOf(e)]
    BY DEF Waiting
  <2>3. [at[w] EXCEPT !.step = "stepping", !.slot = e, !.task = TaskOf(e)] \in Calls
    BY <2>1 DEF Calls
  <2>4. at' \in [Workers -> Calls]
    BY <2>2, <2>3 DEF TypeOK
  <2>5. entry' \in [Listed -> [status : {"pending", "running", "stopped", "abandoned"},
                             result : PAUSED \cup {None}, steps : 0..StepLimit]]
    BY <2>2 DEF TypeOK
  <2>6. UNCHANGED <<journal, over, matching, dispatch, phase, record, lock, foreign, moves, faults>>
    OBVIOUS
  <2>7. TypeOK
    OBVIOUS
  <2> HIDE DEF IInv, Reserve
  <2> QED BY <2>4, <2>5, <2>6, <2>7 DEF TypeOK
<1>2. PendingIsFresh'
  BY DEF PendingIsFresh, Idle
<1>3. CallsFit'
  <2>1. PICK e \in Waiting(at[w].slot[1]) :
          /\ entry' = [entry EXCEPT ![e].status = "running"]
          /\ at' = [at EXCEPT ![w].step = "stepping", ![w].slot = e, ![w].task = TaskOf(e)]
    OBVIOUS
  <2>2. e \in Listed /\ e # None /\ entry[e].status = "pending" /\ entry[e].steps = 0
    BY DEF Waiting, PendingIsFresh
  <2>3. dispatch = w /\ at[w].slot # None
    BY CallFacts, ListedFacts
  <2>4. CallFits(w)'
    BY <2>1, <2>2, <2>3, BatchAssumption DEF TypeOK, CallFits, Inside, Working
  <2>5. ASSUME NEW v \in Workers, v # w
        PROVE  CallFits(v)'
    <3>1. at'[v] = at[v] /\ at[v].slot = None
      BY <2>1, <2>3, <2>5, CallFacts DEF TypeOK
    <3> QED BY <3>1, <2>1 DEF CallsFit, CallFits
  <2> QED BY <2>4, <2>5 DEF CallsFit
<1>4. LocksFit'
  BY BatchAssumption DEF LocksFit, TypeOK, CallsFit, CallFits, Inside, Working, Idle
<1>5. NothingElseOpen'
  BY BatchAssumption DEF NothingElseOpen, NeedsReview, TypeOK, CallsFit, CallFits, Inside, Working, Idle
<1>6. EarlierAreDone'
  <2>1. PICK e \in Waiting(at[w].slot[1]) :
          /\ Foremost(e)
          /\ entry' = [entry EXCEPT ![e].status = "running"]
    OBVIOUS
  <2>2. e \in Listed /\ e[1] = at[w].slot[1] /\ entry[e].status = "pending"
    BY <2>1 DEF Waiting
  <2>3. SUFFICES ASSUME NEW g \in Listed, NEW f \in Listed, g[1] = f[1], g[2] < f[2],
                        entry'[f].status \in {"running", "stopped"}
                 PROVE  entry'[g].status \in {"stopped", "abandoned"} /\ ~NeedsReview(g)'
    BY DEF EarlierAreDone
  <2>4. CASE f # e
    <3>1. entry'[f] = entry[f]
      BY <2>1, <2>4 DEF TypeOK
    <3>2. entry[g].status \in {"stopped", "abandoned"} /\ ~NeedsReview(g)
      BY <2>3, <3>1 DEF EarlierAreDone
    <3>3. entry'[g] = entry[g]
      BY <2>1, <2>2, <3>2 DEF TypeOK
    <3> QED BY <3>2, <3>3 DEF NeedsReview
  <2>5. CASE f = e
    <3>1. g # e /\ entry'[g] = entry[g]
      BY <2>1, <2>3, <2>5 DEF TypeOK
    <3>2. entry[g].status # "pending"
      BY <2>1, <2>2, <2>3, <2>5 DEF Foremost, Waiting
    <3>3. ~NeedsReview(g)
      BY <2>2, <2>3, <2>5, CallFacts DEF NothingElseOpen
    <3>4. entry[g].status \in {"pending", "running", "stopped", "abandoned"}
      BY DEF TypeOK
    <3> QED BY <3>1, <3>2, <3>3, <3>4 DEF NeedsReview
  <2> QED BY <2>4, <2>5
<1>7. SnapshotsAreOwn'
  BY DEF SnapshotsAreOwn, TypeOK, Idle
<1>8. ReviewedWorkOnly'
  BY DEF ReviewedWorkOnly, TypeOK, Idle
<1> QED BY <1>1, <1>2, <1>3, <1>4, <1>5, <1>6, <1>7, <1>8

LEMMA EndRunKeeps ==
    ASSUME IInv, NEW w \in Workers, EndRun(w)
    PROVE  IInv'
BY LeaveKeeps DEF EndRun, IInv, TypeOK

LEMMA BeginStepKeeps ==
    ASSUME IInv, NEW w \in Workers, BeginStep(w)
    PROVE  IInv'
<1> USE ListedFacts DEF IInv
<1>1. CASE Leave(w)
  BY <1>1, LeaveKeeps DEF BeginStep, TypeOK
<1>2. CASE ~Leave(w)
  <2>1. /\ at[w].step = "stepping" /\ lock[at[w].task] = None /\ at[w].slot \in matching
        /\ lock' = [lock EXCEPT ![at[w].task] = w] /\ Goto(w, "advancing")
        /\ UNCHANGED <<journal, over, entry, matching, dispatch, phase, record, foreign, moves, faults>>
    BY <1>2 DEF BeginStep, Current
  <2>2. TypeOK'
    BY <2>1, GotoType, CallFacts DEF TypeOK, Calls
  <2>3. CallsFit'
    BY <2>1, CallFacts DEF Goto, TypeOK, CallsFit, CallFits, Inside, Working
  <2>4. LocksFit'
    BY <2>1, CallFacts DEF LocksFit, Goto, TypeOK, CallsFit, CallFits, Inside, Working
  <2>5. NothingElseOpen'
    BY <2>1, CallFacts DEF NothingElseOpen, NeedsReview, Goto, TypeOK
  <2>6. SnapshotsAreOwn' /\ ReviewedWorkOnly'
    BY <2>1 DEF SnapshotsAreOwn, ReviewedWorkOnly, Goto, TypeOK
  <2> QED BY <2>1, <2>2, <2>3, <2>4, <2>5, <2>6, EntriesStand
<1> QED BY <1>1, <1>2

LEMMA CheckpointKeeps ==
    ASSUME IInv, NEW w \in Workers, Checkpoint(w)
    PROVE  IInv'
<1> USE ListedFacts DEF IInv
<1> DEFINE e == at[w].slot
           stopped == at[w].reached \in PAUSED
           next == [status |-> IF stopped THEN "stopped" ELSE "running",
                    result |-> IF stopped THEN at[w].reached ELSE None,
                    steps |-> entry[e].steps + 1]
<1>1. /\ at \in [Workers -> Calls] /\ w # None
      /\ at[w].step = "returned" /\ e \in Listed /\ e # None
      /\ dispatch = w
      /\ at[w].task = TaskOf(e)
      /\ entry[e].steps < StepLimit
  BY CallFacts DEF TypeOK, Checkpoint, CheckpointAs
<1>2. /\ entry' = [entry EXCEPT ![e] = next]
      /\ matching' \in {matching, matching \cup {e}} /\ (e \in matching' => e \in matching \/ at[w].fresh)
      /\ foreign' \subseteq foreign
      /\ UNCHANGED <<journal, over, phase, record, moves, faults>>
  BY DEF Checkpoint, CheckpointAs
<1>3. /\ entry'[e] = next
      /\ \A f \in Listed : f # e => entry'[f] = entry[f]
  BY <1>1, <1>2 DEF TypeOK
<1>4. \/ Leave(w)
      \/ /\ UNCHANGED <<dispatch, lock>>
         /\ Goto(w, "choosing") /\ at[w].reached \in PAUSED \ Review
      \/ /\ UNCHANGED <<dispatch, lock>>
         /\ Goto(w, "stepping") /\ ~stopped /\ entry[e].steps + 1 < StepLimit
  BY <1>1, BatchAssumption DEF TypeOK, Checkpoint, CheckpointAs, Review
<1> HIDE DEF next, stopped
<1>5. /\ \A v \in Workers : v # w => at'[v] = at[v] /\ at[v].slot = None
      /\ \/ at'[w] = Idle
         \/ /\ UNCHANGED <<dispatch, lock>>
            /\ at'[w].slot = e /\ at'[w].task = at[w].task
            /\ \/ at'[w].step = "choosing" /\ at[w].reached \in PAUSED \ Review
               \/ at'[w].step = "stepping" /\ ~stopped /\ entry[e].steps + 1 < StepLimit
  <2>1. CASE Leave(w)
    BY <1>1, <2>1, CallFacts DEF Leave
  <2>2. ASSUME NEW step \in {"choosing", "stepping"}, Goto(w, step)
        PROVE  /\ \A v \in Workers : v # w => at'[v] = at[v] /\ at[v].slot = None
               /\ at'[w].slot = e /\ at'[w].task = at[w].task /\ at'[w].step = step
    <3>1. at'[w] = [at[w] EXCEPT !.step = step, !.reached = None, !.fresh = FALSE]
      BY <1>1, <2>2 DEF Goto
    <3>2. at[w] \in Calls
      BY <1>1
    <3>3. at'[w].slot = e /\ at'[w].task = at[w].task /\ at'[w].step = step
      BY <3>1, <3>2 DEF Calls
    <3> QED BY <1>1, <2>2, <3>3, CallFacts DEF Goto
  <2> QED BY <1>4, <2>1, <2>2
<1>6. /\ \A t \in Tasks : lock[t] # w
      /\ \A t \in Tasks : lock'[t] = lock[t]
  <2>1. \A t \in Tasks : lock[t] # w
    BY <1>1 DEF LocksFit, Inside
  <2> QED BY <1>4, <2>1 DEF TypeOK, Leave
<1>7. TypeOK'
  <2>1. at[w].reached \in PAUSED \cup {"RUNNABLE", None} /\ entry[e].steps + 1 \in 0..StepLimit
    BY <1>1, BatchAssumption DEF TypeOK, Calls
  <2>2. next \in [status : {"pending", "running", "stopped", "abandoned"},
                  result : PAUSED \cup {None}, steps : 0..StepLimit]
    BY <2>1 DEF next, stopped
  <2>3. entry' \in [Listed -> [status : {"pending", "running", "stopped", "abandoned"},
                               result : PAUSED \cup {None}, steps : 0..StepLimit]]
    BY <1>1, <1>2, <2>2 DEF TypeOK
  <2>4. /\ dispatch' \in Workers \cup {None}
        /\ lock' \in [Tasks -> Workers \cup {None}]
        /\ at' \in [Workers -> Calls]
    BY <1>4, LeaveType, GotoType DEF TypeOK
  <2> QED BY <1>1, <1>2, <2>3, <2>4 DEF TypeOK
<1>8. PendingIsFresh'
  BY <1>3 DEF PendingIsFresh, next, stopped
<1>9. CallsFit'
  <2>1. ASSUME NEW v \in Workers, v # w
        PROVE  CallFits(v)'
    BY <1>5, <1>6, <2>1 DEF CallsFit, CallFits, Inside
  <2>2. CallFits(w)'
    <3>1. CASE at'[w] = Idle
      BY <3>1 DEF CallFits, Inside, Idle
    <3>2. CASE at'[w] # Idle
      BY <1>1, <1>3, <1>5, <3>2 DEF CallFits, Working, Inside, next, TypeOK
    <3> QED BY <3>1, <3>2
  <2> QED BY <2>1, <2>2 DEF CallsFit
<1>10. LocksFit'
  BY <1>5, <1>6 DEF LocksFit
<1>11. NothingElseOpen'
  <2> SUFFICES ASSUME NEW v \in Workers, NEW f \in Listed,
                      at'[v].slot # None, f[1] = at'[v].slot[1],
                      f # at'[v].slot \/ at'[v].step = "choosing"
               PROVE  ~NeedsReview(f)'
    BY DEF NothingElseOpen
  <2>1. v = w /\ at'[w].slot = e
    BY <1>5 DEF Idle
  <2>2. CASE f # e
    BY <1>1, <1>3, <2>1, <2>2 DEF NothingElseOpen, NeedsReview
  <2>3. CASE f = e
    BY <1>3, <1>5, <2>1, <2>3 DEF NeedsReview, next, stopped, Idle
  <2> QED BY <2>2, <2>3
<1>12. EarlierAreDone'
  <2>1. \A f, g \in Listed :
           f[1] = g[1] /\ f[2] < g[2] /\ entry[g].status \in {"running", "stopped"} =>
              f # e
    BY <1>1 DEF EarlierAreDone, NeedsReview, CallsFit, CallFits, Working
  <2>2. entry[e].status = "running"
    BY <1>1 DEF CallsFit, CallFits, Working
  <2> QED BY <1>3, <2>1, <2>2 DEF EarlierAreDone, NeedsReview
<1>13. SnapshotsAreOwn'
  <2>1. \A f \in matching' : f \notin foreign'
    BY <1>1, <1>2 DEF SnapshotsAreOwn
  <2>2. \A v \in Workers : at'[v].step = "returned" => v # w /\ at'[v] = at[v]
    BY <1>5 DEF Idle
  <2> QED BY <1>2, <2>1, <2>2 DEF SnapshotsAreOwn
<1>14. ReviewedWorkOnly'
  <2>1. \A v \in Workers : at'[v].step \in {"advancing", "operating"} => v # w /\ at'[v] = at[v]
    BY <1>5 DEF Idle
  <2> QED BY <1>2, <2>1 DEF ReviewedWorkOnly
<1> QED BY <1>7, <1>8, <1>9, <1>10, <1>11, <1>12, <1>13, <1>14

LEMMA AbandonKeeps ==
    ASSUME IInv, NEW e \in Listed, Abandon(e)
    PROVE  IInv'
<1> USE ListedFacts DEF IInv, batchVars, taskVars, Abandon, Drop, Abandonable, Quiescent
<1>1. TypeOK'
  <2> DEFINE Entries == [status : {"pending", "running", "stopped", "abandoned"},
                         result : PAUSED \cup {None}, steps : 0..StepLimit]
  <2>1. entry[e] \in Entries
    BY DEF TypeOK
  <2>2. [entry[e] EXCEPT !.status = "abandoned", !.result = None] \in Entries
    BY ONLY <2>1
  <2>3. entry' \in [Listed -> Entries]
    BY <2>2 DEF TypeOK
  <2> QED BY <2>3 DEF TypeOK
<1>2. PendingIsFresh'
  BY DEF PendingIsFresh, TypeOK
<1>3. CallsFit'
  BY CallFacts DEF CallsFit, CallFits
<1>4. LocksFit'
  BY DEF LocksFit
<1>5. NothingElseOpen'
  BY CallFacts DEF NothingElseOpen, NeedsReview
<1>6. EarlierAreDone'
  BY DEF EarlierAreDone, NeedsReview, TypeOK
<1>7. SnapshotsAreOwn'
  BY DEF SnapshotsAreOwn
<1>8. ReviewedWorkOnly'
  BY DEF ReviewedWorkOnly
<1> QED BY <1>1, <1>2, <1>3, <1>4, <1>5, <1>6, <1>7, <1>8

LEMMA StartOperationKeeps ==
    ASSUME IInv, NEW w \in Workers, StartOperation(w)
    PROVE  IInv'
<1> USE ListedFacts DEF IInv, batchVars, taskVars, StartOperation
<1>1. TypeOK'
  <2>1. at[w].task \in Tasks
    BY CallFacts DEF Inside
  <2>2. PICK stage \in Stages, invoked \in {record[at[w].task].invoked, TRUE} :
           record' = [record EXCEPT ![at[w].task].operation = stage, ![at[w].task].invoked = invoked]
    OBVIOUS
  <2>3. record' \in Records
    BY <2>1, <2>2, Recorded
  <2> QED BY <2>3, StartType, ChangeType DEF TypeOK, Records
<1>2. CallsFit'
  BY DEF CallsFit, CallFits, Inside, Working, Change, Unfinished
<1>3. LocksFit'
  BY DEF LocksFit, CallsFit, CallFits, Inside, Working, Change, Unfinished
<1>4. NothingElseOpen'
  BY DEF NothingElseOpen, NeedsReview, Change, Unfinished
<1>5. SnapshotsAreOwn'
  BY CallFacts DEF SnapshotsAreOwn, Change, Unfinished
<1>6. ReviewedWorkOnly'
  BY BatchAssumption DEF ReviewedWorkOnly, TypeOK, CallsFit, CallFits, Inside, Working, Change, Unfinished
<1> QED BY <1>1, <1>2, <1>3, <1>4, <1>5, <1>6, EntriesStand

LEMMA AdvanceKeeps ==
    ASSUME IInv, NEW w \in Workers, Pass(w) \/ EndOperation(w) \/ Block(w)
    PROVE  IInv'
<1>0. Pass(w) \/ EndOperation(w) \/ Block(w)
  OBVIOUS
<1>1. /\ at[w].step \in Inside /\ Unlock(w)
      /\ UNCHANGED <<journal, over, entry, dispatch, moves>>
  BY DEF Pass, EndOperation, Block, Inside
<1>2. \E to \in PAUSED \cup {"RUNNABLE"} :
         phase' = [phase EXCEPT ![at[w].task] = to] /\ Change(at[w].task, w, Return(w, to))
  BY DEF Pass, EndOperation, Block, PAUSED, Review
<1>3. record' \in Records
  <2>1. at[w].task \in Tasks /\ TypeOK /\ "none" \in Stages
    BY <1>1, CallFacts DEF IInv, Stages
  <2>2. CASE Pass(w)
    BY <2>1, <2>2, Recorded DEF Pass
  <2>4. CASE EndOperation(w)
    <3>1. PICK invoked \in {record[at[w].task].invoked, FALSE} :
             record' = [record EXCEPT ![at[w].task].operation = "none", ![at[w].task].invoked = invoked]
      BY <2>4 DEF EndOperation
    <3> QED BY <2>1, <3>1, Recorded
  <2>3. CASE Block(w)
    BY <2>1, <2>3 DEF Block, TypeOK, Records
  <2> QED BY <1>0, <2>2, <2>3, <2>4
<1>4. faults' \in 0..MaxFaults
  <2>1. faults \in 0..MaxFaults /\ (faults' = faults \/ Fault)
    BY DEF Pass, EndOperation, Block, IInv, TypeOK
  <2> QED BY <2>1, BatchAssumption DEF Fault
<1> QED BY <1>1, <1>2, <1>3, <1>4, ReturnKeeps

LEMMA FailKeeps ==
    ASSUME IInv, NEW w \in Workers, Fail(w) \/ Refuse(w)
    PROVE  IInv'
BY LeaveKeeps, BatchAssumption DEF Fail, Refuse, Fault, IInv, TypeOK

LEMMA DecideKeeps ==
    ASSUME IInv, NEW t \in Tasks, Decide(t) \/ Recover(t)
    PROVE  IInv'
<1>1. \E to \in PAUSED \cup {"RUNNABLE"} : phase' = [phase EXCEPT ![t] = to]
  BY DEF Decide, Recover, PAUSED, Review
<1>2. record' \in Records
  <2>1. CASE Decide(t)
    BY <2>1 DEF Decide, IInv, TypeOK, Records
  <2>2. CASE Recover(t)
    BY <2>2, Recorded DEF Recover, IInv, Stages
  <2> QED BY <2>1, <2>2
<1>3. moves' \in 0..MaxMoves
  <2>1. moves \in 0..MaxMoves /\ (moves' = moves \/ Move)
    BY DEF Decide, Recover, IInv, TypeOK
  <2> QED BY <2>1, BatchAssumption DEF Move
<1> QED BY <1>1, <1>2, <1>3, OutsideKeeps DEF Decide, Recover

LEMMA LapseKeeps ==
    ASSUME IInv, NEW t \in Tasks, Lapse(t)
    PROVE  IInv'
<1> USE DEF IInv, batchVars, Lapse
<1>1. TypeOK'
  <2>1. record' \in Records
    BY Recorded DEF Stages
  <2> QED BY <2>1 DEF TypeOK, Records
<1>2. CallsFit' /\ LocksFit'
  BY DEF CallsFit, CallFits, LocksFit
<1>3. NothingElseOpen' /\ SnapshotsAreOwn' /\ ReviewedWorkOnly'
  BY DEF NothingElseOpen, NeedsReview, SnapshotsAreOwn, ReviewedWorkOnly
<1> QED BY <1>1, <1>2, <1>3, EntriesStand

LEMMA BeginAdvanceKeeps ==
    ASSUME IInv, NEW w \in Workers, NEW t \in Tasks, BeginAdvance(w, t)
    PROVE  IInv'
<1> USE ListedFacts DEF IInv, batchVars, taskVars, BeginAdvance, Move
<1>1. TypeOK'
  <2>1. at' \in [Workers -> Calls]
    BY BeginType DEF TypeOK
  <2> QED BY <2>1, BatchAssumption DEF TypeOK
<1>2. CallsFit'
  BY BatchAssumption DEF CallsFit, CallFits, TypeOK, Inside, Working, Idle
<1>3. LocksFit'
  BY BatchAssumption DEF LocksFit, TypeOK, CallsFit, CallFits, Inside, Working, Idle
<1>4. NothingElseOpen'
  BY DEF NothingElseOpen, NeedsReview, Idle
<1>5. SnapshotsAreOwn'
  BY DEF SnapshotsAreOwn, Idle
<1>6. ReviewedWorkOnly'
  BY DEF ReviewedWorkOnly, Idle
<1> QED BY <1>1, <1>2, <1>3, <1>4, <1>5, <1>6, EntriesStand

LEMMA InitKeeps == Init => IInv
<1> SUFFICES ASSUME Init
             PROVE  IInv
  OBVIOUS
<1>1. TypeOK
  BY BatchAssumption, IdleIsCall DEF Init, TypeOK, Pending, PAUSED, Stages
<1>2. PendingIsFresh /\ EarlierAreDone /\ SnapshotsAreOwn /\ ReviewedWorkOnly
  BY DEF Init, PendingIsFresh, EarlierAreDone, SnapshotsAreOwn, ReviewedWorkOnly, Pending, Idle
<1>3. CallsFit /\ NothingElseOpen
  BY DEF Init, CallsFit, CallFits, NothingElseOpen, Idle, Inside
<1>4. LocksFit
  BY BatchAssumption DEF Init, LocksFit
<1> QED BY <1>1, <1>2, <1>3, <1>4 DEF IInv

LEMMA StepKeeps ==
    ASSUME IInv, Next
    PROVE  IInv'
<1>1. CASE \E w \in Workers : Step(w) \/ Fail(w)
  BY <1>1, ReserveKeeps, EndRunKeeps, BeginStepKeeps, CheckpointKeeps, StartOperationKeeps,
     AdvanceKeeps, FailKeeps DEF Step
<1>2. CASE \E w \in Workers, b \in Batches : Create(w, b) \/ BeginRun(w, b)
  BY <1>2, CreateKeeps, BeginRunKeeps
<1>3. CASE \E w \in Workers, t \in Tasks : BeginAdvance(w, t)
  BY <1>3, BeginAdvanceKeeps
<1>4. CASE \E t \in Tasks : Decide(t) \/ Recover(t) \/ Lapse(t)
  BY <1>4, DecideKeeps, LapseKeeps
<1>5. CASE \E b \in Batches : Expire(b)
  BY <1>5, ExpireKeeps
<1>6. CASE \E e \in Listed : Abandon(e)
  BY <1>6, AbandonKeeps
<1> QED BY <1>1, <1>2, <1>3, <1>4, <1>5, <1>6 DEF Next

LEMMA StutterKeeps == IInv /\ UNCHANGED vars => IInv'
BY DEF IInv, vars, batchVars, taskVars, TypeOK, PendingIsFresh, CallsFit, CallFits, LocksFit,
       NothingElseOpen, NeedsReview, EarlierAreDone, SnapshotsAreOwn, ReviewedWorkOnly

-----------------------------------------------------------------------------
(* What follows. *)

(* The invariant is inductive: whatever processes, operators and the clock *)
(* do to a store of batches (Batches.run, abandon, Engine.advance), its    *)
(* parts hold of it.                                                       *)
THEOREM InductiveInvariant == Spec => []IInv
<1>1. IInv /\ [Next]_vars => IInv'
  BY StepKeeps, StutterKeeps
<1> QED BY InitKeeps, <1>1, PTL DEF Spec

(* The journals, locks and calls are always of the kinds the code keeps.   *)
THEOREM TypeCorrect == Spec => []TypeOK
<1>1. IInv => TypeOK
  BY DEF IInv
<1> QED BY <1>1, InductiveInvariant, PTL

(* A batch only works on a task as it was reviewed or as the same entry    *)
(* left it: the snapshot looked at under the task's lock is enough.        *)
THEOREM OnlyReviewedWork == Spec => []ReviewedWorkOnly
<1>1. IInv => ReviewedWorkOnly
  BY DEF IInv
<1> QED BY <1>1, InductiveInvariant, PTL

(* From its reservation until it is saved or given back, the work of a     *)
(* batch stands as running in its journal, under the dispatch lock.        *)
THEOREM WorkStaysReserved == Spec => []WorkIsReserved
<1>1. IInv => WorkIsReserved
  BY DEF IInv, CallsFit, CallFits, WorkIsReserved, Working, Inside
<1> QED BY <1>1, InductiveInvariant, PTL

(* A batch begins an entry only when all before it came to a good end or   *)
(* were given up, over any number of runs and interruptions.               *)
THEOREM EarlierEntriesDone == Spec => []EarlierAreDone
<1>1. IInv => EarlierAreDone
  BY DEF IInv
<1> QED BY <1>1, InductiveInvariant, PTL

=============================================================================
