-------------------------------- MODULE Batches --------------------------------
(***************************************************************************)
(* Serial workflow batches (orch/batches.py): a person reviews a list of   *)
(* tasks, a process advances them one after another to their next pause.   *)
(* The same tasks are advanced and decided by others, and may be in        *)
(* several batches.                                                        *)
(*                                                                         *)
(* Snapshots are digests of all that is stored of a task.  They are only   *)
(* ever compared, so that the model keeps which of them are still those of *)
(* their task, and every change of a task ends that.  Of an entry that is  *)
(* done with, the snapshot is never looked at again.                       *)
(*                                                                         *)
(* Left out: the journal's revision and digest a caller quotes (a stale    *)
(* call changes nothing), the parts of the execution binding (the window   *)
(* stands for them), how a task is worked on (TaskKernel) and how its lock *)
(* is taken (Ownership).                                                   *)
(***************************************************************************)
EXTENDS Naturals, Sequences

CONSTANTS
    Scopes,    \* batch -> the tasks it lists, in order
    Workers,   \* processes
    StepLimit, \* steps of one entry; 40 in the code
    MaxMoves,  \* what others do to the tasks, for TLC
    MaxFaults, \* crashes and failures, for TLC
    None

Batches == DOMAIN Scopes
Tasks == UNION {{Scopes[b][i] : i \in DOMAIN Scopes[b]} : b \in Batches}
Slots == {<<b, i>> : b \in Batches, i \in 1..16}
Listed == {e \in Slots : e[2] \in DOMAIN Scopes[e[1]]}
TaskOf(e) == Scopes[e[1]][e[2]]

ASSUME BatchAssumption ==
    /\ \A b \in Batches : Len(Scopes[b]) \in 1..16
    /\ StepLimit \in Nat \ {0} /\ MaxMoves \in Nat /\ MaxFaults \in Nat
    /\ None \notin Workers \cup Batches \cup Tasks /\ None \notin Listed

VARIABLES
    journal,  \* of each batch: "none", "torn", "written"
    over,     \* the batch's thirty minutes are over
    entry,    \* of each listed task: its status, result and steps
    matching, \* unfinished entries whose last snapshot is their task's
    dispatch, \* who holds dispatch.lock
    phase,    \* of each task
    record,   \* of each task: the operation recorded as started, whether an
              \* invocation is recorded as active, and whether the approval of
              \* its plan holds (or will, if there is none yet)
    lock,     \* of each task
    at,       \* where each process is
    foreign,  \* evidence: unfinished entries whose task others changed since
    moves, faults

batchVars == <<journal, over, entry, matching, dispatch>>
taskVars == <<phase, record, lock>>
vars == <<batchVars, taskVars, at, foreign, moves, faults>>

Review == {"FAILED", "BLOCKED"}
PAUSED == Review \cup {"AWAITING", "COMPLETED"}

(* A worker's operation is an implementation or tests, the other kind is   *)
(* planning, a review or an external action.                               *)
Stages == {"none", "worker", "other"}
Started(t) == record[t].operation # "none"

Pending == [status |-> "pending", result |-> None, steps |-> 0]
Idle == [step |-> "idle", slot |-> None, task |-> None, reached |-> None, fresh |-> FALSE]

Init ==
    /\ journal = [b \in Batches |-> "none"]
    /\ over = [b \in Batches |-> FALSE]
    /\ entry = [e \in Listed |-> Pending]
    /\ matching = {}
    /\ dispatch = None
    /\ phase = [t \in Tasks |-> "RUNNABLE"]
    /\ record = [t \in Tasks |-> [operation |-> "none", invoked |-> FALSE, approved |-> TRUE]]
    /\ lock = [t \in Tasks |-> None]
    /\ at = [w \in Workers |-> Idle]
    /\ foreign = {}
    /\ moves = 0 /\ faults = 0

Fault == faults < MaxFaults /\ faults' = faults + 1
Goto(w, step) == at' = [at EXCEPT ![w].step = step, ![w].reached = None, ![w].fresh = FALSE]

(* Whatever a process held is free when its call ends or it dies. *)
Leave(w) ==
    /\ dispatch' = IF dispatch = w THEN None ELSE dispatch
    /\ lock' = [t \in Tasks |-> IF lock[t] = w THEN None ELSE lock[t]]
    /\ at' = [at EXCEPT ![w] = Idle]

Unfinished(e) == journal[e[1]] = "written" /\ entry[e].status \in {"pending", "running"}

(* A task is changed, by a process or in a decision, and processes go on   *)
(* as next says: no snapshot that was taken before is the task's any more. *)
Change(t, w, next) ==
    /\ matching' = {e \in matching : TaskOf(e) # t}
    /\ foreign' = foreign \cup {e \in Listed :
          TaskOf(e) = t /\ Unfinished(e) /\ (w = None \/ at[w].slot # e)}
    /\ at' = [v \in Workers |-> IF v # w /\ next[v].task = t
                                  THEN [next[v] EXCEPT !.fresh = FALSE] ELSE next[v]]

(* Nobody advances anything, and no decision is being committed. *)
Quiescent == \A t \in Tasks : lock[t] = None
Settled(t) == ~Started(t) /\ ~record[t].invoked

-----------------------------------------------------------------------------
(* create: under both locks; the file is opened and then written. *)

Create(w, b) ==
    /\ at[w] = Idle /\ journal[b] = "none"
    /\ dispatch = None /\ Quiescent
    /\ \A i \in DOMAIN Scopes[b] : phase[Scopes[b][i]] \notin PAUSED /\ Settled(Scopes[b][i])
    /\ \/ /\ journal' = [journal EXCEPT ![b] = "written"]
          /\ matching' = matching \cup {e \in Listed : e[1] = b}
          /\ UNCHANGED faults
       \/ /\ Fault
          /\ journal' = [journal EXCEPT ![b] = "torn"]
          /\ UNCHANGED matching
    /\ UNCHANGED <<over, entry, dispatch, taskVars, at, foreign, moves>>

Expire(b) ==
    /\ journal[b] = "written" /\ ~over[b]
    /\ over' = [over EXCEPT ![b] = TRUE]
    /\ UNCHANGED <<journal, entry, matching, dispatch, taskVars, at, foreign, moves, faults>>

-----------------------------------------------------------------------------
(* run. *)

NeedsReview(e) ==
    \/ entry[e].status = "running"
    \/ entry[e].status = "stopped" /\ entry[e].result \in Review

(* Mutant: only an entry without an outcome stands in the way. *)
ClearOfRunning(b) == \A e \in Listed : e[1] = b => entry[e].status # "running"

Clear(b) == \A e \in Listed : e[1] = b => ~NeedsReview(e)

Waiting(b) == {e \in Listed : e[1] = b /\ entry[e].status = "pending"}
Foremost(e) == \A f \in Waiting(e[1]) : e[2] <= f[2]

BeginRun(w, b) ==
    /\ at[w] = Idle /\ journal[b] = "written"
    /\ dispatch = None /\ ~over[b] /\ Clear(b)
    /\ \E e \in Waiting(b) :
          at' = [at EXCEPT ![w] = [Idle EXCEPT !.step = "choosing", !.slot = e]]
    /\ dispatch' = w
    /\ UNCHANGED <<journal, over, entry, matching, taskVars, foreign, moves, faults>>

(* The reservation is durable before anything can happen. *)
Reserve(w) ==
    /\ at[w].step = "choosing"
    /\ \E e \in Waiting(at[w].slot[1]) :
          /\ Foremost(e)
          /\ entry' = [entry EXCEPT ![e].status = "running"]
          /\ at' = [at EXCEPT ![w].step = "stepping", ![w].slot = e, ![w].task = TaskOf(e)]
    /\ UNCHANGED <<journal, over, matching, dispatch, taskVars, foreign, moves, faults>>

EndRun(w) ==
    /\ at[w].step = "choosing" /\ Waiting(at[w].slot[1]) = {}
    /\ Leave(w)
    /\ UNCHANGED <<journal, over, entry, matching, phase, record, foreign, moves, faults>>

Current(w) == ~over[at[w].slot[1]] /\ at[w].slot \in matching

(* The window is looked at, then the snapshot, under the task's lock; what *)
(* is rejected leaves the entry running.                                   *)
BeginStep(w) ==
    LET t == at[w].task IN
    /\ at[w].step = "stepping"
    /\ \/ /\ lock[t] = None /\ Current(w)
          /\ lock' = [lock EXCEPT ![t] = w]
          /\ Goto(w, "advancing")
          /\ UNCHANGED dispatch
       \/ /\ lock[t] # None \/ ~Current(w)
          /\ Leave(w)
    /\ UNCHANGED <<journal, over, entry, matching, phase, record, foreign, moves, faults>>

(* The checkpoint holds the snapshot that advance returned. *)
CheckpointAs(w, own, limit) ==
    LET e == at[w].slot
        reached == at[w].reached
        stopped == reached \in PAUSED IN
    /\ at[w].step = "returned"
    /\ entry' = [entry EXCEPT ![e] = [status |-> IF stopped THEN "stopped" ELSE "running",
                                      result |-> IF stopped THEN reached ELSE None,
                                      steps |-> @.steps + 1]]
    /\ matching' = IF own /\ ~stopped THEN matching \cup {e} ELSE matching
    /\ foreign' = IF stopped THEN foreign \ {e} ELSE foreign
    /\ IF reached \in Review \/ (~stopped /\ entry[e].steps + 1 >= limit)
          THEN Leave(w)
          ELSE /\ Goto(w, IF stopped THEN "choosing" ELSE "stepping")
               /\ UNCHANGED <<dispatch, lock>>
    /\ UNCHANGED <<journal, over, phase, record, moves, faults>>

(* Mutant: the task is read again for its snapshot. *)
CheckpointRead(w) == CheckpointAs(w, TRUE, StepLimit)

Checkpoint(w) == CheckpointAs(w, at[w].fresh, StepLimit)

-----------------------------------------------------------------------------
(* abandon: under both locks, while nobody advances. *)

(* Mutant: an interrupted entry is left to whoever ran it. *)
AbandonableUnlessRunning(e) == NeedsReview(e) /\ entry[e].status # "running"
Abandonable(e) == entry[e].status = "pending" \/ NeedsReview(e)

Drop(e) ==
    /\ journal[e[1]] = "written" /\ Abandonable(e)
    /\ Quiescent /\ Settled(TaskOf(e))
    /\ entry' = [entry EXCEPT ![e].status = "abandoned", ![e].result = None]
    /\ matching' = matching \ {e}
    /\ foreign' = foreign \ {e}
    /\ UNCHANGED <<journal, over, dispatch, taskVars, at, moves, faults>>

(* Mutant: the store's lock is enough. *)
AbandonBetweenSteps(e) == Drop(e)
Abandon(e) == dispatch = None /\ Drop(e)

-----------------------------------------------------------------------------
(* Engine.advance, for a batch and for anybody else. *)

Return(w, to) ==
    [at EXCEPT ![w] = IF at[w].slot = None THEN Idle
                      ELSE [@ EXCEPT !.step = "returned", !.reached = to, !.fresh = TRUE]]
Unlock(w) == lock' = [lock EXCEPT ![at[w].task] = None]

(* A transition without an operation, and an action whose effect is found. *)
Pass(w) ==
    LET t == at[w].task IN
    /\ at[w].step = "advancing" /\ record[t].operation # "worker"
    /\ record' = [record EXCEPT ![t].operation = "none"]
    /\ \E to \in {"RUNNABLE", "COMPLETED", "FAILED"} :
          phase' = [phase EXCEPT ![t] = to] /\ Change(t, w, Return(w, to))
    /\ Unlock(w)
    /\ UNCHANGED <<journal, over, entry, dispatch, moves, faults>>

(* What needs the approval of the plan is rejected once that has lapsed,   *)
(* before a started operation is looked for.                               *)
Refuse(w) ==
    LET t == at[w].task IN
    /\ at[w].step = "advancing"
    /\ ~record[t].approved /\ record[t].operation # "other"
    /\ Leave(w)
    /\ UNCHANGED <<journal, over, entry, matching, phase, record, foreign, moves, faults>>

(* Operation and invocation are saved one after the other.  (Tests and     *)
(* actions invoke nobody, and find no invocation recorded.)                *)
StartOperation(w) ==
    LET t == at[w].task IN
    /\ at[w].step = "advancing" /\ ~Started(t)
    /\ \E stage \in Stages \ {"none"}, invoked \in {record[t].invoked, TRUE} :
          /\ stage = "worker" => record[t].approved
          /\ record' = [record EXCEPT ![t].operation = stage, ![t].invoked = invoked]
    /\ Change(t, w, [at EXCEPT ![w].step = "operating"])
    /\ UNCHANGED <<journal, over, entry, dispatch, phase, lock, moves, faults>>

(* The agent answers, or what it says is rejected and its invocation stays *)
(* recorded.                                                               *)
EndOperation(w) ==
    LET t == at[w].task IN
    /\ at[w].step = "operating"
    /\ \E invoked \in {record[t].invoked, FALSE} :
          record' = [record EXCEPT ![t].operation = "none", ![t].invoked = invoked]
    /\ \E to \in {"RUNNABLE", "AWAITING", "COMPLETED", "FAILED"} :
          phase' = [phase EXCEPT ![t] = to] /\ Change(t, w, Return(w, to))
    /\ Unlock(w)
    /\ UNCHANGED <<journal, over, entry, dispatch, moves, faults>>

(* An operation somebody else started, or an uncertain broker. *)
Block(w) ==
    LET t == at[w].task IN
    /\ \/ /\ at[w].step = "advancing" /\ Started(t)
          /\ record[t].operation = "worker" => record[t].approved
          /\ UNCHANGED faults
       \/ at[w].step = "operating" /\ record[t].operation = "worker" /\ Fault
    /\ phase' = [phase EXCEPT ![t] = "BLOCKED"]
    /\ Change(t, w, Return(w, "BLOCKED"))
    /\ Unlock(w)
    /\ UNCHANGED <<journal, over, entry, dispatch, record, moves>>

(* The process dies, or what it does is rejected, or cannot be saved. *)
Fail(w) ==
    /\ at[w].step # "idle"
    /\ Fault
    /\ Leave(w)
    /\ UNCHANGED <<journal, over, entry, matching, phase, record, foreign, moves>>

-----------------------------------------------------------------------------
(* Others. *)

Move == moves < MaxMoves /\ moves' = moves + 1

BeginAdvance(w, t) ==
    /\ at[w] = Idle /\ lock[t] = None /\ phase[t] = "RUNNABLE"
    /\ IF Started(t) THEN UNCHANGED moves ELSE Move
    /\ lock' = [lock EXCEPT ![t] = w]
    /\ at' = [at EXCEPT ![w] = [Idle EXCEPT !.step = "advancing", !.task = t]]
    /\ UNCHANGED <<batchVars, phase, record, foreign, faults>>

Decide(t) ==
    /\ phase[t] = "AWAITING" /\ lock[t] = None
    /\ Move
    /\ phase' = [phase EXCEPT ![t] = "RUNNABLE"]
    /\ Change(t, None, at)
    /\ UNCHANGED <<journal, over, entry, dispatch, record, lock, faults>>

(* Of a fixture task: the operation of a worker only, while its plan is    *)
(* approved.  What is recorded of an invocation stays.                     *)
Recover(t) ==
    /\ phase[t] = "BLOCKED" /\ lock[t] = None
    /\ record[t].operation = "worker" /\ record[t].approved
    /\ phase' = [phase EXCEPT ![t] = "RUNNABLE"]
    /\ record' = [record EXCEPT ![t].operation = "none"]
    /\ Change(t, None, at)
    /\ UNCHANGED <<journal, over, entry, dispatch, lock, moves, faults>>

(* The approval of a plan has a date, and nobody renews it. *)
Lapse(t) ==
    /\ record[t].approved
    /\ record' = [record EXCEPT ![t].approved = FALSE]
    /\ UNCHANGED <<batchVars, phase, lock, at, foreign, moves, faults>>

-----------------------------------------------------------------------------

Step(w) ==
    \/ Reserve(w) \/ EndRun(w) \/ BeginStep(w) \/ Checkpoint(w)
    \/ Pass(w) \/ Refuse(w) \/ StartOperation(w) \/ EndOperation(w) \/ Block(w)

Next ==
    \/ \E w \in Workers : Step(w) \/ Fail(w)
    \/ \E w \in Workers, b \in Batches : Create(w, b) \/ BeginRun(w, b)
    \/ \E w \in Workers, t \in Tasks : BeginAdvance(w, t)
    \/ \E t \in Tasks : Decide(t) \/ Recover(t) \/ Lapse(t)
    \/ \E b \in Batches : Expire(b)
    \/ \E e \in Listed : Abandon(e)

Spec == Init /\ [][Next]_vars

(* Processes go on; an operator settles what was interrupted, the task     *)
(* first and then the entry, as often as it takes.                         *)
FairSpec ==
    /\ Spec
    /\ \A w \in Workers : WF_vars(Step(w))
    /\ SF_vars(\E t \in Tasks : Recover(t))
    /\ SF_vars(\E t \in Tasks, w \in Workers : Started(t) /\ BeginAdvance(w, t))
    /\ SF_vars(\E e \in Listed : entry[e].status = "running" /\ Abandon(e))

-----------------------------------------------------------------------------
(* What must hold. *)

Calls == [step : {"idle", "choosing", "stepping", "advancing", "operating", "returned"},
          slot : Listed \cup {None}, task : Tasks \cup {None},
          reached : PAUSED \cup {"RUNNABLE", None}, fresh : BOOLEAN]

TypeOK ==
    /\ journal \in [Batches -> {"none", "torn", "written"}]
    /\ over \in [Batches -> BOOLEAN]
    /\ entry \in [Listed -> [status : {"pending", "running", "stopped", "abandoned"},
                             result : PAUSED \cup {None}, steps : 0..StepLimit]]
    /\ matching \subseteq Listed /\ foreign \subseteq Listed
    /\ dispatch \in Workers \cup {None}
    /\ phase \in [Tasks -> PAUSED \cup {"RUNNABLE"}]
    /\ record \in [Tasks -> [operation : Stages, invoked : BOOLEAN, approved : BOOLEAN]]
    /\ lock \in [Tasks -> Workers \cup {None}]
    /\ at \in [Workers -> Calls]
    /\ moves \in 0..MaxMoves /\ faults \in 0..MaxFaults

(* A batch only works on a task as its person reviewed it or as the same   *)
(* entry left it, whoever else advances, decides or recovers the task      *)
(* while the batch waits, steps or saves.                                  *)
ReviewedWorkOnly ==
    \A w \in Workers :
        at[w].slot # None /\ at[w].step \in {"advancing", "operating"} => at[w].slot \notin foreign

(* Whatever a batch does stands reserved in its journal: nobody abandons   *)
(* or finishes the entry meanwhile, and nobody else runs the batch.        *)
WorkIsReserved ==
    \A w \in Workers :
        at[w].slot # None /\ at[w].step \in {"stepping", "advancing", "operating", "returned"} =>
            entry[at[w].slot].status = "running" /\ dispatch = w

(* An entry is only begun when all before it came to a good end or were    *)
(* given up by a person, over any number of runs of the batch.             *)
EarlierAreDone ==
    \A e, f \in Listed :
        /\ e[1] = f[1] /\ e[2] < f[2]
        /\ entry[f].status \in {"running", "stopped"}
        => entry[e].status \in {"stopped", "abandoned"} /\ ~NeedsReview(e)

(* What nobody can settle: an invocation nobody answered, an operation     *)
(* that recovery does not know, or a worker's after its approval lapsed.   *)
Stranded(t) ==
    \/ record[t].invoked
    \/ phase[t] = "BLOCKED" /\ record[t].operation = "other"
    \/ record[t].operation = "worker" /\ ~record[t].approved

(* An interrupted entry does not stay so: its task can be settled, and     *)
(* then the entry be given up; unless its task stays as it is as well.     *)
RunningIsResolved ==
    \A e \in Listed : <>[](entry[e].status = "running") => <>[]Stranded(TaskOf(e))

=============================================================================
