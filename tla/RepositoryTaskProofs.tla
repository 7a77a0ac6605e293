------------------------- MODULE RepositoryTaskProofs -------------------------
(***************************************************************************)
(* Proofs about RepositoryTask and the calls of Pilot it composes, for any *)
(* tasks, processes, deaths and reconciliations, in both modes.            *)
(*                                                                         *)
(* What carries them: a call holds exactly the locks its step needs, so    *)
(* that what it saw of one database still holds when it writes the other;  *)
(* a settled row of the pilot's journal is never written again; and a      *)
(* container that may still come up is behind a dispatch that has had no   *)
(* answer, which keeps its workspace from being reclaimed.                 *)
(***************************************************************************)
EXTENDS RepositoryTask, TLAPS

CallNames == {"none", "create", "advance", "recover"} \cup CommandLine
StepNames ==
    {"idle", "binding", "approved", "entering", "judging", "judged", "returned", "rejected",
     "inspected", "cleaning", "removing", "resolved", "deleting"} \cup Running
CallRecords ==
    [call : CallNames, on : Pilots \cup {None}, step : StepNames,
     seen : [status : {"absent", "prepared", "reserved"} \cup Settled, revision : 0..RevisionCap]]

(* The types, in parts that change together. *)
JournalType ==
    /\ mode \in {"local-data", "docker"}
    /\ status \in [Pilots -> {"absent", "prepared", "reserved"} \cup Settled]
    /\ revision \in [Pilots -> 0..RevisionCap]
    /\ expired \in [Pilots -> BOOLEAN]
    /\ phases \in [Pilots -> [Phases -> {"none", "planned", "dispatched", "observed"}]]
    /\ reclamation \in [Pilots -> {"none", "reclaiming", "reclaimed"}]
    /\ inventory \in [Pilots -> {"none", "empty", "edited", "bare"}]
WorldType ==
    /\ container \in [Pilots -> [Phases -> {"none", "starting", "running", "exited"}]]
    /\ files \in [Pilots -> {"none", "empty", "edited", "bare"}]
CallType ==
    /\ workLock \in Procs \cup {None} /\ journalLock \in Procs \cup {None}
    /\ taskLock \in [Tasks -> Procs \cup {None}]
    /\ at \in [Procs -> CallRecords]
    /\ faults \in 0..MaxFaults
TaskType ==
    /\ state \in [Tasks -> {"NONE", "AWAITING_PLAN_APPROVAL", "READY_FOR_IMPLEMENTATION",
                            "IMPLEMENTING", "BLOCKED", "AWAITING_ACTION_APPROVAL"} \cup Terminal]
    /\ op \in [Tasks -> {"none", "started", "completed"}]
    /\ stale \in [Tasks -> BOOLEAN]

(* The steps of each call. *)
StepsOf ==
    [create |-> {"binding"},
     advance |-> {"approved", "entering", "judging", "judged", "returned", "rejected"} \cup Running,
     recover |-> {"inspected", "cleaning", "removing", "resolved", "rejected"},
     run |-> {"entering", "judging", "judged"} \cup Running,
     reconcile |-> {"cleaning", "removing"},
     reclaim |-> {"deleting"}]
CallFits(w) ==
    \/ at[w] = Idle
    \/ at[w].call \in DOMAIN StepsOf /\ at[w].step \in StepsOf[at[w].call] /\ at[w].on \in Pilots

(* Who is in a call holds exactly the locks its step needs. *)
Working == {"judging", "judged", "removing", "deleting"} \cup Running
LocksFit ==
    \A w \in Procs :
        /\ workLock = w <=> at[w].step \in Working
        /\ journalLock = w <=> at[w].step \in {"judged", "removing"}
        /\ \A t \in Tasks : taskLock[t] = w <=> at[w].call \in {"advance", "recover"} /\ at[w].on = t

(* What the call of a process relies on. *)
CreateFits(w) ==
    at[w].call = "create" => state[at[w].on] = "NONE" /\ status[at[w].on] # "absent"
HolderFits(w) ==
    /\ at[w].call = "advance" =>
           state[at[w].on] = IF at[w].step = "approved" THEN "READY_FOR_IMPLEMENTATION"
                                                         ELSE "IMPLEMENTING"
    /\ at[w].call = "recover" => state[at[w].on] = "BLOCKED" /\ at[w].seen.status # "absent"
StepFits(w) ==
    /\ at[w].step = "judged" => status[at[w].on] = "prepared" /\ op[at[w].on] = "started"
    /\ at[w].step \in Running => status[at[w].on] = "reserved" /\ revision[at[w].on] = 1
    /\ at[w].step = "removing" => status[at[w].on] = "reserved" /\ revision[at[w].on] < RevisionCap
    /\ at[w].step \in {"returned", "resolved"} => status[at[w].on] \in Settled
    /\ at[w].seen.status \in Settled => status[at[w].on] \in Settled
StrayFree(p) == \A f \in Phases : container[p][f] = "running" => phases[p][f] = "dispatched"
RunFits(w) ==
    /\ StepFits(w)
    /\ at[w].step \in Running => StrayFree(at[w].on)
    /\ at[w].step = "deleting" => reclamation[at[w].on] # "none"
ProcFits(w) == CallFits(w) /\ CreateFits(w) /\ HolderFits(w) /\ RunFits(w)
ProcsFit == \A w \in Procs : ProcFits(w)
OneCreator ==
    \A v, w \in Procs : at[v].call = "create" /\ at[w].call = "create" /\ at[v].on = at[w].on => v = w

(* The two databases agree about a task. *)
TaskFits(t) ==
    /\ op[t] = "started" <=> state[t] \in {"IMPLEMENTING", "BLOCKED"}
    /\ state[t] \in {"AWAITING_ACTION_APPROVAL", "COMPLETED", "FAILED"} => op[t] = "completed"
    /\ state[t] \in {"NONE", "AWAITING_PLAN_APPROVAL", "READY_FOR_IMPLEMENTATION"} => op[t] = "none"
    /\ state[t] # "NONE" => status[t] # "absent"
    /\ status[t] = "reserved" => op[t] = "started"
    /\ op[t] = "completed" => status[t] \in Settled
    /\ state[t] \in {"AWAITING_ACTION_APPROVAL", "COMPLETED"} => status[t] = "passed"
TasksFit == \A t \in Tasks : TaskFits(t)

(* What is left of a pilot's containers, and of its workspace. *)
PilotFits(p) ==
    /\ status[p] \in {"absent", "prepared"} =>
           revision[p] = 0 /\ \A f \in Phases : container[p][f] = "none"
    /\ \A f \in Phases : container[p][f] = "starting" => phases[p][f] = "dispatched"
    /\ status[p] = "reserved" \/ StrayFree(p)
    /\ reclamation[p] # "none" => state[p] \in Terminal /\ status[p] \in Settled /\ ~Unresolved(p)
PilotsFit == \A p \in Pilots : PilotFits(p)

IInv ==
    /\ JournalType /\ WorldType /\ CallType /\ TaskType
    /\ ProcsFit /\ LocksFit /\ OneCreator /\ TasksFit /\ PilotsFit

-----------------------------------------------------------------------------
LEMMA TypeParts == TypeOK <=> JournalType /\ WorldType /\ CallType /\ TaskType
BY DEF TypeOK, PilotTypeOK, JournalType, WorldType, CallType, TaskType, CallRecords, CallNames, StepNames

(* A process moves; nobody else does. *)
Moved(w, c, p, s, x) ==
    /\ at' \in [Procs -> CallRecords]
    /\ at'[w].call = c /\ at'[w].on = p /\ at'[w].step = s /\ at'[w].seen = x
    /\ \A v \in Procs \ {w} : at'[v] = at[v]

LEMMA GotoMoves ==
    ASSUME CallType, NEW w \in Procs, NEW s \in StepNames, Goto(w, s)
    PROVE  Moved(w, at[w].call, at[w].on, s, at[w].seen)
<1>1. at[w] \in CallRecords /\ [at[w] EXCEPT !.step = s] \in CallRecords
  BY DEF CallType, CallRecords
<1>2. at' = [at EXCEPT ![w] = [at[w] EXCEPT !.step = s]]
  BY DEF Goto
<1> QED BY <1>1, <1>2 DEF Moved, CallType, CallRecords

LEMMA BeginMoves ==
    ASSUME CallType, NEW w \in Procs, NEW c \in CallNames, NEW p \in Pilots, NEW s \in StepNames,
           NEW x \in [status : {"absent", "prepared", "reserved"} \cup Settled, revision : 0..RevisionCap],
           Begin(w, c, p, s, x)
    PROVE  Moved(w, c, p, s, x)
<1>1. [call |-> c, on |-> p, step |-> s, seen |-> x] \in CallRecords
  BY DEF CallRecords
<1> QED BY <1>1 DEF Moved, CallType, Begin

LEMMA IdleMoves ==
    ASSUME CallType, NEW w \in Procs, at' = [at EXCEPT ![w] = Idle]
    PROVE  Moved(w, "none", None, "idle", Unseen) /\ at'[w] = Idle
<1>1. Idle \in CallRecords
  BY PilotAssumption DEF Idle, Unseen, CallRecords, CallNames, StepNames
<1> QED BY <1>1 DEF Moved, CallType, Idle

LEMMA ReturnMoves ==
    ASSUME CallType, NEW w \in Procs, NEW s \in StepNames, Return(w, s)
    PROVE  \/ at[w].call \in CommandLine /\ at'[w] = Idle /\ Moved(w, "none", None, "idle", Unseen)
           \/ at[w].call \notin CommandLine /\ Moved(w, at[w].call, at[w].on, s, at[w].seen)
BY IdleMoves, GotoMoves DEF Return

(* The locks follow the steps. *)
Kept(old, new, w, holds) == (new = w <=> holds) /\ \A v \in Procs \ {w} : new = v <=> old = v
LEMMA LocksStep ==
    ASSUME LocksFit, NEW w \in Procs, NEW c, NEW p, NEW s, NEW x, Moved(w, c, p, s, x),
           Kept(workLock, workLock', w, s \in Working),
           Kept(journalLock, journalLock', w, s \in {"judged", "removing"}),
           \A t \in Tasks : Kept(taskLock[t], taskLock'[t], w, c \in {"advance", "recover"} /\ p = t)
    PROVE  LocksFit'
BY DEF LocksFit, Kept, Moved

(* What processes rely on is not disturbed by what leaves it alone. *)
facts == <<status, revision, phases, container, reclamation, state, op>>
LEMMA OthersKeep ==
    ASSUME ProcsFit, NEW v \in Procs, at'[v] = at[v], UNCHANGED facts
    PROVE  ProcFits(v)'
BY DEF ProcsFit, ProcFits, CallFits, CreateFits, HolderFits, RunFits, StepFits, StrayFree, facts

LEMMA FactsRest == ASSUME TasksFit, PilotsFit, UNCHANGED facts PROVE TasksFit' /\ PilotsFit'
BY DEF TasksFit, TaskFits, PilotsFit, PilotFits, StrayFree, Unresolved, facts

(* A step of one process that changes neither database. *)
LEMMA CallStep ==
    ASSUME IInv, NEW w \in Procs, NEW c, NEW p, NEW s, NEW x, Moved(w, c, p, s, x),
           JournalType', WorldType', CallType', UNCHANGED <<facts, stale>>, c # "create",
           LocksFit', ProcFits(w)'
    PROVE  IInv'
<1>1. \A v \in Procs \ {w} : at'[v] = at[v]
  BY DEF Moved
<1>2. ProcsFit'
  BY <1>1, OthersKeep DEF IInv, ProcsFit
<1>3. OneCreator'
  BY <1>1 DEF OneCreator, Moved, IInv
<1>4. TasksFit' /\ PilotsFit' /\ TaskType'
  BY FactsRest DEF IInv, TaskType, facts
<1> QED BY <1>2, <1>3, <1>4 DEF IInv

(* Neither a process nor what it relies on has changed. *)
LEMMA RestStep ==
    ASSUME IInv, UNCHANGED <<at, locks, taskLock, facts>>,
           JournalType', WorldType', CallType', TaskType'
    PROVE  IInv'
<1>1. ProcsFit'
  BY OthersKeep DEF IInv, ProcsFit
<1>2. LocksFit' /\ OneCreator'
  BY DEF IInv, LocksFit, OneCreator, locks
<1>3. TasksFit' /\ PilotsFit'
  BY FactsRest DEF IInv
<1> QED BY <1>1, <1>2, <1>3 DEF IInv

(* Where a process in a call is. *)
LEMMA Here ==
    ASSUME IInv, NEW w \in Procs, at[w].step # "idle"
    PROVE  /\ at[w] \in CallRecords /\ at[w].on \in Pilots /\ at[w].call \in DOMAIN StepsOf
           /\ at[w].step \in StepsOf[at[w].call] /\ at[w].call # "none"
           /\ CreateFits(w) /\ HolderFits(w) /\ RunFits(w)
BY DEF IInv, CallType, ProcsFit, ProcFits, CallFits, Idle, StepsOf

LEMMA LocksHere ==
    ASSUME IInv, NEW w \in Procs
    PROVE  /\ w # None
           /\ workLock = w <=> at[w].step \in Working
           /\ journalLock = w <=> at[w].step \in {"judged", "removing"}
           /\ \A t \in Tasks : taskLock[t] = w <=> at[w].call \in {"advance", "recover"} /\ at[w].on = t
BY PilotAssumption DEF IInv, LocksFit

(* A step within a call that holds the same locks before and after. *)
LEMMA SameLocks ==
    ASSUME IInv, NEW w \in Procs, NEW s, Moved(w, at[w].call, at[w].on, s, at[w].seen),
           UNCHANGED <<locks, taskLock>>,
           at[w].step \in Working <=> s \in Working,
           at[w].step \in {"judged", "removing"} <=> s \in {"judged", "removing"}
    PROVE  LocksFit'
BY DEF IInv, LocksFit, Moved, locks

(* Release, by somebody who goes where no lock of the journal is held. *)
LEMMA ReleaseLocks ==
    ASSUME IInv, NEW w \in Procs, NEW c, NEW p, NEW s, NEW x, Moved(w, c, p, s, x), Release(w),
           s \notin Working, s \notin {"judged", "removing"},
           \A t \in Tasks : Kept(taskLock[t], taskLock'[t], w, c \in {"advance", "recover"} /\ p = t)
    PROVE  LocksFit' /\ workLock' \in Procs \cup {None} /\ journalLock' \in Procs \cup {None}
<1>1. \A v \in Procs : v # None
  BY PilotAssumption
<1>2. Kept(workLock, workLock', w, s \in Working) /\ Kept(journalLock, journalLock', w, s \in {"judged", "removing"})
  BY <1>1 DEF Kept, Release
<1>3. workLock' \in Procs \cup {None} /\ journalLock' \in Procs \cup {None}
  BY DEF Release, IInv, CallType
<1> QED BY <1>2, <1>3, LocksStep DEF IInv

-----------------------------------------------------------------------------
(* Calls that change neither database. *)

(* A call that is refused lets go of its locks; a task's call goes on. *)
LEMMA RefuseKeeps ==
    ASSUME IInv, NEW w \in Procs, Refuse(w), UNCHANGED taskVars, faults' \in 0..MaxFaults,
           at[w].step \in {"entering", "judging", "judged", "cleaning", "removing", "deleting"} \cup Running
    PROVE  IInv'
<1>1. /\ Return(w, "rejected") /\ Release(w) /\ UNCHANGED <<mode, journal, world, taskVars>>
      /\ "rejected" \in StepNames
  BY DEF Refuse, StepNames
<1>2. /\ at[w].on \in Pilots /\ at[w].call \in {"advance", "recover", "run", "reconcile", "reclaim"}
      /\ HolderFits(w) /\ RunFits(w) /\ at[w].step # "approved"
  BY Here DEF StepsOf, Running
<1>3. JournalType' /\ WorldType' /\ UNCHANGED <<facts, stale>>
  BY <1>1 DEF IInv, JournalType, WorldType, facts, journal, world, taskVars
<1>4. CASE at[w].call \in CommandLine
  <2>1. Moved(w, "none", None, "idle", Unseen) /\ at'[w] = Idle
    BY <1>1, <1>4, IdleMoves DEF Return, IInv
  <2>2. \A t \in Tasks : Kept(taskLock[t], taskLock'[t], w, FALSE)
    BY <1>1, <1>4, LocksHere DEF Kept, taskVars, CommandLine
  <2>3. LocksFit' /\ CallType'
    BY <1>1, <2>1, <2>2, ReleaseLocks DEF IInv, CallType, Moved, taskVars, Working, Running
  <2>4. ProcFits(w)'
    BY <2>1 DEF ProcFits, CallFits, CreateFits, HolderFits, RunFits, StepFits, StrayFree, Idle, Unseen, Running, Settled
  <2> QED BY <1>3, <2>1, <2>3, <2>4, CallStep
<1>5. CASE at[w].call \in {"advance", "recover"}
  <2>1. Moved(w, at[w].call, at[w].on, "rejected", at[w].seen)
    BY <1>1, <1>5, GotoMoves DEF Return, CommandLine, IInv
  <2>2. \A t \in Tasks : Kept(taskLock[t], taskLock'[t], w, at[w].call \in {"advance", "recover"} /\ at[w].on = t)
    BY <1>1, LocksHere DEF Kept, taskVars
  <2>3. LocksFit' /\ CallType'
    BY <1>1, <2>1, <2>2, ReleaseLocks DEF IInv, CallType, Moved, taskVars, Working, Running
  <2>4. ProcFits(w)'
    BY <1>2, <1>3, <1>5, <2>1
    DEF ProcFits, CallFits, CreateFits, HolderFits, RunFits, StepFits, StrayFree, Moved, StepsOf, Running, facts
  <2> QED BY <1>3, <1>5, <2>1, <2>3, <2>4, CallStep
<1> QED BY <1>2, <1>4, <1>5 DEF CommandLine

LEMMA FaultCounts == ASSUME IInv, Fault \/ UNCHANGED faults PROVE faults' \in 0..MaxFaults
BY PilotAssumption DEF IInv, CallType, Fault

(* A step within a call that may take locks that are free. *)
LEMMA GotoKeeps ==
    ASSUME IInv, NEW w \in Procs, NEW s \in StepNames, Goto(w, s), at[w].step # "idle",
           UNCHANGED <<facts, stale, taskLock>>, JournalType', WorldType', faults' \in 0..MaxFaults,
           at[w].call \in {"advance", "recover", "run", "reconcile", "reclaim"},
           s \in StepsOf[at[w].call], s # "approved", s # "deleting", at[w].step # "approved",
           Kept(workLock, workLock', w, s \in Working),
           Kept(journalLock, journalLock', w, s \in {"judged", "removing"}),
           workLock' \in Procs \cup {None}, journalLock' \in Procs \cup {None},
           s = "judged" => status[at[w].on] = "prepared" /\ op[at[w].on] = "started",
           s \in Running => at[w].step \in Running,
           s = "removing" => status[at[w].on] = "reserved" /\ revision[at[w].on] < RevisionCap,
           s \in {"returned", "resolved"} => status[at[w].on] \in Settled
    PROVE  IInv'
<1>1. Moved(w, at[w].call, at[w].on, s, at[w].seen)
  BY GotoMoves DEF IInv
<1>2. /\ at[w].on \in Pilots /\ HolderFits(w) /\ RunFits(w)
  BY Here
<1>3. \A t \in Tasks : Kept(taskLock[t], taskLock'[t], w, at[w].call \in {"advance", "recover"} /\ at[w].on = t)
  BY LocksHere DEF Kept
<1>4. LocksFit'
  BY <1>1, <1>3, LocksStep DEF IInv
<1>5. CallType'
  BY <1>1 DEF IInv, CallType, Moved
<1>6. ProcFits(w)'
  BY <1>1, <1>2 DEF ProcFits, CallFits, CreateFits, HolderFits, RunFits, StepFits, StrayFree, Moved, StepsOf, facts
<1> QED BY <1>1, <1>4, <1>5, <1>6, CallStep

LEMMA StayTyped ==
    ASSUME IInv
    PROVE  /\ workLock \in Procs \cup {None} /\ journalLock \in Procs \cup {None}
           /\ faults \in 0..MaxFaults /\ (UNCHANGED <<mode, journal>> => JournalType')
           /\ (UNCHANGED world => WorldType') /\ (UNCHANGED taskVars => TaskType')
BY DEF IInv, CallType, JournalType, WorldType, TaskType, journal, world, taskVars

LEMMA TakeWorkLockKeeps ==
    ASSUME IInv, NEW w \in Procs, TakeWorkLock(w), UNCHANGED taskVars
    PROVE  IInv'
<1>1. CASE workLock # None /\ Refuse(w) /\ UNCHANGED faults
  BY <1>1, RefuseKeeps, StayTyped DEF TakeWorkLock
<1>2. CASE /\ workLock = None /\ workLock' = w /\ Goto(w, "judging")
           /\ UNCHANGED <<mode, journal, world, journalLock, faults>>
  <2>1. at[w].call \in {"advance", "run"} /\ at[w].step = "entering"
    BY Here DEF TakeWorkLock, StepsOf, Running
  <2>2. JournalType' /\ WorldType' /\ UNCHANGED <<facts, stale, taskLock>>
    BY <1>2, StayTyped DEF facts, journal, world, taskVars
  <2>3. /\ Kept(workLock, workLock', w, "judging" \in Working)
        /\ Kept(journalLock, journalLock', w, "judging" \in {"judged", "removing"})
    BY <1>2, <2>1, LocksHere DEF Kept, Working, Running
  <2> QED BY <1>2, <2>1, <2>2, <2>3, StayTyped, GotoKeeps DEF StepNames, StepsOf, Running
<1> QED BY <1>1, <1>2 DEF TakeWorkLock

LEMMA JudgeRunKeeps == ASSUME IInv, NEW w \in Procs, JudgeRun(w) PROVE IInv'
<1> DEFINE p == at[w].on
<1>1. at[w].step = "judging" /\ journalLock = None /\ UNCHANGED <<faults, taskVars>>
  BY DEF JudgeRun, Judge
<1>2. CASE Refuse(w)
  BY <1>1, <1>2, RefuseKeeps, StayTyped
<1>3. CASE /\ Fence(p, at[w].seen) /\ Admission(p) /\ journalLock' = w /\ Goto(w, "judged")
           /\ UNCHANGED <<mode, journal, world, workLock>>
  <2>1. at[w].call \in {"advance", "run"} /\ workLock = w
    BY <1>1, Here, LocksHere DEF StepsOf, Running, Working
  <2>2. JournalType' /\ WorldType' /\ UNCHANGED <<facts, stale, taskLock>>
    BY <1>1, <1>3, StayTyped DEF facts, journal, world, taskVars
  <2>3. /\ Kept(workLock, workLock', w, "judged" \in Working)
        /\ Kept(journalLock, journalLock', w, "judged" \in {"judged", "removing"})
    BY <1>1, <1>3, <2>1, LocksHere DEF Kept, Working, Running
  <2>4. status[p] = "prepared" /\ op[p] = "started"
    BY <1>3 DEF Fence, Admission
  <2> QED BY <1>1, <1>3, <2>1, <2>2, <2>3, <2>4, StayTyped, LocksHere, GotoKeeps
          DEF StepNames, StepsOf, Running
<1> QED BY <1>2, <1>3 DEF JudgeRun, Judge

LEMMA FailCallKeeps == ASSUME IInv, NEW w \in Procs, FailCall(w), UNCHANGED taskVars PROVE IInv'
BY FaultCounts, RefuseKeeps DEF FailCall, Running

(* Files are written or deleted in a workspace. *)
LEMMA FilesType ==
    ASSUME IInv, NEW p \in Pilots, NEW f \in {"none", "empty", "edited", "bare"},
           files' = [files EXCEPT ![p] = f], UNCHANGED container
    PROVE  WorldType'
BY DEF IInv, WorldType

LEMMA WriteKeeps ==
    ASSUME IInv, NEW w \in Procs, MakeFiles(w) \/ WriteFiles(w), UNCHANGED taskVars
    PROVE  IInv'
<1>1. PICK s \in {"edit", "writing", "checking"} :
         /\ Goto(w, s) /\ at[w].step \in {"making", "writing"}
         /\ UNCHANGED <<mode, journal, container, locks, faults>>
  BY DEF MakeFiles, WriteFiles
<1>2. at[w].call \in {"advance", "run"} /\ at[w].on \in Pilots /\ workLock = w
  BY <1>1, Here, LocksHere DEF StepsOf, Running, Working
<1>3. WorldType' /\ JournalType' /\ UNCHANGED <<facts, stale, taskLock>>
  BY <1>1, <1>2, FilesType, StayTyped DEF MakeFiles, WriteFiles, facts, journal, taskVars
<1>4. /\ Kept(workLock, workLock', w, s \in Working)
      /\ Kept(journalLock, journalLock', w, s \in {"judged", "removing"})
  BY <1>1, <1>2, LocksHere DEF Kept, locks, Working, Running
<1> QED BY <1>1, <1>2, <1>3, <1>4, StayTyped, GotoKeeps DEF StepNames, StepsOf, Running, locks

LEMMA TakeForCleanupKeeps ==
    ASSUME IInv, NEW w \in Procs, TakeForCleanup(w), UNCHANGED taskVars
    PROVE  IInv'
<1>1. at[w].step = "cleaning" /\ UNCHANGED <<faults, taskVars>>
  BY DEF TakeForCleanup
<1>2. CASE Refuse(w)
  BY <1>1, <1>2, RefuseKeeps, StayTyped
<1>3. CASE /\ MayClean(at[w].on, at[w].seen) /\ workLock' = w /\ journalLock' = w
           /\ Goto(w, "removing") /\ UNCHANGED <<mode, journal, world>>
  <2>1. at[w].call \in {"recover", "reconcile"} /\ workLock = None /\ journalLock = None
    BY <1>1, <1>3, Here DEF StepsOf, Running, MayClean
  <2>2. JournalType' /\ WorldType' /\ UNCHANGED <<facts, stale, taskLock>>
    BY <1>1, <1>3, StayTyped DEF facts, journal, world, taskVars
  <2>3. /\ Kept(workLock, workLock', w, "removing" \in Working)
        /\ Kept(journalLock, journalLock', w, "removing" \in {"judged", "removing"})
    BY <1>3, <2>1, LocksHere DEF Kept, Working, Running
  <2> QED BY <1>1, <1>3, <2>1, <2>2, <2>3, StayTyped, LocksHere, GotoKeeps
          DEF StepNames, StepsOf, Running, MayClean
<1> QED BY <1>2, <1>3 DEF TakeForCleanup

LEMMA FailEvidenceKeeps == ASSUME IInv, NEW w \in Procs, FailEvidence(w) PROVE IInv'
<1>1. /\ at[w].call = "advance" /\ at[w].step = "returned" /\ Goto(w, "rejected")
      /\ UNCHANGED <<mode, journal, world, locks, taskVars>> /\ faults' \in 0..MaxFaults
  BY FaultCounts DEF FailEvidence, Holds
<1>2. JournalType' /\ WorldType' /\ UNCHANGED <<facts, stale, taskLock>>
  BY <1>1, StayTyped DEF facts, journal, world, taskVars
<1>3. Kept(workLock, workLock', w, "rejected" \in Working) /\ Kept(journalLock, journalLock', w, "rejected" \in {"judged", "removing"})
  BY <1>1, LocksHere DEF Kept, locks, Working, Running
<1> QED BY <1>1, <1>2, <1>3, StayTyped, GotoKeeps DEF StepNames, StepsOf, Running, locks

LEMMA ResumeCleanupKeeps == ASSUME IInv, NEW w \in Procs, ResumeCleanup(w) PROVE IInv'
<1>1. /\ at[w].call = "recover" /\ at[w].step = "inspected" /\ at[w].seen.status # "prepared"
      /\ UNCHANGED <<mode, journal, world, locks, faults, taskVars>>
      /\ Goto(w, IF at[w].seen.status = "reserved" THEN "cleaning" ELSE "resolved")
  BY DEF ResumeCleanup, Holds
<1>2. PICK s \in {"cleaning", "resolved"} : Goto(w, s) /\ (s = "resolved" => at[w].seen.status # "reserved")
  BY <1>1
<1>3. s = "resolved" => status[at[w].on] \in Settled
  <2>1. at[w] \in CallRecords /\ HolderFits(w) /\ RunFits(w)
    BY <1>1, Here
  <2> QED BY <1>1, <1>2, <2>1 DEF CallRecords, HolderFits, RunFits, StepFits, StrayFree
<1>4. JournalType' /\ WorldType' /\ UNCHANGED <<facts, stale, taskLock>>
  BY <1>1, StayTyped DEF facts, journal, world, taskVars
<1>5. Kept(workLock, workLock', w, s \in Working) /\ Kept(journalLock, journalLock', w, s \in {"judged", "removing"})
  BY <1>1, LocksHere DEF Kept, locks, Working, Running
<1> QED BY <1>1, <1>2, <1>3, <1>4, <1>5, StayTyped, GotoKeeps DEF StepNames, StepsOf, Running, locks

(* A process that is in no call relies on nothing. *)
LEMMA IdleFits == ASSUME NEW w \in Procs, at'[w] = Idle PROVE ProcFits(w)'
BY DEF ProcFits, CallFits, CreateFits, HolderFits, RunFits, StepFits, StrayFree, Idle, Unseen, Running, Settled

(* It lets go of the task; what it held of the journal is free as well. *)
Freed(w) == taskLock' = [t \in Tasks |-> IF taskLock[t] = w THEN None ELSE taskLock[t]]
LEMMA FreedLocks ==
    ASSUME IInv, NEW w \in Procs, Moved(w, "none", None, "idle", Unseen), Freed(w), Release(w)
    PROVE  /\ LocksFit' /\ workLock' \in Procs \cup {None} /\ journalLock' \in Procs \cup {None}
           /\ taskLock' \in [Tasks -> Procs \cup {None}]
<1>1. \A t \in Tasks : Kept(taskLock[t], taskLock'[t], w, "none" \in {"advance", "recover"} /\ None = t)
  BY PilotAssumption DEF Kept, Freed
<1>2. taskLock' \in [Tasks -> Procs \cup {None}]
  BY DEF Freed, IInv, CallType
<1> QED BY <1>1, <1>2, ReleaseLocks DEF Working, Running

LEMMA EndDoes ==
    ASSUME IInv, NEW w \in Procs, End(w), UNCHANGED <<locks, faults>>,
           at[w].step \notin Working, at[w].step \notin {"judged", "removing"}
    PROVE  /\ Moved(w, "none", None, "idle", Unseen) /\ at'[w] = Idle
           /\ LocksFit' /\ CallType' /\ ProcFits(w)'
<1>1. Moved(w, "none", None, "idle", Unseen) /\ at'[w] = Idle
  BY IdleMoves DEF End, IInv
<1>2. Freed(w) /\ Release(w)
  BY LocksHere DEF End, Freed, Release, locks
<1>3. LocksFit' /\ taskLock' \in [Tasks -> Procs \cup {None}]
  BY <1>1, <1>2, FreedLocks
<1> QED BY <1>1, <1>3, IdleFits DEF IInv, CallType, Moved, locks

LEMMA KeepBlockedKeeps == ASSUME IInv, NEW w \in Procs, KeepBlocked(w) PROVE IInv'
<1>1. /\ at[w].step = "rejected" /\ End(w)
      /\ UNCHANGED <<mode, journal, world, locks, faults, state, op, stale>>
  BY DEF KeepBlocked, Holds
<1>2. JournalType' /\ WorldType' /\ UNCHANGED <<facts, stale>>
  BY <1>1, StayTyped DEF facts, journal, world
<1> QED BY <1>1, <1>2, EndDoes, CallStep DEF Working, Running

LEMMA CrashKeeps == ASSUME IInv, NEW w \in Procs, Crash(w) PROVE IInv'
<1>1. /\ Release(w) /\ Freed(w) /\ UNCHANGED <<mode, journal, world, state, op, stale>>
      /\ faults' \in 0..MaxFaults
  BY FaultCounts DEF Crash, Die, Freed
<1>2. Moved(w, "none", None, "idle", Unseen) /\ at'[w] = Idle
  BY IdleMoves DEF Crash, Die, IInv
<1>3. JournalType' /\ WorldType' /\ UNCHANGED <<facts, stale>>
  BY <1>1, StayTyped DEF facts, journal, world
<1>4. LocksFit' /\ CallType'
  BY <1>1, <1>2, FreedLocks DEF CallType, Moved
<1> QED BY <1>2, <1>3, <1>4, IdleFits, CallStep

(* A call begins, about a task that is looked at, and perhaps held. *)
LEMMA BeginKeeps ==
    ASSUME IInv, NEW w \in Procs, NEW p \in Pilots, NEW c \in {"advance", "recover", "run", "reconcile"},
           NEW s \in {"approved", "inspected", "entering", "cleaning"}, s \in StepsOf[c],
           NEW x \in [status : {"absent", "prepared", "reserved"} \cup Settled, revision : 0..RevisionCap],
           at[w] = Idle, Begin(w, c, p, s, x),
           UNCHANGED <<mode, journal, world, locks, state, op, stale>>, faults' \in 0..MaxFaults,
           c = "advance" => s = "approved" /\ state[p] = "READY_FOR_IMPLEMENTATION",
           c = "recover" => state[p] = "BLOCKED" /\ x.status # "absent",
           x.status \in Settled => status[p] \in Settled,
           IF c \in {"advance", "recover"} THEN Lock(w, p) ELSE UNCHANGED taskLock
    PROVE  IInv'
<1>1. Moved(w, c, p, s, x)
  BY BeginMoves DEF IInv, CallNames, StepNames, CommandLine
<1>2. JournalType' /\ WorldType' /\ UNCHANGED <<facts, stale>>
  BY StayTyped DEF facts, journal, world
<1>3. taskLock' \in [Tasks -> Procs \cup {None}]
      /\ \A t \in Tasks : Kept(taskLock[t], taskLock'[t], w, c \in {"advance", "recover"} /\ p = t)
  BY LocksHere, PilotAssumption DEF IInv, CallType, Kept, Lock, Idle, Tasks
<1>4. /\ Kept(workLock, workLock', w, s \in Working)
      /\ Kept(journalLock, journalLock', w, s \in {"judged", "removing"})
  BY LocksHere DEF Kept, locks, Idle, Working, Running
<1>5. LocksFit' /\ CallType'
  BY <1>1, <1>3, <1>4, LocksStep DEF IInv, CallType, Moved, locks
<1>6. ProcFits(w)'
  BY <1>1, <1>2 DEF ProcFits, CallFits, CreateFits, HolderFits, RunFits, StepFits, StrayFree, Moved, StepsOf, facts, Running
<1> QED BY <1>1, <1>2, <1>5, <1>6, CallStep

LEMMA LookTyped ==
    ASSUME IInv, NEW p \in Pilots
    PROVE  /\ Look(p) \in [status : {"absent", "prepared", "reserved"} \cup Settled, revision : 0..RevisionCap]
           /\ Look(p).status = status[p]
BY DEF IInv, JournalType, Look

LEMMA TakeUpKeeps == ASSUME IInv, NEW w \in Procs, NEW t \in Tasks, TakeUp(w, t) PROVE IInv'
<1>1. "approved" \in StepsOf["advance"] /\ t \in Pilots
  BY DEF StepsOf, Tasks
<1> QED BY <1>1, LookTyped, StayTyped, BeginKeeps DEF TakeUp

LEMMA BeginRecoverKeeps == ASSUME IInv, NEW w \in Procs, NEW t \in Tasks, BeginRecover(w, t) PROVE IInv'
<1>1. "inspected" \in StepsOf["recover"] /\ t \in Pilots
  BY DEF StepsOf, Tasks
<1>2. status[t] # "absent"
  BY DEF BeginRecover, IInv, TasksFit, TaskFits
<1> QED BY <1>1, <1>2, LookTyped, StayTyped, BeginKeeps DEF BeginRecover

LEMMA CallKeeps == ASSUME IInv, NEW w \in Procs, NEW p \in Pilots, Call(w, p) PROVE IInv'
<1>1. "entering" \in StepsOf["run"] /\ "cleaning" \in StepsOf["reconcile"]
  BY DEF StepsOf
<1>2. CASE BeginRun(w, p, Admission(p)) /\ UNCHANGED taskVars
  <2>1. [status |-> "prepared", revision |-> 0] \in
          [status : {"absent", "prepared", "reserved"} \cup Settled, revision : 0..RevisionCap]
    BY PilotAssumption
  <2>2. faults' \in 0..MaxFaults
    BY <1>2, FaultCounts DEF BeginRun
  <2> QED BY <1>1, <1>2, <2>1, <2>2, BeginKeeps DEF BeginRun, taskVars, Settled
<1>3. CASE BeginReconcile(w, p) /\ UNCHANGED taskVars
  <2> DEFINE x == Look(p)
  <2>1. /\ at[w] = Idle /\ Begin(w, "reconcile", p, "cleaning", x) /\ status[p] = "reserved"
        /\ UNCHANGED <<mode, journal, world, locks, faults, state, op, stale, taskLock>>
    BY <1>3 DEF BeginReconcile, taskVars
  <2>2. x \in [status : {"absent", "prepared", "reserved"} \cup Settled, revision : 0..RevisionCap]
        /\ x.status = "reserved" /\ faults' \in 0..MaxFaults
    BY <2>1, LookTyped, StayTyped
  <2>3. x.status \notin Settled
    BY <2>2 DEF Settled
  <2> HIDE DEF x
  <2> QED BY <1>1, <2>1, <2>2, <2>3, BeginKeeps
<1> QED BY <1>2, <1>3 DEF Call

(* Clocks, a person who renews, and what is deleted in a workspace. *)
LEMMA ClockKeeps ==
    ASSUME IInv, \/ \E p \in Pilots : Expire(p)
                 \/ \E t \in Tasks : Renew(t) \/ ExpireResult(t)
                 \/ UNCHANGED vars
    PROVE  IInv'
<1>1. CASE \E p \in Pilots : Expire(p)
  <2>1. JournalType' /\ UNCHANGED <<at, locks, taskLock, facts, state, op, stale, world, faults>>
    BY <1>1 DEF IInv, JournalType, Expire, ExpireScope, facts, world, taskVars
  <2> QED BY <2>1, StayTyped, RestStep DEF IInv, CallType, TaskType, locks, taskVars
<1>2. CASE \E t \in Tasks : Renew(t) \/ ExpireResult(t)
  <2>1. TaskType' /\ UNCHANGED <<pilotVars, state, op, taskLock>>
    BY <1>2 DEF IInv, TaskType, Renew, ExpireResult
  <2>2. UNCHANGED <<at, locks, taskLock, facts, mode, journal, world, faults>>
    BY <2>1 DEF pilotVars, facts, journal, world
  <2> QED BY <2>1, <2>2, StayTyped, RestStep DEF IInv, CallType, locks
<1>3. CASE UNCHANGED vars
  <2>1. UNCHANGED <<at, locks, taskLock, facts, mode, journal, world, faults, taskVars>>
    BY <1>3 DEF vars, pilotVars, facts, journal, world, taskVars
  <2> QED BY <2>1, StayTyped, RestStep DEF IInv, CallType, locks
<1> QED BY <1>1, <1>2, <1>3

LEMMA DeleteFilesKeeps ==
    ASSUME IInv, NEW w \in Procs, DeleteFiles(w), UNCHANGED taskVars
    PROVE  IInv'
<1>1. /\ at[w].on \in Pilots /\ files' = [files EXCEPT ![at[w].on] = Deleted(@)]
      /\ UNCHANGED <<mode, journal, container, locks, at, faults, taskVars>>
  BY Here DEF DeleteFiles
<1>2. WorldType'
  BY <1>1 DEF IInv, WorldType, Deleted
<1>3. UNCHANGED <<at, locks, taskLock, facts>>
  BY <1>1 DEF facts, journal, taskVars
<1> QED BY <1>1, <1>2, <1>3, StayTyped, RestStep DEF IInv, CallType, locks

-----------------------------------------------------------------------------
(* Calls and decisions that write one of the databases. *)

(* A person decides, or advance finds that a worker never came back, while *)
(* nobody is in a call about the task.                                     *)
LEMMA DecideKeeps ==
    ASSUME IInv, NEW t \in Tasks, NEW to, Decide(t, to), UNCHANGED stale,
           \/ state[t] = "IMPLEMENTING" /\ to = "BLOCKED"
           \/ state[t] = "AWAITING_PLAN_APPROVAL" /\ to = "READY_FOR_IMPLEMENTATION"
           \/ state[t] = "AWAITING_ACTION_APPROVAL" /\ to = "COMPLETED"
           \/ /\ state[t] \in {"AWAITING_PLAN_APPROVAL", "READY_FOR_IMPLEMENTATION", "AWAITING_ACTION_APPROVAL"}
              /\ to = "CANCELLED"
    PROVE  IInv'
<1>1. /\ t \in Pilots /\ taskLock[t] = None
      /\ state' = [state EXCEPT ![t] = to] /\ UNCHANGED <<pilotVars, op, taskLock>>
  BY DEF Decide, Move, Tasks
<1>2. TaskType' /\ state'[t] = to /\ \A u \in Tasks \ {t} : state'[u] = state[u]
  BY <1>1 DEF IInv, TaskType, Terminal
<1>3. JournalType' /\ WorldType' /\ CallType' /\ LocksFit' /\ OneCreator'
  BY <1>1 DEF IInv, JournalType, WorldType, CallType, LocksFit, OneCreator, pilotVars, journal, world, locks
<1>4. UNCHANGED <<at, status, revision, phases, container, reclamation>>
  BY <1>1 DEF pilotVars, journal, world
<1>5. ProcsFit'
  <2> SUFFICES ASSUME NEW w \in Procs PROVE ProcFits(w)'
    BY DEF ProcsFit
  <2>1. at[w].call \in {"advance", "recover"} => at[w].on # t
    BY <1>1, LocksHere
  <2>2. at[w].call = "create" => at[w].on # t
    BY DEF IInv, ProcsFit, ProcFits, CreateFits
  <2>3. at[w].on \in Tasks \/ at[w] = Idle
    BY DEF IInv, ProcsFit, ProcFits, CallFits, Tasks
  <2> QED BY <1>1, <1>2, <1>4, <2>1, <2>2, <2>3
          DEF IInv, ProcsFit, ProcFits, CallFits, CreateFits, HolderFits, RunFits, StepFits, StrayFree, Idle
<1>6. TasksFit'
  BY <1>1, <1>2, <1>4 DEF IInv, TasksFit, TaskFits, Terminal
<1>7. PilotsFit'
  BY <1>1, <1>2, <1>4 DEF IInv, PilotsFit, PilotFits, StrayFree, Unresolved, Terminal, Tasks
<1> QED BY <1>2, <1>3, <1>5, <1>6, <1>7 DEF IInv

LEMMA PersonKeeps ==
    ASSUME IInv, NEW t \in Tasks, ApprovePlan(t) \/ AcceptResult(t) \/ Cancel(t) \/ BlockUncertain(t)
    PROVE  IInv'
<1>1. PICK to : Decide(t, to) /\ UNCHANGED stale
                /\ \/ state[t] = "IMPLEMENTING" /\ to = "BLOCKED"
                   \/ state[t] = "AWAITING_PLAN_APPROVAL" /\ to = "READY_FOR_IMPLEMENTATION"
                   \/ state[t] = "AWAITING_ACTION_APPROVAL" /\ to = "COMPLETED"
                   \/ /\ state[t] \in {"AWAITING_PLAN_APPROVAL", "READY_FOR_IMPLEMENTATION",
                                       "AWAITING_ACTION_APPROVAL"}
                      /\ to = "CANCELLED"
  BY DEF ApprovePlan, AcceptResult, Cancel, BlockUncertain
<1> QED BY <1>1, DecideKeeps

(* A call about a task moves it on, or ends there. *)
LEMMA HolderMoves ==
    ASSUME IInv, NEW w \in Procs, at[w].call \in {"create", "advance", "recover"}, at[w].step # "idle",
           NEW to \in {"AWAITING_PLAN_APPROVAL", "AWAITING_ACTION_APPROVAL", "FAILED", "BLOCKED"},
           Move(at[w].on, to), End(w),
           op' = op \/ op' = [op EXCEPT ![at[w].on] = "completed"],
           UNCHANGED <<mode, journal, world, locks, stale, faults>>,
           at[w].step \notin Working, at[w].step \notin {"judged", "removing"},
           \/ at[w].call = "create" /\ to = "AWAITING_PLAN_APPROVAL" /\ op' = op
           \/ at[w].call = "advance" /\ at[w].step = "rejected" /\ to = "BLOCKED" /\ op' = op
           \/ at[w].call = "advance" /\ at[w].step = "returned" /\ op'[at[w].on] = "completed"
              /\ to = IF status[at[w].on] = "passed" THEN "AWAITING_ACTION_APPROVAL" ELSE "FAILED"
           \/ at[w].call = "recover" /\ at[w].step = "resolved" /\ to = "FAILED" /\ op'[at[w].on] = "completed"
    PROVE  IInv'
<1> DEFINE t == at[w].on
<1>1. t \in Tasks /\ CreateFits(w) /\ HolderFits(w) /\ RunFits(w)
  BY Here DEF Tasks
<1>2. /\ TaskType' /\ state'[t] = to /\ \A u \in Tasks \ {t} : state'[u] = state[u]
      /\ \A u \in Tasks \ {t} : op'[u] = op[u]
  BY <1>1 DEF IInv, TaskType, Terminal, Move
<1>3. UNCHANGED <<status, revision, phases, container, reclamation>> /\ JournalType' /\ WorldType'
  BY StayTyped DEF journal, world
<1>4. Moved(w, "none", None, "idle", Unseen) /\ at'[w] = Idle /\ LocksFit' /\ CallType' /\ ProcFits(w)'
  BY EndDoes
<1>5. state[t] = (IF at[w].call = "create" THEN "NONE" ELSE IF at[w].call = "advance" THEN "IMPLEMENTING" ELSE "BLOCKED")
  BY <1>1 DEF CreateFits, HolderFits
<1>6. ProcsFit'
  <2> SUFFICES ASSUME NEW v \in Procs, v # w PROVE ProcFits(v)'
    BY <1>4 DEF ProcsFit
  <2>1. at[v].call \in {"create", "advance", "recover"} => at[v].on # t
    BY <1>1, <1>5, LocksHere DEF IInv, OneCreator, ProcsFit, ProcFits, CreateFits, HolderFits
  <2>2. at[v].on \in Tasks \/ at[v] = Idle
    BY DEF IInv, ProcsFit, ProcFits, CallFits, Tasks
  <2>3. at'[v] = at[v]
    BY <1>4 DEF Moved
  <2>4. at[v].step = "judged" => at[v].on # t \/ op'[t] = "started"
    BY <1>1 DEF IInv, ProcsFit, ProcFits, RunFits, StepFits, StrayFree, Settled
  <2> QED BY <1>2, <1>3, <2>1, <2>2, <2>3, <2>4
          DEF IInv, ProcsFit, ProcFits, CallFits, CreateFits, HolderFits, RunFits, StepFits, StrayFree, Idle
<1>7. OneCreator'
  BY <1>4 DEF IInv, OneCreator, Moved
<1>8. TasksFit'
  <2>1. ASSUME NEW u \in Tasks \ {t} PROVE TaskFits(u)'
    BY <1>2, <1>3 DEF IInv, TasksFit, TaskFits
  <2>2. TaskFits(t) /\ t \in Pilots
    BY <1>1 DEF IInv, TasksFit, Tasks
  <2>3. at[w].step \in {"returned", "resolved"} => status[t] \in Settled
    BY <1>1 DEF RunFits, StepFits
  <2>4. ASSUME NEW u \in Tasks, u = t PROVE TaskFits(u)'
    BY <1>1, <1>2, <1>3, <1>5, <2>2, <2>3, <2>4 DEF TaskFits, CreateFits, Settled
  <2> QED BY <2>1, <2>4 DEF TasksFit
<1>9. PilotsFit'
  BY <1>1, <1>2, <1>3, <1>5 DEF IInv, PilotsFit, PilotFits, StrayFree, Unresolved, Terminal, Tasks
<1> QED BY <1>2, <1>3, <1>4, <1>6, <1>7, <1>8, <1>9 DEF IInv

LEMMA CommitTaskKeeps == ASSUME IInv, NEW w \in Procs, CommitTask(w) PROVE IInv'
BY HolderMoves DEF CommitTask, Holds, Working, Running

LEMMA FinishRunKeeps == ASSUME IInv, NEW w \in Procs, FinishRun(w) PROVE IInv'
<1>1. at[w].on \in DOMAIN op
  BY Here DEF FinishRun, Holds, IInv, TaskType, Tasks
<1>2. op'[at[w].on] = "completed"
  BY <1>1 DEF FinishRun
<1> QED BY <1>2, HolderMoves DEF FinishRun, Holds, Working, Running

LEMMA BlockRejectedKeeps == ASSUME IInv, NEW w \in Procs, BlockRejected(w) PROVE IInv'
BY HolderMoves DEF BlockRejected, Holds, Working, Running

LEMMA SettleTaskKeeps == ASSUME IInv, NEW w \in Procs, SettleTask(w) PROVE IInv'
<1>1. at[w].on \in DOMAIN op
  BY Here DEF SettleTask, Holds, IInv, TaskType, Tasks
<1>2. op'[at[w].on] = "completed"
  BY <1>1 DEF SettleTask
<1> QED BY <1>2, HolderMoves DEF SettleTask, Holds, Working, Running

LEMMA StartOperationKeeps == ASSUME IInv, NEW w \in Procs, StartOperation(w) PROVE IInv'
<1> DEFINE t == at[w].on
<1>1. /\ at[w].call = "advance" /\ at[w].step = "approved" /\ Goto(w, "entering")
      /\ op' = [op EXCEPT ![t] = "started"] /\ state' = [state EXCEPT ![t] = "IMPLEMENTING"]
      /\ UNCHANGED <<mode, journal, world, locks, faults, stale, taskLock>>
  BY DEF StartOperation, Holds, Move
<1>2. t \in Tasks /\ state[t] = "READY_FOR_IMPLEMENTATION" /\ RunFits(w)
  BY <1>1, Here DEF Tasks, HolderFits
<1>3. /\ TaskType' /\ state'[t] = "IMPLEMENTING" /\ op'[t] = "started"
      /\ \A u \in Tasks \ {t} : state'[u] = state[u] /\ op'[u] = op[u]
  BY <1>1, <1>2 DEF IInv, TaskType, Terminal
<1>4. UNCHANGED <<status, revision, phases, container, reclamation>> /\ JournalType' /\ WorldType'
  BY <1>1, StayTyped DEF journal, world
<1>5. Moved(w, "advance", t, "entering", at[w].seen)
  BY <1>1, GotoMoves DEF IInv, StepNames
<1>6. LocksFit'
  BY <1>1, <1>5, SameLocks DEF Working, Running
<1>7. CallType'
  BY <1>1, <1>5 DEF IInv, CallType, Moved, locks
<1>8. ProcsFit'
  <2>1. ASSUME NEW v \in Procs, v # w PROVE ProcFits(v)'
    <3>1. at[v].call \in {"create", "advance", "recover"} => at[v].on # t
      BY <1>1, <1>2, <2>1, LocksHere DEF IInv, ProcsFit, ProcFits, CreateFits
    <3>2. at[v].on \in Tasks \/ at[v] = Idle
      BY DEF IInv, ProcsFit, ProcFits, CallFits, Tasks
    <3>3. at'[v] = at[v]
      BY <1>5, <2>1 DEF Moved
    <3> QED BY <1>3, <1>4, <3>1, <3>2, <3>3
            DEF IInv, ProcsFit, ProcFits, CallFits, CreateFits, HolderFits, RunFits, StepFits, StrayFree, Idle
  <2>2. ProcFits(w)'
    BY <1>2, <1>3, <1>4, <1>5
    DEF ProcFits, CallFits, CreateFits, HolderFits, RunFits, StepFits, StrayFree, Moved, StepsOf, Running, Tasks
  <2> QED BY <2>1, <2>2 DEF ProcsFit
<1>9. OneCreator'
  BY <1>1, <1>5 DEF IInv, OneCreator, Moved
<1>10. TasksFit'
  BY <1>2, <1>3, <1>4 DEF IInv, TasksFit, TaskFits, Terminal
<1>11. PilotsFit'
  BY <1>2, <1>3, <1>4 DEF IInv, PilotsFit, PilotFits, StrayFree, Unresolved, Terminal, Tasks
<1> QED BY <1>3, <1>4, <1>6, <1>7, <1>8, <1>9, <1>10, <1>11 DEF IInv

(* A pilot's row is written by a transaction that nobody else is in.  Who  *)
(* is in a run or a cleanup of the pilot is the one who writes.            *)
OthersAway(w, p) ==
    \A v \in Procs \ {w} :
        at[v].on = p => at[v].step \notin {"judged", "removing"} \cup Running

SameRow(q) ==
    /\ status'[q] = status[q] /\ revision'[q] = revision[q] /\ phases'[q] = phases[q]
    /\ container'[q] = container[q] /\ reclamation'[q] = reclamation[q]

LEMMA RowStep ==
    ASSUME IInv, NEW w, NEW p \in Pilots, \A q \in Pilots \ {p} : SameRow(q), UNCHANGED <<state, op>>,
           OthersAway(w, p), \A v \in Procs \ {w} : at'[v] = at[v], w \in Procs => ProcFits(w)',
           status'[p] # "absent", status[p] \in Settled => status'[p] = status[p],
           status'[p] = "reserved" => op[p] = "started",
           reclamation[p] # "none" => reclamation'[p] # "none",
           PilotFits(p)'
    PROVE  ProcsFit' /\ TasksFit' /\ PilotsFit'
<1>1. ProcsFit'
  <2> SUFFICES ASSUME NEW v \in Procs \ {w} PROVE ProcFits(v)'
    BY DEF ProcsFit
  <2>1. at[v].on \in Pilots \/ at[v] = Idle
    BY DEF IInv, ProcsFit, ProcFits, CallFits
  <2>2. ProcFits(v) /\ at'[v] = at[v]
    BY DEF IInv, ProcsFit
  <2>3. CASE at[v].on = p
    BY <2>2, <2>3 DEF ProcFits, CallFits, CreateFits, HolderFits, RunFits, StepFits, StrayFree, OthersAway
  <2>4. CASE at[v].on # p
    BY <2>1, <2>2, <2>4
    DEF ProcFits, CallFits, CreateFits, HolderFits, RunFits, StepFits, StrayFree, SameRow, Idle, Unseen, Settled, Running
  <2> QED BY <2>3, <2>4
<1>2. TasksFit'
  BY DEF IInv, TasksFit, TaskFits, Tasks, SameRow, Settled
<1>3. PilotsFit'
  <2>1. ASSUME NEW q \in Pilots \ {p} PROVE PilotFits(q)'
    BY DEF IInv, PilotsFit, PilotFits, StrayFree, Unresolved, SameRow
  <2> QED BY <2>1 DEF PilotsFit
<1> QED BY <1>1, <1>2, <1>3

LEMMA RowType ==
    ASSUME IInv, NEW p \in Pilots, NEW to \in {"absent", "prepared", "reserved"} \cup Settled,
           \/ Consume(p, to) /\ revision[p] < RevisionCap
           \/ status' = [status EXCEPT ![p] = to] /\ revision' = revision,
           UNCHANGED <<mode, expired, phases, reclamation, inventory>>
    PROVE  /\ JournalType' /\ status'[p] = to /\ revision'[p] \in {revision[p], revision[p] + 1}
           /\ (Consume(p, to) => revision'[p] = revision[p] + 1)
           /\ \A q \in Pilots \ {p} : status'[q] = status[q] /\ revision'[q] = revision[q]
<1>1. /\ revision \in [Pilots -> 0..RevisionCap] /\ revision[p] \in 0..RevisionCap /\ RevisionCap \in Nat
      /\ status \in [Pilots -> {"absent", "prepared", "reserved"} \cup Settled]
  BY PilotAssumption DEF IInv, JournalType
<1>2. /\ status' = [status EXCEPT ![p] = to]
      /\ (revision' = revision \/ (Consume(p, to) /\ revision[p] < RevisionCap))
  BY DEF Consume
<1>3. /\ status' \in [Pilots -> {"absent", "prepared", "reserved"} \cup Settled] /\ status'[p] = to
      /\ \A q \in Pilots \ {p} : status'[q] = status[q]
  BY <1>1, <1>2
<1>4. CASE revision' = revision
  BY <1>1, <1>3, <1>4 DEF IInv, JournalType, Consume
<1>5. CASE Consume(p, to) /\ revision[p] < RevisionCap
  <2>1. revision' = [revision EXCEPT ![p] = revision[p] + 1] /\ revision[p] + 1 \in 0..RevisionCap
    BY <1>1, <1>5 DEF Consume
  <2>2. /\ revision' \in [Pilots -> 0..RevisionCap] /\ revision'[p] = revision[p] + 1
        /\ \A q \in Pilots \ {p} : revision'[q] = revision[q]
    BY <1>1, <2>1
  <2> QED BY <1>3, <2>2 DEF IInv, JournalType
<1> QED BY <1>2, <1>4, <1>5

(* create. *)
LEMMA BeginCreateKeeps ==
    ASSUME IInv, NEW w \in Procs, NEW t \in Tasks, BeginCreate(w, t)
    PROVE  IInv'
<1>1. /\ at[w] = Idle /\ status[t] = "absent" /\ Begin(w, "create", t, "binding", Unseen) /\ t \in Pilots
      /\ status' = [status EXCEPT ![t] = "prepared"]
      /\ UNCHANGED <<mode, revision, expired, phases, reclamation, inventory, world, locks, faults, taskVars>>
  BY DEF BeginCreate, Prepare, Tasks
<1>2. /\ JournalType' /\ status'[t] = "prepared" /\ revision' = revision
      /\ \A q \in Pilots \ {t} : status'[q] = status[q]
  BY <1>1, RowType
<1>3. Moved(w, "create", t, "binding", Unseen)
  BY <1>1, BeginMoves, PilotAssumption DEF IInv, CallNames, StepNames, Unseen
<1>4. LocksFit'
  <2>1. /\ Kept(workLock, workLock', w, "binding" \in Working)
        /\ Kept(journalLock, journalLock', w, "binding" \in {"judged", "removing"})
        /\ \A u \in Tasks : Kept(taskLock[u], taskLock'[u], w, "create" \in {"advance", "recover"} /\ t = u)
    BY <1>1, LocksHere DEF Kept, Idle, locks, taskVars, Working, Running
  <2> QED BY <1>3, <2>1, LocksStep DEF IInv
<1>5. CallType' /\ WorldType' /\ TaskType'
  BY <1>1, <1>3, StayTyped DEF IInv, CallType, Moved, locks, taskVars
<1>6. TaskFits(t) /\ PilotFits(t) /\ state[t] = "NONE" /\ op[t] = "none"
  BY <1>1 DEF IInv, TasksFit, TaskFits, PilotsFit, Tasks
<1>7. ProcFits(w)'
  BY <1>1, <1>2, <1>3, <1>6
  DEF ProcFits, CallFits, CreateFits, HolderFits, RunFits, StepFits, StrayFree, Moved, StepsOf, Unseen,
      Running, Settled, taskVars
<1>8. OthersAway(w, t) /\ \A v \in Procs : at[v].call = "create" => at[v].on # t
  BY <1>1 DEF OthersAway, IInv, ProcsFit, ProcFits, CreateFits, RunFits, StepFits
<1>9. OneCreator'
  BY <1>3, <1>8 DEF IInv, OneCreator, Moved
<1>10. PilotFits(t)'
  BY <1>1, <1>2, <1>6 DEF PilotFits, StrayFree, Unresolved, Settled, world
<1>11. \A q \in Pilots \ {t} : SameRow(q)
  BY <1>1, <1>2 DEF SameRow, world
<1>12. ProcsFit' /\ TasksFit' /\ PilotsFit'
  BY <1>1, <1>2, <1>3, <1>7, <1>8, <1>10, <1>11, RowStep DEF Moved, taskVars, Settled
<1> QED BY <1>2, <1>4, <1>5, <1>9, <1>12 DEF IInv

(* Nobody has the journal's transaction open: nobody has judged the pilot, *)
(* cleans it up, or is in a run of one that is still prepared.             *)
LEMMA UnusedIsFree ==
    ASSUME IInv, NEW p \in Pilots, status[p] = "prepared", journalLock = None
    PROVE  /\ \A w : OthersAway(w, p)
           /\ revision[p] = 0 /\ reclamation[p] = "none" /\ StrayFree(p) /\ op[p] # "completed"
<1>1. \A v \in Procs : at[v].step \notin {"judged", "removing"}
  BY LocksHere
<1>2. \A v \in Procs : at[v].on = p => at[v].step \notin Running
  BY DEF IInv, ProcsFit, ProcFits, RunFits, StepFits
<1>3. PilotFits(p) /\ TaskFits(p)
  BY DEF IInv, PilotsFit, TasksFit, Tasks
<1> QED BY <1>1, <1>2, <1>3 DEF OthersAway, PilotFits, TaskFits, StrayFree, Settled

(* An unused pilot is abandoned, by a process or from the command line.    *)
LEMMA AbandonDoes ==
    ASSUME IInv, NEW w, NEW p \in Pilots, Abandon(p, Look(p)) \/ (\E x : Abandon(p, x)),
           \A v \in Procs \ {w} : at'[v] = at[v], UNCHANGED taskVars, w \in Procs => ProcFits(w)'
    PROVE  JournalType' /\ WorldType' /\ TaskType' /\ ProcsFit' /\ TasksFit' /\ PilotsFit'
<1>1. /\ status[p] = "prepared" /\ journalLock = None /\ Consume(p, "abandoned")
      /\ UNCHANGED <<mode, expired, phases, reclamation, inventory, world, locks>>
  BY DEF Abandon, Fence
<1>2. /\ revision[p] = 0 /\ reclamation[p] = "none" /\ StrayFree(p) /\ OthersAway(w, p)
  BY <1>1, UnusedIsFree
<1>3. /\ JournalType' /\ status'[p] = "abandoned"
      /\ \A q \in Pilots \ {p} : status'[q] = status[q] /\ revision'[q] = revision[q]
  BY <1>1, <1>2, RowType, PilotAssumption DEF Settled
<1>4. WorldType' /\ TaskType'
  BY <1>1, StayTyped
<1>5. PilotFits(p) /\ PilotFits(p)'
  BY <1>1, <1>2, <1>3 DEF IInv, PilotsFit, PilotFits, StrayFree, Unresolved, Settled, world
<1>6. \A q \in Pilots \ {p} : SameRow(q)
  BY <1>1, <1>3 DEF SameRow, world
<1> QED BY <1>1, <1>2, <1>3, <1>4, <1>5, <1>6, RowStep DEF taskVars, Settled

LEMMA AbandonPilotKeeps == ASSUME IInv, NEW p \in Pilots, AbandonPilot(p) PROVE IInv'
<1>1. Abandon(p, Look(p)) /\ UNCHANGED <<at, faults, taskVars, locks>>
  BY DEF AbandonPilot, Abandon
<1>2. JournalType' /\ WorldType' /\ TaskType' /\ ProcsFit' /\ TasksFit' /\ PilotsFit'
  BY <1>1, AbandonDoes, PilotAssumption
<1>3. CallType' /\ LocksFit' /\ OneCreator'
  BY <1>1 DEF IInv, CallType, LocksFit, OneCreator, locks, taskVars
<1> QED BY <1>2, <1>3 DEF IInv

LEMMA AbandonUnusedKeeps == ASSUME IInv, NEW w \in Procs, AbandonUnused(w) PROVE IInv'
<1>1. /\ at[w].call = "recover" /\ at[w].step = "inspected" /\ UNCHANGED <<faults, taskVars>>
      /\ at[w].seen.status = "prepared"
  BY DEF AbandonUnused, Holds
<1>2. CASE Goto(w, "rejected") /\ UNCHANGED <<mode, journal, world, locks>>
  <2>1. JournalType' /\ WorldType' /\ UNCHANGED <<facts, stale, taskLock>>
    BY <1>1, <1>2, StayTyped DEF facts, journal, world, taskVars
  <2>2. /\ Kept(workLock, workLock', w, "rejected" \in Working)
        /\ Kept(journalLock, journalLock', w, "rejected" \in {"judged", "removing"})
    BY <1>1, <1>2, LocksHere DEF Kept, locks, Working, Running
  <2> QED BY <1>1, <1>2, <2>1, <2>2, StayTyped, GotoKeeps DEF StepNames, StepsOf, Running, locks
<1>3. CASE Abandon(at[w].on, at[w].seen) /\ Goto(w, "resolved")
  <2>1. PICK p \in Pilots : p = at[w].on
    BY <1>1, Here
  <2>2. Moved(w, "recover", p, "resolved", at[w].seen) /\ Moved(w, at[w].call, at[w].on, "resolved", at[w].seen)
    BY <1>1, <1>3, <2>1, GotoMoves DEF IInv, StepNames
  <2>3. \E x : Abandon(p, x)
    BY <1>3, <2>1
  <2>4. status'[p] = "abandoned" /\ UNCHANGED locks
    BY <1>3, <2>1 DEF Abandon, Consume, IInv, JournalType
  <2>5. ProcFits(w)'
    BY <1>1, <2>1, <2>2, <2>4, Here
    DEF ProcFits, CallFits, CreateFits, HolderFits, RunFits, StepFits, StrayFree, Moved, StepsOf,
        Running, Settled, taskVars
  <2>6. JournalType' /\ WorldType' /\ TaskType' /\ ProcsFit' /\ TasksFit' /\ PilotsFit'
    BY <1>1, <2>2, <2>3, <2>5, AbandonDoes DEF Moved
  <2>7. LocksFit'
    BY <1>1, <2>2, <2>4, SameLocks DEF Working, Running, taskVars
  <2>8. CallType' /\ OneCreator'
    BY <1>1, <2>2, <2>4 DEF IInv, CallType, OneCreator, Moved, locks, taskVars
  <2> QED BY <2>6, <2>7, <2>8 DEF IInv
<1> QED BY <1>2, <1>3 DEF AbandonUnused

(* The steps of a run: who makes one holds the worker's lock. *)
LEMMA RunnerAlone ==
    ASSUME IInv, NEW w \in Procs, at[w].step \in {"judged", "removing"} \cup Running
    PROVE  /\ workLock = w /\ at[w].on \in Pilots
           /\ \A p : OthersAway(w, p)
           /\ at[w].step \notin {"removing"} => at[w].call \in {"advance", "run"}
           /\ at[w].step = "removing" => at[w].call \in {"recover", "reconcile"}
<1>1. workLock = w /\ \A v \in Procs \ {w} : at[v].step \notin {"judged", "removing"} \cup Running
  BY LocksHere DEF Working
<1>2. at[w].on \in Pilots /\ at[w].call \in DOMAIN StepsOf /\ at[w].step \in StepsOf[at[w].call]
  BY Here DEF Running
<1>3. at[w].step # "removing" => at[w].call \in {"advance", "run"}
  BY <1>2 DEF StepsOf, Running
<1>4. at[w].step = "removing" => at[w].call \in {"recover", "reconcile"}
  BY <1>2 DEF StepsOf, Running
<1> QED BY <1>1, <1>2, <1>3, <1>4 DEF OthersAway

(* A step of a run writes the rows of its pilot. *)
LEMMA RunStep ==
    ASSUME IInv, NEW w \in Procs, NEW p \in Pilots, p = at[w].on, NEW s \in StepNames, Goto(w, s),
           at[w].step \in {"judged"} \cup Running, s \in Running,
           \A q \in Pilots \ {p} : SameRow(q), UNCHANGED taskVars,
           JournalType', WorldType', workLock' = workLock, faults' = faults,
           journalLock' = IF at[w].step = "judged" THEN None ELSE journalLock,
           status'[p] = "reserved", revision'[p] = 1, op[p] = "started",
           \A f \in Phases : container'[p][f] \in {"starting", "running"} => phases'[p][f] = "dispatched",
           reclamation[p] = "none", reclamation'[p] = "none"
    PROVE  IInv'
<1>1. Moved(w, at[w].call, p, s, at[w].seen) /\ at[w].call \in {"advance", "run"} /\ workLock = w
  BY GotoMoves, RunnerAlone DEF IInv, Running
<1>2. OthersAway(w, p) /\ status[p] \in {"prepared", "reserved"} /\ HolderFits(w) /\ at[w].step # "approved"
  BY RunnerAlone, Here DEF RunFits, StepFits, Running
<1>3. ProcFits(w)'
  <2>1. at[w].seen.status \notin Settled
    BY <1>2, Here DEF RunFits, StepFits, Settled, Running
  <2> QED BY <1>1, <1>2, <2>1
      DEF ProcFits, CallFits, CreateFits, HolderFits, RunFits, StepFits, StrayFree, Moved, StepsOf,
          Running, Settled, taskVars
<1>4. PilotFits(p)'
  BY DEF PilotFits, StrayFree
<1>5. ProcsFit' /\ TasksFit' /\ PilotsFit'
  BY <1>1, <1>2, <1>3, <1>4, RowStep DEF Moved, taskVars, Settled
<1>6. LocksFit'
  <2>1. /\ Kept(workLock, workLock', w, s \in Working)
        /\ Kept(journalLock, journalLock', w, s \in {"judged", "removing"})
    BY <1>1, LocksHere DEF Kept, Working, Running
  <2>2. \A t \in Tasks : Kept(taskLock[t], taskLock'[t], w, at[w].call \in {"advance", "recover"} /\ p = t)
    BY LocksHere DEF Kept, taskVars
  <2> QED BY <1>1, <2>1, <2>2, LocksStep DEF IInv
<1>7. CallType' /\ OneCreator' /\ TaskType'
  BY <1>1, StayTyped DEF IInv, CallType, OneCreator, Moved, taskVars
<1> QED BY <1>5, <1>6, <1>7 DEF IInv

LEMMA ReserveKeeps == ASSUME IInv, NEW w \in Procs, Reserve(w), UNCHANGED taskVars PROVE IInv'
<1>1. PICK p \in Pilots : p = at[w].on
  BY RunnerAlone DEF Reserve
<1>2. /\ at[w].step = "judged" /\ Consume(p, "reserved") /\ journalLock' = None /\ Goto(w, "making")
      /\ phases' = IF Docker THEN [phases EXCEPT ![p] = [f \in Phases |-> "planned"]] ELSE phases
      /\ UNCHANGED <<mode, expired, reclamation, inventory, world, workLock, faults>>
  BY <1>1 DEF Reserve
<1>3. status[p] = "prepared" /\ op[p] = "started" /\ PilotFits(p)
  BY <1>1, <1>2, Here DEF RunFits, StepFits, IInv, PilotsFit
<1>4. /\ revision[p] = 0 /\ reclamation[p] = "none" /\ \A f \in Phases : container[p][f] = "none"
  BY <1>3 DEF PilotFits, Settled
<1>5. /\ phases' \in [Pilots -> [Phases -> {"none", "planned", "dispatched", "observed"}]]
      /\ \A q \in Pilots \ {p} : phases'[q] = phases[q]
  BY <1>2 DEF IInv, JournalType
<1>6. /\ revision' \in [Pilots -> 0..RevisionCap] /\ revision'[p] = 1
      /\ \A q \in Pilots \ {p} : revision'[q] = revision[q]
  BY <1>2, <1>4, PilotAssumption DEF IInv, JournalType, Consume
<1>7. JournalType' /\ status'[p] = "reserved" /\ \A q \in Pilots \ {p} : SameRow(q)
  BY <1>2, <1>5, <1>6 DEF IInv, JournalType, Consume, SameRow, world
<1>8. WorldType' /\ UNCHANGED <<container, reclamation>>
  BY <1>2, StayTyped DEF world
<1> QED BY <1>1, <1>2, <1>3, <1>4, <1>6, <1>7, <1>8, RunStep DEF StepNames, Running

(* What a run has, while it is under way. *)
LEMMA RunHas ==
    ASSUME IInv, NEW w \in Procs, at[w].step \in Running, NEW p \in Pilots, p = at[w].on
    PROVE  /\ status[p] = "reserved" /\ revision[p] = 1 /\ op[p] = "started" /\ reclamation[p] = "none"
           /\ \A f \in Phases : container[p][f] \in {"starting", "running"} => phases[p][f] = "dispatched"
           /\ phases \in [Pilots -> [Phases -> {"none", "planned", "dispatched", "observed"}]]
           /\ container \in [Pilots -> [Phases -> {"none", "starting", "running", "exited"}]]
<1>1. status[p] = "reserved" /\ revision[p] = 1 /\ StrayFree(p)
  BY Here DEF RunFits, StepFits, Running
<1>2. TaskFits(p) /\ PilotFits(p)
  BY DEF IInv, TasksFit, PilotsFit, Tasks
<1> QED BY <1>1, <1>2 DEF TaskFits, PilotFits, StrayFree, Settled, IInv, JournalType, WorldType

LEMMA DispatchKeeps ==
    ASSUME IInv, NEW w \in Procs, NEW f \in Phases, Dispatch(w, f), UNCHANGED taskVars
    PROVE  IInv'
<1>1. PICK p \in Pilots : p = at[w].on /\ at[w].step \in Running
  BY RunnerAlone DEF Dispatch, Phases, Running
<1>2. /\ phases' = [phases EXCEPT ![p][f] = "dispatched"] /\ container' = [container EXCEPT ![p][f] = "starting"]
      /\ Goto(w, "waiting")
      /\ UNCHANGED <<mode, status, revision, expired, reclamation, inventory, files, locks, faults>>
  BY <1>1 DEF Dispatch
<1>3. at[w].step # "judged"
  BY <1>1 DEF Running
<1>4. /\ JournalType' /\ WorldType' /\ \A q \in Pilots \ {p} : SameRow(q)
      /\ \A g \in Phases : container'[p][g] \in {"starting", "running"} => phases'[p][g] = "dispatched"
  BY <1>1, <1>2, RunHas DEF IInv, JournalType, WorldType, SameRow
<1> QED BY <1>1, <1>2, <1>3, <1>4, RunHas, RunStep DEF StepNames, Running, locks

LEMMA ObserveKeeps ==
    ASSUME IInv, NEW w \in Procs, NEW f \in Phases, Observe(w, f), UNCHANGED taskVars
    PROVE  IInv'
<1>1. PICK p \in Pilots : p = at[w].on /\ at[w].step \in Running
  BY RunnerAlone DEF Observe, Waits, Running
<1>2. PICK s \in {"test", "checking"} :
      /\ phases' = [phases EXCEPT ![p][f] = "observed"] /\ container' = [container EXCEPT ![p][f] = "none"]
      /\ Goto(w, s)
      /\ UNCHANGED <<mode, status, revision, expired, reclamation, inventory, files, locks, faults>>
  BY <1>1 DEF Observe
<1>3. at[w].step # "judged"
  BY <1>1 DEF Running
<1>4. /\ JournalType' /\ WorldType' /\ \A q \in Pilots \ {p} : SameRow(q)
      /\ \A g \in Phases : container'[p][g] \in {"starting", "running"} => phases'[p][g] = "dispatched"
  BY <1>1, <1>2, RunHas DEF IInv, JournalType, WorldType, SameRow
<1> QED BY <1>1, <1>2, <1>3, <1>4, RunHas, RunStep DEF StepNames, Running, locks

(* A run or a cleanup returns, and leaves the rows of its pilot. *)
LEMMA ReturnStep ==
    ASSUME IInv, NEW w \in Procs, NEW p \in Pilots, p = at[w].on,
           NEW s \in {"returned", "rejected", "resolved"}, Return(w, s), Release(w),
           at[w].step \in {"removing"} \cup Running,
           s = "returned" => at[w].step \in Running, s = "resolved" => at[w].step = "removing",
           s # "rejected" => status'[p] \in Settled,
           status'[p] # "absent", reclamation' = reclamation,
           \A q \in Pilots \ {p} : SameRow(q), UNCHANGED taskVars,
           JournalType', WorldType', faults' \in 0..MaxFaults, PilotFits(p)'
    PROVE  IInv'
<1>1. /\ OthersAway(w, p) /\ at[w].call \in {"advance", "run", "recover", "reconcile"}
      /\ at[w].step \in Running => at[w].call \in {"advance", "run"}
      /\ at[w].step = "removing" => at[w].call \in {"recover", "reconcile"}
  BY RunnerAlone DEF Running
<1>2. status[p] = "reserved" /\ HolderFits(w) /\ RunFits(w) /\ at[w].seen.status \notin Settled
  BY Here DEF RunFits, StepFits, Settled, Running
<1>3. op[p] = "started"
  BY <1>2 DEF IInv, TasksFit, TaskFits, Tasks
<1>4. s \in StepNames /\ s \notin Working /\ s \notin {"judged", "removing"} \cup Running /\ at[w].step # "approved"
  BY DEF StepNames, Working, Running
<1>5. \/ /\ at[w].call \in CommandLine /\ at'[w] = Idle /\ Moved(w, "none", None, "idle", Unseen)
      \/ at[w].call \in {"advance", "recover"} /\ Moved(w, at[w].call, p, s, at[w].seen)
  BY <1>1, <1>4, ReturnMoves DEF IInv, CommandLine
<1>6. ProcFits(w)'
  <2>1. CASE at'[w] = Idle
    BY <2>1 DEF ProcFits, CallFits, CreateFits, HolderFits, RunFits, StepFits, StrayFree, Idle, Unseen, Running, Settled
  <2>2. CASE at[w].call \in {"advance", "recover"} /\ Moved(w, at[w].call, p, s, at[w].seen)
    BY <1>1, <1>2, <1>4, <2>2
    DEF ProcFits, CallFits, CreateFits, HolderFits, RunFits, StepFits, StrayFree, Moved, StepsOf, Running, taskVars
  <2> QED BY <1>5, <2>1, <2>2
<1>7. ProcsFit' /\ TasksFit' /\ PilotsFit'
  BY <1>1, <1>2, <1>3, <1>5, <1>6, RowStep DEF Moved, taskVars, Settled
<1>8. LocksFit' /\ workLock' \in Procs \cup {None} /\ journalLock' \in Procs \cup {None}
  <2>1. CASE at[w].call \in CommandLine /\ Moved(w, "none", None, "idle", Unseen)
    <3>1. \A t \in Tasks : Kept(taskLock[t], taskLock'[t], w, "none" \in {"advance", "recover"} /\ None = t)
      BY <2>1, LocksHere DEF Kept, taskVars, CommandLine
    <3>2. "idle" \notin Working /\ "idle" \notin {"judged", "removing"}
      BY DEF Working, Running
    <3> QED BY <2>1, <3>1, <3>2, ReleaseLocks
  <2>2. CASE at[w].call \in {"advance", "recover"} /\ Moved(w, at[w].call, p, s, at[w].seen)
    <3>1. \A t \in Tasks : Kept(taskLock[t], taskLock'[t], w, at[w].call \in {"advance", "recover"} /\ p = t)
      BY LocksHere DEF Kept, taskVars
    <3> QED BY <1>4, <2>2, <3>1, ReleaseLocks
  <2> QED BY <1>5, <2>1, <2>2
<1>9. CallType' /\ OneCreator' /\ TaskType'
  BY <1>1, <1>5, <1>8, StayTyped DEF IInv, CallType, OneCreator, Moved, taskVars
<1> QED BY <1>7, <1>8, <1>9 DEF IInv

LEMMA ObserveFailureKeeps ==
    ASSUME IInv, NEW w \in Procs, NEW f \in Phases, ObserveFailure(w, f), UNCHANGED taskVars
    PROVE  IInv'
<1>1. PICK p \in Pilots : p = at[w].on /\ at[w].step \in Running
  BY RunnerAlone DEF ObserveFailure, Waits, Running
<1>2. /\ Return(w, "rejected") /\ Release(w)
      /\ UNCHANGED <<mode, status, revision, expired, reclamation, inventory, files>>
      /\ \/ UNCHANGED <<phases, container>>
         \/ \E left \in {"none", "running"} :
               /\ phases' = [phases EXCEPT ![p][f] = "observed"]
               /\ container' = [container EXCEPT ![p][f] = left]
  BY <1>1 DEF ObserveFailure
<1>3. /\ JournalType' /\ WorldType' /\ \A q \in Pilots \ {p} : SameRow(q)
      /\ \A g \in Phases : container'[p][g] = "starting" => phases'[p][g] = "dispatched"
  <2>1. CASE UNCHANGED <<phases, container>>
    BY <1>1, <1>2, <2>1, RunHas DEF IInv, JournalType, WorldType, SameRow
  <2>2. CASE \E left \in {"none", "running"} :
               /\ phases' = [phases EXCEPT ![p][f] = "observed"]
               /\ container' = [container EXCEPT ![p][f] = left]
    BY <1>1, <1>2, <2>2, RunHas DEF IInv, JournalType, WorldType, SameRow
  <2> QED BY <1>2, <2>1, <2>2
<1>4. status'[p] = "reserved" /\ reclamation'[p] = "none"
  BY <1>1, <1>2, RunHas
<1>5. PilotFits(p)'
  BY <1>3, <1>4 DEF PilotFits
<1>6. faults' \in 0..MaxFaults
  BY FaultCounts DEF ObserveFailure
<1> QED BY <1>1, <1>2, <1>3, <1>4, <1>5, <1>6, ReturnStep DEF Running

LEMMA ConcludeKeeps == ASSUME IInv, NEW w \in Procs, Conclude(w), UNCHANGED taskVars PROVE IInv'
<1>1. PICK p \in Pilots : p = at[w].on /\ at[w].step \in Running
  BY RunnerAlone DEF Conclude, Running
<1>2. PICK to \in {"passed", "failed"} : Consume(p, to)
  BY <1>1, RunHas DEF Conclude
<1>3. /\ Return(w, "returned") /\ Release(w)
      /\ UNCHANGED <<mode, expired, phases, reclamation, inventory, world, faults>>
  BY DEF Conclude
<1>4. /\ JournalType' /\ status'[p] = to
      /\ \A q \in Pilots \ {p} : status'[q] = status[q] /\ revision'[q] = revision[q]
  BY <1>1, <1>2, <1>3, RunHas, RowType, PilotAssumption DEF Settled
<1>5. WorldType' /\ \A q \in Pilots \ {p} : SameRow(q)
  BY <1>3, <1>4, StayTyped DEF SameRow, world
<1>6. PilotFits(p)'
  BY <1>1, <1>3, <1>4, RunHas DEF PilotFits, StrayFree, world
<1>7. status'[p] \in Settled /\ status'[p] # "absent" /\ reclamation' = reclamation /\ faults' \in 0..MaxFaults
  BY <1>3, <1>4, StayTyped DEF Settled
<1> QED BY <1>1, <1>3, <1>4, <1>5, <1>6, <1>7, ReturnStep DEF Running

(* Docker creates a container, or one exits, whoever waits for it. *)
LEMMA DaemonKeeps ==
    ASSUME IInv, NEW p \in Pilots, NEW f \in Phases, Daemon(p, f)
    PROVE  IInv'
<1>1. /\ UNCHANGED <<mode, journal, locks, at, faults, taskVars>>
      /\ container[p][f] \in {"starting", "running"}
      /\ \E to \in {"running", "exited"} :
            /\ container' = [container EXCEPT ![p][f] = to]
            /\ to = "running" => container[p][f] = "starting"
  BY DEF Daemon, Create, Exit
<1>2. WorldType'
  BY <1>1 DEF Daemon, Create, Exit, IInv, WorldType
<1>3. /\ \A q \in Pilots \ {p} : container'[q] = container[q]
      /\ \A g \in Phases : container'[p][g] \in {container[p][g], "running", "exited"}
      /\ \A g \in Phases : container'[p][g] = "running" => container[p][g] \in {"starting", "running"}
      /\ container[p][f] # "none"
  BY <1>1 DEF IInv, WorldType
<1>4. PilotFits(p)
  BY DEF IInv, PilotsFit
<1>5. UNCHANGED <<status, revision, phases, reclamation, state, op>>
  BY <1>1 DEF journal, taskVars
<1>6. StrayFree(p) => StrayFree(p)'
  BY <1>3, <1>4, <1>5 DEF PilotFits, StrayFree
<1>7. \A q \in Pilots : StrayFree(q) => StrayFree(q)'
  BY <1>3, <1>5, <1>6 DEF StrayFree
<1>8. ProcsFit'
  <2> SUFFICES ASSUME NEW v \in Procs PROVE ProcFits(v)'
    BY DEF ProcsFit
  <2>1. ProcFits(v) /\ at' = at
    BY <1>1 DEF IInv, ProcsFit
  <2>2. at[v].step \in Running => at[v].on \in Pilots
    BY <2>1 DEF ProcFits, CallFits, Idle, Running
  <2>3. at[v].step \in Running => StrayFree(at[v].on)'
    BY <1>7, <2>1, <2>2 DEF ProcFits, RunFits
  <2> QED BY <1>5, <2>1, <2>3 DEF ProcFits, CallFits, CreateFits, HolderFits, RunFits, StepFits, StrayFree
<1>9. PilotsFit'
  <2>1. ASSUME NEW q \in Pilots, q # p PROVE PilotFits(q)'
    BY <1>3, <1>5, <2>1 DEF IInv, PilotsFit, PilotFits, StrayFree, Unresolved
  <2>2. PilotFits(p)'
    <3>1. status[p] \notin {"absent", "prepared"}
      BY <1>3, <1>4 DEF PilotFits
    <3>2. \A g \in Phases : container'[p][g] = "starting" => phases[p][g] = "dispatched"
      BY <1>3, <1>4 DEF PilotFits
    <3> QED BY <1>4, <1>5, <1>6, <3>1, <3>2 DEF PilotFits, Unresolved
  <2> QED BY <2>1, <2>2 DEF PilotsFit
<1>10. TasksFit' /\ JournalType' /\ TaskType'
  BY <1>1, <1>5, StayTyped DEF IInv, TasksFit, TaskFits
<1>11. CallType' /\ LocksFit' /\ OneCreator'
  BY <1>1 DEF IInv, CallType, LocksFit, OneCreator, locks, taskVars
<1> QED BY <1>2, <1>8, <1>9, <1>10, <1>11 DEF IInv

(* What exists is removed, and the run is interrupted; or it stays reserved. *)
LEMMA CleanupKeeps == ASSUME IInv, NEW w \in Procs, Cleanup(w), UNCHANGED taskVars PROVE IInv'
<1>1. PICK p \in Pilots : p = at[w].on /\ at[w].step = "removing"
  BY RunnerAlone DEF Cleanup
<1>2. /\ status[p] = "reserved" /\ revision[p] < RevisionCap /\ PilotFits(p) /\ reclamation[p] = "none"
  BY <1>1, Here DEF RunFits, StepFits, IInv, PilotsFit, PilotFits, Settled
<1>3. Release(w) /\ UNCHANGED <<mode, expired, phases, reclamation, inventory, files>>
  BY DEF Cleanup
<1>4. faults' \in 0..MaxFaults
  BY FaultCounts DEF Cleanup
<1>5. CASE /\ Consume(p, "interrupted") /\ Return(w, "resolved")
           /\ container' = [container EXCEPT ![p] = [f \in Phases |-> Removed(container[p][f])]]
  <2>1. /\ JournalType' /\ status'[p] = "interrupted"
        /\ \A q \in Pilots \ {p} : status'[q] = status[q] /\ revision'[q] = revision[q]
    BY <1>2, <1>3, <1>5, RowType DEF Settled
  <2>2. /\ WorldType' /\ \A q \in Pilots \ {p} : container'[q] = container[q]
        /\ \A f \in Phases : container'[p][f] \in {"none", "starting"}
        /\ \A f \in Phases : container'[p][f] = "starting" => container[p][f] = "starting"
    BY <1>3, <1>5 DEF IInv, WorldType, Removed
  <2>3. \A q \in Pilots \ {p} : SameRow(q)
    BY <1>3, <2>1, <2>2 DEF SameRow
  <2>4. PilotFits(p)'
    BY <1>2, <1>3, <2>1, <2>2 DEF PilotFits, StrayFree
  <2> QED BY <1>1, <1>3, <1>4, <1>5, <2>1, <2>2, <2>3, <2>4, ReturnStep DEF Settled
<1>6. CASE Consume(p, "reserved") /\ Return(w, "rejected") /\ UNCHANGED container
  <2>1. /\ JournalType' /\ status'[p] = "reserved"
        /\ \A q \in Pilots \ {p} : status'[q] = status[q] /\ revision'[q] = revision[q]
    BY <1>2, <1>3, <1>6, RowType
  <2>2. WorldType' /\ \A q \in Pilots \ {p} : SameRow(q)
    BY <1>3, <1>6, <2>1, StayTyped DEF SameRow, world
  <2>3. PilotFits(p)'
    BY <1>2, <1>3, <1>6, <2>1 DEF PilotFits
  <2> QED BY <1>1, <1>3, <1>4, <1>6, <2>1, <2>2, <2>3, ReturnStep
<1> QED BY <1>1, <1>5, <1>6 DEF Cleanup

(* A reclamation begins with its intent, and ends when nothing is left. *)
LEMMA BeginReclaimKeeps == ASSUME IInv, NEW w \in Procs, NEW p \in Pilots, Reclaim(w, p) PROVE IInv'
<1>1. /\ at[w] = Idle /\ workLock = None /\ workLock' = w /\ state[p] \in Terminal
      /\ status[p] \in Settled \cup {"prepared"} /\ ~Unresolved(p)
      /\ Begin(w, "reclaim", p, "deleting", Unseen)
      /\ UNCHANGED <<mode, expired, phases, world, journalLock, faults, taskVars>>
      /\ IF status[p] = "prepared" THEN Consume(p, "abandoned") ELSE UNCHANGED <<status, revision>>
      /\ \/ /\ reclamation' = [reclamation EXCEPT ![p] = "reclaiming"]
            /\ inventory' = [inventory EXCEPT ![p] = files[p]]
         \/ reclamation[p] # "none" /\ UNCHANGED <<reclamation, inventory>>
  BY DEF Reclaim, BeginReclaim, Eligible
<1>2. PilotFits(p) /\ ProcFits(w)
  BY DEF IInv, PilotsFit, ProcsFit
<1>3. /\ status' \in [Pilots -> {"absent", "prepared", "reserved"} \cup Settled]
      /\ revision' \in [Pilots -> 0..RevisionCap]
      /\ status'[p] \in Settled /\ (status[p] \in Settled => status'[p] = status[p])
      /\ \A q \in Pilots \ {p} : status'[q] = status[q] /\ revision'[q] = revision[q]
  <2>1. CASE status[p] = "prepared"
    <3>1. revision[p] = 0 /\ RevisionCap \in Nat /\ RevisionCap >= 2
      BY <1>2, <2>1, PilotAssumption DEF PilotFits
    <3>2. Consume(p, "abandoned") /\ "prepared" \notin Settled /\ "abandoned" \in Settled
      BY <1>1, <2>1 DEF Settled
    <3> QED BY <2>1, <3>1, <3>2 DEF IInv, JournalType, Consume
  <2>2. CASE status[p] # "prepared"
    BY <1>1, <2>2 DEF IInv, JournalType
  <2> QED BY <2>1, <2>2
<1>4. /\ JournalType' /\ reclamation'[p] # "none"
      /\ \A q \in Pilots \ {p} : reclamation'[q] = reclamation[q]
  <2>1. /\ reclamation' \in [Pilots -> {"none", "reclaiming", "reclaimed"}]
        /\ inventory' \in [Pilots -> {"none", "empty", "edited", "bare"}]
        /\ reclamation'[p] # "none"
        /\ \A q \in Pilots \ {p} : reclamation'[q] = reclamation[q]
    BY <1>1 DEF IInv, JournalType, WorldType
  <2> QED BY <1>1, <1>3, <2>1 DEF IInv, JournalType
<1>5. Moved(w, "reclaim", p, "deleting", Unseen)
  BY <1>1, BeginMoves, PilotAssumption DEF IInv, CallNames, StepNames, CommandLine, Unseen
<1>6. OthersAway(w, p)
  BY <1>1, LocksHere DEF OthersAway, Working
<1>7. ProcFits(w)'
  BY <1>4, <1>5 DEF ProcFits, CallFits, CreateFits, HolderFits, RunFits, StepFits, Moved, StepsOf, Unseen, Running, Settled
<1>8. PilotFits(p)'
  BY <1>1, <1>2, <1>3 DEF PilotFits, StrayFree, Unresolved, Settled, world, taskVars
<1>9. \A q \in Pilots \ {p} : SameRow(q)
  BY <1>1, <1>3, <1>4 DEF SameRow, world
<1>10. ProcsFit' /\ TasksFit' /\ PilotsFit'
  BY <1>1, <1>3, <1>4, <1>5, <1>6, <1>7, <1>8, <1>9, RowStep DEF Moved, taskVars, Settled
<1>11. LocksFit'
  <2>1. /\ Kept(workLock, workLock', w, "deleting" \in Working)
        /\ Kept(journalLock, journalLock', w, "deleting" \in {"judged", "removing"})
    BY <1>1, LocksHere DEF Kept, Idle, Working
  <2>2. \A t \in Tasks : Kept(taskLock[t], taskLock'[t], w, "reclaim" \in {"advance", "recover"} /\ p = t)
    BY <1>1, LocksHere DEF Kept, Idle, taskVars
  <2> QED BY <1>5, <2>1, <2>2, LocksStep DEF IInv
<1>12. CallType' /\ OneCreator' /\ TaskType' /\ WorldType'
  BY <1>1, <1>5, StayTyped DEF IInv, CallType, OneCreator, Moved, taskVars
<1> QED BY <1>4, <1>10, <1>11, <1>12 DEF IInv

LEMMA EndReclaimKeeps == ASSUME IInv, NEW w \in Procs, EndReclaim(w), UNCHANGED taskVars PROVE IInv'
<1>1. PICK p \in Pilots : p = at[w].on
  BY Here DEF EndReclaim
<1>2. /\ at[w].step = "deleting" /\ reclamation' = [reclamation EXCEPT ![p] = "reclaimed"]
      /\ at' = [at EXCEPT ![w] = Idle] /\ Release(w)
      /\ UNCHANGED <<mode, status, revision, expired, phases, inventory, world, faults, taskVars>>
  BY <1>1 DEF EndReclaim
<1>3. at[w].call = "reclaim" /\ reclamation[p] # "none" /\ PilotFits(p) /\ TaskFits(p)
  BY <1>1, <1>2, Here DEF StepsOf, Running, RunFits, IInv, PilotsFit, TasksFit, Tasks
<1>4. Moved(w, "none", None, "idle", Unseen) /\ at'[w] = Idle
  BY <1>2, IdleMoves DEF IInv
<1>5. OthersAway(w, p)
  <2>1. workLock = w
    BY <1>2, LocksHere DEF Working
  <2> QED BY <2>1, LocksHere DEF OthersAway, Working
<1>6. JournalType' /\ \A q \in Pilots \ {p} : SameRow(q)
  BY <1>2 DEF IInv, JournalType, SameRow, world
<1>7. ProcFits(w)'
  BY <1>4 DEF ProcFits, CallFits, CreateFits, HolderFits, RunFits, StepFits, Idle, Unseen, Running, Settled
<1>8. PilotFits(p)'
  BY <1>2, <1>3 DEF PilotFits, StrayFree, Unresolved, world, taskVars
<1>9. reclamation'[p] # "none" /\ status'[p] = status[p] /\ status[p] \in Settled
  BY <1>2, <1>3 DEF PilotFits, IInv, JournalType
<1>10. ProcsFit' /\ TasksFit' /\ PilotsFit'
  BY <1>2, <1>4, <1>5, <1>6, <1>7, <1>8, <1>9, RowStep DEF Moved, taskVars, Settled
<1>11. LocksFit' /\ workLock' \in Procs \cup {None} /\ journalLock' \in Procs \cup {None}
  <2>1. \A t \in Tasks : Kept(taskLock[t], taskLock'[t], w, "none" \in {"advance", "recover"} /\ None = t)
    BY <1>2, <1>3, LocksHere DEF Kept, taskVars
  <2>2. "idle" \notin Working /\ "idle" \notin {"judged", "removing"}
    BY DEF Working, Running
  <2> QED BY <1>2, <1>4, <2>1, <2>2, ReleaseLocks
<1>12. CallType' /\ OneCreator' /\ TaskType' /\ WorldType'
  BY <1>2, <1>4, <1>11, StayTyped DEF IInv, CallType, OneCreator, Moved, taskVars
<1> QED BY <1>6, <1>10, <1>11, <1>12 DEF IInv

-----------------------------------------------------------------------------
LEMMA InitKeeps == Init => IInv
<1> SUFFICES ASSUME Init PROVE IInv
  OBVIOUS
<1>1. JournalType /\ WorldType /\ TaskType
  BY PilotAssumption DEF Init, PilotInit, JournalType, WorldType, TaskType
<1>2. CallType
  <2>1. Idle \in CallRecords
    BY PilotAssumption DEF Idle, Unseen, CallRecords, CallNames, StepNames
  <2> QED BY <2>1, PilotAssumption DEF Init, PilotInit, CallType
<1>3. \A w \in Procs : at[w] = Idle
  BY DEF Init, PilotInit
<1> DEFINE nothing == [f \in Phases |-> "none"]
<1>0. /\ status = [p \in Pilots |-> "absent"] /\ revision = [p \in Pilots |-> 0]
      /\ reclamation = [p \in Pilots |-> "none"]
      /\ container = [p \in Pilots |-> nothing] /\ \A f \in Phases : nothing[f] = "none"
      /\ state = [t \in Pilots |-> "NONE"] /\ op = [t \in Pilots |-> "none"]
  BY DEF Init, PilotInit, Tasks
<1> HIDE DEF nothing
<1>4. ProcsFit
  BY <1>3 DEF ProcsFit, ProcFits, CallFits, CreateFits, HolderFits, RunFits, StepFits, Idle, Unseen, Running, Settled
<1>5. LocksFit
  BY <1>3, PilotAssumption DEF Init, PilotInit, LocksFit, Idle, Working, Running, Tasks
<1>6. OneCreator
  BY <1>3 DEF OneCreator, Idle
<1>7. TasksFit
  <2>1. \A t \in Tasks : state[t] = "NONE" /\ op[t] = "none" /\ status[t] = "absent"
    BY <1>0 DEF Tasks
  <2> QED BY <2>1 DEF TasksFit, TaskFits
<1>8. PilotsFit
  <2>1. \A p \in Pilots : /\ status[p] = "absent" /\ revision[p] = 0 /\ reclamation[p] = "none"
                         /\ \A f \in Phases : container[p][f] = "none"
    BY <1>0
  <2>2. "none" # "starting" /\ "none" # "running"
    OBVIOUS
  <2> QED BY <2>1, <2>2 DEF PilotsFit, PilotFits, StrayFree
<1> QED BY <1>1, <1>2, <1>4, <1>5, <1>6, <1>7, <1>8 DEF IInv

LEMMA PilotStepKeeps ==
    ASSUME IInv, NEW w \in Procs, PilotStep(w), UNCHANGED taskVars
    PROVE  IInv'
<1>1. CASE TakeWorkLock(w) \/ FailCall(w) \/ MakeFiles(w) \/ WriteFiles(w)
  BY <1>1, TakeWorkLockKeeps, FailCallKeeps, WriteKeeps
<1>2. CASE Reserve(w)
  BY <1>2, ReserveKeeps
<1>3. CASE \E f \in Phases : Dispatch(w, f) \/ Observe(w, f) \/ ObserveFailure(w, f)
  BY <1>3, DispatchKeeps, ObserveKeeps, ObserveFailureKeeps
<1>4. CASE Conclude(w)
  BY <1>4, ConcludeKeeps
<1>5. CASE TakeForCleanup(w) \/ Cleanup(w)
  BY <1>5, TakeForCleanupKeeps, CleanupKeeps
<1>6. CASE DeleteFiles(w) \/ EndReclaim(w)
  BY <1>6, DeleteFilesKeeps, EndReclaimKeeps
<1> QED BY <1>1, <1>2, <1>3, <1>4, <1>5, <1>6 DEF PilotStep

LEMMA StepKeeps == ASSUME IInv, [Next]_vars PROVE IInv'
<1>1. CASE \E w \in Procs : Step(w)
  <2> SUFFICES ASSUME NEW w \in Procs, Step(w) PROVE IInv'
    BY <1>1
  <2>1. CASE CommitTask(w) \/ StartOperation(w)
    BY <2>1, CommitTaskKeeps, StartOperationKeeps
  <2>2. CASE JudgeRun(w)
    BY <2>2, JudgeRunKeeps
  <2>3. CASE PilotStep(w) /\ UNCHANGED taskVars
    BY <2>3, PilotStepKeeps
  <2>4. CASE FinishRun(w) \/ FailEvidence(w) \/ BlockRejected(w)
    BY <2>4, FinishRunKeeps, FailEvidenceKeeps, BlockRejectedKeeps
  <2>5. CASE AbandonUnused(w) \/ ResumeCleanup(w) \/ SettleTask(w) \/ KeepBlocked(w)
    BY <2>5, AbandonUnusedKeeps, ResumeCleanupKeeps, SettleTaskKeeps, KeepBlockedKeeps
  <2> QED BY <2>1, <2>2, <2>3, <2>4, <2>5 DEF Step
<1>2. CASE \E w \in Procs : Crash(w)
  BY <1>2, CrashKeeps
<1>3. CASE \E w \in Procs, t \in Tasks : BeginCreate(w, t) \/ TakeUp(w, t) \/ BeginRecover(w, t)
  BY <1>3, BeginCreateKeeps, TakeUpKeeps, BeginRecoverKeeps
<1>4. CASE \E w \in Procs, p \in Pilots : Call(w, p) \/ Reclaim(w, p)
  BY <1>4, CallKeeps, BeginReclaimKeeps
<1>5. CASE \E t \in Tasks : ApprovePlan(t) \/ AcceptResult(t) \/ Cancel(t) \/ BlockUncertain(t)
  BY <1>5, PersonKeeps
<1>6. CASE \E p \in Pilots : AbandonPilot(p)
  BY <1>6, AbandonPilotKeeps
<1>7. CASE \E p \in Pilots, f \in Phases : Daemon(p, f)
  BY <1>7, DaemonKeeps
<1>8. CASE \/ \E p \in Pilots : Expire(p)
           \/ \E t \in Tasks : Renew(t) \/ ExpireResult(t)
           \/ UNCHANGED vars
  BY <1>8, ClockKeeps
<1> QED BY <1>1, <1>2, <1>3, <1>4, <1>5, <1>6, <1>7, <1>8 DEF Next, Person

(* The two databases, the calls between them and Docker agree in every     *)
(* state that can be reached, for any number of tasks and processes and    *)
(* however often a call is interrupted.                                    *)
THEOREM InductiveInvariant == Spec => []IInv
BY InitKeeps, StepKeeps, PTL DEF Spec

(* Every variable stays in its type: in particular, a run's revision never *)
(* passes the cap at which it can no longer be reconciled.                 *)
THEOREM TypeCorrect == Spec => []TypeOK
<1>1. IInv => TypeOK
  BY TypeParts DEF IInv
<1> QED BY <1>1, InductiveInvariant, PTL

(* A reserved pilot belongs to an open operation of its task, a task whose *)
(* operation is over to a pilot that is settled, and a snapshot to accept  *)
(* to a run that passed: what a call read in one database before it wrote  *)
(* the other still stands when it writes.                                  *)
THEOREM PilotsAgreeWithTasks == Spec => []RunsBelongToTheirTask
<1>1. IInv => RunsBelongToTheirTask
  BY DEF IInv, TasksFit, TaskFits, RunsBelongToTheirTask
<1> QED BY <1>1, InductiveInvariant, PTL

(* Nobody is in a run of a pilot whose workspace is being deleted or was,  *)
(* and no container of it exists or is still to come: the dispatch that    *)
(* was not answered keeps a settled pilot from being reclaimed.            *)
THEOREM ReclamationIsSafe == Spec => []ReclaimedIsUntouched
<1>1. ASSUME IInv, NEW p \in Pilots, reclamation[p] # "none"
      PROVE  /\ \A f \in Phases : container[p][f] \notin {"starting", "running"}
             /\ \A w \in Procs : at[w].on = p => at[w].step \notin Running
  <2>1. status[p] \in Settled /\ ~Unresolved(p) /\ PilotFits(p) /\ status[p] # "reserved"
    BY <1>1 DEF IInv, PilotsFit, PilotFits, Settled
  <2>2. \A f \in Phases : container[p][f] \notin {"starting", "running"}
    BY <2>1 DEF PilotFits, StrayFree, Unresolved
  <2>3. \A w \in Procs : at[w].on = p => at[w].step \notin Running
    BY <1>1, <2>1 DEF IInv, ProcsFit, ProcFits, RunFits, StepFits
  <2> QED BY <2>2, <2>3
<1>2. IInv => ReclaimedIsUntouched
  BY <1>1 DEF ReclaimedIsUntouched
<1> QED BY <1>2, InductiveInvariant, PTL

(* Every step that writes the status of a row finds one that is not settled. *)
WritesOpenRow ==
    \E q \in Pilots : status[q] \notin Settled /\ \E to : status' = [status EXCEPT ![q] = to]
LEMMA OpenRows == ASSUME IInv, [Next]_vars PROVE WritesOpenRow \/ UNCHANGED status
<1>1. ASSUME NEW w \in Procs, Step(w) PROVE WritesOpenRow \/ UNCHANGED status
  <2>1. CASE CommitTask(w) \/ StartOperation(w) \/ JudgeRun(w)
    BY <2>1 DEF CommitTask, StartOperation, JudgeRun, Judge, Refuse, journal
  <2>2. CASE FinishRun(w) \/ FailEvidence(w) \/ BlockRejected(w) \/ ResumeCleanup(w) \/ SettleTask(w) \/ KeepBlocked(w)
    BY <2>2 DEF FinishRun, FailEvidence, BlockRejected, ResumeCleanup, SettleTask, KeepBlocked, journal
  <2>3. CASE AbandonUnused(w)
    <3>1. at[w].on \in Pilots
      BY <2>3, Here DEF AbandonUnused, Holds
    <3> QED BY <2>3, <3>1 DEF AbandonUnused, Abandon, Fence, Consume, WritesOpenRow, Settled, journal
  <2>4. CASE Reserve(w) \/ Conclude(w) \/ Cleanup(w)
    <3>1. /\ at[w].on \in Pilots /\ status[at[w].on] \in {"prepared", "reserved"}
      BY <2>4, RunnerAlone, Here DEF Reserve, Conclude, Cleanup, RunFits, StepFits, Running
    <3>2. UNCHANGED status \/ \E to : status' = [status EXCEPT ![at[w].on] = to]
      BY <2>4 DEF Reserve, Conclude, Cleanup, Consume
    <3> QED BY <3>1, <3>2 DEF WritesOpenRow, Settled
  <2>5. CASE TakeWorkLock(w) \/ FailCall(w) \/ MakeFiles(w) \/ WriteFiles(w) \/ TakeForCleanup(w)
    BY <2>5 DEF TakeWorkLock, FailCall, MakeFiles, WriteFiles, TakeForCleanup, Refuse, journal
  <2>6. CASE \E f \in Phases : Dispatch(w, f) \/ Observe(w, f) \/ ObserveFailure(w, f)
    BY <2>6 DEF Dispatch, Observe, ObserveFailure
  <2>7. CASE DeleteFiles(w) \/ EndReclaim(w)
    BY <2>7 DEF DeleteFiles, EndReclaim, journal
  <2> QED BY <1>1, <2>1, <2>2, <2>3, <2>4, <2>5, <2>6, <2>7 DEF Step, PilotStep
<1>2. ASSUME NEW w \in Procs, Crash(w) PROVE UNCHANGED status
  BY <1>2 DEF Crash, Die, journal
<1>3. ASSUME NEW w \in Procs, NEW t \in Tasks, BeginCreate(w, t) \/ TakeUp(w, t) \/ BeginRecover(w, t)
      PROVE  WritesOpenRow \/ UNCHANGED status
  BY <1>3 DEF BeginCreate, Prepare, TakeUp, BeginRecover, WritesOpenRow, Settled, Tasks, journal
<1>4. ASSUME NEW w \in Procs, NEW p \in Pilots, Call(w, p) \/ Reclaim(w, p)
      PROVE  WritesOpenRow \/ UNCHANGED status
  <2>1. CASE Call(w, p)
    BY <2>1 DEF Call, BeginRun, BeginReconcile, journal
  <2>2. CASE Reclaim(w, p)
    BY <2>2 DEF Reclaim, BeginReclaim, Consume, WritesOpenRow, Settled
  <2> QED BY <1>4, <2>1, <2>2
<1>5. ASSUME NEW t \in Tasks, Person(t) \/ BlockUncertain(t) PROVE UNCHANGED status
  BY <1>5 DEF Person, ApprovePlan, AcceptResult, Cancel, Renew, ExpireResult, BlockUncertain, Decide,
              pilotVars, journal
<1>6. ASSUME NEW p \in Pilots, AbandonPilot(p) \/ Expire(p) PROVE WritesOpenRow \/ UNCHANGED status
  BY <1>6 DEF AbandonPilot, Abandon, Fence, Consume, Expire, ExpireScope, WritesOpenRow, Settled
<1>7. ASSUME NEW p \in Pilots, NEW f \in Phases, Daemon(p, f) PROVE UNCHANGED status
  BY <1>7 DEF Daemon, Create, Exit, journal
<1>8. CASE UNCHANGED vars
  BY <1>8 DEF vars, pilotVars, journal
<1> QED BY <1>1, <1>2, <1>3, <1>4, <1>5, <1>6, <1>7, <1>8 DEF Next

(* What a run came to is never changed by a later call about it: whoever   *)
(* reconciles, abandons, concludes or reclaims finds the row as it judged  *)
(* it, or leaves it alone.                                                 *)
THEOREM OutcomesStand == Spec => SettledRunStands
<1>1. ASSUME IInv, [Next]_vars PROVE [\A p \in Pilots : status[p] \in Settled => status'[p] = status[p]]_vars
  <2>1. status \in [Pilots -> {"absent", "prepared", "reserved"} \cup Settled]
    BY <1>1 DEF IInv, JournalType
  <2> QED BY <1>1, <2>1, OpenRows DEF WritesOpenRow
<1>2. IInv /\ [Next]_vars => [\A p \in Pilots : status[p] \in Settled => status'[p] = status[p]]_vars
  BY <1>1
<1> QED BY <1>2, InductiveInvariant, PTL DEF Spec, SettledRunStands

=============================================================================
