--------------------------------- MODULE Pilot ---------------------------------
(***************************************************************************)
(* The repository pilot (orch/pilot.py, pilot_worker.py,                   *)
(* pilot_retention.py): a journal of prepared changes, each of which may   *)
(* be run once in a workspace of its own; the containers of a run; and     *)
(* the reclamation of workspaces.  This module has the calls a command     *)
(* line or a task makes and no next-state relation: RepositoryTask, which  *)
(* decides what a run is admitted by, composes them.                       *)
(*                                                                         *)
(* A process in a call is at a step.  It may hold the journal's worker     *)
(* lock (a file lock, never waited for) and, for some steps, the journal's *)
(* write transaction, whose effects appear when it commits.                *)
(*                                                                         *)
(* Left out: what a change consists of (one file stands for all; its       *)
(* expiry is a flag, the Git baseline and the runtime's identity are a     *)
(* check that may fail); pilots bound to no task, and the caps on pilots   *)
(* in a journal; the broker service between a run and Docker, but for an   *)
(* answer that never comes; journals after the first.                      *)
(***************************************************************************)
EXTENDS Naturals

CONSTANTS
    Pilots,       \* prepared changes, each bound to a task
    Procs,        \* processes: workers, the API, command lines
    RevisionCap,  \* where reconciling one run ends; 1000 in the code
    MaxFaults,    \* crashes, silent daemons, refusals and mistakes, for TLC
    None

ASSUME PilotAssumption ==
    /\ None \notin Procs \cup Pilots
    /\ RevisionCap \in Nat /\ RevisionCap >= 2 /\ MaxFaults \in Nat

Phases == {"edit", "test"}

VARIABLES
    mode,        \* "local-data" or "docker"
    status,      \* of each pilot's row
    revision,    \* of each pilot's row
    expired,     \* the scope's thirty minutes are over
    phases,      \* the worker journal of each pilot
    container,   \* of each pilot and phase: the docker client's and the daemon's
    files,       \* of each workspace
    reclamation, \* of each pilot: "none", "reclaiming", "reclaimed"
    inventory,   \* what a reclamation recorded it will delete
    workLock,    \* who holds .pilot-worker.lock
    journalLock, \* who has the journal's write transaction open
    at,          \* where each process is
    faults

journal == <<status, revision, expired, phases, reclamation, inventory>>
world == <<container, files>>
locks == <<workLock, journalLock>>
pilotVars == <<mode, journal, world, locks, at, faults>>

Docker == mode = "docker"
Settled == {"passed", "failed", "abandoned", "interrupted"}
Unseen == [status |-> "absent", revision |-> 0]
Idle == [call |-> "none", on |-> None, step |-> "idle", seen |-> Unseen]
CommandLine == {"run", "reconcile", "reclaim"}

PilotInit ==
    /\ mode \in {"local-data", "docker"}
    /\ status = [p \in Pilots |-> "absent"]
    /\ revision = [p \in Pilots |-> 0]
    /\ expired = [p \in Pilots |-> FALSE]
    /\ phases = [p \in Pilots |-> [f \in Phases |-> "none"]]
    /\ container = [p \in Pilots |-> [f \in Phases |-> "none"]]
    /\ files = [p \in Pilots |-> "none"]
    /\ reclamation = [p \in Pilots |-> "none"]
    /\ inventory = [p \in Pilots |-> "none"]
    /\ workLock = None /\ journalLock = None
    /\ at = [w \in Procs |-> Idle]
    /\ faults = 0

Fault == faults < MaxFaults /\ faults' = faults + 1

Begin(w, call, p, step, seen) ==
    at' = [at EXCEPT ![w] = [call |-> call, on |-> p, step |-> step, seen |-> seen]]
Goto(w, step) == at' = [at EXCEPT ![w].step = step]

(* A command line ends with its call; a task's call goes on. *)
Return(w, step) ==
    IF at[w].call \in CommandLine THEN at' = [at EXCEPT ![w] = Idle]
                                  ELSE Goto(w, step)

Release(w) ==
    /\ workLock' = IF workLock = w THEN None ELSE workLock
    /\ journalLock' = IF journalLock = w THEN None ELSE journalLock

(* Rejected, or OSError: the transaction is rolled back, the lock is let go. *)
Refuse(w) == Return(w, "rejected") /\ Release(w) /\ UNCHANGED <<mode, journal, world>>

-----------------------------------------------------------------------------
(* Preparing and abandoning: one transaction each. *)

Prepare(p) ==
    /\ status[p] = "absent"
    /\ journalLock = None
    /\ status' = [status EXCEPT ![p] = "prepared"]
    /\ UNCHANGED <<mode, revision, expired, phases, reclamation, inventory, world, locks>>

ExpireScope(p) ==
    /\ status[p] = "prepared" /\ ~expired[p]
    /\ expired' = [expired EXCEPT ![p] = TRUE]
    /\ UNCHANGED <<mode, status, revision, phases, reclamation, inventory, world, locks, at, faults>>

(* Mutant: what was looked at is not compared with the row. *)
FenceOnSeen(p, seen) == seen.status = "prepared"

(* The row is still as it was when somebody looked, and unused. *)
Fence(p, seen) ==
    status[p] = "prepared" /\ seen.status = "prepared" /\ revision[p] = seen.revision

Consume(p, to) ==
    /\ status' = [status EXCEPT ![p] = to]
    /\ revision' = [revision EXCEPT ![p] = @ + 1]

Abandon(p, seen) ==
    /\ journalLock = None
    /\ Fence(p, seen)
    /\ Consume(p, "abandoned")
    /\ UNCHANGED <<mode, expired, phases, reclamation, inventory, world, locks>>

-----------------------------------------------------------------------------
(* Pilot.run. *)

Look(p) == [status |-> status[p], revision |-> revision[p]]

TakeWorkLock(w) ==
    /\ at[w].step = "entering"
    /\ \/ /\ workLock = None
          /\ workLock' = w
          /\ Goto(w, "judging")
          /\ UNCHANGED <<mode, journal, world, journalLock, faults>>
       \/ workLock # None /\ Refuse(w) /\ UNCHANGED faults

(* BEGIN IMMEDIATE, then the fence, the kernel's admission, the expiry. *)
Judge(w, admitted) ==
    LET p == at[w].on IN
    /\ at[w].step = "judging" /\ journalLock = None
    /\ UNCHANGED faults
    /\ \/ /\ Fence(p, at[w].seen) /\ admitted /\ ~expired[p]
          /\ journalLock' = w
          /\ Goto(w, "judged")
          /\ UNCHANGED <<mode, journal, world, workLock>>
       \/ ~(Fence(p, at[w].seen) /\ admitted /\ ~expired[p]) /\ Refuse(w)

(* The source, the runtime, the baseline or the workspace is not what it   *)
(* was: in a transaction nothing has happened, a run stays reserved.       *)
FailCall(w) ==
    /\ at[w].step \in {"judged", "making", "writing", "edit", "test", "checking", "removing"}
    /\ Fault
    /\ Refuse(w)

Reserve(w) ==
    LET p == at[w].on IN
    /\ at[w].step = "judged"
    /\ Consume(p, "reserved")
    /\ phases' = IF Docker THEN [phases EXCEPT ![p] = [f \in Phases |-> "planned"]] ELSE phases
    /\ journalLock' = None
    /\ Goto(w, "making")
    /\ UNCHANGED <<mode, expired, reclamation, inventory, world, workLock, faults>>

MakeFiles(w) ==
    /\ at[w].step = "making"
    /\ files' = [files EXCEPT ![at[w].on] = "empty"]
    /\ Goto(w, IF Docker THEN "edit" ELSE "writing")
    /\ UNCHANGED <<mode, journal, container, locks, faults>>

WriteFiles(w) ==
    /\ at[w].step = "writing"
    /\ files' = [files EXCEPT ![at[w].on] = "edited"]
    /\ Goto(w, "checking")
    /\ UNCHANGED <<mode, journal, container, locks, faults>>

(* The phase is recorded as dispatched before the client starts. *)
Dispatch(w, f) ==
    LET p == at[w].on IN
    /\ at[w].step = f
    /\ phases' = [phases EXCEPT ![p][f] = "dispatched"]
    /\ container' = [container EXCEPT ![p][f] = "starting"]
    /\ Goto(w, "waiting")
    /\ UNCHANGED <<mode, status, revision, expired, reclamation, inventory, files, locks, faults>>

Waits(w, f) == at[w].step = "waiting" /\ phases[at[w].on][f] = "dispatched"

Observe(w, f) ==
    LET p == at[w].on IN
    /\ Waits(w, f)
    /\ container[p][f] = "exited"
    /\ phases' = [phases EXCEPT ![p][f] = "observed"]
    /\ container' = [container EXCEPT ![p][f] = "none"]
    /\ Goto(w, IF f = "edit" THEN "test" ELSE "checking")
    /\ UNCHANGED <<mode, status, revision, expired, reclamation, inventory, files, locks, faults>>

(* The client failed, or was killed at its deadline, and what it left was  *)
(* removed or not; or no answer came at all, and the phase stays           *)
(* dispatched.                                                             *)
ObserveFailure(w, f) ==
    LET p == at[w].on IN
    /\ Waits(w, f)
    /\ Fault
    /\ \/ /\ phases' = [phases EXCEPT ![p][f] = "observed"]
          /\ \E left \in {"none"} \cup ({container[p][f]} \cap {"running"}) :
                container' = [container EXCEPT ![p][f] = left]
       \/ UNCHANGED <<phases, container>>
    /\ Return(w, "rejected")
    /\ Release(w)
    /\ UNCHANGED <<mode, status, revision, expired, reclamation, inventory, files>>

(* The receipt, for a run that is still reserved.  What the checks say was *)
(* decided with the scope.                                                 *)
Conclude(w) ==
    LET p == at[w].on IN
    /\ at[w].step = "checking"
    /\ \E outcome \in {"passed", "failed"} :
          IF status[p] = "reserved" THEN Consume(p, outcome) ELSE UNCHANGED <<status, revision>>
    /\ Return(w, "returned")
    /\ Release(w)
    /\ UNCHANGED <<mode, expired, phases, reclamation, inventory, world, faults>>

Running == {"making", "writing", "edit", "test", "waiting", "checking"}

-----------------------------------------------------------------------------
(* Docker. *)

Create(p, f) ==
    /\ container[p][f] = "starting"
    /\ container' = [container EXCEPT ![p][f] = "running"]
    /\ UNCHANGED <<mode, journal, files, locks, at, faults>>

(* The edit worker writes a file that is there and empty; --rm removes the *)
(* container.                                                              *)
Exit(p, f) ==
    /\ container[p][f] = "running"
    /\ container' = [container EXCEPT ![p][f] = "exited"]
    /\ files' = IF f = "edit" /\ files[p] = "empty" THEN [files EXCEPT ![p] = "edited"] ELSE files
    /\ UNCHANGED <<mode, journal, locks, at, faults>>

-----------------------------------------------------------------------------
(* Pilot.reconcile: under the worker lock, in one transaction. *)

MayClean(p, seen) ==
    /\ workLock = None /\ journalLock = None
    /\ status[p] = "reserved" /\ revision[p] = seen.revision
    /\ revision[p] < RevisionCap

TakeForCleanup(w) ==
    /\ at[w].step = "cleaning"
    /\ UNCHANGED faults
    /\ \/ /\ MayClean(at[w].on, at[w].seen)
          /\ workLock' = w /\ journalLock' = w
          /\ Goto(w, "removing")
          /\ UNCHANGED <<mode, journal, world>>
       \/ ~MayClean(at[w].on, at[w].seen) /\ Refuse(w)

(* What exists is removed, and nothing is there: a container the daemon    *)
(* has not been asked for yet is not there either.  Or Docker does not     *)
(* say, and the run stays reserved with one revision more.                 *)
Removed(c) == IF c = "starting" THEN "starting" ELSE "none"

Cleanup(w) ==
    LET p == at[w].on IN
    /\ at[w].step = "removing"
    /\ \/ /\ Consume(p, "interrupted")
          /\ container' = [container EXCEPT ![p] = [f \in Phases |-> Removed(@[f])]]
          /\ Return(w, "resolved")
          /\ UNCHANGED faults
       \/ /\ Docker /\ Fault
          /\ Consume(p, "reserved")
          /\ Return(w, "rejected")
          /\ UNCHANGED container
    /\ Release(w)
    /\ UNCHANGED <<mode, expired, phases, reclamation, inventory, files>>

-----------------------------------------------------------------------------
(* pilot_retention.reclaim, for a reviewed pilot.  over(p): the task it is *)
(* bound to has ended.                                                     *)

(* Mutants: a dispatch without an answer does not matter once the run is   *)
(* settled; what remains of a reclamation has to be all it recorded.       *)
NeverUnresolved(p) == FALSE
AllThere(p) == reclamation[p] = "reclaiming" => files[p] = inventory[p]

Unresolved(p) == \E f \in Phases : phases[p][f] = "dispatched"
Unchanged(p) == reclamation[p] = "reclaiming" => files[p] \in {"none", "bare", inventory[p]}

Eligible(p, over) ==
    /\ reclamation[p] # "reclaimed"
    /\ over
    /\ status[p] \in Settled \cup {"prepared"}
    /\ ~Unresolved(p)
    /\ Unchanged(p)

(* The intent, and the abandonment of a run its task will never admit, are *)
(* committed before anything is deleted.                                   *)
BeginReclaim(w, p, over) ==
    /\ at[w] = Idle
    /\ workLock = None /\ journalLock = None
    /\ Eligible(p, over)
    /\ IF status[p] = "prepared" THEN Consume(p, "abandoned") ELSE UNCHANGED <<status, revision>>
    /\ IF reclamation[p] = "none"
          THEN /\ reclamation' = [reclamation EXCEPT ![p] = "reclaiming"]
               /\ inventory' = [inventory EXCEPT ![p] = files[p]]
          ELSE UNCHANGED <<reclamation, inventory>>
    /\ workLock' = w
    /\ Begin(w, "reclaim", p, "deleting", Unseen)
    /\ UNCHANGED <<mode, expired, phases, world, journalLock, faults>>

Deleted(f) == IF f \in {"empty", "edited"} THEN "bare" ELSE "none"

DeleteFiles(w) ==
    LET p == at[w].on IN
    /\ at[w].step = "deleting" /\ files[p] # "none"
    /\ files' = [files EXCEPT ![p] = Deleted(@)]
    /\ UNCHANGED <<mode, journal, container, locks, at, faults>>

EndReclaim(w) ==
    LET p == at[w].on IN
    /\ at[w].step = "deleting" /\ files[p] = "none"
    /\ reclamation' = [reclamation EXCEPT ![p] = "reclaimed"]
    /\ at' = [at EXCEPT ![w] = Idle]
    /\ Release(w)
    /\ UNCHANGED <<mode, status, revision, expired, phases, inventory, world, faults>>

-----------------------------------------------------------------------------
(* The command line's other calls, with what its user last saw.  To run    *)
(* what will be refused is somebody's mistake.                             *)
BeginRun(w, p, admitted) ==
    /\ at[w] = Idle
    /\ Begin(w, "run", p, "entering", [status |-> "prepared", revision |-> 0])
    /\ IF status[p] = "prepared" /\ admitted /\ ~expired[p] THEN UNCHANGED faults ELSE Fault
    /\ UNCHANGED <<mode, journal, world, locks>>

BeginReconcile(w, p) ==
    /\ at[w] = Idle
    /\ status[p] = "reserved"
    /\ Begin(w, "reconcile", p, "cleaning", Look(p))
    /\ UNCHANGED <<mode, journal, world, locks, faults>>

(* A process dies: its locks are free, its transaction is rolled back, the *)
(* docker client it started lives on.                                      *)
Die(w) ==
    /\ Fault
    /\ at[w] # Idle
    /\ at' = [at EXCEPT ![w] = Idle]
    /\ Release(w)
    /\ UNCHANGED <<mode, journal, world>>

PilotStep(w) ==
    \/ TakeWorkLock(w) \/ FailCall(w) \/ Reserve(w) \/ MakeFiles(w) \/ WriteFiles(w)
    \/ \E f \in Phases : Dispatch(w, f) \/ Observe(w, f) \/ ObserveFailure(w, f)
    \/ Conclude(w)
    \/ TakeForCleanup(w) \/ Cleanup(w)
    \/ DeleteFiles(w) \/ EndReclaim(w)

PilotTypeOK ==
    /\ mode \in {"local-data", "docker"}
    /\ status \in [Pilots -> {"absent", "prepared", "reserved"} \cup Settled]
    /\ revision \in [Pilots -> 0..RevisionCap]
    /\ expired \in [Pilots -> BOOLEAN]
    /\ phases \in [Pilots -> [Phases -> {"none", "planned", "dispatched", "observed"}]]
    /\ container \in [Pilots -> [Phases -> {"none", "starting", "running", "exited"}]]
    /\ files \in [Pilots -> {"none", "empty", "edited", "bare"}]
    /\ reclamation \in [Pilots -> {"none", "reclaiming", "reclaimed"}]
    /\ inventory \in [Pilots -> {"none", "empty", "edited", "bare"}]
    /\ workLock \in Procs \cup {None} /\ journalLock \in Procs \cup {None}
    /\ at \in [Procs -> [call : {"none", "create", "advance", "recover"} \cup CommandLine,
                         on : Pilots \cup {None},
                         step : {"idle", "binding", "approved", "entering", "judging", "judged",
                                 "returned", "rejected", "inspected", "cleaning", "removing",
                                 "resolved", "deleting"} \cup Running,
                         seen : [status : {"absent", "prepared", "reserved"} \cup Settled,
                                 revision : 0..RevisionCap]]]
    /\ faults \in 0..MaxFaults

=============================================================================
