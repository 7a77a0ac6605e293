-------------------------------- MODULE Broker --------------------------------
(***************************************************************************)
(* One operation of a task, executed by the action broker: the client in   *)
(* the orchestrator (orch/broker.py), which asks once and then, if the     *)
(* task is blocked, recovers it on an operator's request (Engine.recover); *)
(* and the broker (orch/broker_process.py, orch/broker_service.py), which  *)
(* keeps a journal and a tombstone per operation under a file lock.        *)
(*                                                                         *)
(* The broker is a subprocess of the client, started per execution, whose  *)
(* other calls the client performs itself; or a service, which handles one *)
(* request at a time, however long after its client has gone.  It runs     *)
(* Docker, where containers outlive whoever asked for them and can be      *)
(* listed and removed; or a local process, which cannot be found again.    *)
(*                                                                         *)
(* Left out: the secret, digests and schemas (every message is authentic   *)
(* and well formed), other operations (the lock and the files are this     *)
(* one's), and what is executed.                                           *)
(***************************************************************************)
EXTENDS Naturals

CONSTANT MaxFaults  \* crashes, lost replies and silent daemons, bounded for TLC

ASSUME FaultsAssumption == MaxFaults \in Nat

VARIABLES
    mode,       \* "docker" or "trusted-fixture"
    transport,  \* "service" or "subprocess"
    approved,   \* whether the approval of the task's plan still holds
    status,     \* the operation: "started", "completed", "retired"
    receipt,    \* what retired it: "none", "journal", "absence"
    blocked,    \* whether the task is BLOCKED on it
    requested,  \* whether its broker_requests row is written
    pc,         \* where the client is; "idle": no process works on the task
    calls,      \* requests sent and not yet looked at by the broker
    reply,      \* what the client's call returned, or "none"
    busy,       \* what goes on under the operation's lock
    tombstone,  \* <operation>.retired exists
    journal,    \* <operation>.json: "none", "ok", "uncertain"
    cli,        \* the launching program: "none", "starting", "attached"
    running,    \* whether the container, or the local process, exists
    launches,   \* how often it was launched
    orphaned,   \* the broker died while its launch was under way
    faults

given == <<mode, transport, approved>>
record == <<status, receipt, blocked, requested>>
network == <<calls, reply>>
files == <<tombstone, journal>>
execution == <<cli, running, launches, orphaned>>
vars == <<given, record, pc, network, busy, files, execution, faults>>

Docker == mode = "docker"
Service == transport = "service"

(* A call waits while live; a broker handles it either way. *)
Request(kind, live) == [kind |-> kind, live |-> live]
Free == [kind |-> "none", live |-> FALSE, outcome |-> "none"]
Locked == busy # Free
Kinds == {"execute", "result", "retire", "reconcile"}

Init ==
    /\ mode \in {"docker", "trusted-fixture"}
    /\ transport \in {"service", "subprocess"}
    /\ approved = TRUE
    /\ status = "started" /\ receipt = "none"
    /\ blocked = FALSE /\ requested = FALSE
    /\ pc = "start" /\ calls = {} /\ reply = "none"
    /\ busy = Free /\ tombstone = FALSE /\ journal = "none"
    /\ cli = "none" /\ running = FALSE
    /\ launches = 0 /\ orphaned = FALSE
    /\ faults = 0

Fault == faults < MaxFaults /\ faults' = faults + 1

-----------------------------------------------------------------------------
(* The client. *)

Call(kind) ==
    /\ pc' = kind
    /\ calls' = calls \cup {Request(kind, TRUE)}
    /\ reply' = "none"

Return == pc' = "idle" /\ reply' = "none" /\ UNCHANGED calls

(* BrokerClient.run: the row is durable before anything is sent. *)
Run ==
    /\ pc = "start"
    /\ requested' = TRUE
    /\ Call("execute")
    /\ UNCHANGED <<given, status, receipt, blocked, busy, files, execution, faults>>

Accept ==
    /\ pc = "execute" /\ reply # "none"
    /\ Return
    /\ \/ /\ reply = "ok"
          /\ status' = "completed"
          /\ UNCHANGED blocked
       \/ /\ reply # "ok"
          /\ blocked' = TRUE
          /\ UNCHANGED status
    /\ UNCHANGED <<given, receipt, requested, busy, files, execution, faults>>

(* The next worker finds the operation started and blocks the task, if the *)
(* plan is still approved: without that it refuses the task as it is.      *)
Resume ==
    /\ pc = "idle" /\ approved /\ status = "started" /\ ~blocked
    /\ blocked' = TRUE
    /\ UNCHANGED <<given, status, receipt, requested, pc, network, busy, files, execution, faults>>

(* The approval of the plan has a date, and only a request that waits for  *)
(* its decision can be renewed.                                            *)
Lapse ==
    /\ approved
    /\ approved' = FALSE
    /\ UNCHANGED <<mode, transport, record, pc, network, busy, files, execution, faults>>

(* Engine.recover, asking for the result first, while the plan is approved.*)
(* Without a row there is nothing to ask for.                              *)
Recover ==
    /\ pc = "idle" /\ blocked /\ approved
    /\ \/ requested /\ Call("result")
       \/ ~requested /\ Docker /\ Call("retire")
       \/ ~requested /\ ~Docker /\ UNCHANGED <<pc, network>>
    /\ UNCHANGED <<given, record, busy, files, execution, faults>>

(* Mutant: an uncertain cleanup is taken as a finished execution. *)
JudgeResultOnly ==
    /\ pc = "result" /\ reply # "none"
    /\ \/ reply \in {"ok", "uncertain"} /\ pc' = "commit" /\ UNCHANGED network
       \/ reply = "refused" /\ Docker /\ Call("retire")
       \/ reply = "refused" /\ ~Docker /\ Return
    /\ UNCHANGED <<given, record, busy, files, execution, faults>>

JudgeResult ==
    /\ pc = "result" /\ reply # "none"
    /\ \/ reply = "ok" /\ pc' = "commit" /\ UNCHANGED network
       \/ reply = "uncertain" /\ Call("reconcile")
       \/ reply = "refused" /\ Docker /\ Call("retire")
       \/ reply = "refused" /\ ~Docker /\ Return
    /\ UNCHANGED <<given, record, busy, files, execution, faults>>

JudgeAbsence ==
    /\ pc \in {"retire", "reconcile"} /\ reply # "none"
    /\ \/ /\ reply = "absent"
          /\ pc' = IF pc = "retire" THEN "commit_absence" ELSE "commit"
          /\ UNCHANGED network
       \/ reply # "absent" /\ Return
    /\ UNCHANGED <<given, record, busy, files, execution, faults>>

(* The operation is done with its generation advanced; a fresh attempt is  *)
(* another operation.                                                      *)
CommitRecovery ==
    /\ pc \in {"commit", "commit_absence"}
    /\ Return
    /\ status' = "retired"
    /\ receipt' = IF pc = "commit" THEN "journal" ELSE "absence"
    /\ blocked' = FALSE
    /\ UNCHANGED <<given, requested, busy, files, execution, faults>>

-----------------------------------------------------------------------------
(* The broker. *)

(* The answer reaches a client that still waits. *)
Answer(live, value) == reply' = IF live THEN value ELSE reply

(* perform: under the lock, neither a retired nor an executed operation is *)
(* launched.  A launch may fail at once.                                   *)
Launch(live) ==
    /\ busy' = [kind |-> "execute", live |-> live, outcome |-> "none"]
    /\ launches' = launches + 1
    /\ \/ Docker /\ cli' = "starting" /\ UNCHANGED running
       \/ ~Docker /\ cli' = "attached" /\ running' = TRUE
       \/ UNCHANGED <<cli, running>>
    /\ UNCHANGED <<orphaned, reply>>

(* Mutant: the tombstone is not looked at. *)
ExecuteAlways(live) ==
    /\ \/ journal # "none" /\ Answer(live, journal) /\ UNCHANGED <<busy, execution>>
       \/ journal = "none" /\ Launch(live)
    /\ UNCHANGED files

Execute(live) ==
    /\ \/ tombstone /\ Answer(live, "refused") /\ UNCHANGED <<busy, execution>>
       \/ ~tombstone /\ journal # "none" /\ Answer(live, journal)
          /\ UNCHANGED <<busy, execution>>
       \/ ~tombstone /\ journal = "none" /\ Launch(live)
    /\ UNCHANGED files

ReadResult(live) ==
    /\ Answer(live, IF journal = "none" THEN "refused" ELSE journal)
    /\ UNCHANGED <<busy, files, execution>>

(* Mutants: the journal is not looked at before the tombstone is written;  *)
(* an operation that was given a tombstone is not reconciled again.        *)
RetireAnyway(live) ==
    /\ tombstone' = TRUE
    /\ busy' = [kind |-> "retire", live |-> live, outcome |-> "none"]
    /\ UNCHANGED <<reply, journal, execution>>

RetireOnce(live) ==
    \/ /\ journal # "none" \/ tombstone
       /\ Answer(live, "refused")
       /\ UNCHANGED <<busy, files, execution>>
    \/ /\ journal = "none" /\ ~tombstone
       /\ tombstone' = TRUE
       /\ busy' = [kind |-> "retire", live |-> live, outcome |-> "none"]
       /\ UNCHANGED <<reply, journal, execution>>

Retire(live) ==
    \/ /\ journal # "none"
       /\ Answer(live, "refused")
       /\ UNCHANGED <<busy, files, execution>>
    \/ /\ journal = "none"
       /\ tombstone' = TRUE
       /\ busy' = [kind |-> "retire", live |-> live, outcome |-> "none"]
       /\ UNCHANGED <<reply, journal, execution>>

(* Executor.reconcile: what exists is removed, and its absence shown, or   *)
(* the daemon says nothing.  A container the daemon was not yet asked for  *)
(* is absent, too.                                                         *)
RemoveContainer ==
    /\ running' = FALSE
    /\ cli' = IF cli = "attached" THEN "none" ELSE cli
    /\ UNCHANGED <<launches, orphaned>>

Prove(live) ==
    \/ Docker /\ RemoveContainer /\ Answer(live, "absent") /\ UNCHANGED faults
    \/ Docker /\ Fault /\ Answer(live, "present") /\ UNCHANGED execution
    \/ ~Docker /\ Answer(live, "present") /\ UNCHANGED <<execution, faults>>

Reconcile(live) == Prove(live) /\ UNCHANGED <<busy, files>>

(* One request at a time in the service.  As a subprocess, whoever finds   *)
(* the lock taken is refused.  Reconcile takes no lock.                    *)
Handle(c) ==
    /\ Service => ~Locked
    /\ calls' = calls \ {c}
    /\ \/ c.kind = "execute" /\ ~Locked /\ Execute(c.live) /\ UNCHANGED faults
       \/ c.kind = "result" /\ ~Locked /\ ReadResult(c.live) /\ UNCHANGED faults
       \/ c.kind = "retire" /\ ~Locked /\ Retire(c.live) /\ UNCHANGED faults
       \/ c.kind = "reconcile" /\ Reconcile(c.live)
       \/ c.kind # "reconcile" /\ Locked /\ Answer(c.live, "refused")
          /\ UNCHANGED <<busy, files, execution, faults>>
    /\ UNCHANGED <<given, record, pc>>

ProveRetired ==
    /\ busy.kind = "retire"
    /\ Prove(busy.live)
    /\ busy' = Free
    /\ UNCHANGED <<given, record, pc, calls, files>>

(* run_direct: the program ends, or is killed at its deadline; what a      *)
(* killed docker left behind is removed first.                             *)
Executing == busy.kind = "execute" /\ busy.outcome = "none"

Finish ==
    /\ Executing /\ cli # "starting" /\ ~running
    /\ busy' = [busy EXCEPT !.outcome = "ok"]
    /\ cli' = "none"
    /\ UNCHANGED <<given, record, pc, network, files, running, launches, orphaned, faults>>

Deadline ==
    /\ Executing /\ cli # "none"
    /\ cli' = "none"
    /\ \/ /\ running' = FALSE
          /\ busy' = [busy EXCEPT !.outcome = "ok"]
          /\ UNCHANGED faults
       \/ /\ Fault
          /\ busy' = [busy EXCEPT !.outcome = "uncertain"]
          /\ UNCHANGED running
    /\ UNCHANGED <<given, record, pc, network, files, launches, orphaned>>

WriteJournal ==
    /\ busy.kind = "execute" /\ busy.outcome # "none"
    /\ journal' = busy.outcome
    /\ Answer(busy.live, busy.outcome)
    /\ busy' = Free
    /\ UNCHANGED <<given, record, pc, calls, tombstone, execution, faults>>

(* Docker, and the program in the container. *)
Create ==
    /\ cli = "starting"
    /\ cli' = "attached" /\ running' = TRUE
    /\ UNCHANGED <<given, record, pc, network, busy, files, launches, orphaned, faults>>

Exit ==
    /\ running
    /\ running' = FALSE
    /\ cli' = "none"
    /\ UNCHANGED <<given, record, pc, network, busy, files, launches, orphaned, faults>>

-----------------------------------------------------------------------------
(* What goes wrong. *)

Abandoned == {Request(c.kind, FALSE) : c \in calls}
Dead == [busy EXCEPT !.live = FALSE]
Orphan == orphaned' = (orphaned \/ cli = "starting")

(* The broker, or the subprocess, dies with the lock and what it waited    *)
(* for lives on; its client is cut off.                                    *)
BrokerCrash ==
    /\ Fault
    /\ Locked
    /\ Service \/ busy.kind = "execute"
    /\ Answer(busy.live, "refused")
    /\ busy' = Free
    /\ Orphan
    /\ UNCHANGED <<given, record, pc, calls, files, cli, running, launches>>

(* A client stops waiting.  The service never notices; the subprocess is   *)
(* killed.                                                                 *)
GiveUp ==
    /\ Fault
    /\ pc \in Kinds /\ reply = "none"
    /\ reply' = "refused"
    /\ \/ /\ Service
          /\ calls' = Abandoned
          /\ busy' = IF Locked THEN Dead ELSE Free
          /\ UNCHANGED orphaned
       \/ /\ ~Service /\ pc = "execute"
          /\ calls' = {} /\ busy' = Free /\ Orphan
    /\ UNCHANGED <<given, record, pc, files, cli, running, launches>>

(* The orchestrator dies: what it does itself stops, a subprocess or the   *)
(* service goes on.                                                        *)
Crash ==
    /\ Fault
    /\ pc # "idle"
    /\ pc' = "idle" /\ reply' = "none"
    /\ \/ Service /\ calls' = Abandoned
       \/ ~Service /\ calls' = {c \in Abandoned : c.kind = "execute"}
    /\ busy' = IF Locked /\ (Service \/ busy.kind = "execute") THEN Dead ELSE Free
    /\ UNCHANGED <<given, record, files, execution>>

-----------------------------------------------------------------------------

Client == Run \/ Accept \/ Resume \/ JudgeResult \/ JudgeAbsence \/ CommitRecovery
Executor == ProveRetired \/ Finish \/ Deadline \/ WriteJournal

(* The operation is over, or its task stays where it is for good, and      *)
(* nobody waits for an answer.                                             *)
Settled ==
    /\ pc = "idle"
    /\ status # "started" \/ ~approved
    /\ UNCHANGED vars

Next ==
    \/ Client \/ Lapse \/ Recover \/ Settled
    \/ Executor \/ Create \/ Exit
    \/ \E c \in calls : Handle(c)
    \/ BrokerCrash \/ GiveUp \/ Crash

Spec == Init /\ [][Next]_vars

(* The client and the broker run on, Docker does what it was asked, every  *)
(* deadline passes, and an operator whose recovery was refused tries again.*)
FairSpec ==
    /\ Spec
    /\ WF_vars(Client) /\ WF_vars(Recover)
    /\ WF_vars(Executor) /\ WF_vars(Create) /\ WF_vars(Exit)
    /\ \A c \in [kind : Kinds, live : BOOLEAN] : WF_vars(c \in calls /\ Handle(c))

-----------------------------------------------------------------------------
(* What must hold. *)

(* At most one launch per operation, whoever dies. *)
TypeOK ==
    /\ mode \in {"docker", "trusted-fixture"}
    /\ transport \in {"service", "subprocess"}
    /\ approved \in BOOLEAN
    /\ status \in {"started", "completed", "retired"}
    /\ receipt \in {"none", "journal", "absence"}
    /\ blocked \in BOOLEAN /\ requested \in BOOLEAN
    /\ pc \in {"idle", "start", "commit", "commit_absence"} \cup Kinds
    /\ calls \subseteq [kind : Kinds, live : BOOLEAN]
    /\ reply \in {"none", "ok", "uncertain", "refused", "absent", "present"}
    /\ busy \in [kind : {"none", "execute", "retire"}, live : BOOLEAN,
                 outcome : {"none", "ok", "uncertain"}]
    /\ tombstone \in BOOLEAN
    /\ journal \in {"none", "ok", "uncertain"}
    /\ cli \in {"none", "starting", "attached"}
    /\ running \in BOOLEAN
    /\ launches \in 0..1
    /\ orphaned \in BOOLEAN
    /\ faults \in 0..MaxFaults

(* What an operation retired as stopped did is not known, and is not found *)
(* in the journal later: no finished execution is thrown away, and none    *)
(* finishes after it was given up.                                         *)
NothingDiscarded ==
    receipt = "absence" => journal = "none" /\ busy.kind # "execute"

(* An operation is launched once, and once it is retired the broker never  *)
(* launches it, whatever requests are still on their way.                  *)
NoLateLaunch == [][launches' # launches => launches = 0 /\ status # "retired"]_vars

(* A task goes on from an operation only when nothing of it runs: a local  *)
(* process nobody can find keeps it blocked, and so does a silent daemon.  *)
(* (A launch the broker died in the middle of is the exception.)           *)
SettledIsStopped == status # "started" /\ ~orphaned => ~running /\ cli = "none"

(* With Docker, an operator who keeps asking gets every blocked task       *)
(* moving again, unless the daemon never answers, as long as the approval  *)
(* of its plan holds.  Once that has lapsed recovery is refused for good.  *)
RecoveryGetsThrough == blocked /\ Docker ~> ~blocked \/ ~approved

=============================================================================
