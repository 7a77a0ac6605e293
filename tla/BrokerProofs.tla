----------------------------- MODULE BrokerProofs -----------------------------
(***************************************************************************)
(* Proofs about Broker, for any number of crashes, lost replies and silent *)
(* daemons, both transports and both modes.                                *)
(*                                                                         *)
(* What carries them is that the tombstone and the journal exclude each    *)
(* other, that whichever of the two is there stays, and that an answer a   *)
(* client acts on is about the request it waits for.                       *)
(*                                                                         *)
(* The second part is about Outbound, the service's other routes: first    *)
(* what operators do, then what a recovery may read of a listing that      *)
(* moves.  FlattenSeq is a recursive function, and what it computes for a  *)
(* sequence of any length is shown by the absence of a least length for    *)
(* which it would not.                                                     *)
(***************************************************************************)
EXTENDS Broker, Outbound, FiniteSetTheorems, SequenceTheorems, WellFoundedInduction, TLAPS

(* The types, what is on its way apart from the rest. *)
WayTyped ==
    /\ calls \subseteq [kind : Kinds, live : BOOLEAN]
    /\ busy \in [kind : {"none", "execute", "retire"}, live : BOOLEAN,
                 outcome : {"none", "ok", "uncertain"}]
RestTyped ==
    /\ mode \in {"docker", "trusted-fixture"}
    /\ transport \in {"service", "subprocess"}
    /\ approved \in BOOLEAN
    /\ status \in {"started", "completed", "retired"}
    /\ receipt \in {"none", "journal", "absence"}
    /\ blocked \in BOOLEAN /\ requested \in BOOLEAN
    /\ pc \in {"idle", "start", "commit", "commit_absence"} \cup Kinds
    /\ reply \in {"none", "ok", "uncertain", "refused", "absent", "present"}
    /\ tombstone \in BOOLEAN
    /\ journal \in {"none", "ok", "uncertain"}
    /\ cli \in {"none", "starting", "attached"}
    /\ running \in BOOLEAN
    /\ launches \in 0..1
    /\ orphaned \in BOOLEAN
    /\ faults \in 0..MaxFaults
Types == WayTyped /\ RestTyped

(* The client waits for one request at most, not looked at or under way.   *)
OneLive ==
    /\ \A c \in calls : c.live => pc = c.kind /\ reply = "none" /\ ~busy.live
    /\ busy.live => pc = busy.kind /\ reply = "none"

(* The execution is asked for once, before anything was launched. *)
AskedOnce ==
    /\ pc = "start" => calls = {} /\ launches = 0
    /\ Request("execute", TRUE) \in calls => launches = 0 /\ Request("execute", FALSE) \notin calls
    /\ Request("execute", FALSE) \in calls => launches = 0

(* Under the lock: what is executed has neither file yet. *)
FilesExclude ==
    /\ tombstone => journal = "none"
    /\ busy.kind = "execute" => journal = "none" /\ ~tombstone
    /\ busy.kind = "retire" => tombstone

(* A launching client that nobody waits for is an orphan; what came to an  *)
(* outcome has none, and what is known to have ended does not run.         *)
Stopped == ~running /\ cli = "none"
LaunchFits ==
    /\ cli = "starting" => orphaned \/ Executing
    /\ busy.outcome = "ok" => Stopped
    /\ busy.outcome = "uncertain" => cli = "none"
    /\ journal = "ok" => Stopped
    /\ journal = "uncertain" => cli = "none"

(* What the client was told, or concluded, is in the files. *)
Gone == tombstone /\ (orphaned \/ Stopped)
Known == journal # "none" /\ Stopped
RepliesFit ==
    /\ reply \in {"ok", "uncertain"} => journal = reply
    /\ pc = "reconcile" => journal = "uncertain"
    /\ pc = "reconcile" /\ reply = "absent" => Stopped
    /\ pc = "retire" /\ reply = "absent" => Gone
    /\ pc = "commit" => Known
    /\ pc = "commit_absence" => Gone

(* An operation is settled once. *)
RecordFits ==
    /\ status # "started" => pc = "idle" /\ ~blocked
    /\ pc \in {"start", "execute"} => ~blocked
    /\ status # "retired" => receipt = "none"
    /\ status = "completed" => Known
    /\ status = "retired" => (receipt = "journal" /\ Known) \/ (receipt = "absence" /\ Gone)

IInv ==
    /\ Types /\ OneLive /\ AskedOnce /\ FilesExclude
    /\ LaunchFits /\ RepliesFit /\ RecordFits

LEMMA InitIsInvariant == Init => IInv
<1> SUFFICES ASSUME Init PROVE IInv
  OBVIOUS
<1> USE DEF Init, Free
<1>1. Types
  <2>1. WayTyped
    BY DEF WayTyped
  <2>2. 0 \in 0..MaxFaults /\ 0 \in 0..1
    BY FaultsAssumption
  <2>3. RestTyped
    BY <2>2 DEF RestTyped
  <2> QED BY <2>1, <2>3 DEF Types
<1>2. OneLive /\ AskedOnce
  BY DEF OneLive, AskedOnce
<1>3. FilesExclude /\ LaunchFits /\ RepliesFit /\ RecordFits
  BY DEF FilesExclude, LaunchFits, RepliesFit, RecordFits
<1> QED BY <1>1, <1>2, <1>3 DEF IInv

-----------------------------------------------------------------------------
(* What is sent, and what is left of it. *)

LEMMA CallTyped ==
    ASSUME WayTyped, NEW kind \in Kinds, Call(kind)
    PROVE  calls' \subseteq [kind : Kinds, live : BOOLEAN]
<1>1. Request(kind, TRUE) \in [kind : Kinds, live : BOOLEAN]
  BY DEF Request
<1> QED BY <1>1 DEF WayTyped, Call

(* Nobody waits for what was abandoned; it is otherwise what was sent. *)
LEMMA AbandonedFits ==
    ASSUME WayTyped
    PROVE  /\ Abandoned \subseteq [kind : Kinds, live : {FALSE}]
           /\ Request("execute", FALSE) \in Abandoned =>
                 Request("execute", TRUE) \in calls \/ Request("execute", FALSE) \in calls
<1>1. \A c \in calls : c.kind \in Kinds /\ c.live \in BOOLEAN /\ c = Request(c.kind, c.live)
  BY DEF WayTyped, Request
<1>2. Abandoned \subseteq [kind : Kinds, live : {FALSE}]
  <2>1. \A c \in calls : Request(c.kind, FALSE) \in [kind : Kinds, live : {FALSE}]
    BY <1>1 DEF Request
  <2> QED BY <2>1 DEF Abandoned
<1>3. ASSUME Request("execute", FALSE) \in Abandoned
      PROVE  Request("execute", TRUE) \in calls \/ Request("execute", FALSE) \in calls
  <2>1. PICK c \in calls : Request("execute", FALSE) = Request(c.kind, FALSE)
    BY <1>3 DEF Abandoned
  <2>2. c.kind = "execute"
    BY <2>1 DEF Request
  <2> QED BY <1>1, <2>2
<1> QED BY <1>2, <1>3

LEMMA DeadFits ==
    ASSUME WayTyped
    PROVE  /\ Dead \in [kind : {"none", "execute", "retire"}, live : {FALSE},
                        outcome : {"none", "ok", "uncertain"}]
           /\ Dead.kind = busy.kind /\ Dead.outcome = busy.outcome
BY DEF WayTyped, Dead

LEMMA FreeFits ==
    /\ Free \in [kind : {"none", "execute", "retire"}, live : {FALSE},
                 outcome : {"none", "ok", "uncertain"}]
    /\ Free.kind = "none" /\ Free.outcome = "none"
BY DEF Free

LEMMA FaultTyped ==
    ASSUME RestTyped, Fault \/ UNCHANGED faults
    PROVE  faults' \in 0..MaxFaults
BY FaultsAssumption DEF RestTyped, Fault

-----------------------------------------------------------------------------
(* Each action of the client, of Docker and of what fails keeps the        *)
(* invariant; the broker's handling of a request is below.                 *)

LEMMA RunKeeps == ASSUME IInv, Run PROVE IInv'
<1> USE DEF IInv, Types, Run
<1>1. WayTyped'
  <2>1. "execute" \in Kinds
    BY DEF Kinds
  <2> QED BY <2>1, CallTyped DEF WayTyped
<1>2. RestTyped'
  BY DEF given, files, execution, Call, Kinds, RestTyped
<1>3. OneLive'
  BY DEF Call, Request, Kinds, WayTyped, OneLive
<1>4. AskedOnce'
  BY DEF execution, Call, Request, AskedOnce
<1>5. FilesExclude'
  BY DEF files, FilesExclude
<1>6. LaunchFits'
  BY DEF files, execution, Executing, Stopped, LaunchFits
<1>7. RepliesFit'
  BY DEF Call, RepliesFit
<1>8. RecordFits'
  BY DEF RecordFits
<1> QED BY <1>1, <1>2, <1>3, <1>4, <1>5, <1>6, <1>7, <1>8

LEMMA AcceptKeeps == ASSUME IInv, Accept PROVE IInv'
<1> USE DEF IInv, Types, Accept
<1>1. WayTyped'
  BY DEF Return, WayTyped
<1>2. RestTyped'
  BY DEF given, files, execution, Return, RestTyped, RecordFits
<1>3. OneLive'
  BY DEF Return, OneLive
<1>4. AskedOnce'
  BY DEF execution, Return, AskedOnce
<1>5. FilesExclude'
  BY DEF files, FilesExclude
<1>6. LaunchFits'
  BY DEF files, execution, Executing, Stopped, LaunchFits
<1>7. RepliesFit'
  BY DEF Return, RepliesFit
<1>8. RecordFits'
  BY DEF files, execution, Return, Known, Stopped, LaunchFits, RepliesFit, RecordFits
<1> QED BY <1>1, <1>2, <1>3, <1>4, <1>5, <1>6, <1>7, <1>8

LEMMA ResumeKeeps == ASSUME IInv, Resume PROVE IInv'
<1> USE DEF IInv, Types, Resume
<1>1. WayTyped'
  BY DEF network, WayTyped
<1>2. RestTyped'
  BY DEF given, network, files, execution, RestTyped
<1>3. OneLive'
  BY DEF network, OneLive
<1>4. AskedOnce'
  BY DEF network, execution, AskedOnce
<1>5. FilesExclude'
  BY DEF files, FilesExclude
<1>6. LaunchFits'
  BY DEF files, execution, Executing, Stopped, LaunchFits
<1>7. RepliesFit'
  BY DEF network, files, RepliesFit
<1>8. RecordFits'
  BY DEF RecordFits
<1> QED BY <1>1, <1>2, <1>3, <1>4, <1>5, <1>6, <1>7, <1>8

LEMMA JudgeResultKeeps == ASSUME IInv, JudgeResult PROVE IInv'
<1> USE DEF IInv, Types, JudgeResult
<1>1. WayTyped'
  <2>1. "reconcile" \in Kinds /\ "retire" \in Kinds
    BY DEF Kinds
  <2>2. UNCHANGED busy /\ (UNCHANGED calls \/ Call("reconcile") \/ Call("retire"))
    BY DEF Return, network
  <2> QED BY <2>1, <2>2, CallTyped DEF WayTyped
<1>2. RestTyped'
  BY DEF given, record, network, files, execution, Call, Return, Request, Kinds, RestTyped
<1>3. OneLive'
  BY DEF network, Call, Return, Request, OneLive
<1>4. AskedOnce'
  BY DEF network, execution, Call, Return, Request, AskedOnce
<1>5. FilesExclude'
  BY DEF files, FilesExclude
<1>6. LaunchFits'
  BY DEF files, execution, Executing, Stopped, LaunchFits
<1>7. RepliesFit'
  BY DEF network, files, execution, Call, Return, Known, Stopped, LaunchFits, RepliesFit
<1>8. RecordFits'
  BY DEF record, Call, Return, RecordFits
<1> QED BY <1>1, <1>2, <1>3, <1>4, <1>5, <1>6, <1>7, <1>8

LEMMA JudgeAbsenceKeeps == ASSUME IInv, JudgeAbsence PROVE IInv'
<1> USE DEF IInv, Types, JudgeAbsence
<1>1. WayTyped'
  BY DEF network, Return, WayTyped
<1>2. RestTyped'
  BY DEF given, record, network, files, execution, Return, RestTyped
<1>3. OneLive'
  BY DEF network, Return, OneLive
<1>4. AskedOnce'
  BY DEF network, execution, Return, AskedOnce
<1>5. FilesExclude'
  BY DEF files, FilesExclude
<1>6. LaunchFits'
  BY DEF files, execution, Executing, Stopped, LaunchFits
<1>7. RepliesFit'
  BY DEF network, files, execution, Return, Gone, Known, Stopped, RepliesFit
<1>8. RecordFits'
  BY DEF record, Return, RecordFits
<1> QED BY <1>1, <1>2, <1>3, <1>4, <1>5, <1>6, <1>7, <1>8

LEMMA CommitRecoveryKeeps == ASSUME IInv, CommitRecovery PROVE IInv'
<1> USE DEF IInv, Types, CommitRecovery
<1>1. WayTyped'
  BY DEF Return, WayTyped
<1>2. RestTyped'
  BY DEF given, files, execution, Return, RestTyped
<1>3. OneLive'
  BY DEF Return, Kinds, WayTyped, OneLive
<1>4. AskedOnce'
  BY DEF execution, Return, AskedOnce
<1>5. FilesExclude'
  BY DEF files, FilesExclude
<1>6. LaunchFits'
  BY DEF files, execution, Executing, Stopped, LaunchFits
<1>7. RepliesFit'
  BY DEF Return, RepliesFit
<1>8. RecordFits'
  BY DEF files, execution, Return, Gone, Known, Stopped, RepliesFit, RecordFits
<1> QED BY <1>1, <1>2, <1>3, <1>4, <1>5, <1>6, <1>7, <1>8

LEMMA LapseKeeps == ASSUME IInv, Lapse PROVE IInv'
<1> USE DEF IInv, Types, Lapse, record, network, files, execution
<1>1. WayTyped'
  BY DEF WayTyped
<1>4. RestTyped'
  <2>1. approved' \in BOOLEAN
    OBVIOUS
  <2>2. /\ mode' = mode /\ transport' = transport
        /\ status' = status /\ receipt' = receipt /\ blocked' = blocked /\ requested' = requested
        /\ pc' = pc /\ reply' = reply /\ tombstone' = tombstone /\ journal' = journal
        /\ cli' = cli /\ running' = running
        /\ launches' = launches /\ orphaned' = orphaned /\ faults' = faults
    OBVIOUS
  <2>3. RestTyped
    OBVIOUS
  <2> HIDE DEF IInv, Types, Lapse
  <2> QED BY <2>1, <2>2, <2>3 DEF RestTyped
<1>2. OneLive' /\ AskedOnce' /\ FilesExclude'
  BY DEF OneLive, AskedOnce, FilesExclude
<1>3. LaunchFits' /\ RepliesFit' /\ RecordFits'
  BY DEF LaunchFits, RepliesFit, RecordFits, Stopped, Gone, Known, Executing
<1> QED BY <1>1, <1>2, <1>3, <1>4

LEMMA RecoverKeeps == ASSUME IInv, Recover PROVE IInv'
<1> USE DEF IInv, Types, Recover
<1>1. WayTyped'
  <2>1. "result" \in Kinds /\ "retire" \in Kinds
    BY DEF Kinds
  <2>2. UNCHANGED busy /\ (UNCHANGED calls \/ Call("result") \/ Call("retire"))
    BY DEF network
  <2> QED BY <2>1, <2>2, CallTyped DEF WayTyped
<1>2. RestTyped'
  BY DEF given, record, network, files, execution, Call, Request, Kinds, RestTyped
<1>3. OneLive'
  BY DEF network, Call, Request, Kinds, WayTyped, OneLive
<1>4. AskedOnce'
  BY DEF network, execution, Call, Request, AskedOnce
<1>5. FilesExclude'
  BY DEF files, FilesExclude
<1>6. LaunchFits'
  BY DEF files, execution, Executing, Stopped, LaunchFits
<1>7. RepliesFit'
  BY DEF network, files, Call, RepliesFit
<1>8. RecordFits'
  BY DEF record, Call, RecordFits
<1> QED BY <1>1, <1>2, <1>3, <1>4, <1>5, <1>6, <1>7, <1>8

LEMMA ProveRetiredKeeps == ASSUME IInv, ProveRetired PROVE IInv'
<1> USE DEF IInv, Types, ProveRetired
<1>1. WayTyped'
  BY DEF Free, WayTyped
<1>2. RestTyped'
  <2>1. faults' \in 0..MaxFaults
    BY FaultTyped DEF Prove
  <2>2. reply' \in {reply, "absent", "present"}
    BY DEF Prove, Answer
  <2>3. /\ cli' \in {cli, "none"} /\ running' \in BOOLEAN
        /\ UNCHANGED <<launches, orphaned>>
    BY DEF Prove, RemoveContainer, execution, RestTyped
  <2> QED BY <2>1, <2>2, <2>3 DEF RestTyped, given, record, files
<1>3. OneLive'
  BY DEF Answer, Free, Prove, OneLive
<1>4. AskedOnce'
  BY DEF execution, Prove, RemoveContainer, AskedOnce
<1>5. FilesExclude'
  BY DEF files, Free, FilesExclude
<1>6. LaunchFits'
  BY DEF files, execution, Free, Executing, Prove, RemoveContainer, Stopped, LaunchFits
<1>7. RepliesFit'
  BY DEF files, execution, Answer, Executing, Prove, RemoveContainer, Gone, Known, Stopped,
    RestTyped, FilesExclude, LaunchFits, RepliesFit
<1>8. RecordFits'
  BY DEF record, files, execution, Prove, RemoveContainer, Gone, Known, Stopped, RecordFits
<1> QED BY <1>1, <1>2, <1>3, <1>4, <1>5, <1>6, <1>7, <1>8

LEMMA FinishKeeps == ASSUME IInv, Finish PROVE IInv'
<1> USE DEF IInv, Types, Finish
<1>1. WayTyped'
  BY DEF network, WayTyped
<1>2. RestTyped'
  BY DEF given, record, network, files, RestTyped
<1>3. OneLive'
  BY DEF network, OneLive
<1>4. AskedOnce'
  BY DEF network, AskedOnce
<1>5. FilesExclude'
  BY DEF files, FilesExclude
<1>6. LaunchFits'
  BY DEF Stopped, LaunchFits
<1>7. RepliesFit'
  BY DEF network, files, Gone, Known, Stopped, RepliesFit
<1>8. RecordFits'
  BY DEF record, files, Gone, Known, Stopped, RecordFits
<1> QED BY <1>1, <1>2, <1>3, <1>4, <1>5, <1>6, <1>7, <1>8

LEMMA DeadlineKeeps == ASSUME IInv, Deadline PROVE IInv'
<1> USE DEF IInv, Types, Deadline
<1>1. WayTyped'
  BY DEF network, WayTyped
<1>2. RestTyped'
  <2>1. faults' \in 0..MaxFaults
    BY FaultTyped
  <2>2. running' \in BOOLEAN
    BY DEF RestTyped
  <2> QED BY <2>1, <2>2 DEF RestTyped, given, record, files, network
<1>3. OneLive'
  BY DEF network, WayTyped, OneLive
<1>4. AskedOnce'
  BY DEF network, AskedOnce
<1>5. FilesExclude'
  BY DEF files, WayTyped, FilesExclude
<1>6. LaunchFits'
  BY DEF files, Stopped, WayTyped, LaunchFits
<1>7. RepliesFit'
  BY DEF network, files, Gone, Known, Stopped, RepliesFit
<1>8. RecordFits'
  BY DEF record, files, Gone, Known, Stopped, RecordFits
<1> QED BY <1>1, <1>2, <1>3, <1>4, <1>5, <1>6, <1>7, <1>8

LEMMA WriteJournalKeeps == ASSUME IInv, WriteJournal PROVE IInv'
<1> USE DEF IInv, Types, WriteJournal
<1>1. WayTyped'
  BY DEF Free, WayTyped
<1>2. RestTyped'
  BY DEF given, record, execution, Answer, WayTyped, RestTyped
<1>3. OneLive'
  BY DEF Answer, Free, OneLive
<1>4. AskedOnce'
  BY DEF execution, AskedOnce
<1>5. FilesExclude'
  BY DEF Free, FilesExclude
<1>6. LaunchFits'
  BY DEF execution, Free, Executing, Stopped, LaunchFits
<1>7. RepliesFit'
  BY DEF Answer, Gone, Known, WayTyped, FilesExclude, RepliesFit
<1>8. RecordFits'
  BY DEF record, execution, Gone, Known, Stopped, RecordFits
<1> QED BY <1>1, <1>2, <1>3, <1>4, <1>5, <1>6, <1>7, <1>8

LEMMA CreateKeeps == ASSUME IInv, Create PROVE IInv'
<1> USE DEF IInv, Types, Create
<1>1. WayTyped'
  BY DEF network, WayTyped
<1>2. RestTyped'
  BY DEF given, record, network, files, RestTyped
<1>3. OneLive'
  BY DEF network, OneLive
<1>4. AskedOnce'
  BY DEF network, AskedOnce
<1>5. FilesExclude'
  BY DEF files, FilesExclude
<1>6. LaunchFits'
  BY DEF files, Stopped, LaunchFits
<1>7. RepliesFit'
  BY DEF network, files, Gone, Known, Stopped, RepliesFit
<1>8. RecordFits'
  BY DEF record, files, Gone, Known, Stopped, RecordFits
<1> QED BY <1>1, <1>2, <1>3, <1>4, <1>5, <1>6, <1>7, <1>8

LEMMA ExitKeeps == ASSUME IInv, Exit PROVE IInv'
<1> USE DEF IInv, Types, Exit
<1>1. WayTyped'
  BY DEF network, WayTyped
<1>2. RestTyped'
  <2>1. cli' \in {"none", "starting", "attached"} /\ running' \in BOOLEAN
    OBVIOUS
  <2>2. /\ mode' = mode /\ transport' = transport /\ approved' = approved
        /\ status' = status /\ receipt' = receipt /\ blocked' = blocked /\ requested' = requested
        /\ pc' = pc /\ reply' = reply /\ tombstone' = tombstone /\ journal' = journal
        /\ launches' = launches /\ orphaned' = orphaned /\ faults' = faults
    BY DEF given, record, network, files
  <2>3. RestTyped
    OBVIOUS
  <2> HIDE DEF IInv, Types, Exit
  <2> QED BY <2>1, <2>2, <2>3 DEF RestTyped
<1>3. OneLive'
  BY DEF network, OneLive
<1>4. AskedOnce'
  BY DEF network, AskedOnce
<1>5. FilesExclude'
  BY DEF files, FilesExclude
<1>6. LaunchFits'
  BY DEF Stopped, LaunchFits
<1>7. RepliesFit'
  BY DEF network, files, Gone, Known, Stopped, RepliesFit
<1>8. RecordFits'
  BY DEF record, files, Gone, Known, Stopped, RecordFits
<1> QED BY <1>1, <1>2, <1>3, <1>4, <1>5, <1>6, <1>7, <1>8

LEMMA BrokerCrashKeeps == ASSUME IInv, BrokerCrash PROVE IInv'
<1> USE DEF IInv, Types, BrokerCrash
<1>1. WayTyped'
  BY DEF Free, WayTyped
<1>2. RestTyped'
  BY FaultTyped DEF given, record, files, Answer, Orphan, RestTyped
<1>3. OneLive'
  BY DEF Answer, Free, OneLive
<1>4. AskedOnce'
  BY DEF AskedOnce
<1>5. FilesExclude'
  BY DEF files, Free, FilesExclude
<1>6. LaunchFits'
  BY DEF files, Free, Orphan, Stopped, LaunchFits
<1>7. RepliesFit'
  BY DEF files, Answer, Orphan, Gone, Known, Stopped, RepliesFit
<1>8. RecordFits'
  BY DEF record, files, Orphan, Gone, Known, Stopped, RecordFits
<1> QED BY <1>1, <1>2, <1>3, <1>4, <1>5, <1>6, <1>7, <1>8

LEMMA GiveUpKeeps == ASSUME IInv, GiveUp PROVE IInv'
<1> USE DEF IInv, Types, GiveUp
<1>1. WayTyped'
  <2>1. calls' \in {Abandoned, {}} /\ busy' \in {Dead, Free}
    OBVIOUS
  <2> QED BY <2>1, AbandonedFits, DeadFits, FreeFits DEF WayTyped
<1>2. RestTyped'
  <2>1. faults' \in 0..MaxFaults
    BY FaultTyped
  <2>2. orphaned' \in BOOLEAN
    BY DEF RestTyped, Orphan
  <2> QED BY <2>1, <2>2 DEF RestTyped, given, record, files
<1>3. OneLive'
  BY DEF Request, Free, Abandoned, Dead, WayTyped, OneLive
<1>4. AskedOnce'
  <2>1. calls' \in {Abandoned, {}} /\ UNCHANGED <<pc, launches>> /\ pc \in Kinds
    OBVIOUS
  <2>2. calls' \subseteq Abandoned
    BY <2>1
  <2>3. Request("execute", TRUE) \notin calls'
    BY <2>2, AbandonedFits DEF Request
  <2> QED BY <2>1, <2>2, <2>3, AbandonedFits DEF AskedOnce, Kinds
<1>5. FilesExclude'
  BY DEF files, Request, Free, Dead, WayTyped, FilesExclude
<1>6. LaunchFits'
  <2>1. cli = "starting" => orphaned' \/ (orphaned' = orphaned /\ (orphaned \/ Executing'))
    <3>1. CASE Service
      <4>1. Executing => Executing'
        BY <3>1, DeadFits DEF Executing, Locked, Free
      <4> QED BY <3>1, <4>1 DEF LaunchFits
    <3>2. CASE ~Service
      BY <3>2 DEF Orphan
    <3> QED BY <3>1, <3>2
  <2>2. busy'.outcome \in {busy.outcome, "none"}
    BY DeadFits, FreeFits
  <2> QED BY <2>1, <2>2 DEF LaunchFits, Stopped, files
<1>7. RepliesFit'
  BY DEF files, Kinds, RepliesFit
<1>8. RecordFits'
  BY DEF record, Kinds, RecordFits
<1> QED BY <1>1, <1>2, <1>3, <1>4, <1>5, <1>6, <1>7, <1>8

LEMMA CrashKeeps == ASSUME IInv, Crash PROVE IInv'
<1> USE DEF IInv, Types, Crash
<1>1. WayTyped'
  <2>1. calls' \subseteq Abandoned /\ busy' \in {Dead, Free}
    OBVIOUS
  <2> QED BY <2>1, AbandonedFits, DeadFits, FreeFits DEF WayTyped
<1>2. RestTyped'
  BY FaultTyped DEF given, record, files, execution, RestTyped
<1>3. OneLive'
  BY DEF Request, Free, Abandoned, Dead, OneLive
<1>4. AskedOnce'
  <2>1. calls' \subseteq Abandoned /\ pc' = "idle" /\ UNCHANGED launches
    BY DEF execution
  <2>2. Request("execute", TRUE) \notin calls'
    BY <2>1, AbandonedFits DEF Request
  <2> QED BY <2>1, <2>2, AbandonedFits DEF AskedOnce
<1>5. FilesExclude'
  BY DEF files, Free, Dead, FilesExclude
<1>6. LaunchFits'
  BY DEF files, execution, Free, Locked, Executing, Dead, Stopped, LaunchFits
<1>7. RepliesFit'
  BY DEF RepliesFit
<1>8. RecordFits'
  BY DEF record, RecordFits
<1> QED BY <1>1, <1>2, <1>3, <1>4, <1>5, <1>6, <1>7, <1>8

-----------------------------------------------------------------------------
(* What the broker does with a request. *)

LEMMA SentFits ==
    ASSUME WayTyped, OneLive, NEW c \in calls
    PROVE  /\ c.kind \in Kinds /\ c.live \in BOOLEAN /\ c = Request(c.kind, c.live)
           /\ c.live => /\ pc = c.kind /\ reply = "none" /\ ~busy.live
                        /\ \A d \in calls \ {c} : ~d.live
<1>1. \A d \in calls : d.kind \in Kinds /\ d.live \in BOOLEAN /\ d = Request(d.kind, d.live)
  BY DEF WayTyped, Request
<1> QED BY <1>1 DEF OneLive

(* It only answers, *)
LEMMA AnswerKeeps ==
    ASSUME IInv, NEW c \in calls, NEW value \in {"ok", "uncertain", "refused", "present"},
           value \in {"ok", "uncertain"} => journal = value,
           calls' = calls \ {c}, Answer(c.live, value), Fault \/ UNCHANGED faults,
           UNCHANGED <<given, record, pc, busy, files, execution>>
    PROVE  IInv'
<1> USE DEF IInv, Types, Answer, given, record, files, execution
<1>1. c.live \in BOOLEAN /\ (c.live => \A d \in calls \ {c} : ~d.live) /\ (c.live => ~busy.live)
  BY SentFits
<1>2. WayTyped' /\ AskedOnce'
  BY DEF WayTyped, AskedOnce
<1>3. RestTyped'
  BY FaultTyped DEF RestTyped
<1>4. OneLive'
  BY <1>1 DEF OneLive
<1>5. FilesExclude' /\ LaunchFits' /\ RecordFits'
  BY DEF FilesExclude, LaunchFits, RecordFits, Stopped, Gone, Known, Executing
<1>6. RepliesFit'
  BY DEF RepliesFit, Stopped, Gone, Known
<1> QED BY <1>2, <1>3, <1>4, <1>5, <1>6

(* launches, *)
LEMMA LaunchKeeps ==
    ASSUME IInv, NEW c \in calls, c.kind = "execute", busy = Free, ~tombstone, journal = "none",
           calls' = calls \ {c}, Launch(c.live),
           UNCHANGED <<given, record, pc, files, faults>>
    PROVE  IInv' /\ launches = 0 /\ status # "retired"
<1> USE DEF IInv, Types, Launch, given, record, files
<1>1. /\ c.live \in BOOLEAN /\ c = Request("execute", c.live)
      /\ c.live => pc = "execute" /\ reply = "none" /\ \A d \in calls \ {c} : ~d.live
  BY SentFits
<1>2. launches = 0 /\ \A live \in BOOLEAN : Request("execute", live) \notin calls'
  BY <1>1 DEF AskedOnce, Request
<1>3. pc # "start"
  BY DEF AskedOnce
<1>4. status # "retired" /\ pc \notin {"reconcile", "commit", "commit_absence"}
      /\ ~(pc = "retire" /\ reply = "absent")
  BY DEF RecordFits, RepliesFit, Gone, Known
<1>5. WayTyped'
  BY <1>1 DEF WayTyped
<1>6. RestTyped'
  <2>1. launches' \in 0..1 /\ orphaned' = orphaned /\ reply' = reply
    BY <1>2
  <2>2. cli' \in {"none", "starting", "attached"}
    BY DEF RestTyped
  <2>3. running' \in BOOLEAN
    BY DEF RestTyped
  <2> QED BY <2>1, <2>2, <2>3 DEF RestTyped
<1>7. OneLive'
  BY <1>1 DEF OneLive
<1>8. AskedOnce'
  BY <1>2, <1>3 DEF AskedOnce
<1>9. FilesExclude'
  BY DEF FilesExclude
<1>10. LaunchFits'
  BY DEF LaunchFits, Executing
<1>11. RepliesFit'
  BY <1>4 DEF RepliesFit
<1>12. RecordFits'
  BY <1>4 DEF RecordFits, Known
<1> QED BY <1>2, <1>4, <1>5, <1>6, <1>7, <1>8, <1>9, <1>10, <1>11, <1>12

(* writes the tombstone, *)
LEMMA EntombKeeps ==
    ASSUME IInv, NEW c \in calls, c.kind = "retire", busy = Free, journal = "none",
           calls' = calls \ {c}, tombstone' = TRUE,
           busy' = [kind |-> "retire", live |-> c.live, outcome |-> "none"],
           UNCHANGED <<given, record, pc, reply, journal, execution, faults>>
    PROVE  IInv'
<1> USE DEF IInv, Types, given, record, execution
<1>1. c.live \in BOOLEAN /\ (c.live => pc = "retire" /\ reply = "none" /\ \A d \in calls \ {c} : ~d.live)
  BY SentFits
<1>2. WayTyped'
  BY <1>1 DEF WayTyped
<1>3. RestTyped' /\ AskedOnce'
  <2>1. tombstone' \in BOOLEAN
    OBVIOUS
  <2>2. AskedOnce'
    BY DEF AskedOnce
  <2> QED BY <2>1, <2>2 DEF RestTyped
<1>4. OneLive'
  BY <1>1 DEF OneLive
<1>5. FilesExclude'
  BY DEF FilesExclude
<1>6. LaunchFits'
  BY DEF LaunchFits, Executing, Free, Stopped
<1>7. RepliesFit' /\ RecordFits'
  BY DEF RepliesFit, RecordFits, Gone, Known, Stopped
<1> QED BY <1>2, <1>3, <1>4, <1>5, <1>6, <1>7

(* or removes what it finds. *)
LEMMA RemoveKeeps ==
    ASSUME IInv, NEW c \in calls, c.kind = "reconcile", calls' = calls \ {c},
           RemoveContainer, Answer(c.live, "absent"),
           UNCHANGED <<given, record, pc, busy, files, faults>>
    PROVE  IInv'
<1> USE DEF IInv, Types, given, record, files, RemoveContainer
<1>1. c.live \in BOOLEAN
      /\ (c.live => pc = "reconcile" /\ reply = "none" /\ ~busy.live /\ \A d \in calls \ {c} : ~d.live)
  BY SentFits
<1>2. WayTyped' /\ AskedOnce'
  BY DEF WayTyped, AskedOnce
<1>3. RestTyped'
  <2>1. reply' \in {reply, "absent"} /\ cli' \in {cli, "none"} /\ UNCHANGED <<launches, orphaned>>
    BY DEF Answer
  <2>2. running' \in BOOLEAN
    OBVIOUS
  <2> QED BY <2>1, <2>2 DEF RestTyped
<1>4. OneLive'
  BY <1>1 DEF OneLive, Answer
<1>5. FilesExclude'
  BY DEF FilesExclude
<1>6. LaunchFits'
  BY DEF LaunchFits, Executing, Stopped
<1>7. RepliesFit'
  BY <1>1 DEF RepliesFit, Answer, Gone, Known, Stopped, LaunchFits
<1>8. RecordFits'
  BY DEF RecordFits, Gone, Known, Stopped
<1> QED BY <1>2, <1>3, <1>4, <1>5, <1>6, <1>7, <1>8

LEMMA HandleKeeps ==
    ASSUME IInv, NEW c \in calls, Handle(c)
    PROVE  IInv' /\ (launches' # launches => launches = 0 /\ status # "retired")
<1>1. /\ calls' = calls \ {c} /\ UNCHANGED <<given, record, pc>>
      /\ c.kind \in Kinds /\ journal \in {"none", "ok", "uncertain"}
  BY SentFits DEF Handle, IInv, Types, RestTyped
<1>2. ASSUME NEW value \in {"ok", "uncertain", "refused", "present"},
             value \in {"ok", "uncertain"} => journal = value,
             Answer(c.live, value), Fault \/ UNCHANGED faults,
             UNCHANGED <<busy, files, execution>>
      PROVE  IInv' /\ launches' = launches
  BY <1>1, <1>2, AnswerKeeps DEF execution
<1>3. CASE c.kind = "execute" /\ ~Locked /\ Execute(c.live) /\ UNCHANGED faults
  <2>1. CASE ~tombstone /\ journal = "none" /\ Launch(c.live)
    BY <1>1, <1>3, <2>1, LaunchKeeps DEF Locked, Execute
  <2>2. CASE tombstone /\ Answer(c.live, "refused") /\ UNCHANGED <<busy, execution>>
    BY <1>2, <1>3, <2>2 DEF Execute
  <2>3. CASE journal # "none" /\ Answer(c.live, journal) /\ UNCHANGED <<busy, execution>>
    BY <1>1, <1>2, <1>3, <2>3 DEF Execute
  <2> QED BY <1>3, <2>1, <2>2, <2>3 DEF Execute
<1>4. CASE c.kind = "result" /\ ~Locked /\ ReadResult(c.live) /\ UNCHANGED faults
  BY <1>1, <1>2, <1>4 DEF ReadResult
<1>5. CASE c.kind = "retire" /\ ~Locked /\ Retire(c.live) /\ UNCHANGED faults
  <2>1. CASE journal # "none" /\ Answer(c.live, "refused") /\ UNCHANGED <<busy, files, execution>>
    BY <1>2, <1>5, <2>1
  <2>2. CASE /\ journal = "none" /\ tombstone' = TRUE
             /\ busy' = [kind |-> "retire", live |-> c.live, outcome |-> "none"]
             /\ UNCHANGED <<reply, journal, execution>>
    BY <1>1, <1>5, <2>2, EntombKeeps DEF Locked, execution
  <2> QED BY <1>5, <2>1, <2>2 DEF Retire
<1>6. CASE c.kind = "reconcile" /\ Reconcile(c.live)
  <2>1. CASE RemoveContainer /\ Answer(c.live, "absent") /\ UNCHANGED faults
    BY <1>1, <1>6, <2>1, RemoveKeeps DEF Reconcile, RemoveContainer
  <2>2. CASE (Fault \/ UNCHANGED faults) /\ Answer(c.live, "present") /\ UNCHANGED execution
    BY <1>2, <1>6, <2>2 DEF Reconcile
  <2> QED BY <1>6, <2>1, <2>2 DEF Reconcile, Prove
<1>7. CASE c.kind # "reconcile" /\ Locked /\ Answer(c.live, "refused")
           /\ UNCHANGED <<busy, files, execution, faults>>
  BY <1>2, <1>7
<1> QED BY <1>3, <1>4, <1>5, <1>6, <1>7 DEF Handle

-----------------------------------------------------------------------------
(* What follows. *)

(* Nothing else launches. *)
LEMMA OthersDoNotLaunch ==
    ASSUME Client \/ Lapse \/ Recover \/ Executor \/ Create \/ Exit \/ BrokerCrash \/ GiveUp \/ Crash
    PROVE  launches' = launches
<1> USE DEF execution
<1>1. CASE Client
  BY <1>1 DEF Client, Run, Accept, Resume, JudgeResult, JudgeAbsence, CommitRecovery
<1>2. CASE Executor
  BY <1>2 DEF Executor, ProveRetired, Prove, RemoveContainer, Finish, Deadline, WriteJournal
<1>3. CASE Lapse \/ Recover \/ Create \/ Exit
  BY <1>3 DEF Lapse, Recover, Create, Exit
<1>4. CASE BrokerCrash \/ GiveUp \/ Crash
  BY <1>4 DEF BrokerCrash, GiveUp, Crash
<1> QED BY <1>1, <1>2, <1>3, <1>4

LEMMA NextKeeps ==
    ASSUME IInv, [Next]_vars
    PROVE  IInv' /\ (launches' # launches => launches = 0 /\ status # "retired")
<1>1. CASE UNCHANGED vars
  <2> USE <1>1 DEF vars, given, record, network, files, execution, IInv, Types
  <2>1. WayTyped'
    BY DEF WayTyped
  <2>2. RestTyped'
    BY DEF RestTyped
  <2>3. OneLive' /\ AskedOnce' /\ FilesExclude'
    BY DEF OneLive, AskedOnce, FilesExclude
  <2>4. LaunchFits' /\ RepliesFit' /\ RecordFits'
    BY DEF LaunchFits, RepliesFit, RecordFits, Stopped, Gone, Known, Executing
  <2> QED BY <2>1, <2>2, <2>3, <2>4
<1>2. CASE Client
  BY <1>2, OthersDoNotLaunch, RunKeeps, AcceptKeeps, ResumeKeeps, JudgeResultKeeps,
     JudgeAbsenceKeeps, CommitRecoveryKeeps DEF Client
<1>3. CASE Executor
  BY <1>3, OthersDoNotLaunch, ProveRetiredKeeps, FinishKeeps, DeadlineKeeps,
    WriteJournalKeeps
     DEF Executor
<1>4. CASE Lapse \/ Recover \/ Create \/ Exit
  BY <1>4, OthersDoNotLaunch, LapseKeeps, RecoverKeeps, CreateKeeps, ExitKeeps
<1>5. CASE BrokerCrash \/ GiveUp \/ Crash
  BY <1>5, OthersDoNotLaunch, BrokerCrashKeeps, GiveUpKeeps, CrashKeeps
<1>6. CASE \E c \in calls : Handle(c)
  BY <1>6, HandleKeeps
<1>7. CASE Settled
  BY <1>1, <1>7 DEF Settled
<1> QED BY <1>1, <1>2, <1>3, <1>4, <1>5, <1>6, <1>7 DEF Next

(* The invariant holds throughout: the tombstone and the journal exclude   *)
(* each other, and what a client concludes is what they say.               *)
THEOREM InductiveInvariant == Spec => []IInv
<1>1. Init => IInv
  BY InitIsInvariant
<1>2. IInv /\ [Next]_vars => IInv'
  BY NextKeeps
<1> QED BY <1>1, <1>2, PTL DEF Spec

(* Every variable keeps its type; at most one launch is among them. *)
THEOREM TypeCorrect == Spec => []TypeOK
<1>1. IInv => TypeOK
  BY DEF IInv, Types, WayTyped, RestTyped, TypeOK
<1> QED BY <1>1, InductiveInvariant, PTL

(* An operation retired as stopped has no finished execution, then or      *)
(* later (broker_process.retire, Engine.recover), whatever crashed and     *)
(* however late requests were handled.                                     *)
THEOREM NoResultDiscarded == Spec => []NothingDiscarded
<1>1. IInv => NothingDiscarded
  BY DEF IInv, Types, RestTyped, RecordFits, FilesExclude, Gone, NothingDiscarded
<1> QED BY <1>1, InductiveInvariant, PTL

(* A task goes on from an operation only when nothing of it runs, unless   *)
(* the broker died while it was launching (execution.reconcile).           *)
THEOREM SettledHasStopped == Spec => []SettledIsStopped
<1>1. IInv => SettledIsStopped
  BY DEF IInv, Types, RestTyped, RecordFits, Gone, Known, Stopped, SettledIsStopped
<1> QED BY <1>1, InductiveInvariant, PTL

(* An operation is launched once, and never after it was retired           *)
(* (broker_process.perform), by any transport and for any number of faults.*)
THEOREM LaunchedOnce == Spec => NoLateLaunch
<1>1. IInv /\ [Next]_vars => [launches' # launches => launches = 0 /\ status # "retired"]_vars
  BY NextKeeps
<1> QED BY <1>1, InductiveInvariant, PTL DEF Spec, NoLateLaunch

(***************************************************************************)
(* Outbound: what leaves the host through the broker's service, for any    *)
(* operators, operations, tasks and lifetimes.                             *)
(*                                                                         *)
(* What carries these proofs is that a reservation is consumed once: from  *)
(* then on it is with the one operator who made it, under way, in effect,  *)
(* or nowhere, and the record of it never changes again.                   *)
(***************************************************************************)

(* The types, apart from what a recovery has read. *)
OutboundTypes ==
    /\ epoch \in Epochs
    /\ listing \in Seq(Items)
    /\ late \subseteq Operations
    /\ state \in [Operations -> {"none", "prepared", "uncertain", "withdrawn"}]
    /\ scope \in [Operations -> Epochs]
    /\ step \in [Operators -> Steps]
    /\ on \in [Operators -> Operations \cup {None}]
    /\ preview \in [Operators -> Epochs]
    /\ age \in [Operators -> 0..ApprovalLife]
    /\ observed \in [Operators -> [age : 0..ApprovalLife, epoch : Epochs, clear : BOOLEAN]]

(* A task holds one slot in each journal. *)
SlotsHeld ==
    \A o, x \in Operations :
        o # x /\ Slot(o) = Slot(x) => ~(state[o] \in Live /\ state[x] \in Live)

(* An operator who is about something is about an operation; a reserved    *)
(* one is consumed for the preview its operator made; and what was         *)
(* reviewed was observed as it was previewed.                              *)
Confirmed(p) ==
    /\ observed[p].epoch = preview[p] /\ observed[p].clear
    /\ observed[p].age <= age[p]
OperatorFits(p) ==
    /\ step[p] # "idle" => on[p] \in Operations
    /\ step[p] = "reserved" => state[on[p]] = "uncertain" /\ Retains(p)
    /\ step[p] = "reviewed" /\ Family(p) \notin {"issue", "pull"} => Confirmed(p)
OperatorsFit == \A p \in Operators : OperatorFits(p)

(* An attempt is consumed by one operator. *)
ReservedOnce ==
    \A p, q \in Operators :
        step[p] = "reserved" /\ step[q] = "reserved" /\ on[p] = on[q] => p = q

OutboundInv ==
    OutboundTypes /\ SlotsHeld /\ OperatorsFit /\ ReservedOnce

-----------------------------------------------------------------------------
(* What it does to a listing when something is added to it or deleted. *)

In(x, s) == \E i \in DOMAIN s : s[i] = x
Once(x, s) == \A i, j \in DOMAIN s : s[i] = x /\ s[j] = x => i = j

LEMMA PutFirst ==
    ASSUME NEW S, NEW s \in Seq(S), NEW e \in S
    PROVE  /\ <<e>> \o s \in Seq(S)
           /\ \A x : In(x, <<e>> \o s) <=> x = e \/ In(x, s)
           /\ \A x : Once(x, s) /\ (x = e => ~In(e, s)) => Once(x, <<e>> \o s)
<1> DEFINE t == <<e>> \o s
<1>1. t \in Seq(S) /\ Len(t) = Len(s) + 1 /\ t[1] = e /\ \A i \in 1..Len(s) : t[i + 1] = s[i]
  BY ConcatProperties
<1>2. Len(s) \in Nat /\ DOMAIN s = 1..Len(s) /\ DOMAIN t = 1..(Len(s) + 1)
  BY <1>1, LenProperties
<1>3. \A i \in DOMAIN t : i = 1 \/ (i - 1 \in DOMAIN s /\ t[i] = s[i - 1])
  BY <1>1, <1>2
<1>4. \A i \in DOMAIN s : i + 1 \in DOMAIN t /\ t[i + 1] = s[i]
  BY <1>1, <1>2
<1> HIDE DEF t
<1>5. \A x : In(x, t) <=> x = e \/ In(x, s)
  <2>1. 1 \in DOMAIN t
    BY <1>2
  <2> QED BY <1>1, <1>3, <1>4, <2>1 DEF In
<1>7. ASSUME NEW x, Once(x, s), x = e => ~In(e, s) PROVE Once(x, t)
  <2> SUFFICES ASSUME NEW i \in DOMAIN t, NEW j \in DOMAIN t, t[i] = x, t[j] = x PROVE i = j
    BY DEF Once
  <2>1. CASE i = 1 \/ j = 1
    BY <1>1, <1>3, <1>7, <2>1 DEF In
  <2>2. CASE i # 1 /\ j # 1
    <3>1. i - 1 = j - 1
      BY <1>3, <1>7, <2>2 DEF Once
    <3> QED BY <1>2, <3>1
  <2> QED BY <2>1, <2>2
<1> QED BY <1>1, <1>5, <1>7 DEF t

LEMMA PutLast ==
    ASSUME NEW S, NEW s \in Seq(S), NEW e \in S
    PROVE  /\ Append(s, e) \in Seq(S)
           /\ \A x : In(x, Append(s, e)) <=> x = e \/ In(x, s)
           /\ \A x : Once(x, s) /\ (x = e => ~In(e, s)) => Once(x, Append(s, e))
<1> DEFINE t == Append(s, e)
<1>1. /\ t \in Seq(S) /\ Len(t) = Len(s) + 1 /\ t[Len(s) + 1] = e
      /\ \A i \in 1..Len(s) : t[i] = s[i]
  BY AppendProperties
<1>2. Len(s) \in Nat /\ DOMAIN s = 1..Len(s) /\ DOMAIN t = 1..(Len(s) + 1)
  BY <1>1, LenProperties
<1>3. \A i \in DOMAIN t : (i = Len(s) + 1 /\ t[i] = e) \/ (i \in DOMAIN s /\ t[i] = s[i])
  BY <1>1, <1>2
<1>4. \A i \in DOMAIN s : i \in DOMAIN t /\ t[i] = s[i]
  BY <1>1, <1>2
<1>5. Len(s) + 1 \in DOMAIN t /\ t[Len(s) + 1] = e
  BY <1>1, <1>2
<1> HIDE DEF t
<1>6. \A x : In(x, t) <=> x = e \/ In(x, s)
  BY <1>3, <1>4, <1>5 DEF In
<1>8. \A x : Once(x, s) /\ (x = e => ~In(e, s)) => Once(x, t)
  BY <1>3 DEF Once, In
<1> QED BY <1>1, <1>6, <1>8 DEF t

LEMMA TakeOut ==
    ASSUME NEW S, NEW s \in Seq(S), NEW k \in DOMAIN s
    PROVE  /\ RemoveAt(s, k) \in Seq(S)
           /\ \A x : In(x, RemoveAt(s, k)) => In(x, s)
           /\ \A x : In(x, s) /\ x # s[k] => In(x, RemoveAt(s, k))
           /\ \A x : Once(x, s) => Once(x, RemoveAt(s, k))
<1> DEFINE a == SubSeq(s, 1, k - 1)
           b == SubSeq(s, k + 1, Len(s))
           t == RemoveAt(s, k)
<1>1. Len(s) \in Nat /\ DOMAIN s = 1..Len(s) /\ k \in 1..Len(s)
  BY LenProperties
<1>2. a \in Seq(S) /\ Len(a) = k - 1 /\ \A i \in 1..(k - 1) : a[i] = s[i]
  BY <1>1, SubSeqProperties
<1>3. b \in Seq(S) /\ Len(b) = Len(s) - k /\ \A i \in 1..(Len(s) - k) : b[i] = s[k + i]
  BY <1>1, SubSeqProperties
<1>4. t = a \o b
  BY DEF RemoveAt
<1> HIDE DEF a, b, t
<1>5. /\ t \in Seq(S) /\ Len(t) = Len(s) - 1
      /\ \A i \in 1..(Len(s) - 1) : t[i] = IF i <= k - 1 THEN a[i] ELSE b[i - (k - 1)]
  <2>1. /\ t \in Seq(S) /\ Len(t) = Len(a) + Len(b)
        /\ \A i \in 1..(Len(a) + Len(b)) : t[i] = IF i <= Len(a) THEN a[i] ELSE b[i - Len(a)]
    BY <1>2, <1>3, <1>4, ConcatProperties
  <2>2. Len(a) = k - 1 /\ Len(a) + Len(b) = Len(s) - 1
    BY <1>1, <1>2, <1>3
  <2> QED BY <2>1, <2>2
<1>6. /\ DOMAIN t = 1..(Len(s) - 1)
      /\ \A i \in DOMAIN t : t[i] = IF i < k THEN s[i] ELSE s[i + 1]
  <2>1. DOMAIN t = 1..(Len(s) - 1)
    BY <1>5, LenProperties
  <2>2. ASSUME NEW i \in 1..(Len(s) - 1), i < k PROVE t[i] = s[i]
    BY <1>1, <1>2, <1>5, <2>2
  <2>3. ASSUME NEW i \in 1..(Len(s) - 1), ~(i < k) PROVE t[i] = s[i + 1]
    <3>1. i - (k - 1) \in 1..(Len(s) - k) /\ ~(i <= k - 1) /\ k + (i - (k - 1)) = i + 1
      BY <1>1, <2>3
    <3> QED BY <1>3, <1>5, <3>1
  <2> QED BY <2>1, <2>2, <2>3
<1>7. \A x : In(x, t) => In(x, s)
  BY <1>1, <1>6 DEF In
<1>8. \A x : In(x, s) /\ x # s[k] => In(x, t)
  <2> SUFFICES ASSUME NEW i \in DOMAIN s, i # k PROVE In(s[i], t)
    BY DEF In
  <2>1. CASE i < k
    BY <1>1, <1>6, <2>1 DEF In
  <2>2. CASE i > k
    <3>1. i - 1 \in DOMAIN t /\ t[i - 1] = s[i]
      BY <1>1, <1>6, <2>2
    <3> QED BY <3>1 DEF In
  <2> QED BY <1>1, <2>1, <2>2
<1>10. \A x : Once(x, s) => Once(x, t)
  BY <1>1, <1>6 DEF Once
<1> QED BY <1>5, <1>7, <1>8, <1>10 DEF t

-----------------------------------------------------------------------------
(* Steps of one operator. *)

LEMMA Bounds ==
    /\ ApprovalLife \in Nat /\ ApprovalLife # 0 /\ MaxEpoch \in Nat
    /\ \A n \in 0..ApprovalLife : Older(n) \in 0..ApprovalLife
    /\ \A m, n \in 0..ApprovalLife : m <= n => Older(m) <= Older(n)
    /\ Operations \cap Others = {} /\ None \notin Operations
<1>1. ApprovalLife \in Nat \ {0} /\ MaxEpoch \in Nat
  BY OutboundAssumption
<1>2. \A n \in 0..ApprovalLife : Older(n) = IF n + 1 < ApprovalLife THEN n + 1 ELSE ApprovalLife
  BY <1>1 DEF Older, Min2
<1>3. \A n \in 0..ApprovalLife : Older(n) \in 0..ApprovalLife
  BY <1>1, <1>2
<1>4. \A m, n \in 0..ApprovalLife : m <= n => Older(m) <= Older(n)
  BY <1>1, <1>2
<1> QED BY <1>1, <1>3, <1>4, OutboundAssumption

Same(q) ==
    /\ step'[q] = step[q] /\ on'[q] = on[q] /\ preview'[q] = preview[q]
    /\ age'[q] = age[q] /\ observed'[q] = observed[q]
OperatorTypes ==
    /\ step \in [Operators -> Steps]
    /\ on \in [Operators -> Operations \cup {None}]
    /\ preview \in [Operators -> Epochs]
    /\ age \in [Operators -> 0..ApprovalLife]
    /\ observed \in [Operators -> [age : 0..ApprovalLife, epoch : Epochs, clear : BOOLEAN]]

(* Who does nothing relies on no more than that a consumed attempt stays. *)
LEMMA OthersFit ==
    ASSUME OutboundInv, NEW q \in Operators, Same(q),
           step[q] = "reserved" => state'[on[q]] = "uncertain" /\ scope'[on[q]] = scope[on[q]]
    PROVE  OperatorFits(q)'
BY DEF OutboundInv, OperatorsFit, OperatorFits, Same, Retains, Family, Confirmed

(* A step of an operator that nobody else sees. *)
LEMMA LocalStep ==
    ASSUME OutboundInv, NEW p \in Operators, Local, OperatorTypes', step'[p] # "reserved",
           \A q \in Operators \ {p} : Same(q), OperatorFits(p)'
    PROVE  OutboundInv'
<1>1. UNCHANGED <<epoch, listing, late, state, scope>>
  BY DEF Local, remote, records
<1>2. OutboundTypes' /\ SlotsHeld'
  BY <1>1 DEF OutboundInv, OutboundTypes, OperatorTypes, SlotsHeld
<1>3. OperatorsFit'
  <2>1. ASSUME NEW q \in Operators, q # p PROVE OperatorFits(q)'
    BY <1>1, <2>1, OthersFit DEF OutboundInv, OperatorsFit, OperatorFits
  <2> QED BY <2>1 DEF OperatorsFit
<1>4. ReservedOnce'
  BY DEF OutboundInv, ReservedOnce, Same
<1> QED BY <1>2, <1>3, <1>4 DEF OutboundInv

(* An operator goes on to its next step. *)
LEMMA GotoStep ==
    ASSUME OutboundInv, NEW p \in Operators, NEW from, NEW to \in Steps, Goto(p, from, to)
    PROVE  /\ step[p] = from /\ step' \in [Operators -> Steps] /\ step'[p] = to
           /\ \A q \in Operators \ {p} : step'[q] = step[q]
BY DEF OutboundInv, OutboundTypes, Goto

LEMMA DropStep ==
    ASSUME OutboundInv, NEW p \in Operators, Drop(p)
    PROVE  /\ OperatorTypes' /\ step'[p] = "idle" /\ OperatorFits(p)'
           /\ \A q \in Operators \ {p} : Same(q)
<1>1. ApprovalLife \in 0..ApprovalLife /\ 0 \in Epochs
  BY Bounds DEF Epochs
<1>2. NotObserved \in [age : 0..ApprovalLife, epoch : Epochs, clear : BOOLEAN]
  BY <1>1 DEF NotObserved
<1>3. OperatorTypes' /\ step'[p] = "idle" /\ \A q \in Operators \ {p} : Same(q)
  BY <1>1, <1>2 DEF Drop, OutboundInv, OutboundTypes, OperatorTypes, Same, Steps
<1>4. OperatorFits(p)'
  BY <1>3 DEF OperatorFits
<1> QED BY <1>3, <1>4

LEMMA EndKeeps ==
    ASSUME OutboundInv, NEW p \in Operators, SendIsRefused(p) \/ BreakOff(p)
    PROVE  OutboundInv'
BY DropStep, LocalStep DEF SendIsRefused, BreakOff

LEMMA DeriveKeeps ==
    ASSUME OutboundInv, NEW p \in Operators, NEW o \in Operations, Derive(p, o)
    PROVE  OutboundInv'
<1>1. PICK to \in {"previewed", "searching"} : Goto(p, "idle", to)
  BY DEF Derive
<1>2. /\ step' \in [Operators -> Steps] /\ step'[p] = to
      /\ \A q \in Operators \ {p} : step'[q] = step[q]
  BY <1>1, GotoStep DEF Steps
<1>3. /\ on' = [on EXCEPT ![p] = o] /\ preview' = [preview EXCEPT ![p] = epoch]
      /\ UNCHANGED <<age, observed>> /\ Local
  BY DEF Derive
<1>4. OperatorTypes' /\ \A q \in Operators \ {p} : Same(q)
  BY <1>2, <1>3 DEF OutboundInv, OutboundTypes, OperatorTypes, Same
<1>5. on'[p] = o
  BY <1>3 DEF OutboundInv, OutboundTypes
<1>6. OperatorFits(p)'
  BY <1>2, <1>5 DEF OperatorFits
<1> QED BY <1>2, <1>3, <1>4, <1>6, LocalStep

(* A check changes nothing but where the operator stands. *)
LEMMA CheckStep ==
    ASSUME OutboundInv, NEW p \in Operators, NEW from \in Steps \ {"idle"}, NEW to \in Steps \ {"reserved"},
           Goto(p, from, to), UNCHANGED <<on, atHand>>, Local,
           to = "reviewed" /\ Family(p) \notin {"issue", "pull"} => Confirmed(p)
    PROVE  OutboundInv'
<1>1. /\ step[p] = from /\ step' \in [Operators -> Steps] /\ step'[p] = to
      /\ \A q \in Operators \ {p} : step'[q] = step[q]
  BY GotoStep
<1>2. UNCHANGED <<on, preview, age, observed>>
  BY DEF atHand
<1>3. OperatorTypes' /\ \A q \in Operators \ {p} : Same(q)
  BY <1>1, <1>2 DEF OutboundInv, OutboundTypes, OperatorTypes, Same
<1>4. OperatorFits(p)'
  BY <1>1, <1>2 DEF OutboundInv, OperatorsFit, OperatorFits, Family, Confirmed
<1> QED BY <1>1, <1>3, <1>4, LocalStep

LEMMA ChecksKeep ==
    ASSUME OutboundInv, NEW p \in Operators,
           \/ FetchListing(p) \/ CheckApproval(p) \/ PlanObservation(p)
           \/ PackageSnapshot(p) \/ Review(p) \/ FinalCheck(p)
    PROVE  OutboundInv'
<1>1. /\ {"searching", "approved", "transcribed", "observed", "reviewed"} \subseteq Steps \ {"idle"}
      /\ {"previewed", "current", "observing", "observed", "reviewed"} \subseteq Steps \ {"reserved"}
  BY DEF Steps
<1>2. CASE FetchListing(p)
  BY <1>1, <1>2, CheckStep DEF FetchListing
<1>3. CASE CheckApproval(p)
  BY <1>1, <1>3, CheckStep DEF CheckApproval
<1>4. CASE PlanObservation(p)
  BY <1>1, <1>4, CheckStep DEF PlanObservation
<1>5. CASE PackageSnapshot(p)
  BY <1>1, <1>5, CheckStep DEF PackageSnapshot
<1>6. CASE Review(p)
  BY <1>1, <1>6, CheckStep DEF Review, ObservationHolds, Confirmed
<1>7. CASE FinalCheck(p)
  BY <1>1, <1>7, CheckStep DEF FinalCheck
<1> QED BY <1>2, <1>3, <1>4, <1>5, <1>6, <1>7

LEMMA PrepareApprovalKeeps ==
    ASSUME OutboundInv, NEW p \in Operators, PrepareApproval(p) PROVE OutboundInv'
<1>1. PICK to \in {"approved", "observed"} :
      /\ step[p] \in {"staged", "observed"} /\ step' = [step EXCEPT ![p] = to]
      /\ age' = [age EXCEPT ![p] = 0] /\ UNCHANGED <<on, preview, observed>> /\ Local
  BY DEF PrepareApproval
<1>2. 0 \in 0..ApprovalLife
  BY Bounds
<1>3. OperatorTypes' /\ step'[p] = to /\ \A q \in Operators \ {p} : Same(q)
  BY <1>1, <1>2 DEF OutboundInv, OutboundTypes, OperatorTypes, Same, Steps
<1>4. OperatorFits(p)'
  BY <1>1, <1>3 DEF OutboundInv, OperatorsFit, OperatorFits
<1> QED BY <1>1, <1>3, <1>4, LocalStep

LEMMA ObserveKeeps == ASSUME OutboundInv, NEW p \in Operators, Observe(p) PROVE OutboundInv'
<1>1. PICK to \in {"transcribed", "observed"} : Goto(p, "observing", to)
  BY DEF Observe
<1>2. /\ step[p] = "observing" /\ step' \in [Operators -> Steps] /\ step'[p] = to
      /\ \A q \in Operators \ {p} : step'[q] = step[q]
  BY <1>1, GotoStep DEF Steps
<1>3. PICK seen \in [age : 0..ApprovalLife, epoch : Epochs, clear : BOOLEAN] :
      observed' = [observed EXCEPT ![p] = seen]
  <2>1. 0 \in 0..ApprovalLife /\ epoch \in Epochs /\ Untracked(p) \in BOOLEAN
    BY Bounds DEF OutboundInv, OutboundTypes, Untracked
  <2> QED BY <2>1 DEF Observe
<1>4. UNCHANGED <<on, preview, age>> /\ Local
  BY DEF Observe
<1>5. OperatorTypes' /\ \A q \in Operators \ {p} : Same(q)
  BY <1>2, <1>3, <1>4 DEF OutboundInv, OutboundTypes, OperatorTypes, Same
<1>6. OperatorFits(p)'
  BY <1>2, <1>4 DEF OutboundInv, OperatorsFit, OperatorFits
<1> QED BY <1>2, <1>4, <1>5, <1>6, LocalStep

-----------------------------------------------------------------------------
(* The journals. *)

LEMMA StageKeeps == ASSUME OutboundInv, NEW p \in Operators, Stage(p) PROVE OutboundInv'
<1> DEFINE o == on[p]
<1>1. /\ Goto(p, "previewed", "staged") /\ UNCHANGED <<remote, late, on, atHand, reader>>
      /\ \/ /\ Holding(o) = {}
            /\ state' = [state EXCEPT ![o] = "prepared"]
            /\ scope' = [scope EXCEPT ![o] = preview[p]]
         \/ UNCHANGED records
  BY DEF Stage
<1>2. /\ step[p] = "previewed" /\ step' \in [Operators -> Steps] /\ step'[p] = "staged"
      /\ \A q \in Operators \ {p} : step'[q] = step[q]
  BY <1>1, GotoStep DEF Steps
<1>3. UNCHANGED <<epoch, listing, late, on, preview, age, observed>>
  BY <1>1 DEF remote, atHand
<1>4. OperatorTypes' /\ \A q \in Operators \ {p} : Same(q)
  BY <1>2, <1>3 DEF OutboundInv, OutboundTypes, OperatorTypes, Same
<1>5. o \in Operations
  BY <1>2 DEF OutboundInv, OperatorsFit, OperatorFits
<1>6. OperatorFits(p)'
  BY <1>2, <1>3, <1>5 DEF OperatorFits
<1>7. CASE UNCHANGED records
  BY <1>1, <1>2, <1>4, <1>6, <1>7, LocalStep DEF Local
<1>8. CASE /\ Holding(o) = {}
           /\ state' = [state EXCEPT ![o] = "prepared"]
           /\ scope' = [scope EXCEPT ![o] = preview[p]]
  <2>1. state[o] = "none" /\ \A x \in Operations : Slot(x) = Slot(o) => state[x] \notin Live
    BY <1>5, <1>8 DEF Holding
  <2>2. /\ OutboundTypes' /\ state'[o] = "prepared"
        /\ \A x \in Operations \ {o} : state'[x] = state[x] /\ scope'[x] = scope[x]
    BY <1>3, <1>4, <1>5, <1>8 DEF OutboundInv, OutboundTypes, OperatorTypes
  <2>3. SlotsHeld'
    BY <1>5, <2>1, <2>2 DEF OutboundInv, SlotsHeld
  <2>4. OperatorsFit'
    <3>1. ASSUME NEW q \in Operators, q # p PROVE OperatorFits(q)'
      <4>1. step[q] = "reserved" => on[q] \in Operations \ {o} /\ state[on[q]] = "uncertain"
        BY <2>1 DEF OutboundInv, OperatorsFit, OperatorFits
      <4> QED BY <1>4, <2>2, <3>1, <4>1, OthersFit
    <3> QED BY <1>6, <3>1 DEF OperatorsFit
  <2>5. ReservedOnce'
    BY <1>2, <1>3 DEF OutboundInv, ReservedOnce
  <2> QED BY <2>2, <2>3, <2>4, <2>5 DEF OutboundInv
<1> QED BY <1>1, <1>7, <1>8

LEMMA ReserveKeeps == ASSUME OutboundInv, NEW p \in Operators, Reserve(p) PROVE OutboundInv'
<1> DEFINE o == on[p]
<1>1. /\ step[p] \in Staged /\ state[o] = "prepared" /\ scope[o] = preview[p]
      /\ step' = [step EXCEPT ![p] = "reserved"]
      /\ state' = [state EXCEPT ![o] = "uncertain"]
      /\ UNCHANGED <<remote, late, scope, on, atHand, reader>>
  BY DEF Reserve, Reservable, Prepared, Retains
<1>2. /\ step[p] # "idle" /\ step' \in [Operators -> Steps] /\ step'[p] = "reserved"
      /\ \A q \in Operators \ {p} : step'[q] = step[q]
  BY <1>1 DEF OutboundInv, OutboundTypes, Staged, Steps
<1>3. UNCHANGED <<epoch, listing, late, on, preview, age, observed>>
  BY <1>1 DEF remote, atHand
<1>4. OperatorTypes' /\ \A q \in Operators \ {p} : Same(q)
  BY <1>2, <1>3 DEF OutboundInv, OutboundTypes, OperatorTypes, Same
<1>5. OperatorFits(p) /\ o \in Operations
  BY <1>2 DEF OutboundInv, OperatorsFit, OperatorFits
<1>6. /\ OutboundTypes' /\ state'[o] = "uncertain"
      /\ \A x \in Operations \ {o} : state'[x] = state[x]
  BY <1>1, <1>3, <1>4, <1>5 DEF OutboundInv, OutboundTypes, OperatorTypes
<1>7. SlotsHeld'
  BY <1>1, <1>5, <1>6 DEF OutboundInv, SlotsHeld, Live
<1>8. OperatorFits(p)'
  BY <1>1, <1>2, <1>3, <1>5, <1>6 DEF OperatorFits, Retains
<1>9. OperatorsFit'
  <2>1. ASSUME NEW q \in Operators, q # p PROVE OperatorFits(q)'
    <3>1. step[q] = "reserved" => on[q] \in Operations /\ state[on[q]] = "uncertain"
      BY DEF OutboundInv, OperatorsFit, OperatorFits
    <3> QED BY <1>1, <1>4, <1>6, <2>1, <3>1, OthersFit
  <2> QED BY <1>8, <2>1 DEF OperatorsFit
<1>10. ReservedOnce'
  <2>1. \A q \in Operators : step[q] = "reserved" => on[q] # o
    BY <1>1 DEF OutboundInv, OperatorsFit, OperatorFits
  <2> QED BY <1>2, <1>3, <2>1 DEF OutboundInv, ReservedOnce
<1> QED BY <1>6, <1>7, <1>9, <1>10 DEF OutboundInv

LEMMA WithdrawKeeps ==
    ASSUME OutboundInv, NEW p \in Operators, NEW o \in Operations, Withdraw(p, o)
    PROVE  OutboundInv'
<1>1. /\ state[o] = "prepared" /\ state' = [state EXCEPT ![o] = "withdrawn"]
      /\ UNCHANGED <<epoch, listing, late, scope, step, on, preview, age, observed>>
  BY DEF Withdraw, Withdrawable, remote, atHand
<1>2. OutboundTypes' /\ state'[o] = "withdrawn" /\ \A x \in Operations \ {o} : state'[x] = state[x]
  BY <1>1 DEF OutboundInv, OutboundTypes
<1>3. SlotsHeld'
  BY <1>2 DEF OutboundInv, SlotsHeld, Live
<1>4. OperatorsFit'
  <2>1. ASSUME NEW q \in Operators PROVE OperatorFits(q)'
    <3>1. step[q] = "reserved" => on[q] \in Operations \ {o} /\ state[on[q]] = "uncertain"
      BY <1>1 DEF OutboundInv, OperatorsFit, OperatorFits
    <3> QED BY <1>1, <1>2, <3>1, OthersFit DEF Same
  <2> QED BY <2>1 DEF OperatorsFit
<1>5. ReservedOnce'
  BY <1>1 DEF OutboundInv, ReservedOnce
<1> QED BY <1>2, <1>3, <1>4, <1>5 DEF OutboundInv

-----------------------------------------------------------------------------
(* Requests, and what becomes of them. *)

LEMMA ShownAdds ==
    ASSUME OutboundInv, NEW o \in Operations
    PROVE  /\ Shown(o) \in Seq(Items)
           /\ \A x : In(x, Shown(o)) <=> x = o \/ In(x, listing)
           /\ \A z \in Others : Once(z, listing) => Once(z, Shown(o))
<1>1. listing \in Seq(Items) /\ o \in Items /\ o \notin Others
  BY Bounds DEF OutboundInv, OutboundTypes, Items
<1>2. /\ <<o>> \o listing \in Seq(Items)
      /\ \A x : In(x, <<o>> \o listing) <=> x = o \/ In(x, listing)
      /\ \A z \in Others : Once(z, listing) => Once(z, <<o>> \o listing)
  BY <1>1, PutFirst
<1>3. /\ Append(listing, o) \in Seq(Items)
      /\ \A x : In(x, Append(listing, o)) <=> x = o \/ In(x, listing)
      /\ \A z \in Others : Once(z, listing) => Once(z, Append(listing, o))
  BY <1>1, PutLast
<1> QED BY <1>2, <1>3 DEF Shown

(* An operator sends, and is done: the effect shows, or may show later. *)
LEMMA SendKeeps ==
    ASSUME OutboundInv, NEW p \in Operators, SendTakesEffect(p) \/ SendHangs(p)
    PROVE  OutboundInv'
<1>1. PICK o \in Operations : o = on[p]
  BY DEF SendTakesEffect, SendHangs, MaySend, OutboundInv, OperatorsFit, OperatorFits
<1>2. /\ Drop(p) /\ UNCHANGED <<epoch, records>>
      /\ \/ listing' = Shown(o) /\ late' = late
         \/ listing' = listing /\ late' = late \cup {o}
  BY <1>1 DEF SendTakesEffect, SendHangs, remote
<1>3. /\ OperatorTypes' /\ step'[p] = "idle" /\ OperatorFits(p)'
      /\ \A q \in Operators \ {p} : Same(q)
  BY <1>2, DropStep
<1>4. UNCHANGED <<state, scope>>
  BY <1>2 DEF records
<1>5. OutboundTypes' /\ SlotsHeld'
  BY <1>2, <1>3, <1>4, ShownAdds DEF OutboundInv, OutboundTypes, OperatorTypes, SlotsHeld
<1>6. OperatorsFit'
  <2>1. ASSUME NEW q \in Operators, q # p PROVE OperatorFits(q)'
    BY <1>3, <1>4, <2>1, OthersFit DEF OutboundInv, OperatorsFit, OperatorFits
  <2> QED BY <1>3, <2>1 DEF OperatorsFit
<1>7. ReservedOnce'
  BY <1>3 DEF OutboundInv, ReservedOnce, Same
<1> QED BY <1>5, <1>6, <1>7 DEF OutboundInv

(* A change of what the remote shows. *)
LEMMA RemoteStep ==
    ASSUME OutboundInv, UNCHANGED <<state, scope, step, on, preview, age, observed>>,
           epoch' \in Epochs, listing' \in Seq(Items), late' \subseteq Operations
    PROVE  OutboundInv'
<1>1. OutboundTypes' /\ SlotsHeld'
  BY DEF OutboundInv, OutboundTypes, SlotsHeld
<1>2. OperatorsFit'
  BY OthersFit DEF OutboundInv, OperatorsFit, OperatorFits, Same
<1>3. ReservedOnce'
  BY DEF OutboundInv, ReservedOnce
<1> QED BY <1>1, <1>2, <1>3 DEF OutboundInv

(* Others delete only what is theirs, and write a thing once. *)
LEMMA OthersWrite ==
    ASSUME OutboundInv, RemoteChanges
    PROVE  /\ listing' \in Seq(Items)
           /\ \A o \in Operations : In(o, listing) => In(o, listing')
           /\ (\A z \in Others : Once(z, listing)) => \A z \in Others : Once(z, listing')
<1>1. listing \in Seq(Items) /\ Others \subseteq Items /\ Operations \cap Others = {}
  BY Bounds DEF OutboundInv, OutboundTypes, Items
<1>2. CASE UNCHANGED listing
  BY <1>1, <1>2
<1>3. ASSUME NEW z \in Others \ ToSet(listing), listing' \in {<<z>> \o listing, Append(listing, z)}
      PROVE  /\ listing' \in Seq(Items)
             /\ \A o \in Operations : In(o, listing) => In(o, listing')
             /\ (\A x \in Others : Once(x, listing)) => \A x \in Others : Once(x, listing')
  <2>1. ~In(z, listing) /\ z \in Items
    BY <1>1, <1>3 DEF ToSet, In
  <2>2. CASE listing' = <<z>> \o listing
    BY <1>1, <2>1, <2>2, PutFirst
  <2>3. CASE listing' = Append(listing, z)
    BY <1>1, <2>1, <2>3, PutLast
  <2> QED BY <1>3, <2>2, <2>3
<1>4. ASSUME NEW i \in DOMAIN listing, listing[i] \in Others, listing' = RemoveAt(listing, i)
      PROVE  /\ listing' \in Seq(Items)
             /\ \A o \in Operations : In(o, listing) => In(o, listing')
             /\ (\A x \in Others : Once(x, listing)) => \A x \in Others : Once(x, listing')
  BY <1>1, <1>4, TakeOut
<1> QED BY <1>2, <1>3, <1>4 DEF RemoteChanges

LEMMA RemoteMovesKeep ==
    ASSUME OutboundInv, RemoteChanges \/ \E o \in Operations : LateArrives(o)
    PROVE  OutboundInv'
<1>1. CASE RemoteChanges
  <2>1. /\ epoch' \in Epochs /\ late' \subseteq Operations
        /\ UNCHANGED <<state, scope, step, on, preview, age, observed>>
    BY <1>1, Bounds DEF RemoteChanges, records, atHand, OutboundInv, OutboundTypes, Epochs
  <2> QED BY <1>1, <2>1, OthersWrite, RemoteStep
<1>2. ASSUME NEW o \in Operations, LateArrives(o) PROVE OutboundInv'
  <2>1. /\ epoch' \in Epochs /\ late' \subseteq Operations /\ listing' = Shown(o)
        /\ UNCHANGED <<state, scope, step, on, preview, age, observed>>
    BY <1>2 DEF LateArrives, records, atHand, OutboundInv, OutboundTypes
  <2> QED BY <2>1, ShownAdds, RemoteStep
<1> QED BY <1>1, <1>2

(* Both clocks of an operator go on together. *)
LEMMA TickKeeps == ASSUME OutboundInv, Tick PROVE OutboundInv'
<1>1. /\ age' = [p \in Operators |-> Older(age[p])]
      /\ observed' = [p \in Operators |-> [observed[p] EXCEPT !.age = Older(observed[p].age)]]
      /\ UNCHANGED <<epoch, listing, late, state, scope, step, on, preview>>
  BY DEF Tick, remote, records
<1>2. ASSUME NEW p \in Operators
      PROVE  /\ age'[p] \in 0..ApprovalLife
             /\ observed'[p] \in [age : 0..ApprovalLife, epoch : Epochs, clear : BOOLEAN]
             /\ observed'[p].epoch = observed[p].epoch /\ observed'[p].clear = observed[p].clear
             /\ observed[p].age <= age[p] => observed'[p].age <= age'[p]
  <2>1. age[p] \in 0..ApprovalLife /\ observed[p] \in [age : 0..ApprovalLife, epoch : Epochs, clear : BOOLEAN]
    BY DEF OutboundInv, OutboundTypes
  <2>2. /\ Older(age[p]) \in 0..ApprovalLife /\ Older(observed[p].age) \in 0..ApprovalLife
        /\ observed[p].age <= age[p] => Older(observed[p].age) <= Older(age[p])
    BY <2>1, Bounds
  <2>3. age'[p] = Older(age[p]) /\ observed'[p] = [observed[p] EXCEPT !.age = Older(observed[p].age)]
    BY <1>1
  <2> QED BY <2>1, <2>2, <2>3
<1>3. OutboundTypes' /\ SlotsHeld'
  BY <1>1, <1>2 DEF OutboundInv, OutboundTypes, SlotsHeld
<1>4. OperatorsFit'
  BY <1>1, <1>2 DEF OutboundInv, OperatorsFit, OperatorFits, Retains, Family, Confirmed
<1>5. ReservedOnce'
  BY <1>1 DEF OutboundInv, ReservedOnce
<1> QED BY <1>3, <1>4, <1>5 DEF OutboundInv

(* Recovery reads, and changes nothing but what it has read. *)
LEMMA RecoveryKeeps ==
    ASSUME OutboundInv, (\E o \in Operations : PlanRecovery(o)) \/ ReadPage \/ Assess \/ UNCHANGED outboundVars
    PROVE  OutboundInv'
<1>1. UNCHANGED <<remote, late, records, step, on, atHand>>
  <2>1. CASE ReadPage
    BY <2>1 DEF ReadPage
  <2>2. CASE Assess \/ \E o \in Operations : PlanRecovery(o)
    BY <2>2 DEF PlanRecovery, Assess
  <2>3. CASE UNCHANGED outboundVars
    BY <2>3 DEF outboundVars
  <2> QED BY <2>1, <2>2, <2>3
<1>2. UNCHANGED <<epoch, listing, late, state, scope, step, on, preview, age, observed>>
  BY <1>1 DEF remote, records, atHand
<1>3. OutboundTypes' /\ SlotsHeld' /\ OperatorsFit' /\ ReservedOnce'
  BY <1>2 DEF OutboundInv, OutboundTypes, SlotsHeld, OperatorsFit, OperatorFits, Retains, Family,
              Confirmed, ReservedOnce
<1> QED BY <1>3 DEF OutboundInv

-----------------------------------------------------------------------------
LEMMA OutboundInitFits == OutboundInit => OutboundInv
<1> SUFFICES ASSUME OutboundInit PROVE OutboundInv
  OBVIOUS
<1>1. /\ epoch = 0 /\ listing \in Before /\ late = {}
      /\ step = [p \in Operators |-> "idle"] /\ on = [p \in Operators |-> None]
      /\ scope = [o \in Operations |-> 0] /\ preview = [p \in Operators |-> 0]
      /\ age = [p \in Operators |-> ApprovalLife] /\ observed = [p \in Operators |-> NotObserved]
  BY DEF OutboundInit
<1>2. /\ state \in [Operations -> {"none", "prepared", "uncertain", "withdrawn"}]
      /\ \A o \in Operations : state[o] \in {"none", "withdrawn"}
  BY DEF OutboundInit
<1>3. 0 \in Epochs /\ ApprovalLife \in 0..ApprovalLife
  BY Bounds DEF Epochs
<1>4. NotObserved \in [age : 0..ApprovalLife, epoch : Epochs, clear : BOOLEAN]
  BY <1>3 DEF NotObserved
<1>5. listing \in Seq(Items)
  <2>1. listing \in Seq(Others)
    BY <1>1, OutboundAssumption
  <2>2. Others \subseteq Items
    BY DEF Items
  <2> QED BY <2>1, <2>2, SeqMonotonic
<1>6. OutboundTypes
  BY <1>1, <1>2, <1>3, <1>4, <1>5 DEF OutboundTypes, Steps
<1>7. SlotsHeld
  BY <1>2 DEF SlotsHeld, Live
<1>8. \A p \in Operators : step[p] = "idle"
  BY <1>1
<1>9. OperatorsFit
  BY <1>8 DEF OperatorsFit, OperatorFits
<1>10. ReservedOnce
  BY <1>8 DEF ReservedOnce
<1> QED BY <1>6, <1>7, <1>9, <1>10 DEF OutboundInv

LEMMA OutboundStepKeeps == ASSUME OutboundInv, [OutboundNext]_outboundVars PROVE OutboundInv'
<1>1. ASSUME NEW p \in Operators, NEW o \in Operations, Derive(p, o) \/ Withdraw(p, o)
      PROVE  OutboundInv'
  BY <1>1, DeriveKeeps, WithdrawKeeps
<1>2. ASSUME NEW p \in Operators,
             \/ FetchListing(p) \/ CheckApproval(p) \/ PlanObservation(p)
             \/ PackageSnapshot(p) \/ Review(p) \/ FinalCheck(p)
      PROVE  OutboundInv'
  BY <1>2, ChecksKeep
<1>3. ASSUME NEW p \in Operators, Stage(p) \/ Reserve(p) \/ PrepareApproval(p) \/ Observe(p)
      PROVE  OutboundInv'
  BY <1>3, StageKeeps, ReserveKeeps, PrepareApprovalKeeps, ObserveKeeps
<1>4. ASSUME NEW p \in Operators,
             SendTakesEffect(p) \/ SendIsRefused(p) \/ SendHangs(p) \/ BreakOff(p)
      PROVE  OutboundInv'
  BY <1>4, SendKeeps, EndKeeps
<1>5. CASE RemoteChanges \/ \E o \in Operations : LateArrives(o)
  BY <1>5, RemoteMovesKeep
<1>6. CASE Tick
  BY <1>6, TickKeeps
<1>7. CASE (\E o \in Operations : PlanRecovery(o)) \/ ReadPage \/ Assess \/ UNCHANGED outboundVars
  BY <1>7, RecoveryKeeps
<1> QED BY <1>1, <1>2, <1>3, <1>4, <1>5, <1>6, <1>7 DEF OutboundNext

(* Journals, operators and the remote agree in every state that can be     *)
(* reached, for any operators, operations, tasks and lifetimes, with and   *)
(* without a reservation before a request.                                 *)
THEOREM OutboundInvariant == OutboundSpec => []OutboundInv
BY OutboundInitFits, OutboundStepKeeps, PTL DEF OutboundSpec

(* A task and journal have one live operation, and an attempt is consumed  *)
(* by one operator, the only one to send it: however many operators        *)
(* reserve, whatever each has checked before, and whatever was withdrawn   *)
(* and replaced in the meantime.                                           *)
THEOREM OneReservationHolds == OutboundSpec => []OneReservation
<1>1. ASSUME OutboundInv PROVE OneReservation
  <2>1. /\ \A o, x \in Operations :
              o # x /\ Slot(o) = Slot(x) => state[o] \notin Live \/ state[x] \notin Live
    BY <1>1 DEF OutboundInv, SlotsHeld
  <2>2. \A p \in Operators : step[p] = "reserved" =>
            on[p] \in Operations /\ state[on[p]] = "uncertain" /\ Retains(p)
    BY <1>1 DEF OutboundInv, OperatorsFit, OperatorFits
  <2>3. \A p, q \in Operators :
            p # q /\ step[p] = "reserved" /\ step[q] = "reserved" => on[p] # on[q]
    BY <1>1 DEF OutboundInv, ReservedOnce
  <2> QED BY <2>1, <2>2, <2>3 DEF OneReservation, Live
<1> QED BY <1>1, OutboundInvariant, PTL

(* Only two checks clear an operator to send. *)
LEMMA WhoClears ==
    ASSUME OutboundInv, [OutboundNext]_outboundVars,
           NEW p \in Operators, step[p] # "current", step'[p] = "current"
    PROVE  CheckApproval(p) \/ FinalCheck(p)
<1>1. ASSUME NEW q \in Operators, NEW from, NEW to \in Steps, Goto(q, from, to), q # p \/ to # "current"
      PROVE  FALSE
  BY <1>1, GotoStep
<1>2. ASSUME NEW q \in Operators, Drop(q) PROVE FALSE
  BY <1>2, DropStep DEF Same
<1>3. ASSUME NEW q \in Operators,
             \/ FetchListing(q) \/ PlanObservation(q) \/ Observe(q) \/ PackageSnapshot(q)
             \/ Review(q) \/ Stage(q) \/ \E o \in Operations : Derive(q, o)
      PROVE  FALSE
  BY <1>1, <1>3 DEF FetchListing, PlanObservation, Observe, PackageSnapshot, Review, Stage, Derive, Steps
<1>4. ASSUME NEW q \in Operators, q # p, CheckApproval(q) \/ FinalCheck(q) PROVE FALSE
  BY <1>1, <1>4 DEF CheckApproval, FinalCheck, Steps
<1>5. ASSUME NEW q \in Operators, Reserve(q) \/ PrepareApproval(q) PROVE FALSE
  BY <1>5 DEF Reserve, PrepareApproval, OutboundInv, OutboundTypes
<1>6. ASSUME NEW q \in Operators,
             SendTakesEffect(q) \/ SendIsRefused(q) \/ SendHangs(q) \/ BreakOff(q)
      PROVE  FALSE
  BY <1>2, <1>6 DEF SendTakesEffect, SendIsRefused, SendHangs, BreakOff
<1>7. ASSUME step' = step PROVE FALSE
  BY <1>7
<1>8. ASSUME \/ \E q \in Operators, o \in Operations : Withdraw(q, o)
             \/ \E o \in Operations : PlanRecovery(o) \/ LateArrives(o)
             \/ ReadPage \/ Assess \/ RemoteChanges \/ Tick \/ UNCHANGED outboundVars
      PROVE  step' = step
  BY <1>8 DEF Withdraw, PlanRecovery, LateArrives, ReadPage, Assess, RemoteChanges, Tick, outboundVars
<1> QED BY <1>3, <1>4, <1>5, <1>6, <1>7, <1>8 DEF OutboundNext

(* Who is cleared to send saw, but for an issue, the remote as it was in   *)
(* the preview, once the approval was issued and not long ago, and what is *)
(* on record is what was previewed: for every lifetime, however many       *)
(* operators stage, withdraw and reserve in between.                       *)
THEOREM ClearancesAreObserved == OutboundSpec => ClearedWasSeen
<1>1. ASSUME OutboundInv, [OutboundNext]_outboundVars,
             NEW p \in Operators, step[p] # "current", step'[p] = "current"
      PROVE  /\ state[on[p]] = "prepared" /\ Retains(p) /\ age[p] < ApprovalLife
             /\ Family(p) # "issue" =>
                 /\ observed[p].epoch = scope[on[p]] /\ observed[p].clear
                 /\ observed[p].age <= age[p] /\ Young(p)
  <2>1. CASE CheckApproval(p)
    BY <2>1 DEF CheckApproval, Unblocked, Prepared
  <2>2. CASE FinalCheck(p)
    <3>1. step[p] = "reviewed" /\ Unblocked(p) /\ IF Family(p) = "pull" THEN ObservationHolds(p) ELSE Young(p)
      BY <2>2 DEF FinalCheck, Goto, Finally
    <3>2. Family(p) # "issue" => Confirmed(p) /\ Young(p)
      BY <1>1, <3>1 DEF ObservationHolds, Confirmed, OutboundInv, OperatorsFit, OperatorFits
    <3> QED BY <3>1, <3>2 DEF Unblocked, Prepared, Retains, Confirmed
  <2> QED BY <1>1, <2>1, <2>2, WhoClears
<1>2. OutboundInv /\ [OutboundNext]_outboundVars =>
          [\A p \in Operators : step[p] # "current" /\ step'[p] = "current" =>
              /\ state[on[p]] = "prepared" /\ Retains(p) /\ age[p] < ApprovalLife
              /\ Family(p) # "issue" =>
                  /\ observed[p].epoch = scope[on[p]] /\ observed[p].clear
                  /\ observed[p].age <= age[p] /\ Young(p)]_outboundVars
  BY <1>1
<1> QED BY <1>2, OutboundInvariant, PTL DEF OutboundSpec, ClearedWasSeen

-----------------------------------------------------------------------------
(* Sequences joined, and the pages of a listing. *)

(* Counting up from 0 reaches every number: there is no least one missing. *)
LEMMA CountingUp ==
    ASSUME NEW T, 0 \in T, \A n \in Nat : n \in T => n + 1 \in T
    PROVE  Nat \subseteq T
<1> DEFINE R == OpToRel(<, Nat)
           Missing == Nat \ T
<1>1. IsWellFoundedOn(R, Nat)
  BY NatLessThanWellFounded
<1>2. \A x, y \in Nat : x < y => <<x, y>> \in R
  BY DEF OpToRel
<1> HIDE DEF R
<1>3. ASSUME Missing # {} PROVE FALSE
  <2>1. Missing \subseteq Nat
    OBVIOUS
  <2> HIDE DEF Missing
  <2>2. PICK x \in Missing : \A y \in Missing : ~ (<<y, x>> \in R)
    BY <1>1, <1>3, <2>1, WFMin
  <2>3. x \in Nat /\ x \notin T /\ x # 0
    BY <2>2 DEF Missing
  <2>4. x - 1 \in Nat /\ x - 1 < x /\ (x - 1) + 1 = x
    BY <2>3
  <2>5. x - 1 \notin T
    BY <2>3, <2>4
  <2> QED BY <1>2, <2>2, <2>3, <2>4, <2>5 DEF Missing
<1> QED BY <1>3

(* FlattenSeq joins a sequence of sequences by a function of how many are  *)
(* joined; what is joined so far does not depend on what comes after.      *)
Unrolls(f, ss, n) == f = [i \in 1..n |-> IF i = 1 THEN ss[i] ELSE f[i - 1] \o ss[i]]

LEMMA UnrollsExists == ASSUME NEW ss, NEW n \in Nat PROVE \E f : Unrolls(f, ss, n)
<1> DEFINE T == {m \in Nat : \E f : Unrolls(f, ss, m)}
<1>1. 0 \in T
  <2>1. Unrolls([i \in 1..0 |-> <<>>], ss, 0)
    BY DEF Unrolls
  <2> QED BY <2>1
<1>2. ASSUME NEW m \in T PROVE m + 1 \in T
  <2>1. PICK f : Unrolls(f, ss, m)
    OBVIOUS
  <2> DEFINE g == [i \in 1..(m + 1) |-> IF i = m + 1 THEN IF i = 1 THEN ss[i] ELSE f[m] \o ss[i] ELSE f[i]]
  <2>2. \A i \in 1..(m + 1) : g[i] = IF i = 1 THEN ss[i] ELSE g[i - 1] \o ss[i]
    <3> SUFFICES ASSUME NEW i \in 1..(m + 1) PROVE g[i] = IF i = 1 THEN ss[i] ELSE g[i - 1] \o ss[i]
      OBVIOUS
    <3>0. m \in Nat
      OBVIOUS
    <3>1. CASE i = m + 1
      BY <3>0, <3>1
    <3>2. CASE i # m + 1
      <4>1. i \in 1..m /\ (i # 1 => i - 1 \in 1..(m + 1) /\ i - 1 # m + 1)
        BY <3>0, <3>2
      <4>2. g[i] = f[i] /\ (i # 1 => g[i - 1] = f[i - 1])
        BY <4>1, <3>2
      <4>3. f[i] = IF i = 1 THEN ss[i] ELSE f[i - 1] \o ss[i]
        BY <2>1, <4>1 DEF Unrolls
      <4> QED BY <4>2, <4>3
    <3> QED BY <3>1, <3>2
  <2>3. g = [i \in 1..(m + 1) |-> IF i = 1 THEN ss[i] ELSE g[i - 1] \o ss[i]]
    BY <2>2
  <2>4. Unrolls(g, ss, m + 1)
    BY <2>3 DEF Unrolls
  <2> QED BY <2>4
<1> HIDE DEF T
<1>3. Nat \subseteq T
  BY <1>1, <1>2, CountingUp
<1> QED BY <1>3 DEF T

LEMMA UnrollsAgree ==
    ASSUME NEW S, NEW ss, NEW n \in Nat, NEW tt, NEW k \in Nat, NEW f, NEW g, n <= k,
           \A i \in 1..n : ss[i] \in Seq(S) /\ tt[i] = ss[i],
           Unrolls(f, ss, n), Unrolls(g, tt, k)
    PROVE  \A i \in 1..n : f[i] = g[i] /\ f[i] \in Seq(S)
<1> DEFINE T == {m \in Nat : m \in 1..n => f[m] = g[m] /\ f[m] \in Seq(S)}
<1>1. 0 \in T
  OBVIOUS
<1>2. ASSUME NEW m \in T PROVE m + 1 \in T
  <2> SUFFICES ASSUME m + 1 \in 1..n PROVE f[m + 1] = g[m + 1] /\ f[m + 1] \in Seq(S)
    OBVIOUS
  <2>1. m \in Nat /\ m + 1 \in 1..k
    OBVIOUS
  <2>2. /\ f[m + 1] = IF m + 1 = 1 THEN ss[m + 1] ELSE f[m] \o ss[m + 1]
        /\ g[m + 1] = IF m + 1 = 1 THEN tt[m + 1] ELSE g[m] \o tt[m + 1]
    <3>1. m + 1 \in 1..n /\ m + 1 \in 1..k /\ (m + 1) - 1 = m
      BY <2>1
    <3>2. f[m + 1] = IF m + 1 = 1 THEN ss[m + 1] ELSE f[(m + 1) - 1] \o ss[m + 1]
      BY <3>1, Zenon DEF Unrolls
    <3>3. g[m + 1] = IF m + 1 = 1 THEN tt[m + 1] ELSE g[(m + 1) - 1] \o tt[m + 1]
      BY <3>1, Zenon DEF Unrolls
    <3> QED BY <3>1, <3>2, <3>3
  <2>3. ss[m + 1] \in Seq(S) /\ tt[m + 1] = ss[m + 1]
    OBVIOUS
  <2>4. CASE m = 0
    BY <2>2, <2>3, <2>4
  <2>5. CASE m # 0
    <3>1. m \in 1..n /\ m + 1 # 1
      BY <2>1, <2>5
    <3>2. f[m] = g[m] /\ f[m] \in Seq(S)
      BY <3>1
    <3> QED BY <2>2, <2>3, <3>1, <3>2, ConcatProperties
  <2> QED BY <2>4, <2>5
<1> HIDE DEF T
<1>3. Nat \subseteq T
  BY <1>1, <1>2, CountingUp
<1> QED BY <1>3 DEF T

LEMMA FlattenUnrolls ==
    ASSUME NEW ss, Len(ss) \in Nat \ {0}
    PROVE  \E f : Unrolls(f, ss, Len(ss)) /\ FlattenSeq(ss) = f[Len(ss)]
<1> DEFINE f == CHOOSE f : f = [i \in 1..Len(ss) |-> IF i = 1 THEN ss[i] ELSE f[i - 1] \o ss[i]]
<1>1. \E g : g = [i \in 1..Len(ss) |-> IF i = 1 THEN ss[i] ELSE g[i - 1] \o ss[i]]
  BY UnrollsExists DEF Unrolls
<1>2. Unrolls(f, ss, Len(ss))
  BY <1>1 DEF Unrolls
<1>3. FlattenSeq(ss) = f[Len(ss)]
  BY DEF FlattenSeq
<1> QED BY <1>2, <1>3

LEMMA FlattenUnrolled ==
    ASSUME NEW ss, Len(ss) \in Nat \ {0}, NEW f, Unrolls(f, ss, Len(ss)), NEW S,
           \A i \in 1..Len(ss) : ss[i] \in Seq(S)
    PROVE  FlattenSeq(ss) = f[Len(ss)] /\ f[Len(ss)] \in Seq(S)
<1>1. PICK g : Unrolls(g, ss, Len(ss)) /\ FlattenSeq(ss) = g[Len(ss)]
  BY FlattenUnrolls
<1>2. \A i \in 1..Len(ss) : f[i] = g[i] /\ f[i] \in Seq(S)
  <2>1. Len(ss) \in Nat /\ Len(ss) <= Len(ss)
    OBVIOUS
  <2>2. \A i \in 1..Len(ss) : ss[i] \in Seq(S) /\ ss[i] = ss[i]
    OBVIOUS
  <2> QED BY <1>1, <2>1, <2>2, UnrollsAgree, Zenon
<1> QED BY <1>1, <1>2

LEMMA FlattenNone == FlattenSeq(<<>>) = <<>>
<1>1. Len(<<>>) = 0
  BY EmptySeq
<1> QED BY <1>1, Zenon DEF FlattenSeq

(* One sequence more is joined at the end. *)
LEMMA FlattenAppend ==
    ASSUME NEW S, NEW ss \in Seq(Seq(S)), NEW s \in Seq(S)
    PROVE  /\ FlattenSeq(ss) \in Seq(S)
           /\ FlattenSeq(Append(ss, s)) = FlattenSeq(ss) \o s
<1> DEFINE n == Len(ss)
           tt == Append(ss, s)
<1>1. /\ n \in Nat /\ tt \in Seq(Seq(S)) /\ Len(tt) = n + 1 /\ tt[n + 1] = s
      /\ \A i \in 1..n : tt[i] = ss[i]
  BY AppendProperties, LenProperties
<1>2. (\A i \in 1..n : ss[i] \in Seq(S)) /\ \A i \in 1..(n + 1) : tt[i] \in Seq(S)
  <2>1. \A i \in 1..Len(ss) : ss[i] \in Seq(S)
    BY ElementOfSeq
  <2>2. \A i \in 1..Len(tt) : tt[i] \in Seq(S)
    BY <1>1, ElementOfSeq
  <2> QED BY <1>1, <2>1, <2>2
<1>3. PICK g : Unrolls(g, tt, n + 1)
  <2>1. n + 1 \in Nat
    BY <1>1
  <2> QED BY <2>1, UnrollsExists, Zenon
<1> HIDE DEF n, tt
<1>4. FlattenSeq(tt) = g[n + 1] /\ g[n + 1] = IF n = 0 THEN tt[n + 1] ELSE g[n] \o tt[n + 1]
  <2>1. FlattenSeq(tt) = g[n + 1]
    <3>1. Len(tt) \in Nat \ {0}
      BY <1>1
    <3> QED BY <1>1, <1>2, <1>3, <3>1, FlattenUnrolled
  <2>2. n + 1 \in 1..(n + 1) /\ (n + 1) - 1 = n /\ (n + 1 = 1 <=> n = 0)
    BY <1>1
  <2>3. g[n + 1] = IF n + 1 = 1 THEN tt[n + 1] ELSE g[(n + 1) - 1] \o tt[n + 1]
    BY <1>3, <2>2, Zenon DEF Unrolls
  <2> QED BY <2>1, <2>2, <2>3
<1>5. CASE n = 0
  <2>1. ss = <<>>
    BY <1>5, EmptySeq DEF n
  <2>2. FlattenSeq(ss) = <<>> /\ <<>> \in Seq(S) /\ <<>> \o s = s
    BY <2>1, FlattenNone, EmptySeq, ConcatEmptySeq
  <2> QED BY <1>1, <1>4, <1>5, <2>2 DEF tt
<1>6. CASE n # 0
  <2>1. PICK f : Unrolls(f, ss, n)
    BY <1>1, UnrollsExists
  <2>2. FlattenSeq(ss) = f[n] /\ f[n] \in Seq(S)
    <3>1. n = Len(ss) /\ n \in Nat \ {0}
      BY <1>1, <1>6 DEF n
    <3> QED BY <1>2, <2>1, <3>1, FlattenUnrolled
  <2>3. f[n] = g[n]
    <3>1. \A i \in 1..n : f[i] = g[i] /\ f[i] \in Seq(S)
      <4>1. PICK k \in Nat : k = n + 1
        BY <1>1
      <4>2. n \in Nat /\ n <= k /\ Unrolls(g, tt, k)
        BY <1>1, <1>3, <4>1
      <4>3. \A i \in 1..n : ss[i] \in Seq(S) /\ tt[i] = ss[i]
        BY <1>1, <1>2
      <4> QED BY <2>1, <4>2, <4>3, UnrollsAgree, Zenon
    <3> QED BY <1>1, <1>6, <3>1
  <2> QED BY <1>1, <1>4, <1>6, <2>2, <2>3 DEF tt
<1> QED BY <1>5, <1>6

(* Two sequences joined hold what either does. *)
LEMMA ConcatHolds ==
    ASSUME NEW S, NEW s \in Seq(S), NEW t \in Seq(S), NEW x
    PROVE  /\ In(x, s \o t) <=> In(x, s) \/ In(x, t)
           /\ Once(x, s) /\ Once(x, t) /\ ~(In(x, s) /\ In(x, t)) => Once(x, s \o t)
<1> DEFINE u == s \o t
<1>1. /\ u \in Seq(S) /\ Len(u) = Len(s) + Len(t)
      /\ \A i \in 1..Len(s) + Len(t) : u[i] = IF i <= Len(s) THEN s[i] ELSE t[i - Len(s)]
  BY ConcatProperties
<1>2. /\ Len(s) \in Nat /\ Len(t) \in Nat
      /\ DOMAIN s = 1..Len(s) /\ DOMAIN t = 1..Len(t) /\ DOMAIN u = 1..(Len(s) + Len(t))
  <2>1. DOMAIN u = 1..Len(u)
    BY <1>1, LenProperties
  <2>2. Len(s) \in Nat /\ DOMAIN s = 1..Len(s)
    BY LenProperties
  <2>3. Len(t) \in Nat /\ DOMAIN t = 1..Len(t)
    BY LenProperties
  <2> QED BY <1>1, <2>1, <2>2, <2>3
<1> HIDE DEF u
<1>3. \A i \in DOMAIN u :
          \/ i \in DOMAIN s /\ u[i] = s[i]
          \/ i - Len(s) \in DOMAIN t /\ u[i] = t[i - Len(s)]
  BY <1>1, <1>2
<1>4. /\ \A i \in DOMAIN s : i \in DOMAIN u /\ u[i] = s[i]
      /\ \A i \in DOMAIN t : i + Len(s) \in DOMAIN u /\ u[i + Len(s)] = t[i]
  BY <1>1, <1>2
<1>5. In(x, u) <=> In(x, s) \/ In(x, t)
  BY <1>3, <1>4 DEF In
<1>6. ASSUME Once(x, s), Once(x, t), ~(In(x, s) /\ In(x, t)) PROVE Once(x, u)
  <2> SUFFICES ASSUME NEW i \in DOMAIN u, NEW j \in DOMAIN u, u[i] = x, u[j] = x PROVE i = j
    BY DEF Once
  <2>1. CASE i \in DOMAIN s /\ s[i] = x
    <3>1. j \in DOMAIN s /\ s[j] = x
      BY <1>3, <1>6, <2>1 DEF In
    <3> QED BY <1>6, <2>1, <3>1 DEF Once
  <2>2. CASE i - Len(s) \in DOMAIN t /\ t[i - Len(s)] = x
    <3>1. j - Len(s) \in DOMAIN t /\ t[j - Len(s)] = x
      BY <1>3, <1>6, <2>2 DEF In
    <3>2. i - Len(s) = j - Len(s)
      BY <1>6, <2>2, <3>1 DEF Once
    <3> QED BY <1>2, <3>2
  <2> QED BY <1>3, <2>1, <2>2
<1> QED BY <1>5, <1>6 DEF u

(* What the pieces hold, the whole does; and once, if no two hold it. *)
LEMMA FlattenHolds ==
    ASSUME NEW S, NEW ss \in Seq(Seq(S)), NEW x
    PROVE  /\ In(x, FlattenSeq(ss)) <=> \E i \in 1..Len(ss) : In(x, ss[i])
           /\ /\ \A i \in 1..Len(ss) : Once(x, ss[i])
              /\ \A i, j \in 1..Len(ss) : In(x, ss[i]) /\ In(x, ss[j]) => i = j
              => Once(x, FlattenSeq(ss))
<1> DEFINE Apart == /\ \A i \in 1..Len(ss) : Once(x, ss[i])
                    /\ \A i, j \in 1..Len(ss) : In(x, ss[i]) /\ In(x, ss[j]) => i = j
           pre(n) == SubSeq(ss, 1, n)
           Fits(n) == /\ In(x, FlattenSeq(pre(n))) <=> \E i \in 1..n : In(x, ss[i])
                      /\ Apart => Once(x, FlattenSeq(pre(n)))
           T == {n \in Nat : n <= Len(ss) => Fits(n)}
<1>1. Len(ss) \in Nat /\ \A i \in 1..Len(ss) : ss[i] \in Seq(S)
  BY LenProperties, ElementOfSeq
<1>2. 0 \in T
  <2>1. pre(0) = <<>>
    BY SubSeqEmpty
  <2>2. FlattenSeq(pre(0)) = <<>>
    BY <2>1, FlattenNone
  <2>3. ~In(x, <<>>) /\ Once(x, <<>>)
    BY DEF In, Once
  <2> HIDE DEF pre, Apart
  <2>4. Fits(0)
    BY <2>2, <2>3
  <2> QED BY <2>4
<1>3. ASSUME NEW n \in Nat, n \in T PROVE n + 1 \in T
  <2> SUFFICES ASSUME n + 1 <= Len(ss) PROVE Fits(n + 1)
    BY DEF T
  <2>1. n \in Nat /\ n <= Len(ss) /\ n + 1 \in 1..Len(ss) /\ Fits(n)
    BY <1>1, <1>3
  <2>2. pre(n) \in Seq(Seq(S))
    BY <1>1, <2>1, SubSeqProperties
  <2>3. pre(n + 1) = Append(pre(n), ss[n + 1])
    BY <2>1, SubSeqProperties, AppendProperties
  <2> HIDE DEF pre
  <2>4. /\ FlattenSeq(pre(n)) \in Seq(S)
        /\ FlattenSeq(pre(n + 1)) = FlattenSeq(pre(n)) \o ss[n + 1]
    BY <1>1, <2>1, <2>2, <2>3, FlattenAppend
  <2>5. /\ In(x, FlattenSeq(pre(n + 1))) <=> In(x, FlattenSeq(pre(n))) \/ In(x, ss[n + 1])
        /\ /\ Once(x, FlattenSeq(pre(n))) /\ Once(x, ss[n + 1])
           /\ ~(In(x, FlattenSeq(pre(n))) /\ In(x, ss[n + 1]))
           => Once(x, FlattenSeq(pre(n + 1)))
    <3> DEFINE a == FlattenSeq(pre(n))
               b == ss[n + 1]
    <3>1. a \in Seq(S) /\ b \in Seq(S) /\ FlattenSeq(pre(n + 1)) = a \o b
      BY <1>1, <2>1, <2>4
    <3> HIDE DEF a, b
    <3>2. /\ In(x, a \o b) <=> In(x, a) \/ In(x, b)
          /\ Once(x, a) /\ Once(x, b) /\ ~(In(x, a) /\ In(x, b)) => Once(x, a \o b)
      BY <3>1, ConcatHolds
    <3> QED BY <3>1, <3>2 DEF a, b
  <2>6. \A i \in 1..(n + 1) : i = n + 1 \/ i \in 1..n
    BY <2>1
  <2>7. \A i \in 1..n : i \in 1..(n + 1) /\ i # n + 1 /\ i \in 1..Len(ss)
    BY <1>1, <2>1
  <2>8. n + 1 \in 1..(n + 1)
    BY <2>1
  <2>9. In(x, FlattenSeq(pre(n + 1))) <=> \E i \in 1..(n + 1) : In(x, ss[i])
    BY <2>1, <2>5, <2>6, <2>7, <2>8
  <2>10. ASSUME Apart PROVE Once(x, FlattenSeq(pre(n + 1)))
    <3>1. ~(In(x, FlattenSeq(pre(n))) /\ In(x, ss[n + 1]))
      BY <2>1, <2>7, <2>10
    <3>2. Once(x, FlattenSeq(pre(n))) /\ Once(x, ss[n + 1])
      BY <2>1, <2>10
    <3> QED BY <2>5, <3>1, <3>2
  <2> QED BY <2>9, <2>10
<1>4. Len(ss) \in T
  <2> HIDE DEF T
  <2> QED BY <1>1, <1>2, <1>3, CountingUp
<1>5. pre(Len(ss)) = ss
  BY SubSeqFull
<1>6. Fits(Len(ss))
  BY <1>1, <1>4
<1> HIDE DEF pre
<1> QED BY <1>5, <1>6

(* As many pages as LastPage says hold everything, and no page before the  *)
(* last is beyond the end.                                                 *)
LEMMA Pagination ==
    ASSUME NEW all \in Nat, NEW n \in Nat
    PROVE  /\ LastPage(all) \in Nat \ {0}
           /\ LastPage(all) > n => n * PageSize \in 0..all
           /\ LastPage(all) * PageSize >= all
<1> DEFINE p == PageSize
           d == (all + p - 1) \div p
<1>1. p \in Nat \ {0}
  BY OutboundAssumption
<1>2. all + p - 1 \in Nat
  BY <1>1
<1>3. d \in Nat /\ p * d <= all + p - 1 /\ all + p - 1 < p * d + p
  <2>1. \A a \in Nat, b \in Nat \ {0} : a \div b \in Nat /\ b * (a \div b) <= a /\ a < b * (a \div b) + b
    OBVIOUS
  <2> HIDE DEF p
  <2> QED BY <1>1, <1>2, <2>1
<1>4. LastPage(all) = IF all = 0 THEN 1 ELSE d
  BY DEF LastPage
<1> HIDE DEF p, d
<1>5. n * p \in Nat /\ p * d = d * p
  BY <1>1, <1>3
<1>6. ASSUME d > n PROVE n * p <= all
  <2>1. \A x, y, z \in Nat : x <= y => z * x <= z * y
    OBVIOUS
  <2>2. n + 1 \in Nat /\ n + 1 <= d
    BY <1>3, <1>6
  <2>3. p * (n + 1) <= p * d
    BY <1>1, <1>3, <2>1, <2>2
  <2>4. p * (n + 1) = n * p + p
    BY <1>1
  <2> QED BY <1>1, <1>3, <1>5, <2>3, <2>4
<1>7. all # 0 => d # 0
  BY <1>1, <1>3
<1>8. d * p >= all
  BY <1>1, <1>3, <1>5
<1>9. CASE all = 0
  <2>1. LastPage(all) = 1 /\ (1 > n => n = 0) /\ 0 * p = 0
    BY <1>1, <1>4, <1>9
  <2> QED BY <1>1, <1>9, <2>1 DEF p
<1>10. CASE all # 0
  BY <1>3, <1>4, <1>5, <1>6, <1>7, <1>8, <1>10 DEF p
<1> QED BY <1>9, <1>10

(* What is read for an operation is in the listing, and is either the      *)
(* operation's or another's, of which there is one.                        *)
Readable(o) == {o} \cup Others
OthersOnce(s) == \A z \in Others : Once(z, s)

LEMMA FoundFits ==
    ASSUME NEW o \in Operations, listing \in Seq(Items), OthersOnce(listing)
    PROVE  /\ Found(o) \in Seq(Readable(o))
           /\ In(o, Found(o)) => In(o, listing)
           /\ OthersOnce(Found(o))
<1> DEFINE R == Readable(o)
           piece(i) == IF listing[i] \in R THEN <<listing[i]>> ELSE <<>>
           ss == [i \in DOMAIN listing |-> piece(i)]
           n == Len(listing)
<1>1. n \in Nat /\ DOMAIN listing = 1..n
  BY LenProperties
<1>2. o \in R /\ Others \subseteq R
  BY DEF Readable
<1>3. Found(o) = FlattenSeq(ss)
  BY DEF Found, Readable
<1> HIDE DEF R
<1>4. \A i \in 1..n : piece(i) \in Seq(R)
  <2>1. <<>> \in Seq(R)
    BY EmptySeq
  <2>2. \A y \in R : <<y>> \in Seq(R)
    OBVIOUS
  <2> QED BY <2>1, <2>2
<1>5. /\ ss \in Seq(Seq(R)) /\ Len(ss) = n
      /\ \A i \in 1..n : ss[i] = piece(i)
  <2> HIDE DEF piece
  <2>1. ss \in [1..n -> Seq(R)]
    BY <1>1, <1>4
  <2>2. ss \in Seq(Seq(R))
    BY <1>1, <2>1, SeqDef
  <2>3. Len(ss) \in Nat /\ DOMAIN ss = 1..Len(ss) /\ DOMAIN ss = 1..n
    BY <1>1, <2>2, LenProperties
  <2>4. Len(ss) = n
    BY <1>1, <2>3
  <2> QED BY <1>1, <2>2, <2>4
<1>6. \A i \in 1..n : \A x : (In(x, piece(i)) => x = listing[i]) /\ Once(x, piece(i))
  <2> SUFFICES ASSUME NEW i \in 1..n, NEW x
               PROVE  (In(x, piece(i)) => x = listing[i]) /\ Once(x, piece(i))
    OBVIOUS
  <2>1. CASE listing[i] \in R
    BY <2>1 DEF In, Once
  <2>2. CASE listing[i] \notin R
    BY <2>2 DEF In, Once
  <2> QED BY <2>1, <2>2
<1> HIDE DEF ss, piece, n
<1>7. Found(o) \in Seq(R)
  BY <1>2, <1>3, <1>5, FlattenAppend, EmptySeq
<1>8. In(o, Found(o)) => In(o, listing)
  <2>1. In(o, Found(o)) => \E i \in 1..n : In(o, ss[i])
    BY <1>3, <1>5, FlattenHolds
  <2>2. ASSUME NEW i \in 1..n, In(o, ss[i]) PROVE In(o, listing)
    <3>1. listing[i] = o
      BY <1>5, <1>6, <2>2
    <3> QED BY <1>1, <3>1 DEF In
  <2> QED BY <2>1, <2>2
<1>9. ASSUME NEW z \in Others PROVE Once(z, Found(o))
  <2>1. \A i \in 1..n : Once(z, ss[i])
    BY <1>5, <1>6
  <2>2. \A i, j \in 1..n : In(z, ss[i]) /\ In(z, ss[j]) => i = j
    <3> SUFFICES ASSUME NEW i \in 1..n, NEW j \in 1..n, In(z, ss[i]), In(z, ss[j]) PROVE i = j
      OBVIOUS
    <3>1. listing[i] = z /\ listing[j] = z
      BY <1>5, <1>6
    <3>2. Once(z, listing)
      BY DEF OthersOnce
    <3> QED BY <1>1, <3>1, <3>2 DEF Once
  <2>3. PICK tt \in Seq(Seq(R)) : tt = ss
    BY <1>5
  <2>4. /\ \A i \in 1..Len(tt) : Once(z, tt[i])
        /\ \A i, j \in 1..Len(tt) : In(z, tt[i]) /\ In(z, tt[j]) => i = j
    BY <1>5, <2>1, <2>2, <2>3
  <2>5. Once(z, FlattenSeq(tt))
    BY <2>4, FlattenHolds
  <2> QED BY <1>3, <2>3, <2>5
<1> QED BY <1>7, <1>8, <1>9 DEF R, OthersOnce

(* A field shows no more than what was written last. *)
LEMMA ViewFits ==
    ASSUME NEW o \in Operations, listing \in Seq(Items), OthersOnce(listing)
    PROVE  /\ View(o) \in Seq(Readable(o)) /\ View(o) \in Seq(Items)
           /\ In(o, View(o)) => In(o, listing)
           /\ OthersOnce(View(o))
<1>1. /\ Found(o) \in Seq(Readable(o)) /\ (In(o, Found(o)) => In(o, listing))
      /\ OthersOnce(Found(o))
  BY FoundFits
<1> DEFINE Fits == /\ View(o) \in Seq(Readable(o)) /\ (In(o, View(o)) => In(o, listing))
                   /\ OthersOnce(View(o))
<1>2. ASSUME View(o) = Found(o) PROVE Fits
  BY <1>1, <1>2
<1>3. ASSUME Found(o) # <<>>, View(o) = <<Head(Found(o))>> PROVE Fits
  <2>1. PICK f \in Seq(Readable(o)) : f = Found(o) /\ f # <<>>
    BY <1>1, <1>3
  <2>2. Len(f) \in Nat \ {0} /\ DOMAIN f = 1..Len(f)
    BY <2>1, LenProperties, EmptySeq
  <2>3. 1 \in DOMAIN f /\ f[1] \in Readable(o)
    BY <2>2, ElementOfSeq
  <2>4. Head(f) = f[1]
    BY <2>1, HeadTailProperties
  <2>5. PICK h \in Readable(o) : h = f[1]
    BY <2>3
  <2>6. View(o) = <<h>>
    BY <1>3, <2>1, <2>4, <2>5
  <2>7. <<h>> \in Seq(Readable(o)) /\ (In(o, <<h>>) => h = o) /\ \A x : Once(x, <<h>>)
    BY DEF In, Once
  <2>8. h = o => In(o, Found(o))
    BY <2>1, <2>3, <2>5 DEF In
  <2> QED BY <1>1, <2>6, <2>7, <2>8 DEF OthersOnce
<1>4. Fits
  BY <1>2, <1>3 DEF View
<1>5. Readable(o) \subseteq Items
  BY DEF Items, Readable
<1> QED BY <1>4, <1>5, SeqMonotonic

(* The rows of the pages, one page after another. *)
LEMMA RowsFit ==
    ASSUME NEW pages \in Seq(Pages), NEW p \in Pages
    PROVE  /\ RowsOf(pages) \in Seq(Items)
           /\ RowsOf(Append(pages, p)) = RowsOf(pages) \o p.rows
           /\ \A x : In(x, RowsOf(pages)) => \E i \in DOMAIN pages : In(x, pages[i].rows)
<1> DEFINE rows == [i \in DOMAIN pages |-> pages[i].rows]
           more == [i \in DOMAIN Append(pages, p) |-> Append(pages, p)[i].rows]
           n == Len(pages)
<1>1. /\ n \in Nat /\ DOMAIN pages = 1..n /\ \A i \in 1..n : pages[i] \in Pages
  BY LenProperties, ElementOfSeq
<1>2. /\ DOMAIN Append(pages, p) = 1..(n + 1) /\ Append(pages, p)[n + 1] = p
      /\ \A i \in 1..n : Append(pages, p)[i] = pages[i]
  <2>1. /\ Append(pages, p) \in Seq(Pages) /\ Len(Append(pages, p)) = n + 1
        /\ Append(pages, p)[n + 1] = p /\ \A i \in 1..n : Append(pages, p)[i] = pages[i]
    BY AppendProperties
  <2> QED BY <2>1, LenProperties
<1>3. p.rows \in Seq(Items) /\ \A i \in 1..n : pages[i].rows \in Seq(Items)
  BY <1>1 DEF Pages
<1>4. rows \in Seq(Seq(Items)) /\ Len(rows) = n /\ \A i \in 1..n : rows[i] = pages[i].rows
  <2>1. rows \in [1..n -> Seq(Items)]
    BY <1>1, <1>3
  <2>2. rows \in Seq(Seq(Items))
    BY <1>1, <2>1, SeqDef
  <2>3. Len(rows) \in Nat /\ DOMAIN rows = 1..Len(rows) /\ DOMAIN rows = 1..n
    BY <1>1, <2>2, LenProperties
  <2>4. Len(rows) = n
    BY <1>1, <2>3
  <2> QED BY <1>1, <2>2, <2>4
<1>5. more = Append(rows, p.rows)
  <2>1. /\ Append(rows, p.rows) \in Seq(Seq(Items)) /\ Len(Append(rows, p.rows)) = n + 1
        /\ Append(rows, p.rows)[n + 1] = p.rows
        /\ \A i \in 1..n : Append(rows, p.rows)[i] = pages[i].rows
    <3> HIDE DEF rows, n
    <3> QED BY <1>3, <1>4, AppendProperties
  <2>2. Append(rows, p.rows) \in [1..(n + 1) -> Seq(Items)]
    BY <2>1, LenProperties
  <2>3. DOMAIN more = 1..(n + 1) /\ more[n + 1] = p.rows /\ \A i \in 1..n : more[i] = pages[i].rows
    BY <1>1, <1>2
  <2>4. \A i \in 1..(n + 1) : i = n + 1 \/ i \in 1..n
    BY <1>1
  <2>5. more = [i \in 1..(n + 1) |-> more[i]]
    BY <1>2
  <2> HIDE DEF more, rows, n
  <2> QED BY <2>1, <2>2, <2>3, <2>4, <2>5
<1>6. RowsOf(pages) = FlattenSeq(rows) /\ RowsOf(Append(pages, p)) = FlattenSeq(more)
  BY DEF RowsOf
<1> HIDE DEF rows, more, n
<1>7. /\ FlattenSeq(rows) \in Seq(Items)
      /\ FlattenSeq(Append(rows, p.rows)) = FlattenSeq(rows) \o p.rows
  BY <1>3, <1>4, FlattenAppend
<1>8. \A x : In(x, FlattenSeq(rows)) => \E i \in 1..n : In(x, rows[i])
  BY <1>4, FlattenHolds
<1> QED BY <1>1, <1>4, <1>5, <1>6, <1>7, <1>8

LEMMA NoRows == RowsOf(<<>>) = <<>> /\ Len(RowsOf(<<>>)) = 0
<1>1. [i \in DOMAIN <<>> |-> <<>>[i].rows] = <<>>
  OBVIOUS
<1>2. RowsOf(<<>>) = FlattenSeq(<<>>)
  BY <1>1 DEF RowsOf
<1> QED BY <1>2, FlattenNone, EmptySeq

(* What a page shows of a listing, and that pages side by side show more. *)
LEMMA SliceFits ==
    ASSUME NEW S, NEW s \in Seq(S), NEW from \in Nat, NEW n \in Nat
    PROVE  /\ Slice(s, from, n) \in Seq(S)
           /\ \A x : In(x, Slice(s, from, n)) => In(x, s)
           /\ from <= Len(s) =>
                  /\ Min2(from + n, Len(s)) \in from..Len(s)
                  /\ SubSeq(s, 1, from) \o Slice(s, from, n) = SubSeq(s, 1, Min2(from + n, Len(s)))
                  /\ Len(SubSeq(s, 1, from)) = from
                  /\ Len(Slice(s, from, n)) = Min2(from + n, Len(s)) - from
<1> DEFINE to == Min2(from + n, Len(s))
           t == Slice(s, from, n)
<1>1. Len(s) \in Nat /\ DOMAIN s = 1..Len(s) /\ \A i \in 1..Len(s) : s[i] \in S
  BY LenProperties, ElementOfSeq
<1>2. to \in Int /\ to <= Len(s) /\ (from <= Len(s) => to \in from..Len(s))
  BY <1>1 DEF Min2
<1>3. t = SubSeq(s, from + 1, to)
  BY DEF Slice
<1> HIDE DEF to, t
<1>4. \A i \in (from + 1)..to : s[i] \in S
  BY <1>1, <1>2
<1>5. /\ t \in Seq(S) /\ Len(t) = IF from + 1 <= to THEN to - (from + 1) + 1 ELSE 0
      /\ \A i \in 1..(to - (from + 1) + 1) : t[i] = s[from + 1 + i - 1]
  BY <1>2, <1>3, <1>4, SubSeqProperties
<1>6. \A x : In(x, t) => In(x, s)
  <2>1. DOMAIN t = 1..Len(t)
    BY <1>5, LenProperties
  <2>2. \A i \in DOMAIN t : from + i \in DOMAIN s /\ t[i] = s[from + i]
    <3> SUFFICES ASSUME NEW i \in DOMAIN t PROVE from + i \in DOMAIN s /\ t[i] = s[from + i]
      OBVIOUS
    <3>1. i \in 1..(to - (from + 1) + 1) /\ i \in Nat /\ from + i <= to /\ from + i >= 1
      BY <1>2, <1>5, <2>1
    <3>2. from + 1 + i - 1 = from + i
      BY <3>1
    <3>3. t[i] = s[from + 1 + i - 1]
      BY <1>5, <3>1
    <3> QED BY <1>1, <1>2, <3>1, <3>2, <3>3
  <2> QED BY <2>2 DEF In
<1>7. ASSUME from <= Len(s)
      PROVE  /\ SubSeq(s, 1, from) \o t = SubSeq(s, 1, to)
             /\ Len(SubSeq(s, 1, from)) = from /\ Len(t) = to - from
  <2>1. /\ 1 \in 1..Len(s) + 1 /\ from \in (1 - 1)..Len(s) /\ to \in from..Len(s)
    BY <1>1, <1>2, <1>7
  <2>2. SubSeq(s, 1, from) \o t = SubSeq(s, 1, to)
    BY <1>3, <2>1, ConcatAdjacentSubSeq
  <2>3. Len(SubSeq(s, 1, from)) = IF 1 <= from THEN from - 1 + 1 ELSE 0
    BY <1>1, <1>7, SubSeqProperties
  <2> QED BY <1>2, <1>5, <1>7, <2>2, <2>3
<1> QED BY <1>2, <1>5, <1>6, <1>7 DEF to, t

-----------------------------------------------------------------------------
(* Recovery: what its reader holds is true. *)

(* What a recovery has read: of a listing that held still, the first rows; *)
(* whether it did or not, nothing of the operation that is not in effect.  *)
AllOk(pages) == \A i \in DOMAIN pages : pages[i].ok
PagesRun(o, pages, first) ==
    LET all == Len(first)
        got == Len(RowsOf(pages)) IN
    /\ \A i \in DOMAIN pages : pages[i].ok => pages[i].total = all
    /\ AllOk(pages) =>
        /\ got <= all /\ RowsOf(pages) = SubSeq(first, 1, got)
        /\ FamilyOf[o] = "comment" /\ pages # <<>> /\ Last(pages).rows = <<>> => got = all
        /\ FamilyOf[o] \in Whole /\ pages # <<>> => got = all
        /\ FamilyOf[o] \in Searched \cup {"pull"} =>
              got = Min2(Len(pages) * PageSize, all) /\ Len(pages) <= LastPage(all)

Reading(o) ==
    /\ reader.first \in Seq(Readable(o)) /\ OthersOnce(reader.first)
    /\ \A i \in DOMAIN reader.pages : In(o, reader.pages[i].rows) => In(o, listing)
    /\ \A i \in DOMAIN reader.pages : i < Len(reader.pages) => reader.pages[i].ok
    /\ FamilyOf[o] \in Searched \cup Whole => Len(reader.pages) <= 1
    /\ ~reader.moved => PagesRun(o, reader.pages, reader.first)

ReaderInv ==
    /\ OthersOnce(listing)
    /\ reader \in [on : Operations \cup {None}, pages : Seq(Pages), first : Seq(Items), moved : BOOLEAN]
    /\ IF reader.on = None THEN reader = NotReading ELSE Reading(reader.on)

(* Where the page after some pages begins. *)
From(o, pages) == IF FamilyOf[o] = "comment" THEN Len(RowsOf(pages)) ELSE Len(pages) * PageSize

(* What a page adds to the rows before it. *)
LEMMA SliceJoins ==
    ASSUME NEW S, NEW s \in Seq(S), NEW from \in Nat, NEW n \in Nat, from <= Len(s)
    PROVE  /\ Min2(from + n, Len(s)) \in from..Len(s)
           /\ SubSeq(s, 1, from) \o Slice(s, from, n) = SubSeq(s, 1, Min2(from + n, Len(s)))
           /\ Len(SubSeq(s, 1, from)) = from
           /\ Len(Slice(s, from, n)) = Min2(from + n, Len(s)) - from
BY SliceFits

(* The next page of a listing that held still: where the last one ended.   *)
LEMMA PageRead ==
    ASSUME NEW o \in Operations, NEW pages \in Seq(Pages), NEW first \in Seq(Items),
           PagesRun(o, pages, first), More(o, pages),
           NEW ok \in BOOLEAN, NEW n \in Sizes(o, first), NEW off \in Nat,
           off = From(o, pages),
           NEW p \in Pages, p.ok = ok, ok => p.total = Len(first) /\ p.rows = Slice(first, off, n)
    PROVE  PagesRun(o, Append(pages, p), first)
<1> DEFINE k == Len(pages)
           q == Append(pages, p)
           all == Len(first)
           got == Len(RowsOf(pages))
<1>1. /\ k \in Nat /\ DOMAIN pages = 1..k /\ Len(q) = k + 1 /\ DOMAIN q = 1..(k + 1)
      /\ q[k + 1] = p /\ \A i \in 1..k : q[i] = pages[i]
  <2>1. /\ q \in Seq(Pages) /\ Len(q) = k + 1 /\ q[k + 1] = p /\ \A i \in 1..k : q[i] = pages[i]
    BY AppendProperties
  <2> QED BY <2>1, LenProperties
<1>2. Last(q) = p /\ q # <<>> /\ (pages = <<>> <=> k = 0) /\ Last(pages) = pages[k]
  <2>1. pages = <<>> <=> k = 0
    BY EmptySeq
  <2>2. q # <<>>
    BY AppendProperties
  <2>3. Last(q) = q[Len(q)] /\ Last(pages) = pages[k]
    BY DEF Last
  <2> HIDE DEF q, k
  <2> QED BY <1>1, <2>1, <2>2, <2>3
<1>3. all \in Nat /\ PageSize \in Nat \ {0}
  BY LenProperties, OutboundAssumption
<1>4. RowsOf(q) = RowsOf(pages) \o p.rows
  BY RowsFit
<1> HIDE DEF q, k
<1>5. \A i \in DOMAIN q : q[i].ok => q[i].total = all
  <2>1. \A i \in 1..k : q[i].ok => q[i].total = all
    BY <1>1 DEF PagesRun
  <2>2. \A i \in 1..(k + 1) : i \in 1..k \/ i = k + 1
    BY <1>1
  <2> QED BY <1>1, <2>1, <2>2
<1>6. ASSUME AllOk(q)
      PROVE  /\ Len(RowsOf(q)) <= all /\ RowsOf(q) = SubSeq(first, 1, Len(RowsOf(q)))
             /\ FamilyOf[o] = "comment" /\ Last(q).rows = <<>> => Len(RowsOf(q)) = all
             /\ FamilyOf[o] \in Whole => Len(RowsOf(q)) = all
             /\ FamilyOf[o] \in Searched \cup {"pull"} =>
                   Len(RowsOf(q)) = Min2(Len(q) * PageSize, all) /\ Len(q) <= LastPage(all)
  <2>1. ok /\ AllOk(pages)
    BY <1>1, <1>6 DEF AllOk
  <2>2. p.rows = Slice(first, off, n)
    BY <2>1
  <2>3. /\ got <= all /\ RowsOf(pages) = SubSeq(first, 1, got)
        /\ FamilyOf[o] \in Searched \cup {"pull"} => got = Min2(k * PageSize, all)
    BY <2>1 DEF PagesRun, k
  <2>4. ASSUME FamilyOf[o] # "comment" PROVE off = k * PageSize /\ off \in 0..all /\ LastPage(all) > k
    <3>1. LastPage(all) \in Nat \ {0} /\ (LastPage(all) > k => k * PageSize \in 0..all)
      BY <1>1, <1>3, Pagination
    <3>2. LastPage(all) > k
      <4>1. CASE k = 0
        BY <3>1, <4>1
      <4>2. CASE k # 0
        <5>1. FamilyOf[o] = "pull" /\ LastPage(Last(pages).total) > k /\ Last(pages).ok
          BY <1>2, <2>4, <4>2 DEF More, Further, k
        <5>2. k \in DOMAIN pages
          BY <1>1, <4>2
        <5>3. Last(pages).total = all
          BY <1>2, <5>1, <5>2 DEF PagesRun
        <5> QED BY <5>1, <5>3
      <4> QED BY <4>1, <4>2
    <3> QED BY <2>4, <3>1, <3>2 DEF k, From
  <2>5. ASSUME FamilyOf[o] \in Whole PROVE k = 0 /\ off = 0 /\ got = 0 /\ n = all
    <3>1. pages = <<>>
      BY <2>5 DEF More, Further, Whole
    <3>2. k = 0 /\ got = 0
      BY <1>2, <3>1, NoRows
    <3>3. off = 0
      BY <1>3, <2>4, <2>5, <3>2 DEF Whole
    <3> QED BY <2>5, <3>2, <3>3 DEF Sizes, Whole
  <2>6. off = got /\ off <= all
    <3>1. CASE FamilyOf[o] = "comment"
      BY <2>3, <3>1 DEF From
    <3>3. CASE FamilyOf[o] \in Whole
      BY <1>3, <2>5, <3>3
    <3>2. CASE FamilyOf[o] \in Searched \cup {"pull"}
      <4>3. FamilyOf[o] # "comment"
        BY <3>2 DEF Searched
      <4>1. off \in 0..all /\ got = Min2(off, all)
        BY <2>3, <2>4, <3>2, <4>3, Zenon
      <4> HIDE DEF all, got
      <4>2. Min2(off, all) = off
        BY <1>3, <4>1 DEF Min2
      <4> QED BY <1>3, <4>1, <4>2
    <3> QED BY <3>1, <3>2, <3>3, OutboundAssumption DEF Families
  <2>7. /\ n \in Nat /\ (FamilyOf[o] = "comment" => n # 0)
        /\ FamilyOf[o] \in Searched \cup {"pull"} => n = PageSize
    BY <1>3 DEF Sizes, Searched, Whole
  <2> DEFINE to == Min2(off + n, all)
  <2>8. /\ to \in off..all
        /\ SubSeq(first, 1, off) \o p.rows = SubSeq(first, 1, to)
        /\ Len(p.rows) = to - off
    <3>1. PICK m \in Nat : m = n
      BY <2>7
    <3>2. off <= Len(first)
      BY <2>6
    <3>3. /\ Min2(off + m, Len(first)) \in off..Len(first)
          /\ SubSeq(first, 1, off) \o Slice(first, off, m) = SubSeq(first, 1, Min2(off + m, Len(first)))
          /\ Len(Slice(first, off, m)) = Min2(off + m, Len(first)) - off
      BY <3>2, SliceJoins
    <3> QED BY <2>2, <3>1, <3>3, Zenon
  <2>9. Len(SubSeq(first, 1, to)) = to
    BY <1>3, <2>8, SliceJoins
  <2>10. RowsOf(q) = SubSeq(first, 1, to) /\ Len(RowsOf(q)) = to /\ to <= all
    <3>1. RowsOf(q) = SubSeq(first, 1, to)
      BY <1>4, <2>3, <2>6, <2>8, Zenon
    <3>2. to <= all
      <4> HIDE DEF to, all
      <4> QED BY <1>3, <2>8
    <3> QED BY <2>9, <3>1, <3>2, Zenon
  <2>11. ASSUME FamilyOf[o] = "comment", p.rows = <<>> PROVE to = all
    <3>1. to = off
      BY <2>8, <2>11, EmptySeq
    <3> QED BY <1>3, <2>6, <2>7, <2>11, <3>1 DEF Min2
  <2>12. ASSUME FamilyOf[o] \in Whole PROVE to = all
    <3>1. off = 0 /\ n = all
      BY <2>5, <2>12
    <3>2. to = Min2(0 + all, all)
      BY <3>1, Zenon
    <3> HIDE DEF to, all
    <3> QED BY <1>3, <3>2 DEF Min2
  <2>13. ASSUME FamilyOf[o] \in Searched \cup {"pull"} PROVE to = Min2(Len(q) * PageSize, all) /\ Len(q) <= LastPage(all)
    <3>1. off + n = (k + 1) * PageSize
      <4>1. off = k * PageSize /\ n = PageSize
        BY <2>4, <2>7, <2>13 DEF Searched
      <4> QED BY <1>1, <1>3, <4>1
    <3>2. LastPage(all) \in Nat
      BY <1>1, <1>3, Pagination
    <3>3. LastPage(all) > k
      BY <2>4, <2>13 DEF Searched
    <3> QED BY <1>1, <3>1, <3>2, <3>3
  <2> HIDE DEF to
  <2> QED BY <1>2, <2>10, <2>11, <2>13, <2>12
<1>7. PagesRun(o, q, first)
  BY <1>2, <1>5, <1>6 DEF PagesRun
<1> QED BY <1>7 DEF q

(* A step that reads nothing and takes nothing of an operation away.       *)
LEMMA ReaderStays ==
    ASSUME ReaderInv, reader' = reader, OthersOnce(listing'),
           \A o \in Operations : In(o, listing) => In(o, listing')
    PROVE  ReaderInv'
<1>1. ASSUME reader.on # None PROVE Reading(reader.on)'
  <2>1. Reading(reader.on) /\ reader.on \in Operations
    BY <1>1 DEF ReaderInv
  <2> QED BY <2>1 DEF Reading
<1> QED BY <1>1 DEF ReaderInv

(* Others delete only what resembles an effect; an effect stays. *)
LEMMA ListingChangesReader ==
    ASSUME OutboundInv, ReaderInv,
           RemoteChanges \/ (\E p \in Operators : SendTakesEffect(p)) \/ (\E o \in Operations : LateArrives(o))
    PROVE  ReaderInv'
<1>1. listing \in Seq(Items) /\ OthersOnce(listing)
  BY DEF OutboundInv, OutboundTypes, ReaderInv
<1>2. CASE RemoteChanges
  <2>1. OthersOnce(listing') /\ \A o \in Operations : In(o, listing) => In(o, listing')
    BY <1>1, <1>2, OthersWrite DEF OthersOnce
  <2> QED BY <1>2, <2>1, ReaderStays DEF RemoteChanges
<1>3. ASSUME NEW o \in Operations, listing' = Shown(o), reader' = reader PROVE ReaderInv'
  <2>1. OthersOnce(listing') /\ \A x \in Operations : In(x, listing) => In(x, listing')
    BY <1>1, <1>3, ShownAdds DEF OthersOnce
  <2> QED BY <1>3, <2>1, ReaderStays
<1>4. CASE \E p \in Operators : SendTakesEffect(p)
  <2>1. PICK p \in Operators : SendTakesEffect(p)
    BY <1>4
  <2>2. on[p] \in Operations /\ listing' = Shown(on[p]) /\ reader' = reader
    BY <2>1 DEF SendTakesEffect, MaySend, OutboundInv, OperatorsFit, OperatorFits
  <2> QED BY <1>3, <2>2
<1>5. CASE \E o \in Operations : LateArrives(o)
  BY <1>3, <1>5 DEF LateArrives
<1> QED BY <1>2, <1>4, <1>5

(* A recovery begins with no pages. *)
LEMMA PlanRecoveryReader ==
    ASSUME OutboundInv, ReaderInv, NEW o \in Operations, PlanRecovery(o)
    PROVE  ReaderInv'
<1>1. listing \in Seq(Items) /\ OthersOnce(listing) /\ o # None
  BY Bounds DEF OutboundInv, OutboundTypes, ReaderInv
<1>2. View(o) \in Seq(Readable(o)) /\ View(o) \in Seq(Items) /\ OthersOnce(View(o))
  BY <1>1, ViewFits
<1>3. /\ reader' = [on |-> o, pages |-> <<>>, first |-> View(o), moved |-> FALSE]
      /\ listing' = listing
  BY DEF PlanRecovery, NotReading, remote
<1>4. Len(View(o)) \in Nat
  BY <1>2, LenProperties
<1>5. PagesRun(o, <<>>, View(o))
  <2>1. SubSeq(View(o), 1, 0) = <<>>
    BY SubSeqEmpty
  <2>2. 0 = Min2(0 * PageSize, Len(View(o))) /\ 0 <= LastPage(Len(View(o)))
    <3>1. 0 * PageSize = 0
      BY OutboundAssumption
    <3>2. LastPage(Len(View(o))) \in Nat \ {0}
      BY <1>4, Pagination
    <3>3. Min2(0, Len(View(o))) = 0
      BY <1>4 DEF Min2
    <3> QED BY <3>1, <3>2, <3>3
  <2>3. Len(RowsOf(<<>>)) = 0 /\ RowsOf(<<>>) = SubSeq(View(o), 1, 0) /\ Len(<<>>) = 0
    BY <2>1, NoRows, EmptySeq
  <2>4. 0 <= Len(View(o)) /\ DOMAIN <<>> = {}
    BY <1>4
  <2> QED BY <2>2, <2>3, <2>4, Zenon DEF PagesRun
<1>6. Reading(o)'
  BY <1>2, <1>3, <1>5, EmptySeq DEF Reading
<1> QED BY <1>1, <1>2, <1>3, <1>6 DEF ReaderInv

(* One more page, read or failed. *)
LEMMA ReadPageReader == ASSUME OutboundInv, ReaderInv, ReadPage PROVE ReaderInv'
<1>1. PICK o \in Operations : o = reader.on /\ Reading(o) /\ More(o, reader.pages)
  BY DEF ReadPage, ReaderInv
<1>2. listing \in Seq(Items) /\ listing' = listing /\ OthersOnce(listing)
  BY DEF OutboundInv, OutboundTypes, ReaderInv, ReadPage, remote
<1>3. /\ View(o) \in Seq(Readable(o)) /\ View(o) \in Seq(Items)
      /\ In(o, View(o)) => In(o, listing)
  BY <1>2, ViewFits
<1> DEFINE page(ok, n) == [ok |-> ok, total |-> IF ok THEN Len(View(o)) ELSE 0,
                           rows |-> IF ok THEN Slice(View(o), Offset(o), n) ELSE <<>>]
<1>0. PICK ok \in BOOLEAN, n \in Sizes(o, View(o)) :
          reader' = [reader EXCEPT !.pages = Append(reader.pages, page(ok, n)),
                                   !.moved = reader.moved \/ View(o) # reader.first]
  BY <1>1 DEF ReadPage
<1>4. PICK p : /\ p = page(ok, n)
               /\ reader' = [reader EXCEPT !.pages = Append(reader.pages, p),
                                           !.moved = reader.moved \/ View(o) # reader.first]
  BY <1>0
<1> DEFINE pages == reader.pages
<1>5. /\ reader \in [on : Operations \cup {None}, pages : Seq(Pages), first : Seq(Items), moved : BOOLEAN]
      /\ o # None
  BY Bounds DEF ReaderInv
<1>6. pages \in Seq(Pages) /\ Len(pages) \in Nat /\ DOMAIN pages = 1..Len(pages)
  BY <1>5, LenProperties
<1>7. Offset(o) \in Nat /\ n \in Nat
  <2>1. PageSize \in Nat
    BY OutboundAssumption
  <2>2. RowsOf(pages) \in Seq(Items)
    <3>1. [ok |-> TRUE, total |-> 0, rows |-> <<>>] \in Pages
      BY EmptySeq DEF Pages
    <3> QED BY <1>6, <3>1, RowsFit
  <2>3. Len(RowsOf(pages)) \in Nat
    BY <2>2, LenProperties
  <2>4. Len(View(o)) \in Nat
    BY <1>3, LenProperties
  <2> QED BY <1>6, <2>1, <2>3, <2>4 DEF Offset, Sizes
<1>8. p.rows \in Seq(Items) /\ (In(o, p.rows) => In(o, listing))
  <2>1. CASE ok
    <3>1. p.rows = Slice(View(o), Offset(o), n)
      BY <1>4, <2>1
    <3> QED BY <1>3, <1>7, <3>1, SliceFits
  <2>2. CASE ~ok
    BY <1>4, <2>2, EmptySeq DEF In
  <2> QED BY <2>1, <2>2
<1>9. p \in Pages /\ p.ok = ok
  <2>1. Len(View(o)) \in Nat
    BY <1>3, LenProperties
  <2> QED BY <1>4, <1>8, <2>1 DEF Pages
<1>10. /\ Append(pages, p) \in Seq(Pages) /\ DOMAIN Append(pages, p) = 1..(Len(pages) + 1)
       /\ Len(Append(pages, p)) = Len(pages) + 1 /\ Append(pages, p)[Len(pages) + 1] = p
       /\ \A i \in 1..Len(pages) : Append(pages, p)[i] = pages[i]
  <2>1. /\ Append(pages, p) \in Seq(Pages)
        /\ Len(Append(pages, p)) = Len(pages) + 1 /\ Append(pages, p)[Len(pages) + 1] = p
        /\ \A i \in 1..Len(pages) : Append(pages, p)[i] = pages[i]
    BY <1>6, <1>9, AppendProperties
  <2> QED BY <2>1, LenProperties
<1>11. /\ reader'.on = o /\ reader'.pages = Append(pages, p) /\ reader'.first = reader.first
       /\ reader'.moved = (reader.moved \/ View(o) # reader.first)
       /\ reader' \in [on : Operations \cup {None}, pages : Seq(Pages), first : Seq(Items), moved : BOOLEAN]
  BY <1>1, <1>4, <1>5, <1>10
<1>12. \A i \in 1..(Len(pages) + 1) : i \in 1..Len(pages) \/ i = Len(pages) + 1
  BY <1>6
<1> HIDE DEF pages
<1>13. \A i \in DOMAIN reader'.pages : In(o, reader'.pages[i].rows) => In(o, listing')
  BY <1>1, <1>2, <1>6, <1>8, <1>10, <1>11, <1>12 DEF Reading, pages
<1>14. \A i \in DOMAIN reader'.pages : i < Len(reader'.pages) => reader'.pages[i].ok
  <2>1. pages # <<>> => Last(pages).ok /\ Last(pages) = pages[Len(pages)]
    BY <1>1 DEF More, Further, Last, pages
  <2>2. \A i \in 1..Len(pages) : pages # <<>>
    BY <1>6, EmptySeq
  <2>3. \A i \in 1..Len(pages) : pages[i].ok
    BY <1>1, <1>6, <2>1, <2>2 DEF Reading, pages
  <2> QED BY <1>6, <1>10, <1>11, <2>3
<1>15. FamilyOf[o] \in Searched \cup Whole => pages = <<>>
  BY <1>1 DEF More, Further, Searched, Whole, pages
<1>16. ~reader'.moved => PagesRun(o, reader'.pages, reader'.first)
  <2> SUFFICES ASSUME ~reader'.moved PROVE PagesRun(o, Append(pages, p), reader.first)
    BY <1>11
  <2>1. ~reader.moved /\ View(o) = reader.first
    BY <1>11
  <2>2. PagesRun(o, pages, reader.first)
    BY <1>1, <2>1 DEF Reading, pages
  <2>3. /\ Offset(o) = From(o, pages) /\ More(o, pages) /\ reader.first \in Seq(Items)
        /\ n \in Sizes(o, reader.first)
    BY <1>1, <1>5, <2>1 DEF Offset, From, pages
  <2>4. ok => p.total = Len(reader.first) /\ p.rows = Slice(reader.first, Offset(o), n)
    BY <1>4, <2>1
  <2> QED BY <1>6, <1>7, <1>9, <2>2, <2>3, <2>4, PageRead
<1>17. Reading(o)'
  <2>1. FamilyOf[o] \in Searched \cup Whole => Len(reader'.pages) <= 1
    BY <1>10, <1>11, <1>15, EmptySeq
  <2>2. reader'.first \in Seq(Readable(o)) /\ OthersOnce(reader'.first)
    BY <1>1, <1>11 DEF Reading
  <2> QED BY <1>13, <1>14, <1>16, <2>1, <2>2 DEF Reading
<1> QED BY <1>2, <1>5, <1>11, <1>17 DEF ReaderInv

(* Only three steps touch what a recovery reads, and three the listing.    *)
LEMMA WhoReads ==
    ASSUME [OutboundNext]_outboundVars
    PROVE  \/ (\E o \in Operations : PlanRecovery(o)) \/ ReadPage \/ Assess
           \/ /\ reader' = reader
              /\ \/ listing' = listing
                 \/ RemoteChanges \/ (\E p \in Operators : SendTakesEffect(p))
                 \/ \E o \in Operations : LateArrives(o)
<1> DEFINE Quiet == reader' = reader /\ listing' = listing
<1>1. ASSUME NEW p \in Operators, NEW o \in Operations, Derive(p, o) \/ Withdraw(p, o) PROVE Quiet
  BY <1>1 DEF Derive, Withdraw, Local, remote
<1>2. ASSUME NEW p \in Operators,
             \/ FetchListing(p) \/ CheckApproval(p) \/ PlanObservation(p)
             \/ PackageSnapshot(p) \/ Review(p) \/ FinalCheck(p)
      PROVE  Quiet
  BY <1>2 DEF FetchListing, CheckApproval, PlanObservation, PackageSnapshot, Review, FinalCheck, Local, remote
<1>3. ASSUME NEW p \in Operators, Stage(p) \/ Reserve(p) \/ PrepareApproval(p) \/ Observe(p) PROVE Quiet
  BY <1>3 DEF Stage, Reserve, PrepareApproval, Observe, Local, remote
<1>4. ASSUME NEW p \in Operators, SendIsRefused(p) \/ SendHangs(p) \/ BreakOff(p) PROVE Quiet
  BY <1>4 DEF SendIsRefused, SendHangs, BreakOff, Local, remote
<1>5. ASSUME Tick \/ UNCHANGED outboundVars PROVE Quiet
  BY <1>5 DEF Tick, outboundVars, remote
<1>6. ASSUME RemoteChanges \/ (\E p \in Operators : SendTakesEffect(p)) \/ (\E o \in Operations : LateArrives(o))
      PROVE  reader' = reader
  BY <1>6 DEF RemoteChanges, SendTakesEffect, LateArrives
<1> HIDE DEF Quiet
<1>7. Quiet => reader' = reader /\ listing' = listing
  BY DEF Quiet
<1> QED BY <1>1, <1>2, <1>3, <1>4, <1>5, <1>6, <1>7 DEF OutboundNext

LEMMA ReaderInitFits == OutboundInit => ReaderInv
<1> SUFFICES ASSUME OutboundInit PROVE ReaderInv
  OBVIOUS
<1>1. listing \in Seq(Others) /\ IsInjective(listing) /\ reader = NotReading
  BY OutboundAssumption DEF OutboundInit
<1>2. OthersOnce(listing)
  BY <1>1 DEF OthersOnce, Once, IsInjective
<1> QED BY <1>1, <1>2, EmptySeq DEF ReaderInv, NotReading

LEMMA ReaderStepKeeps == ASSUME OutboundInv, ReaderInv, [OutboundNext]_outboundVars PROVE ReaderInv'
<1>1. CASE reader' = reader /\ listing' = listing
  BY <1>1, ReaderStays DEF ReaderInv
<1>2. CASE RemoteChanges \/ (\E p \in Operators : SendTakesEffect(p)) \/ (\E o \in Operations : LateArrives(o))
  BY <1>2, ListingChangesReader
<1>3. CASE (\E o \in Operations : PlanRecovery(o)) \/ ReadPage
  BY <1>3, PlanRecoveryReader, ReadPageReader
<1>4. CASE Assess
  <2>1. reader' = NotReading /\ listing' = listing /\ OthersOnce(listing)
    BY <1>4 DEF Assess, remote, ReaderInv
  <2> QED BY <2>1, EmptySeq DEF ReaderInv, NotReading
<1> QED BY <1>1, <1>2, <1>3, <1>4, WhoReads

(* What a recovery has read is true of the listing, in every state that    *)
(* can be reached, however the listing moves between two pages.            *)
THEOREM ReaderInvariant == OutboundSpec => []ReaderInv
BY OutboundInvariant, ReaderInitFits, ReaderStepKeeps, PTL DEF OutboundSpec

(* How many places of a sequence there are of a kind. *)
LEMMA PlacesCount ==
    ASSUME NEW S, NEW s \in Seq(S), NEW places, places \subseteq DOMAIN s
    PROVE  /\ Cardinality(places) \in Nat /\ (Cardinality(places) = 0 <=> places = {})
           /\ Cardinality(places) = 1 => \E x : places = {x}
           /\ places = DOMAIN s => Cardinality(places) = Len(s)
<1>1. Len(s) \in Nat /\ DOMAIN s = 1..Len(s)
  BY LenProperties
<1>2. IsFiniteSet(1..Len(s)) /\ Cardinality(1..Len(s)) = Len(s)
  <2>1. PICK n \in Nat : n = Len(s)
    BY <1>1
  <2>2. IsFiniteSet(1..n) /\ Cardinality(1..n) = n
    BY FS_Interval
  <2> QED BY <2>1, <2>2
<1>3. IsFiniteSet(places)
  BY <1>1, <1>2, FS_Subset
<1>4. Cardinality(places) \in Nat /\ (Cardinality(places) = 0 <=> places = {})
  BY <1>3, FS_CardinalityType, FS_EmptySet
<1>5. Cardinality(places) = 1 => \E x : places = {x}
  BY <1>3, FS_Singleton
<1> QED BY <1>1, <1>2, <1>4, <1>5

Matches(o, s) == {i \in DOMAIN s : Passes(o, s[i])}

LEMMA Matchings ==
    ASSUME NEW S, NEW s \in Seq(S), NEW o
    PROVE  /\ Matching(o, s) \in Nat
           /\ Matching(o, s) = 1 => \E i : Matches(o, s) = {i}
           /\ (\A i \in DOMAIN s : Passes(o, s[i])) => Matching(o, s) = Len(s)
<1>1. Matching(o, s) = Cardinality(Matches(o, s)) /\ Matches(o, s) \subseteq DOMAIN s
  BY DEF Matching, Matches
<1>2. (\A i \in DOMAIN s : Passes(o, s[i])) => Matches(o, s) = DOMAIN s
  BY DEF Matches
<1> QED BY <1>1, <1>2, PlacesCount

LEMMA Counted ==
    ASSUME NEW S, NEW s \in Seq(S), NEW o, In(o, s)
    PROVE  Count(s, o) >= 1
<1> DEFINE places == {i \in DOMAIN s : s[i] = o}
<1>1. Count(s, o) = Cardinality(places) /\ places \subseteq DOMAIN s /\ places # {}
  BY DEF Count, In
<1> HIDE DEF places
<1>2. Cardinality(places) \in Nat /\ Cardinality(places) # 0
  BY <1>1, PlacesCount
<1> QED BY <1>1, <1>2

(* Where effects carry a marker, the candidate named is on some page. *)
LEMMA CandidateShows ==
    ASSUME NEW o \in Operations, FamilyOf[o] \in Marked,
           NEW pages \in Seq(Pages), pages # <<>>, Candidate(o, pages)
    PROVE  \E i \in DOMAIN pages : In(o, pages[i].rows)
<1>1. 1 \in DOMAIN pages /\ pages[1] \in Pages
  <2>1. Len(pages) \in Nat /\ DOMAIN pages = 1..Len(pages) /\ Len(pages) # 0
    BY LenProperties, EmptySeq
  <2> QED BY <2>1, ElementOfSeq
<1>2. pages[1].rows \in Seq(Items)
  BY <1>1 DEF Pages
<1>3. Matching(o, pages[1].rows) = 1
  BY DEF Candidate, SearchCandidate, Marked
<1>4. PICK i : Matches(o, pages[1].rows) = {i}
  BY <1>2, <1>3, Matchings
<1>5. i \in DOMAIN pages[1].rows /\ Passes(o, pages[1].rows[i])
  BY <1>4 DEF Matches
<1>6. pages[1].rows[i] = o
  BY <1>5 DEF Passes
<1> QED BY <1>1, <1>5, <1>6 DEF In

(* Read to its end, a listing that held still was read from its beginning. *)
LEMMA WholeIsAll ==
    ASSUME NEW o \in Operations, NEW pages \in Seq(Pages), pages # <<>>, NEW first \in Seq(Items),
           FamilyOf[o] \in {"pull", "comment"}, PagesRun(o, pages, first), ReadOut(o, pages)
    PROVE  /\ RowsOf(pages) = first /\ \A i \in DOMAIN pages : pages[i].ok /\ pages[i].total = Len(first)
           /\ FamilyOf[o] = "pull" => Len(pages) = LastPage(Len(first))
<1> DEFINE k == Len(pages)
           all == Len(first)
           got == Len(RowsOf(pages))
<1>1. k \in Nat \ {0} /\ DOMAIN pages = 1..k /\ all \in Nat
  BY LenProperties, EmptySeq
<1>2. \A i \in DOMAIN pages : pages[i].ok /\ pages[i].total = all
  BY DEF ReadOut, PagesRun
<1>3. Last(pages).ok /\ Last(pages).total = all
  <2>1. Last(pages) = pages[k] /\ k \in DOMAIN pages
    BY <1>1 DEF Last
  <2> QED BY <1>2, <2>1
<1>4. /\ got <= all /\ RowsOf(pages) = SubSeq(first, 1, got)
      /\ FamilyOf[o] = "comment" /\ Last(pages).rows = <<>> => got = all
      /\ FamilyOf[o] = "pull" => got = Min2(k * PageSize, all) /\ k <= LastPage(all)
  BY <1>2 DEF PagesRun, AllOk
<1>5. /\ FamilyOf[o] = "pull" => ~(LastPage(all) > k)
      /\ FamilyOf[o] = "comment" => Last(pages).rows = <<>> \/ ~(got < all)
  BY <1>3 DEF ReadOut, Further
<1>6. got \in Nat
  <2>1. PICK p \in Pages : p = pages[1]
    BY <1>1, ElementOfSeq
  <2>2. RowsOf(pages) \in Seq(Items)
    BY RowsFit
  <2> QED BY <2>2, LenProperties
<1>7. /\ LastPage(all) \in Nat /\ LastPage(all) * PageSize >= all
  BY <1>1, Pagination
<1> HIDE DEF k, all, got
<1>8. CASE FamilyOf[o] = "pull"
  <2>1. k = LastPage(all)
    BY <1>1, <1>4, <1>5, <1>7, <1>8
  <2>2. got = Min2(LastPage(all) * PageSize, all)
    BY <1>4, <1>8, <2>1
  <2>3. LastPage(all) * PageSize \in Nat
    BY <1>7, OutboundAssumption
  <2>4. got = all
    BY <1>1, <1>7, <2>2, <2>3 DEF Min2
  <2> QED BY <1>2, <1>4, <1>8, <2>1, <2>4, SubSeqFull DEF all, k
<1>9. CASE FamilyOf[o] = "comment"
  <2>1. got = all
    BY <1>1, <1>4, <1>5, <1>6, <1>9
  <2> QED BY <1>2, <1>4, <1>9, <2>1, SubSeqFull DEF all
<1> QED BY <1>8, <1>9

(* Each family decides by its own rule, and the rules agree with what the  *)
(* listing shows.                                                          *)
LEMMA PullDecides ==
    ASSUME NEW o \in Operations, NEW pages \in Seq(Pages), pages # <<>>, NEW first \in Seq(Items),
           FamilyOf[o] = "pull", PagesRun(o, pages, first), ReadOut(o, pages)
    PROVE  PullCandidate(o, pages) <=> There(o, first)
<1>1. /\ RowsOf(pages) = first /\ \A i \in DOMAIN pages : pages[i].ok /\ pages[i].total = Len(first)
      /\ Len(pages) = LastPage(Len(first))
  BY WholeIsAll
<1>2. Len(pages) \in Nat /\ DOMAIN pages = 1..Len(pages) /\ Len(first) \in Nat /\ DOMAIN first = 1..Len(first)
  <2>1. Len(pages) \in Nat /\ DOMAIN pages = 1..Len(pages)
    BY LenProperties
  <2> QED BY <2>1, LenProperties
<1>3. Ends(pages) /\ \A i \in DOMAIN pages : pages[i].ok /\ (i < Len(pages) <=> i < LastPage(pages[i].total))
  BY <1>1, <1>2 DEF Ends
<1>4. PullCandidate(o, pages) <=> (\A i \in DOMAIN first : Passes(o, first[i])) /\ Matching(o, first) = 1
  BY <1>1, <1>3 DEF PullCandidate
<1>5. There(o, first) <=> Matching(o, first) = 1 /\ Len(first) = 1
  BY DEF There, Searched
<1>6. (\A i \in DOMAIN first : Passes(o, first[i])) => Matching(o, first) = Len(first)
  BY Matchings
<1>7. ASSUME Len(first) = 1, Matching(o, first) = 1 PROVE \A i \in DOMAIN first : Passes(o, first[i])
  <2>1. PICK i : Matches(o, first) = {i}
    BY <1>7, Matchings
  <2>2. i \in DOMAIN first /\ Passes(o, first[i])
    BY <2>1 DEF Matches
  <2> QED BY <1>2, <1>7, <2>2
<1> QED BY <1>4, <1>5, <1>6, <1>7

LEMMA CommentDecides ==
    ASSUME NEW o \in Operations, NEW pages \in Seq(Pages), pages # <<>>, NEW first \in Seq(Readable(o)),
           first \in Seq(Items), OthersOnce(first),
           FamilyOf[o] = "comment", PagesRun(o, pages, first), ReadOut(o, pages)
    PROVE  CommentCandidate(o, pages) <=> There(o, first)
<1>1. RowsOf(pages) = first /\ \A i \in DOMAIN pages : pages[i].ok /\ pages[i].total = Len(first)
  BY WholeIsAll
<1>2. 1 \in DOMAIN pages
  <2>1. Len(pages) \in Nat \ {0} /\ DOMAIN pages = 1..Len(pages)
    BY LenProperties, EmptySeq
  <2> QED BY <2>1
<1>3. CommentCandidate(o, pages) <=> IsInjective(first) /\ Matching(o, first) = 1
  BY <1>1, <1>2 DEF CommentCandidate
<1>4. \A i \in DOMAIN first : first[i] = o \/ first[i] \in Others
  <2>1. DOMAIN first = 1..Len(first)
    BY LenProperties
  <2> QED BY <2>1, ElementOfSeq DEF Readable
<1>5. ASSUME Matching(o, first) = 1 PROVE IsInjective(first)
  <2>1. PICK i : Matches(o, first) = {i}
    BY <1>5, Matchings
  <2>2. Once(o, first)
    BY <2>1 DEF Matches, Passes, Once
  <2> QED BY <1>4, <2>2 DEF OthersOnce, Once, IsInjective
<1> QED BY <1>3, <1>5 DEF There, Searched

LEMMA SearchDecides ==
    ASSUME NEW o \in Operations, NEW pages \in Seq(Pages), pages # <<>>, NEW first \in Seq(Items),
           FamilyOf[o] \in Searched \cup Whole, Len(pages) <= 1,
           PagesRun(o, pages, first), ReadOut(o, pages)
    PROVE  SearchCandidate(o, pages) <=> There(o, first)
<1>1. PICK p \in Pages : pages = Append(<<>>, p)
  <2>1. PICK s \in Seq(Pages), p \in Pages : pages = Append(s, p)
    BY SequenceEmptyOrAppend
  <2>2. Len(s) \in Nat /\ Len(pages) = Len(s) + 1
    BY <2>1, AppendProperties, LenProperties
  <2>3. s = <<>>
    BY <2>2, EmptySeq
  <2> QED BY <2>1, <2>3
<1>2. <<>> \in Seq(Pages) /\ Len(<<>>) = 0
  BY EmptySeq
<1>3. pages[1] = p /\ Len(pages) = 1 /\ 1 \in DOMAIN pages
  <2>1. Len(pages) = Len(<<>>) + 1 /\ pages[Len(<<>>) + 1] = p
    BY <1>1, <1>2, AppendProperties
  <2>2. DOMAIN pages = 1..Len(pages)
    BY LenProperties
  <2> QED BY <1>2, <2>1, <2>2
<1>4. p.rows \in Seq(Items) /\ Len(p.rows) \in Nat /\ Len(first) \in Nat
  <2>1. p.rows \in Seq(Items)
    BY DEF Pages
  <2> QED BY <2>1, LenProperties
<1>5. RowsOf(pages) = p.rows
  <2>1. RowsOf(pages) = RowsOf(<<>>) \o p.rows
    BY <1>1, <1>2, RowsFit
  <2> QED BY <1>4, <2>1, NoRows, ConcatEmptySeq
<1>6. p.ok /\ p.total = Len(first)
  BY <1>3 DEF ReadOut, PagesRun
<1>7. /\ p.rows = SubSeq(first, 1, Len(p.rows))
      /\ FamilyOf[o] \in Whole => Len(p.rows) = Len(first)
      /\ FamilyOf[o] \in Searched => Len(p.rows) = Min2(1 * PageSize, Len(first))
  BY <1>3, <1>5 DEF PagesRun, AllOk, ReadOut
<1>8. PageSize \in Nat /\ 1 * PageSize = PageSize
  BY OutboundAssumption
<1>9. SearchCandidate(o, pages) <=> Len(first) = Len(p.rows) /\ Matching(o, p.rows) = 1
  BY <1>3, <1>6 DEF SearchCandidate
<1>10. There(o, first) <=> Matching(o, first) = 1 /\ (FamilyOf[o] \in Searched => Len(first) <= PageSize)
  BY DEF There, Searched, Whole
<1>11. Len(first) = Len(p.rows) <=> (FamilyOf[o] \in Searched => Len(first) <= PageSize)
  BY <1>4, <1>7, <1>8 DEF Min2
<1>12. Len(first) = Len(p.rows) => p.rows = first
  BY <1>7, SubSeqFull
<1> QED BY <1>9, <1>10, <1>11, <1>12

(* What an assessment says.                                                *)
LEMMA AssessmentIsRight ==
    ASSUME OutboundInv, ReaderInv, reader.on # None, reader.pages # <<>>
    PROVE  LET o == reader.on
               candidate == Candidate(o, reader.pages) IN
           /\ candidate /\ FamilyOf[o] \in Marked => Effects(o) >= 1
           /\ ReadOut(o, reader.pages) /\ ~reader.moved => (candidate <=> There(o, reader.first))
<1> DEFINE o == reader.on
           pages == reader.pages
           first == reader.first
<1>1. /\ o \in Operations /\ pages \in Seq(Pages) /\ first \in Seq(Items) /\ Reading(o)
  BY DEF ReaderInv
<1>2. listing \in Seq(Items)
  BY DEF OutboundInv, OutboundTypes
<1>3. FamilyOf[o] \in Searched \cup Whole \cup {"pull", "comment"}
  BY <1>1, OutboundAssumption DEF Families
<1>4. ASSUME Candidate(o, pages), FamilyOf[o] \in Marked PROVE Effects(o) >= 1
  <2>1. In(o, listing)
    BY <1>1, <1>4, CandidateShows DEF Reading
  <2>2. Count(listing, o) \in Nat /\ Count(listing, o) >= 1
    <3>1. Count(listing, o) = Cardinality({i \in DOMAIN listing : listing[i] = o})
      BY DEF Count
    <3> QED BY <1>2, <2>1, <3>1, Counted, PlacesCount
  <2> QED BY <2>2 DEF Effects
<1>5. ASSUME ReadOut(o, pages), ~reader.moved PROVE Candidate(o, pages) <=> There(o, first)
  <2>1. /\ PagesRun(o, pages, first) /\ first \in Seq(Readable(o)) /\ OthersOnce(first)
        /\ FamilyOf[o] \in Searched \cup Whole => Len(pages) <= 1
    BY <1>1, <1>5 DEF Reading
  <2> HIDE DEF o, pages, first
  <2>2. CASE FamilyOf[o] = "pull"
    BY <1>1, <1>5, <2>1, <2>2, PullDecides DEF Candidate, pages
  <2>3. CASE FamilyOf[o] = "comment"
    BY <1>1, <1>5, <2>1, <2>3, CommentDecides DEF Candidate, pages
  <2>4. CASE FamilyOf[o] \in Searched \cup Whole
    <3>1. Candidate(o, pages) = SearchCandidate(o, pages)
      BY <2>4 DEF Candidate, Searched, Whole
    <3> QED BY <1>1, <1>5, <2>1, <2>4, <3>1, SearchDecides DEF pages
  <2> QED BY <1>3, <2>2, <2>3, <2>4
<1> QED BY <1>4, <1>5

(* Where effects carry a marker, a recovery names a candidate only when    *)
(* the operation took effect.  Read to its end while the listing held      *)
(* still, it names one exactly when the listing decides so: for every page *)
(* size, number of pages that are read, answers that fail and listings     *)
(* that change between two reads.                                          *)
THEOREM ReportsAreTrue == OutboundSpec => ReportsAreRight
<1>1. ASSUME OutboundInv, ReaderInv, [OutboundNext]_outboundVars, reader.on # None, reader' = NotReading
      PROVE  reader.pages # <<>>
  <2>1. reader'.on = None
    BY <1>1 DEF NotReading
  <2>2. Assess
    <3>1. reader' # reader
      BY <1>1, <2>1
    <3>2. ~ReadPage
      BY <1>1, <2>1 DEF ReadPage, ReaderInv
    <3>3. \A o \in Operations : ~PlanRecovery(o)
      BY <1>1 DEF PlanRecovery, NotReading
    <3> QED BY <1>1, <3>1, <3>2, <3>3, WhoReads
  <2> QED BY <2>2 DEF Assess
<1>2. ASSUME OutboundInv, ReaderInv, [OutboundNext]_outboundVars
      PROVE  reader.on # None /\ reader' = NotReading =>
                 LET o == reader.on
                     candidate == Candidate(o, reader.pages) IN
                 /\ candidate /\ FamilyOf[o] \in Marked => Effects(o) >= 1
                 /\ ReadOut(o, reader.pages) /\ ~reader.moved => (candidate <=> There(o, reader.first))
  BY <1>1, <1>2, AssessmentIsRight
<1> QED BY <1>2, OutboundInvariant, ReaderInvariant, PTL DEF OutboundSpec, ReportsAreRight

(* Every variable of Outbound holds what its comment says. *)
THEOREM OutboundTypeCorrect == OutboundSpec => []OutboundTypeOK
<1>1. OutboundInv /\ ReaderInv => OutboundTypeOK
  BY DEF OutboundInv, OutboundTypes, ReaderInv, OutboundTypeOK
<1> QED BY <1>1, OutboundInvariant, ReaderInvariant, PTL

=============================================================================
