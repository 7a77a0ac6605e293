--------------------------- MODULE PilotSuccession ---------------------------
(***************************************************************************)
(* Pilot journals over time: snapshots (orch/pilot_backup.py), retirement  *)
(* into a successor and the walks along a chain of journals                *)
(* (orch/pilot_succession.py), and preparing pilots (Pilot.prepare).       *)
(*                                                                         *)
(* A journal is a SQLite file in a directory.  A call is a process that    *)
(* opens journals one after another: each of its steps is one statement or *)
(* transaction, and between two of them anything may happen, its death     *)
(* included.  A pilot's evidence is its status, the only part that changes *)
(* with it; digests of a journal are its contents.                         *)
(*                                                                         *)
(* Left out: byte budgets, the rows' own integrity (digests), and paths    *)
(* that contain one another, which every call refuses.                     *)
(***************************************************************************)
EXTENDS Naturals, FiniteSets

CONSTANTS
    Journals,    \* directories a journal may be in
    Bundles,     \* directories a snapshot may be in
    Procs,       \* calls under way at once
    Pilots,      \* ids
    JOURNAL_CAP, LIVE_CAP,
    InspectionLimit, \* journals a walk passes at most; 64 in the code
    MaxFaults,   \* calls that die, for TLC
    None

ASSUME SuccessionAssumption ==
    /\ IsFiniteSet(Pilots)
    /\ JOURNAL_CAP \in Nat /\ LIVE_CAP \in Nat
    /\ InspectionLimit \in Nat \ {0} /\ MaxFaults \in Nat
    /\ None \notin Journals \cup Bundles

VARIABLES
    exists,   \* journal -> whether its file is there
    status,   \* journal -> pilot -> "none" or where it is
    retired,  \* journal -> [heir, bundle], the retirement's record, or NotRetired
    follows,  \* journal -> the predecessor it names, or None
    bundle,   \* bundle -> [sealed, of], or NoBundle
    call,     \* proc -> [at, on, with, to, seen]: step, journal, bundle, other
              \* journal, and the journals a walk has passed
    faults

journals == <<exists, status, retired, follows>>
vars == <<exists, status, retired, follows, bundle, call, faults>>

NotRetired == [heir |-> None, bundle |-> None]
Empty == [x \in Pilots |-> "none"]
Statuses == {"none", "prepared", "reserved", "settled", "reclaimed"}

(* audit and summary: all that a snapshot and the live journal compare. *)
Audit(j) == [status |-> status[j], retired |-> retired[j], follows |-> follows[j]]
NoAudit == [status |-> Empty, retired |-> NotRetired, follows |-> None]
NoBundle == [made |-> FALSE, sealed |-> FALSE, of |-> NoAudit]

Idle == [at |-> "idle", on |-> None, with |-> None, to |-> None, seen |-> {}]

Init ==
    /\ exists = [j \in Journals |-> FALSE]
    /\ status = [j \in Journals |-> Empty]
    /\ retired = [j \in Journals |-> NotRetired]
    /\ follows = [j \in Journals |-> None]
    /\ bundle = [b \in Bundles |-> NoBundle]
    /\ call = [p \in Procs |-> Idle]
    /\ faults = 0

Step(p, at) == call' = [call EXCEPT ![p].at = at]
Return(p) == call' = [call EXCEPT ![p] = Idle]
Begin(p, at, j, b, k) ==
    /\ call[p] = Idle
    /\ call' = [call EXCEPT ![p] = [at |-> at, on |-> j, with |-> b, to |-> k, seen |-> {}]]

Open(j) == retired[j] = NotRetired
Held(j) == {x \in Pilots : status[j][x] # "none"}
Live(j) == {x \in Pilots : status[j][x] \in {"prepared", "reserved", "settled"}}
Settled(j) == \A x \in Pilots : status[j][x] \notin {"prepared", "reserved"}

-----------------------------------------------------------------------------
(* Pilots. *)

HasRoom(j) == Cardinality(Held(j)) < JOURNAL_CAP /\ Cardinality(Live(j)) < LIVE_CAP

Admits(j) == Open(j) /\ HasRoom(j)

(* prepare, in the journal a walk arrived at; opening a journal creates it, *)
(* and an intent that is refused has changed nothing else.                  *)
Prepare(p) ==
    /\ call[p].at = "arrived"
    /\ LET j == call[p].to IN
       /\ exists' = [exists EXCEPT ![j] = TRUE]
       /\ \/ \E x \in Pilots :
                /\ Admits(j) /\ \A k \in Journals : status[k][x] = "none"
                /\ status' = [status EXCEPT ![j][x] = "prepared"]
          \/ UNCHANGED status
    /\ Return(p)
    /\ UNCHANGED <<retired, follows, bundle, faults>>

(* run, abandon, reconcile and reclaim go on in a retired journal. *)
Advance(j, x) ==
    /\ \E then \in CASE status[j][x] = "prepared" -> {"reserved", "settled"}
                     [] status[j][x] = "reserved" -> {"settled"}
                     [] status[j][x] = "settled" -> {"reclaimed"}
                     [] OTHER -> {} :
          status' = [status EXCEPT ![j][x] = then]
    /\ UNCHANGED <<exists, retired, follows, bundle, call, faults>>

-----------------------------------------------------------------------------
(* Snapshots: audit, then an exclusive directory and a consistent copy, then *)
(* the manifest.                                                             *)

BeginBackup(p) ==
    /\ \E j \in Journals, b \in Bundles :
          exists[j] /\ ~bundle[b].made /\ Begin(p, "audited", j, b, None)
    /\ UNCHANGED <<journals, bundle, faults>>

Copy(p) ==
    /\ call[p].at = "audited"
    /\ LET b == call[p].with IN
       IF bundle[b].made THEN Return(p) /\ UNCHANGED bundle
       ELSE /\ bundle' = [bundle EXCEPT ![b] =
                            [made |-> TRUE, sealed |-> FALSE, of |-> Audit(call[p].on)]]
            /\ Step(p, "copied")
    /\ UNCHANGED <<journals, faults>>

Seal(p) ==
    /\ call[p].at = "copied"
    /\ bundle' = [bundle EXCEPT ![call[p].with].sealed = TRUE]
    /\ Return(p)
    /\ UNCHANGED <<journals, faults>>

(* _verified_manifest and compare_journal_backup.  Rows carry their journal's *)
(* root; a bundle of an empty journal matches any empty one.                  *)
VerifiedUnsealed(b) == bundle[b].made  \* mutant: a manifest is not asked for
Verified(b) == bundle[b].sealed
Matches(b, j) == Verified(b) /\ bundle[b].of = Audit(j)

-----------------------------------------------------------------------------
(* retire: read in turn, then write twice. *)

BeginRetire(p) ==
    /\ \E j \in Journals, k \in Journals, b \in Bundles :
          /\ j # k /\ Begin(p, "checking", j, b, k)
          /\ exists' = [exists EXCEPT ![j] = TRUE]
    /\ UNCHANGED <<status, retired, follows, bundle, faults>>

Check(p) ==
    /\ call[p].at = "checking"
    /\ IF Open(call[p].on) /\ Settled(call[p].on) /\ ~exists[call[p].to]
       THEN Step(p, "comparing") ELSE Return(p)
    /\ UNCHANGED <<journals, bundle, faults>>

Compare(p) ==
    /\ call[p].at = "comparing"
    /\ IF Matches(call[p].with, call[p].on) THEN Step(p, "creating") ELSE Return(p)
    /\ UNCHANGED <<journals, bundle, faults>>

(* Mutant: the old journal is closed before its heir names it. *)
CreateHeirLast(p) ==
    /\ call[p].at = "creating"
    /\ exists' = [exists EXCEPT ![call[p].to] = TRUE]
    /\ retired' = [retired EXCEPT ![call[p].on] = [heir |-> call[p].to, bundle |-> call[p].with]]
    /\ Step(p, "naming")
    /\ UNCHANGED <<status, follows, bundle, faults>>

CreateHeir(p) ==
    /\ call[p].at = "creating"
    /\ exists' = [exists EXCEPT ![call[p].to] = TRUE]
    /\ IF status[call[p].to] = Empty /\ follows[call[p].to] = None
       THEN Step(p, "naming") ELSE Return(p)
    /\ UNCHANGED <<status, retired, follows, bundle, faults>>

(* Mutant: the record of another predecessor is replaced. *)
NameAgain(p) ==
    /\ call[p].at = "naming"
    /\ follows' = [follows EXCEPT ![call[p].to] = call[p].on]
    /\ Step(p, "closing")
    /\ UNCHANGED <<exists, status, retired, bundle, faults>>

(* The role is the key of the records' table: the second insert fails. *)
NameHeir(p) ==
    /\ call[p].at = "naming"
    /\ IF follows[call[p].to] = None
       THEN follows' = [follows EXCEPT ![call[p].to] = call[p].on] /\ Step(p, "closing")
       ELSE Return(p) /\ UNCHANGED follows
    /\ UNCHANGED <<exists, status, retired, bundle, faults>>

Close(p) ==
    /\ call[p].at = "closing"
    /\ retired' = IF Open(call[p].on)
                  THEN [retired EXCEPT ![call[p].on] =
                          [heir |-> call[p].to, bundle |-> call[p].with]]
                  ELSE retired
    /\ Return(p)
    /\ UNCHANGED <<exists, status, follows, bundle, faults>>

-----------------------------------------------------------------------------
(* forward and chain: `to` is the journal the walk is at, `with` unused. *)

BeginForward(p) ==
    /\ \E j \in Journals : Begin(p, "forward", j, None, j)
    /\ UNCHANGED <<journals, bundle, faults>>

(* A walk takes in a journal it has not passed while it is short enough. *)
Takes(c) == c.to \notin c.seen /\ Cardinality(c.seen) < InspectionLimit
Refusal(c) == IF c.to \in c.seen THEN "lost" ELSE "far"
Pass(p, at, k) ==
    call' = [call EXCEPT ![p].at = at, ![p].to = k, ![p].seen = @ \cup {call[p].to}]

(* state of the journal at hand, and then of the one it names. *)
Forward(p) ==
    LET c == call[p] IN
    /\ c.at = "forward"
    /\ \/ ~Takes(c) /\ Step(p, Refusal(c))
       \/ /\ Takes(c)
          /\ Pass(p, IF ~exists[c.to] THEN IF c.seen = {} THEN "arrived" ELSE "lost"
                     ELSE IF Open(c.to) THEN "arrived" ELSE "across", c.to)
    /\ UNCHANGED <<journals, bundle, faults>>

Across(p) ==
    /\ call[p].at = "across"
    /\ LET j == call[p].to  k == retired[j].heir IN
       IF exists[k] /\ follows[k] = j
       THEN call' = [call EXCEPT ![p].to = k, ![p].at = "forward"]
       ELSE Step(p, "lost")
    /\ UNCHANGED <<journals, bundle, faults>>

(* chain, from where a walk arrived back to the oldest.  Below the journal  *)
(* the walk began at, a retirement that never closed its journal refuses it. *)
TurnBack(p) ==
    /\ call[p].at = "arrived" /\ call[p].to # call[p].on
    /\ call' = [call EXCEPT ![p].at = "back", ![p].seen = {}]
    /\ UNCHANGED <<journals, bundle, faults>>

Back(p) ==
    LET c == call[p]
        j == follows[c.to] IN
    /\ c.at \in {"back", "beyond"}
    /\ \/ ~Takes(c) /\ Step(p, Refusal(c))
       \/ /\ Takes(c)
          /\ j # None /\ exists[j] /\ retired[j].heir = c.to
          /\ Pass(p, IF j = c.on THEN "beyond" ELSE c.at, j)
       \/ /\ Takes(c)
          /\ ~(j # None /\ exists[j] /\ retired[j].heir = c.to)
          /\ IF c.at = "beyond" THEN Return(p) ELSE Step(p, "lost")
    /\ UNCHANGED <<journals, bundle, faults>>

(* The caller of a walk that was refused for its length. *)
Report(p) ==
    /\ call[p].at = "far"
    /\ Return(p)
    /\ UNCHANGED <<journals, bundle, faults>>

Die(p) ==
    /\ call[p] # Idle /\ faults < MaxFaults
    /\ faults' = faults + 1
    /\ Return(p)
    /\ UNCHANGED <<journals, bundle>>

-----------------------------------------------------------------------------
Next ==
    \/ \E p \in Procs :
          \/ Prepare(p) \/ BeginBackup(p) \/ Copy(p) \/ Seal(p)
          \/ BeginRetire(p) \/ Check(p) \/ Compare(p) \/ CreateHeir(p) \/ NameHeir(p) \/ Close(p)
          \/ BeginForward(p) \/ Forward(p) \/ Across(p) \/ TurnBack(p) \/ Back(p)
          \/ Report(p) \/ Die(p)
    \/ \E j \in Journals, x \in Pilots : Advance(j, x)

Spec == Init /\ [][Next]_vars

-----------------------------------------------------------------------------
Retirements == [heir : Journals, bundle : Bundles] \cup {NotRetired}
Audits == [status : [Pilots -> Statuses],
           retired : Retirements,
           follows : Journals \cup {None}]
Steps == {"idle", "audited", "copied", "checking", "comparing", "creating", "naming",
          "closing", "forward", "across", "arrived", "back", "beyond", "lost", "far"}

TypeOK ==
    /\ exists \in [Journals -> BOOLEAN]
    /\ status \in [Journals -> [Pilots -> Statuses]]
    /\ retired \in [Journals -> Retirements]
    /\ follows \in [Journals -> Journals \cup {None}]
    /\ bundle \in [Bundles -> [made : BOOLEAN, sealed : BOOLEAN, of : Audits]]
    /\ call \in [Procs -> [at : Steps, on : Journals \cup {None},
                           with : Bundles \cup {None}, to : Journals \cup {None},
                           seen : SUBSET Journals]]
    /\ faults \in 0..MaxFaults

(* "never a retired journal with nowhere to continue": the successor a     *)
(* retired journal names is there and names it, whatever died or raced.    *)
RetiredHasItsHeir ==
    \A j \in Journals : ~Open(j) => exists[retired[j].heir] /\ follows[retired[j].heir] = j

(* Journals linked to one another and to k in both directions, along which *)
(* a walk forward, or back, came to k.                                     *)
Ahead(S, k) ==
    \A j \in S : ~Open(j) /\ retired[j].heir \in S \cup {k} /\ follows[retired[j].heir] = j
Behind(S, k) == \A j \in S : follows[j] \in S \cup {k} /\ retired[follows[j]].heir = j

(* A walk that opens journals one at a time while others are retired finds *)
(* no cycle, nothing missing and no link that is not returned: forward     *)
(* arrives, and from there back to where it began.  It is only refused     *)
(* after as many journals as it may pass, with another one still to come.  *)
WalksArrive ==
    \A p \in Procs :
        /\ call[p].at # "lost"
        /\ call[p].at = "far" =>
              /\ Cardinality(call[p].seen) = InspectionLimit
              /\ call[p].to \notin call[p].seen
              /\ Ahead(call[p].seen, call[p].to) \/ Behind(call[p].seen, call[p].to)

Captured(j, b) ==
    /\ bundle[b].sealed
    /\ bundle[b].of.retired = NotRetired
    /\ \A x \in Pilots :
           bundle[b].of.status[x] \in {"settled", "reclaimed"} =>
               status[j][x] \in {bundle[b].of.status[x], "reclaimed"}

(* What a retired journal was compared with is complete, from before its   *)
(* retirement, and no evidence in it was lost or taken back since: the      *)
(* bundle of a backup that died names no retirement.                        *)
RetiredIsCaptured == \A j \in Journals : ~Open(j) => Captured(j, retired[j].bundle)

(* Nothing is prepared in a retired journal, not by a call that found it    *)
(* open either, and a retirement is not taken back or redirected.           *)
RetiredIsClosed ==
    [][\A j \in Journals : ~Open(j) =>
           retired'[j] = retired[j] /\ \A x \in Pilots : status[j][x] = "none" => status'[j][x] = "none"]_vars

=============================================================================
