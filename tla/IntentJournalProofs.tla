------------------------- MODULE IntentJournalProofs -------------------------
(***************************************************************************)
(* Proofs about IntentJournal, for any journals, operations, tasks and     *)
(* processes, and whether or not operators stage into files that no        *)
(* retirement linked.                                                      *)
(*                                                                         *)
(* A chain is read one file after another while all of it may change.      *)
(* What makes that safe: the journal being staged into is locked, so it    *)
(* cannot be retired; all others of a sound chain are retired, so nothing  *)
(* is staged into them; and a journal whose chain is not sound is empty.   *)
(***************************************************************************)
EXTENDS IntentJournal, FiniteSetTheorems, TLAPS

(* Older and Linked of any links f and successors s, so that the lemmas    *)
(* below speak of the links before and after a step.                       *)
Behind(f, j) == {k \in Journals :
    \A S \in SUBSET Journals :
        f[j] \in S \cup {None} /\ (\A i \in S : f[i] \in S \cup {None}) => k \in S}
Sound(f, s, j) == \A k \in {j} \cup Behind(f, j) : f[k] # None => s[f[k]] = k
Links == [Journals -> Journals \cup {None}]

-----------------------------------------------------------------------------
(* Chains. *)

(* What a journal follows is what its chain is closed under, *)
LEMMA BehindIsClosed ==
    ASSUME NEW f \in Links, NEW j \in Journals
    PROVE  /\ f[j] \in Behind(f, j) \cup {None}
           /\ \A i \in Behind(f, j) : f[i] \in Behind(f, j) \cup {None}
BY DEF Behind, Links

(* and the least such set. *)
LEMMA BehindIsLeast ==
    ASSUME NEW f, NEW j, NEW S \in SUBSET Journals,
           f[j] \in S \cup {None}, \A i \in S : f[i] \in S \cup {None}
    PROVE  Behind(f, j) \subseteq S
BY DEF Behind

(* Everything behind a journal is followed by the journal or by another    *)
(* behind it.                                                              *)
LEMMA BehindIsFollowed ==
    ASSUME NEW f \in Links, NEW j \in Journals, NEW k \in Behind(f, j)
    PROVE  \E m \in {j} \cup Behind(f, j) : f[m] = k
<1> DEFINE S == {x \in Behind(f, j) : \E m \in {j} \cup Behind(f, j) : f[m] = x}
<1>1. f[j] \in S \cup {None} /\ \A i \in S : f[i] \in S \cup {None}
  BY BehindIsClosed
<1>2. S \in SUBSET Journals
  BY DEF Behind
<1>3. Behind(f, j) \subseteq S
  BY <1>1, <1>2, BehindIsLeast
<1> QED BY <1>3

(* What is behind a journal is behind all that follow it. *)
LEMMA BehindIsTransitive ==
    ASSUME NEW f \in Links, NEW j \in Journals, NEW k \in {j} \cup Behind(f, j)
    PROVE  Behind(f, k) \subseteq Behind(f, j)
<1>1. f[k] \in Behind(f, j) \cup {None}
  BY BehindIsClosed
<1>2. Behind(f, j) \in SUBSET Journals
  BY DEF Behind
<1> QED BY <1>1, <1>2, BehindIsClosed, BehindIsLeast

(* One step down the chain. *)
LEMMA BehindUnfolds ==
    ASSUME NEW f \in Links, NEW j \in Journals, NEW k \in Behind(f, j)
    PROVE  f[j] \in Journals /\ k \in {f[j]} \cup Behind(f, f[j])
<1>1. CASE f[j] = None
  <2>1. {} \in SUBSET Journals /\ f[j] \in {} \cup {None}
    BY <1>1
  <2>2. Behind(f, j) \subseteq {}
    BY <2>1, BehindIsLeast
  <2> QED BY <2>2
<1>2. CASE f[j] # None
  <2>1. f[j] \in Journals
    BY <1>2 DEF Links
  <2> DEFINE S == {f[j]} \cup Behind(f, f[j])
  <2>2. S \in SUBSET Journals
    BY <2>1 DEF Behind
  <2>3. \A i \in S : f[i] \in S \cup {None}
    BY <2>1, BehindIsClosed
  <2>4. f[j] \in S \cup {None}
    OBVIOUS
  <2> HIDE DEF S
  <2>5. Behind(f, j) \subseteq S
    BY <2>2, <2>3, <2>4, BehindIsLeast
  <2> QED BY <2>1, <2>5 DEF S
<1> QED BY <1>1, <1>2

(* A chain has no branches: of two journals in it one is behind the other. *)
LEMMA ChainIsLinear ==
    ASSUME NEW f \in Links, NEW j \in Journals,
           NEW k \in {j} \cup Behind(f, j), NEW m \in {j} \cup Behind(f, j)
    PROVE  k \in {m} \cup Behind(f, m) \/ m \in {k} \cup Behind(f, k)
<1> DEFINE S == {x \in {j} \cup Behind(f, j) :
                    k \in {x} \cup Behind(f, x) \/ x \in {k} \cup Behind(f, k)}
<1>1. k \in Journals /\ S \in SUBSET Journals
  BY DEF Behind
<1>2. j \in S
  OBVIOUS
<1>3. ASSUME NEW x \in S
      PROVE  f[x] \in S \cup {None}
  <2>1. f[x] \in Behind(f, j) \cup {None}
    BY BehindIsClosed
  <2>2. CASE x \in {k} \cup Behind(f, k)
    <3>1. f[x] \in Behind(f, k) \cup {None}
      BY <2>2, <1>1, BehindIsClosed
    <3> QED BY <3>1, <2>1
  <2>3. CASE k \in Behind(f, x)
    <3>1. x \in Journals
      BY <1>1
    <3>2. k \in {f[x]} \cup Behind(f, f[x])
      BY <3>1, <2>3, BehindUnfolds
    <3> QED BY <3>2, <2>1
  <2> QED BY <2>2, <2>3
<1>4. f[j] \in S \cup {None}
  BY <1>2, <1>3
<1>5. Behind(f, j) \subseteq S
  BY <1>1, <1>3, <1>4, BehindIsLeast
<1> QED BY <1>2, <1>5

(* A new link from a journal that is in nobody's chain changes its own     *)
(* chain only.                                                             *)
LEMMA NewLinkIsBehindNobody ==
    ASSUME NEW f \in Links, NEW h \in Journals, NEW i \in Journals, f[h] = None,
           NEW j \in Journals, j # h, h \notin Behind(f, j)
    PROVE  Behind([f EXCEPT ![h] = i], j) = Behind(f, j)
<1> DEFINE g == [f EXCEPT ![h] = i]
           B == Behind(f, j)
           C == Behind(g, j)
<1>1. g \in Links /\ \A x \in Journals : x # h => g[x] = f[x]
  BY DEF Links
<1>2. B \in SUBSET Journals /\ C \in SUBSET Journals
  BY DEF Behind
<1>3. C \subseteq B
  <2>1. g[j] \in B \cup {None} /\ \A x \in B : g[x] \in B \cup {None}
    BY <1>1, <1>2, BehindIsClosed
  <2> QED BY <2>1, <1>2, BehindIsLeast
<1>4. B \subseteq C
  <2>1. f[j] \in C \cup {None} /\ \A x \in C : f[x] \in C \cup {None}
    BY <1>1, <1>2, <1>3, BehindIsClosed
  <2> QED BY <2>1, <1>2, BehindIsLeast
<1> QED BY <1>3, <1>4

LEMMA OlderIsBehind == \A j \in Journals : Older(j) = Behind(follows, j)
BY DEF Older, Behind, ClosedUnder

LEMMA LinkedIsSound == \A j \in Journals : Linked(j) => Sound(follows, successor, j)
BY DEF Linked, Sound, Older, Behind, ClosedUnder

-----------------------------------------------------------------------------
(* The invariant. *)

LinksTyped ==
    /\ exists \in [Journals -> BOOLEAN]
    /\ follows \in Links
    /\ successor \in Links
    /\ records \in [Journals -> [Operations -> {"none", "withdrawn"} \cup Live]]

CallsTyped ==
    /\ version \in [Journals -> 1..3]
    /\ lock \in [Journals -> Processes \cup {None}]
    /\ pc \in [Processes -> {"idle", "staging", "retiring", "linking", "closing",
                             "upgrading", "upgraded", "alarmed"}]
    /\ on \in [Processes -> Journals \cup {None}]
    /\ arg \in [Processes -> Operations \cup Journals \cup {None}]
    /\ unread \in [Processes -> SUBSET Journals]
    /\ seen \in [Processes -> [Operations -> {"none", "withdrawn"} \cup Live]]

Bounded ==
    \A j \in Journals : IsFiniteSet(Retained(j)) /\ Cardinality(Retained(j)) <= MaxRecords

(* Links are made from new journals to journals in use. *)
Grounded ==
    /\ follows[Root] = None /\ exists[Root]
    /\ \A j \in Journals : follows[j] # None =>
          /\ exists[j]
          /\ follows[j] = Root \/ follows[follows[j]] # None

Retiring(p) ==
    /\ on[p] \in Journals /\ InUse(on[p])
    /\ arg[p] \in Journals \ {Root}
    /\ pc[p] # "retiring" => exists[arg[p]]
    /\ pc[p] = "closing" => follows[arg[p]] = on[p]

CallsFit ==
    \A p \in Processes :
        /\ pc[p] \in {"retiring", "linking", "closing"} => Retiring(p)
        /\ pc[p] \in {"upgrading", "upgraded"} => on[p] \in Journals

(* What a staging has looked into still is as it found it, and its own     *)
(* journal is locked and open.                                             *)
Staged(p) ==
    /\ on[p] \in Journals /\ arg[p] \in Operations
    /\ lock[on[p]] = p
    /\ successor[on[p]] = None
    /\ Sound(follows, successor, on[p])
    /\ Holding(on[p], arg[p]) = {}
    /\ \A k \in Behind(follows, on[p]) \ unread[p] : Holding(k, arg[p]) = {}

StagingFits == \A p \in Processes : pc[p] = "staging" => Staged(p)

(* A journal whose chain is not sound holds nothing. *)
UnsoundIsEmpty ==
    \A j \in Journals : Sound(follows, successor, j) \/ Retained(j) = {}

(* No two operations of a task are live at two places of one chain. *)
Single(j) ==
    \A k, m \in {j} \cup Behind(follows, j) : \A o, x \in Operations :
        /\ records[k][o] \in Live /\ records[m][x] \in Live
        /\ TaskOf[o] = TaskOf[x]
        => k = m /\ o = x

SoundIsSingle ==
    \A j \in Journals : Sound(follows, successor, j) => Single(j)

ChainInv == SuccessorFollows /\ UnsoundIsEmpty /\ SoundIsSingle
IInv ==
    /\ LinksTyped /\ CallsTyped /\ Bounded /\ Grounded
    /\ CallsFit /\ StagingFits /\ ChainInv

-----------------------------------------------------------------------------
(* A journal outside use, with nothing to follow, is in nobody's chain. *)
LEMMA NewIsBehindNobody ==
    ASSUME LinksTyped, Grounded, NEW h \in Journals, h # Root, follows[h] = None,
           NEW j \in Journals
    PROVE  h \notin Behind(follows, j)
<1> SUFFICES ASSUME h \in Behind(follows, j) PROVE FALSE
  OBVIOUS
<1>1. PICK m \in {j} \cup Behind(follows, j) : follows[m] = h
  BY BehindIsFollowed DEF LinksTyped
<1>2. m \in Journals
  BY DEF Behind
<1>3. h # None
  BY JournalAssumption
<1> QED BY <1>1, <1>2, <1>3 DEF Grounded

(* All but the newest journal of a sound chain are retired. *)
LEMMA BehindIsRetired ==
    ASSUME LinksTyped, NEW j \in Journals, Sound(follows, successor, j),
           NEW k \in Behind(follows, j)
    PROVE  successor[k] # None
<1>1. PICK m \in {j} \cup Behind(follows, j) : follows[m] = k
  BY BehindIsFollowed DEF LinksTyped
<1>2. m \in Journals /\ k \in Journals
  BY DEF Behind
<1>3. m # None /\ k # None
  BY <1>2, JournalAssumption
<1> QED BY <1>1, <1>3 DEF Sound

(* A sound chain is sound from every journal in it. *)
LEMMA SoundBehind ==
    ASSUME LinksTyped, NEW j \in Journals, Sound(follows, successor, j),
           NEW k \in {j} \cup Behind(follows, j)
    PROVE  Sound(follows, successor, k)
BY BehindIsTransitive DEF LinksTyped, Sound

-----------------------------------------------------------------------------
LEMMA InitIsInvariant == Init => IInv
<1> SUFFICES ASSUME Init PROVE IInv
  OBVIOUS
<1>1. None \notin Journals /\ None \notin Processes /\ Root \in Journals /\ MaxRecords \in Nat
  BY JournalAssumption
<1>2. LinksTyped
  BY <1>1 DEF Init, LinksTyped, Links, Empty, Live
<1>3. CallsTyped
  BY <1>1 DEF Init, CallsTyped, Empty, Live
<1>4. \A j \in Journals : Retained(j) = {}
  BY DEF Init, Retained, Empty
<1>5. Bounded
  BY <1>1, <1>4, FS_EmptySet DEF Bounded
<1>6. Grounded
  BY <1>1 DEF Init, Grounded
<1>7. CallsFit /\ StagingFits
  BY DEF Init, CallsFit, StagingFits
<1>8. SuccessorFollows
  BY DEF Init, SuccessorFollows
<1>9. SoundIsSingle
  BY DEF Init, SoundIsSingle, Single, Empty, Live, Behind
<1> QED BY <1>2, <1>3, <1>4, <1>5, <1>6, <1>7, <1>8, <1>9 DEF IInv, ChainInv, UnsoundIsEmpty

-----------------------------------------------------------------------------
(* Steps of one process that write no journal's records or links. *)

OthersGoOn(p) ==
    \A q \in Processes \ {p} :
        /\ pc'[q] = pc[q] /\ on'[q] = on[q] /\ arg'[q] = arg[q] /\ unread'[q] = unread[q]
        /\ \A j \in Journals : lock[j] = q => lock'[j] = q

CallFits(p) ==
    /\ pc[p] \in {"retiring", "linking", "closing"} => Retiring(p)
    /\ pc[p] \in {"upgrading", "upgraded"} => on[p] \in Journals
    /\ pc[p] = "staging" => Staged(p)

LEMMA CallMoves ==
    ASSUME IInv, CallsTyped', NEW p \in Processes,
           UNCHANGED <<records, follows, successor>>,
           exists' \in [Journals -> BOOLEAN],
           \A j \in Journals : exists[j] => exists'[j],
           OthersGoOn(p), CallFits(p)'
    PROVE  IInv'
<1> USE DEF IInv
<1>1. LinksTyped'
  BY DEF LinksTyped
<1>2. Bounded'
  BY DEF Bounded, Retained
<1>3. Grounded'
  BY JournalAssumption DEF Grounded, LinksTyped, Links
<1>4. ASSUME NEW q \in Processes, q # p
      PROVE  CallFits(q)'
  <2>1. (pc[q] \in {"retiring", "linking", "closing"} => Retiring(q))'
    BY <1>4 DEF OthersGoOn, CallsFit, Retiring, InUse
  <2>2. (pc[q] \in {"upgrading", "upgraded"} => on[q] \in Journals)'
    BY <1>4 DEF OthersGoOn, CallsFit
  <2>3. (pc[q] = "staging" => Staged(q))'
    BY <1>4 DEF OthersGoOn, StagingFits, Staged, Behind, Sound, Holding
  <2> QED BY <2>1, <2>2, <2>3 DEF CallFits
<1>5. CallsFit' /\ StagingFits'
  BY <1>4 DEF CallsFit, StagingFits, CallFits
<1>6. SuccessorFollows'
  BY DEF SuccessorFollows, ChainInv, LinksTyped, Links
<1>7. UnsoundIsEmpty' /\ SoundIsSingle'
  BY DEF UnsoundIsEmpty, SoundIsSingle, ChainInv, Sound, Retained, Single, Behind
<1> QED BY <1>1, <1>2, <1>3, <1>5, <1>6, <1>7 DEF ChainInv

LEMMA StopStep ==
    ASSUME CallsTyped, NEW p \in Processes, Stop(p), UNCHANGED version
    PROVE  CallsTyped' /\ OthersGoOn(p) /\ CallFits(p)' /\ pc'[p] = "idle"
<1>1. CallsTyped'
  BY DEF CallsTyped, Stop, Empty
<1>2. pc'[p] = "idle"
  BY DEF CallsTyped, Stop
<1>3. OthersGoOn(p)
  BY DEF CallsTyped, Stop, OthersGoOn
<1> QED BY <1>1, <1>2, <1>3 DEF CallFits

LEMMA DieKeeps ==
    ASSUME IInv, NEW p \in Processes, Die(p) PROVE IInv'
<1>1. Stop(p) /\ UNCHANGED journal
  BY DEF Die
<1>2. CallsTyped' /\ OthersGoOn(p) /\ CallFits(p)'
  BY <1>1, StopStep DEF IInv, journal
<1> QED BY <1>1, <1>2, CallMoves DEF IInv, journal, LinksTyped

LEMMA AuditAfterKeeps ==
    ASSUME IInv, NEW p \in Processes, AuditAfter(p) PROVE IInv'
<1>1. UNCHANGED journal /\ pc[p] = "upgraded"
  BY DEF AuditAfter
<1>2. CASE Stop(p)
  <2>1. CallsTyped' /\ OthersGoOn(p) /\ CallFits(p)'
    BY <1>1, <1>2, StopStep DEF IInv, journal
  <2> QED BY <1>1, <2>1, CallMoves DEF IInv, journal, LinksTyped
<1>3. CASE Goto(p, "alarmed") /\ UNCHANGED lock
  <2>1. CallsTyped'
    BY <1>1, <1>3 DEF IInv, CallsTyped, Goto, journal
  <2>2. OthersGoOn(p) /\ CallFits(p)'
    BY <1>1, <1>3 DEF IInv, CallsTyped, Goto, OthersGoOn, CallFits
  <2> QED BY <1>1, <2>1, <2>2, CallMoves DEF IInv, journal, LinksTyped
<1> QED BY <1>2, <1>3 DEF AuditAfter

LEMMA AuditBeforeKeeps ==
    ASSUME IInv, NEW p \in Processes, NEW j \in Journals, AuditBefore(p, j) PROVE IInv'
<1>1. UNCHANGED <<journal, lock>> /\ Start(p, j, None, "upgrading", {})
      /\ seen' = [seen EXCEPT ![p] = records[j]]
  BY DEF AuditBefore
<1>2. CallsTyped'
  BY <1>1 DEF IInv, CallsTyped, LinksTyped, Start, journal
<1>3. OthersGoOn(p) /\ CallFits(p)'
  BY <1>1 DEF IInv, CallsTyped, Start, OthersGoOn, CallFits
<1> QED BY <1>1, <1>2, <1>3, CallMoves DEF IInv, journal, LinksTyped

LEMMA RebuildKeeps ==
    ASSUME IInv, NEW p \in Processes, Rebuild(p) PROVE IInv'
<1>1. UNCHANGED <<exists, records, follows, successor>> /\ on[p] \in Journals
  BY DEF Rebuild, IInv, CallsFit
<1>2. CASE Stop(p) /\ UNCHANGED version
  <2>1. CallsTyped' /\ OthersGoOn(p) /\ CallFits(p)'
    BY <1>2, StopStep DEF IInv
  <2> QED BY <1>1, <2>1, CallMoves DEF IInv, LinksTyped
<1>3. CASE Goto(p, "upgraded") /\ version' = [version EXCEPT ![on[p]] = 3] /\ UNCHANGED lock
  <2>1. CallsTyped'
    BY <1>1, <1>3 DEF IInv, CallsTyped, Goto
  <2>2. OthersGoOn(p) /\ CallFits(p)'
    BY <1>1, <1>3 DEF IInv, CallsTyped, Goto, OthersGoOn, CallFits
  <2> QED BY <1>1, <2>1, <2>2, CallMoves DEF IInv, LinksTyped
<1> QED BY <1>2, <1>3 DEF Rebuild

LEMMA CompareKeeps ==
    ASSUME IInv, NEW p \in Processes, NEW j \in Journals, NEW h \in Journals,
           Compare(p, j, h)
    PROVE  IInv'
<1>1. UNCHANGED <<journal, lock>> /\ Start(p, j, h, "retiring", {})
      /\ seen' = [seen EXCEPT ![p] = records[j]] /\ InUse(j) /\ ~exists[h]
  BY DEF Compare
<1>2. CallsTyped'
  BY <1>1 DEF IInv, CallsTyped, LinksTyped, Start, journal
<1>3. h # Root
  BY <1>1 DEF IInv, Grounded
<1>4. OthersGoOn(p) /\ CallFits(p)'
  BY <1>1, <1>3 DEF IInv, CallsTyped, Start, OthersGoOn, CallFits, Retiring, InUse, journal
<1> QED BY <1>1, <1>2, <1>4, CallMoves DEF IInv, journal, LinksTyped

LEMMA CreateHeirKeeps ==
    ASSUME IInv, NEW p \in Processes, CreateHeir(p) PROVE IInv'
<1>1. /\ UNCHANGED <<version, records, follows, successor, lock>>
      /\ exists' = [exists EXCEPT ![arg[p]] = TRUE]
      /\ Goto(p, "linking") /\ pc[p] = "retiring"
  BY DEF CreateHeir
<1>2. Retiring(p)
  BY <1>1 DEF IInv, CallsFit
<1>3. CallsTyped'
  BY <1>1 DEF IInv, CallsTyped, Goto
<1>4. exists' \in [Journals -> BOOLEAN] /\ \A j \in Journals : exists[j] => exists'[j]
  BY <1>1 DEF IInv, LinksTyped
<1>5. OthersGoOn(p) /\ CallFits(p)'
  BY <1>1, <1>2, <1>4 DEF IInv, CallsTyped, LinksTyped, Goto, OthersGoOn, CallFits, Retiring, InUse
<1> QED BY <1>1, <1>3, <1>4, <1>5, CallMoves

LEMMA BeginStageKeeps ==
    ASSUME IInv, NEW p \in Processes, NEW j \in Journals, NEW o \in Operations,
           BeginStage(p, j, o)
    PROVE  IInv'
<1>1. /\ UNCHANGED <<journal, seen>> /\ Admits(j, o) /\ Begin(p, j)
      /\ Start(p, j, o, "staging", Older(j))
  BY DEF BeginStage
<1>2. Older(j) = Behind(follows, j) /\ Older(j) \in SUBSET Journals
  BY OlderIsBehind DEF Behind
<1>3. CallsTyped'
  BY <1>1, <1>2 DEF IInv, CallsTyped, Start, Begin, journal
<1>4. OthersGoOn(p)
  BY <1>1, JournalAssumption DEF IInv, CallsTyped, Start, Begin, Unlocked, OthersGoOn
<1>5. Sound(follows, successor, j)
  BY <1>1, LinkedIsSound DEF Admits
<1>6. on'[p] = j /\ arg'[p] = o /\ lock'[j] = p /\ unread'[p] = Behind(follows, j) /\ pc'[p] = "staging"
  BY <1>1, <1>2 DEF IInv, CallsTyped, Start, Begin
<1>7. Staged(p)'
  BY <1>1, <1>5, <1>6 DEF Staged, Admits, Sound, Behind, Holding, journal
<1>8. CallFits(p)'
  BY <1>6, <1>7 DEF CallFits
<1> QED BY <1>1, <1>3, <1>4, <1>8, CallMoves DEF IInv, journal, LinksTyped

LEMMA LookIntoKeeps ==
    ASSUME IInv, NEW p \in Processes, NEW k \in Journals, LookInto(p, k) PROVE IInv'
<1>1. UNCHANGED journal /\ pc[p] = "staging"
  BY DEF LookInto
<1>2. CASE Stop(p)
  <2>1. CallsTyped' /\ OthersGoOn(p) /\ CallFits(p)'
    BY <1>1, <1>2, StopStep DEF IInv, journal
  <2> QED BY <1>1, <2>1, CallMoves DEF IInv, journal, LinksTyped
<1>3. CASE /\ Holding(k, arg[p]) = {}
           /\ unread' = [unread EXCEPT ![p] = @ \ {k}]
           /\ UNCHANGED <<lock, pc, on, arg, seen>>
  <2>1. CallsTyped'
    BY <1>1, <1>3 DEF IInv, CallsTyped, journal
  <2>2. OthersGoOn(p)
    BY <1>1, <1>3 DEF IInv, CallsTyped, OthersGoOn
  <2>3. Staged(p)
    BY <1>1 DEF IInv, StagingFits
  <2>4. unread'[p] = unread[p] \ {k}
    BY <1>3 DEF IInv, CallsTyped
  <2>5. Staged(p)'
    BY <1>1, <1>3, <2>3, <2>4 DEF Staged, Sound, Behind, Holding, journal
  <2>6. CallFits(p)'
    BY <1>1, <1>3, <2>5 DEF CallFits
  <2> QED BY <1>1, <2>1, <2>2, <2>6, CallMoves DEF IInv, journal, LinksTyped
<1> QED BY <1>2, <1>3 DEF LookInto

-----------------------------------------------------------------------------
(* Steps that write. *)

(* An operation that goes on never takes more than it did. *)
LEMMA RecordMoves ==
    ASSUME IInv, NEW j \in Journals, NEW o \in Operations, NEW v \in {"uncertain", "withdrawn"},
           records[j][o] = "prepared", records' = [records EXCEPT ![j][o] = v],
           UNCHANGED <<exists, version, follows, successor, lock, process>>
    PROVE  IInv'
<1> USE DEF IInv
<1>1. LinksTyped' /\ CallsTyped'
  BY DEF LinksTyped, CallsTyped, process, Live
<1>2. /\ \A k \in Journals, x \in Operations :
            /\ records'[k][x] \in Live => records[k][x] \in Live
            /\ (records'[k][x] = "none") <=> (records[k][x] = "none")
      /\ \A k \in Journals : Retained(k)' = Retained(k)
  BY DEF LinksTyped, Live, Retained
<1>3. \A k \in Journals, x \in Operations : Holding(k, x)' \subseteq Holding(k, x)
  BY <1>2 DEF Holding
<1>4. Bounded'
  BY <1>2 DEF Bounded
<1>5. Grounded' /\ CallsFit' /\ SuccessorFollows'
  BY DEF Grounded, CallsFit, Retiring, InUse, SuccessorFollows, ChainInv, process
<1>6. StagingFits'
  <2> SUFFICES ASSUME NEW p \in Processes, pc[p] = "staging"
               PROVE  Staged(p)'
    BY DEF StagingFits, process
  <2>1. Staged(p)
    BY DEF StagingFits
  <2>2. \A k \in Journals : Holding(k, arg[p]) = {} => Holding(k, arg[p])' = {}
    <3> SUFFICES ASSUME NEW k \in Journals, Holding(k, arg[p]) = {}
                 PROVE  Holding(k, arg[p])' = {}
      OBVIOUS
    <3>1. arg'[p] = arg[p] /\ arg[p] \in Operations
      BY <2>1 DEF Staged, process
    <3>2. \A x \in Operations : x \notin Holding(k, arg[p])
      OBVIOUS
    <3> QED BY <3>1, <3>2, <1>2 DEF Holding
  <2>3. Behind(follows, on[p]) \in SUBSET Journals
    BY DEF Behind
  <2>4. Behind(follows, on[p])' = Behind(follows, on[p])
    BY DEF Behind, process
  <2>5. Sound(follows, successor, on[p])' = Sound(follows, successor, on[p])
    BY <2>4 DEF Sound, process
  <2> QED BY <2>1, <2>2, <2>3, <2>4, <2>5 DEF Staged, process
<1>7. UnsoundIsEmpty'
  BY <1>2 DEF UnsoundIsEmpty, ChainInv, Sound, Behind
<1>8. SoundIsSingle'
  <2> SUFFICES ASSUME NEW i \in Journals, Sound(follows, successor, i)'
               PROVE  Single(i)'
    BY DEF SoundIsSingle
  <2>1. Behind(follows, i)' = Behind(follows, i) /\ Behind(follows, i) \in SUBSET Journals
    BY DEF Behind
  <2>2. Single(i)
    BY <2>1 DEF SoundIsSingle, ChainInv, Sound
  <2> QED BY <2>1, <2>2, <1>2 DEF Single
<1> QED BY <1>1, <1>4, <1>5, <1>6, <1>7, <1>8 DEF ChainInv

LEMMA ReserveKeeps ==
    ASSUME IInv, NEW j \in Journals, NEW o \in Operations, Reserve(j, o) PROVE IInv'
BY RecordMoves DEF Reserve

LEMMA WithdrawKeeps ==
    ASSUME IInv, NEW j \in Journals, NEW o \in Operations, Withdraw(j, o) PROVE IInv'
BY RecordMoves DEF Withdraw

(* The record a staging ends with is the only one of its task in the chain *)
(* of its journal, and no other chain has that journal behind its end.     *)
LEMMA EndStageKeeps ==
    ASSUME IInv, NEW p \in Processes, EndStage(p) PROVE IInv'
<1> USE DEF IInv
<1>1. /\ pc[p] = "staging" /\ unread[p] = {} /\ Stop(p)
      /\ UNCHANGED <<exists, version, follows, successor>>
  BY DEF EndStage
<1>2. Staged(p)
  BY <1>1 DEF StagingFits
<1>3. PICK j \in Journals, o \in Operations : j = on[p] /\ o = arg[p]
  BY <1>2 DEF Staged
<1>4. CallsTyped' /\ OthersGoOn(p) /\ CallFits(p)' /\ pc'[p] = "idle"
  BY <1>1, StopStep
<1>5. CASE UNCHANGED records
  BY <1>1, <1>4, <1>5, CallMoves DEF LinksTyped
<1>6. CASE /\ Cardinality(Retained(j)) < MaxRecords
           /\ records' = [records EXCEPT ![j][o] = "prepared"]
  <2>1. LinksTyped'
    BY <1>1, <1>6 DEF LinksTyped, Live
  <2>2. /\ \A k \in Journals, x \in Operations : k # j \/ x # o => records'[k][x] = records[k][x]
        /\ records'[j][o] = "prepared"
    BY <1>6 DEF LinksTyped
  <2>3. \A k \in Journals : k # j => Retained(k)' = Retained(k)
    BY <2>2 DEF Retained
  <2>4. Retained(j)' = Retained(j) \cup {o}
    BY <2>2 DEF Retained
  <2>5. Bounded'
    <3>1. IsFiniteSet(Retained(j)) /\ Cardinality(Retained(j)) \in Nat
      BY FS_CardinalityType DEF Bounded
    <3>2. /\ IsFiniteSet(Retained(j) \cup {o})
          /\ Cardinality(Retained(j) \cup {o}) <= Cardinality(Retained(j)) + 1
      BY <3>1, FS_AddElement
    <3>3. Cardinality(Retained(j) \cup {o}) <= MaxRecords
      BY <1>6, <1>3, <3>1, <3>2, FS_CardinalityType, JournalAssumption
    <3> QED BY <2>3, <2>4, <3>2, <3>3 DEF Bounded
  <2>6. Grounded' /\ SuccessorFollows'
    BY <1>1 DEF Grounded, SuccessorFollows, ChainInv
  <2>7. CallsFit'
    <3> SUFFICES ASSUME NEW q \in Processes
                 PROVE  /\ (pc[q] \in {"retiring", "linking", "closing"} => Retiring(q))'
                        /\ (pc[q] \in {"upgrading", "upgraded"} => on[q] \in Journals)'
      BY DEF CallsFit
    <3>1. CASE q = p
      BY <1>4, <3>1
    <3>2. CASE q # p
      BY <1>1, <1>4, <3>2 DEF OthersGoOn, CallsFit, Retiring, InUse
    <3> QED BY <3>1, <3>2
  <2>8. StagingFits'
    <3> SUFFICES ASSUME NEW q \in Processes, pc'[q] = "staging"
                 PROVE  Staged(q)'
      BY DEF StagingFits
    <3>1. q # p /\ pc[q] = "staging" /\ on'[q] = on[q] /\ arg'[q] = arg[q]
          /\ unread'[q] = unread[q]
          /\ \A i \in Journals : lock[i] = q => lock'[i] = q
      BY <1>4 DEF OthersGoOn
    <3>2. Staged(q)
      BY <3>1 DEF StagingFits
    <3>3. on[q] # j
      BY <3>1, <3>2, <1>2, <1>3 DEF Staged
    <3>4. j \notin Behind(follows, on[q])
      BY <3>2, <1>2, <1>3, BehindIsRetired DEF Staged
    <3>5. /\ Behind(follows, on[q])' = Behind(follows, on[q])
          /\ Behind(follows, on[q]) \in SUBSET Journals
      BY <1>1, <3>1 DEF Behind
    <3>6. \A k \in {on[q]} \cup Behind(follows, on[q]) :
              Holding(k, arg[q])' = Holding(k, arg[q])
      <4> SUFFICES ASSUME NEW k \in {on[q]} \cup Behind(follows, on[q])
                   PROVE  Holding(k, arg[q])' = Holding(k, arg[q])
        OBVIOUS
      <4>1. k \in Journals /\ k # j
        BY <3>2, <3>3, <3>4, <3>5 DEF Staged
      <4> QED BY <4>1, <2>2, <3>1 DEF Holding
    <3>7. Sound(follows, successor, on[q])'
      BY <1>1, <3>1, <3>2, <3>5 DEF Sound, Staged
    <3>8. Holding(on[q], arg[q])' = {}
      BY <3>1, <3>2, <3>6 DEF Staged
    <3>9. (\A k \in Behind(follows, on[q]) \ unread[q] : Holding(k, arg[q]) = {})'
      BY <3>1, <3>2, <3>5, <3>6 DEF Staged
    <3> QED BY <1>1, <3>1, <3>2, <3>7, <3>8, <3>9 DEF Staged
  <2>9. UnsoundIsEmpty'
    <3> SUFFICES ASSUME NEW i \in Journals
                 PROVE  Sound(follows', successor', i) \/ Retained(i)' = {}
      BY DEF UnsoundIsEmpty
    <3>1. Sound(follows', successor', i) = Sound(follows, successor, i)
      BY <1>1
    <3>2. CASE i = j
      BY <1>2, <1>3, <3>1, <3>2 DEF Staged
    <3>3. CASE i # j
      BY <3>1, <3>3, <2>3 DEF UnsoundIsEmpty, ChainInv
    <3> QED BY <3>2, <3>3
  <2>10. SoundIsSingle'
    <3> SUFFICES ASSUME NEW i \in Journals, Sound(follows, successor, i)
                 PROVE  Single(i)'
      BY <1>1 DEF SoundIsSingle
    <3>1. j \notin Behind(follows, i)
      BY <1>2, <1>3, BehindIsRetired DEF Staged
    <3>2. Single(i)
      BY DEF SoundIsSingle, ChainInv
    <3>3. /\ Behind(follows, i)' = Behind(follows, i)
          /\ Behind(follows, i) \in SUBSET Journals
      BY <1>1 DEF Behind
    <3>4. CASE i # j
      BY <3>1, <3>2, <3>3, <3>4, <2>2 DEF Single
    <3>5. CASE i = j
      <4>1. \A k \in {i} \cup Behind(follows, i) : Holding(k, o) = {}
        BY <1>1, <1>2, <1>3, <3>5 DEF Staged
      <4>2. \A k \in {i} \cup Behind(follows, i), x \in Operations :
                TaskOf[x] = TaskOf[o] => records[k][x] \notin Live
        BY <4>1 DEF Holding
      <4> QED BY <4>2, <3>1, <3>2, <3>3, <3>5, <2>2 DEF Single
    <3> QED BY <3>4, <3>5
  <2> QED BY <1>4, <2>1, <2>5, <2>6, <2>7, <2>8, <2>9, <2>10 DEF ChainInv
<1> QED BY <1>5, <1>6, <1>3 DEF EndStage

(* A link is made from an empty journal that is in nobody's chain, and     *)
(* until its predecessor is closed the chain it begins is not sound.       *)
LEMMA LinkHeirKeeps ==
    ASSUME IInv, NEW p \in Processes, LinkHeir(p) PROVE IInv'
<1> USE DEF IInv
<1>1. pc[p] = "linking" /\ Unlocked(arg[p]) /\ UNCHANGED <<exists, records, successor>>
  BY DEF LinkHeir
<1>2. CASE Stop(p) /\ UNCHANGED <<version, follows>>
  <2>1. CallsTyped' /\ OthersGoOn(p) /\ CallFits(p)'
    BY <1>2, StopStep
  <2> QED BY <1>1, <1>2, <2>1, CallMoves DEF LinksTyped
<1>3. CASE /\ Retained(arg[p]) = {} /\ follows[arg[p]] = None
           /\ follows' = [follows EXCEPT ![arg[p]] = on[p]]
           /\ Installed(arg[p]) /\ Goto(p, "closing") /\ UNCHANGED lock
  <2>1. PICK h \in Journals, i \in Journals :
            /\ h = arg[p] /\ i = on[p]
            /\ h # Root /\ exists[h]
            /\ i = Root \/ follows[i] # None
    BY <1>1 DEF CallsFit, Retiring, InUse
  <2>2. None \notin Journals /\ follows[h] = None /\ i # h /\ follows \in Links
    BY <1>3, <2>1, JournalAssumption DEF LinksTyped
  <2>3. /\ follows' = [follows EXCEPT ![h] = i]
        /\ follows' \in Links /\ follows'[h] = i
        /\ \A j \in Journals : j # h => follows'[j] = follows[j]
    BY <1>3, <2>1, <2>2 DEF Links
  <2>4. \A j \in Journals : h \notin Behind(follows, j) /\ Behind(follows, j) \subseteq Journals
    BY <1>3, <2>1, NewIsBehindNobody DEF Behind
  <2>5. \A j \in Journals : j # h => Behind(follows', j) = Behind(follows, j)
    <3> SUFFICES ASSUME NEW j \in Journals, j # h
                 PROVE  Behind(follows', j) = Behind(follows, j)
      OBVIOUS
    <3>1. follows \in Links /\ follows[h] = None /\ h \notin Behind(follows, j)
      BY <2>2, <2>4
    <3>2. Behind([follows EXCEPT ![h] = i], j) = Behind(follows, j)
      BY <3>1, NewLinkIsBehindNobody
    <3> QED BY <2>3, <3>2
  <2>6. \A j \in Journals : j # h =>
            Sound(follows', successor', j) = Sound(follows, successor, j)
    <3> SUFFICES ASSUME NEW j \in Journals, j # h
                 PROVE  Sound(follows', successor', j) = Sound(follows, successor, j)
      OBVIOUS
    <3>1. \A k \in {j} \cup Behind(follows, j) : follows'[k] = follows[k]
      BY <2>3, <2>4
    <3>2. Behind(follows', j) = Behind(follows, j)
      BY <2>5
    <3> QED BY <1>1, <3>1, <3>2 DEF Sound
  <2>7. ~Sound(follows', successor', h)
    <3>1. successor[i] # h
      BY <1>3, <2>1, <2>2 DEF ChainInv, SuccessorFollows
    <3> QED BY <3>1, <1>1, <2>2, <2>3 DEF Sound
  <2>8. LinksTyped'
    BY <1>1, <2>3 DEF LinksTyped
  <2>9. CallsTyped'
    BY <1>3, <2>1 DEF CallsTyped, Goto, Installed
  <2>10. Bounded'
    BY <1>1 DEF Bounded, Retained
  <2>11. Grounded'
    BY <1>1, <2>1, <2>2, <2>3 DEF Grounded, Links
  <2>12. CallsFit'
    <3> SUFFICES ASSUME NEW q \in Processes
                 PROVE  /\ (pc[q] \in {"retiring", "linking", "closing"} => Retiring(q))'
                        /\ (pc[q] \in {"upgrading", "upgraded"} => on[q] \in Journals)'
      BY DEF CallsFit
    <3>1. on'[q] = on[q] /\ arg'[q] = arg[q]
      BY <1>3 DEF Goto
    <3>2. CASE q = p
      <4>1. pc'[p] = "closing"
        BY <1>3 DEF CallsTyped, Goto
      <4>2. on'[p] = i /\ arg'[p] = h
        BY <2>1, <3>1, <3>2
      <4>3. InUse(i)'
        BY <1>1, <2>1, <2>2, <2>3 DEF InUse, CallsFit, Retiring
      <4>4. Retiring(p)'
        BY <1>1, <2>1, <2>3, <4>2, <4>3 DEF Retiring
      <4> QED BY <3>2, <4>1, <4>4
    <3>3. CASE q # p
      <4>1. pc'[q] = pc[q]
        BY <1>3, <3>3 DEF CallsTyped, Goto
      <4>2. ASSUME pc[q] \in {"retiring", "linking", "closing"}
            PROVE  Retiring(q)'
        <5>1. Retiring(q)
          BY <4>2 DEF CallsFit
        <5>2. on[q] # None
          BY <5>1, <2>2 DEF Retiring
        <5>3. InUse(on[q])'
          BY <5>1, <1>1, <2>2, <2>3, <3>1 DEF Retiring, InUse
        <5>4. pc[q] = "closing" => follows'[arg[q]] = on[q]
          BY <5>1, <5>2, <1>3, <2>1, <2>3 DEF Retiring
        <5> QED BY <1>1, <3>1, <4>1, <5>1, <5>3, <5>4 DEF Retiring
      <4> QED BY <3>1, <4>1, <4>2 DEF CallsFit
    <3> QED BY <3>2, <3>3
  <2>13. StagingFits'
    <3> SUFFICES ASSUME NEW q \in Processes, pc'[q] = "staging"
                 PROVE  Staged(q)'
      BY DEF StagingFits
    <3>1. q # p /\ pc[q] = "staging"
      BY <1>3 DEF CallsTyped, Goto
    <3>2. Staged(q)
      BY <3>1 DEF StagingFits
    <3>3. on[q] # h /\ on[q] \in Journals
      BY <1>1, <2>1, <3>2, JournalAssumption DEF Staged, Unlocked
    <3>4. /\ Behind(follows, on[q])' = Behind(follows, on[q])
          /\ Sound(follows, successor, on[q])'
      BY <1>3, <2>5, <2>6, <3>2, <3>3 DEF Staged, Goto
    <3>5. on'[q] = on[q] /\ arg'[q] = arg[q] /\ unread'[q] = unread[q] /\ UNCHANGED <<lock, records>>
      BY <1>1, <1>3 DEF Goto
    <3> QED BY <1>1, <3>2, <3>4, <3>5 DEF Staged, Holding
  <2>14. SuccessorFollows'
    BY <1>1, <1>3, <2>1, <2>2, <2>3 DEF SuccessorFollows, ChainInv, LinksTyped, Links
  <2>15. UnsoundIsEmpty'
    <3>1. \A j \in Journals : Retained(j)' = Retained(j)
      BY <1>1 DEF Retained
    <3> QED BY <1>3, <2>1, <2>6, <3>1 DEF UnsoundIsEmpty, ChainInv
  <2>16. SoundIsSingle'
    <3> SUFFICES ASSUME NEW j \in Journals, Sound(follows', successor', j)
                 PROVE  Single(j)'
      BY DEF SoundIsSingle
    <3>1. j # h
      BY <2>7
    <3>2. Single(j)
      BY <2>6, <3>1 DEF SoundIsSingle, ChainInv
    <3> QED BY <1>1, <2>5, <3>1, <3>2 DEF Single
  <2> QED BY <2>8, <2>9, <2>10, <2>11, <2>12, <2>13, <2>14, <2>15, <2>16 DEF ChainInv
<1> QED BY <1>1, <1>2, <1>3 DEF LinkHeir

(* Closing the old journal makes the chain of its heir sound, and all that *)
(* become so with it were empty.                                           *)
LEMMA CloseOldKeeps ==
    ASSUME IInv, NEW p \in Processes, CloseOld(p) PROVE IInv'
<1> USE DEF IInv
<1>1. pc[p] = "closing" /\ Unlocked(on[p]) /\ Stop(p) /\ UNCHANGED <<exists, records, follows>>
  BY DEF CloseOld
<1>2. CASE UNCHANGED <<version, successor>>
  <2>1. CallsTyped' /\ OthersGoOn(p) /\ CallFits(p)'
    BY <1>1, <1>2, StopStep
  <2> QED BY <1>1, <1>2, <2>1, CallMoves DEF LinksTyped
<1>3. CASE /\ successor[on[p]] = None
           /\ successor' = [successor EXCEPT ![on[p]] = arg[p]]
           /\ Installed(on[p])
  <2>1. PICK h \in Journals, i \in Journals :
            /\ h = arg[p] /\ i = on[p]
            /\ exists[h] /\ follows[h] = i
    BY <1>1 DEF CallsFit, Retiring
  <2>2. None \notin Journals /\ follows \in Links
    BY JournalAssumption DEF LinksTyped
  <2>3. /\ successor' \in Links /\ successor'[i] = h /\ successor[i] = None
        /\ \A j \in Journals : j # i => successor'[j] = successor[j]
    BY <1>3, <2>1 DEF LinksTyped, Links
  <2>4. \A j \in Journals : Sound(follows, successor, j) => Sound(follows', successor', j)
    <3> SUFFICES ASSUME NEW j \in Journals, Sound(follows, successor, j),
                        NEW k \in {j} \cup Behind(follows, j), follows[k] # None
                 PROVE  successor'[follows[k]] = k
      BY <1>1 DEF Sound
    <3>1. k \in Journals
      BY DEF Behind
    <3>2. successor[follows[k]] = k /\ follows[k] \in Journals
      BY <2>2, <3>1 DEF Sound, Links
    <3>3. follows[k] # i
      BY <2>2, <2>3, <3>1, <3>2
    <3> QED BY <2>3, <3>2, <3>3
  <2>5. LinksTyped'
    BY <1>1, <2>3 DEF LinksTyped
  <2>6. CallsTyped'
    BY <1>1, <1>3, <2>1 DEF CallsTyped, Stop, Installed, Empty
  <2>7. pc'[p] = "idle" /\ OthersGoOn(p)
    BY <1>1 DEF CallsTyped, Stop, OthersGoOn
  <2>8. Bounded' /\ Grounded'
    BY <1>1 DEF Bounded, Retained, Grounded
  <2>9. CallsFit'
    <3> SUFFICES ASSUME NEW q \in Processes
                 PROVE  /\ (pc[q] \in {"retiring", "linking", "closing"} => Retiring(q))'
                        /\ (pc[q] \in {"upgrading", "upgraded"} => on[q] \in Journals)'
      BY DEF CallsFit
    <3>1. CASE q = p
      BY <2>7, <3>1
    <3>2. CASE q # p
      BY <1>1, <2>7, <3>2 DEF OthersGoOn, CallsFit, Retiring, InUse
    <3> QED BY <3>1, <3>2
  <2>10. StagingFits'
    <3> SUFFICES ASSUME NEW q \in Processes, pc'[q] = "staging"
                 PROVE  Staged(q)'
      BY DEF StagingFits
    <3>1. /\ q # p /\ pc[q] = "staging" /\ on'[q] = on[q] /\ arg'[q] = arg[q]
          /\ unread'[q] = unread[q]
          /\ \A j \in Journals : lock[j] = q => lock'[j] = q
      BY <2>7 DEF OthersGoOn
    <3>2. Staged(q)
      BY <3>1 DEF StagingFits
    <3>3. on[q] # i /\ on[q] \in Journals
      BY <1>1, <2>1, <3>2, JournalAssumption DEF Staged, Unlocked
    <3>4. Behind(follows, on[q])' = Behind(follows, on[q])
      BY <1>1, <3>1
    <3>5. Sound(follows, successor, on[q])'
      BY <2>4, <3>1, <3>2, <3>3 DEF Staged
    <3> QED BY <1>1, <2>3, <3>1, <3>2, <3>3, <3>4, <3>5 DEF Staged, Holding
  <2>11. SuccessorFollows'
    BY <1>1, <2>1, <2>2, <2>3 DEF SuccessorFollows, ChainInv
  <2>12. UnsoundIsEmpty'
    <3>1. \A j \in Journals : Retained(j)' = Retained(j)
      BY <1>1 DEF Retained
    <3> QED BY <2>4, <3>1 DEF UnsoundIsEmpty, ChainInv
  <2>13. SoundIsSingle'
    <3> SUFFICES ASSUME NEW j \in Journals, Sound(follows', successor', j),
                        NEW k \in {j} \cup Behind(follows, j),
                        NEW m \in {j} \cup Behind(follows, j),
                        NEW o \in Operations, NEW x \in Operations,
                        records[k][o] \in Live, records[m][x] \in Live, TaskOf[o] = TaskOf[x]
                 PROVE  k = m /\ o = x
      BY <1>1 DEF SoundIsSingle, Single
    <3>1. k \in Journals /\ m \in Journals
      BY DEF Behind
    <3>2. Retained(k) # {} /\ Retained(m) # {}
      BY DEF Retained, Live
    <3>3. Single(k) /\ Single(m)
      BY <3>1, <3>2 DEF ChainInv, UnsoundIsEmpty, SoundIsSingle
    <3>4. k \in {m} \cup Behind(follows, m) \/ m \in {k} \cup Behind(follows, k)
      BY <2>2, ChainIsLinear
    <3> QED BY <3>3, <3>4 DEF Single
  <2> QED BY <2>5, <2>6, <2>8, <2>9, <2>10, <2>11, <2>12, <2>13 DEF ChainInv
<1> QED BY <1>1, <1>2, <1>3 DEF CloseOld

-----------------------------------------------------------------------------
(* Every step, and the theorems. *)

LEMMA NextKeeps == ASSUME IInv, [Next]_vars PROVE IInv'
<1>1. CASE Next
  <2>1. ASSUME NEW p \in Processes, NEW j \in Journals, NEW o \in Operations, BeginStage(p, j, o)
        PROVE  IInv'
    BY <2>1, BeginStageKeeps
  <2>2. ASSUME NEW p \in Processes, NEW j \in Journals, NEW h \in Journals, Compare(p, j, h)
        PROVE  IInv'
    BY <2>2, CompareKeeps
  <2>3. ASSUME NEW p \in Processes, NEW j \in Journals, LookInto(p, j) \/ AuditBefore(p, j)
        PROVE  IInv'
    BY <2>3, LookIntoKeeps, AuditBeforeKeeps
  <2>4. ASSUME NEW p \in Processes,
               \/ EndStage(p) \/ CreateHeir(p) \/ LinkHeir(p) \/ CloseOld(p)
               \/ Rebuild(p) \/ AuditAfter(p) \/ Die(p)
        PROVE  IInv'
    BY <2>4, EndStageKeeps, CreateHeirKeeps, LinkHeirKeeps, CloseOldKeeps, RebuildKeeps,
       AuditAfterKeeps, DieKeeps
  <2>5. ASSUME NEW j \in Journals, NEW o \in Operations, Reserve(j, o) \/ Withdraw(j, o)
        PROVE  IInv'
    BY <2>5, ReserveKeeps, WithdrawKeeps
  <2> QED BY <1>1, <2>1, <2>2, <2>3, <2>4, <2>5 DEF Next
<1>2. CASE UNCHANGED vars
  <2> USE <1>2 DEF vars, journal, process, IInv
  <2>1. LinksTyped' /\ Bounded' /\ Grounded'
    BY DEF LinksTyped, Bounded, Retained, Grounded
  <2>6. CallsTyped'
    BY DEF CallsTyped
  <2>2. CallsFit'
    BY DEF CallsFit, Retiring, InUse
  <2>3. StagingFits'
    BY DEF StagingFits, Staged, Holding, Sound, Behind
  <2>4. SuccessorFollows' /\ UnsoundIsEmpty'
    BY DEF ChainInv, SuccessorFollows, UnsoundIsEmpty, Retained, Sound, Behind
  <2>5. SoundIsSingle'
    BY DEF ChainInv, SoundIsSingle, Single, Sound, Behind
  <2> QED BY <2>1, <2>2, <2>3, <2>4, <2>5, <2>6 DEF ChainInv
<1> QED BY <1>1, <1>2

(* Types, locks, what calls have seen, and sound chains, always. *)
THEOREM InductiveInvariant == Spec => []IInv
<1>1. Init => IInv
  BY InitIsInvariant
<1>2. IInv /\ [Next]_vars => IInv'
  BY NextKeeps
<1> QED BY <1>1, <1>2, PTL DEF Spec

(* Every variable keeps its type, and no journal holds more records than   *)
(* MAX_RECORDS.                                                            *)
THEOREM TypeCorrect == Spec => []TypeOK
<1>1. IInv => TypeOK
  BY DEF IInv, LinksTyped, CallsTyped, Bounded, TypeOK, Links
<1> QED BY <1>1, InductiveInvariant, PTL

(* A chain that can be checked holds one live operation a task, over any   *)
(* number of journals and however long the chain is.                       *)
THEOREM ChainHoldsOneLive == Spec => []OneLiveOperation
<1>1. IInv => OneLiveOperation
  <2> SUFFICES ASSUME IInv, NEW j \in Journals, Linked(j),
                      NEW s \in ({j} \cup Older(j)) \X Operations,
                      NEW t \in ({j} \cup Older(j)) \X Operations,
                      records[s[1]][s[2]] \in Live, records[t[1]][t[2]] \in Live,
                      TaskOf[s[2]] = TaskOf[t[2]]
               PROVE  s = t
    BY DEF OneLiveOperation
  <2>1. Single(j)
    BY LinkedIsSound DEF IInv, ChainInv, SoundIsSingle
  <2>2. s[1] = t[1] /\ s[2] = t[2]
    BY <2>1, OlderIsBehind DEF Single
  <2> QED BY <2>2
<1> QED BY <1>1, InductiveInvariant, PTL

(* A retired journal's successor is there and follows it alone. *)
THEOREM SuccessorsFollow == Spec => []SuccessorFollows
<1>1. IInv => SuccessorFollows
  BY DEF IInv, ChainInv
<1> QED BY <1>1, InductiveInvariant, PTL

=============================================================================
