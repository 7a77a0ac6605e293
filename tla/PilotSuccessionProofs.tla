------------------------ MODULE PilotSuccessionProofs ------------------------
(***************************************************************************)
(* Proofs about PilotSuccession, for any journals, bundles, pilots and     *)
(* calls.  Calls interleave statement by statement; what carries the       *)
(* properties is that journals and bundles only grow, so what a call has   *)
(* seen of them stays so until it acts on it.                              *)
(***************************************************************************)
EXTENDS PilotSuccession, FiniteSetTheorems, TLAPS

Calls == [at : Steps, on : Journals \cup {None}, with : Bundles \cup {None}, to : Journals \cup {None},
          seen : SUBSET Journals]
Snapshots == [made : BOOLEAN, sealed : BOOLEAN, of : Audits]

Backing == {"audited", "copied"}
Retiring == {"checking", "comparing", "creating", "naming", "closing"}
Walking == {"forward", "across", "arrived", "back", "beyond"}

(* A walk from j may be at k: k is in every set that has j and, with a     *)
(* retired journal, the one it names.                                      *)
Follows(S) == \A j \in S : ~Open(j) => retired[j].heir \in S
Reaches(j, k) == \A S \in SUBSET Journals : j \in S /\ Follows(S) => k \in S

(* What a call has seen, or made, is still so. *)
RetirementFits(c) ==
    /\ c.on \in Journals /\ c.to \in Journals /\ c.with \in Bundles
    /\ exists[c.on]
    /\ c.at \in {"naming", "closing"} => exists[c.to]
    /\ c.at = "closing" => follows[c.to] = c.on
    /\ c.at \in {"creating", "naming", "closing"} /\ Open(c.on) => Captured(c.on, c.with)

WalkFits(c) ==
    /\ c.on \in Journals /\ c.to \in Journals
    /\ c.at # "beyond" => Reaches(c.on, c.to)
    /\ c.at = "across" => ~Open(c.to)
    /\ c.at = "back" => c.to # c.on

CallFits(c) ==
    /\ c.at \in Backing => c.on \in Journals /\ c.with \in Bundles
    /\ c.at = "copied" => bundle[c.with].made
    /\ c.at \in Retiring => RetirementFits(c)
    /\ c.at \in Walking => WalkFits(c)

CallsFit == \A p \in Procs : CallFits(call[p])

(* A retired journal is there. *)
RetiredExists == \A j \in Journals : ~Open(j) => exists[j]

SealedIsMade == \A b \in Bundles : bundle[b].sealed => bundle[b].made

JournalsFit == RetiredExists /\ RetiredHasItsHeir /\ RetiredIsCaptured /\ SealedIsMade

IInv == TypeOK /\ JournalsFit /\ CallsFit

-----------------------------------------------------------------------------
(* What no step undoes. *)

Grows ==
    /\ \A j \in Journals :
        /\ exists[j] => exists'[j]
        /\ ~Open(j) => retired'[j] = retired[j]
        /\ follows[j] # None => follows'[j] = follows[j]
        /\ \A x \in Pilots :
            /\ status[j][x] \in {"settled", "reclaimed"} => status'[j][x] \in {status[j][x], "reclaimed"}
            /\ ~Open(j) /\ status[j][x] = "none" => status'[j][x] = "none"
    /\ \A b \in Bundles :
        /\ bundle[b].made => bundle'[b].made
        /\ bundle[b].sealed => bundle'[b] = bundle[b]

LEMMA RetiredIsNamed ==
    ASSUME TypeOK, NEW j \in Journals, ~Open(j)
    PROVE  /\ retired[j].heir \in Journals
           /\ retired[j].bundle \in Bundles
BY DEF TypeOK, Retirements, Open

LEMMA StaysRetired ==
    ASSUME Grows, NEW j \in Journals, ~Open(j)
    PROVE  ~Open(j)'
BY DEF Grows, Open, NotRetired

LEMMA CapturedStays ==
    ASSUME TypeOK, Grows, NEW j \in Journals, NEW b \in Bundles, Captured(j, b)
    PROVE  Captured(j, b)'
<1>1. bundle'[b] = bundle[b]
  BY DEF Grows, Captured
<1>2. ASSUME NEW x \in Pilots, bundle[b].of.status[x] \in {"settled", "reclaimed"}
      PROVE  status'[j][x] \in {bundle[b].of.status[x], "reclaimed"}
  <2>1. status[j][x] \in {bundle[b].of.status[x], "reclaimed"}
    BY <1>2 DEF Captured
  <2> QED BY <1>2, <2>1 DEF Grows
<1> QED BY <1>1, <1>2 DEF Captured, NotRetired

LEMMA ReachesStays ==
    ASSUME Grows, NEW j \in Journals, NEW k \in Journals, Reaches(j, k)
    PROVE  Reaches(j, k)'
<1>1. ASSUME NEW S \in SUBSET Journals, Follows(S)' PROVE Follows(S)
  BY <1>1, StaysRetired DEF Follows, Grows
<1> QED BY <1>1 DEF Reaches

(* What a call has seen is so as long as journals only grow. *)
LEMMA CallStaysFit ==
    ASSUME TypeOK, Grows, NEW c \in Calls, CallFits(c)
    PROVE  CallFits(c)'
<1>1. c.at \in Backing => c.on \in Journals /\ c.with \in Bundles
  BY DEF CallFits
<1>2. c.at = "copied" => bundle'[c.with].made
  BY DEF CallFits, Backing, Grows
<1>3. c.at \in Retiring => RetirementFits(c)'
  <2> SUFFICES ASSUME c.at \in Retiring PROVE RetirementFits(c)'
    OBVIOUS
  <2>1. RetirementFits(c)
    BY DEF CallFits
  <2>2. c.on \in Journals /\ c.to \in Journals /\ c.with \in Bundles
    BY <2>1 DEF RetirementFits
  <2>3. exists'[c.on] /\ (c.at \in {"naming", "closing"} => exists'[c.to])
    BY <2>1, <2>2 DEF RetirementFits, Grows
  <2>4. c.at = "closing" => follows'[c.to] = c.on
    BY <2>1, <2>2, SuccessionAssumption DEF RetirementFits, Grows
  <2>5. c.at \in {"creating", "naming", "closing"} /\ Open(c.on)' => Captured(c.on, c.with)'
    BY <2>1, <2>2, StaysRetired, CapturedStays DEF RetirementFits
  <2> QED BY <2>2, <2>3, <2>4, <2>5 DEF RetirementFits
<1>4. c.at \in Walking => WalkFits(c)'
  BY StaysRetired, ReachesStays DEF CallFits, WalkFits
<1> QED BY <1>1, <1>2, <1>3, <1>4 DEF CallFits

(* A step that retires nothing leaves retired journals as they must be. *)
LEMMA JournalsStayFit ==
    ASSUME TypeOK, JournalsFit, Grows, retired' = retired, SealedIsMade'
    PROVE  JournalsFit'
<1> SUFFICES ASSUME NEW j \in Journals, ~Open(j)'
             PROVE  /\ exists'[j]
                    /\ exists'[retired'[j].heir] /\ follows'[retired'[j].heir] = j
                    /\ Captured(j, retired[j].bundle)'
  BY DEF JournalsFit, RetiredExists, RetiredHasItsHeir, RetiredIsCaptured
<1>1. ~Open(j)
  BY DEF Open
<1>2. retired[j].heir \in Journals /\ retired[j].bundle \in Bundles
  BY <1>1, RetiredIsNamed
<1>3. exists[j] /\ exists[retired[j].heir] /\ follows[retired[j].heir] = j
  BY <1>1 DEF JournalsFit, RetiredExists, RetiredHasItsHeir
<1>4. exists'[j] /\ exists'[retired'[j].heir] /\ follows'[retired'[j].heir] = j
  BY <1>2, <1>3, SuccessionAssumption DEF Grows
<1>5. Captured(j, retired[j].bundle)
  BY <1>1 DEF JournalsFit, RetiredIsCaptured
<1> QED BY <1>2, <1>4, <1>5, CapturedStays

(* One call goes on, the others are where they were. *)
Moves(p, c) == call' = [call EXCEPT ![p] = c]

LEMMA CallsStayFit ==
    ASSUME IInv, Grows, NEW p \in Procs, NEW c \in Calls, Moves(p, c), CallFits(c)'
    PROVE  CallsFit' /\ call' \in [Procs -> Calls]
<1>1. call \in [Procs -> Calls]
  BY DEF IInv, TypeOK, Calls
<1>2. ASSUME NEW q \in Procs PROVE CallFits(call[q])'
  <2>1. CASE q = p
    <3>1. call'[q] = c
      BY <1>1, <2>1 DEF Moves
    <3> QED BY <3>1 DEF CallFits, RetirementFits, WalkFits
  <2>2. CASE q # p
    <3>1. call'[q] = call[q] /\ call[q] \in Calls /\ CallFits(call[q])
      BY <1>1, <2>2 DEF Moves, IInv, CallsFit
    <3>2. ASSUME NEW d \in Calls, d = call[q], CallFits(d) PROVE CallFits(d)'
      BY <3>2, CallStaysFit DEF IInv
    <3> QED BY <3>1, <3>2 DEF CallFits, RetirementFits, WalkFits
  <2> QED BY <2>1, <2>2
<1>3. CallsFit'
  BY <1>2 DEF CallsFit
<1> QED BY <1>1, <1>3 DEF Moves

-----------------------------------------------------------------------------
(* Two shapes of step: the call goes on and nothing else changes, or it    *)
(* also writes.                                                            *)

JournalTypes ==
    /\ exists \in [Journals -> BOOLEAN]
    /\ status \in [Journals -> [Pilots -> Statuses]]
    /\ retired \in [Journals -> Retirements]
    /\ follows \in [Journals -> Journals \cup {None}]

OtherTypes == bundle \in [Bundles -> Snapshots] /\ faults \in 0..MaxFaults

LEMMA TypeParts == TypeOK <=> JournalTypes /\ OtherTypes /\ call \in [Procs -> Calls]
BY DEF TypeOK, JournalTypes, OtherTypes, Calls, Snapshots

LEMMA WriteStep ==
    ASSUME IInv, Grows, JournalTypes', OtherTypes', JournalsFit',
           NEW p \in Procs, NEW c \in Calls, Moves(p, c), CallFits(c)'
    PROVE  IInv'
<1>1. CallsFit' /\ call' \in [Procs -> Calls]
  BY CallsStayFit
<1>2. TypeOK'
  BY <1>1 DEF TypeOK, JournalTypes, OtherTypes, Calls, Snapshots
<1> QED BY <1>1, <1>2 DEF IInv

LEMMA NothingUndone == ASSUME UNCHANGED <<journals, bundle>> PROVE Grows
BY DEF Grows, journals

LEMMA SameJournalsFit ==
    ASSUME IInv, UNCHANGED <<journals, bundle>>
    PROVE  Grows /\ JournalsFit'
<1>1. Grows
  BY NothingUndone
<1>2. SealedIsMade'
  BY DEF IInv, JournalsFit, SealedIsMade
<1> QED BY <1>1, <1>2, JournalsStayFit DEF IInv, journals

LEMMA QuietStep ==
    ASSUME IInv, UNCHANGED <<journals, bundle>>, faults' \in 0..MaxFaults,
           NEW p \in Procs, NEW c \in Calls, Moves(p, c), CallFits(c)
    PROVE  IInv'
<1>1. Grows /\ JournalsFit'
  BY SameJournalsFit
<1>2. JournalTypes' /\ OtherTypes'
  BY TypeParts DEF IInv, JournalTypes, OtherTypes, journals
<1>3. CallFits(c)'
  BY <1>1, CallStaysFit DEF IInv
<1> QED BY <1>1, <1>2, <1>3, WriteStep

LEMMA IdleFits == Idle \in Calls /\ CallFits(Idle)
BY DEF Idle, Calls, Steps, CallFits, Backing, Retiring, Walking

LEMMA StepMoves ==
    ASSUME call \in [Procs -> Calls], NEW p \in Procs, NEW at \in Steps, Step(p, at)
    PROVE  \E c \in Calls : /\ Moves(p, c) /\ c.at = at
                            /\ c.on = call[p].on /\ c.with = call[p].with /\ c.to = call[p].to
                            /\ c.seen = call[p].seen
<1> DEFINE c == [call[p] EXCEPT !.at = at]
<1>1. call[p] \in Calls
  OBVIOUS
<1>2. c \in Calls /\ c.at = at /\ c.on = call[p].on /\ c.with = call[p].with /\ c.to = call[p].to
            /\ c.seen = call[p].seen
  BY <1>1 DEF Calls
<1>3. Moves(p, c)
  BY DEF Step, Moves
<1> QED BY <1>2, <1>3

LEMMA CallHere ==
    ASSUME IInv, NEW p \in Procs
    PROVE  call \in [Procs -> Calls] /\ call[p] \in Calls /\ CallFits(call[p])
BY TypeParts DEF IInv, CallsFit

LEMMA ReturnKeeps ==
    ASSUME IInv, UNCHANGED <<journals, bundle>>, faults' \in 0..MaxFaults, NEW p \in Procs, Return(p)
    PROVE  IInv'
<1>1. Moves(p, Idle)
  BY DEF Return, Moves
<1>2. ASSUME NEW c \in Calls, c = Idle PROVE CallFits(c) /\ Moves(p, c)
  BY <1>1, <1>2, IdleFits
<1> QED BY <1>2, IdleFits, QuietStep

-----------------------------------------------------------------------------
(* Steps that only read. *)

LEMMA BeginMoves ==
    ASSUME NEW p \in Procs, NEW at \in Steps, NEW j \in Journals,
           NEW b \in Bundles \cup {None}, NEW k \in Journals \cup {None}, Begin(p, at, j, b, k)
    PROVE  \E c \in Calls : Moves(p, c) /\ c.at = at /\ c.on = j /\ c.with = b /\ c.to = k /\ c.seen = {}
<1> DEFINE c == [at |-> at, on |-> j, with |-> b, to |-> k, seen |-> {}]
<1>1. c \in Calls /\ c.at = at /\ c.on = j /\ c.with = b /\ c.to = k /\ c.seen = {}
  BY DEF Calls
<1> QED BY <1>1 DEF Begin, Moves

LEMMA BeginBackupKeeps == ASSUME IInv, NEW p \in Procs, BeginBackup(p) PROVE IInv'
<1>1. PICK j \in Journals, b \in Bundles : Begin(p, "audited", j, b, None)
  BY DEF BeginBackup
<1>2. PICK c \in Calls : Moves(p, c) /\ c.at = "audited" /\ c.on = j /\ c.with = b
  BY <1>1, BeginMoves DEF Steps
<1>3. CallFits(c)
  BY <1>2 DEF CallFits, Backing, Retiring, Walking
<1>4. UNCHANGED <<journals, bundle>> /\ faults' \in 0..MaxFaults
  BY DEF BeginBackup, IInv, TypeOK
<1> QED BY <1>2, <1>3, <1>4, QuietStep

LEMMA CheckKeeps == ASSUME IInv, NEW p \in Procs, Check(p) PROVE IInv'
<1>0. UNCHANGED <<journals, bundle>> /\ faults' \in 0..MaxFaults
  BY DEF Check, IInv, TypeOK
<1>1. CASE Return(p)
  BY <1>0, <1>1, ReturnKeeps
<1>2. CASE Step(p, "comparing")
  <2>1. PICK c \in Calls : /\ Moves(p, c) /\ c.at = "comparing"
                          /\ c.on = call[p].on /\ c.with = call[p].with /\ c.to = call[p].to
    BY <1>2, CallHere, StepMoves DEF Steps
  <2>2. call[p].at = "checking" /\ CallFits(call[p])
    BY CallHere DEF Check
  <2>3. CallFits(c)
    BY <2>1, <2>2 DEF CallFits, RetirementFits, Backing, Retiring, Walking
  <2> QED BY <1>0, <2>1, <2>3, QuietStep
<1> QED BY <1>1, <1>2 DEF Check

(* A bundle that matches an open journal holds what is in it now. *)
LEMMA MatchCaptures ==
    ASSUME IInv, NEW j \in Journals, NEW b \in Bundles, Matches(b, j), Open(j)
    PROVE  Captured(j, b)
<1>1. status[j] \in [Pilots -> Statuses]
  BY DEF IInv, TypeOK
<1> QED BY <1>1 DEF Captured, Matches, Verified, Audit, Open

LEMMA CompareKeeps == ASSUME IInv, NEW p \in Procs, Compare(p) PROVE IInv'
<1>0. UNCHANGED <<journals, bundle>> /\ faults' \in 0..MaxFaults
  BY DEF Compare, IInv, TypeOK
<1>1. CASE Return(p)
  BY <1>0, <1>1, ReturnKeeps
<1>2. CASE Matches(call[p].with, call[p].on) /\ Step(p, "creating")
  <2>1. PICK c \in Calls : /\ Moves(p, c) /\ c.at = "creating"
                          /\ c.on = call[p].on /\ c.with = call[p].with /\ c.to = call[p].to
    BY <1>2, CallHere, StepMoves DEF Steps
  <2>2. call[p].at = "comparing" /\ CallFits(call[p])
    BY CallHere DEF Compare
  <2>3. c.on \in Journals /\ c.to \in Journals /\ c.with \in Bundles /\ exists[c.on]
    BY <2>1, <2>2 DEF CallFits, RetirementFits, Retiring
  <2>4. Open(c.on) => Captured(c.on, c.with)
    BY <1>2, <2>1, <2>3, MatchCaptures
  <2>5. CallFits(c)
    BY <2>1, <2>3, <2>4 DEF CallFits, RetirementFits, Backing, Retiring, Walking
  <2> QED BY <1>0, <2>1, <2>5, QuietStep
<1> QED BY <1>1, <1>2 DEF Compare

LEMMA ReachesItself == \A j \in Journals : Reaches(j, j)
BY DEF Reaches

LEMMA ReachesOn ==
    ASSUME NEW j \in Journals, NEW k \in Journals, Reaches(j, k), ~Open(k)
    PROVE  Reaches(j, retired[k].heir)
BY DEF Reaches, Follows

(* But for the one it began at, a walk came from a retired journal. *)
LEMMA CameFrom ==
    ASSUME IInv, NEW j \in Journals, NEW k \in Journals, Reaches(j, k), k # j
    PROVE  /\ follows[k] \in Journals /\ exists[follows[k]]
           /\ retired[follows[k]].heir = k /\ Reaches(j, follows[k])
<1> DEFINE R == {i \in Journals : Reaches(j, i)}
<1>1. j \in R
  BY ReachesItself
<1>2. \A i \in R : ~Open(i) => retired[i].heir \in R
  BY ReachesOn, RetiredIsNamed DEF IInv
<1>3. ~Follows(R \ {k})
  <2>1. R \ {k} \in SUBSET Journals /\ j \in R \ {k} /\ k \notin R \ {k}
    BY <1>1
  <2> HIDE DEF R
  <2> QED BY <2>1 DEF Reaches
<1>4. PICK i \in R \ {k} : ~Open(i) /\ retired[i].heir \notin R \ {k}
  BY <1>3 DEF Follows
<1>5. retired[i].heir = k /\ i \in Journals /\ Reaches(j, i)
  BY <1>2, <1>4
<1>6. follows[k] = i /\ exists[i]
  BY <1>4, <1>5 DEF IInv, JournalsFit, RetiredHasItsHeir, RetiredExists
<1> QED BY <1>5, <1>6

LEMMA BeginForwardKeeps == ASSUME IInv, NEW p \in Procs, BeginForward(p) PROVE IInv'
<1>1. PICK j \in Journals : Begin(p, "forward", j, None, j)
  BY DEF BeginForward
<1>2. PICK c \in Calls : Moves(p, c) /\ c.at = "forward" /\ c.on = j /\ c.to = j
  BY <1>1, BeginMoves DEF Steps
<1>3. CallFits(c)
  BY <1>2, ReachesItself DEF CallFits, WalkFits, Backing, Retiring, Walking
<1>4. UNCHANGED <<journals, bundle>> /\ faults' \in 0..MaxFaults
  BY DEF BeginForward, IInv, TypeOK
<1> QED BY <1>2, <1>3, <1>4, QuietStep

LEMMA WalkHere ==
    ASSUME IInv, NEW p \in Procs, call[p].at \in Walking
    PROVE  WalkFits(call[p]) /\ call[p].on \in Journals /\ call[p].to \in Journals
BY CallHere DEF CallFits, WalkFits

(* What a step of a walk makes of its call. *)
LEMMA PassMoves ==
    ASSUME IInv, NEW p \in Procs, call[p].at \in Walking, NEW at \in Steps, NEW k \in Journals, Pass(p, at, k)
    PROVE  \E c \in Calls : /\ Moves(p, c) /\ c.at = at /\ c.on = call[p].on /\ c.to = k
                            /\ c.seen = call[p].seen \cup {call[p].to}
<1> DEFINE c == [call[p] EXCEPT !.at = at, !.to = k, !.seen = @ \cup {call[p].to}]
<1>1. call \in [Procs -> Calls] /\ call[p] \in Calls /\ call[p].to \in Journals
  BY CallHere, WalkHere
<1>2. /\ c \in Calls /\ c.at = at /\ c.on = call[p].on /\ c.to = k
      /\ c.seen = call[p].seen \cup {call[p].to}
  BY <1>1 DEF Calls
<1>3. Moves(p, c)
  BY <1>1 DEF Moves, Pass
<1> QED BY <1>2, <1>3

LEMMA TurnMoves ==
    ASSUME IInv, NEW p \in Procs, TurnBack(p)
    PROVE  \E c \in Calls : /\ Moves(p, c) /\ c.at = "back" /\ c.on = call[p].on /\ c.to = call[p].to
                            /\ c.seen = {}
<1> DEFINE c == [call[p] EXCEPT !.at = "back", !.seen = {}]
<1>1. call \in [Procs -> Calls] /\ call[p] \in Calls
  BY CallHere
<1>2. c \in Calls /\ c.at = "back" /\ c.on = call[p].on /\ c.to = call[p].to /\ c.seen = {}
  BY <1>1 DEF Calls, Steps
<1>3. Moves(p, c)
  BY DEF Moves, TurnBack
<1> QED BY <1>2, <1>3

LEMMA RefusalKeeps ==
    ASSUME IInv, NEW p \in Procs, NEW at \in {"lost", "far"}, Step(p, at),
           UNCHANGED <<journals, bundle, faults>>
    PROVE  IInv'
<1>1. PICK c \in Calls : Moves(p, c) /\ c.at = at
  BY CallHere, StepMoves DEF Steps
<1>2. CallFits(c)
  BY <1>1 DEF CallFits, Backing, Retiring, Walking
<1>3. faults' \in 0..MaxFaults
  BY DEF IInv, TypeOK
<1> QED BY <1>1, <1>2, <1>3, QuietStep

LEMMA ForwardKeeps == ASSUME IInv, NEW p \in Procs, Forward(p) PROVE IInv'
<1>1. /\ call[p].at = "forward" /\ WalkFits(call[p])
      /\ call[p].on \in Journals /\ call[p].to \in Journals
  BY WalkHere DEF Forward, Walking
<1>2. CASE Step(p, Refusal(call[p]))
  BY <1>2, RefusalKeeps DEF Forward, Refusal
<1>3. ASSUME NEW at \in {"arrived", "lost", "across"}, Pass(p, at, call[p].to),
             at = "across" => ~Open(call[p].to)
      PROVE  IInv'
  <2>1. PICK c \in Calls : Moves(p, c) /\ c.at = at /\ c.on = call[p].on /\ c.to = call[p].to
    BY <1>1, <1>3, PassMoves DEF Walking, Steps
  <2>2. CallFits(c)
    BY <1>1, <1>3, <2>1 DEF CallFits, WalkFits, Backing, Retiring, Walking
  <2>3. UNCHANGED <<journals, bundle>> /\ faults' \in 0..MaxFaults
    BY DEF Forward, IInv, TypeOK
  <2> QED BY <2>1, <2>2, <2>3, QuietStep
<1> QED BY <1>2, <1>3 DEF Forward

LEMMA TurnBackKeeps == ASSUME IInv, NEW p \in Procs, TurnBack(p) PROVE IInv'
<1>1. PICK c \in Calls : Moves(p, c) /\ c.at = "back" /\ c.on = call[p].on /\ c.to = call[p].to
  BY TurnMoves
<1>2. WalkFits(call[p]) /\ call[p].at = "arrived" /\ call[p].to # call[p].on
  BY WalkHere DEF TurnBack, Walking
<1>3. CallFits(c)
  BY <1>1, <1>2 DEF CallFits, WalkFits, Backing, Retiring, Walking
<1>4. UNCHANGED <<journals, bundle>> /\ faults' \in 0..MaxFaults
  BY DEF TurnBack, IInv, TypeOK
<1> QED BY <1>1, <1>3, <1>4, QuietStep

Goes(p, k, at) == call' = [call EXCEPT ![p].to = k, ![p].at = at]

LEMMA WalkMoves ==
    ASSUME IInv, NEW p \in Procs, NEW at \in Steps, NEW k \in Journals,
           Goes(p, k, at)
    PROVE  \E c \in Calls : /\ Moves(p, c) /\ c.at = at /\ c.on = call[p].on /\ c.to = k
                            /\ c.seen = call[p].seen
<1> DEFINE c == [call[p] EXCEPT !.to = k, !.at = at]
<1>1. call \in [Procs -> Calls] /\ call[p] \in Calls
  BY CallHere
<1>2. c \in Calls /\ c.at = at /\ c.on = call[p].on /\ c.to = k /\ c.seen = call[p].seen
  BY <1>1 DEF Calls
<1>3. Moves(p, c)
  BY <1>1 DEF Moves, Goes
<1> QED BY <1>2, <1>3

(* From a retired journal a walk goes on to its heir. *)
LEMMA AcrossMoves ==
    ASSUME IInv, NEW p \in Procs, Across(p)
    PROVE  \E c \in Calls : /\ Moves(p, c) /\ c.at = "forward" /\ c.on = call[p].on
                            /\ c.to = retired[call[p].to].heir /\ c.seen = call[p].seen
<1> DEFINE j == call[p].to
           k == retired[j].heir
<1>1. j \in Journals /\ ~Open(j)
  BY WalkHere DEF Across, Walking, WalkFits
<1>2. k \in Journals /\ exists[k] /\ follows[k] = j
  BY <1>1, RetiredIsNamed DEF IInv, JournalsFit, RetiredHasItsHeir
<1>3. Goes(p, k, "forward")
  BY <1>2 DEF Across, Goes
<1>4. "forward" \in Steps
  BY DEF Steps
<1> QED BY <1>2, <1>3, <1>4, WalkMoves

LEMMA AcrossKeeps == ASSUME IInv, NEW p \in Procs, Across(p) PROVE IInv'
<1> DEFINE j == call[p].to
           k == retired[j].heir
<1>1. call[p].on \in Journals /\ j \in Journals /\ ~Open(j) /\ Reaches(call[p].on, j)
  BY WalkHere DEF Across, Walking, WalkFits
<1>2. k \in Journals
  BY <1>1, RetiredIsNamed DEF IInv
<1>3. PICK c \in Calls : Moves(p, c) /\ c.at = "forward" /\ c.on = call[p].on /\ c.to = k
  BY AcrossMoves
<1>4. WalkFits(c)
  BY <1>1, <1>2, <1>3, ReachesOn DEF WalkFits
<1>5. CallFits(c)
  BY <1>3, <1>4 DEF CallFits, Backing, Retiring, Walking
<1>6. UNCHANGED <<journals, bundle>> /\ faults' \in 0..MaxFaults
  BY DEF Across, IInv, TypeOK
<1> QED BY <1>3, <1>5, <1>6, QuietStep

(* Above the journal a walk began at, the way back is there. *)
LEMMA BackIsThere ==
    ASSUME IInv, NEW p \in Procs, call[p].at = "back"
    PROVE  LET j == follows[call[p].to] IN
           j # None /\ exists[j] /\ retired[j].heir = call[p].to /\ Reaches(call[p].on, j)
<1>1. WalkFits(call[p]) /\ call[p].on \in Journals /\ call[p].to \in Journals
  BY WalkHere DEF Walking
<1> QED BY <1>1, CameFrom, SuccessionAssumption DEF WalkFits

LEMMA BackKeeps == ASSUME IInv, NEW p \in Procs, Back(p) PROVE IInv'
<1> DEFINE k == call[p].to
           j == follows[k]
           at == IF j = call[p].on THEN "beyond" ELSE call[p].at
<1>0. UNCHANGED <<journals, bundle>> /\ faults' \in 0..MaxFaults
  BY DEF Back, IInv, TypeOK
<1>1. call[p].on \in Journals /\ k \in Journals /\ call[p].at \in {"back", "beyond"}
  BY WalkHere DEF Back, Walking
<1>2. CASE Step(p, Refusal(call[p]))
  BY <1>2, RefusalKeeps DEF Back, Refusal
<1>3. CASE j # None /\ Pass(p, at, j)
  <2>1. j \in Journals
    BY <1>1, <1>3, TypeParts DEF IInv, JournalTypes
  <2>2. at \in Steps
    BY <1>1 DEF Steps
  <2>3. PICK c \in Calls : Moves(p, c) /\ c.at = at /\ c.on = call[p].on /\ c.to = j
    BY <1>1, <1>3, <2>1, <2>2, PassMoves DEF Walking
  <2>4. c.at \in {"back", "beyond"} /\ WalkFits(c)
    BY <1>1, <2>1, <2>3, BackIsThere DEF WalkFits
  <2>5. CallFits(c)
    BY <2>4 DEF CallFits, Backing, Retiring, Walking
  <2> QED BY <1>0, <2>3, <2>5, QuietStep
<1>4. CASE Return(p)
  BY <1>0, <1>4, ReturnKeeps
<1>5. CASE Step(p, "lost")
  BY <1>5, RefusalKeeps DEF Back
<1> QED BY <1>2, <1>3, <1>4, <1>5 DEF Back

LEMMA ReportKeeps == ASSUME IInv, NEW p \in Procs, Report(p) PROVE IInv'
BY ReturnKeeps DEF Report, IInv, TypeOK

LEMMA DieKeeps == ASSUME IInv, NEW p \in Procs, Die(p) PROVE IInv'
<1>1. faults' \in 0..MaxFaults
  BY SuccessionAssumption DEF Die, IInv, TypeOK
<1> QED BY <1>1, ReturnKeeps DEF Die

-----------------------------------------------------------------------------
(* Steps that write. *)

(* A step that writes, retires nothing and ends its call. *)
LEMMA LastWrite ==
    ASSUME IInv, Grows, retired' = retired, JournalTypes', OtherTypes', SealedIsMade',
           NEW p \in Procs, Return(p)
    PROVE  IInv'
<1>1. JournalsFit'
  BY JournalsStayFit DEF IInv
<1>2. ASSUME NEW c \in Calls, c = Idle PROVE CallFits(c)' /\ Moves(p, c)
  <2>1. CallFits(c) /\ Moves(p, c)
    BY <1>2, IdleFits DEF Return, Moves
  <2> QED BY <2>1, CallStaysFit DEF IInv
<1> QED BY <1>1, <1>2, IdleFits, WriteStep

LEMMA SealedStays == ASSUME IInv, bundle' = bundle PROVE SealedIsMade'
BY DEF IInv, JournalsFit, SealedIsMade

LEMMA PrepareKeeps == ASSUME IInv, NEW p \in Procs, Prepare(p) PROVE IInv' /\ Grows
<1> DEFINE j == call[p].to
<1>1. j \in Journals
  BY WalkHere DEF Prepare, Walking
<1>2. JournalTypes /\ OtherTypes
  BY TypeParts DEF IInv
<1>3. exists' = [exists EXCEPT ![j] = TRUE] /\ UNCHANGED <<retired, follows, bundle, faults>>
  BY DEF Prepare
<1>4. CASE status' = status
  BY <1>1, <1>2, <1>3, <1>4, SealedStays, LastWrite DEF JournalTypes, OtherTypes, Grows, Prepare
<1>5. ASSUME NEW x \in Pilots, Open(j), status[j][x] = "none",
             status' = [status EXCEPT ![j][x] = "prepared"]
      PROVE  IInv' /\ Grows
  <2>1. JournalTypes' /\ OtherTypes' /\ SealedIsMade'
    BY <1>1, <1>2, <1>3, <1>5, SealedStays DEF JournalTypes, OtherTypes, Statuses
  <2>2. ASSUME NEW i \in Journals, NEW y \in Pilots
        PROVE  /\ status[i][y] \in {"settled", "reclaimed"} => status'[i][y] = status[i][y]
               /\ ~Open(i) => status'[i][y] = status[i][y]
    BY <1>1, <1>2, <1>5 DEF JournalTypes
  <2>3. Grows
    BY <1>1, <1>2, <1>3, <2>2 DEF Grows, JournalTypes
  <2> QED BY <1>3, <2>1, <2>3, LastWrite DEF Prepare
<1>6. \/ status' = status
      \/ \E x \in Pilots : /\ Open(j) /\ status[j][x] = "none"
                           /\ status' = [status EXCEPT ![j][x] = "prepared"]
  BY <1>1 DEF Prepare, Admits
<1> QED BY <1>4, <1>5, <1>6

LEMMA CopyKeeps == ASSUME IInv, NEW p \in Procs, Copy(p) PROVE IInv' /\ Grows
<1> DEFINE b == call[p].with
           j == call[p].on
<1>1. b \in Bundles /\ j \in Journals
  BY CallHere DEF Copy, CallFits, Backing
<1>2. JournalTypes /\ OtherTypes /\ SealedIsMade
  BY TypeParts DEF IInv, JournalsFit
<1>3. CASE Return(p) /\ UNCHANGED <<journals, bundle, faults>>
  <2>1. faults' \in 0..MaxFaults
    BY <1>2, <1>3 DEF OtherTypes
  <2> QED BY <1>3, <2>1, ReturnKeeps, NothingUndone
<1>4. CASE /\ ~bundle[b].made
           /\ bundle' = [bundle EXCEPT ![b] = [made |-> TRUE, sealed |-> FALSE, of |-> Audit(j)]]
           /\ Step(p, "copied")
           /\ UNCHANGED <<journals, faults>>
  <2>1. Audit(j) \in Audits
    BY <1>1, <1>2 DEF Audit, Audits, JournalTypes
  <2>2. JournalTypes' /\ OtherTypes'
    BY <1>1, <1>2, <1>4, <2>1 DEF JournalTypes, OtherTypes, Snapshots, journals
  <2>3. ASSUME NEW a \in Bundles
        PROVE  /\ bundle[a].made => bundle'[a].made
               /\ bundle[a].sealed => bundle'[a] = bundle[a]
               /\ bundle'[a].sealed => bundle'[a].made
    BY <1>1, <1>2, <1>4 DEF OtherTypes, SealedIsMade
  <2>4. Grows /\ SealedIsMade'
    BY <1>4, <2>3 DEF Grows, SealedIsMade, journals
  <2>5. JournalsFit'
    BY <1>4, <2>4, JournalsStayFit DEF IInv, journals
  <2>6. PICK c \in Calls : /\ Moves(p, c) /\ c.at = "copied"
                          /\ c.on = j /\ c.with = b /\ c.to = call[p].to
    BY <1>4, CallHere, StepMoves DEF Steps
  <2>7. bundle'[b].made
    BY <1>1, <1>2, <1>4 DEF OtherTypes
  <2>8. CallFits(c)'
    BY <1>1, <2>6, <2>7 DEF CallFits, Backing, Retiring, Walking
  <2> QED BY <2>2, <2>4, <2>5, <2>6, <2>8, WriteStep
<1> QED BY <1>3, <1>4 DEF Copy

LEMMA SealKeeps == ASSUME IInv, NEW p \in Procs, Seal(p) PROVE IInv' /\ Grows
<1> DEFINE b == call[p].with
<1>1. b \in Bundles /\ bundle[b].made
  BY CallHere DEF Seal, CallFits, Backing
<1>2. JournalTypes /\ OtherTypes /\ SealedIsMade
  BY TypeParts DEF IInv, JournalsFit
<1>3. bundle' = [bundle EXCEPT ![b].sealed = TRUE] /\ UNCHANGED <<journals, faults>>
  BY DEF Seal
<1>4. JournalTypes' /\ OtherTypes'
  BY <1>1, <1>2, <1>3 DEF JournalTypes, OtherTypes, Snapshots, journals
<1>5. ASSUME NEW a \in Bundles
      PROVE  /\ bundle[a].made => bundle'[a].made
             /\ bundle[a].sealed => bundle'[a] = bundle[a]
             /\ bundle'[a].sealed => bundle'[a].made
  <2>1. bundle[a] \in Snapshots
    BY <1>2 DEF OtherTypes
  <2>2. bundle[a].sealed => bundle[a] = [bundle[a] EXCEPT !.sealed = TRUE]
    BY <2>1 DEF Snapshots
  <2> QED BY <1>1, <1>2, <1>3, <2>1, <2>2 DEF OtherTypes, Snapshots, SealedIsMade
<1>6. Grows /\ SealedIsMade'
  BY <1>3, <1>5 DEF Grows, SealedIsMade, journals
<1> QED BY <1>3, <1>4, <1>6, LastWrite DEF Seal, journals

LEMMA AdvanceKeeps ==
    ASSUME IInv, NEW j \in Journals, NEW x \in Pilots, Advance(j, x)
    PROVE  IInv' /\ Grows
<1>1. JournalTypes /\ OtherTypes /\ call \in [Procs -> Calls]
  BY TypeParts DEF IInv
<1>2. PICK then \in Statuses :
         /\ status' = [status EXCEPT ![j][x] = then]
         /\ status[j][x] # "none"
         /\ status[j][x] = "settled" => then = "reclaimed"
         /\ status[j][x] # "reclaimed"
  BY DEF Advance, Statuses
<1>3. JournalTypes' /\ OtherTypes' /\ SealedIsMade'
  BY <1>1, <1>2, SealedStays DEF Advance, JournalTypes, OtherTypes
<1>4. ASSUME NEW i \in Journals, NEW y \in Pilots
      PROVE  /\ status[i][y] \in {"settled", "reclaimed"} =>
                     status'[i][y] \in {status[i][y], "reclaimed"}
             /\ status[i][y] = "none" => status'[i][y] = "none"
  BY <1>1, <1>2 DEF JournalTypes
<1>5. Grows
  BY <1>4 DEF Grows, Advance
<1>6. JournalsFit'
  BY <1>3, <1>5, JournalsStayFit DEF IInv, Advance
<1>7. CallsFit'
  <2> SUFFICES ASSUME NEW p \in Procs PROVE CallFits(call[p])'
    BY DEF CallsFit
  <2>1. call[p] \in Calls /\ CallFits(call[p]) /\ call' = call
    BY CallHere DEF Advance
  <2>2. ASSUME NEW d \in Calls, d = call[p] PROVE CallFits(d)'
    BY <1>5, <2>1, <2>2, CallStaysFit DEF IInv
  <2> QED BY <2>1, <2>2 DEF CallFits, RetirementFits, WalkFits
<1>8. TypeOK'
  BY <1>1, <1>3 DEF TypeOK, JournalTypes, OtherTypes, Calls, Snapshots, Advance
<1> QED BY <1>5, <1>6, <1>7, <1>8 DEF IInv

-----------------------------------------------------------------------------
(* The steps of a retirement that write. *)

LEMMA BeginRetireKeeps == ASSUME IInv, NEW p \in Procs, BeginRetire(p) PROVE IInv' /\ Grows
<1>1. PICK j \in Journals, k \in Journals, b \in Bundles :
         Begin(p, "checking", j, b, k) /\ exists' = [exists EXCEPT ![j] = TRUE]
  BY DEF BeginRetire
<1>2. PICK c \in Calls : Moves(p, c) /\ c.at = "checking" /\ c.on = j /\ c.with = b /\ c.to = k
  BY <1>1, BeginMoves DEF Steps
<1>3. JournalTypes /\ OtherTypes
  BY TypeParts DEF IInv
<1>4. JournalTypes' /\ OtherTypes' /\ SealedIsMade'
  BY <1>1, <1>3, SealedStays DEF BeginRetire, JournalTypes, OtherTypes
<1>5. Grows
  BY <1>1, <1>3 DEF Grows, BeginRetire, JournalTypes
<1>6. JournalsFit'
  BY <1>4, <1>5, JournalsStayFit DEF IInv, BeginRetire
<1>7. exists'[j]
  BY <1>1, <1>3 DEF JournalTypes
<1>8. CallFits(c)'
  BY <1>2, <1>7 DEF CallFits, RetirementFits, Backing, Retiring, Walking
<1> QED BY <1>2, <1>4, <1>5, <1>6, <1>8, WriteStep

LEMMA RetirementHere ==
    ASSUME IInv, NEW p \in Procs, call[p].at \in Retiring
    PROVE  /\ call[p].on \in Journals /\ call[p].to \in Journals /\ call[p].with \in Bundles
           /\ RetirementFits(call[p])
BY CallHere DEF CallFits, RetirementFits

(* From what was captured before it, and what this step wrote. *)
LEMMA RetirementGoesOn ==
    ASSUME IInv, Grows, retired' = retired, NEW p \in Procs, NEW at \in {"naming", "closing"},
           call[p].at \in {"creating", "naming"}, Step(p, at),
           exists'[call[p].to], at = "closing" => follows'[call[p].to] = call[p].on
    PROVE  \E c \in Calls : Moves(p, c) /\ CallFits(c)'
<1>1. PICK c \in Calls : /\ Moves(p, c) /\ c.at = at
                        /\ c.on = call[p].on /\ c.with = call[p].with /\ c.to = call[p].to
  BY CallHere, StepMoves DEF Steps
<1>2. c.on \in Journals /\ c.to \in Journals /\ c.with \in Bundles /\ RetirementFits(call[p])
  BY <1>1, RetirementHere DEF Retiring
<1>3. exists'[c.on]
  BY <1>1, <1>2 DEF RetirementFits, Grows
<1>4. ASSUME Open(c.on)' PROVE Captured(c.on, c.with)'
  <2>1. Captured(c.on, c.with)
    BY <1>1, <1>2, <1>4 DEF RetirementFits, Open
  <2> QED BY <1>2, <2>1, CapturedStays DEF IInv
<1>5. RetirementFits(c)'
  BY <1>1, <1>2, <1>3, <1>4 DEF RetirementFits
<1>6. CallFits(c)'
  BY <1>1, <1>5 DEF CallFits, Backing, Retiring, Walking
<1> QED BY <1>1, <1>6

LEMMA CreateHeirKeeps == ASSUME IInv, NEW p \in Procs, CreateHeir(p) PROVE IInv' /\ Grows
<1> DEFINE k == call[p].to
<1>1. k \in Journals
  BY RetirementHere DEF CreateHeir, Retiring
<1>2. JournalTypes /\ OtherTypes
  BY TypeParts DEF IInv
<1>3. exists' = [exists EXCEPT ![k] = TRUE] /\ UNCHANGED <<status, retired, follows, bundle, faults>>
  BY DEF CreateHeir
<1>4. JournalTypes' /\ OtherTypes' /\ SealedIsMade' /\ exists'[k]
  BY <1>1, <1>2, <1>3, SealedStays DEF JournalTypes, OtherTypes
<1>5. Grows
  BY <1>1, <1>2, <1>3 DEF Grows, JournalTypes
<1>6. CASE Return(p)
  BY <1>3, <1>4, <1>5, <1>6, LastWrite
<1>7. CASE Step(p, "naming")
  <2>1. PICK c \in Calls : Moves(p, c) /\ CallFits(c)'
    BY <1>3, <1>4, <1>5, <1>7, RetirementGoesOn DEF CreateHeir
  <2>2. JournalsFit'
    BY <1>3, <1>4, <1>5, JournalsStayFit DEF IInv
  <2> QED BY <1>4, <1>5, <2>1, <2>2, WriteStep
<1> QED BY <1>6, <1>7 DEF CreateHeir

LEMMA NameHeirKeeps == ASSUME IInv, NEW p \in Procs, NameHeir(p) PROVE IInv' /\ Grows
<1> DEFINE k == call[p].to
<1>1. k \in Journals /\ call[p].on \in Journals /\ exists[k] /\ call[p].at = "naming"
  BY RetirementHere DEF NameHeir, Retiring, RetirementFits
<1>2. JournalTypes /\ OtherTypes
  BY TypeParts DEF IInv
<1>3. CASE Return(p) /\ UNCHANGED follows
  <2>1. UNCHANGED <<journals, bundle>> /\ faults' \in 0..MaxFaults
    BY <1>2, <1>3 DEF NameHeir, journals, OtherTypes
  <2> QED BY <1>3, <2>1, ReturnKeeps, NothingUndone
<1>4. CASE /\ follows[k] = None /\ follows' = [follows EXCEPT ![k] = call[p].on]
           /\ Step(p, "closing")
  <2>1. JournalTypes' /\ OtherTypes' /\ SealedIsMade'
    BY <1>1, <1>2, <1>4, SealedStays DEF NameHeir, JournalTypes, OtherTypes
  <2>2. Grows
    BY <1>1, <1>2, <1>4 DEF Grows, NameHeir, JournalTypes
  <2>3. follows'[k] = call[p].on /\ exists'[k] /\ retired' = retired
    BY <1>1, <1>2, <1>4 DEF NameHeir, JournalTypes
  <2>4. PICK c \in Calls : Moves(p, c) /\ CallFits(c)'
    BY <1>1, <1>4, <2>2, <2>3, RetirementGoesOn
  <2>5. JournalsFit'
    BY <2>1, <2>2, <2>3, JournalsStayFit DEF IInv
  <2> QED BY <2>1, <2>2, <2>4, <2>5, WriteStep
<1> QED BY <1>3, <1>4 DEF NameHeir

LEMMA CloseKeeps == ASSUME IInv, NEW p \in Procs, Close(p) PROVE IInv' /\ Grows
<1> DEFINE j == call[p].on
           k == call[p].to
           b == call[p].with
<1>1. /\ j \in Journals /\ k \in Journals /\ b \in Bundles
      /\ exists[j] /\ exists[k] /\ follows[k] = j
      /\ Open(j) => Captured(j, b)
  BY RetirementHere DEF Close, Retiring, RetirementFits
<1>2. JournalTypes /\ OtherTypes
  BY TypeParts DEF IInv
<1>3. UNCHANGED <<exists, status, follows, bundle, faults>> /\ Return(p)
  BY DEF Close
<1>4. CASE UNCHANGED retired
  <2>1. UNCHANGED <<journals, bundle>> /\ faults' \in 0..MaxFaults
    BY <1>2, <1>3, <1>4 DEF journals, OtherTypes
  <2> QED BY <1>3, <2>1, ReturnKeeps, NothingUndone
<1>5. CASE Open(j) /\ retired' = [retired EXCEPT ![j] = [heir |-> k, bundle |-> b]]
  <2>1. JournalTypes' /\ OtherTypes'
    BY <1>1, <1>2, <1>3, <1>5 DEF JournalTypes, OtherTypes, Retirements
  <2>2. retired'[j] = [heir |-> k, bundle |-> b] /\ \A i \in Journals \ {j} : retired'[i] = retired[i]
    BY <1>1, <1>2, <1>5 DEF JournalTypes
  <2>3. Grows
    BY <1>3, <1>5, <2>2 DEF Grows
  <2>4. ASSUME NEW i \in Journals, ~Open(i)'
        PROVE  /\ exists'[i]
               /\ exists'[retired'[i].heir] /\ follows'[retired'[i].heir] = i
               /\ bundle' = bundle /\ status' = status /\ Captured(i, retired'[i].bundle)
    <3>1. CASE i = j
      BY <1>1, <1>3, <1>5, <2>2, <3>1
    <3>2. CASE i # j
      <4>1. retired'[i] = retired[i] /\ ~Open(i)
        BY <2>2, <2>4, <3>2 DEF Open
      <4> QED BY <1>3, <4>1 DEF IInv, JournalsFit, RetiredExists, RetiredHasItsHeir, RetiredIsCaptured
    <3> QED BY <3>1, <3>2
  <2>5. RetiredExists' /\ RetiredHasItsHeir' /\ SealedIsMade'
    BY <1>3, <2>4, SealedStays DEF RetiredExists, RetiredHasItsHeir
  <2>6. RetiredIsCaptured'
    BY <2>4 DEF RetiredIsCaptured, Captured
  <2>7. JournalsFit'
    BY <2>5, <2>6 DEF JournalsFit
  <2>8. PICK c \in Calls : Moves(p, c) /\ CallFits(c)'
    <3>1. ASSUME NEW c \in Calls, c = Idle PROVE CallFits(c)' /\ Moves(p, c)
      <4>1. CallFits(c) /\ Moves(p, c)
        BY <1>3, <3>1, IdleFits DEF Return, Moves
      <4> QED BY <2>3, <4>1, CallStaysFit DEF IInv
    <3> QED BY <3>1, IdleFits
  <2> QED BY <2>1, <2>3, <2>7, <2>8, WriteStep
<1> QED BY <1>4, <1>5 DEF Close

-----------------------------------------------------------------------------
LEMMA InitKeeps == Init => IInv
<1> SUFFICES ASSUME Init PROVE IInv
  OBVIOUS
<1>1. NoAudit \in Audits
  BY DEF NoAudit, Audits, Empty, Statuses, Retirements
<1>2. JournalTypes /\ OtherTypes
  BY <1>1, SuccessionAssumption
     DEF Init, JournalTypes, OtherTypes, Snapshots, NoBundle, Empty, Statuses, Retirements
<1>3. call \in [Procs -> Calls] /\ CallsFit
  <2>1. \A p \in Procs : call[p] = Idle
    BY DEF Init
  <2> QED BY <2>1, IdleFits DEF Init, CallsFit
<1>4. JournalsFit
  BY DEF Init, JournalsFit, RetiredExists, RetiredHasItsHeir, RetiredIsCaptured, SealedIsMade, Open, NoBundle
<1> QED BY <1>2, <1>3, <1>4, TypeParts DEF IInv

LEMMA StepKeeps == IInv /\ Next => IInv' /\ Grows
<1> SUFFICES ASSUME IInv, Next PROVE IInv' /\ Grows
  OBVIOUS
<1>1. ASSUME NEW p \in Procs, BeginBackup(p) \/ Check(p) \/ Compare(p) PROVE IInv' /\ Grows
  BY <1>1, BeginBackupKeeps, CheckKeeps, CompareKeeps, NothingUndone DEF BeginBackup, Check, Compare
<1>2. ASSUME NEW p \in Procs,
             BeginForward(p) \/ Forward(p) \/ Across(p) \/ TurnBack(p) \/ Back(p) \/ Report(p) \/ Die(p)
      PROVE  IInv' /\ Grows
  BY <1>2, BeginForwardKeeps, ForwardKeeps, AcrossKeeps, TurnBackKeeps, BackKeeps, ReportKeeps, DieKeeps,
    NothingUndone
     DEF BeginForward, Forward, Across, TurnBack, Back, Report, Die
<1>3. ASSUME NEW p \in Procs, Prepare(p) \/ Copy(p) \/ Seal(p) PROVE IInv' /\ Grows
  BY <1>3, PrepareKeeps, CopyKeeps, SealKeeps
<1>4. ASSUME NEW p \in Procs, BeginRetire(p) \/ CreateHeir(p) \/ NameHeir(p) \/ Close(p)
      PROVE  IInv' /\ Grows
  BY <1>4, BeginRetireKeeps, CreateHeirKeeps, NameHeirKeeps, CloseKeeps
<1> QED BY <1>1, <1>2, <1>3, <1>4, AdvanceKeeps DEF Next

LEMMA StutterKeeps == IInv /\ UNCHANGED vars => IInv' /\ Grows
<1> SUFFICES ASSUME IInv, UNCHANGED vars PROVE IInv' /\ Grows
  OBVIOUS
<1>1. UNCHANGED <<journals, bundle>> /\ call' = call /\ faults' = faults
  BY DEF vars, journals
<1>2. TypeOK'
  BY <1>1 DEF IInv, TypeOK, journals
<1>3. Grows /\ JournalsFit'
  BY <1>1, SameJournalsFit
<1>4. CallsFit'
  <2> SUFFICES ASSUME NEW p \in Procs PROVE CallFits(call[p])'
    BY DEF CallsFit
  <2>1. call[p] \in Calls /\ CallFits(call[p])
    BY CallHere
  <2>2. ASSUME NEW d \in Calls, d = call[p] PROVE CallFits(d)'
    BY <1>3, <2>1, <2>2, CallStaysFit DEF IInv
  <2> QED BY <1>1, <2>1, <2>2 DEF CallFits, RetirementFits, WalkFits
<1> QED BY <1>2, <1>3, <1>4 DEF IInv

(* In every behaviour: what has been written stays, retired journals are   *)
(* as they must be, and every call's view of them is still so.             *)
THEOREM InductiveInvariant == Spec => []IInv
<1>1. IInv /\ [Next]_vars => IInv'
  BY StepKeeps, StutterKeeps
<1> QED BY <1>1, InitKeeps, PTL DEF Spec

(* Every value of the model is of its type. *)
THEOREM TypeCorrect == Spec => []TypeOK
<1>1. IInv => TypeOK
  BY DEF IInv
<1> QED BY <1>1, InductiveInvariant, PTL

(* retire names the heir in the old journal last: whatever died, and       *)
(* however many raced, a closed journal's heir is there and names it.      *)
THEOREM RetiredHasAnHeir == Spec => []RetiredHasItsHeir
<1>1. IInv => RetiredHasItsHeir
  BY DEF IInv, JournalsFit
<1> QED BY <1>1, InductiveInvariant, PTL

(* What a retired journal was compared with is complete, and still in it.  *)
THEOREM RetiredStaysCaptured == Spec => []RetiredIsCaptured
<1>1. IInv => RetiredIsCaptured
  BY DEF IInv, JournalsFit
<1> QED BY <1>1, InductiveInvariant, PTL

-----------------------------------------------------------------------------
(* What a walk has passed.  Journals are linked, or about to be, in the    *)
(* order in which they came to be: the heir was not there when the one it  *)
(* follows already was.  So no chain closes, and a walk never meets a      *)
(* journal again.                                                          *)

Late == {"comparing", "creating", "naming", "closing"}
Edge(j, k) ==
    \/ ~Open(j) /\ retired[j].heir = k
    \/ \E p \in Procs : call[p].at \in Late /\ call[p].on = j /\ call[p].to = k

(* Among any journals one leads to none of them, and one comes from none.  *)
NoCycle == \A S \in SUBSET Journals : S # {} =>
    /\ \E j \in S : \A k \in S : ~Edge(j, k)
    /\ \E k \in S : \A j \in S : ~Edge(j, k)

SeenFits(c) ==
    /\ c.seen \in SUBSET Journals /\ IsFiniteSet(c.seen) /\ Cardinality(c.seen) <= InspectionLimit
    /\ c.at # "lost"
    /\ c.at = "forward" => /\ c.to \notin c.seen /\ Ahead(c.seen, c.to)
                           /\ c.seen # {} => exists[c.to]
    /\ c.at = "across" => /\ c.to \in c.seen
                          /\ \A j \in c.seen \ {c.to} : ~Open(j) /\ retired[j].heir \in c.seen
    /\ c.at \in {"back", "beyond"} => c.to \notin c.seen /\ Behind(c.seen, c.to)
    /\ c.at = "far" => /\ c.to \in Journals /\ c.to \notin c.seen
                       /\ Cardinality(c.seen) = InspectionLimit
                       /\ Ahead(c.seen, c.to) \/ Behind(c.seen, c.to)

SeenFit == \A p \in Procs : SeenFits(call[p])

LEMMA EdgesExist ==
    ASSUME IInv, NEW j \in Journals, NEW k, Edge(j, k)
    PROVE  exists[j]
<1>1. CASE ~Open(j)
  BY <1>1 DEF IInv, JournalsFit, RetiredExists
<1>2. CASE \E p \in Procs : call[p].at \in Late /\ call[p].on = j
  <2>1. PICK p \in Procs : call[p].at \in Late /\ call[p].on = j
    BY <1>2
  <2> QED BY <2>1, CallHere DEF CallFits, RetirementFits, Retiring, Late
<1> QED BY <1>1, <1>2 DEF Edge

LEMMA FewerEdges ==
    ASSUME NoCycle, \A j, k \in Journals : Edge(j, k)' => Edge(j, k)
    PROVE  NoCycle'
<1> SUFFICES ASSUME NEW S \in SUBSET Journals, S # {}
             PROVE  /\ \E j \in S : \A k \in S : ~Edge(j, k)'
                    /\ \E k \in S : \A j \in S : ~Edge(j, k)'
  BY DEF NoCycle
<1>1. PICK j \in S : \A k \in S : ~Edge(j, k)
  BY DEF NoCycle
<1>2. PICK k \in S : \A i \in S : ~Edge(i, k)
  BY DEF NoCycle
<1> QED BY <1>1, <1>2

(* An edge to where none leaves from closes nothing. *)
LEMMA EdgeToTheLast ==
    ASSUME NoCycle, NEW a \in Journals, NEW b \in Journals, a # b,
           \A k \in Journals : ~Edge(b, k),
           \A j, k \in Journals : Edge(j, k)' => Edge(j, k) \/ (j = a /\ k = b)
    PROVE  NoCycle'
<1> SUFFICES ASSUME NEW S \in SUBSET Journals, S # {}
             PROVE  /\ \E j \in S : \A k \in S : ~Edge(j, k)'
                    /\ \E k \in S : \A j \in S : ~Edge(j, k)'
  BY DEF NoCycle
<1>1. \E j \in S : \A k \in S : ~Edge(j, k)'
  <2>1. CASE b \in S
    BY <2>1
  <2>2. CASE b \notin S
    <3>1. PICK j \in S : \A k \in S : ~Edge(j, k)
      BY DEF NoCycle
    <3> QED BY <2>2, <3>1
  <2> QED BY <2>1, <2>2
<1>2. \E k \in S : \A j \in S : ~Edge(j, k)'
  <2>1. CASE a \in S
    <3>1. S \ {b} \in SUBSET Journals /\ S \ {b} # {}
      BY <2>1
    <3>2. PICK k \in S \ {b} : \A j \in S \ {b} : ~Edge(j, k)
      BY <3>1 DEF NoCycle
    <3> QED BY <3>2
  <2>2. CASE a \notin S
    <3>1. PICK k \in S : \A j \in S : ~Edge(j, k)
      BY DEF NoCycle
    <3> QED BY <2>2, <3>1
  <2> QED BY <2>1, <2>2
<1> QED BY <1>1, <1>2

(* A call that is not about to link anything, or was before, adds no edge. *)
LEMMA CallAddsNoEdge ==
    ASSUME IInv, NoCycle, retired' = retired, NEW p \in Procs,
           \A q \in Procs : q # p => call'[q] = call[q],
           call'[p].at \in Late =>
               call[p].at \in Late /\ call'[p].on = call[p].on /\ call'[p].to = call[p].to
    PROVE  NoCycle'
<1>1. ASSUME NEW j \in Journals, NEW k \in Journals, Edge(j, k)' PROVE Edge(j, k)
  <2>1. CASE ~Open(j)' /\ retired'[j].heir = k
    BY <2>1 DEF Edge, Open
  <2>2. CASE \E q \in Procs : call'[q].at \in Late /\ call'[q].on = j /\ call'[q].to = k
    BY <2>2 DEF Edge
  <2> QED BY <1>1, <2>1, <2>2 DEF Edge
<1> QED BY <1>1, FewerEdges

LEMMA CheckClosesNothing == ASSUME IInv, NoCycle, NEW p \in Procs, Check(p) PROVE NoCycle'
<1>1. call \in [Procs -> Calls] /\ call[p] \in Calls /\ call[p].at = "checking"
  BY CallHere DEF Check
<1>2. /\ call[p].on \in Journals /\ call[p].to \in Journals /\ exists[call[p].on]
  BY <1>1, RetirementHere DEF Retiring, RetirementFits
<1>3. CASE Return(p)
  BY <1>1, <1>3, CallAddsNoEdge DEF Check, journals, Return, Idle, Late
<1>4. CASE ~exists[call[p].to] /\ Step(p, "comparing")
  <2>1. \A k \in Journals : ~Edge(call[p].to, k)
    BY <1>2, <1>4, EdgesExist
  <2>2. ASSUME NEW j \in Journals, NEW k \in Journals, Edge(j, k)', ~Edge(j, k)
        PROVE  j = call[p].on /\ k = call[p].to
    <3>1. retired' = retired
      BY DEF Check, journals
    <3>2. PICK q \in Procs : call'[q].at \in Late /\ call'[q].on = j /\ call'[q].to = k
      BY <2>2, <3>1 DEF Edge, Open
    <3>3. q = p
      BY <1>1, <1>4, <2>2, <3>2 DEF Step, Edge
    <3> QED BY <1>1, <1>4, <3>2, <3>3 DEF Step, Calls
  <2> QED BY <1>2, <1>4, <2>1, <2>2, EdgeToTheLast
<1> QED BY <1>3, <1>4 DEF Check

LEMMA CloseClosesNothing == ASSUME IInv, NoCycle, NEW p \in Procs, Close(p) PROVE NoCycle'
<1>1. call \in [Procs -> Calls] /\ call[p].at = "closing" /\ retired \in [Journals -> Retirements]
  BY CallHere DEF Close, IInv, TypeOK
<1>2. ASSUME NEW j \in Journals, NEW k \in Journals, Edge(j, k)' PROVE Edge(j, k)
  <2>1. ASSUME NEW q \in Procs, call'[q].at \in Late PROVE call'[q] = call[q]
    BY <1>1, <2>1 DEF Close, Return, Idle, Late
  <2>2. CASE \E q \in Procs : call'[q].at \in Late /\ call'[q].on = j /\ call'[q].to = k
    BY <2>1, <2>2 DEF Edge
  <2>3. CASE ~Open(j)' /\ retired'[j].heir = k
    <3>1. CASE retired'[j] = retired[j]
      BY <2>3, <3>1 DEF Edge, Open
    <3>2. CASE retired'[j] # retired[j]
      <4>1. j = call[p].on /\ k = call[p].to
        BY <1>1, <2>3, <3>2 DEF Close
      <4> QED BY <1>1, <4>1 DEF Edge, Late
    <3> QED BY <3>1, <3>2
  <2> QED BY <1>2, <2>2, <2>3 DEF Edge
<1> QED BY <1>2, FewerEdges

LEMMA StepClosesNothing == ASSUME IInv, NoCycle, Next PROVE NoCycle'
<1>0. call \in [Procs -> Calls]
  BY TypeParts DEF IInv
<1>1. ASSUME NEW p \in Procs, Prepare(p) \/ Seal(p) \/ Report(p) \/ Die(p) PROVE NoCycle'
  <2>1. retired' = retired /\ Return(p)
    BY <1>1 DEF Prepare, Seal, Report, Die, journals
  <2> QED BY <1>0, <2>1, CallAddsNoEdge DEF Return, Idle, Late
<1>2. ASSUME NEW p \in Procs, BeginBackup(p) \/ BeginRetire(p) \/ BeginForward(p) PROVE NoCycle'
  <2>1. retired' = retired
    BY <1>2 DEF BeginBackup, BeginRetire, BeginForward, journals
  <2>2. PICK at \in {"audited", "checking", "forward"} : \E j, b, k : Begin(p, at, j, b, k)
    BY <1>2 DEF BeginBackup, BeginRetire, BeginForward
  <2>3. /\ \A q \in Procs : q # p => call'[q] = call[q]
        /\ call'[p].at \notin Late
    BY <1>0, <2>2 DEF Begin, Late
  <2> QED BY <2>1, <2>3, CallAddsNoEdge
<1>3. ASSUME NEW p \in Procs, Copy(p) \/ Compare(p) \/ CreateHeir(p) \/ NameHeir(p) PROVE NoCycle'
  <2>1. retired' = retired
    BY <1>3 DEF Copy, Compare, CreateHeir, NameHeir, journals
  <2>2. \/ Return(p) \/ Step(p, "copied")
        \/ call[p].at \in Late /\ \E at \in Late : Step(p, at)
    BY <1>3 DEF Copy, Compare, CreateHeir, NameHeir, Late
  <2>3. /\ \A q \in Procs : q # p => call'[q] = call[q]
        /\ call'[p].at \in Late =>
              call[p].at \in Late /\ call'[p].on = call[p].on /\ call'[p].to = call[p].to
    <3>1. call[p] \in Calls
      BY <1>0
    <3> QED BY <1>0, <2>2, <3>1 DEF Return, Idle, Step, Late, Calls
  <2> QED BY <2>1, <2>3, CallAddsNoEdge
<1>4. ASSUME NEW p \in Procs, Forward(p) \/ Across(p) \/ TurnBack(p) \/ Back(p) PROVE NoCycle'
  <2>1. retired' = retired
    BY <1>4 DEF Forward, Across, TurnBack, Back, journals
  <2>2. /\ \A q \in Procs : q # p => call'[q] = call[q]
        /\ call'[p].at \notin Late
    <3>1. call[p] \in Calls
      BY <1>0
    <3>2. CASE Forward(p)
      <4>1. \/ \E at \in {"lost", "far"} : Step(p, at)
            \/ \E at \in {"arrived", "lost", "across"} : Pass(p, at, call[p].to)
        BY <3>2 DEF Forward, Refusal
      <4> QED BY <1>0, <3>1, <4>1 DEF Step, Pass, Late, Calls
    <3>3. CASE Across(p)
      BY <1>0, <3>1, <3>3 DEF Across, Step, Late, Calls
    <3>4. CASE TurnBack(p)
      BY <1>0, <3>1, <3>4 DEF TurnBack, Late, Calls
    <3>5. CASE Back(p)
      BY <1>0, <3>1, <3>5 DEF Back, Refusal, Step, Pass, Return, Idle, Late, Calls
    <3> QED BY <1>4, <3>2, <3>3, <3>4, <3>5
  <2> QED BY <2>1, <2>2, CallAddsNoEdge
<1>5. ASSUME NEW j \in Journals, NEW x \in Pilots, Advance(j, x) PROVE NoCycle'
  BY <1>5, FewerEdges DEF Advance, Edge, Open
<1> QED BY <1>1, <1>2, <1>3, <1>4, <1>5, CheckClosesNothing, CloseClosesNothing DEF Next

(* What was seen of the links stays so. *)
LEMMA SeenStaysFit ==
    ASSUME TypeOK, JournalsFit, Grows, NEW c \in Calls, SeenFits(c), c.at \in Walking => c.to \in Journals
    PROVE  SeenFits(c)'
<1>1. \A j \in c.seen : ~Open(j) => ~Open(j)' /\ retired'[j] = retired[j]
  BY StaysRetired DEF Grows, SeenFits
<1>2. ASSUME NEW k \in Journals, Ahead(c.seen, k) PROVE Ahead(c.seen, k)'
  <2> SUFFICES ASSUME NEW j \in c.seen
               PROVE  ~Open(j)' /\ retired'[j].heir \in c.seen \cup {k} /\ follows'[retired'[j].heir] = j
    BY DEF Ahead
  <2>1. ~Open(j) /\ retired[j].heir \in c.seen \cup {k} /\ follows[retired[j].heir] = j
    BY <1>2 DEF Ahead
  <2>2. retired[j].heir \in Journals /\ j # None
    BY <2>1, SuccessionAssumption DEF SeenFits
  <2>3. follows'[retired[j].heir] = j
    BY <2>1, <2>2 DEF Grows
  <2> QED BY <1>1, <2>1, <2>3
<1>3. ASSUME NEW k \in Journals, Behind(c.seen, k) PROVE Behind(c.seen, k)'
  <2> SUFFICES ASSUME NEW j \in c.seen
               PROVE  follows'[j] \in c.seen \cup {k} /\ retired'[follows'[j]].heir = j
    BY DEF Behind
  <2>1. follows[j] \in c.seen \cup {k} /\ retired[follows[j]].heir = j
    BY <1>3 DEF Behind
  <2>2. follows[j] \in Journals /\ j \in Journals /\ follows[j] # None /\ j # None
    BY <2>1, SuccessionAssumption DEF SeenFits
  <2>3. ~Open(follows[j])
    BY <2>1, <2>2 DEF Open, NotRetired
  <2> QED BY <2>1, <2>2, <2>3 DEF Grows
<1>4. c.at = "forward" => c.to \in Journals /\ (c.seen # {} => exists'[c.to])
  BY DEF SeenFits, Walking, Grows
<1>5. c.at \in {"back", "beyond"} => c.to \in Journals
  BY DEF Walking
<1> QED BY <1>1, <1>2, <1>3, <1>4, <1>5 DEF SeenFits

(* One more journal is passed. *)
LEMMA OneMore ==
    ASSUME NEW c, SeenFits(c), Takes(c), c.to \in Journals
    PROVE  /\ c.seen \cup {c.to} \in SUBSET Journals
           /\ IsFiniteSet(c.seen \cup {c.to})
           /\ Cardinality(c.seen \cup {c.to}) <= InspectionLimit
<1>1. /\ IsFiniteSet(c.seen \cup {c.to})
      /\ Cardinality(c.seen \cup {c.to}) = Cardinality(c.seen) + 1
  BY FS_AddElement DEF SeenFits, Takes
<1>2. Cardinality(c.seen) \in Nat
  BY FS_CardinalityType DEF SeenFits
<1> QED BY <1>1, <1>2, SuccessionAssumption DEF SeenFits, Takes

LEMMA NothingSeen ==
    ASSUME NEW c \in Calls, c.seen = {}, c.at \notin {"lost", "across", "far"}
    PROVE  SeenFits(c)
<1>1. IsFiniteSet({}) /\ Cardinality({}) = 0
  BY FS_EmptySet
<1> QED BY <1>1, SuccessionAssumption DEF SeenFits, Ahead, Behind

(* The refusal of a walk that met no journal twice is for its length. *)
LEMMA RefusedForLength ==
    ASSUME NEW c, SeenFits(c), ~Takes(c), c.to \in Journals, c.to \notin c.seen
    PROVE  Refusal(c) = "far" /\ Cardinality(c.seen) = InspectionLimit
<1>1. Cardinality(c.seen) \in Nat
  BY FS_CardinalityType DEF SeenFits
<1> QED BY <1>1, SuccessionAssumption DEF SeenFits, Takes, Refusal

LEMMA ForwardFits ==
    ASSUME IInv, NEW p \in Procs, SeenFits(call[p]), Forward(p)
    PROVE  \E c \in Calls : Moves(p, c) /\ SeenFits(c)
<1> DEFINE b == call[p]
           at == IF ~exists[b.to] THEN IF b.seen = {} THEN "arrived" ELSE "lost"
                 ELSE IF Open(b.to) THEN "arrived" ELSE "across"
<1>1. /\ b.at = "forward" /\ b.to \in Journals /\ b.to \notin b.seen /\ Ahead(b.seen, b.to)
      /\ b.seen # {} => exists[b.to]
  BY WalkHere DEF Forward, Walking, SeenFits
<1>2. CASE ~Takes(b) /\ Step(p, Refusal(b))
  <2>1. Refusal(b) = "far" /\ Cardinality(b.seen) = InspectionLimit
    BY <1>1, <1>2, RefusedForLength
  <2>2. PICK c \in Calls : Moves(p, c) /\ c.at = "far" /\ c.to = b.to /\ c.seen = b.seen
    BY <1>2, <2>1, CallHere, StepMoves DEF Steps
  <2>3. SeenFits(c)
    BY <1>1, <2>1, <2>2 DEF SeenFits
  <2> QED BY <2>2, <2>3
<1>3. CASE Takes(b) /\ Pass(p, at, b.to)
  <2>1. at \in {"arrived", "across"} /\ (at = "across" => ~Open(b.to))
    BY <1>1
  <2>2. PICK c \in Calls : Moves(p, c) /\ c.at = at /\ c.to = b.to /\ c.seen = b.seen \cup {b.to}
    BY <1>1, <1>3, <2>1, PassMoves DEF Walking, Steps
  <2>3. \A j \in b.seen : ~Open(j) /\ retired[j].heir \in b.seen \cup {b.to}
    BY <1>1 DEF Ahead
  <2> HIDE DEF at
  <2>4. SeenFits(c)
    BY <1>1, <1>3, <2>1, <2>2, <2>3, OneMore DEF SeenFits
  <2> QED BY <2>2, <2>4
<1> QED BY <1>2, <1>3 DEF Forward

LEMMA AcrossFits ==
    ASSUME IInv, NoCycle, NEW p \in Procs, SeenFits(call[p]), Across(p)
    PROVE  \E c \in Calls : Moves(p, c) /\ SeenFits(c)
<1> DEFINE b == call[p]
           k == retired[b.to].heir
<1>1. b.at = "across" /\ b.to \in Journals /\ ~Open(b.to) /\ b.to \in b.seen /\ b.seen \in SUBSET Journals
  BY WalkHere DEF Across, Walking, WalkFits, SeenFits
<1>2. \A j \in b.seen \ {b.to} : ~Open(j) /\ retired[j].heir \in b.seen
  BY <1>1 DEF SeenFits
<1>3. k \in Journals /\ exists[k]
  BY <1>1, RetiredIsNamed DEF IInv, JournalsFit, RetiredHasItsHeir
<1>4. k \notin b.seen
  <2>1. PICK j \in b.seen : \A i \in b.seen : ~Edge(j, i)
    BY <1>1 DEF NoCycle
  <2> QED BY <1>1, <1>2, <2>1 DEF Edge
<1>5. Ahead(b.seen, k)
  BY <1>1, <1>2 DEF Ahead, IInv, JournalsFit, RetiredHasItsHeir
<1>6. PICK c \in Calls : Moves(p, c) /\ c.at = "forward" /\ c.to = k /\ c.seen = b.seen
  BY AcrossMoves
<1>7. SeenFits(c)
  BY <1>3, <1>4, <1>5, <1>6 DEF SeenFits
<1> QED BY <1>6, <1>7

LEMMA BackFits ==
    ASSUME IInv, NoCycle, NEW p \in Procs, SeenFits(call[p]), Back(p)
    PROVE  \E c \in Calls : Moves(p, c) /\ SeenFits(c)
<1> DEFINE b == call[p]
           j == follows[b.to]
           at == IF j = b.on THEN "beyond" ELSE b.at
<1>1. /\ b.at \in {"back", "beyond"} /\ b.on \in Journals /\ b.to \in Journals
      /\ b.to \notin b.seen /\ b.seen \in SUBSET Journals /\ Behind(b.seen, b.to)
  BY WalkHere DEF Back, Walking, SeenFits
<1>2. CASE ~Takes(b) /\ Step(p, Refusal(b))
  <2>1. Refusal(b) = "far" /\ Cardinality(b.seen) = InspectionLimit
    BY <1>1, <1>2, RefusedForLength
  <2>2. PICK c \in Calls : Moves(p, c) /\ c.at = "far" /\ c.to = b.to /\ c.seen = b.seen
    BY <1>2, <2>1, CallHere, StepMoves DEF Steps
  <2>3. SeenFits(c)
    BY <1>1, <2>1, <2>2 DEF SeenFits
  <2> QED BY <2>2, <2>3
<1>3. CASE Takes(b) /\ j # None /\ retired[j].heir = b.to /\ Pass(p, at, j)
  <2> DEFINE S == b.seen \cup {b.to}
  <2>1. j \in Journals /\ at \in {"back", "beyond"} /\ S \in SUBSET Journals
    BY <1>1, <1>3, TypeParts DEF IInv, JournalTypes
  <2>2. PICK c \in Calls : Moves(p, c) /\ c.at = at /\ c.to = j /\ c.seen = S
    BY <1>1, <1>3, <2>1, PassMoves DEF Walking, Steps
  <2>3. \A i \in S : follows[i] \in S \cup {j} /\ retired[follows[i]].heir = i
    BY <1>1, <1>3 DEF Behind
  <2>4. \A i \in S : ~Open(follows[i])
    BY <2>1, <2>3, SuccessionAssumption DEF Open, NotRetired
  <2>5. j \notin S
    <3>1. SUFFICES ASSUME j \in S PROVE FALSE
      OBVIOUS
    <3>2. PICK i \in S : \A a \in S : ~Edge(a, i)
      BY <2>1 DEF NoCycle
    <3>3. follows[i] \in S
      BY <2>3, <3>1
    <3> QED BY <2>3, <2>4, <3>2, <3>3 DEF Edge
  <2>6. SeenFits(c)
    <3>1. Behind(S, j)
      BY <2>3 DEF Behind
    <3>2. IsFiniteSet(S) /\ Cardinality(S) <= InspectionLimit
      BY <1>1, <1>3, OneMore
    <3> HIDE DEF S, at
    <3> QED BY <2>1, <2>2, <2>5, <3>1, <3>2 DEF SeenFits
  <2> QED BY <2>2, <2>6
<1>4. CASE Return(p)
  <2>1. SeenFits(Idle)
    BY IdleFits, NothingSeen DEF Idle
  <2>2. Moves(p, Idle)
    BY <1>4 DEF Return, Moves
  <2> QED BY <2>1, <2>2, IdleFits
<1>5. ~(b.at # "beyond" /\ ~(j # None /\ exists[j] /\ retired[j].heir = b.to))
  BY <1>1, BackIsThere
<1> QED BY <1>2, <1>3, <1>4, <1>5 DEF Back

(* What the step of one call makes of it fits, and the others still do.    *)
LEMMA SeenCallsFit ==
    ASSUME IInv, IInv', Grows, SeenFit, NEW p \in Procs, NEW c \in Calls, Moves(p, c), SeenFits(c)
    PROVE  SeenFit'
<1>1. call \in [Procs -> Calls] /\ call' \in [Procs -> Calls]
  BY DEF IInv, TypeOK, Calls
<1>2. ASSUME NEW q \in Procs PROVE SeenFits(call[q])'
  <2>1. call'[q] \in Calls /\ SeenFits(call'[q])
    BY <1>1 DEF Moves, SeenFit
  <2>2. call'[q].at \in Walking => call'[q].to \in Journals
    BY DEF IInv, CallsFit, CallFits, WalkFits
  <2>3. ASSUME NEW d \in Calls, SeenFits(d), d.at \in Walking => d.to \in Journals
        PROVE  SeenFits(d)'
    BY <2>3, SeenStaysFit DEF IInv
  <2>4. PICK d \in Calls : d = call'[q]
    BY <2>1
  <2>5. SeenFits(d)'
    BY <2>1, <2>2, <2>3, <2>4
  <2> QED BY <2>4, <2>5 DEF SeenFits, Ahead, Behind
<1> QED BY <1>2 DEF SeenFit

(* Outside a walk, a call keeps what it has seen, or begins with nothing. *)
LEMMA StepFits ==
    ASSUME IInv, SeenFit, NEW p \in Procs, NEW at \in Backing \cup Retiring, Step(p, at)
    PROVE  \E c \in Calls : Moves(p, c) /\ SeenFits(c)
<1>1. PICK c \in Calls : Moves(p, c) /\ c.at = at /\ c.seen = call[p].seen
  BY CallHere, StepMoves DEF Backing, Retiring, Steps
<1>2. SeenFits(c)
  BY <1>1 DEF SeenFit, SeenFits, Backing, Retiring
<1> QED BY <1>1, <1>2

LEMMA ReturnFits ==
    ASSUME NEW p \in Procs, Return(p)
    PROVE  \E c \in Calls : Moves(p, c) /\ SeenFits(c)
<1>1. SeenFits(Idle)
  BY IdleFits, NothingSeen DEF Idle
<1> QED BY <1>1, IdleFits DEF Return, Moves

LEMMA BeginFits ==
    ASSUME NEW p \in Procs, NEW at \in Backing \cup Retiring \cup {"forward"}, NEW j \in Journals,
           NEW b \in Bundles \cup {None}, NEW k \in Journals \cup {None}, Begin(p, at, j, b, k)
    PROVE  \E c \in Calls : Moves(p, c) /\ SeenFits(c)
<1> DEFINE c == [at |-> at, on |-> j, with |-> b, to |-> k, seen |-> {}]
<1>1. c \in Calls
  BY DEF Calls, Backing, Retiring, Steps
<1>2. c.at \notin {"lost", "across", "far"} /\ c.seen = {}
  BY DEF Backing, Retiring
<1>3. Moves(p, c)
  BY DEF Begin, Moves
<1> HIDE DEF c
<1> QED BY <1>1, <1>2, <1>3, NothingSeen

LEMMA TurnBackFits ==
    ASSUME IInv, NEW p \in Procs, TurnBack(p)
    PROVE  \E c \in Calls : Moves(p, c) /\ SeenFits(c)
<1>1. PICK c \in Calls : Moves(p, c) /\ c.at = "back" /\ c.seen = {}
  BY TurnMoves
<1> QED BY <1>1, NothingSeen

LEMMA SeenStepKeeps ==
    ASSUME IInv, NoCycle, SeenFit, Next
    PROVE  SeenFit'
<1>0. IInv' /\ Grows
  BY StepKeeps
<1>1. ASSUME NEW p \in Procs, Prepare(p) \/ Seal(p) \/ Close(p) \/ Report(p) \/ Die(p) PROVE SeenFit'
  BY <1>0, <1>1, ReturnFits, SeenCallsFit DEF Prepare, Seal, Close, Report, Die
<1>2. ASSUME NEW p \in Procs, BeginBackup(p) \/ BeginRetire(p) \/ BeginForward(p) PROVE SeenFit'
  <2>1. \E j \in Journals, b \in Bundles \cup {None}, k \in Journals \cup {None},
           at \in Backing \cup Retiring \cup {"forward"} : Begin(p, at, j, b, k)
    BY <1>2 DEF BeginBackup, BeginRetire, BeginForward, Backing, Retiring
  <2> QED BY <1>0, <2>1, BeginFits, SeenCallsFit
<1>3. ASSUME NEW p \in Procs, Copy(p) \/ Check(p) \/ Compare(p) \/ CreateHeir(p) \/ NameHeir(p)
      PROVE  SeenFit'
  <2>1. Return(p) \/ \E at \in Backing \cup Retiring : Step(p, at)
    BY <1>3 DEF Copy, Check, Compare, CreateHeir, NameHeir, Backing, Retiring
  <2> QED BY <1>0, <2>1, ReturnFits, StepFits, SeenCallsFit
<1>4. ASSUME NEW p \in Procs, Forward(p) \/ Across(p) \/ TurnBack(p) \/ Back(p) PROVE SeenFit'
  <2>1. SeenFits(call[p])
    BY DEF SeenFit
  <2> QED BY <1>0, <1>4, <2>1, ForwardFits, AcrossFits, TurnBackFits, BackFits, SeenCallsFit
<1>5. ASSUME NEW j \in Journals, NEW x \in Pilots, Advance(j, x) PROVE SeenFit'
  <2> SUFFICES ASSUME NEW p \in Procs PROVE SeenFits(call[p])'
    BY DEF SeenFit
  <2>1. call'[p] = call[p] /\ retired' = retired /\ follows' = follows /\ exists' = exists
    BY <1>5 DEF Advance
  <2>2. SeenFits(call[p])
    BY DEF SeenFit
  <2> QED BY <2>1, <2>2 DEF SeenFits, Ahead, Behind, Open
<1> QED BY <1>1, <1>2, <1>3, <1>4, <1>5 DEF Next

WalkInv == IInv /\ NoCycle /\ SeenFit

LEMMA WalkInit == Init => NoCycle /\ SeenFit
<1> SUFFICES ASSUME Init PROVE NoCycle /\ SeenFit
  OBVIOUS
<1>1. \A j, k \in Journals : ~Edge(j, k)
  BY DEF Init, Edge, Open, Idle, Late
<1>2. SeenFits(Idle)
  BY IdleFits, NothingSeen DEF Idle
<1> QED BY <1>1, <1>2 DEF Init, NoCycle, SeenFit

LEMMA WalkStutter ==
    ASSUME NoCycle, SeenFit, UNCHANGED vars
    PROVE  NoCycle' /\ SeenFit'
<1>1. UNCHANGED <<exists, retired, follows, call>>
  BY DEF vars, journals
<1>2. \A j, k \in Journals : Edge(j, k)' => Edge(j, k)
  BY <1>1 DEF Edge, Open
<1>3. ASSUME NEW p \in Procs PROVE SeenFits(call[p])'
  BY <1>1 DEF SeenFit, SeenFits, Ahead, Behind, Open
<1> QED BY <1>2, <1>3, FewerEdges DEF SeenFit

(* forward and chain, reading one journal at a time while others retire    *)
(* them, meet no cycle, nothing missing and no link that is not returned:  *)
(* a walk is refused for its length only, after exactly InspectionLimit    *)
(* linked journals and with another one still to come.                     *)
THEOREM WalksAreRefusedForLength == Spec => []WalksArrive
<1>1. Init => WalkInv
  BY InitKeeps, WalkInit DEF WalkInv
<1>2. WalkInv /\ [Next]_vars => WalkInv'
  <2>1. WalkInv /\ Next => WalkInv'
    BY StepKeeps, StepClosesNothing, SeenStepKeeps DEF WalkInv
  <2>2. WalkInv /\ UNCHANGED vars => WalkInv'
    BY StutterKeeps, WalkStutter DEF WalkInv
  <2> QED BY <2>1, <2>2
<1>3. WalkInv => WalksArrive
  BY DEF WalkInv, SeenFit, SeenFits, WalksArrive
<1> QED BY <1>1, <1>2, <1>3, PTL DEF Spec

(* A retirement is final: no second one, and nothing prepared after it.    *)
THEOREM RetirementIsFinal == Spec => RetiredIsClosed
<1>1. IInv /\ [Next]_vars =>
        [\A j \in Journals : ~Open(j) =>
            retired'[j] = retired[j] /\ \A x \in Pilots : status[j][x] = "none" => status'[j][x] = "none"]_vars
  BY StepKeeps DEF Grows
<1> QED BY <1>1, InductiveInvariant, PTL DEF Spec, RetiredIsClosed
=============================================================================
