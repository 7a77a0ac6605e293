------------------------------ MODULE Outbound ------------------------------
(***************************************************************************)
(* What leaves the host.  An operator reads what the remote shows, derives *)
(* the exact request, stages it in a journal, has it approved, looks again *)
(* and sends it through the broker, the one holder of the credential.  A   *)
(* request whose answer never came back is looked for afterwards           *)
(* (orch/dispatch.py, orch/github_*.py, orch/jira_*.py).                   *)
(*                                                                         *)
(* Every command is a process of its own: what one found is a file the     *)
(* next reads, while other operators, the remote and the clock go on.      *)
(* Seven families share the way: a GitHub issue, a pull request, the       *)
(* creation of a Jira issue, what an issue's field holds (its status, its  *)
(* Epic), a link between two issues, an association with GitHub, and a     *)
(* comment.                                                                *)
(*                                                                         *)
(* Left out: the wording of requests, captures that do not fit their plan  *)
(* (each codec refuses them), files an operator edits, and the succession  *)
(* of journals (IntentJournal.tla).                                        *)
(***************************************************************************)
EXTENDS Naturals, Sequences, SequencesExt, FiniteSets

CONSTANTS
    Operators,
    Operations,
    FamilyOf,         \* operation -> one of Families
    TaskOf,           \* operation -> the task it serves
    Fresh,            \* sets of operations: those of one set are not withdrawn yet
    ReserveFirst,     \* whether operators reserve before they dispatch
    ApprovalLife,     \* 15 minutes, in ticks
    ObservationLife,  \* OBSERVATION_LIFETIME_SECONDS, in ticks
    PageSize,         \* rows a page of a listing holds
    MaxPages,         \* MAX_PAGES, how many of them are read: 10
    Others,           \* what others may write, each of it one thing
    Before,           \* what may have been written when the host is set up
    Alike,            \* those of them that are all an operation's effect is, but its marker
    MaxEpoch, MaxWithdrawn,             \* bounds of the runs
    None

(* An issue and a creation are looked for with one search; a field, a link *)
(* and an association are read whole.  A search and an association look    *)
(* for a marker that only the operation's own request carries.             *)
Searched == {"issue", "creation"}
Whole == {"field", "link", "association"}
Families == Searched \cup Whole \cup {"pull", "comment"}
Marked == {"issue", "creation", "association"}

ASSUME OutboundAssumption ==
    /\ FamilyOf \in [Operations -> Families]
    /\ Fresh \subseteq SUBSET Operations /\ Fresh # {}
    /\ ReserveFirst \in BOOLEAN
    /\ {ApprovalLife, ObservationLife, PageSize, MaxPages} \subseteq Nat \ {0}
    /\ ObservationLife <= ApprovalLife
    /\ {MaxEpoch, MaxWithdrawn} \subseteq Nat
    /\ Alike \subseteq Others
    /\ \A s \in Before : s \in Seq(Others) /\ IsInjective(s)
    /\ Operations \cap Others = {} /\ None \notin Operations \cup Others

VARIABLES
    epoch,     \* what reads observe apart from the listing: tips, labels, fields
    listing,   \* what searches and lists show: effects, and what resembles them
    late,      \* requests that were written and may still take effect
    state,     \* operation -> its journal state, or "none"
    scope,     \* operation -> the epoch its retained preview was made against
    step, on,  \* operator -> what was done last, for which operation
    preview,   \* operator -> the epoch the preview was made against
    age,       \* operator -> how long ago the approval preview was issued
    observed,  \* operator -> how long ago the remote was looked at again, and what it showed
    reader     \* the recovery reads under way

remote == <<epoch, listing>>
records == <<state, scope>>
atHand == <<preview, age, observed>>
outboundVars == <<remote, late, records, step, on, atHand, reader>>

NotReading == [on |-> None, pages |-> <<>>, first |-> <<>>, moved |-> FALSE]
NotObserved == [age |-> ApprovalLife, epoch |-> 0, clear |-> FALSE]

OutboundInit ==
    /\ epoch = 0
    /\ listing \in Before
    /\ late = {}
    /\ \E fresh \in Fresh :
        state = [o \in Operations |-> IF o \in fresh THEN "none" ELSE "withdrawn"]
    /\ scope = [o \in Operations |-> 0]
    /\ step = [p \in Operators |-> "idle"]
    /\ on = [p \in Operators |-> None]
    /\ preview = [p \in Operators |-> 0]
    /\ age = [p \in Operators |-> ApprovalLife]
    /\ observed = [p \in Operators |-> NotObserved]
    /\ reader = NotReading

Family(p) == FamilyOf[on[p]]

(* What is read of the remote for an operation: its effects, and what may  *)
(* be taken for them.  A field holds what was written last.                *)
Found(o) ==
    FlattenSeq([i \in DOMAIN listing |->
                    IF listing[i] \in {o} \cup Others THEN <<listing[i]>> ELSE <<>>])
View(o) ==
    IF FamilyOf[o] = "field" /\ Found(o) # <<>> THEN <<Head(Found(o))>> ELSE Found(o)

Goto(p, from, to) == step[p] = from /\ step' = [step EXCEPT ![p] = to]

(* A refusal ends what the operator was about: the runbook has nobody work *)
(* past one.  A crash loses the terminal, not what others share.           *)
Drop(p) ==
    /\ step' = [step EXCEPT ![p] = "idle"]
    /\ on' = [on EXCEPT ![p] = None]
    /\ preview' = [preview EXCEPT ![p] = 0]
    /\ age' = [age EXCEPT ![p] = ApprovalLife]
    /\ observed' = [observed EXCEPT ![p] = NotObserved]

Local == UNCHANGED <<remote, late, records, reader>>

-----------------------------------------------------------------------------
(* From the reads to a preview. *)

(* The identifier of an operation is derived from its task and its         *)
(* specification: two operators who want the same work share it.  A pull   *)
(* names the tips it expects; the others begin to read what their plan     *)
(* asks for, each read a request of its own, the context before the        *)
(* search.                                                                 *)
Derive(p, o) ==
    /\ Goto(p, "idle", IF FamilyOf[o] = "pull" THEN "previewed" ELSE "searching")
    /\ on' = [on EXCEPT ![p] = o]
    /\ preview' = [preview EXCEPT ![p] = epoch]
    /\ UNCHANGED <<age, observed>> /\ Local

(* A GitHub issue that exists, a field that was set and a link that was    *)
(* made are not made again.  The others are not looked for: a new Jira     *)
(* issue reads metadata, and a comment may say what another said.          *)
Shows(p) == View(on[p]) # <<>>
Untracked(p) == Family(p) \in {"issue"} \cup Whole => ~Shows(p)

(* The search answers; the preview is refused when it shows what is asked  *)
(* for.                                                                    *)
FetchListing(p) ==
    /\ Goto(p, "searching", "previewed")
    /\ Untracked(p)
    /\ UNCHANGED <<on, atHand>> /\ Local

-----------------------------------------------------------------------------
(* The journal. *)

(* GitHub and Jira have a journal each; a task holds one slot in either. *)
Journal(o) == IF FamilyOf[o] \in {"issue", "pull"} THEN "github" ELSE "jira"
Slot(o) == <<Journal(o), TaskOf[o]>>
Live == {"prepared", "uncertain"}
Holding(o) == {x \in Operations : \/ x = o /\ state[x] # "none"
                                  \/ Slot(x) = Slot(o) /\ state[x] \in Live}
Retains(p) == scope[on[p]] = preview[p]
Prepared(p) == state[on[p]] = "prepared" /\ Retains(p)

Staged == {"staged", "approved", "observing", "transcribed", "observed", "reviewed", "current"}

(* Staging again is staging once, for the same scope. *)
Stage(p) ==
    /\ Goto(p, "previewed", "staged")
    /\ LET o == on[p] IN
        \/ /\ Holding(o) = {}
           /\ state' = [state EXCEPT ![o] = "prepared"]
           /\ scope' = [scope EXCEPT ![o] = preview[p]]
        \/ /\ Holding(o) = {o} /\ state[o] # "withdrawn" /\ Retains(p)
           /\ UNCHANGED records
    /\ UNCHANGED <<remote, late, on, atHand, reader>>

(* Mutant: a reservation is consumed twice. *)
ReservableTwice(p) == state[on[p]] \in Live /\ Retains(p)
Reservable(p) == Prepared(p)

(* Once it is staged, a scope may be reserved: by whoever calls the        *)
(* journal, since no command does, and whatever was checked before.        *)
Reserve(p) ==
    /\ step[p] \in Staged
    /\ Reservable(p)
    /\ step' = [step EXCEPT ![p] = "reserved"]
    /\ state' = [state EXCEPT ![on[p]] = "uncertain"]
    /\ UNCHANGED <<remote, late, scope, on, atHand, reader>>

Withdrawable(o) == state[o] = "prepared"

Withdraw(p, o) ==
    /\ step[p] = "idle"
    /\ Withdrawable(o)
    /\ Cardinality({x \in Operations : state[x] = "withdrawn"}) < MaxWithdrawn
    /\ state' = [state EXCEPT ![o] = "withdrawn"]
    /\ UNCHANGED <<remote, late, scope, step, on, atHand, reader>>

-----------------------------------------------------------------------------
(* Approval and the checks before sending. *)

(* The same operator may have an approval issued again, and keep the       *)
(* observation of the first.                                               *)
PrepareApproval(p) ==
    /\ step[p] \in {"staged", "observed"}
    /\ Prepared(p)
    /\ step' = [step EXCEPT ![p] = IF step[p] = "staged" THEN "approved" ELSE "observed"]
    /\ age' = [age EXCEPT ![p] = 0]
    /\ UNCHANGED <<on, preview, observed>> /\ Local

(* check_approval, assess_record: no blocker at this moment. *)
Unblocked(p) == Prepared(p) /\ age[p] < ApprovalLife

(* An issue has nothing to look at again. *)
CheckApproval(p) ==
    /\ Goto(p, "approved", "current")
    /\ Family(p) = "issue"
    /\ Unblocked(p)
    /\ UNCHANGED <<on, atHand>> /\ Local

MayObserve(p) == IF Family(p) = "pull" THEN Prepared(p) ELSE Unblocked(p)

(* The plan is refused unless the scope may be observed; an observation    *)
(* says when it was made.                                                  *)
PlanObservation(p) ==
    /\ Goto(p, "approved", "observing")
    /\ Family(p) # "issue"
    /\ MayObserve(p)
    /\ UNCHANGED <<on, atHand>> /\ Local

Observe(p) ==
    /\ Goto(p, "observing", IF Family(p) = "pull" THEN "transcribed" ELSE "observed")
    /\ observed' = [observed EXCEPT ![p] = [age |-> 0, epoch |-> epoch, clear |-> Untracked(p)]]
    /\ UNCHANGED <<on, preview, age>> /\ Local

(* Parsing a transcript takes time: the scope is compared once more. *)
PackageSnapshot(p) ==
    /\ Goto(p, "transcribed", "observed")
    /\ Prepared(p)
    /\ UNCHANGED <<on, atHand>> /\ Local

(* What was observed is what was previewed, seen after the approval was    *)
(* issued and not too long ago.                                            *)
Young(p) == observed[p].age < ObservationLife

(* Mutant: an observation older than the approval counts. *)
ObservationHoldsEarly(p) ==
    /\ observed[p].epoch = preview[p] /\ observed[p].clear
    /\ Young(p)
ObservationHolds(p) ==
    /\ observed[p].epoch = preview[p] /\ observed[p].clear
    /\ observed[p].age <= age[p]
    /\ Young(p)

(* The first look: a pull's bundle under its approval, the refreshed       *)
(* preview of a Jira scope under a snapshot of its journal.                *)
Review(p) ==
    /\ Goto(p, "observed", "reviewed")
    /\ Unblocked(p)
    /\ Family(p) # "pull" => ObservationHolds(p)
    /\ UNCHANGED <<on, atHand>> /\ Local

Finally(p) ==
    /\ Unblocked(p)
    /\ IF Family(p) = "pull" THEN ObservationHolds(p) ELSE Young(p)

FinalCheck(p) ==
    /\ Goto(p, "reviewed", "current")
    /\ Finally(p)
    /\ UNCHANGED <<on, atHand>> /\ Local

-----------------------------------------------------------------------------
(* Sending. *)

MaySend(p) == step[p] = IF ReserveFirst THEN "reserved" ELSE "current"

(* Where an effect shows: a new issue or pull first, a comment last. *)
Shown(o) == IF FamilyOf[o] = "comment" THEN Append(listing, o) ELSE <<o>> \o listing

(* Answered with success, or the effect is there and the answer lost. *)
SendTakesEffect(p) ==
    /\ MaySend(p)
    /\ listing' = Shown(on[p])
    /\ Drop(p)
    /\ UNCHANGED <<epoch, late, records, reader>>

(* Refused by the service, or the connection failed before it took hold. *)
SendIsRefused(p) ==
    /\ MaySend(p)
    /\ Drop(p) /\ Local

(* A receipt says uncertain, and the request is still under way. *)
SendHangs(p) ==
    /\ MaySend(p)
    /\ late' = late \cup {on[p]}
    /\ Drop(p)
    /\ UNCHANGED <<remote, records, reader>>

(* A refusal, a failed read or a crash, wherever the operator stands. *)
BreakOff(p) == step[p] # "idle" /\ Drop(p) /\ Local

-----------------------------------------------------------------------------
(* Recovery: one reader, bound to an uncertain operation. *)

Min2(a, b) == IF a < b THEN a ELSE b
Slice(s, from, n) == SubSeq(s, from + 1, Min2(from + n, Len(s)))
RowsOf(pages) == FlattenSeq([i \in DOMAIN pages |-> pages[i].rows])
Count(s, o) == Cardinality({i \in DOMAIN s : s[i] = o})

(* Whether a row is taken for an operation's effect, and how many are. *)
Passes(o, x) == x = o \/ (x \in Alike /\ FamilyOf[o] \notin Marked)
Matching(o, s) == Cardinality({i \in DOMAIN s : Passes(o, s[i])})

PlanRecovery(o) ==
    /\ reader = NotReading
    /\ state[o] = "uncertain"
    /\ reader' = [NotReading EXCEPT !.on = o, !.first = View(o)]
    /\ UNCHANGED <<remote, late, records, step, on, atHand>>

(* Whether a page said there are more: a Link header counts pages, Jira    *)
(* counts rows, what else is read is one page.  Reading stops at MaxPages. *)
LastPage(total) == IF total = 0 THEN 1 ELSE (total + PageSize - 1) \div PageSize
Further(o, pages) ==
    IF pages = <<>> THEN TRUE
    ELSE /\ Last(pages).ok
         /\ CASE FamilyOf[o] = "pull" -> LastPage(Last(pages).total) > Len(pages)
              [] FamilyOf[o] = "comment" -> Last(pages).rows # <<>> /\ Len(RowsOf(pages)) < Last(pages).total
              [] OTHER -> FALSE
More(o, pages) == Len(pages) < MaxPages /\ Further(o, pages)

(* Jira may answer with shorter pages of comments than asked for. *)
Sizes(o, now) ==
    CASE FamilyOf[o] = "comment" -> 1..PageSize
      [] FamilyOf[o] \in Whole -> {Len(now)}
      [] OTHER -> {PageSize}
Offset(o) == IF FamilyOf[o] = "comment" THEN Len(RowsOf(reader.pages)) ELSE Len(reader.pages) * PageSize

ReadPage ==
    /\ reader.on # None
    /\ LET o == reader.on
           now == View(o) IN
        /\ More(o, reader.pages)
        /\ \E ok \in BOOLEAN, n \in Sizes(o, now) :
            reader' = [reader EXCEPT
                !.pages = Append(@, [ok |-> ok, total |-> IF ok THEN Len(now) ELSE 0,
                                     rows |-> IF ok THEN Slice(now, Offset(o), n) ELSE <<>>]),
                !.moved = @ \/ now # reader.first]
    /\ UNCHANGED <<remote, late, records, step, on, atHand>>

(* decode_recovery_transcript: what one page said of the end a later page  *)
(* does not take back.                                                     *)
Ends(pages) == \A i \in DOMAIN pages : LastPage(pages[i].total) <= Len(pages)

(* reconcile_pull_request: the list of a branch holds the one pull. *)
PullCandidate(o, pages) ==
    /\ \A i \in DOMAIN pages : pages[i].ok /\ (i < Len(pages) <=> i < LastPage(pages[i].total))
    /\ Ends(pages)
    /\ \A i \in DOMAIN RowsOf(pages) : Passes(o, RowsOf(pages)[i])
    /\ Matching(o, RowsOf(pages)) = 1

(* assess_comments: the pages are contiguous, of one total, to the end.    *)
(* What one author wrote with one text is one comment, for all it tells.   *)
CommentCandidate(o, pages) ==
    /\ \A i \in DOMAIN pages : pages[i].ok /\ pages[i].total = pages[1].total
    /\ Len(RowsOf(pages)) = pages[1].total
    /\ IsInjective(RowsOf(pages))
    /\ Matching(o, RowsOf(pages)) = 1

(* Mutant: what a search shows is taken for all there is. *)
SearchCandidateTruncated(o, pages) == pages[1].ok /\ Matching(o, pages[1].rows) = 1
(* reconcile_issue, reconcile_action: the whole answer, and one row of it  *)
(* that is what was asked for, whoever made it where there is no marker.   *)
SearchCandidate(o, pages) ==
    /\ pages[1].ok
    /\ pages[1].total = Len(pages[1].rows)
    /\ Matching(o, pages[1].rows) = 1

Candidate(o, pages) ==
    CASE FamilyOf[o] = "pull" -> PullCandidate(o, pages)
      [] FamilyOf[o] = "comment" -> CommentCandidate(o, pages)
      [] OTHER -> SearchCandidate(o, pages)

(* The assessment reports the candidate, if there is one, and changes      *)
(* nothing.                                                                *)
Assess ==
    /\ reader.on # None
    /\ reader.pages # <<>>
    /\ state[reader.on] = "uncertain"
    /\ reader' = NotReading
    /\ UNCHANGED <<remote, late, records, step, on, atHand>>

-----------------------------------------------------------------------------
(* The remote, and time. *)

(* Others move branches, edit fields, and write or delete what resembles   *)
(* an effect.                                                              *)
RemoteChanges ==
    /\ epoch < MaxEpoch
    /\ epoch' = epoch + 1
    /\ \/ UNCHANGED listing
       \/ \E z \in Others \ ToSet(listing) : listing' \in {<<z>> \o listing, Append(listing, z)}
       \/ \E i \in DOMAIN listing : listing[i] \in Others /\ listing' = RemoveAt(listing, i)
    /\ UNCHANGED <<late, records, step, on, atHand, reader>>

LateArrives(o) ==
    /\ o \in late
    /\ listing' = Shown(o)
    /\ late' = late \ {o}
    /\ UNCHANGED <<epoch, records, step, on, atHand, reader>>

(* What is ApprovalLife old is as good as older. *)
Older(n) == Min2(n + 1, ApprovalLife)
Tick ==
    /\ \E p \in Operators : age[p] < ApprovalLife \/ observed[p].age < ApprovalLife
    /\ age' = [p \in Operators |-> Older(age[p])]
    /\ observed' = [p \in Operators |-> [observed[p] EXCEPT !.age = Older(@)]]
    /\ UNCHANGED <<remote, late, records, step, on, preview, reader>>

OutboundNext ==
    \/ \E p \in Operators :
        \/ \E o \in Operations : Derive(p, o) \/ Withdraw(p, o)
        \/ FetchListing(p) \/ Stage(p) \/ Reserve(p)
        \/ PrepareApproval(p) \/ CheckApproval(p)
        \/ PlanObservation(p) \/ Observe(p) \/ PackageSnapshot(p)
        \/ Review(p) \/ FinalCheck(p)
        \/ SendTakesEffect(p) \/ SendIsRefused(p) \/ SendHangs(p) \/ BreakOff(p)
    \/ \E o \in Operations : PlanRecovery(o) \/ LateArrives(o)
    \/ ReadPage \/ Assess \/ RemoteChanges \/ Tick

OutboundSpec == OutboundInit /\ [][OutboundNext]_outboundVars

-----------------------------------------------------------------------------
(* Properties. *)

Epochs == 0..MaxEpoch
Items == Operations \cup Others
Steps == {"idle", "searching", "previewed", "staged", "approved",
          "observing", "transcribed", "observed", "reviewed", "current", "reserved"}
Pages == [ok : BOOLEAN, total : Nat, rows : Seq(Items)]

(* Every variable holds what its comment says. *)
OutboundTypeOK ==
    /\ epoch \in Epochs
    /\ listing \in Seq(Items)
    /\ late \subseteq Operations
    /\ state \in [Operations -> {"none", "prepared", "uncertain", "withdrawn"}]
    /\ scope \in [Operations -> Epochs]
    /\ step \in [Operators -> Steps]
    /\ on \in [Operators -> Operations \cup {None}]
    /\ preview \in [Operators -> Epochs]
    /\ age \in [Operators -> 0..ApprovalLife]
    /\ observed \in [Operators -> [age : 0..ApprovalLife, epoch : Epochs, clear : BOOLEAN]]
    /\ reader \in [on : Operations \cup {None}, pages : Seq(Pages), first : Seq(Items), moved : BOOLEAN]

(* Whether a request of an operation left the host, and may show. *)
Effects(o) == Count(listing, o) + (IF o \in late THEN 1 ELSE 0)
Sent == {o \in Operations : Effects(o) > 0}

(* Operators who reserve before they dispatch, which no command does for   *)
(* them, cause at most one effect a task and journal, whoever else works   *)
(* on it, whatever was withdrawn and replaced in the meantime, and         *)
(* whenever a request thought lost arrives.  What took effect is on record *)
(* as an attempt.                                                          *)
OneEffect ==
    /\ \A o \in Sent : Effects(o) = 1 /\ state[o] = "uncertain"
    /\ \A o, x \in Sent : Slot(o) = Slot(x) => o = x

(* An operator is cleared to send only what is on record as it was         *)
(* previewed, under an approval that lasts, and, but for an issue, after   *)
(* the remote was seen as it was in the preview once the approval was      *)
(* issued, and not long ago: whatever others stage, withdraw, reserve or   *)
(* change between the first look and the last.                             *)
ClearedWasSeen ==
    [][\A p \in Operators : step[p] # "current" /\ step'[p] = "current" =>
        /\ state[on[p]] = "prepared" /\ Retains(p) /\ age[p] < ApprovalLife
        /\ Family(p) # "issue" =>
            /\ observed[p].epoch = scope[on[p]] /\ observed[p].clear
            /\ observed[p].age <= age[p] /\ Young(p)]_outboundVars

(* What a listing that held still decides: one row is what was asked for,  *)
(* and for a pull there is no other.  A search that does not fit its page  *)
(* decides nothing.                                                        *)
There(o, s) ==
    /\ Matching(o, s) = 1
    /\ FamilyOf[o] = "pull" => Len(s) = 1
    /\ FamilyOf[o] \in Searched => Len(s) <= PageSize

(* Where effects carry a marker, a recovery assessment names a candidate   *)
(* only when the operation took effect.  Elsewhere what others wrote may   *)
(* be named.  Read to its end while the listing held still, an assessment  *)
(* names a candidate exactly when the listing decides so.                  *)
ReadOut(o, pages) == ~Further(o, pages) /\ \A i \in DOMAIN pages : pages[i].ok
ReportsAreRight ==
    [][reader.on # None /\ reader' = NotReading =>
        LET o == reader.on
            candidate == Candidate(o, reader.pages) IN
        /\ candidate /\ FamilyOf[o] \in Marked => Effects(o) >= 1
        /\ ReadOut(o, reader.pages) /\ ~reader.moved => (candidate <=> There(o, reader.first))]_outboundVars

(* However many operators reserve, and whatever each has checked, a task   *)
(* and journal have one live operation, and an attempt is consumed by one  *)
(* operator, who is the only one to send it.                               *)
OneReservation ==
    /\ \A o, x \in Operations :
          o # x /\ Slot(o) = Slot(x) => state[o] \notin Live \/ state[x] \notin Live
    /\ \A p \in Operators : step[p] = "reserved" => state[on[p]] = "uncertain" /\ Retains(p)
    /\ \A p, q \in Operators :
          p # q /\ step[p] = "reserved" /\ step[q] = "reserved" => Slot(on[p]) # Slot(on[q])

(* The identifier is derived so that a retry finds what the first attempt  *)
(* made: "this read is what makes creation idempotent".                    *)
CreatedOnce == \A o \in Operations : FamilyOf[o] = "issue" => Count(listing, o) <= 1

=============================================================================
