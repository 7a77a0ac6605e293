------------------------------- MODULE AgentWork -------------------------------
(***************************************************************************)
(* Agents drafting specifications: the loop of a container                 *)
(* (orch/agent_runner.py), the service it calls (orch/agent_service.py,    *)
(* agent_sessions.py, agent_queue.py), what it writes (orch/task_drafts.py)*)
(* and the operator's start and stop (orch/agent_processes.py).            *)
(*                                                                         *)
(* The service has one thread and takes connections in the order they were *)
(* made: `queue`.  A client that stops waiting, or whose reply is lost,    *)
(* goes on as if the service were away, and its request may still be       *)
(* handled: `awaited` is FALSE then.  A reply is delivered as it is made.  *)
(*                                                                         *)
(* A specification is named by the task revision that wrote it; its digest *)
(* is only ever compared.  Agents here hold one role, the project          *)
(* manager's.  Left out: questions to a role (Consultations), what a       *)
(* specification says beyond being well formed or not, signatures, and the *)
(* time of an agent's last request.                                        *)
(***************************************************************************)
EXTENDS Naturals, Sequences, FiniteSets

CONSTANTS
    Tasks,        \* ids, listed in their order
    Agents,
    Operated,     \* agents whose containers are stopped and killed, for TLC
    Bound,        \* the store's admission bound
    MaxRevision,  \* no draft or question on a later revision, for TLC
    MaxFaults,    \* late, lost and busy calls, and crashes, for TLC
    None

ASSUME AgentWorkAssumption ==
    /\ Tasks \subseteq Nat /\ IsFiniteSet(Tasks)
    /\ Operated \subseteq Agents
    /\ Bound \in Nat \ {0} /\ MaxRevision \in Nat /\ MaxFaults \in Nat
    /\ None \notin Agents \cup Tasks

VARIABLES
    state, rev, spec,  \* the task's row; spec is 0 before the first draft
    asked,      \* task -> the specification its open questions are about, or 0
    confirmed,  \* task -> the specification a person confirmed, or 0
    lease,      \* task -> [agent, live]
    queue,      \* requests not handled yet
    judged,     \* whether the head of the queue was found to hold its task
    pc,         \* agent -> where its loop is
    held,       \* agent -> the task it believes it holds
    offered,    \* agent -> rows of the listing not tried yet
    read,       \* agent -> [rev, spec] of the draft it considers
    stopping,   \* agent -> whether its loop was asked to end
    seen,       \* task -> the specification a person last read, or 0
    faults

task == <<state, rev, spec, asked, confirmed>>
runner == <<pc, held, offered, read, stopping>>
vars == <<state, rev, spec, asked, confirmed, lease, queue, judged,
          pc, held, offered, read, stopping, seen, faults>>

NoLease == [agent |-> None, live |-> FALSE]
Unread == [rev |-> 0, spec |-> 0]
Calls == {"available", "claim", "renew", "spec", "draft", "ask", "release"}
Work == {"spec", "draft", "ask"}
Waiting(a) == pc[a] \in Calls

Init ==
    /\ state = [t \in Tasks |-> "DRAFT_SPEC"]
    /\ rev = [t \in Tasks |-> 0]
    /\ spec = [t \in Tasks |-> 0]
    /\ asked = [t \in Tasks |-> 0]
    /\ confirmed = [t \in Tasks |-> 0]
    /\ lease = [t \in Tasks |-> NoLease]
    /\ queue = <<>>
    /\ judged = FALSE
    /\ pc = [a \in Agents |-> "off"]
    /\ held = [a \in Agents |-> None]
    /\ offered = [a \in Agents |-> {}]
    /\ read = [a \in Agents |-> Unread]
    /\ stopping = [a \in Agents |-> FALSE]
    /\ seen = [t \in Tasks |-> 0]
    /\ faults = 0

Fault == faults < MaxFaults /\ faults' = faults + 1

-----------------------------------------------------------------------------
(* The registry, as the service reads it. *)

(* Mutant: a lease is live as long as its row is there. *)
LiveForever(t) == lease[t].agent # None
Live(t) == lease[t].live

Admitted(t) == Cardinality({u \in Tasks \ {t} : Live(u)})

HoldsLease(a, t) == Live(t) /\ lease[t].agent = a

(* `available`; at the bound the runner looks at no row. *)
Listing ==
    IF Cardinality({u \in Tasks : Live(u)}) >= Bound THEN {}
    ELSE {[task |-> t, rev |-> rev[t]] : t \in {u \in Tasks : state[u] = "DRAFT_SPEC" /\ ~Live(u)}}

-----------------------------------------------------------------------------
(* The loop: what a container asks for, and what it makes of the answer.   *)

Goto(a, step) == pc' = [pc EXCEPT ![a] = step]

Request(a, call, t, basis) ==
    [from |-> a, call |-> call, task |-> t, basis |-> basis, awaited |-> TRUE]

Send(a, call, t, basis) ==
    /\ queue' = Append(queue, Request(a, call, t, basis))
    /\ Goto(a, call)
    /\ UNCHANGED <<task, lease, judged, stopping, seen, faults>>

(* run and round: the top of the loop. *)
LookForWork(a) ==
    /\ pc[a] = "top" /\ ~stopping[a] /\ held[a] = None
    /\ Send(a, "available", None, Unread)
    /\ UNCHANGED <<held, offered, read>>

Claim(a) ==
    /\ pc[a] = "choosing"
    /\ \E row \in offered[a] :
           /\ \A other \in offered[a] : row.task <= other.task
           /\ Send(a, "claim", row.task, [rev |-> row.rev, spec |-> 0])
           /\ offered' = [offered EXCEPT ![a] = @ \ {row}]
    /\ UNCHANGED <<held, read>>

FindNothing(a) ==
    /\ pc[a] = "choosing" /\ offered[a] = {}
    /\ Goto(a, "top")
    /\ UNCHANGED <<task, lease, queue, judged, held, offered, read, stopping, seen, faults>>

(* keep: whether two thirds of the lease have passed is a matter of time. *)
Renew(a) ==
    /\ pc[a] = "top" /\ ~stopping[a] /\ held[a] # None
    /\ Send(a, "renew", held[a], Unread)
    /\ UNCHANGED <<held, offered, read>>

Read(a) ==
    /\ pc[a] = "top" /\ ~stopping[a] /\ held[a] # None
    /\ Send(a, "spec", held[a], Unread)
    /\ UNCHANGED <<held, offered, read>>

(* The decider's judgement: write, ask, or have nothing (more) to do here. *)
Decide(a) ==
    /\ pc[a] = "thinking"
    /\ read' = [read EXCEPT ![a] = Unread]
    /\ \/ /\ read[a].rev < MaxRevision
          /\ \E call \in {"draft", "ask"} : Send(a, call, held[a], read[a])
       \/ /\ Goto(a, "leaving")
          /\ UNCHANGED <<task, lease, queue, judged, stopping, seen, faults>>
    /\ UNCHANGED <<held, offered>>

(* A decider with a bug: the loop ends, and its task goes back all the same. *)
DecideBadly(a) ==
    /\ pc[a] = "thinking"
    /\ read' = [read EXCEPT ![a] = Unread]
    /\ stopping' = [stopping EXCEPT ![a] = TRUE]
    /\ Goto(a, "top")
    /\ UNCHANGED <<task, lease, queue, judged, held, offered, seen, faults>>

(* let_go: the task is no longer held before anybody was told. *)
LetGo(a) ==
    /\ \/ pc[a] = "leaving"
       \/ pc[a] = "top" /\ stopping[a] /\ held[a] # None
    /\ Send(a, "release", held[a], Unread)
    /\ held' = [held EXCEPT ![a] = None]
    /\ UNCHANGED <<offered, read>>

(* Mutant: the loop ends without its `finally`. *)
EndLoopAtOnce(a) ==
    /\ pc[a] = "top" /\ stopping[a]
    /\ Goto(a, "off")
    /\ held' = [held EXCEPT ![a] = None]
    /\ UNCHANGED <<task, lease, queue, judged, offered, read, stopping, seen, faults>>

EndLoop(a) ==
    /\ pc[a] = "top" /\ stopping[a] /\ held[a] = None
    /\ Goto(a, "off")
    /\ UNCHANGED <<task, lease, queue, judged, held, offered, read, stopping, seen, faults>>

Accepted(a, call, t) ==
    CASE call = "available" ->
           /\ Goto(a, "choosing")
           /\ offered' = [offered EXCEPT ![a] = Listing]
           /\ UNCHANGED <<held, read>>
      [] call = "claim" ->
           /\ Goto(a, "top")
           /\ held' = [held EXCEPT ![a] = t]
           /\ offered' = [offered EXCEPT ![a] = {}]
           /\ UNCHANGED read
      [] call = "spec" ->
           /\ Goto(a, "thinking")
           /\ read' = [read EXCEPT ![a] = [rev |-> rev[t], spec |-> spec[t]]]
           /\ UNCHANGED <<held, offered>>
      [] call = "ask" -> Goto(a, "leaving") /\ UNCHANGED <<held, offered, read>>
      [] OTHER -> Goto(a, "top") /\ UNCHANGED <<held, offered, read>>

(* Only a refusal that may stop being one keeps the work with the agent. *)
Refused(a, call, transient) ==
    /\ UNCHANGED <<offered, read>>
    /\ held' = IF call = "renew" THEN [held EXCEPT ![a] = None] ELSE held
    /\ Goto(a, CASE call = "claim" -> "choosing"
                 [] call \in {"draft", "ask"} /\ transient -> "top"
                 [] call \in Work /\ ~transient -> "leaving"
                 [] OTHER -> "top")

-----------------------------------------------------------------------------
(* The service: the head of the queue, one request at a time. *)

Handled(m) ==
    /\ queue' = Tail(queue)
    /\ judged' = FALSE
    /\ UNCHANGED <<stopping, seen>>

Accept(m) ==
    /\ Handled(m)
    /\ IF m.awaited THEN Accepted(m.from, m.call, m.task) ELSE UNCHANGED <<pc, held, offered, read>>
    /\ UNCHANGED faults

Refuse(m, transient) ==
    /\ Handled(m)
    /\ IF m.awaited THEN Refused(m.from, m.call, transient) ELSE UNCHANGED <<pc, held, offered, read>>
    /\ UNCHANGED <<task, lease>>

List(m) ==
    /\ m.call = "available"
    /\ Accept(m)
    /\ UNCHANGED <<task, lease>>

Claimable(m) ==
    /\ rev[m.task] = m.basis.rev
    /\ state[m.task] = "DRAFT_SPEC"
    /\ ~Live(m.task)
    /\ Admitted(m.task) < Bound

GrantLease(m) ==
    /\ m.call = "claim" /\ Claimable(m)
    /\ lease' = [lease EXCEPT ![m.task] = [agent |-> m.from, live |-> TRUE]]
    /\ Accept(m)
    /\ UNCHANGED task

RenewLease(m) ==
    /\ m.call = "renew" /\ HoldsLease(m.from, m.task)
    /\ Accept(m)
    /\ UNCHANGED <<task, lease>>

ReleaseLease(m) ==
    /\ m.call = "release" /\ lease[m.task].agent = m.from
    /\ lease' = [lease EXCEPT ![m.task] = NoLease]
    /\ Accept(m)
    /\ UNCHANGED task

(* _work judges the lease first; the locks are taken by what comes after. *)
Judge(m) ==
    /\ m.call \in Work /\ ~judged
    /\ HoldsLease(m.from, m.task)
    /\ judged' = TRUE
    /\ UNCHANGED <<task, lease, queue, runner, seen, faults>>

Show(m) ==
    /\ m.call = "spec" /\ judged
    /\ Accept(m)
    /\ UNCHANGED <<task, lease>>

(* Mutant: the state is not looked at. *)
DraftableLate(m) == rev[m.task] = m.basis.rev \/ state[m.task] # "DRAFT_SPEC"

Draftable(m) == state[m.task] = "DRAFT_SPEC" /\ rev[m.task] = m.basis.rev

Draft(m) ==
    /\ m.call = "draft" /\ judged /\ Draftable(m)
    /\ rev' = [rev EXCEPT ![m.task] = @ + 1]
    /\ spec' = [spec EXCEPT ![m.task] = rev[m.task] + 1]
    /\ Accept(m)
    /\ UNCHANGED <<state, asked, confirmed, lease>>

Ask(m) ==
    /\ m.call = "ask" /\ judged /\ Draftable(m) /\ spec[m.task] # 0
    /\ state' = [state EXCEPT ![m.task] = "AWAITING_CLARIFICATION"]
    /\ rev' = [rev EXCEPT ![m.task] = @ + 1]
    /\ asked' = [asked EXCEPT ![m.task] = spec[m.task]]
    /\ Accept(m)
    /\ UNCHANGED <<spec, confirmed, lease>>

(* written and questions: what a request says may be refused for itself. *)
MayBeIllFormed(m) == m.call \in {"draft", "ask"} /\ judged

(* Refusals: the answer is no, the content is not well formed, or another  *)
(* process has the lock for a moment.                                      *)
Unacceptable(m) ==
    \/ m.call = "claim" /\ ~Claimable(m)
    \/ m.call = "renew" /\ ~HoldsLease(m.from, m.task)
    \/ m.call = "release" /\ lease[m.task].agent # m.from
    \/ m.call \in Work /\ ~judged /\ ~HoldsLease(m.from, m.task)
    \/ MayBeIllFormed(m)

SayNo(m) == Unacceptable(m) /\ Refuse(m, FALSE) /\ UNCHANGED faults

SayNotNow(m) ==
    /\ \/ m.call \in {"claim", "renew", "release"}
       \/ m.call \in {"draft", "ask"} /\ judged
    /\ Fault /\ Refuse(m, TRUE)

Serve == queue # <<>> /\ LET m == Head(queue) IN
    \/ List(m) \/ GrantLease(m) \/ RenewLease(m) \/ ReleaseLease(m)
    \/ Judge(m) \/ Show(m) \/ Draft(m) \/ Ask(m) \/ SayNo(m)

Busy == queue # <<>> /\ SayNotNow(Head(queue))

(* The client's timeout, a service that is down, a reply that is lost: to  *)
(* the loop they are one.                                                  *)
GiveUp(a) ==
    /\ Waiting(a) /\ Fault
    /\ queue' = [i \in DOMAIN queue |->
                   IF queue[i].from = a THEN [queue[i] EXCEPT !.awaited = FALSE] ELSE queue[i]]
    /\ Refused(a, pc[a], FALSE)
    /\ UNCHANGED <<task, lease, judged, stopping, seen>>

(* What nobody waits for may be lost, with the service that had begun it. *)
Lose ==
    /\ queue # <<>> /\ ~Head(queue).awaited
    /\ queue' = Tail(queue) /\ judged' = FALSE
    /\ UNCHANGED <<task, lease, runner, seen, faults>>

Expire(t) ==
    /\ Live(t)
    /\ lease' = [lease EXCEPT ![t].live = FALSE]
    /\ UNCHANGED <<task, queue, judged, runner, seen, faults>>

-----------------------------------------------------------------------------
(* Containers and people. *)

Running(a) == pc[a] # "off"

Start(a) ==
    /\ ~Running(a)
    /\ Goto(a, "starting")
    /\ stopping' = [stopping EXCEPT ![a] = FALSE]
    /\ UNCHANGED <<task, lease, queue, judged, held, offered, read, seen, faults>>

(* agent_main: a container that is not configured ends at once. *)
Boot(a) ==
    /\ pc[a] = "starting"
    /\ \E step \in {"top", "off"} : Goto(a, step)
    /\ UNCHANGED <<task, lease, queue, judged, held, offered, read, stopping, seen, faults>>

Stop(a) ==
    /\ a \in Operated /\ Running(a) /\ pc[a] # "starting" /\ ~stopping[a]
    /\ stopping' = [stopping EXCEPT ![a] = TRUE]
    /\ UNCHANGED <<task, lease, queue, judged, pc, held, offered, read, seen, faults>>

(* Killed, by `docker stop` after its grace or by anything else. *)
Kill(a) ==
    /\ a \in Operated /\ Running(a) /\ Fault
    /\ Goto(a, "off")
    /\ held' = [held EXCEPT ![a] = None]
    /\ offered' = [offered EXCEPT ![a] = {}]
    /\ read' = [read EXCEPT ![a] = Unread]
    /\ queue' = [i \in DOMAIN queue |->
                   IF queue[i].from = a THEN [queue[i] EXCEPT !.awaited = FALSE] ELSE queue[i]]
    /\ UNCHANGED <<task, lease, judged, stopping, seen>>

Look(t) ==
    /\ seen' = [seen EXCEPT ![t] = spec[t]]
    /\ UNCHANGED <<task, lease, queue, judged, runner, faults>>

(* Mutant: the digest the person names is not compared. *)
ConfirmableUnread(t) == state[t] = "DRAFT_SPEC" /\ spec[t] # 0 /\ seen[t] # 0
Confirmable(t) == state[t] = "DRAFT_SPEC" /\ spec[t] # 0 /\ seen[t] = spec[t]

Confirm(t) ==
    /\ Confirmable(t)
    /\ state' = [state EXCEPT ![t] = "SPEC_READY"]
    /\ rev' = [rev EXCEPT ![t] = @ + 2]
    /\ confirmed' = [confirmed EXCEPT ![t] = seen[t]]
    /\ UNCHANGED <<spec, asked, lease, queue, judged, runner, seen, faults>>

(* spec-draft and spec-ask need no lease: whoever has the store may draft. *)
DraftByHand(t) ==
    /\ state[t] = "DRAFT_SPEC" /\ rev[t] < MaxRevision
    /\ rev' = [rev EXCEPT ![t] = @ + 1]
    /\ spec' = [spec EXCEPT ![t] = rev[t] + 1]
    /\ UNCHANGED <<state, asked, confirmed, lease, queue, judged, runner, seen, faults>>

AskByHand(t) ==
    /\ state[t] = "DRAFT_SPEC" /\ spec[t] # 0 /\ rev[t] < MaxRevision
    /\ state' = [state EXCEPT ![t] = "AWAITING_CLARIFICATION"]
    /\ rev' = [rev EXCEPT ![t] = @ + 1]
    /\ asked' = [asked EXCEPT ![t] = spec[t]]
    /\ UNCHANGED <<spec, confirmed, lease, queue, judged, runner, seen, faults>>

Answer(t) ==
    /\ state[t] = "AWAITING_CLARIFICATION"
    /\ state' = [state EXCEPT ![t] = "DRAFT_SPEC"]
    /\ rev' = [rev EXCEPT ![t] = @ + 1]
    /\ asked' = [asked EXCEPT ![t] = 0]
    /\ UNCHANGED <<spec, confirmed, lease, queue, judged, runner, seen, faults>>

-----------------------------------------------------------------------------
Loop(a) ==
    \/ LookForWork(a) \/ Claim(a) \/ FindNothing(a) \/ Renew(a) \/ Read(a)
    \/ Decide(a) \/ DecideBadly(a) \/ LetGo(a) \/ EndLoop(a)

Next ==
    \/ Serve \/ Busy \/ Lose
    \/ \E a \in Agents : Loop(a) \/ GiveUp(a) \/ Start(a) \/ Boot(a) \/ Stop(a) \/ Kill(a)
    \/ \E t \in Tasks :
           \/ Expire(t) \/ Look(t) \/ Confirm(t) \/ Answer(t)
           \/ DraftByHand(t) \/ AskByHand(t)

Spec == Init /\ [][Next]_vars

(* Containers run, the service handles what reached it, time passes.  Nobody *)
(* has to start or stop a container, or to answer.                           *)
FairSpec ==
    /\ Spec
    /\ WF_vars(Serve)
    /\ \A a \in Agents : WF_vars(Loop(a))
    /\ \A t \in Tasks : WF_vars(Expire(t))

-----------------------------------------------------------------------------
Requests ==
    [from : Agents, call : Calls, task : Tasks \cup {None},
     basis : [rev : Nat, spec : Nat], awaited : BOOLEAN]

TypeOK ==
    /\ state \in [Tasks -> {"DRAFT_SPEC", "AWAITING_CLARIFICATION", "SPEC_READY"}]
    /\ rev \in [Tasks -> Nat] /\ spec \in [Tasks -> Nat]
    /\ asked \in [Tasks -> Nat] /\ confirmed \in [Tasks -> Nat]
    /\ lease \in [Tasks -> [agent : Agents \cup {None}, live : BOOLEAN]]
    /\ queue \in Seq(Requests)
    /\ judged \in BOOLEAN
    /\ pc \in [Agents -> Calls \cup {"off", "starting", "top", "choosing", "thinking", "leaving"}]
    /\ held \in [Agents -> Tasks \cup {None}]
    /\ offered \in [Agents -> SUBSET [task : Tasks, rev : Nat]]
    /\ read \in [Agents -> [rev : Nat, spec : Nat]]
    /\ stopping \in [Agents -> BOOLEAN]
    /\ seen \in [Tasks -> Nat]
    /\ faults \in 0..MaxFaults

(* A specification past confirmation is the one whose digest the person    *)
(* gave: not one that was drafted since it was read, and not one that a    *)
(* request under way at that moment wrote afterwards.                      *)
ConfirmedIsWhatWasRead ==
    \A t \in Tasks : state[t] = "SPEC_READY" => spec[t] # 0 /\ confirmed[t] = spec[t]

(* While a person has questions to answer, they are about the current      *)
(* draft: no request of an agent, however late, replaces it meanwhile.     *)
QuestionsFitTheDraft ==
    \A t \in Tasks :
        /\ state[t] = "AWAITING_CLARIFICATION" => asked[t] = spec[t] /\ asked[t] # 0
        /\ state[t] # "AWAITING_CLARIFICATION" => asked[t] = 0

(* As long as every call got its answer and nothing was killed, the        *)
(* registry has no live lease its container does not know of or is giving  *)
(* back: no path through the loop forgets a task.                          *)
BooksAgree ==
    faults = 0 => \A a \in Agents, t \in Tasks :
        HoldsLease(a, t) =>
            \/ held[a] = t
            \/ \E i \in DOMAIN queue :
                   queue[i].from = a /\ queue[i].call = "release" /\ queue[i].task = t

(* While a task is to be drafted and some container stays up, some         *)
(* container comes to hold a task: leases nobody knows of run out, and a   *)
(* full bound empties.                                                     *)
Up(a) == Running(a) /\ pc[a] # "starting" /\ ~stopping[a]
WorkIsFound ==
    \A a \in Agents, t \in Tasks :
        (state[t] = "DRAFT_SPEC" /\ Up(a))
            ~> (\E b \in Agents : held[b] # None) \/ state[t] # "DRAFT_SPEC" \/ ~Up(a)

=============================================================================
