---------------------------- MODULE Consultations ----------------------------
(***************************************************************************)
(* A question put to a role, and the agents of that role who may answer    *)
(* it: the store's side of it (orch/consultations.py), one transaction an  *)
(* action, and the runner's (orch/agent_runner.py), which lists, thinks,   *)
(* and only then says "I am writing this" and sends what it wrote.         *)
(*                                                                         *)
(* The two calls of an agent are requests on the network: a client that    *)
(* gives up waiting goes on with its round while its request may still be  *)
(* handled, however late.  A taking goes stale when time passes.           *)
(*                                                                         *)
(* Left out: roles (these agents and questions have one), the text of      *)
(* questions and answers, and the agent's other work: a round begins when  *)
(* the agent holds no task.                                                *)
(***************************************************************************)
EXTENDS Naturals, FiniteSets

CONSTANTS
    Questions,  \* ids, in the order they are listed
    Agents,
    Reserved,   \* agents that may have nothing to say
    MaxOpen,    \* MAX_OPEN
    MaxListed,  \* MAX_LISTED
    MaxFaults,  \* lost requests, lost replies and crashes, bounded for TLC
    Nobody      \* no agent, no question

ASSUME ConsultationsAssumption ==
    /\ Questions \in SUBSET Nat /\ IsFiniteSet(Questions)
    /\ Reserved \subseteq Agents
    /\ MaxOpen \in Nat /\ MaxListed \in Nat /\ MaxFaults \in Nat
    /\ Nobody \notin Agents \cup Questions

VARIABLES
    stateOf,    \* question -> its state, or "unasked"
    agent,      \* question -> the agent that took or answered it
    fresh,      \* question -> whether it was taken lately
    answer,     \* question -> whose opinion is recorded
    sent,       \* requests on their way to the service
    round,      \* agent -> where it is in its round
    on,         \* agent -> the question it writes about
    offered,    \* agent -> listed questions it has not looked at yet
    faults

record == <<stateOf, agent, fresh, answer>>
runner == <<round, on, offered>>
consultationVars == <<stateOf, agent, fresh, answer, sent, round, on, offered, faults>>

Open == {"asked", "answering"}
IsOpen == {q \in Questions : stateOf[q] \in Open}

ConsultationsInit ==
    /\ stateOf = [q \in Questions |-> "unasked"]
    /\ agent = [q \in Questions |-> Nobody]
    /\ fresh = [q \in Questions |-> FALSE]
    /\ answer = [q \in Questions |-> Nobody]
    /\ sent = {}
    /\ round = [a \in Agents |-> "idle"]
    /\ on = [a \in Agents |-> Nobody]
    /\ offered = [a \in Agents |-> {}]
    /\ faults = 0

-----------------------------------------------------------------------------
(* The person. *)

Ask(q) ==
    /\ stateOf[q] = "unasked"
    /\ Cardinality(IsOpen) < MaxOpen
    /\ stateOf' = [stateOf EXCEPT ![q] = "asked"]
    /\ UNCHANGED <<agent, fresh, answer, sent, runner, faults>>

(* Mutant: the answer is not looked at before the question is taken back. *)
WithdrawAnswered(q) ==
    /\ stateOf[q] \in Open \cup {"answered"}
    /\ stateOf' = [stateOf EXCEPT ![q] = "withdrawn"]
    /\ UNCHANGED <<agent, fresh, answer, sent, runner, faults>>

Withdraw(q) ==
    /\ stateOf[q] \in Open
    /\ stateOf' = [stateOf EXCEPT ![q] = "withdrawn"]
    /\ UNCHANGED <<agent, fresh, answer, sent, runner, faults>>

Close(q) ==
    /\ stateOf[q] = "answered"
    /\ stateOf' = [stateOf EXCEPT ![q] = "closed"]
    /\ UNCHANGED <<agent, fresh, answer, sent, runner, faults>>

Stale(q) == stateOf[q] = "answering" /\ ~fresh[q]
GoStale(q) ==
    /\ stateOf[q] = "answering" /\ fresh[q]
    /\ fresh' = [fresh EXCEPT ![q] = FALSE]
    /\ UNCHANGED <<stateOf, agent, answer, sent, runner, faults>>

-----------------------------------------------------------------------------
(* The service. *)

(* Mutant: a taken question is not offered again. *)
OfferableOnce(q) == stateOf[q] = "asked"
Offerable(q) == stateOf[q] = "asked" \/ Stale(q)

(* open_for: the first MaxListed of them. *)
Listed == {q \in Questions : /\ Offerable(q)
                             /\ Cardinality({r \in Questions : r < q /\ Offerable(r)}) < MaxListed}

(* Mutant: whoever took the question, another may write over it. *)
AnswerableByAnyone(q, a) == stateOf[q] \notin {"answered", "withdrawn"}
Answerable(q, a) ==
    /\ stateOf[q] \notin {"answered", "withdrawn"}
    /\ stateOf[q] = "answering" => agent[q] = a \/ Stale(q)

Take(q, a) ==
    /\ stateOf' = [stateOf EXCEPT ![q] = "answering"]
    /\ agent' = [agent EXCEPT ![q] = a]
    /\ fresh' = [fresh EXCEPT ![q] = TRUE]
    /\ UNCHANGED answer

Answer(q, a) ==
    /\ stateOf' = [stateOf EXCEPT ![q] = "answered"]
    /\ agent' = [agent EXCEPT ![q] = a]
    /\ answer' = [answer EXCEPT ![q] = a]
    /\ UNCHANGED fresh

(* What an agent does when it learns what became of its request. *)
Proceed(a, q, step) ==
    /\ round' = [round EXCEPT ![a] = step]
    /\ on' = [on EXCEPT ![a] = q]
    /\ offered' = [offered EXCEPT ![a] = IF step = "idle" THEN {} ELSE @]

Waiting(a) == round[a] \in {"taking", "answering"}
WaitsFor(m) == round[m.from] = m.call /\ on[m.from] = m.about

(* The reply matters only to a client that still waits for it. *)
Reply(m, accepted) ==
    \/ /\ WaitsFor(m) /\ accepted /\ m.call = "taking"
       /\ Proceed(m.from, m.about, "taken")
    \/ /\ WaitsFor(m) /\ accepted /\ m.call = "answering"
       /\ Proceed(m.from, Nobody, "idle")
    \/ WaitsFor(m) /\ ~accepted /\ Proceed(m.from, Nobody, "reading")
    \/ ~WaitsFor(m) /\ UNCHANGED runner

Handle(m) ==
    /\ sent' = sent \ {m}
    /\ \/ /\ Answerable(m.about, m.from)
          /\ \/ m.call = "taking" /\ Take(m.about, m.from)
             \/ m.call = "answering" /\ Answer(m.about, m.from)
          /\ Reply(m, TRUE)
       \/ /\ ~Answerable(m.about, m.from)
          /\ UNCHANGED record
          /\ Reply(m, FALSE)
    /\ UNCHANGED faults

-----------------------------------------------------------------------------
(* The runner: consult. *)

List(a) ==
    /\ round[a] = "idle"
    /\ round' = [round EXCEPT ![a] = "reading"]
    /\ offered' = [offered EXCEPT ![a] = Listed]
    /\ UNCHANGED <<record, sent, on, faults>>

First(a) == {q \in offered[a] : \A r \in offered[a] : q <= r}

(* It has something to say, and only then asks to be the one who says it. *)
Advise(a) ==
    /\ round[a] = "reading"
    /\ round' = [round EXCEPT ![a] = "taking"]
    /\ \E q \in First(a) :
        /\ on' = [on EXCEPT ![a] = q]
        /\ offered' = [offered EXCEPT ![a] = @ \ {q}]
        /\ sent' = sent \cup {[from |-> a, call |-> "taking", about |-> q]}
    /\ UNCHANGED <<record, faults>>

SayNothing(a) ==
    /\ a \in Reserved
    /\ round[a] = "reading"
    /\ \E q \in First(a) : offered' = [offered EXCEPT ![a] = @ \ {q}]
    /\ UNCHANGED <<record, sent, round, on, faults>>

SendAnswer(a) ==
    /\ round[a] = "taken"
    /\ round' = [round EXCEPT ![a] = "answering"]
    /\ sent' = sent \cup {[from |-> a, call |-> "answering", about |-> on[a]]}
    /\ UNCHANGED <<record, on, offered, faults>>

EndRound(a) ==
    /\ round[a] = "reading" /\ offered[a] = {}
    /\ Proceed(a, Nobody, "idle")
    /\ UNCHANGED <<record, sent, faults>>

-----------------------------------------------------------------------------
(* What goes wrong. *)

Fault == faults < MaxFaults /\ faults' = faults + 1

(* The client gives up; its request may be handled yet. *)
GiveUp(a) ==
    /\ Fault
    /\ Waiting(a)
    /\ Proceed(a, Nobody, "reading")
    /\ UNCHANGED <<record, sent>>

(* The request is lost, and the client notices. *)
Lose(m) ==
    /\ Fault
    /\ sent' = sent \ {m}
    /\ \/ WaitsFor(m) /\ Proceed(m.from, Nobody, "reading")
       \/ ~WaitsFor(m) /\ UNCHANGED runner
    /\ UNCHANGED record

Vanish(a) ==
    /\ Fault
    /\ round[a] # "idle"
    /\ Proceed(a, Nobody, "idle")
    /\ UNCHANGED <<record, sent>>

-----------------------------------------------------------------------------

Step(a) == List(a) \/ Advise(a) \/ SayNothing(a) \/ SendAnswer(a) \/ EndRound(a)

ConsultationsNext ==
    \/ \E q \in Questions : Ask(q) \/ Withdraw(q) \/ Close(q) \/ GoStale(q)
    \/ \E m \in sent : Handle(m) \/ Lose(m)
    \/ \E a \in Agents : Step(a) \/ GiveUp(a) \/ Vanish(a)

ConsultationsSpec == ConsultationsInit /\ [][ConsultationsNext]_consultationVars

(* An agent that keeps running sends its answer, or gives up, long before  *)
(* its taking goes stale: a request waits 45 seconds, a taking 900.        *)
Writing(q) == \E a \in Agents : round[a] \in {"taken", "answering"} /\ on[a] = q
PromptNext == ConsultationsNext /\ \A q \in Questions : Writing(q) => ~GoStale(q)

(* Time passes, the service answers whoever is waiting, agents go on with  *)
(* their rounds; a person has no duty, and nothing has to be lost.         *)
FairConsultationsSpec ==
    /\ ConsultationsInit /\ [][PromptNext]_consultationVars
    /\ \A q \in Questions : WF_consultationVars(~Writing(q) /\ GoStale(q))
    /\ \A a \in Agents : WF_consultationVars(Step(a))
    /\ \A m \in [from : Agents, call : {"taking", "answering"}, about : Questions] :
          WF_consultationVars(m \in sent /\ Handle(m))

-----------------------------------------------------------------------------
(* What must hold. *)

ConsultationsTypeOK ==
    /\ stateOf \in [Questions -> {"unasked", "asked", "answering", "answered",
                                "withdrawn", "closed"}]
    /\ agent \in [Questions -> Agents \cup {Nobody}]
    /\ fresh \in [Questions -> BOOLEAN]
    /\ answer \in [Questions -> Agents \cup {Nobody}]
    /\ \A q \in Questions : stateOf[q] = "answering" => agent[q] # Nobody
    /\ sent \subseteq [from : Agents, call : {"taking", "answering"}, about : Questions]
    /\ round \in [Agents -> {"idle", "reading", "taking", "taken", "answering"}]
    /\ on \in [Agents -> Questions \cup {Nobody}]
    /\ \A a \in Agents : round[a] \in {"taking", "taken", "answering"} => on[a] # Nobody
    /\ offered \in [Agents -> SUBSET Questions]
    /\ faults \in 0..MaxFaults

(* However late or often the agents' requests arrive, an answer nobody has *)
(* read stays as it was recorded, and what was taken back stays so.        *)
SettledStands ==
    [][\A q \in Questions :
          /\ stateOf[q] = "answered" => stateOf'[q] \in {"answered", "closed"}
                                        /\ answer'[q] = answer[q]
          /\ stateOf[q] = "withdrawn" => stateOf'[q] = "withdrawn" /\ answer'[q] = answer[q]]_consultationVars

(* Until a taking goes stale its agent alone ends it with an answer: one   *)
(* that listed or took the question before, and is late, cannot.           *)
TakerIsNotRobbed ==
    [][\A q \in Questions : stateOf[q] = "answering" /\ fresh[q] =>
          \/ stateOf'[q] = "answering" /\ agent'[q] = agent[q]
          \/ stateOf'[q] = "answered" /\ answer'[q] = agent[q]
          \/ stateOf'[q] = "withdrawn"]_consultationVars

(* While agents keep running and one always has something to say, every    *)
(* question is answered or taken back, though agents take it and vanish.   *)
OpenIsSettled == \A q \in Questions : stateOf[q] \in Open ~> stateOf[q] \notin Open

=============================================================================
