--------------------------- MODULE AgentWorkProofs ---------------------------
(***************************************************************************)
(* Proofs about AgentWork, for any tasks and agents, any admission bound   *)
(* and any number of faults.                                               *)
(*                                                                         *)
(* What carries them is the agreement between a container and the requests *)
(* it still waits for: there is one at most, it is the one its loop is at, *)
(* and it is about the task it holds.  Requests it gave up on may be of    *)
(* any age, and are judged by what the service finds when it reads them.   *)
(***************************************************************************)
EXTENDS AgentWork, SequenceTheorems, TLAPS

-----------------------------------------------------------------------------
(* The invariant. *)

(* Calls a container makes about the task it holds, and steps at which it  *)
(* holds one, or none. *)
AboutHeld == {"renew", "spec", "draft", "ask"}
Holding == AboutHeld \cup {"thinking", "leaving"}
Free == {"available", "choosing", "claim", "release"}

HeldFits ==
    \A a \in Agents :
        /\ pc[a] \in Holding => held[a] # None
        /\ pc[a] \in Free => held[a] = None

Agrees(m, step, task_held) ==
    /\ m.call # "available" => m.task \in Tasks
    /\ m.awaited =>
          /\ step[m.from] = m.call
          /\ m.call \in AboutHeld => m.task = task_held[m.from]
Fits(m) == Agrees(m, pc, held)

QueueFits == \A i \in 1..Len(queue) : Fits(queue[i])

OneAwaited ==
    \A i, j \in 1..Len(queue) :
        queue[i].awaited /\ queue[j].awaited /\ queue[i].from = queue[j].from => i = j

AllAwaited == faults = 0 => \A i \in 1..Len(queue) : queue[i].awaited

(* The types, in parts that steps leave alone together. *)
TaskTyped ==
    /\ state \in [Tasks -> {"DRAFT_SPEC", "AWAITING_CLARIFICATION", "SPEC_READY"}]
    /\ rev \in [Tasks -> Nat] /\ spec \in [Tasks -> Nat]
    /\ asked \in [Tasks -> Nat] /\ confirmed \in [Tasks -> Nat]
    /\ seen \in [Tasks -> Nat]
LeaseTyped == lease \in [Tasks -> [agent : Agents \cup {None}, live : BOOLEAN]]
Steps == Calls \cup {"off", "starting", "top", "choosing", "thinking", "leaving"}
RunnerTyped ==
    /\ pc \in [Agents -> Steps]
    /\ held \in [Agents -> Tasks \cup {None}]
    /\ offered \in [Agents -> SUBSET [task : Tasks, rev : Nat]]
    /\ read \in [Agents -> [rev : Nat, spec : Nat]]
    /\ stopping \in [Agents -> BOOLEAN]
QueueTyped == queue \in Seq(Requests) /\ judged \in BOOLEAN /\ faults \in 0..MaxFaults

TypeInv == TaskTyped /\ LeaseTyped /\ RunnerTyped /\ QueueTyped
TaskInv == ConfirmedIsWhatWasRead /\ QuestionsFitTheDraft
CallInv == HeldFits /\ QueueFits /\ OneAwaited /\ AllAwaited
IInv == TypeInv /\ TaskInv /\ CallInv /\ BooksAgree

LEMMA InitIsInvariant == Init => IInv
<1> SUFFICES ASSUME Init PROVE IInv
  OBVIOUS
<1>1. TaskTyped /\ LeaseTyped
  BY DEF Init, TaskTyped, LeaseTyped, NoLease
<1>2. RunnerTyped
  BY DEF Init, RunnerTyped, Steps, Unread
<1>3. QueueTyped
  <2>1. MaxFaults \in Nat
    BY AgentWorkAssumption
  <2>2. queue = <<>> /\ judged = FALSE /\ faults = 0
    BY DEF Init
  <2>3. 0 \in 0..MaxFaults
    BY <2>1
  <2>4. <<>> \in Seq(Requests)
    OBVIOUS
  <2> QED BY <2>2, <2>3, <2>4 DEF QueueTyped
<1>4. TaskInv
  BY DEF Init, TaskInv, ConfirmedIsWhatWasRead, QuestionsFitTheDraft
<1>5. CallInv
  BY DEF Init, CallInv, HeldFits, QueueFits, OneAwaited, AllAwaited, Holding, Free, AboutHeld
<1>6. BooksAgree
  BY DEF Init, BooksAgree, HoldsLease, Live, NoLease
<1> QED BY <1>1, <1>2, <1>3, <1>4, <1>5, <1>6 DEF IInv, TypeInv

-----------------------------------------------------------------------------
(* What is awaited, as the queue grows and shrinks. *)

(* Nothing else is awaited from an agent whose loop is not waiting, *)
LEMMA NotWaiting ==
    ASSUME QueueTyped, QueueFits, NEW a \in Agents, pc[a] \notin Calls,
           NEW i \in 1..Len(queue), queue[i].awaited
    PROVE  queue[i].from # a
<1>1. queue[i] \in Requests /\ Fits(queue[i])
  BY DEF QueueTyped, QueueFits
<1> QED BY <1>1 DEF Fits, Agrees, Requests

(* nor beside the request at the head, if that is. *)
LEMMA HeadAlone ==
    ASSUME QueueTyped, QueueFits, OneAwaited, queue # <<>>
    PROVE  /\ Head(queue) \in Requests /\ Fits(Head(queue))
           /\ Len(queue) \in Nat /\ Len(queue) >= 1 /\ Head(queue) = queue[1]
           /\ Tail(queue) \in Seq(Requests) /\ Len(Tail(queue)) = Len(queue) - 1
           /\ \A i \in 1..Len(Tail(queue)) :
                 /\ Tail(queue)[i] = queue[i + 1] /\ Fits(queue[i + 1])
                 /\ queue[i + 1] \in Requests
                 /\ Head(queue).awaited /\ queue[i + 1].awaited =>
                        queue[i + 1].from # Head(queue).from
<1>1. Len(queue) \in Nat /\ Len(queue) >= 1 /\ Head(queue) = queue[1]
  BY DEF QueueTyped
<1>2. Tail(queue) \in Seq(Requests) /\ Len(Tail(queue)) = Len(queue) - 1
  BY <1>1, HeadTailProperties DEF QueueTyped
<1>3. \A i \in 1..Len(Tail(queue)) : Tail(queue)[i] = queue[i + 1] /\ i + 1 \in 1..Len(queue)
  BY <1>1, <1>2, HeadTailProperties DEF QueueTyped
<1>4. \A i \in 1..Len(queue) : queue[i] \in Requests
  BY DEF QueueTyped
<1>5. \A i \in 1..Len(Tail(queue)) : i + 1 # 1
  BY <1>1, <1>2
<1> QED BY <1>1, <1>2, <1>3, <1>4, <1>5 DEF QueueFits, OneAwaited

(* A request is made by a loop that was not waiting, *)
LEMMA SendFits ==
    ASSUME QueueTyped, QueueFits, OneAwaited, AllAwaited, RunnerTyped,
           NEW a \in Agents, NEW call \in Calls, NEW t \in Tasks \cup {None},
           NEW basis \in [rev : Nat, spec : Nat],
           pc[a] \notin Calls, Send(a, call, t, basis),
           call # "available" => t \in Tasks,
           call \in AboutHeld => t = held'[a],
           \A b \in Agents : b # a => held'[b] = held[b]
    PROVE  QueueTyped' /\ QueueFits' /\ OneAwaited' /\ AllAwaited'
<1> DEFINE m == Request(a, call, t, basis)
<1>1. /\ queue' = Append(queue, m) /\ pc' = [pc EXCEPT ![a] = call]
      /\ judged' = judged /\ faults' = faults
  BY DEF Send, Goto
<1>2. m \in Requests
  BY DEF Request, Requests
<1>3. /\ queue' \in Seq(Requests) /\ Len(queue') = Len(queue) + 1 /\ Len(queue) \in Nat
      /\ queue'[Len(queue) + 1] = m
      /\ \A i \in 1..Len(queue) : queue'[i] = queue[i] /\ queue[i] \in Requests
  BY <1>1, <1>2, AppendProperties DEF QueueTyped
<1>4. m.from = a /\ m.call = call /\ m.task = t /\ m.awaited
  BY DEF Request
<1>5. pc'[a] = call /\ \A b \in Agents : b # a => pc'[b] = pc[b]
  BY <1>1 DEF RunnerTyped
<1> HIDE DEF m
<1>6. \A i \in 1..Len(queue) : queue[i].awaited => queue[i].from # a
  BY NotWaiting
<1>7. \A i \in 1..Len(queue') : i \in 1..Len(queue) \/ (i = Len(queue) + 1 /\ queue'[i] = m)
  BY <1>3
<1>8. QueueTyped'
  BY <1>1, <1>3 DEF QueueTyped
<1>9. QueueFits'
  <2> SUFFICES ASSUME NEW i \in 1..Len(queue')
               PROVE  Agrees(queue'[i], pc', held')
    BY DEF QueueFits, Fits
  <2>1. CASE i \in 1..Len(queue)
    <3>1. Fits(queue[i]) /\ queue'[i] = queue[i] /\ queue[i].from \in Agents
      BY <1>3, <2>1 DEF QueueFits, Requests
    <3>2. queue[i].awaited => queue[i].from # a
      BY <1>6, <2>1
    <3> QED BY <3>1, <3>2, <1>5 DEF Fits, Agrees
  <2>2. CASE queue'[i] = m
    BY <2>2, <1>4, <1>5 DEF Fits, Agrees
  <2> QED BY <2>1, <2>2, <1>7
<1>10. OneAwaited'
  BY <1>3, <1>4, <1>6, <1>7 DEF OneAwaited
<1>11. AllAwaited'
  BY <1>1, <1>3, <1>4, <1>7 DEF AllAwaited
<1> QED BY <1>8, <1>9, <1>10, <1>11

(* and its answer, or the lack of one, moves that loop only. *)
OnlySender(m) ==
    \A b \in Agents : (b # m.from \/ ~m.awaited) => pc'[b] = pc[b] /\ held'[b] = held[b]

LEMMA HandleFits ==
    ASSUME QueueTyped, QueueFits, OneAwaited, AllAwaited, queue # <<>>,
           queue' = Tail(queue), judged' \in BOOLEAN, faults' \in 0..MaxFaults,
           faults' = 0 => faults = 0, OnlySender(Head(queue))
    PROVE  QueueTyped' /\ QueueFits' /\ OneAwaited' /\ AllAwaited'
<1> USE HeadAlone
<1>1. QueueTyped'
  BY DEF QueueTyped
<1>2. QueueFits'
  <2> SUFFICES ASSUME NEW i \in 1..Len(queue')
               PROVE  Agrees(queue'[i], pc', held')
    BY DEF QueueFits, Fits
  <2>1. /\ Fits(queue[i + 1]) /\ queue'[i] = queue[i + 1] /\ queue[i + 1].from \in Agents
        /\ Head(queue).awaited /\ queue[i + 1].awaited => queue[i + 1].from # Head(queue).from
    BY DEF Requests
  <2> QED BY <2>1 DEF Fits, Agrees, OnlySender
<1>3. \A i \in 1..Len(queue') : i + 1 \in 1..Len(queue) /\ queue'[i] = queue[i + 1]
  OBVIOUS
<1>4. OneAwaited'
  <2> SUFFICES ASSUME NEW i \in 1..Len(queue'), NEW j \in 1..Len(queue'),
                      queue'[i].awaited, queue'[j].awaited, queue'[i].from = queue'[j].from
               PROVE  i = j
    BY DEF OneAwaited
  <2>1. i + 1 = j + 1
    BY <1>3 DEF OneAwaited
  <2> QED BY <2>1
<1>5. AllAwaited'
  BY <1>3 DEF AllAwaited
<1> QED BY <1>1, <1>2, <1>4, <1>5

(* A container that gives up, or is killed, awaits nothing. *)
LEMMA ForgetFits ==
    ASSUME QueueTyped, QueueFits, OneAwaited, NEW a \in Agents,
           queue' = [i \in DOMAIN queue |->
                       IF queue[i].from = a THEN [queue[i] EXCEPT !.awaited = FALSE] ELSE queue[i]],
           judged' = judged, Fault,
           \A b \in Agents : b # a => pc'[b] = pc[b] /\ held'[b] = held[b]
    PROVE  QueueTyped' /\ QueueFits' /\ OneAwaited' /\ AllAwaited'
<1>1. DOMAIN queue = 1..Len(queue) /\ Len(queue) \in Nat
  BY DEF QueueTyped
<1>2. \A i \in 1..Len(queue) :
          /\ queue'[i] \in Requests /\ queue[i] \in Requests
          /\ queue'[i].from = queue[i].from /\ queue'[i].call = queue[i].call
          /\ queue'[i].task = queue[i].task
          /\ queue'[i].awaited => queue[i].awaited /\ queue[i].from # a
  <2> SUFFICES ASSUME NEW i \in 1..Len(queue), NEW m, m = queue[i], NEW n, n = queue'[i]
               PROVE  /\ n \in Requests /\ m \in Requests
                      /\ n.from = m.from /\ n.call = m.call /\ n.task = m.task
                      /\ n.awaited => m.awaited /\ m.from # a
    OBVIOUS
  <2>1. m \in Requests
    BY DEF QueueTyped
  <2>2. n = IF m.from = a THEN [m EXCEPT !.awaited = FALSE] ELSE m
    BY <1>1
  <2> QED BY <2>1, <2>2 DEF Requests
<1>3. queue' \in Seq(Requests) /\ Len(queue') = Len(queue)
  BY <1>1, <1>2
<1>4. QueueTyped'
  BY <1>3, AgentWorkAssumption DEF QueueTyped, Fault
<1>5. QueueFits'
  <2> SUFFICES ASSUME NEW i \in 1..Len(queue)
               PROVE  Agrees(queue'[i], pc', held')
    BY <1>3 DEF QueueFits, Fits
  <2>1. Fits(queue[i]) /\ queue[i].from \in Agents
    BY <1>2 DEF QueueFits, Requests
  <2> QED BY <2>1, <1>2 DEF Fits, Agrees
<1>6. OneAwaited'
  BY <1>2, <1>3 DEF OneAwaited
<1>7. AllAwaited'
  BY AgentWorkAssumption DEF AllAwaited, Fault, QueueTyped
<1> QED BY <1>4, <1>5, <1>6, <1>7

-----------------------------------------------------------------------------
(* What the registry and the containers say of each other. *)

Returning(a, t) ==
    \E i \in DOMAIN queue :
        queue[i].from = a /\ queue[i].call = "release" /\ queue[i].task = t

LEMMA SendKeepsBooks ==
    ASSUME QueueTyped, RunnerTyped, BooksAgree,
           NEW a \in Agents, NEW call \in Calls, NEW t \in Tasks \cup {None}, NEW basis,
           Send(a, call, t, basis),
           \A b \in Agents : held'[b] = held[b]
                             \/ (b = a /\ held[a] = None)
                             \/ (b = a /\ call = "release" /\ t = held[a]),
           QueueTyped'
    PROVE  BooksAgree'
<1>1. /\ queue' = Append(queue, Request(a, call, t, basis))
      /\ UNCHANGED <<lease, faults>>
  BY DEF Send
<1>2. /\ Len(queue') = Len(queue) + 1 /\ Len(queue) \in Nat
      /\ queue'[Len(queue) + 1] = Request(a, call, t, basis)
      /\ \A i \in 1..Len(queue) : queue'[i] = queue[i]
  BY <1>1 DEF QueueTyped
<1>3. DOMAIN queue = 1..Len(queue) /\ DOMAIN queue' = 1..Len(queue')
  BY DEF QueueTyped
<1>4. \A b \in Agents, u \in Tasks : Returning(b, u) => Returning(b, u)'
  BY <1>2, <1>3 DEF Returning
<1>5. call = "release" => Returning(a, t)'
  <2>1. Len(queue) + 1 \in 1..Len(queue')
    BY <1>2
  <2> QED BY <1>2, <1>3, <2>1 DEF Returning, Request
<1>6. ASSUME faults = 0, NEW b \in Agents, NEW u \in Tasks, HoldsLease(b, u)
      PROVE  held'[b] = u \/ Returning(b, u)'
  <2>1. held[b] = u \/ Returning(b, u)
    BY <1>6 DEF BooksAgree, Returning
  <2>2. u # None
    BY AgentWorkAssumption
  <2> QED BY <1>4, <1>5, <2>1, <2>2
<1>7. \A b \in Agents, u \in Tasks : HoldsLease(b, u)' = HoldsLease(b, u)
  BY <1>1 DEF HoldsLease, Live
<1> QED BY <1>1, <1>6, <1>7 DEF BooksAgree, Returning

(* Leases that were known of still are, or the request at the head was     *)
(* about them.                                                             *)
LEMMA HandleKeepsBooks ==
    ASSUME QueueTyped, QueueFits, OneAwaited, BooksAgree, queue # <<>>, queue' = Tail(queue),
           faults' = 0 => faults = 0, QueueTyped',
           \A a \in Agents, t \in Tasks : faults' = 0 /\ HoldsLease(a, t)' =>
               \/ held'[a] = t
               \/ /\ HoldsLease(a, t)
                  /\ held[a] = t => held'[a] = t
                  /\ ~(Head(queue).call = "release" /\ Head(queue).from = a /\ Head(queue).task = t)
    PROVE  BooksAgree'
<1>1. DOMAIN queue = 1..Len(queue) /\ DOMAIN queue' = 1..Len(queue')
  BY DEF QueueTyped
<1>2. ASSUME faults' = 0, NEW a \in Agents, NEW t \in Tasks, HoldsLease(a, t)'
      PROVE  held'[a] = t \/ Returning(a, t)'
  <2> SUFFICES ASSUME held'[a] # t PROVE Returning(a, t)'
    OBVIOUS
  <2>1. /\ Returning(a, t)
        /\ ~(Head(queue).call = "release" /\ Head(queue).from = a /\ Head(queue).task = t)
    BY <1>2 DEF BooksAgree, Returning
  <2>2. PICK i \in 1..Len(queue) :
            queue[i].from = a /\ queue[i].call = "release" /\ queue[i].task = t
    BY <1>1, <2>1 DEF Returning
  <2>3. i # 1 /\ Len(queue) \in Nat /\ Len(queue') = Len(queue) - 1
    BY <2>1, <2>2, HeadAlone
  <2>4. i - 1 \in 1..Len(queue')
    BY <2>3
  <2>5. queue'[i - 1] = queue[(i - 1) + 1] /\ (i - 1) + 1 = i
    BY <2>3, <2>4, HeadAlone
  <2> QED BY <1>1, <2>2, <2>4, <2>5 DEF Returning
<1> QED BY <1>2 DEF BooksAgree, Returning

-----------------------------------------------------------------------------
(* The loop. *)

(* A step of a loop between two calls. *)
LEMMA LoopMoves ==
    ASSUME IInv, NEW a \in Agents, pc[a] \notin Calls, NEW step \in Steps \ Calls,
           pc' = [pc EXCEPT ![a] = step], RunnerTyped',
           UNCHANGED <<task, lease, queue, judged, held, seen, faults>>,
           step \in {"thinking", "leaving"} => held[a] # None,
           step = "choosing" => held[a] = None
    PROVE  IInv'
<1> USE DEF IInv, TypeInv, CallInv
<1>1. TaskTyped' /\ LeaseTyped' /\ QueueTyped'
  BY DEF TaskTyped, LeaseTyped, QueueTyped, task
<1>2. TaskInv'
  BY DEF TaskInv, ConfirmedIsWhatWasRead, QuestionsFitTheDraft, task
<1>3. pc'[a] = step /\ \A b \in Agents : b # a => pc'[b] = pc[b]
  BY DEF RunnerTyped
<1>4. HeldFits'
  BY <1>3 DEF HeldFits, Holding, AboutHeld, Free, Calls
<1>5. QueueFits'
  <2> SUFFICES ASSUME NEW i \in 1..Len(queue)
               PROVE  Agrees(queue[i], pc', held')
    BY DEF QueueFits, Fits
  <2>1. Fits(queue[i]) /\ queue[i].from \in Agents
    <3>1. queue[i] \in Requests
      BY DEF QueueTyped
    <3> QED BY <3>1 DEF QueueFits, Requests
  <2>2. queue[i].awaited => queue[i].from # a
    BY NotWaiting
  <2> QED BY <2>1, <2>2, <1>3 DEF Fits, Agrees
<1>6. OneAwaited' /\ AllAwaited' /\ BooksAgree'
  BY DEF OneAwaited, AllAwaited, BooksAgree, HoldsLease, Live
<1> QED BY <1>1, <1>2, <1>4, <1>5, <1>6

(* A step of a loop that makes a call. *)
LEMMA SendMoves ==
    ASSUME IInv, NEW a \in Agents, NEW call \in Calls, NEW t \in Tasks \cup {None},
           NEW basis \in [rev : Nat, spec : Nat],
           pc[a] \notin Calls, Send(a, call, t, basis), RunnerTyped',
           call # "available" => t \in Tasks,
           call \in AboutHeld => t = held'[a],
           call \in Free => held'[a] = None,
           \A b \in Agents : b # a => held'[b] = held[b],
           held'[a] = held[a] \/ held[a] = None \/ (call = "release" /\ t = held[a])
    PROVE  IInv'
<1> USE DEF IInv, TypeInv, CallInv
<1>1. UNCHANGED <<task, lease, seen>> /\ pc' = [pc EXCEPT ![a] = call]
  BY DEF Send, Goto
<1>2. TaskTyped' /\ LeaseTyped'
  BY <1>1 DEF TaskTyped, LeaseTyped, task
<1>3. TaskInv'
  BY <1>1 DEF TaskInv, ConfirmedIsWhatWasRead, QuestionsFitTheDraft, task
<1>4. QueueTyped' /\ QueueFits' /\ OneAwaited' /\ AllAwaited'
  BY SendFits
<1>5. BooksAgree'
  BY <1>4, SendKeepsBooks
<1>6. pc'[a] = call /\ \A b \in Agents : b # a => pc'[b] = pc[b]
  BY <1>1 DEF RunnerTyped
<1>7. HeldFits'
  <2>1. call \in Holding => held'[a] # None
    BY AgentWorkAssumption DEF Holding, AboutHeld, Calls
  <2> QED BY <1>6, <2>1 DEF HeldFits
<1> QED BY <1>2, <1>3, <1>4, <1>5, <1>7

LEMMA LoopKeeps ==
    ASSUME IInv, NEW a \in Agents, Loop(a)
    PROVE  IInv'
<1> USE DEF IInv, TypeInv, CallInv
<1>1. /\ None \notin Tasks
      /\ pc[a] \in Steps /\ held[a] \in Tasks \cup {None}
      /\ read[a] \in [rev : Nat, spec : Nat] /\ offered[a] \subseteq [task : Tasks, rev : Nat]
      /\ Unread \in [rev : Nat, spec : Nat]
  BY AgentWorkAssumption DEF RunnerTyped, Unread
<1>2. ASSUME LookForWork(a) PROVE IInv'
  <2>1. /\ pc[a] = "top" /\ held[a] = None /\ Send(a, "available", None, Unread)
        /\ UNCHANGED <<held, offered, read>>
    BY <1>2 DEF LookForWork
  <2>2. RunnerTyped'
    BY <2>1 DEF RunnerTyped, Send, Goto, Steps, Calls
  <2> QED BY <1>1, <2>1, <2>2, SendMoves DEF Calls, AboutHeld
<1>3. ASSUME Claim(a) PROVE IInv'
  <2>1. PICK row \in offered[a] :
            /\ pc[a] = "choosing"
            /\ Send(a, "claim", row.task, [rev |-> row.rev, spec |-> 0])
            /\ offered' = [offered EXCEPT ![a] = @ \ {row}]
            /\ UNCHANGED <<held, read>>
    BY <1>3 DEF Claim
  <2>2. row.task \in Tasks /\ [rev |-> row.rev, spec |-> 0] \in [rev : Nat, spec : Nat]
    BY <1>1, <2>1
  <2>3. RunnerTyped'
    BY <2>1, <1>1 DEF RunnerTyped, Send, Goto, Steps, Calls
  <2>4. held[a] = None
    BY <2>1 DEF HeldFits, Free
  <2> QED BY <2>1, <2>2, <2>3, <2>4, SendMoves DEF Calls, AboutHeld
<1>4. ASSUME FindNothing(a) PROVE IInv'
  <2>1. RunnerTyped'
    BY <1>4 DEF FindNothing, RunnerTyped, Goto, Steps, Calls
  <2> QED BY <1>4, <2>1, LoopMoves DEF FindNothing, Goto, Steps, Calls
<1>5. ASSUME Renew(a) \/ Read(a) PROVE IInv'
  <2>1. PICK call \in {"renew", "spec"} :
            /\ pc[a] = "top" /\ held[a] # None
            /\ Send(a, call, held[a], Unread)
            /\ UNCHANGED <<held, offered, read>>
    BY <1>5 DEF Renew, Read
  <2>2. RunnerTyped'
    BY <2>1 DEF RunnerTyped, Send, Goto, Steps, Calls
  <2>3. call \notin Free /\ call \in Calls
    BY <2>1 DEF Free, Calls
  <2> QED BY <1>1, <2>1, <2>2, <2>3, SendMoves DEF Calls
<1>6. ASSUME Decide(a) PROVE IInv'
  <2>1. pc[a] = "thinking" /\ read' = [read EXCEPT ![a] = Unread] /\ UNCHANGED <<held, offered>>
    BY <1>6 DEF Decide
  <2>2. held[a] # None
    BY <2>1 DEF HeldFits, Holding
  <2>3. ASSUME NEW call \in {"draft", "ask"}, Send(a, call, held[a], read[a])
        PROVE  IInv'
    <3>1. RunnerTyped'
      BY <2>1, <2>3, <1>1 DEF RunnerTyped, Send, Goto, Steps, Calls
    <3>2. call \notin Free /\ call \in Calls
      BY DEF Free, Calls
    <3> QED BY <1>1, <2>1, <2>2, <2>3, <3>1, <3>2, SendMoves DEF Calls
  <2>4. ASSUME Goto(a, "leaving"), UNCHANGED <<task, lease, queue, judged, stopping, seen, faults>>
        PROVE  IInv'
    <3>1. RunnerTyped'
      BY <2>1, <2>4, <1>1 DEF RunnerTyped, Goto, Steps, Calls
    <3> QED BY <2>1, <2>2, <2>4, <3>1, LoopMoves DEF Goto, Steps, Calls
  <2> QED BY <1>6, <2>3, <2>4 DEF Decide
<1>7. ASSUME DecideBadly(a) PROVE IInv'
  <2>1. RunnerTyped'
    BY <1>7, <1>1 DEF DecideBadly, RunnerTyped, Goto, Steps, Calls
  <2> QED BY <1>7, <2>1, LoopMoves DEF DecideBadly, Goto, Steps, Calls
<1>8. ASSUME LetGo(a) PROVE IInv'
  <2>1. /\ pc[a] \in {"leaving", "top"} /\ Send(a, "release", held[a], Unread)
        /\ held' = [held EXCEPT ![a] = None] /\ UNCHANGED <<offered, read>>
        /\ held[a] # None
    BY <1>8 DEF LetGo, HeldFits, Holding
  <2>2. RunnerTyped'
    BY <2>1 DEF RunnerTyped, Send, Goto, Steps, Calls
  <2>3. held'[a] = None /\ \A b \in Agents : b # a => held'[b] = held[b]
    BY <2>1 DEF RunnerTyped
  <2>4. pc[a] \notin Calls /\ "release" \in Calls /\ "release" \notin AboutHeld
    BY <2>1 DEF Calls, AboutHeld
  <2> QED BY <1>1, <2>1, <2>2, <2>3, <2>4, SendMoves
<1>9. ASSUME EndLoop(a) PROVE IInv'
  <2>1. RunnerTyped'
    BY <1>9 DEF EndLoop, RunnerTyped, Goto, Steps, Calls
  <2> QED BY <1>9, <2>1, LoopMoves DEF EndLoop, Goto, Steps, Calls
<1> QED BY <1>2, <1>3, <1>4, <1>5, <1>6, <1>7, <1>8, <1>9 DEF Loop

-----------------------------------------------------------------------------
(* Containers and people. *)

LEMMA ContainerKeeps ==
    ASSUME IInv, NEW a \in Agents, Start(a) \/ Boot(a) \/ Stop(a)
    PROVE  IInv'
<1> USE DEF IInv, TypeInv, CallInv
<1>1. ASSUME Start(a) PROVE IInv'
  <2>1. RunnerTyped'
    BY <1>1 DEF Start, RunnerTyped, Goto, Steps, Calls
  <2> QED BY <1>1, <2>1, LoopMoves DEF Start, Running, Goto, Steps, Calls
<1>2. ASSUME Boot(a) PROVE IInv'
  <2>1. PICK step \in {"top", "off"} :
            /\ pc[a] = "starting" /\ Goto(a, step)
            /\ UNCHANGED <<task, lease, queue, judged, held, offered, read, stopping, seen, faults>>
    BY <1>2 DEF Boot
  <2>2. RunnerTyped'
    BY <2>1 DEF RunnerTyped, Goto, Steps, Calls
  <2> QED BY <2>1, <2>2, LoopMoves DEF Goto, Steps, Calls
<1>3. ASSUME Stop(a) PROVE IInv'
  <2>1. /\ stopping' = [stopping EXCEPT ![a] = TRUE]
        /\ UNCHANGED <<task, lease, queue, judged, pc, held, offered, read, seen, faults>>
    BY <1>3 DEF Stop
  <2>2. TaskTyped' /\ LeaseTyped' /\ RunnerTyped' /\ QueueTyped'
    BY <2>1 DEF TaskTyped, LeaseTyped, RunnerTyped, QueueTyped, task
  <2>3. TaskInv'
    BY <2>1 DEF TaskInv, ConfirmedIsWhatWasRead, QuestionsFitTheDraft, task
  <2>4. CallInv' /\ BooksAgree'
    BY <2>1 DEF HeldFits, QueueFits, Fits, OneAwaited, AllAwaited, BooksAgree, HoldsLease, Live
  <2> QED BY <2>2, <2>3, <2>4
<1> QED BY <1>1, <1>2, <1>3

(* A person's step: the task moves, and nothing of agents does. *)
LEMMA PersonMoves ==
    ASSUME IInv, UNCHANGED <<lease, queue, judged, runner, faults>>, TaskTyped', TaskInv'
    PROVE  IInv'
<1> USE DEF IInv, TypeInv, CallInv, runner
<1>1. LeaseTyped' /\ RunnerTyped' /\ QueueTyped'
  BY DEF LeaseTyped, RunnerTyped, QueueTyped
<1>2. CallInv' /\ BooksAgree'
  BY DEF HeldFits, QueueFits, Fits, OneAwaited, AllAwaited, BooksAgree, HoldsLease, Live
<1> QED BY <1>1, <1>2

LEMMA PersonKeeps ==
    ASSUME IInv, NEW t \in Tasks,
           Look(t) \/ Confirm(t) \/ Answer(t) \/ DraftByHand(t) \/ AskByHand(t)
    PROVE  IInv'
<1> USE DEF IInv, TypeInv, TaskInv, TaskTyped, ConfirmedIsWhatWasRead, QuestionsFitTheDraft
<1>1. ASSUME Look(t) PROVE IInv'
  <2>1. TaskTyped' /\ TaskInv'
    BY <1>1 DEF Look, task
  <2> QED BY <1>1, <2>1, PersonMoves DEF Look, task
<1>2. ASSUME Confirm(t) PROVE IInv'
  <2>1. TaskTyped'
    BY <1>2 DEF Confirm
  <2>2. TaskInv'
    BY <1>2 DEF Confirm, Confirmable
  <2> QED BY <1>2, <2>1, <2>2, PersonMoves DEF Confirm
<1>3. ASSUME Answer(t) PROVE IInv'
  <2>1. TaskTyped'
    BY <1>3 DEF Answer
  <2>2. TaskInv'
    BY <1>3 DEF Answer
  <2> QED BY <1>3, <2>1, <2>2, PersonMoves DEF Answer
<1>4. ASSUME DraftByHand(t) PROVE IInv'
  <2>1. TaskTyped'
    BY <1>4 DEF DraftByHand
  <2>2. TaskInv'
    BY <1>4 DEF DraftByHand
  <2> QED BY <1>4, <2>1, <2>2, PersonMoves DEF DraftByHand
<1>5. ASSUME AskByHand(t) PROVE IInv'
  <2>1. TaskTyped'
    BY <1>5 DEF AskByHand
  <2>2. TaskInv'
    BY <1>5 DEF AskByHand
  <2> QED BY <1>5, <2>1, <2>2, PersonMoves DEF AskByHand
<1> QED BY <1>1, <1>2, <1>3, <1>4, <1>5

LEMMA ExpireKeeps ==
    ASSUME IInv, NEW t \in Tasks, Expire(t) PROVE IInv'
<1> USE DEF IInv, TypeInv, CallInv, runner
<1>1. /\ lease' = [lease EXCEPT ![t].live = FALSE]
      /\ UNCHANGED <<task, queue, judged, runner, seen, faults>>
  BY DEF Expire
<1>2. LeaseTyped'
  BY <1>1 DEF LeaseTyped
<1>3. TaskTyped' /\ RunnerTyped' /\ QueueTyped'
  BY <1>1 DEF TaskTyped, RunnerTyped, QueueTyped, task
<1>4. TaskInv'
  BY <1>1 DEF TaskInv, ConfirmedIsWhatWasRead, QuestionsFitTheDraft, task
<1>5. HeldFits' /\ QueueFits' /\ OneAwaited' /\ AllAwaited'
  BY <1>1 DEF HeldFits, QueueFits, Fits, OneAwaited, AllAwaited
<1>6. \A a \in Agents, u \in Tasks : HoldsLease(a, u)' => HoldsLease(a, u)
  BY <1>1 DEF HoldsLease, Live, LeaseTyped
<1>7. BooksAgree'
  BY <1>1, <1>6 DEF BooksAgree
<1> QED BY <1>2, <1>3, <1>4, <1>5, <1>7

-----------------------------------------------------------------------------
(* What an answer does to the loop that waited for it. *)

LEMMA RefusedFits ==
    ASSUME RunnerTyped, HeldFits, NEW a \in Agents, pc[a] \in Calls, NEW transient \in BOOLEAN,
           Refused(a, pc[a], transient), UNCHANGED stopping
    PROVE  /\ RunnerTyped' /\ HeldFits'
           /\ \A b \in Agents : b # a => pc'[b] = pc[b] /\ held'[b] = held[b]
           /\ held'[a] = held[a] \/ pc[a] = "renew"
<1> DEFINE next == CASE pc[a] = "claim" -> "choosing"
                     [] pc[a] \in {"draft", "ask"} /\ transient -> "top"
                     [] pc[a] \in Work /\ ~transient -> "leaving"
                     [] OTHER -> "top"
<1>1. /\ pc' = [pc EXCEPT ![a] = next] /\ UNCHANGED <<offered, read, stopping>>
      /\ held' = IF pc[a] = "renew" THEN [held EXCEPT ![a] = None] ELSE held
  BY DEF Refused, Goto
<1>2. /\ next \in {"choosing", "top", "leaving"}
      /\ next = "choosing" => pc[a] = "claim"
      /\ next = "leaving" => pc[a] \in {"spec", "draft", "ask"}
  BY DEF Work, Calls
<1> HIDE DEF next
<1>3. RunnerTyped'
  BY <1>1, <1>2 DEF RunnerTyped, Steps
<1>4. pc'[a] = next /\ \A b \in Agents : b # a => pc'[b] = pc[b] /\ held'[b] = held[b]
  BY <1>1 DEF RunnerTyped
<1>5. pc[a] # "renew" => held'[a] = held[a]
  BY <1>1
<1>6. HeldFits'
  <2>1. next = "choosing" => held'[a] = None
    BY <1>2, <1>5 DEF HeldFits, Free
  <2>2. next = "leaving" => held'[a] # None
    BY <1>2, <1>5 DEF HeldFits, Holding, AboutHeld
  <2>3. /\ pc'[a] \in Holding => next = "leaving"
        /\ pc'[a] \in Free => next = "choosing"
    BY <1>2, <1>4 DEF Holding, AboutHeld, Free
  <2> QED BY <1>4, <2>1, <2>2, <2>3 DEF HeldFits
<1> QED BY <1>3, <1>4, <1>5, <1>6

LEMMA AcceptedFits ==
    ASSUME TaskTyped, RunnerTyped, HeldFits, NEW a \in Agents, pc[a] \in Calls,
           NEW t \in Tasks \cup {None}, pc[a] # "available" => t \in Tasks,
           Accepted(a, pc[a], t), UNCHANGED stopping
    PROVE  /\ RunnerTyped' /\ HeldFits'
           /\ \A b \in Agents : b # a => pc'[b] = pc[b] /\ held'[b] = held[b]
           /\ held'[a] = IF pc[a] = "claim" THEN t ELSE held[a]
<1> DEFINE next == CASE pc[a] = "available" -> "choosing"
                     [] pc[a] = "spec" -> "thinking"
                     [] pc[a] = "ask" -> "leaving"
                     [] OTHER -> "top"
<1>1. /\ pc' = [pc EXCEPT ![a] = next] /\ UNCHANGED stopping
      /\ held' = IF pc[a] = "claim" THEN [held EXCEPT ![a] = t] ELSE held
  BY DEF Accepted, Goto, Calls
<1>2. Listing \subseteq [task : Tasks, rev : Nat]
  BY DEF Listing, TaskTyped
<1>3. offered' \in [Agents -> SUBSET [task : Tasks, rev : Nat]]
  BY <1>2 DEF Accepted, RunnerTyped, Calls
<1>4. read' \in [Agents -> [rev : Nat, spec : Nat]]
  BY DEF Accepted, RunnerTyped, TaskTyped, Calls
<1>5. /\ next \in {"choosing", "thinking", "leaving", "top"}
      /\ next = "choosing" => pc[a] = "available"
      /\ next \in {"thinking", "leaving"} => pc[a] \in {"spec", "ask"}
  BY DEF Calls
<1> HIDE DEF next
<1>6. RunnerTyped'
  BY <1>1, <1>3, <1>4, <1>5 DEF RunnerTyped, Steps
<1>7. /\ pc'[a] = next /\ \A b \in Agents : b # a => pc'[b] = pc[b] /\ held'[b] = held[b]
      /\ held'[a] = IF pc[a] = "claim" THEN t ELSE held[a]
  BY <1>1 DEF RunnerTyped
<1>8. HeldFits'
  <2>1. next = "choosing" => held'[a] = None
    BY <1>5, <1>7 DEF HeldFits, Free
  <2>2. next \in {"thinking", "leaving"} => held'[a] # None
    BY <1>5, <1>7 DEF HeldFits, Holding, AboutHeld
  <2>3. /\ pc'[a] \in Holding => next \in {"thinking", "leaving"}
        /\ pc'[a] \in Free => next = "choosing"
    BY <1>5, <1>7 DEF Holding, AboutHeld, Free
  <2> QED BY <1>7, <2>1, <2>2, <2>3 DEF HeldFits
<1> QED BY <1>6, <1>7, <1>8

-----------------------------------------------------------------------------
(* The service. *)

LEMMA AcceptMoves ==
    ASSUME IInv, queue # <<>>, NEW m, m = Head(queue), Accept(m)
    PROVE  /\ RunnerTyped' /\ QueueTyped' /\ CallInv' /\ faults' = faults /\ seen' = seen
           /\ \A b \in Agents :
                 held'[b] = IF b = m.from /\ m.awaited /\ m.call = "claim" THEN m.task ELSE held[b]
           /\ m.awaited /\ m.call = "claim" => held[m.from] = None
<1> USE DEF IInv, TypeInv, CallInv
<1>1. /\ queue' = Tail(queue) /\ judged' = FALSE /\ faults' = faults
      /\ UNCHANGED <<stopping, seen>>
  BY DEF Accept, Handled
<1>2. m \in Requests /\ Fits(m)
  BY HeadAlone
<1>3. m.from \in Agents /\ m.task \in Tasks \cup {None} /\ m.call \in Calls /\ m.awaited \in BOOLEAN
  BY <1>2 DEF Requests
<1>4. m.awaited => pc[m.from] = m.call /\ (m.call # "available" => m.task \in Tasks)
  BY <1>2 DEF Fits, Agrees
<1>5. CASE m.awaited
  <2>1. Accepted(m.from, pc[m.from], m.task)
    BY <1>4, <1>5 DEF Accept
  <2>2. /\ RunnerTyped' /\ HeldFits'
        /\ \A b \in Agents : b # m.from => pc'[b] = pc[b] /\ held'[b] = held[b]
        /\ held'[m.from] = IF pc[m.from] = "claim" THEN m.task ELSE held[m.from]
    BY <1>1, <1>3, <1>4, <1>5, <2>1, AcceptedFits
  <2>3. OnlySender(m)
    BY <1>5, <2>2 DEF OnlySender
  <2>4. QueueTyped' /\ QueueFits' /\ OneAwaited' /\ AllAwaited'
    BY <1>1, <2>3, HandleFits DEF QueueTyped
  <2>5. m.call = "claim" => held[m.from] = None
    BY <1>3, <1>4, <1>5 DEF HeldFits, Free
  <2> QED BY <1>1, <1>4, <1>5, <2>2, <2>4, <2>5
<1>6. CASE ~m.awaited
  <2>1. UNCHANGED <<pc, held, offered, read, stopping>>
    BY <1>1, <1>6 DEF Accept
  <2>2. RunnerTyped' /\ HeldFits' /\ OnlySender(m)
    BY <2>1 DEF RunnerTyped, HeldFits, OnlySender
  <2>3. QueueTyped' /\ QueueFits' /\ OneAwaited' /\ AllAwaited'
    BY <1>1, <2>2, HandleFits DEF QueueTyped
  <2> QED BY <1>1, <1>6, <2>1, <2>2, <2>3
<1> QED BY <1>3, <1>5, <1>6

LEMMA RefuseMoves ==
    ASSUME IInv, queue # <<>>, NEW m, m = Head(queue), NEW transient \in BOOLEAN,
           Refuse(m, transient), faults' \in 0..MaxFaults, faults' = 0 => faults = 0
    PROVE  /\ RunnerTyped' /\ QueueTyped' /\ CallInv' /\ UNCHANGED <<task, lease, seen>>
           /\ \A b \in Agents : b # m.from \/ m.call # "renew" \/ ~m.awaited => held'[b] = held[b]
           /\ m.awaited /\ m.call = "renew" => held[m.from] = m.task
<1> USE DEF IInv, TypeInv, CallInv
<1>1. /\ queue' = Tail(queue) /\ judged' = FALSE
      /\ UNCHANGED <<task, lease, stopping, seen>>
  BY DEF Refuse, Handled
<1>2. m \in Requests /\ Fits(m)
  BY HeadAlone
<1>3. m.from \in Agents /\ m.call \in Calls /\ m.awaited \in BOOLEAN
  BY <1>2 DEF Requests
<1>4. m.awaited => pc[m.from] = m.call /\ (m.call \in AboutHeld => m.task = held[m.from])
  BY <1>2 DEF Fits, Agrees
<1>5. CASE m.awaited
  <2>1. Refused(m.from, pc[m.from], transient)
    BY <1>4, <1>5 DEF Refuse
  <2>2. /\ RunnerTyped' /\ HeldFits'
        /\ \A b \in Agents : b # m.from => pc'[b] = pc[b] /\ held'[b] = held[b]
        /\ held'[m.from] = held[m.from] \/ pc[m.from] = "renew"
    BY <1>1, <1>3, <1>4, <1>5, <2>1, RefusedFits
  <2>3. OnlySender(m)
    BY <1>5, <2>2 DEF OnlySender
  <2>4. QueueTyped' /\ QueueFits' /\ OneAwaited' /\ AllAwaited'
    BY <1>1, <2>3, HandleFits
  <2> QED BY <1>1, <1>4, <1>5, <2>2, <2>4 DEF AboutHeld
<1>6. CASE ~m.awaited
  <2>1. UNCHANGED <<pc, held, offered, read, stopping>>
    BY <1>1, <1>6 DEF Refuse
  <2>2. RunnerTyped' /\ HeldFits' /\ OnlySender(m)
    BY <2>1 DEF RunnerTyped, HeldFits, OnlySender
  <2>3. QueueTyped' /\ QueueFits' /\ OneAwaited' /\ AllAwaited'
    BY <1>1, <2>2, HandleFits
  <2> QED BY <1>1, <1>6, <2>1, <2>2, <2>3
<1> QED BY <1>3, <1>5, <1>6

(* While nothing went wrong the request being handled is awaited. *)
LEMMA HeadIsAwaited ==
    ASSUME IInv, queue # <<>>, faults = 0
    PROVE  Head(queue).awaited
<1>1. 1 \in 1..Len(queue) /\ Head(queue) = queue[1]
  BY HeadAlone DEF IInv, TypeInv, CallInv
<1> QED BY <1>1 DEF IInv, CallInv, AllAwaited

(* An accepted call that leaves the registry alone. *)
LEMMA AcceptKeeps ==
    ASSUME IInv, queue # <<>>, Accept(Head(queue)), UNCHANGED lease,
           Head(queue).call \notin {"claim", "release"}, TaskTyped', TaskInv'
    PROVE  IInv'
<1> USE DEF IInv, TypeInv
<1>1. PICK m \in Requests : m = Head(queue)
  BY HeadAlone DEF CallInv
<1>2. /\ RunnerTyped' /\ QueueTyped' /\ CallInv' /\ faults' = faults
      /\ \A b \in Agents : held'[b] = held[b]
  BY <1>1, AcceptMoves
<1>3. LeaseTyped'
  BY DEF LeaseTyped
<1>4. queue' = Tail(queue)
  BY DEF Accept, Handled
<1>5. BooksAgree'
  <2>1. \A a \in Agents, t \in Tasks : HoldsLease(a, t)' = HoldsLease(a, t)
    BY DEF HoldsLease, Live
  <2> QED BY <1>1, <1>2, <1>4, <2>1, HandleKeepsBooks DEF CallInv
<1> QED BY <1>2, <1>3, <1>5

LEMMA TaskUnchanged ==
    ASSUME TaskTyped, TaskInv, UNCHANGED <<task, seen>>
    PROVE  TaskTyped' /\ TaskInv'
BY DEF TaskTyped, TaskInv, ConfirmedIsWhatWasRead, QuestionsFitTheDraft, task

LEMMA ServeKeeps == ASSUME IInv, Serve PROVE IInv'
<1> USE DEF IInv, TypeInv
<1>1. PICK m \in Requests :
          /\ queue # <<>> /\ m = Head(queue)
          /\ \/ List(m) \/ GrantLease(m) \/ RenewLease(m) \/ ReleaseLease(m)
             \/ Judge(m) \/ Show(m) \/ Draft(m) \/ Ask(m) \/ SayNo(m)
  BY HeadAlone DEF Serve, CallInv
<1>2. /\ m.from \in Agents /\ m.call \in Calls
      /\ m.call # "available" => m.task \in Tasks
  BY <1>1, HeadAlone DEF Requests, CallInv, Fits, Agrees
<1>3. ASSUME List(m) \/ RenewLease(m) \/ Show(m) PROVE IInv'
  <2>1. Accept(m) /\ UNCHANGED <<task, lease>> /\ m.call \in {"available", "renew", "spec"}
    BY <1>3 DEF List, RenewLease, Show
  <2>2. UNCHANGED seen
    BY <2>1 DEF Accept, Handled
  <2>3. TaskTyped' /\ TaskInv'
    BY <2>1, <2>2, TaskUnchanged
  <2> QED BY <1>1, <2>1, <2>3, AcceptKeeps
<1>4. ASSUME Draft(m) PROVE IInv'
  <2>1. /\ m.call = "draft" /\ m.task \in Tasks /\ state[m.task] = "DRAFT_SPEC"
        /\ rev' = [rev EXCEPT ![m.task] = @ + 1]
        /\ spec' = [spec EXCEPT ![m.task] = rev[m.task] + 1]
        /\ Accept(m) /\ UNCHANGED <<state, asked, confirmed, lease, seen>>
    BY <1>2, <1>4 DEF Draft, Draftable, Accept, Handled
  <2>2. TaskTyped'
    BY <2>1 DEF TaskTyped
  <2>3. TaskInv'
    BY <2>1 DEF TaskInv, TaskTyped, ConfirmedIsWhatWasRead, QuestionsFitTheDraft
  <2> QED BY <1>1, <2>1, <2>2, <2>3, AcceptKeeps
<1>5. ASSUME Ask(m) PROVE IInv'
  <2>1. /\ m.call = "ask" /\ m.task \in Tasks /\ state[m.task] = "DRAFT_SPEC" /\ spec[m.task] # 0
        /\ state' = [state EXCEPT ![m.task] = "AWAITING_CLARIFICATION"]
        /\ rev' = [rev EXCEPT ![m.task] = @ + 1]
        /\ asked' = [asked EXCEPT ![m.task] = spec[m.task]]
        /\ Accept(m) /\ UNCHANGED <<spec, confirmed, lease, seen>>
    BY <1>2, <1>5 DEF Ask, Draftable, Accept, Handled
  <2>2. TaskTyped'
    BY <2>1 DEF TaskTyped
  <2>3. TaskInv'
    BY <2>1 DEF TaskInv, TaskTyped, ConfirmedIsWhatWasRead, QuestionsFitTheDraft
  <2> QED BY <1>1, <2>1, <2>2, <2>3, AcceptKeeps
<1>6. ASSUME GrantLease(m) PROVE IInv'
  <2>1. /\ m.call = "claim" /\ m.task \in Tasks /\ Accept(m) /\ UNCHANGED <<task, seen>>
        /\ lease' = [lease EXCEPT ![m.task] = [agent |-> m.from, live |-> TRUE]]
    BY <1>2, <1>6 DEF GrantLease, Accept, Handled
  <2>2. /\ RunnerTyped' /\ QueueTyped' /\ CallInv' /\ faults' = faults
        /\ \A b \in Agents : held'[b] = IF b = m.from /\ m.awaited THEN m.task ELSE held[b]
        /\ m.awaited => held[m.from] = None
    BY <1>1, <2>1, AcceptMoves
  <2>3. LeaseTyped'
    BY <1>2, <2>1 DEF LeaseTyped
  <2>4. TaskTyped' /\ TaskInv'
    BY <2>1, TaskUnchanged
  <2>5. ASSUME NEW a \in Agents, NEW t \in Tasks, faults' = 0, HoldsLease(a, t)'
        PROVE  \/ held'[a] = t
               \/ HoldsLease(a, t) /\ (held[a] = t => held'[a] = t)
    <3>1. m.awaited
      BY <1>1, <2>2, <2>5, HeadIsAwaited
    <3>2. CASE t = m.task
      <4>1. a = m.from
        BY <2>1, <2>5, <3>2 DEF HoldsLease, LeaseTyped
      <4> QED BY <2>2, <3>1, <3>2, <4>1
    <3>3. CASE t # m.task
      <4>1. HoldsLease(a, t)
        BY <2>1, <2>5, <3>3 DEF HoldsLease, Live, LeaseTyped
      <4>2. t # None
        BY AgentWorkAssumption
      <4> QED BY <2>2, <4>1, <4>2
    <3> QED BY <3>2, <3>3
  <2>6. BooksAgree'
    <3>1. queue' = Tail(queue)
      BY <1>1, <2>1 DEF Accept, Handled
    <3> QED BY <1>1, <2>1, <2>2, <2>5, <3>1, HandleKeepsBooks DEF CallInv
  <2> QED BY <2>2, <2>3, <2>4, <2>6
<1>7. ASSUME ReleaseLease(m) PROVE IInv'
  <2>1. /\ m.call = "release" /\ m.task \in Tasks /\ Accept(m) /\ UNCHANGED <<task, seen>>
        /\ lease' = [lease EXCEPT ![m.task] = NoLease]
    BY <1>2, <1>7 DEF ReleaseLease, Accept, Handled
  <2>2. /\ RunnerTyped' /\ QueueTyped' /\ CallInv' /\ faults' = faults
        /\ \A b \in Agents : held'[b] = held[b]
    BY <1>1, <2>1, AcceptMoves
  <2>3. LeaseTyped'
    BY <2>1 DEF LeaseTyped, NoLease
  <2>4. TaskTyped' /\ TaskInv'
    BY <2>1, TaskUnchanged
  <2>5. \A a \in Agents, t \in Tasks : HoldsLease(a, t)' => HoldsLease(a, t) /\ t # m.task
    BY <2>1 DEF HoldsLease, Live, LeaseTyped, NoLease
  <2>6. BooksAgree'
    <3>1. queue' = Tail(queue)
      BY <1>1, <2>1 DEF Accept, Handled
    <3> QED BY <1>1, <2>2, <2>5, <3>1, HandleKeepsBooks DEF CallInv
  <2> QED BY <2>2, <2>3, <2>4, <2>6
<1>8. ASSUME Judge(m) PROVE IInv'
  <2>1. judged' = TRUE /\ UNCHANGED <<task, lease, queue, runner, seen, faults>>
    BY <1>8 DEF Judge
  <2>2. TaskTyped' /\ TaskInv'
    BY <2>1, TaskUnchanged
  <2>3. LeaseTyped' /\ RunnerTyped' /\ QueueTyped'
    BY <2>1 DEF LeaseTyped, RunnerTyped, QueueTyped, runner
  <2>4. CallInv' /\ BooksAgree'
    BY <2>1 DEF CallInv, HeldFits, QueueFits, Fits, OneAwaited, AllAwaited, BooksAgree,
       HoldsLease, Live, runner
  <2> QED BY <2>2, <2>3, <2>4
<1>9. ASSUME SayNo(m) PROVE IInv'
  <2>1. Unacceptable(m) /\ Refuse(m, FALSE) /\ faults' = faults
    BY <1>9 DEF SayNo
  <2>2. /\ RunnerTyped' /\ QueueTyped' /\ CallInv' /\ UNCHANGED <<task, lease, seen>>
        /\ \A b \in Agents : b # m.from \/ m.call # "renew" \/ ~m.awaited => held'[b] = held[b]
        /\ m.awaited /\ m.call = "renew" => held[m.from] = m.task
    BY <1>1, <2>1, RefuseMoves DEF QueueTyped
  <2>3. TaskTyped' /\ TaskInv' /\ LeaseTyped'
    BY <2>2, TaskUnchanged DEF LeaseTyped
  <2>4. m.call \in {"renew", "release"} => ~HoldsLease(m.from, m.task)
    BY <2>1 DEF Unacceptable, MayBeIllFormed, Work, HoldsLease
  <2>5. ASSUME NEW a \in Agents, NEW t \in Tasks, HoldsLease(a, t)'
        PROVE  /\ HoldsLease(a, t)
               /\ held[a] = t => held'[a] = t
               /\ ~(m.call = "release" /\ m.from = a /\ m.task = t)
    <3>1. HoldsLease(a, t)
      BY <2>2, <2>5 DEF HoldsLease, Live
    <3> QED BY <2>2, <2>4, <3>1
  <2>6. BooksAgree'
    <3>1. queue' = Tail(queue)
      BY <1>1, <2>1 DEF Refuse, Handled
    <3> QED BY <1>1, <2>1, <2>2, <2>5, <3>1, HandleKeepsBooks DEF CallInv
  <2> QED BY <2>2, <2>3, <2>6
<1> QED BY <1>1, <1>3, <1>4, <1>5, <1>6, <1>7, <1>8, <1>9

-----------------------------------------------------------------------------
(* Faults. *)

LEMMA FaultCounts ==
    ASSUME QueueTyped, Fault
    PROVE  faults' \in 0..MaxFaults /\ faults' # 0
BY AgentWorkAssumption DEF QueueTyped, Fault

LEMMA BusyKeeps == ASSUME IInv, Busy PROVE IInv'
<1> USE DEF IInv, TypeInv
<1>1. queue # <<>> /\ Fault /\ Refuse(Head(queue), TRUE)
  BY DEF Busy, SayNotNow
<1>2. faults' \in 0..MaxFaults /\ faults' # 0
  BY <1>1, FaultCounts
<1>3. RunnerTyped' /\ QueueTyped' /\ CallInv' /\ UNCHANGED <<task, lease, seen>>
  BY <1>1, <1>2, RefuseMoves
<1>4. TaskTyped' /\ TaskInv' /\ LeaseTyped'
  BY <1>3, TaskUnchanged DEF LeaseTyped
<1> QED BY <1>2, <1>3, <1>4 DEF BooksAgree

LEMMA LoseKeeps == ASSUME IInv, Lose PROVE IInv'
<1> USE DEF IInv, TypeInv
<1>1. /\ queue # <<>> /\ ~Head(queue).awaited /\ queue' = Tail(queue) /\ judged' = FALSE
      /\ UNCHANGED <<task, lease, runner, seen, faults>>
  BY DEF Lose
<1>2. faults' \in 0..MaxFaults /\ faults' # 0
  <2>1. 1 \in 1..Len(queue) /\ Head(queue) = queue[1]
    BY <1>1 DEF QueueTyped
  <2> QED BY <1>1, <2>1 DEF CallInv, AllAwaited, QueueTyped
<1>3. RunnerTyped' /\ HeldFits' /\ OnlySender(Head(queue))
  BY <1>1 DEF RunnerTyped, CallInv, HeldFits, OnlySender, runner
<1>4. QueueTyped' /\ CallInv'
  BY <1>1, <1>2, <1>3, HandleFits DEF CallInv
<1>5. TaskTyped' /\ TaskInv' /\ LeaseTyped'
  BY <1>1, TaskUnchanged DEF LeaseTyped
<1> QED BY <1>2, <1>3, <1>4, <1>5 DEF BooksAgree

LEMMA ForgetKeeps ==
    ASSUME IInv, NEW a \in Agents, GiveUp(a) \/ Kill(a)
    PROVE  IInv'
<1> USE DEF IInv, TypeInv
<1>1. /\ Fault /\ judged' = judged /\ UNCHANGED <<task, lease, seen>>
      /\ queue' = [i \in DOMAIN queue |->
                     IF queue[i].from = a THEN [queue[i] EXCEPT !.awaited = FALSE] ELSE queue[i]]
  BY DEF GiveUp, Kill
<1>2. /\ RunnerTyped' /\ HeldFits'
      /\ \A b \in Agents : b # a => pc'[b] = pc[b] /\ held'[b] = held[b]
  <2>1. CASE GiveUp(a)
    <3>1. pc[a] \in Calls /\ Refused(a, pc[a], FALSE) /\ UNCHANGED stopping
      BY <2>1 DEF GiveUp, Waiting
    <3> QED BY <3>1, RefusedFits DEF CallInv
  <2>2. CASE Kill(a)
    <3>1. /\ pc' = [pc EXCEPT ![a] = "off"] /\ held' = [held EXCEPT ![a] = None]
          /\ offered' = [offered EXCEPT ![a] = {}] /\ read' = [read EXCEPT ![a] = Unread]
          /\ UNCHANGED stopping
      BY <2>2 DEF Kill, Goto
    <3>2. RunnerTyped'
      BY <3>1 DEF RunnerTyped, Steps, Unread
    <3>3. HeldFits'
      BY <3>1 DEF CallInv, RunnerTyped, HeldFits, Holding, AboutHeld, Free
    <3> QED BY <3>1, <3>2, <3>3 DEF RunnerTyped
  <2> QED BY <2>1, <2>2
<1>3. QueueTyped' /\ CallInv'
  BY <1>1, <1>2, ForgetFits DEF CallInv
<1>4. TaskTyped' /\ TaskInv' /\ LeaseTyped'
  BY <1>1, TaskUnchanged DEF LeaseTyped
<1>5. faults' # 0
  BY <1>1, FaultCounts
<1> QED BY <1>2, <1>3, <1>4, <1>5 DEF BooksAgree

LEMMA NextKeeps == IInv /\ [Next]_vars => IInv'
<1> SUFFICES ASSUME IInv, [Next]_vars PROVE IInv'
  OBVIOUS
<1>1. CASE UNCHANGED vars
  BY <1>1 DEF vars, IInv, TypeInv, TaskInv, CallInv, TaskTyped, LeaseTyped, RunnerTyped,
     QueueTyped, ConfirmedIsWhatWasRead, QuestionsFitTheDraft, HeldFits, QueueFits, Fits,
     OneAwaited, AllAwaited, BooksAgree, HoldsLease, Live
<1>2. CASE Serve \/ Busy \/ Lose
  BY <1>2, ServeKeeps, BusyKeeps, LoseKeeps
<1>3. CASE \E a \in Agents : Loop(a) \/ GiveUp(a) \/ Start(a) \/ Boot(a) \/ Stop(a) \/ Kill(a)
  BY <1>3, LoopKeeps, ContainerKeeps, ForgetKeeps
<1>4. CASE \E t \in Tasks :
               \/ Expire(t) \/ Look(t) \/ Confirm(t) \/ Answer(t)
               \/ DraftByHand(t) \/ AskByHand(t)
  BY <1>4, ExpireKeeps, PersonKeeps
<1> QED BY <1>1, <1>2, <1>3, <1>4 DEF Next

-----------------------------------------------------------------------------
(* What follows. *)

(* The invariant holds throughout: loop, queue and service agree on which  *)
(* request a container waits for, whatever was lost or came late.          *)
THEOREM InductiveInvariant == Spec => []IInv
<1>1. Init => IInv
  BY InitIsInvariant
<1>2. IInv /\ [Next]_vars => IInv'
  BY NextKeeps
<1> QED BY <1>1, <1>2, PTL DEF Spec

(* Every variable keeps its type. *)
THEOREM TypeCorrect == Spec => []TypeOK
<1>1. IInv => TypeOK
  BY DEF IInv, TypeInv, TaskTyped, LeaseTyped, RunnerTyped, QueueTyped, Steps, TypeOK
<1> QED BY <1>1, InductiveInvariant, PTL

(* A specification past confirmation is the one whose digest the person    *)
(* gave (task_drafts.confirm_specification), for any tasks and agents, and *)
(* any number of requests that arrive after their senders gave up.         *)
THEOREM ConfirmedWasRead == Spec => []ConfirmedIsWhatWasRead
<1>1. IInv => ConfirmedIsWhatWasRead
  BY DEF IInv, TaskInv
<1> QED BY <1>1, InductiveInvariant, PTL

(* Questions a person has to answer are about the current draft            *)
(* (task_drafts.ask), whatever agents and people did meanwhile.            *)
THEOREM QuestionsFit == Spec => []QuestionsFitTheDraft
<1>1. IInv => QuestionsFitTheDraft
  BY DEF IInv, TaskInv
<1> QED BY <1>1, InductiveInvariant, PTL

(* While every call got its answer and nothing was killed, a live lease is *)
(* on a task its container holds or is giving back: no path through        *)
(* agent_runner's loop forgets one.                                        *)
THEOREM BooksKept == Spec => []BooksAgree
<1>1. IInv => BooksAgree
  BY DEF IInv
<1> QED BY <1>1, InductiveInvariant, PTL

=============================================================================
