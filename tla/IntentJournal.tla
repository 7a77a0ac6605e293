---------------------------- MODULE IntentJournal ----------------------------
(***************************************************************************)
(* The journals that hold what may be sent out of the host: one operation  *)
(* a task, one attempt an operation.  A full journal is retired into a     *)
(* successor, an old one is upgraded so that what was prepared can be      *)
(* withdrawn.  Both families share this (orch/github_journal.py,           *)
(* orch/jira_journal.py, orch/journal_succession.py,                       *)
(* orch/journal_revision.py).                                              *)
(*                                                                         *)
(* A journal is an SQLite file: a write transaction holds its lock to the  *)
(* end, a reader sees what is committed.  The journals of a chain are      *)
(* different files, each read and written by itself, so that staging,      *)
(* retiring and upgrading are several steps of a process that may die.     *)
(*                                                                         *)
(* Left out: scopes (an operator quotes the digest that is retained, or    *)
(* the call changes nothing), what reading observes and reconciliation     *)
(* reports, and bundles: an operator has one that matches the journal, or  *)
(* retiring and upgrading are refused.                                     *)
(***************************************************************************)
EXTENDS Naturals, FiniteSets

CONSTANTS
    Journals,   \* paths
    Root,       \* the journal that is there from the start
    Operations,
    Tasks,
    TaskOf,     \* operation -> the task it serves
    Processes,
    MaxRecords, \* MAX_RECORDS
    ChainLimit, \* CHAIN_LIMIT
    Strays,     \* whether operators stage into files no retirement linked
    None

ASSUME JournalAssumption ==
    /\ Root \in Journals
    /\ TaskOf \in [Operations -> Tasks]
    /\ MaxRecords \in Nat /\ ChainLimit \in Nat
    /\ Strays \in BOOLEAN
    /\ None \notin Journals \cup Operations \cup Processes

VARIABLES
    exists,     \* journal -> whether the file is there
    version,    \* journal -> its schema: 1, 2 with succession, 3 with revision
    records,    \* journal -> operation -> its state, or "none"
    follows,    \* journal -> its predecessor
    successor,  \* journal -> the journal it was retired into
    lock,       \* journal -> the process writing it
    pc,         \* process -> what it does
    on,         \* process -> the journal it works on
    arg,        \* process -> the operation it stages, the successor it creates
    unread,     \* process -> predecessors it has not looked into yet
    seen        \* process -> the records it compared with a bundle, or audited

journal == <<exists, version, records, follows, successor>>
process == <<pc, on, arg, unread, seen>>
vars == <<journal, lock, process>>

Empty == [o \in Operations |-> "none"]
Live == {"prepared", "uncertain"}

Init ==
    /\ exists = [j \in Journals |-> j = Root]
    /\ version = [j \in Journals |-> 1]
    /\ records = [j \in Journals |-> Empty]
    /\ follows = [j \in Journals |-> None]
    /\ successor = [j \in Journals |-> None]
    /\ lock = [j \in Journals |-> None]
    /\ pc = [p \in Processes |-> "idle"]
    /\ on = [p \in Processes |-> None]
    /\ arg = [p \in Processes |-> None]
    /\ unread = [p \in Processes |-> {}]
    /\ seen = [p \in Processes |-> Empty]

(* A journal in use: the first one, or one a retirement linked to its      *)
(* predecessor.  Only such a journal is retired.                           *)
InUse(j) == exists[j] /\ (j = Root \/ follows[j] # None)
Named(j) == IF Strays THEN exists[j] ELSE InUse(j)

Unlocked(j) == lock[j] = None
Begin(p, j) == Unlocked(j) /\ lock' = [lock EXCEPT ![j] = p]

Start(p, j, x, where, others) ==
    /\ pc[p] = "idle"
    /\ pc' = [pc EXCEPT ![p] = where]
    /\ on' = [on EXCEPT ![p] = j]
    /\ arg' = [arg EXCEPT ![p] = x]
    /\ unread' = [unread EXCEPT ![p] = others]

Goto(p, where) == pc' = [pc EXCEPT ![p] = where] /\ UNCHANGED <<on, arg, unread, seen>>

Stop(p) ==
    /\ pc' = [pc EXCEPT ![p] = "idle"]
    /\ on' = [on EXCEPT ![p] = None]
    /\ arg' = [arg EXCEPT ![p] = None]
    /\ unread' = [unread EXCEPT ![p] = {}]
    /\ seen' = [seen EXCEPT ![p] = Empty]
    /\ lock' = [j \in Journals |-> IF lock[j] = p THEN None ELSE lock[j]]

-----------------------------------------------------------------------------
(* Staging. *)

(* LIVE_CLAUSE: an operation is never used twice, a task only by an        *)
(* operation that was not withdrawn.                                       *)
Holding(j, o) == {x \in Operations : \/ x = o /\ records[j][x] # "none"
                                     \/ TaskOf[x] = TaskOf[o] /\ records[j][x] \in Live}

(* Everything a journal follows, however far back: the least set closed    *)
(* under follows.                                                          *)
ClosedUnder(S) == \A i \in S : follows[i] \in S \cup {None}
Older(j) == {k \in Journals :
    \A S \in SUBSET Journals : follows[j] \in S \cup {None} /\ ClosedUnder(S) => k \in S}

(* Every predecessor names the journal that follows it. *)
Linked(j) ==
    /\ \A k \in {j} \cup Older(j) : follows[k] # None => successor[follows[k]] = k
    /\ Cardinality(Older(j)) <= ChainLimit

(* Mutant: a retired journal admits. *)
AdmitsRetired(j, o) == Named(j) /\ Holding(j, o) = {} /\ Linked(j)
Admits(j, o) ==
    /\ Named(j)
    /\ Holding(j, o) = {}
    /\ successor[j] = None
    /\ Linked(j)

BeginStage(p, j, o) ==
    /\ Admits(j, o)
    /\ Begin(p, j)
    /\ Start(p, j, o, "staging", Older(j))
    /\ UNCHANGED <<journal, seen>>

LookInto(p, k) ==
    /\ pc[p] = "staging" /\ k \in unread[p]
    /\ \/ /\ Holding(k, arg[p]) = {}
          /\ unread' = [unread EXCEPT ![p] = @ \ {k}]
          /\ UNCHANGED <<lock, pc, on, arg, seen>>
       \/ Holding(k, arg[p]) # {} /\ Stop(p)
    /\ UNCHANGED journal

Retained(j) == {o \in Operations : records[j][o] # "none"}

EndStage(p) ==
    /\ pc[p] = "staging" /\ unread[p] = {}
    /\ IF Cardinality(Retained(on[p])) < MaxRecords
       THEN records' = [records EXCEPT ![on[p]][arg[p]] = "prepared"]
       ELSE UNCHANGED records
    /\ Stop(p)
    /\ UNCHANGED <<exists, version, follows, successor>>

-----------------------------------------------------------------------------
(* One attempt, or none. *)

Reserve(j, o) ==
    /\ exists[j] /\ Unlocked(j)
    /\ records[j][o] = "prepared"
    /\ records' = [records EXCEPT ![j][o] = "uncertain"]
    /\ UNCHANGED <<exists, version, follows, successor, lock, process>>

Withdraw(j, o) ==
    /\ exists[j] /\ Unlocked(j) /\ version[j] = 3
    /\ records[j][o] = "prepared"
    /\ records' = [records EXCEPT ![j][o] = "withdrawn"]
    /\ UNCHANGED <<exists, version, follows, successor, lock, process>>

-----------------------------------------------------------------------------
(* Retiring. *)

Installed(j) == version' = [version EXCEPT ![j] = IF @ = 1 THEN 2 ELSE @]

(* The journal is compared with a bundle, in no transaction of its own.    *)
Compare(p, j, h) ==
    /\ InUse(j) /\ successor[j] = None
    /\ ~exists[h]
    /\ Start(p, j, h, "retiring", {})
    /\ seen' = [seen EXCEPT ![p] = records[j]]
    /\ UNCHANGED <<journal, lock>>

CreateHeir(p) ==
    /\ pc[p] = "retiring"
    /\ Unlocked(arg[p])
    /\ exists' = [exists EXCEPT ![arg[p]] = TRUE]
    /\ Goto(p, "linking")
    /\ UNCHANGED <<version, records, follows, successor, lock>>

(* Mutant: an heir that follows another journal is taken. *)
LinkAgain(p) ==
    /\ pc[p] = "linking"
    /\ Unlocked(arg[p])
    /\ \/ /\ Retained(arg[p]) = {}
          /\ follows' = [follows EXCEPT ![arg[p]] = on[p]]
          /\ Installed(arg[p])
          /\ Goto(p, "closing")
          /\ UNCHANGED lock
       \/ /\ Retained(arg[p]) # {}
          /\ Stop(p)
          /\ UNCHANGED <<version, follows>>
    /\ UNCHANGED <<exists, records, successor>>

LinkHeir(p) ==
    /\ pc[p] = "linking"
    /\ Unlocked(arg[p])
    /\ \/ /\ Retained(arg[p]) = {} /\ follows[arg[p]] = None
          /\ follows' = [follows EXCEPT ![arg[p]] = on[p]]
          /\ Installed(arg[p])
          /\ Goto(p, "closing")
          /\ UNCHANGED lock
       \/ /\ Retained(arg[p]) # {} \/ follows[arg[p]] # None
          /\ Stop(p)
          /\ UNCHANGED <<version, follows>>
    /\ UNCHANGED <<exists, records, successor>>

CloseOld(p) ==
    /\ pc[p] = "closing"
    /\ Unlocked(on[p])
    /\ \/ /\ successor[on[p]] = None
          /\ successor' = [successor EXCEPT ![on[p]] = arg[p]]
          /\ Installed(on[p])
       \/ /\ successor[on[p]] # None
          /\ UNCHANGED <<version, successor>>
    /\ Stop(p)
    /\ UNCHANGED <<exists, records, follows>>

-----------------------------------------------------------------------------
(* Upgrading. *)

AuditBefore(p, j) ==
    /\ Named(j) /\ version[j] # 3
    /\ Start(p, j, None, "upgrading", {})
    /\ seen' = [seen EXCEPT ![p] = records[j]]
    /\ UNCHANGED <<journal, lock>>

Rebuild(p) ==
    /\ pc[p] = "upgrading"
    /\ Unlocked(on[p])
    /\ \/ /\ version[on[p]] # 3
          /\ version' = [version EXCEPT ![on[p]] = 3]
          /\ Goto(p, "upgraded")
          /\ UNCHANGED lock
       \/ /\ version[on[p]] = 3
          /\ Stop(p)
          /\ UNCHANGED version
    /\ UNCHANGED <<exists, records, follows, successor>>

AuditAfter(p) ==
    /\ pc[p] = "upgraded"
    /\ IF records[on[p]] = seen[p]
       THEN Stop(p)
       ELSE Goto(p, "alarmed") /\ UNCHANGED lock
    /\ UNCHANGED journal

(* A process that dies, or has reported what it did, holds nothing. *)
Die(p) ==
    /\ pc[p] # "idle"
    /\ Stop(p)
    /\ UNCHANGED journal

-----------------------------------------------------------------------------

Next ==
    \/ \E p \in Processes, j \in Journals :
          \/ \E o \in Operations : BeginStage(p, j, o)
          \/ \E h \in Journals : Compare(p, j, h)
          \/ LookInto(p, j)
          \/ AuditBefore(p, j)
    \/ \E p \in Processes :
          \/ EndStage(p) \/ CreateHeir(p) \/ LinkHeir(p) \/ CloseOld(p)
          \/ Rebuild(p) \/ AuditAfter(p) \/ Die(p)
    \/ \E j \in Journals, o \in Operations : Reserve(j, o) \/ Withdraw(j, o)

Spec == Init /\ [][Next]_vars

-----------------------------------------------------------------------------
(* What must hold. *)

(* A lock is held by a process at work on that journal. *)
TypeOK ==
    /\ exists \in [Journals -> BOOLEAN]
    /\ version \in [Journals -> 1..3]
    /\ records \in [Journals -> [Operations -> {"none", "withdrawn"} \cup Live]]
    /\ follows \in [Journals -> Journals \cup {None}]
    /\ successor \in [Journals -> Journals \cup {None}]
    /\ lock \in [Journals -> Processes \cup {None}]
    /\ pc \in [Processes -> {"idle", "staging", "retiring", "linking", "closing",
                             "upgrading", "upgraded", "alarmed"}]
    /\ on \in [Processes -> Journals \cup {None}]
    /\ arg \in [Processes -> Operations \cup Journals \cup {None}]
    /\ unread \in [Processes -> SUBSET Journals]
    /\ seen \in [Processes -> [Operations -> {"none", "withdrawn"} \cup Live]]
    /\ \A j \in Journals : Cardinality(Retained(j)) <= MaxRecords

(* However stagings, retirements and withdrawals interleave, a chain holds *)
(* one operation for a task that could still be, or was, attempted.        *)
OneLiveOperation ==
    \A j \in Journals : Linked(j) =>
        \A s, t \in ({j} \cup Older(j)) \X Operations :
            /\ records[s[1]][s[2]] \in Live
            /\ records[t[1]][t[2]] \in Live
            /\ TaskOf[s[2]] = TaskOf[t[2]]
            => s = t

(* A retired journal has a successor to go to, which follows it and nobody *)
(* else, whoever dies or retires it twice.                                 *)
SuccessorFollows ==
    \A j \in Journals : successor[j] # None =>
        exists[successor[j]] /\ follows[successor[j]] = j

=============================================================================
