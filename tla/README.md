# A TLA+ specification of orchd

orchd drives coding tasks through a fixed workflow: a person confirms a
specification, a planner plans, a person approves the plan, an implementer, a
tester and a reviewer work in attempts, a person approves the external action,
and one external effect is produced. Everything it knows is in an SQLite store,
a directory of artifacts and a few journals; several processes (workers, the
HTTP API, the agent service, operators' command lines) open the same store, and
an action broker runs operations in containers.

This directory holds TLA+ modules that model the parts of it where order,
crashes and concurrency matter, TLC configurations that check them on small
instances, and TLAPS proofs about eleven of the modules for every value of their
constants. `PROJECT.json` is the index: components, runs, mutants, the map from
definitions to source lines, findings, hazards and theorems. Paths below are
relative to the repository.

## 1. Inventory

What each part keeps, what it does, what is hard about it, what makes it correct.

| Part | State | Operations | Hard behaviour | Correct when |
|---|---|---|---|---|
| Locks, claims, leases (`orch/storage.py`, `engine.py`, `agent_sessions.py`, `maintenance.py`) | a lock file per task and one per store; `task_owners` rows; `task_ownership_taken` events | `advancing`, `deciding`, claim, renew, release, `active_owners`, `quiescent` | locks die with a process and rows do not; judging a row takes the lock it asks about; rows are read once and judged later; leases expire | at most `MAX_ACTIVE_TASKS` tasks advance, one holder a task, maintenance alone, takeovers on record, no call hangs |
| Task kernel (`engine.py`, `storage.py`, `actors.py`) | task state, revision, context; operations; approval requests and decisions; effects | `advance`, `approve`, `renew_approval`, `cancel`, `recover`, `retry_cleanup` | a crash between any two transactions; an approval that expires between check and use; errors in the middle of an invocation | an operation is recorded once; an effect happens once, approved for exactly this evidence; a pause can be ended; runs end |
| Specification drafts (`task_drafts.py`, `task_issue.py`, `skill.py`) | drafts, clarifications and revisions | draft, ask, answer, confirm | an agent's lease, the revision it read and a person's decision race; drafts are written after their writer gave up | a confirmed specification is the one the person saw, questions are about the current one |
| Consultations (`consultations.py`, `agent_runner.py`) | question: asked, answering, answered, withdrawn, closed | ask, take, answer, withdraw, close, list | takers vanish; requests are handled after the sender gave up | a settled question stands, a taker is not robbed, an open question is settled |
| Agent service, runner, supervisor (`agent_service.py`, `agent_runner.py`, `agent_client.py`, `agent_queue.py`, `agent_processes.py`) | enrolment, presence; the runner's lease; one container an agent | offer, take, step, renew, let go; start, stop, kill | lost replies, late requests, expiry while thinking, kills; one thread serves all | a lease is held by a container that knows of it, or ends; work is found again |
| Action broker (`broker.py`, `broker_process.py`, `broker_service.py`, `execution.py`, `process.py`) | request row; journal and tombstone files; containers | execute, result, retire, reconcile; rotation of the secret | the client dies, the broker dies, the daemon is silent, a request is handled late | launched once, nothing launched after retirement, a finished result is not thrown away |
| Integration journals (`github_journal.py`, `jira_journal.py`, `journal_revision.py`, `journal_succession.py`, backups) | SQLite files: records, schema version, `follows`, `succeeded` | stage, reserve, withdraw, retire into a successor, upgrade | a chain is several files checked one by one; a retirement may stop at any step | one live operation per task over the whole chain, nothing forgotten |
| Pilot, repository tasks (`pilot*.py`, `repository_tasks.py`) | pilot journals, bundles of them, and run directories | prepare, reserve, run, abandon, interrupt, reclaim; back up, retire into a successor, walk a chain | a worker dies with a run reserved; reclaiming or retiring stops half way; a chain grows while it is walked | one run a repository task, never repeated; a retired journal has an heir and a bundle of its evidence |
| Batches (`batches.py`) | entries: pending, running, stopped, abandoned; the dispatch lock | create, run, abandon | a crash between the effect and the checkpoint; others moving the same tasks | works only on what was reviewed, in order, nothing repeated or skipped silently |
| Dispatch (`dispatch.py`, `broker_service.py`) | none: neither it nor the broker keeps a record | fetch, perform | an answer that never came, and a request that takes effect after it was looked for | one effect an operation, of what was approved |
| Store maintenance (`maintenance.py`) | artifacts, backups | collect, back up, restore, verify | a writer of the content being collected | referenced artifacts survive |
| Operator session, API, UI (`operator_session.py`, `api.py`, `ui/`) | one session token | rotate, expire; requests | an old token used during rotation | one live session |
| GitHub and Jira documents (`github_*.py`, `jira_*.py`) | captured documents, each a file of some age | preview, approve, observe, read, reconcile | the remote, the journal and the clock go on between two commands; a listing is read page by page | what is cleared to be sent was seen as previewed; a report is what a listing decides |
| Contracts, providers, deployment, reports, command line, scripts | - | pure or I/O | - | - |

How they interact:

- Every call that changes a task holds that task's lock (Ownership). A worker
  holds it through `advance`; a decision holds it and the store's lock. The
  kernel's actions therefore have one actor at a time per task, and crashes
  between its transactions are what is left to explore (TaskKernel).
- The kernel asks the broker to execute an operation and, when the answer is
  uncertain, blocks the task; an operator's `recover` asks the broker to
  reconcile or retire it (Broker). TaskKernel sees an operation's execution as
  a choice of outcomes, Broker sees the task as one operation and a flag.
- Agents reach the store through the agent service, over a network; their
  claims are rows of the same registry as workers' (Ownership), what they draft
  is AgentWork, their opinions are consultations (Consultations).
- The integration journals are written by operators' commands only. They refer
  to a task by name and share nothing else with the store (IntentJournal). What
  they admit, an operator sends through the broker by other commands, with files
  in between (Outbound).

## 2. Modules and how they correspond to the code

Every definition that stands for code is in `PROJECT.json` under `map` with its lines.

**Ownership** (with MCOwnership, OwnershipProofs). `taskLock` and `storeLock`
are the two `flock`s, `row` the `task_owners` table, `taken` the last takeover
event. Each process has a `pc` inside a call `op` about the task `on`, on behalf
of the agent `who`. `TakeTask`, `TakeStore`, `GiveUp`, `Unlock` are
`Engine.advancing` and `deciding` entering and leaving their `with` blocks;
`ReadRegistry`, `CompareLease`, `ProbeHeld`, `ProbeFree`, `EndProbe` are
`Store.active_owners`, `live` and `held` (rows fetched at once, judged one by
one, a free lock taken and given back in two steps); `RecordTakeover` and
`ClaimWorker` are two transactions as in the code; `RenewLease`, `GrantLease`,
`ReleaseLease` are `agent_sessions`; `CheckLease` and `TakeTaskToDraft` are the
agent service's `_work`, which judges before it locks; `Quiescent` and the
`maintain` steps are `maintenance.quiescent` and the work under it. A crashed
process comes back with another identity: its name in rows becomes `Gone`.

**TaskKernel** (with TaskKernelProofs), refining **TaskLifecycle**. One variable per piece of the task's
row and context, one action per transaction: an operation is checked
(`CheckStage`, `Replay`, `BlockUnresolved`, `Reconcile`), recorded
(`StartOperation`), invoked (`StartInvocation`, `EndInvocation`), finished
(`FinishOperation`, `FailOperation`, `LoseBroker`, `ApplyEffect`,
`FinishExternal`) and settled into a transition (`SettlePlan` ...
`SettleRefused`). Documents are named by the attempt that produced them, which
is all the digests in the code are compared for. `Guarded` holds the conditions
`Store.transition` and `Engine._approved` put on a target state. TaskLifecycle
is the abstract promise: a task plans, pauses, attempts at most `MaxAttempts`
times, acts once, and ends; an action that succeeded is never cancelled.

**Consultations** (proved about in TaskKernelProofs). The store's transactions (`Ask`,
`Take`, `Answer`, `Withdraw`, `Close`) and the runner's round (`List`, `Advise`, `SayNothing`,
`SendAnswer`, `EndRound`) with the requests between them in the set `sent`: a
request may be handled after its sender gave up (`GiveUp`), lost (`Lose`), and
a runner may die (`Vanish`).

**Broker** (with BrokerProofs). The client (`Run`, `Accept`, `Recover`, `Resume`, `JudgeResult`,
`JudgeAbsence`, `CommitRecovery`), the broker's handling of a request under the
operation's file lock (`Execute`, `ReadResult`, `Retire`, `Reconcile`) and what
happens after it (`Finish`, `Deadline`, `WriteJournal`, `ProveRetired`), and
Docker (`Create`, `Exit`), for both transports (a service, or a subprocess per
execution) and both modes (containers, or a trusted local process). `approved` is what
`_approved` says of the plan: it may lapse at any time (`Lapse`), nobody can renew it
then, and `Resume` and `Recover` need it.

**IntentJournal** (with MCIntentJournal, IntentJournalProofs). Several journal files, several
processes. `BeginStage`, `LookInto`, `EndStage` are `prepare`, with the
predecessors looked into one file after another while the journal's own write
lock is held; `Compare`, `CreateHeir`, `LinkHeir`, `CloseOld` are the steps of
`retire`; `AuditBefore`, `Rebuild`, `AuditAfter` those of the upgrade. GitHub's
and Jira's journals have the same control and are one model. A file that exists and
that no retirement has linked is a journal like any other to the code: with `Strays`
operators stage into such files too, without it into journals `InUse` only (section 4).

**Pilot** and **RepositoryTask** (with RepositoryTaskProofs). Two databases: the task's store (`state`, `op`)
and the pilot's journal (`status`, `revision`, `phases`, `reclamation`). Pilot has
the calls on the journal and no next-state relation, because a run is admitted
by what the kernel says of its task; RepositoryTask adds `create`, the decisions,
`advance` and `recover` and composes them. `at[w]` is where a process is and what
it last saw of the pilot. `workLock` is the file lock `.pilot-worker.lock`, never
waited for; `journalLock` is an open `BEGIN IMMEDIATE` transaction, whose writes
are the step that commits it. `Judge` and `Reserve` are the two ends of the
transaction in `Pilot._run`: the kernel's admission is read inside it, from the
other database, so the task may move on before it commits. `BeginReclaim` is one action
although it is a transaction of many statements: it holds both locks, and what it
reads of the task (that it has ended) stays so. A container is `starting` once the
docker client was started, `running` once the daemon made it. The client is
started directly; that a dispatch gets no answer at all (a disjunct of
`ObserveFailure`) is what the broker service in between could add.

**Batches** (with MCBatches, BatchesProofs). `journal` and `entry` are the batch's file, `dispatch`
is `dispatch.lock`. `BeginRun`, `Reserve`, `BeginStep`, `Checkpoint`, `EndRun` are
`Batches.run`; between a step and the next the task is free, and `Pass`,
`StartOperation`, `EndOperation` and `Block` are what `Engine.advance` does with it,
for the batch and for everybody else. A digest of a task is only ever compared, so
the model keeps the set `matching` of entries whose last snapshot is still their
task's; `fresh` says the same of a snapshot that `advance` returned and the batch has
not saved yet. `record` is what of a task decides whether it can be settled: the
operation recorded as started and its kind, whether an invocation is recorded as
active (operation and invocation are saved one after the other, and an invocation that
raised stays recorded), and whether its plan is approved. A recorded container is not
modelled: nothing in the code sets `container_id`. `foreign` is evidence, not state of the program: entries whose task
somebody else changed.

**AgentWork** (with AgentWorkProofs). A container's loop (`pc`, `held`, `offered`,
`read`), the service and the task's row. The service has one thread and takes
connections in order: `queue` is what has connected and was not handled, and a
request whose client stopped waiting stays in it with `awaited` false. `Claim`,
`Renew`, `Read`, `Decide`, `LetGo` and the others of `Loop` are the steps of
`agent_runner.run`, `round`, `keep`, `work` and `let_go` between one call and the next;
`Accepted` and `Refused` are what the loop makes of an answer, so that a handled
request and its reply are one step and a lost reply is `GiveUp` before or after
`Serve`. `Judge` is `_work`'s look at the lease, before the locks that `Draft` and
`Ask` take. A specification is named by the revision that wrote it, which is all
its digest is compared for; `seen` is the digest a person names in `Confirm`.
`Start`, `Boot`, `Stop` and `Kill` are the container's life.

**PilotSuccession** (with MCPilotSuccession, PilotSuccessionProofs). Several pilot
journals, bundles and calls; each step of a call is one statement or transaction.
`BeginBackup`, `Copy`, `Seal` are `backup`; `Check`, `Compare`, `CreateHeir`,
`NameHeir`, `Close` the steps of `retire`; `Forward`, `Across` and `Back` the walks
`forward` and `chain`; `Prepare` is `Pilot.prepare` in the journal a walk arrived at.
`lost` is the refusal a walk raises when what it opened does not fit, `far` the one
for its length: `seen` are the journals it has passed, `InspectionLimit` the default
`limit=64` of both walks.

**Outbound** (with MCOutbound, proved about in BrokerProofs). An operator is a process whose
commands leave files: `step` is the last of them, `preview`, `age` and `observed` are
what the next reads, with their ages. The operations of seven families share the way, as
far as each goes: read (`Derive`,
`FetchListing`), `Stage`, `PrepareApproval`, look again (`PlanObservation`, `Observe`,
`PackageSnapshot`, `Review`, `FinalCheck` or, for an issue, `CheckApproval`),
`Reserve`, send. A sent request takes effect (`SendTakesEffect`), does not
(`SendIsRefused`), or hangs and is in `late` until it arrives (`LateArrives`). The
`reader` plans a recovery and reads a listing page by page while others change it;
`PullCandidate`, `CommentCandidate` and `SearchCandidate` are the verdicts over what
it read, after `MaxPages` pages at the latest.

The families differ in what is looked for. A GitHub issue, a Jira field (a transition,
an Epic link), a link between issues and an association with GitHub are refused when
they are there already (`Untracked`); the preview of a new Jira issue, of a comment
or of a pull searches nothing. `Others` is what others write that a read may show,
`Alike` those that are all an effect would be. A row passes for an operation's effect
(`Passes`) when it is the effect, or is alike and the family is not one of `Marked`: an
issue, a creation and an association carry the operation's identifier. That nobody else
writes such a marker is assumed (`docs/jira-integration.md:148` calls a matching label no
trusted provenance).

`Reserve` is the journals' own: anybody who calls it once the scope is staged, whatever
was checked. No command does (`docs/github-journal.md:24-27`: it is for code and
tests). `ReserveFirst` says whether operators reserve before they send, as a discipline
of theirs: nothing in the program asks for it.

## 3. What the runs show

Passing runs, each with every action fired:

| Run | Instance | What it shows |
|---|---|---|
| `Ownership` | a worker and a service process, two tasks, one agent, one slot, generations up to 2 | the bound on advancing tasks, one holder a task, maintenance alone, takeovers recorded, every call returns |
| `TaskKernel` | two attempts, two plans, four requests, two crashes | one unresolved operation, decidable pauses, approved plans, one effect, effects approved for exactly this evidence, the abstract lifecycle, runs end |
| `Consultations` | two questions, two agents of which one may stay silent, a listing of one, two faults | settled questions stand, a fresh taker is not robbed, every open question is settled |
| `Broker` | one operation, both transports, both modes, five faults | launched at most once and never after retirement, no finished result discarded, nothing left running behind a settled task, recovery gets through while the plan's approval lasts |
| `IntentJournal` | three files, two processes, three operations of two tasks, two records a journal, a chain of two | one live operation per task over a chain, one successor per journal |
| `RepositoryTask` | one task and its pilot, two processes, both modes, three faults, two revisions of a reserved run | a run belongs to an open operation, settled runs stand, a reclaimed workspace is left alone, interrupted tasks and reclamations end |
| `Batches` | a batch of two tasks, two processes, one move by others, one fault, approvals that lapse, two steps an entry | a batch works only on what was reviewed or what it left, under a reservation and in order; an interrupted entry is resolved unless its task is stranded |
| `AgentWork` | one task, two agents of which one is stopped and killed, one slot, revisions up to 2, one fault | what is confirmed was read, questions fit the draft, no lease is forgotten without a fault, work is found again after one |
| `PilotSuccession` | three journals, two bundles, two calls, one pilot, walks of at most two journals, one death | a retired journal has its heir, walks are refused for nothing but their length, what was retired is in its bundle |
| `Outbound` | two operators, an operation of each of seven families for one task, approvals that live three ticks and observations two, two pages of one row, two rows of others, one of them alike and there from the start, of which one may be written or deleted | one effect if operators reserve, clearances of what was seen, recovery reports that are right |

Why these bounds are enough:

- Ownership needs a process that registers and one that judges or decides, and
  two tasks for one slot. With two processes liveness can be checked; its safety
  properties are proved for any number of processes, tasks, agents and slots
  (section 5).
- The code allows three attempts; with two, there is a first, a retry and an
  exhausted one, which is all the comparison distinguishes. Two planning
  attempts give a rejected plan and a new one, four requests a plan, an action
  and a renewal of each, two crashes a crash during the reconciliation of
  another.
- A listing of one question with two open is a full listing; two agents are what
  it takes to list the same question at once.
- One broker operation suffices because the lock, the journal and the tombstone
  are per operation; the approval of its plan lapses at any point or never. Five faults let a broker die, its reply be lost, the client
  die, the daemon be silent and a recovery be cut short in one behaviour.
- Three journals make a chain with both a retired and an open predecessor;
  `MaxRecords` and `ChainLimit` stand for 1000 and 16, each at its limit. The same
  three are a pilot's chain that grows at both steps of a walk, and with
  `InspectionLimit` 2 (64 in the code) the longest walk is one journal too long; the
  second bundle is one of another journal, or of a backup that died.
- A repository task has one pilot and a pilot one workspace; what two tasks share
  is the worker lock, and being refused it is the same as any other refusal of a
  run. One process advances or recovers while the other runs, reconciles,
  abandons or reclaims from the command line. Three faults let a worker die, its
  container outlive it, and the recovery be cut short or find Docker silent.
  `RevisionCap` is 1000 in the code; at 2, a silent daemon uses it up at once.
- A batch of two tasks has a first and a later entry; another batch would be one
  more of those who advance its tasks. The move by others is an advance from its start
  to its end, or a decision; advancing a task whose operation is recorded as started,
  recovering and abandoning are not counted. Two steps are an entry that goes on and one
  that is cut off (40 in the code).
- Agents that draft meet at one task or at the bound, which is one slot; what several
  tasks add (a late draft of one task while the agent works on another) is in the
  proof's range. Two revisions are a first draft and one that makes the first stale.
- An approval of three ticks and an observation of two can each expire first. With the
  two rows of others and an effect a listing has up to three rows of which two pages of
  one row (100 or 50 rows and ten pages in the code) are read: the cap on pages, a
  listing that moves and one that does not fit a search all occur. Operations of
  different journals meet in nothing and Jira's families are alike in the journal, so a
  behaviour has the issue and the pull, or one of Jira's, the others withdrawn from the
  start; of GitHub's, one can be withdrawn and replaced in its slot by the other.

Symmetry is used where no liveness is checked: over workers and services in the
run of Ownership for its finding, over the two later journals, the two operations
of one task and the processes in IntentJournal, over journals, bundles, calls and
pilots in PilotSuccession, over operators in Outbound.

`CHECK_DEADLOCK FALSE` appears where the system stops by design: a task that has
ended (TaskKernel, RepositoryTask), journals that are full or retired
(IntentJournal), batches that are over (Batches), a slot whose attempt was used and
approvals that are as old as they get (Outbound).

Types are not among the runs' properties: they are proved instead (section 5).

Fairness, and why the code justifies it:

- Ownership: `WF(Step(p))`. A process inside a call keeps running; calls do not
  wait for anything but the store's lock, and give up after `CLAIM_TIMEOUT`.
- TaskKernel: `SF(Advance)`, because `Engine.run` advances in a loop, the
  task is run again after each crash, and an operator's decision holds the lock
  for a moment only, so that running it again succeeds some time, and `WF(Clean)` for the broker's clean-up call. Nobody has
  to decide, so pauses may last for ever: `RunEnds` ends at a pause.
- Consultations: agents keep running rounds, the service handles requests that
  are not lost, time passes. The assumption `PromptNext`, that a taking does not
  go stale while its agent is still writing, is the ratio of 45 to 900 seconds in
  `agent_client.py` and `consultations.py`; the safety properties do not depend
  on it (they hold of `ConsultationsSpec` too, because the store checks again).
- Broker: client, broker and Docker keep running and an operator whose recovery
  was refused tries again; the daemon may be silent `MaxFaults` times only. That a
  plan's approval lapses is not fair: it may, and then `RecoveryGetsThrough` asks for
  nothing more, because the code refuses for good.
- RepositoryTask: processes inside a call and Docker keep running (`WF`). A task left
  `IMPLEMENTING` is advanced again, a blocked one recovered and a reclamation
  resumed as often as it takes (`SF`, because every other call on the task or the
  journal disables them for a moment). The model bounds what may go wrong, and
  commands that are going to be refused, by `MaxFaults`; it does not make anybody
  decide. `InterruptedTaskEnds` excepts a run whose reconciliations are used up:
  at revision 1000 the code refuses any other.
- Batches: processes go on (`WF`); an operator recovers a task, advances one that was
  left with an operation started, and abandons a running entry, each whenever the code
  lets them time after time (three `SF`: abandoning needs a moment in which nobody
  advances anything). `RunningIsResolved` excepts a task that stays `Stranded`: its
  record holds an invocation, or an operation recovery does not know, or a worker's
  without an approved plan (section 4).
- AgentWork: `WF(Serve)`, `WF(Loop(a))`, `WF(Expire(t))`. The service's thread goes
  on, a container that runs runs its loop, leases end. Nobody has to start or stop a
  container, to read or to answer: `WorkIsFound` asks for a container that is running.

Each property has a mutant in `PROJECT.json`: a change of a modelled definition,
such as a dropped check or a step out of order, that makes TLC report that
property.

## 4. What the code does otherwise

Runs that end in a violation, each of a sentence the repository's documents say.

| Run | Disagreement |
|---|---|
| `Ownership_RefusedOnlyWhileHeld` | an agent's claim on a task whose worker crashed is refused as held by the dead worker: the call itself holds the lock it then takes for the worker's (`agent_sessions.py:94`) |
| `Outbound_CreatedOnce` | `broker-dispatch` asks no journal and the runbook's sequence does not reserve, so two operators whose searches both came before either dispatch create one operation's issue twice (`__main__.py:149`; the search is "what makes creation idempotent", `github_issues.py:115`) |

Met while modelling, without a run of their own. About agents and the store:

- A draft is judged against the lease before the locks are taken
  (`agent_service.py:264`) and may be written after the lease ended, although the
  comment at `:255-257` and `docs/agent-work.md:32` speak of the lease's holder. The
  revision is judged under the lock: no draft is lost, which is
  `ConfirmedIsWhatWasRead` and `QuestionsFitTheDraft`.
- `docs/worker-admission.md:22-23` says claims left by a crash are never counted;
  while another process briefly holds that task's lock, a judge counts them. The
  consequence is a refusal, never too many admissions.
- Every claim of a lease opens a new session (`agent_sessions.py:64`), so the
  agent that holds a task and lost the reply that said so is refused its own
  lease until it expires (`:93`).
- The runner drops a task at any refusal of its renewal, also when another process
  had the lock for a moment (`agent_runner.py:247`), and one refusal of a claim ends
  its interest in that row until the next listing. It is a lease nobody uses until it
  expires; `BooksAgree` therefore speaks of behaviours without a fault.
- `STOP_SECONDS` is 30 and the client's timeout 45 (`agent_client.py:37`): a
  container whose call is not answered is killed before its `finally` can let go.
- A `docker run` that timed out is reported as refused although the container may
  exist (`agent_processes.py`); `start` and `stop` raise where their docstrings say
  refusals are reported.
- `task_drafts.answer` compares a revision only when it was given one
  (`task_drafts.py:170-171`); `docs/draft-spec.md:30` reads as if it always did.
- `consultations.py:158` lets a closed question be taken and answered again: only
  answered and withdrawn ones are refused. `SettledStands` therefore speaks of
  answered and withdrawn questions.

About tasks and the broker:

- A task whose effect succeeded ends `FAILED` after an error while storing the result,
  or is refused for ever once its approval has expired (`engine.py:378`, `:739`;
  `docs/operator-cancellation.md:44-45` has the receipt reconciled).
- After an invocation that raised, the handler reloads the saved state, in which
  `active_invocation_id` is set (`engine.py:378`), and clears the operation only:
  cancel refuses between attempts (`:415`) although nothing is unresolved
  (`docs/operator-cancellation.md:3` lets an operator end a task between operations).
- A task that blocks and whose plan's approval then expires, or that blocks in a stage
  recovery does not support, has no way out (`engine.py:484`, `:486`); the documents call
  it `unavailable` and say to inspect the evidence. Between an operation's start and the
  next advance it is not blocked either: `advance` refuses it as it is (`:664`, `:687`).
  `RecoveryGetsThrough` promises recovery while the approval lasts, and no longer.
- The entry of a batch that works on such a task stays `running` for ever, and the batch
  with it: `abandon` asks that no operation, invocation or container be recorded
  (`batches.py:215-216`). So does one whose task has an invocation recorded that raised
  (see above), until the task is advanced over another invocation.
  `docs/workflow-batches.md:114` says that abandoning refuses active work; that such work
  may never end it does not say.
- A docker client that outlives its broker may create its container after the
  operation was retired as proven absent (`process.py:9`, `execution.py:79-80`;
  `docs/broker-service.md:152-153` says a retired operation does not run). The model
  has it as `orphaned`, which `SettledIsStopped` excepts. For pilots the code does
  prevent the consequence: a phase that is still `dispatched` keeps its workspace.
- A batch's file is opened and then written (`batches.py:141`): a crash in between
  leaves a file that no call can read, and `list` fails on the page that has it. The
  model's `torn` is that file.
- A batch's step is rejected, and its entry left for review, also when a listing of
  claims was just probing the task's lock; `docs/workflow-batches.md` does not name that case.

About journals and pilots:

- A retirement cut short leaves a successor file that names no predecessor and admits
  work (`journal_succession.py:226`; `docs/journal-succession.md:39-41` has an unnamed
  successor admit nothing). A record staged there and one in the journal it should
  follow are two live operations of one task. `OneLiveOperation` speaks of sound
  chains, and its proof covers such files (`Strays`).
- `docs/journal-succession.md` says a retired journal's evidence is also captured
  in the bundle its record names; a record written between the comparison with
  the bundle and the transaction that retires (`journal_succession.py:207`, `:235`)
  is in the journal only.
- An upgrade audits before and after, outside its transaction
  (`journal_revision.py:194`, `:223`): a record staged in between makes it report
  a change that is not the upgrade's. The model's `alarmed` state is that report.
- A run interrupted while a dispatch had no answer can never be reclaimed:
  nothing ever moves a phase from `dispatched`, and `pilot_retention.py:104` asks
  for it even after both containers were found absent
  (`docs/pilot-container-workers.md:82-84` asks for the same, "once no phase is
  still dispatched", and does not say that this may be never). `ReclaimedIsUntouched`
  needs it, though: a docker client that outlived its worker may create the container
  after the run was marked interrupted.
- A crash in `create` between the pilot's preparation and the task's commit leaves
  a pilot bound to a task that does not exist; it can be abandoned, but its
  binding cannot be read and so it is never reclaimed.
- A pilot journal is found to have nothing in hand before the heir is created and the
  journal closed (`pilot_succession.py:108`); a pilot prepared in between stays in the
  retired journal, where it can be run and reclaimed, although the refusal
  (`:86`) and `docs/pilot-journal-succession.md:26` say that a retired journal is
  settled. `RetiredIsCaptured` therefore speaks of the evidence in the bundle.
- `chain` refuses for ever a journal whose predecessor's retirement named it and never
  closed (`pilot_succession.py:225`): `WalksArrive` begins where a walk forward did.
- A chain of more than 64 journals is refused, forward and back
  (`pilot_succession.py:159`, `:198`; `docs/pilot-journal-succession.md:52-54` says so).
  A store that names its oldest pilot journal can then prepare nothing in the newest.
- An heir created by a retirement that died, and itself retired before its link is
  made, would let two chains of integration journals meet: linking does not look. The
  model has operators retire journals in use only.

About what is sent out:

- A recovery report of `unresolved` or `no_candidate_observed` is no proof of absence:
  a request that hangs may arrive after it was looked for. `ReportsAreRight` is about
  candidates; the documents leave the conclusion to the operator, the runbook's
  section 1.7 does not name this case.
- Reserving and dispatching do not look at the approval's expiry; the checks before
  them do, each as a command of its own. Reserving looks at the digest and at
  `prepared` only (`jira_journal.py:231`, `github_journal.py:275`), so `ClearedWasSeen` is
  about what the final check clears, and `OneReservation` about what reserving adds.
- `OneEffect` is about operators who reserve and then send what they reserved. Neither
  the dispatch nor a command enforces it, and the runbook's sequence does not do it.
- A candidate for a transition, an Epic link, a link or a comment may be what another
  wrote (`jira_actions.py:383-391`, `jira_reconcile.py:84-86`; `docs/jira-integration.md:147`
  says so), and so may one for a pull, which is recognised by its branches and text.
  `ReportsAreRight` says "the operation took effect" only of effects that carry a marker.
- The preview of a new Jira issue searches nothing (`jira_actions.py:267-273`): creating it
  again is not refused. Its recovery does search, by the operation's label (`:344-347`),
  and two of them make it unresolved.
- GitHub's and Jira's journals are not compared: a task may have a live operation in
  each, which is intended.

## 5. What is proved

TLAPS checks the proofs below for all constants that satisfy each module's assumption;
the bounds that exist for TLC are arbitrary numbers in them. In each, TLC checked the
invariant first. The steps are one lemma per action, with one leaf per conjunct that
the action can disturb.

**OwnershipProofs**

| Theorem | Statement |
|---|---|
| `InductiveInvariant` | `Spec => []IInv` |
| `TypeCorrect` | `Spec => []TypeOK` |
| `NeverOverAdmitted` | `Spec => []AdmissionBound` |
| `TaskHasOneHolder` | `Spec => []OneHolder` |
| `MaintenanceRunsAlone` | `Spec => []MaintenanceIsAlone` |
| `TakeoversAreRecorded` | `Spec => TakeoverIsRecorded` |

`AdmissionBound` is not inductive: a claim is written by a step that only sees
what an earlier scan found. The invariant that carries it:

- `LocksMatchSteps`: who is past a lock's acquisition holds it. So one process
  judges at a time among those that register or maintain (a listing judges
  without a lock, and its result admits nothing).
- `ScanMissesNothing`: while the holder of the store's lock judges, a task that
  is advanced elsewhere was found already or is still on the list it has to
  judge. This holds although rows are read once: leases are granted and claims
  written only under the store's lock, so between the read and the judgement
  tasks may stop being advanced but not start.
- `ClaimStillAdmitted`: the takeover's event and the claim are two transactions;
  what was judged before the first holds at the second.
- `BodyIsClaimed`, `CallMatchesStep` and `GenerationFits` tie the body to its
  row, a step to its call, and a generation to its type.

When a claim is written, every advancing task but the claimed one is among
`found`, whose size was compared with `Bound`; that is `AdmissionBound`. When
maintenance begins, `found` is empty and nothing is left to judge, so nothing
advances. `OneHolder` follows from the invariant without a step of its own: two
processes past a task's lock would both be its holder.

Two assumptions deserve a word: `Procs \cap Agents = {}` (the owner a worker
records is a principal, a process and a session, `engine.py:65`; an agent's lease
records an agent, a role and a session, `agent_sessions.py:64`) and that a dead
process's identity `Gone` is nobody's.

**TaskKernelProofs**

| Theorem | Statement |
|---|---|
| `InductiveInvariant` | `Spec => []IInv` |
| `TypeCorrect` | `Spec => []TypeOK` |
| `UnresolvedIsActive` | `Spec => []OneUnresolved` |
| `OnlyApprovedPlans` | `Spec => []PlanWasApproved` |
| `EffectHappensOnce` | `Spec => []OneEffect` |
| `EffectNeedsApproval` | `Spec => EffectIsApproved` |
| `KeepsLifecycle` | `Spec => ImplementsLifecycle` |
| `PausesEnd` | `Spec => []PauseIsDecidable` |
| `ConsultationsTypeCorrect` | `ConsultationsSpec => []ConsultationsTypeOK` |
| `SettledQuestionsStand` | `ConsultationsSpec => SettledStands` |
| `NobodyIsRobbed` | `ConsultationsSpec => TakerIsNotRobbed` |

`ActiveFits` and `HolderFits` say that the operation in the row, the one the process
at work has in hand and the one of the task's state are the same; `EffectsFit` that an
effect is the current action's and was preceded by its operation. That a crash leaves
one unresolved operation, and that an effect is not repeated by whoever finds it, are
these two at every step. The refinement maps TaskLifecycle's variables to the row's:
every action of the kernel is a step of the lifecycle or leaves it alone, given
`AttemptFits` (attempts are counted where they begin) and `EffectsFit` (what succeeded
is not cancelled).

`PauseIsDecidable` needs two more facts. `PauseFits`: the request a pause waits for is
undecided and about the present revision and evidence, because the transaction that
asks reaches the pause and everything later that changes either leaves it. And
`InvocationFits`: a renewal is refused while an invocation is recorded as under way,
and one that raised stays so recorded between attempts (section 4); but every way into
a pause goes over an operation with a fruitful result, which an invocation that raised
has not left behind.

The last three are about Consultations. Its type is its invariant: the transactions look
at the record again, so nothing has to be known of the requests that are on their way,
however old.

**BrokerProofs**

| Theorem | Statement |
|---|---|
| `InductiveInvariant` | `Spec => []IInv` |
| `TypeCorrect` | `Spec => []TypeOK` |
| `NoResultDiscarded` | `Spec => []NothingDiscarded` |
| `SettledHasStopped` | `Spec => []SettledIsStopped` |
| `LaunchedOnce` | `Spec => NoLateLaunch` |
| `OutboundInvariant` | `OutboundSpec => []OutboundInv` |
| `OneReservationHolds` | `OutboundSpec => []OneReservation` |
| `ClearancesAreObserved` | `OutboundSpec => ClearedWasSeen` |
| `ReaderInvariant` | `OutboundSpec => []ReaderInv` |
| `ReportsAreTrue` | `OutboundSpec => ReportsAreRight` |
| `OutboundTypeCorrect` | `OutboundSpec => []OutboundTypeOK` |

`FilesExclude`: the tombstone and the journal are never both there, and whoever
executes found neither. `AskedOnce`: before the one request to execute is looked at
nothing was launched, and there is no second. `OneLive` ties an answer to the request
the client waits for, and `RepliesFit` says that what it was told is in the files;
since files stay, a conclusion that the client commits later is still true.
`LaunchFits` excepts what the code excepts not: a docker client whose broker died is
`orphaned`, and only of others is it known that they have stopped.

The last six are about Outbound, with or without `ReserveFirst`. A slot of a task holds
one live operation (`SlotsHeld`), and who has reserved is the only one to have reserved
the operation (`ReservedOnce`): a reservation needs a prepared record and leaves an uncertain
one, and nothing makes that prepared again. What an operator goes on with is what the
checks before it saw (`OperatorFits`), because approvals and observations only age and a
record that was consumed never changes; `WhoClears` reduces a clearance to the two steps
that give one. `OneEffect` is not proved: it rests on a discipline of operators that no
code enforces and without which it is false (`Outbound_CreatedOnce`, section 4), and the
run shows what that discipline is worth. Listings are any sequences that others insert
into and delete from at either end or in the middle (`PutFirst`, `PutLast`, `TakeOut`).

`ReportsAreTrue` needs no reservation either: it holds however often an operation took
effect. `ReaderInv` says what a recovery may have read. Whatever the listing did, a row of
the operation on some page is in effect: others delete only what they wrote. If the
listing held still, the rows read so far are its first ones, as many as the pages
say (`PagesRun`), and a page begins where the one before it ended (`PageRead`), which
for counted pages needs `Pagination`: no page before the last is beyond the end. Read to
its end, which `MaxPages` may cut off, such a listing was read from its beginning
(`WholeIsAll`), and each family's rule decides what the listing shows (`PullDecides`,
`CommentDecides`, `SearchDecides`): the rule for comments, that no row is seen twice,
because the operation's effect and each thing others write are there once. A candidate that
carries a marker is the operation's own row (`CandidateShows`).

What a marker finds and what pages hold are sequences put together by `FlattenSeq`, a
recursive function, for listings of any length. What it computes is an induction, which
the library states with an operator as parameter and the provers cannot use; here it is
an argument by a least element (`CountingUp`, from `WFMin`): the lengths for which the
claim fails are a set of numbers, and a set of numbers that is not empty has a least
one. `UnrollsAgree` shows so that the joins of a sequence and of a longer one agree as
far as both go, hence `FlattenAppend`, and `FlattenHolds` that the whole holds what the
pieces do.

**AgentWorkProofs**

| Theorem | Statement |
|---|---|
| `InductiveInvariant` | `Spec => []IInv` |
| `TypeCorrect` | `Spec => []TypeOK` |
| `ConfirmedWasRead` | `Spec => []ConfirmedIsWhatWasRead` |
| `QuestionsFit` | `Spec => []QuestionsFitTheDraft` |
| `BooksKept` | `Spec => []BooksAgree` |

The first two properties need of a late request only that the revision it read is
judged under the lock. `BooksAgree` needs the calls: a container waits for one request
at most, the request is the one its loop is at and about the task it holds
(`HeldFits`, `QueueFits`, `OneAwaited`), and without a fault every request in the
queue is awaited (`AllAwaited`).

**IntentJournalProofs**

| Theorem | Statement |
|---|---|
| `InductiveInvariant` | `Spec => []IInv` |
| `TypeCorrect` | `Spec => []TypeOK` |
| `ChainHoldsOneLive` | `Spec => []OneLiveOperation` |
| `SuccessorsFollow` | `Spec => []SuccessorFollows` |

A staging process looks into files one after another and inserts much later. What it
looked into stays so because the journal it stages into is locked and so cannot be
retired, and all others of a sound chain are retired and so admit nothing. For that,
chains have to be linear and to end at the first journal, and a journal whose chain
is not sound has to be empty. The lemmas about chains (`Behind`, `Sound`) are about
any links, before and after a step. The theorems hold for both values of `Strays`.

**RepositoryTaskProofs**

| Theorem | Statement |
|---|---|
| `InductiveInvariant` | `Spec => []IInv` |
| `TypeCorrect` | `Spec => []TypeOK` |
| `PilotsAgreeWithTasks` | `Spec => []RunsBelongToTheirTask` |
| `ReclamationIsSafe` | `Spec => []ReclaimedIsUntouched` |
| `OutcomesStand` | `Spec => SettledRunStands` |

No transaction spans the task's store and the pilot's journal, so neither safety property
is about what one action checks. What they need:

- `LocksFit`, `HolderFits`: a call has the locks its step needs and no others, and while
  a task's lock is held its state is the one the call began with. So what `advance` and
  `recover` saw of the task holds when they come back from the journal.
- `StepFits`, `TaskFits`: what a call remembers of its pilot is still so where it matters.
  A settled row stays settled (which is `OutcomesStand`), so a task that takes over the
  outcome it saw some steps ago takes over the one that stands.
  A reservation is made inside the transaction that judged the task's operation open, and
  in between nobody closes that operation: it takes a settled row, and no other
  transaction settles one while this is open.
- `PilotFits`: a container that may still come up (its client was started) is behind a
  dispatch that has no answer, whoever died since. `BeginReclaim` refuses such a pilot, and
  what it demands of task and row stays so; that is `ReclaimedIsUntouched`.

**PilotSuccessionProofs**

| Theorem | Statement |
|---|---|
| `InductiveInvariant` | `Spec => []IInv` |
| `TypeCorrect` | `Spec => []TypeOK` |
| `RetiredHasAnHeir` | `Spec => []RetiredHasItsHeir` |
| `RetiredStaysCaptured` | `Spec => []RetiredIsCaptured` |
| `WalksAreRefusedForLength` | `Spec => []WalksArrive` |
| `RetirementIsFinal` | `Spec => RetiredIsClosed` |

Journals and bundles only grow (`Grows`), so what a call read of them before it acts
is still so (`CallFits`). For walks that is `Reaches`: the journal a walk is at is
reachable from where it began, through journals that are retired and stay so, and so
the way back exists.

That a walk meets no journal twice is an invariant of its own, `NoCycle`: among any
journals there is one that leads to none of them and one to which none of them leads. A
journal leads to the heir it names, and already to the one a retirement is about to give
it. Such a link is added when the heir was found not to be there, and what is not there
leads nowhere (`EdgesExist`), so it closes nothing (`EdgeToTheLast`). `SeenFit` says
that what a walk has passed leads to where it is; a journal met again would be a set
without a last one. What is left of the refusals is the length (`RefusedForLength`).

**BatchesProofs**

| Theorem | Statement |
|---|---|
| `InductiveInvariant` | `Spec => []IInv` |
| `TypeCorrect` | `Spec => []TypeOK` |
| `OnlyReviewedWork` | `Spec => []ReviewedWorkOnly` |
| `WorkStaysReserved` | `Spec => []WorkIsReserved` |
| `EarlierEntriesDone` | `Spec => []EarlierAreDone` |

None of the three safety properties is inductive alone. What they need:

- `CallsFit`, `LocksFit`: a process that runs a batch holds the dispatch lock,
  its entry is running and below the limit, and while inside `advance` it holds
  its task's lock. Hence no two processes run batches, and `abandon`, which
  takes the dispatch lock, meets no entry at work.
- `NothingElseOpen`: while a batch runs, no other entry of it needs review.
  `BeginRun` establishes this with `Clear`, and only the entry at work changes
  after that. With `Foremost` it gives `EarlierAreDone` when an entry is reserved.
- `SnapshotsAreOwn`: an entry whose snapshot still is its task's, or is about to
  be saved as such, has seen no foreign change. The task's lock covers the
  comparison and the first change, so the work begins on such a snapshot, and
  nobody else changes the task until it ends.
- `PendingIsFresh`: an entry not begun has taken no step, which `TypeOK` needs
  at the first checkpoint.

Only model-checked: every liveness property (`EveryCallReturns`, `RunEnds`,
`OpenIsSettled`, `RecoveryGetsThrough`, `InterruptedTaskEnds`, `ReclamationEnds`,
`RunningIsResolved`, `WorkIsFound`), which TLAPS does not handle, and
`OneEffect` of Outbound, for the reason above. Every other property of a passing run is
a theorem.

The proofs of RepositoryTask cover Pilot as well, whose actions it composes.

## 6. What is not modelled, and the plan

Not modelled because there is nothing a model checker would add: argument
parsing and printing, HTTP routing and rendering, JSON schemas, signatures and
secrets as such, providers and prompts, deployment and acceptance reports, and
the scripts.

Left out of modules that model the rest of their part:

- the content of specifications, evidence and bundle documents, and of the fields of
  an action: the verdicts over them are pure functions of one document;
- enrolment, signatures and nonces of agents, and a role's queue other than the
  project manager's;
- the broker service's pilot routes, and pilots bound to no task: the same calls
  with fewer guards;
- writing, verifying and drilling backups of the integration journals, and byte
  capacities.

Not modelled yet, in the order in which they would be worth it:

1. **ArtifactStore**: writers, the collector, backup and restore. Ownership shows that
   whole-store maintenance runs alone; what it deletes is not looked at.
2. **Broker and kernel composed**: the promise the kernel relies on (an
   operation's outcome is decided once) as an abstract module that Broker
   implements.
3. Rotation of the broker's secret, and the operator's session: one file each.
4. The verdicts of the evidence and approval documents as operators, compared
   with a declarative definition over bounded inputs.

Worth proving with the second: that Broker implements that module, for all constants.
