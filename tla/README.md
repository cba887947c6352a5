# Verification of SarembokVE

TLA+ models of the stateful core of this repository, checked with TLC on small
instances and, where it pays, proved with TLAPS for every value of the
constants. Paths are relative to the root of the repository. `PROJECT.json`
lists components, runs, mutants, theorems, findings and hazards, and maps every
definition to the lines it models.

## 1. The system

SarembokVE is two runtimes in one repository. The **Fabric** (`fabric/src`,
JavaScript, one event loop) replicates commands with a Raft engine, keeps a
hash-chained transaction log in SQLite, and drives a "flywheel" of agents. The
**Python runtime** (`Runtime`, threads and asyncio) keeps knowledge as an
event-sourced store in SQLite, writes agent memory through a single writer
thread, and holds many smaller services.

| Component | State | Operations | Interaction and what makes it hard | Correct when |
| --- | --- | --- | --- | --- |
| Raft engine, `consensus/raft_consensus.js` | term, vote, role, log of hashed entries, commit and apply indexes, next/match maps, collected votes, two timers | `startElection`, `sendHeartbeats`, `propose`, four message handlers, `applyLogs` | messages through a callback transport: late, lost, repeated, reordered; all state is lost with the process | one leader a term, one vote a term, logs match, committed is held by a quorum and never rewritten, timers always armed |
| Raft clients (`propose`) | promises and listeners on `COMMIT` | propose, resolution, 5 s time-out | a leader is deposed while callers wait | an answer COMMITTED is true, final and the same for all |
| Raft lifecycle | timers, peer set | `start`, `stop`, `addPeer`, `removePeer`, restart | calls interleave with messages under way | active roles keep their timers; a vote is only forgotten by a restart |
| Raft over HTTP (same file, l. 529-841) | the same log | `startRpcServer`, `replicateToPeer`, two handlers | a second engine with other rules on the same fields | logs match, hash chain whole |
| State mesh, `memory/distributed_state_mesh.js` | a Raft node and a WAL store | `createSession`, `commitMicroStep`, `applyRaftCommand` | Raft commands applied to SQLite | replicas hold the same rows |
| WAL store, `memory/wal_store.js` | sessions, agents, `transaction_log` with a hash chain per session | `commitMicroStep`, `rollbackStep`, `burnTokens`, queries, `verifyIntegrity` | written by every agent; identifiers may repeat | the chain verifies; tokens add up |
| Flywheel kernel, `runtime/fabric_kernel.js`, `agents/`, `guardrails/` | agent statuses, pending directives | `executeFlywheelTurn`: policy, budget, delegation, timed execution, loop detection and mitigation, audit | turns overlap at every `await`; executors answer after their timer | SUCCESS is backed by the log, loops are broken, every turn ends |
| Knowledge runtime, `Runtime/sarembok_knowledge_{runtime,api,persistence,sqlite,recovery,...}.py` | tables of entities, events, snapshots; per process a log and a reducer | create, publish/transition, checkpoint, recover | several processes on one file; crashes between statements; damaged snapshots | the log has no gap, a process comes back with what is durable, views are true |
| WAL memory manager, `Runtime/wal_memory_manager.py` | write queue, table, futures, writer thread, stop event | submit with or without a future, `start`, `stop`, batches in a transaction | thread against thread; a batch fails as a whole | one writer, true answers, rows never go back, waiting callers are answered |
| Voice orchestrator, `Runtime/sarembok_voice_orchestrator.py` | table of turns with interrupt flags, queue of turns, current task, state | `QUEUE_TURN`, `START_ORCHESTRATION`, interrupts, `execute_turn`, `orchestration_loop`, restart | coroutines, cancellation at every await, a ledger that may raise, two loops started at once | the ledger says who speaks, an interrupted turn ends, every turn taken ends |
| Dual-tier memory, `Runtime/dual_tier_memory.py` | L1 with TTL (Redis or a dictionary), L2 documents, page table, active pages | `set_context`, `get_context`, demotion, `allocate_page`, `access_page`, swap-outs | Redis is lost, entries expire, old documents compete with new ones | what is read is the newest that was written |
| SKTB event bus, `Runtime/sktb_event_bus.py` | bounded queue, counters, dispatcher thread, Kafka producer | emit, dispatch, `start`, `stop`, `flush` | thread against thread, a batch half sent, a stop half done | accepted events are counted once and in order |
| Micro-VM sandbox, `Runtime/sandbox_microvm.py` | per call: processes, temporary files | `execute_isolated_code`, `compile_and_run_unikernel` | time-outs, missing binaries, fallbacks inside handlers, cancellation | an answered call leaves no process and no file |
| Consensus network, `Runtime/consensus_network.py` | votes, window of entropies, checkpoints, current state | create, cast, resolve, save, roll back | drift between agreements, dropped checkpoints | a rollback does not go behind an agreement |
| Tamper-evident ledger, `Runtime/tamper_evident_audit.py` | rows of a hash chain in SQLite | record, verify, report | several writers, a reader with two connections, damage | a chain that verifies is what was committed, whatever was damaged |
| Agent scheduler, `Runtime/aas_grpc_service.py` | registrations, quanta, queues of payloads | register, schedule, route, stream | an agent registers again with payloads waiting | payloads arrive once and in order |
| Evaluation harness, `Runtime/eval_harness.py` | detector history, report; isolation contexts, threads, export directory | evaluate a trajectory, rank tasks; set up, run, export, tear down | one detector for all trajectories; a thread that outlives its time-out | reports are true; a finished job's artifacts are copied or their loss is told |
| Agentic execution, `Runtime/sarembok_agentic_execution.py`, `sarembok_agent_runtime.py`, `sarembok_long_horizon.py` | record of a run, two rows in the memory, a task with its checkpoint | `run`, `handle_event`, `start`, `advance`, `recover`, `complete` | limits, retries, death between two writes | what is written down is what was done; work stays bounded |
| Knowledge scores, governance, trust, `Runtime/sarembok_knowledge_*.py`, `sarembok_governance_*.py` | usages, confidences, decay, conflicts, decisions, their ledgers, trust of a piece | record, apply, decay, resolve, decide, replay, validate | confidences move between a resolution and its decisions | contradicting claims are not trusted together; ledgers replay |
| Telemetry, `Runtime/sarembok_telemetry.py` | open spans, collector | trace a turn, trace a tool, finish | blocks left by exceptions and cancellations | a received span tells how its block was left |
| Artifact factory, `Runtime/handlers/artifact_factory.py` | export directory | eight generators | failures half way, two calls on one name | a report is of the call's own whole file |
| Human approvals and OpenShell, `Runtime/HITLTrigger.js`, `OpenShellSupervisor.js` | approval rows with expiry | request, approve, reject, list, execute | processes decide and read between another's SELECT and UPDATE; expiry | what needs approval runs only on a request approved while pending and in time |
| Workforce, agent registry, model fallback, semantic cache, schema registry | a list or a map each | transitions, get/put | sequential | legal transitions only; no stale answer |
| Everything else | none between calls | servers, SDKs, CLI, builder, perception and avatar helpers | input and output | - |

The services of `Runtime` share no state with each other, with one exception:
governance reads the confidences that the scores move.

## 2. Modules

| Module | Models | Builds on |
| --- | --- | --- |
| `Raft` | the message path of `RaftNode` | - |
| `RaftClient` | promises of `propose`; with two nodes implements `ReplicatedLog` | extends `Raft` |
| `ReplicatedLog` | abstract specification: one growing log, applied prefixes, answers that stand in it | - |
| `RaftCluster` | start, stop, peers, restarts | extends `Raft` |
| `KnowledgeLifecycle` | the states of knowledge and the legal moves | - |
| `KnowledgeHistory` | abstract specification: entities and one growing history of legal moves | extends `KnowledgeLifecycle` |
| `KnowledgeRuntime` | the runtime over SQLite; implements `KnowledgeHistory` | instances it |
| `WalWriter` | the queue, the writer thread, start and stop | - |
| `WalStore` | the transaction log as operators: chain, replacement, rollback, queries, verification | - |
| `Flywheel` | concurrent turns over agents, guards and `WalStore` | extends `WalStore` |
| `VoiceTurns`, `DualMemory`, `EventBus`, `MicroVM` | the services that wait, time out and race | - |
| `ConsensusNetwork`, `AuditLedger`, `AgentScheduler`, `Telemetry`, `ArtifactFactory`, `Approvals` | what agents agree on, record, get, trace, export and are allowed | - |
| `EvalHarness`, `LoopTeardown` | trajectories with their reports and ranking; isolation contexts | - |
| `AgenticExecution`, `LongHorizon` | runs and their records; a task with checkpoints | - |
| `KnowledgeScores`, `KnowledgeGovernance`, `KnowledgeTrust` | confidences; conflicts and decisions on them; trust of one piece | the second extends the first |
| `Totals` | sums and powers as recursive functions, used by `Flywheel` and `KnowledgeScores` | - |
| `RaftProofs`, `RaftLogProofs`, `KnowledgeProofs`, `WalProofs`, `FlywheelProofs`, `ServiceProofs` (voice, memory, bus, sandbox), `AgentWorkProofs` (what `MCAgentWork` composes) | theorems | extend the modules they are about |
| `ProofLemmas` | facts about numbers, sequences, sums and powers that several proofs use | - |
| `MCServices`, `MCAgentWork` | the services, and the agents' parts, side by side | extend the modules they compose |
| other `MC*` | symmetry sets and values for TLC | extend their module |

### Raft, RaftClient, RaftCluster
One action is one turn of the event loop: a timer callback (`StartElection`,
`Heartbeat`), the delivery of one message (`Handle...`), or the synchronous part
of `propose`. `messages` holds every message ever sent, so a message may come
late, in any order, twice, or never. Each handler is modelled with its prologue
(`ObserveTerm` steps down on a newer term) and every path through it: the log
consistency check, `MergeEntries`, `CommitAfter`, the application of entries
(a callback may throw, constant `Poison`), the reply with `matchIndex` as the
code computes it. `RaftClient` adds `pending` and `settled`; the listeners run in
the step that advances `commitIndex`. What clients rely on is stated by `ReplicatedLog`
(`OneLog`, a safety property, so that symmetry of nodes is sound for it): the committed
log is that of the node that has committed most. `RaftCluster` adds the lifecycle calls; a
restart returns the constructor's state because nothing is on disk.
Left out: `leaderId`, event emission other than `COMMIT`, entry ids and times.
The entry hash is determined by the prefix it closes, so it is not stored.

### KnowledgeRuntime
A process is `down`, then `hydrated`, `booting`, `ready`, and in between
`recovering` or `checkpointing`. One action lies between two statements of the
database; `Crash` may fall between any two. Sequence numbers come from the log
in memory, so two processes can collide on the primary key: the insert fails
and the append is undone (`PublishConflict`). `Corrupt` damages a stored
snapshot so that its digest no longer matches. `Spec` reaches `publish` through
the API, which builds the event; `DirectSpec` also lets a caller pass any event.

### WalWriter
Callers put operations on the queue (`Submit`), one controlling thread calls
`start` and `stop` (in two steps, the join being a wait), and each writer thread
goes through taking, draining, committing or refusing, and answering. An
operation is the n-th write to a key, so a row shows which write it holds. A
`bad` operation is refused by SQLite and rolls the batch back; an `odd` one
raises what the loop does not expect and drops the batch with its futures.

### WalStore and Flywheel
The log is a function from rowids to rows, a rowid being the number of the append
that wrote the row; as no two payloads are equal, the rowid stands for payload and
hash, and a link is the rowid of the row before. What a session or a sender has in
the log is a set of rowids. `CommitMicroStep` reads link and step number first and
then replaces any row with the same `task_id`, as `INSERT OR REPLACE` does; the
rows it took out are kept in the history `removed`. Delegations and yields are
identified by `Date.now()` alone: each takes a new time or that of the last record
of its kind, so that any number of turns may share a millisecond (the two kinds are
stamped independently, which includes all that one clock can do). Executions and
audits have a random part and are always new. A turn is `new`,
`working` (executor runs, timer armed), `answered` (microtasks pending), `done`.
`Begin` is everything up to the first `await`; `ExecutorReturns` and
`ExecutorThrows` may come after `Timeout` and then change the log and the
agent's status but not the turn; `Conclude` is everything after the delegation.
`delegateToWorker` and its caller resume in two microtasks that are one step
here: the first only sets the strategist's status, which nothing reads. The order
of microtasks is free, which includes every order Node can take. `overlapped` is a
history: the sessions and workers that had two turns at a time.
Left out: a session that does not exist (the turn throws at once), an executor
that returns `undefined`, similarity as a number (outputs are similar or not). No
worker is named `strategist` or `auditor` (part of `FlywheelAssumption`), so that the
row of an agent is its own.

### The services (composed in MCServices)
*VoiceTurns*: all coroutines run on one event loop, so an action is what one of
them does between two awaits. A task is named by the loop that made it; a task
that is cancelled runs its handler at its next resumption, or is dropped if it
had not begun. `UpdateRaises` is a ledger that raises, inside and outside the
`try`. `overlapped` remembers that two loops were alive together.
*DualMemory*: the two tiers keep documents with the version they hold. The search
of L2 is a choice among what matches best, as vectors are left out; a document
written for a page replaces the one before. The pages in use are a sequence, the
one accessed longest ago first.
*EventBus*: emitters, one dispatcher thread, and the threads that call `start`,
`stop` and `flush`. `accepted`, `handled` and `sent` are histories of what the
queue took, the counter counted and Kafka took. `send` may raise at any event.
*MicroVM*: per call the phase it is in, its processes and its files; every
missing binary, time-out, fallback and cancellation is a step.

### What agents do (composed in MCAgentWork)
*ConsensusNetwork*: votes and entropies in exact fractions; a snapshot is the
proposal agreed on or a caller's state. *AuditLedger*: SHA-256 is taken as ideal,
a hash being what was hashed; recorders take their time before the lock; damage
changes any column or removes a row. *AgentScheduler*: one action a handler, as
none awaits with the lock held. *EvalHarness*: the steps of
`evaluate_trajectory` with the detector's five rules over whole calls, the
registry and policy the code makes by default, and the ranking of tasks as
integers (scores in ten-thousandths). *LoopTeardown*: contexts with a thread that
may outlive its time-out; `teardown` walks the directory and what is under
`artifacts`, and copies file by file to the base name, which opens, ends or fails
while other contexts copy to the same name; the directory then goes, whatever
failed. `saved` and `warned` are histories of copies that ended well and of warnings.
Where two copies wrote one name at a time, either's content or a mixture stands.
*AgenticExecution*: `run` and `handle_event` with their
limits, and the two rows written one after the other, between which the process
may die. *LongHorizon*: the status machine of one task. *KnowledgeScores*,
*KnowledgeGovernance*, *KnowledgeTrust*: confidences in ten-thousandths; knowledge
is registered with any status, trusted included, and `answer` is the status of the
copy that `validate` returned, which is not always what is kept;
`KnowledgeGovernance` adds the caller the classes are made for: conflicts are
resolved on confidences that go on moving, decisions are taken and recorded.
*Telemetry*: blocks nest in each agent's thread and are left by a return, an
exception or a cancellation. *ArtifactFactory*: a call writes, then asks the path
for size and hash, with other calls in between; source code is checked by the
language of its suffix or any other that is named, or not at all
(`validate_syntax=False`), and the report says which. *Approvals*: a function of
`HITLTrigger` reads a row and the clock in one step and writes in another, as each
process has its own; `executeSafe` asks, reads the status, logs and runs. Which
actions the policy prohibits or gates is given by constants.

`MCServices` and `MCAgentWork` set several modules side by side. A variable
`subject`, chosen at the start, says which of them runs; the others stay as they
begin. As the modules share no state this checks each module alone, in one run.
Voice and memory are cut once more: two loops with one turn or one loop with two
turns; pages or contexts.

## 3. Runs

`CHECK_DEADLOCK FALSE` in every run: the bounds, not the program, stop the
models. Symmetry is used for nodes, keys and processes that no constant tells
apart, and not in the two runs that check liveness.

| Run | Instance | Question |
| --- | --- | --- |
| `raft_trio` | 3 nodes, 2 terms, 2 entries, 2 interchangeable commands, 15 messages | Are elections safe, votes unique and from the right term, logs matching, timers armed? Two terms are what a stale vote or a deposed leader needs; with three nodes a message of each kind can be outdated. |
| `raft_client` | 2 nodes, 3 terms, 2 commands of which one throws, 12 messages | Is what is committed held by both, applied in one order, known to later leaders, are acknowledgements true and final, and is the cluster one growing log to its clients (`OneLog`, a refinement)? |
| `raft_managed` | 2 nodes, 2 terms, 3 lifecycle calls, 7 messages | Do the timers of active roles, terms and votes survive start, stop, peers coming and going, and does only a restart forget? |
| `raft_commit_quorum` (violation) | 3 nodes | Is a committed entry held by a quorum? |
| `knowledge_single` | 1 process, 2 pieces of knowledge, 3 events, 1 crash, checkpoints, damage | Can it always come back, with exactly the durable state, and is the table one legal history (`OneHistory`, a refinement)? |
| `knowledge_pair` | 2 processes, neither of which writes checkpoints, any event published, 2 events, 2 crashes | No gap, views that were true, views that never go back. |
| `knowledge_pair_checkpoint` (violation) | 2 processes, one checkpoints | Is a checkpoint the state after its sequence number? |
| `wal_writer` | 3 writes of any kind to a row, batches of 2, 1 stop, 2 starts | One writer, true answers, no row going back, waiting callers answered. |
| `kernel_turns` | 3 turns, 2 sessions (caps of 300 and 1000 tokens), 1 worker, a safe and an unsafe output, 1 record that replaces another of its millisecond | Do the chains of sessions that lost no row verify, do tokens add up with the rows that were lost, is SUCCESS backed by the log, are loops broken, and comes a time from which no turn waits (`TurnsEnd`)? |
| `runtime_services` | voice: 2 loops over 1 turn or 1 loop over 2, 2 segments of audio, 2 accidents; memory: 3 pages of 2 processes with 1 active, 2 contexts of 2 versions; bus: 3 events, queue and batch of 2, 1 stop; sandbox: 2 calls, one of them of a unikernel | Is it known who speaks (`SpeakerKnown`), is the newest of memory found (`MemoryKept`), are events accounted for (`EventsAccounted`), do calls clean up (`NothingLeftBehind`), does what was accepted end (`AcceptedEnds`)? |
| `agent_work` | 2 proposals, a window of 2, 1 vote, 2 resolutions, 3 checkpoints; 3 blocks, 2 recorders, 2 damages; 2 agents, 2 payloads; trajectories of 7 calls with a limit of 6; 2 contexts with 2 names, one of them exported from anywhere; runs of 4 actions with 3 steps, 1 retry; tasks of 5 steps, interval 2, 2 recoveries; 3 claims, 2 usages, 2 decays; 1 piece of knowledge; 3 spans; 2 generators; 2 supervised calls, 2 requests, 2 operators | Is what each part reports of itself true: agreements, chains, payloads, reports, exports, executions, bounds, confidences, trust, audits (`GovernanceTrue`), spans, artifacts, approvals? |
| `execution_completed` (violation) | runs of 2 actions | Is a run whose actions were all done COMPLETED? |

Bounds, all in guards or constants: `MaxTerm`, `MaxLogLen`, `MaxMessages`
(a step that would send more distinct messages is not taken), `MaxCalls`;
`MaxEvents`, `MaxCrashes`; `MaxBatch` (100 in the code; 2 lets a batch be full
and split), `MaxWrites`, `MaxStarts`, `MaxStops`; `MaxTurns`, and `MaxReplaced` (one
replacement takes out a delegation or a yield of either session, with or without rows
that link to it; how many there are matters to no argument, and no theorem bounds
them); `MaxFiles` (two files of a context are two names, or one name in both
directories), `MaxUses`. The caps of
`kernel_turns` make the second turn in a row of one session reach its cap, while
the other has tokens for the three turns a loop takes. In `runtime_services` a
queue of two with three events is full once, a batch of two is full and is not,
and the third page makes a swap-out in another process; two accidents are what an
exception inside an exception handler needs. In `agent_work` seven calls exceed
the limit of six steps and hold each kind of loop (three equal, two in turn, three
in turn, six of one tool); the long horizon of the entropy rule (13 calls) is in
the model and beyond the instance. Two operators and two requests let every write
of a decision come after another process has decided otherwise. A third recovery, vote or block adds no new
order of the two that matter.

Every property of a passing run has a mutant: a definition changed the way a
plausible bug would change it (a vote not compared with the log, a candidate that
counts itself out, a reply heard after the race was lost, a rollback that
deletes...), with which TLC finds the property violated.

**Fairness.** Raft and knowledge runs state none. `WalWriter` assumes weak
fairness of each writer thread: the operating system schedules it. `Flywheel`
assumes it of the timers together and of the microtasks together, one of which Node
runs whenever there is one; not of executors, which may never end. `VoiceTurns` assumes it of each loop and task (asyncio resumes
every ready coroutine; playout sleeps end), `EventBus` of the dispatcher thread.
The other services and `MCAgentWork` state none.

## 4. What the runs show against the documents

- `raft_commit_quorum`: a success reply carries the length of the follower's
  log, stale suffix included, so a leader commits an entry only it holds.
- `knowledge_pair_checkpoint`: a process that lags files its own old state under
  the last sequence number of the table.
- `execution_completed`: `run` sets COMPLETED and then files a checkpoint, which
  sets CHECKPOINTED: the state its own test expects is never returned.

Seen while modelling, and not among the runs. In the Fabric:

- collected votes outlive their term, and a node of four leads without a quorum;
  with `MaxMessages = 22` two leaders of one term follow. Up to three nodes
  `ElectionOfThree` proves safety;
- listeners of `propose` compare the index only, so a deposed leader answers
  COMMITTED for a command that was overwritten;
- a stopped Raft node is armed again by a late message (l. 329, 369, 415);
- a restart forgets term, vote and log, called "persistent" at l. 53;
- the HTTP handler of appended entries (l. 768) keeps an entry of the same term
  whatever its content;
- two turns that begin in one millisecond share `task_<Date.now()>`: the second
  takes the first's row out of the chain, and `verifyIntegrity` reports tampering
  (`LedgerVerifies` without its exception fails with two turns); two yields of one
  millisecond do the same;
- a turn whose worker failed carries no transaction, and mitigating a loop then
  takes back the worker's last step, which may belong to a turn that answers
  SUCCESS (`TurnsBacked` without its exception fails with four turns of one
  session: two answer, one fails, and one has just recorded its step);
- an executor that ends late sets a FROZEN or HALTED worker IDLE again, and an
  audit of a failed reply leaves the auditor BUSY;
- a Raft node whose log was cut and that then leads alone counts its commit index
  anew, below what it has applied;
- turns of one session and worker that overlap can leave a loop that no audit
  breaks, as each audit looks at the log before the other's step (five turns);
- `reject` (`HITLTrigger.js:159`) overwrites a request that was approved.

In the Python runtime:

- `publish` makes an event durable before the reducer refuses it, and a process
  whose append conflicted keeps a log it can never append to again, even after
  `recover`; a snapshot that is not readable JSON stops every start;
- a SHUTDOWN nobody took ends the writer thread of the next start; `join` gives up
  after 3 s where SQLite may block for 30, and then a `start` makes two writers
  (`SlowWriter = TRUE`);
- with two voice loops an interrupt reaches the task made last only;
- `access_page` does not heed the limit of active pages, and a page fault takes
  the best match of a search for the page;
- `flush` returns when the queue is empty, with a batch still unsent; `start`
  during a `stop` finds the thread alive and leaves the bus without one;
- a unikernel that times out, and a fallback process of the sandbox that does, go
  on running;
- a vote cast twice weighs twice;
- a negative `priority_override` (`eval_harness.py:714`) can take a score below
  zero, and halving it is then a reward for looping;
- a block recorded on a row whose hash had been damaged into that of no block begins
  a chain of its own once that row is gone: two damages the ledger cannot tell;
- a timed-out job of a torn-down context goes on, though the docstring speaks of
  "cancellation of active threads"; and though that of `teardown` speaks of a teardown
  that "guarantees artifact preservation", a copy that fails is logged and the
  directory removed, and files of one base name overwrite each other;
- `recover` takes up a task that is finished;
- a consistent decision carries a selected id, which the audit ledger refuses;
- `validate` quarantines the copy it returns and not the piece it keeps, so that
  knowledge registered as trusted without evidence stays so in the manager;
- a cancelled block exports no span; the check of brackets ignores what stays open, and code is
  written unchecked with `validate_syntax=False` or another `language`.

## 5. Theorems

All leaves are checked by `tlapm`; nothing is assumed but the named assumptions
on constants, one or two in each module that has constants (`NodeAssumption`,
`FlywheelAssumption`, `HarnessAssumption` and so on), which TLC evaluates in the
runs, and the hypotheses the statements show (`Cardinality(Node) <= 3`, `~SlowWriter`,
 no checkpointer, one process). In each component `X`, the inductive
invariant is `XInv` and the lemmas named `...Keeps` or `...Kept` are its steps.

**Raft** (`RaftProofs`), for a cluster of any finite size and any bounds:
`TypeCorrect`; `VotesCorrect`, the inductive invariant `VoteInv`; from it
`VoteOnce` (no two candidates get a node's vote in a term), `VotesStand` (no
step lowers a term or recasts a vote), `ElectionOfThree` (at most three nodes: no
two leaders in a term), and `TimersCorrect`. `OneVotePerTerm` is not inductive:
it speaks of messages, while the handler decides by `votedFor`. `VoteInv` ties
the two: every granted reply of a node's current term names its `votedFor`, none
is of a later term, every leader voted for itself and holds one granted reply of
its term from another node (or is alone). With three nodes, two leaders of one
term would share the third node's vote, or one would have the other's.

The lifecycle calls keep types, timers of active roles and, but for a restart, terms
and votes (`ClusterTypeCorrect`, `ClusterRolesTimed`, `ClusterForgets`); these follow
from the types alone, as a stopped node may be armed again by a late message.

**Raft logs** (`RaftLogProofs`), for at most three nodes: `LogMatchingOfThree`. That a
term has one leader at a time is not enough: a term must have one winner for ever
(`OneWinner`, from `BallotInv`: who asks for votes in a term grants none in it). The
argument is about `Fragments`, the logs and the pieces of logs that messages carry:
`LogInv` says that any two of them that have an entry of one term at one index agree
up to it (`AllAgree`), that every term in them is that of a winner who has led it
(`Owned`), and that a leader's log is as long as any run of entries of its term (`Fresh`).
A merge that cuts a conflicting suffix and a late message with an older piece keep
this; a log that was cut stays a fragment of the messages it was sent in.

**Raft, two nodes** (also `RaftLogProofs`), on the hypothesis `Cardinality(Node) <= 2`,
any bounds, any loss, repetition and lateness of messages: `CommitsOfTwo`,
`LeadersOfTwo`, `LogsOfTwoGrow`, `PromisesOfTwo` and the refinement `OneLogOfTwo`. The
hypothesis is needed: of three nodes `raft_commit_quorum` shows an entry committed that
one node holds. Of two nodes the winner of an election has the vote of the only other,
whose log was not longer and does not grow until it is sent entries; so one log always
continues the other, and no merge ever cuts. `PairInv` (`PairCorrect`) says this
(`LogsNest`, `TermsRise`), what every message under way says of logs (`MessagesTrue`: a
vote request of its sender's log, a granted vote of both, an append of an entry run that
stands in some log, a success of the length of its sender's), and that no `matchIndex`,
`nextIndex` or `commitIndex` runs ahead of the log it speaks of (`IndexesTrue`). As logs
only grow, what a message said when sent is still true when it comes, however late.
The wrong `matchIndex` of a success reply does no harm here: a suffix the leader does not
have is impossible while it leads. Clients are to the engine just its proposals
(`ClientsRunTheEngine`), and `ClientInv` says of each promise where it stands.
`OneLogOfTwo` reads the committed log at the node with the highest commit index: commit
indexes rise (`CommitsRise`), it is a prefix of every log (`HistoryKnown`), and who waits
has his own entry at the index of the promise (`OwnEntries`), so the comparison of
indexes in `onCommit` cannot answer for another's command.

**Knowledge** (`KnowledgeProofs`), for any number of processes, events and
crashes, with `publish` open to any event: `RuntimeTypes`, `LogWithoutGaps`,
`ViewsWereTrue`, from `LogInv`: the table is `1..n`, no process has a longer log
than the table, and every reducer entry, snapshot and loaded checkpoint names
an event that says what it says. `OneHistoryWithoutCheckpoints`: with no
checkpoint written, any number of processes implements `KnowledgeHistory`; each
step maps to a creation, a legal move or a stutter. `HistoryInv` adds that what a
process shows is the state after the prefix it has logged; a lagging process
cannot append, as its number is taken. With checkpoints and two processes this
fails, as `knowledge_pair_checkpoint` shows. `ViewsNeverGoBack`, on the same
condition: as long as a process lives, what it shows of a piece never gets older.
`AloneIsSound`, for one process with checkpoints, crashes and damage: `AloneInv` adds
that every stored checkpoint is the state after its number and that, between two
statements, table, log and reducer are at most one event apart. Hence also
`OneHistoryAlone`: such a process implements `KnowledgeHistory`, as `knowledge_single`
checks, for any number of events, crashes, checkpoints and damages.

**WAL writer** (`WalProofs`), for any keys, batches, starts and stops, on the
condition `~SlowWriter` that the three seconds of `join` outlast the writer (it is
part of the theorems, and false of the code where SQLite blocks for longer):
`WriterIsSound` and `RowsStay`. An answer is given long after the write was
submitted, so `WriterInv` orders all of a key's writes: those answered come before
those in hand, those in hand before those queued, the queue increases, and the row
stands behind everything that still waits (`OrderInv`, `TableInv`). `ThreadInv` says
that the thread alive is the last one started; without it a second thread could
take a later batch and commit it first.

**Flywheel** (`FlywheelProofs`), for any number of turns, sessions, workers and
outputs, whichever records share a millisecond: `ChainWhole`, `TokensAddUp`,
`SuccessIsBacked`. The invariant has four parts. `LogInv`: no two rows of the log have
one identifier and no identifier is newer than the log, so a record takes at most one
row out, of its own kind, and never an execution or an audit; every row of a session
that lost none links to the one before it; the tokens burned are the sum over the rows
that are or were in the log, each append adding its own. `TurnInv`:
what a turn in each phase holds. `BackedInv`: the transaction of a turn is a row of
its own session and worker, no two turns have the same, and a row stays committed
unless its turn was intercepted or a turn of its session got a failed reply. `LoopInv`:
where no two turns of a session and worker overlapped and no reply was yielded, there is
no loop among the rows that no audit has still to judge, because each audit saw all
steps but its own; and such a worker has no row that another can replace.

**Services** (`ServiceProofs`): `EventsAreAccounted`, for queues and batches of
any size. The property alone is not inductive: that Kafka's events increase needs
to know how far into the batch the dispatcher is. `BusInv` adds `Reached`, the
number of accepted events that were sent or passed over: every event sent is among
the first `Reached`, accepted events increase, so the next one sent is later than
all before. Each action then either only lengthens `accepted`, or moves events
along `handled \o batch \o event_queue` (`NothingNewKeeps`), or sends one.
`CallsCleanUp`, for any number of concurrent calls and any host: `CallInv` says
that while a caller waits, the process started last is the only one that runs, so
that killing this one on a time-out leaves none; and that a phase belongs to the
kind of call that reaches it. A call that raises is not covered, rightly: there a
process may go on.

`MemoryIsKept`, for any contexts, pages and limits: `MemInv` adds where the text of a
context is (`StoresTrue`): what was stored last, or nothing, is in Redis while it
answers, and in the local store only once it does not; and that a page is active,
swapped out or new.

**Voice** (also `ServiceProofs`): `SpeakerIsKnown`, for any turns, loops, queue and
interrupts. What an interrupt reaches depends on three attributes of the engine,
which every loop writes. `LoopInv` gives the argument: a task that has not ended is
awaited by its loop; as long as no two loops have been alive together there is at
most one; so the task of the loop that waits is the one created last, and it alone
writes the attributes. The part about the ledger needs only the first of the three.

**Agents' work** (`AgentWorkProofs`): `WorkIsBounded`, for any length of task, any
interval and any number of recoveries. `HorizonInv` adds that the checkpoint is a
multiple of the interval and that every recovery loses less than an interval.
`TrustIsEarned`, for any registered status, confidence and evidence: `TrustInv` adds
only that nothing is answered of what is absent; the mean of two numbers lies between
them, and a call either replaces what is kept or leaves its status alone.
`ArtifactsAreAccounted`, for any contexts and names: `TeardownInv` adds what the walk of
a context has behind it and before it, and that under a name no other context tried
stands what its own copy has come to. `AgreementIsKept`, for
any window and number of checkpoints: what was agreed is stable, hence the latest
stable checkpoint, to which a rollback goes, is never before an agreed one, also
after the list has dropped its oldest (`KeptList`). `ApprovalsAreHeld`, for any
calls, operators and requests: `ApprovalInv` adds what an operator that has read and
not yet written may be about to write: APPROVED only to requests granted, EXPIRED
only to late ones. Both only grow, so the write is still true when it comes.

The same module proves the property of every other part. `PayloadsAreInOrder`: the
property is inductive as it stands. `SpansAreTold`: `SpanInv` says that open blocks
nest, that a parent is around its child while that is open, and that what was sent is
over. `ChainTellsDamage`: `LedgerInv` says how a row that is not as it was committed
shows: in itself, or in the link of the next; a new block is made on the last row, so
it hides nothing. `ExecutionsAreTold`: `ExecutionInv` ties the record of the engine
(its checkpoints, result and retries) to where `run` stands, and the two rows to the
ids in use. `GovernanceIsTrue`: `GovernanceInv` says that the claims decided on since
the last resolution have its verdict, though confidences have moved, and that the
trust of a piece is what its last record left. `ReportsAreOwn`: `FactoryInv` says
whose content a file has in each phase; that an accepted source closes nothing that is
not open follows from the scan by looking at the first place where it would not.
`ReportIsTrue`: `EvalInv` says that the detector has heard the attempts of this
trajectory and no other, and `LoopsFound` that its five rules, asked after every call,
find exactly the loops of the whole list. `ConfidenceIsTold`: the property is inductive
as it stands; the sum of impacts grows with each usage, and a decay takes a fifth and
less than one for rounding.

Sums (`TotalFacts`), powers (`PowerFacts`) and the scan of brackets are recursive
functions. What they compute is shown without an induction theorem, by looking at the
least place where two of them would differ.

Every invariant, every action property and both refinements of the passing runs are
stated by a theorem. Only model-checked is liveness (`WaitersAnswered`, `TurnsEnd`,
`AcceptedEnds`), which with `ENABLED` is out of the prover's reach. The theorems with a
hypothesis are not known, or known to be false, without it: of four nodes two may win one
term, of three an entry may be committed without a quorum, and of two processes one may
file a checkpoint under a number whose events it has not seen. The properties of the
three runs that expect a violation are false.

## 6. Plan

1. Done: Raft, its clients and lifecycle; knowledge with its refinement; the WAL
   writer; the flywheel over the WAL store; the services; the agents' work; the
   theorems above.
2. `RaftHttp`: the HTTP engine on the state of `Raft` (hash chain, same-term
   overwrites, `matchIndex` that never moves).
3. `Mesh`: committed commands of `RaftClient` applied to two WAL stores.
4. The registers of agents and tasks, the fallbacks and the cache of the Node
   runtime.
5. Done: proofs of the client properties of `Raft` for two nodes, where logs never
   conflict.

Not modelled, and why: the parts of 2 to 4 have state and are left for their
size; the policy verifier and capability tokens are pure checks whose verdict is a
choice in `Flywheel`; servers, SDKs, the command line, device control, the worker
sandbox and the builder are input and output; perception, avatar and planning
helpers are data classes and pure functions; provenance and transfer of knowledge
keep what the caller hands them; the older copies under `fabric` repeat what is
modelled.
