# Verification of the e-wallet data and AI platform

TLA+ modules, TLC configurations and TLAPS proofs for the parts of the platform whose
correctness depends on order, failure and time: the idempotent delegation of agent requests and
the processes around it, the streaming feature job from its first deployment to the stores behind
it, the publication of datasets, and the operator commands that spend money or replace data in
the cloud. The rest of the repository (table-shaped data generation, Spark and Delta batch jobs,
model training, stateless services, deployment files) is listed below with the reason it is left
out.

Paths are relative to `src/`. `PROJECT.json` maps every definition to the lines it stands for.

## 1. Inventory

### Modelled

| Part | State it keeps | Operations | Talks to |
|---|---|---|---|
| **Idempotency authority** `ai_platform/llm_agent/redis_idempotency.py` (runtime: `idempotency_runtime.py`) | one Redis hash per business request: fingerprint, state, owner token, generation, lease, stored answer, and the expiry of the key | five Lua scripts: claim, read, mark_started, complete, release_unstarted | called by every Coordinator replica |
| **Programmatic Coordinator** `ai_platform/llm_agent/programmatic_coordinator.py` | per call of `handle`: owner token, generation, the deadline of its wait, a cancellation Event | claim or wait for a duplicate; start, delegate to the Specialist, complete; release when cancelled in time | the authority, the A2A transport, the executor |
| **Coordinator executor** `ai_platform/llm_agent/byo_coordinator.py` | per task: its asyncio task, its entry in `_cancellations`, its thread of the shared pool | `execute`, `cancel`, deadline, reports | the A2A SDK, the handler in the thread |
| **In-memory store** `ai_platform/llm_agent/idempotency.py` | the same record as Redis in a dict | the same five operations | stands in for Redis in the tests |
| **Specialist cache** `ai_platform/llm_agent/byo_feature_rag_specialist.py` | per process: completed requests by context and request id | plan, look up, ask the tools, store, report; deadline, `cancel` | the A2A SDK, the tools |
| **First-deployment bootstrap** `data_platform/streaming/bootstrap/{service,silver}.py`, `messaging/redpanda.py`, `config/settings.py` | the producer's queue; partition 0 of the raw topic; the state of the job in bootstrap mode; a savepoint | replay rows in order, completion marker, flush; read, checkpoint, handover to normal mode | the feature job |
| **Flink feature job** `data_platform/streaming/flink/{job,operators}.py` | offsets; a deduplication set; per key the history of transactions and pending timestamp groups with timers; watermarks per subtask and channel; checkpoints | parse, deduplicate, classify as ON_TIME / LATE_ACCEPTED / TOO_LATE, insert, answer a group on its timer, retry, dead-letter | Redpanda topics: raw, retry, accepted, late, online, dead letters |
| **History sink** `data_platform/streaming/sinks/historical_service.py` | a buffer per partition, the assignment, the offsets of the group | poll, write an immutable object, commit, flush on the way out | Redpanda consumer group, the bucket |
| **Online push** `data_platform/streaming/feast/{service,online}.py`, `sinks/online.py` | the message at hand, the assignment, the offsets of the group | poll, push to Feast, commit | Redpanda consumer group, Feast's Redis |
| **Source dataset publication** `data_platform/generation/src/sharded/{manifest,storage,generator}.py`, `ops/gcp/generate_source_dataset.py` | a staging directory per host; in the bucket the plan, the tables and manifest of each shard, the dataset manifest | plan, scan for missing shards, generate, verify or upload each table, manifest, verify, finalize | other runs of the same command, through the bucket and the staging directory |
| **Method-2 DAG** `ops/gcp/dp2_method2.py`, `dataproc_quota.py`, `submit_silver_to_gold.py`, `data_platform/orchestration/airflow/dags/dp2_bronze_to_curated.py` | Dataproc batches, write-once evidence files, Airflow's task states | quota gate, submit or adopt a batch, verify, summarise, collect evidence, select a winner | Airflow, Dataproc, the bucket |
| **Gold recovery** `ops/gcp/recover_dp2_method2.py` | pause and DagRun state in Airflow, batches, evidence | reconcile-silver, plan-gold, run-gold-step | Airflow's REST API, Dataproc |
| **Size remediation** `ops/gcp/remediate_canonical_size.py` | the live objects and their generations, an immutable plan, a local ledger | plan, apply, rollback | the bucket, with generation preconditions |
| **Training snapshot** `ops/gcp/publish_training_snapshot.py` | the objects under one root, the completion marker | refuse a root in use, create, read back, list, mark, verify | the bucket, with creation preconditions |

### What is hard about them, and what makes them correct

* **Coordinator and authority.** Several replicas race for one key; each store call may fail
  before or after its script ran, be repeated by the Redis client, or land after its caller gave
  up; claims have leases, keys expire, Redis may restart without its last second of writes; the
  replica may die, or be cancelled, between any two calls. Correct means: the Specialist is
  delegated to at most once per retained answer, an open delegation is never forgotten, nobody
  gets the answer of somebody else's request, `ambiguous` is final, and every call ends.
* **Executor.** A handler cannot be interrupted: a deadline or `cancel()` leaves it in its thread,
  or in the queue for one, and only an Event tells it, which the handler reads once, before it
  records the start of its delegation. Correct means: no handler goes on to delegate for a task that
  was reported failed or canceled before it read the Event.
* **Specialist.** Requests of one id look for an answer, let go of the lock, and come back.
  Correct means: completed tasks of one id had the same data and report the same evidence.
* **Bootstrap.** The feeder may be killed and run again, its deliveries fail later than its
  `produce` calls return, live transactions may arrive before the cutover, and the job may restart.
  Correct means: the first normal windows count every row that was delivered, no live transaction
  is swallowed, and the handover comes about.
* **Feature job.** Each disposition subtask has a watermark of its own, so a record is
  classified under one watermark and counted under another; a split without records for 30 s is
  marked idle and no longer waited for. Event-time timers publish a row that nothing corrects
  afterwards. Each topic has an at-least-once producer of its own, and a restart forgets watermarks.
  Correct means: a published snapshot counts exactly the eligible transactions of its window,
  whatever is still on its way, but for what an idle split held back; what is too late stays out of
  online state; what is published is eligible in the accepted history or being retried; what is read
  is accepted once, dead-lettered or retried, and never dropped.
* **History sink and online push.** There is no rebalance callback: a buffer outlives the
  assignment it was filled under, and a writer that lost a partition still pushes. Correct means:
  no offset is committed that is not in an object, all but an unfilled last batch is written, and
  each row, or a newer one of its entity, is online in the end and stays.
* **Dataset publication.** Runs overlap, share a staging directory, may be of different plans or
  generator builds, and fail between any two objects. Correct means: nothing in the bucket is
  ever replaced, a manifest describes tables that are there, one version has one plan, the
  dataset manifest describes every shard, and repeating the command completes the version.
* **Method-2 DAG and its recovery.** Every batch costs money. Airflow may lose a task whose
  process lives on; a client may die while its batch runs; a write-once file may be left
  incomplete; during a recovery, patching a task may queue the DagRun. Correct means: one batch at
  a time, a submitted batch is adopted and never paid for again, no winner without both
  equivalent outputs, no launch by Airflow during a recovery, success only of what happened, and
  a chain that completes when its failed tasks are cleared.
* **Size remediation.** A command may be killed between an object and its ledger entry, a request
  may be executed after its client gave up, two applies may overlap, others may write. Correct means: every replacement is
  in the ledger before it happens, nothing of somebody else's is replaced, the dataset manifest is
  the commit marker, and a rollback that is repeated gets there.
* **Training snapshot.** Runs overlap and leave late creations behind. Correct means: the marker
  lists files that are there and stay.

### Not modelled

Of the implementation's 63 thousand lines most are dataframes, validation rules, report
writers and definitions: straight-line transformations of one input, without state that
survives them, which a state machine adds nothing to. In particular:

| Part | Why |
|---|---|
| Spark and Delta batch jobs, quality validation, storage benchmarks (`processing/`, `quality/`, `storage/`) | sequential dataframe programs that read, transform, count and report; their concurrency control is Spark's and Delta's |
| Synthetic data (`generation/src/offline`, `fintech_schema.py`) | seeded sampling of tables; its publication is modelled |
| Intake, contracts, prompt safety, tools | pure validation of one request; no state outlives the call |
| Knowledge retrieval (`rag/`) | embedding and chunking are data; its ingestion stages write each artifact once and compare a repeated one. The overlap of a retried stage with a lost process is the question `Method2` asks of a chain where it costs money; here it is left for later |
| Feast registry mirror, feature definitions, training, serving | data and stateless handlers; the mirror is one conditional write on a recorded generation, the mechanism `Remediation` is about |
| Streaming oracle (`processor.py`, `feature_state.py`, `dedup.py`, `event_time.py`) | a single-threaded reference implementation for tests; the windows it computes are those of `operators.py`, which `FeatureStream` models |
| Bootstrap mapping of Silver rows, provenance manifest, benchmark mode | row-wise data |
| The 31 features | functions of the window; a window is kept as the set of its transactions |
| What the A2A SDK does with a second final report | the SDK is not in the repository |
| DataHub emission, other operator commands | idempotent or read-only reports |
| Infrastructure, CI | declarative; the Redis settings are in `Coordinator`'s assumptions |

## 2. Modules

| Module | What it is | Checked through | Proofs |
|---|---|---|---|
| `IdempotencyStore` | the record and the Lua scripts as operators | `Coordinator`, `StoreParity` | |
| `Coordinator` | any number of calls of `handle` on one key, the store, the clock, the faults | `MCCoordinator` | `CoordinatorProofs` |
| `OneDelegation` | the abstract promise to callers: no leases, tokens, calls or clocks | `Coordinator!KeepsPromise` | `CoordinatorProofs` |
| `StoreParity` | the Redis record and the in-memory record under the same calls | `Agents` | `AgentsProofs` |
| `SpecialistCache` | executions of one request id in a Specialist process | `Agents` | `AgentsProofs` |
| `CoordinatorTasks` | `execute`, `cancel` and the shared thread pool | `Agents` | `AgentsProofs` |
| `Agents` | the three above, side by side | `MCAgents` | `AgentsProofs` |
| `FeatureStream` | the job from the source to its topics | `MCFeatureStream`, `MCFeatureJob` | `FeatureStreamProofs` |
| `Bootstrap` | feeder, raw topic, job in both modes, handover | `MCBootstrap`, `FeatureJob` | `FeatureJobProofs` |
| `FeatureJob` | the two above, side by side | `MCFeatureJob` | `FeatureJobProofs` |
| `HistorySink` | writers of one group, the bucket, the broker's part of the group protocol | `MCSinks` | `HistorySinkProofs` |
| `OnlinePush` | writers of one group, the online store | `MCSinks` | |
| `SourceDataset` | any number of runs of the command, the bucket, the staging directories | `MCSourceDataset` | `SourceDatasetProofs` |
| `Method2` | the chain of tasks, batches, evidence files, Airflow | `Operations` | `OperationsProofs` |
| `GoldRecovery` | terminals that run recovery commands, Airflow, batches | `Operations` | `OperationsProofs` |
| `Remediation` | terminals that run plan, apply and rollback; bucket, ledger, late requests | `Operations` | `RemediationProofs` |
| `TrainingSnapshot` | overlapping runs of the publication for one root | `Operations` | `OperationsProofs` |
| `Operations` | the four above, side by side | `MCOperations` | `OperationsProofs` |

`Coordinator` extends `IdempotencyStore` and implements `OneDelegation` (property
`KeepsPromise`); `StoreParity` extends `IdempotencyStore` too, so the two stores are compared
with the same scripts the Coordinator runs on. `CoordinatorTasks` says when a handler of
`Coordinator` is told to stop, and abstracts the handler to what matters for that: its check
of the Event, the call that records the start, the delegation. `HistorySink` and `OnlinePush` read what `FeatureStream` publishes, and `Bootstrap`
leads to the state it starts from; they meet only through topics, so each is modelled apart.

Some modules explore several others side by side, to ask questions of one area together:
`Agents`, `FeatureJob`, `Operations` and `MCSinks` have a variable `setting` that is chosen in the
initial state, and each behaviour is one of the chosen module, the variables of the others staying
as they were. Nothing is synchronised between them, so each property means there what it means in
its module. The first three have theorems, so what the runs check and what is proved is the same
specification.

Definitions whose comment says *Mutant* are never part of a specification: each is a plausible
bug in the definition after it, kept to show that the property it is paired with in
`PROJECT.json` notices.

### Coordinator

A handler is one call of `handle` in a worker thread. `pc` names the store call or the point of
`handle` it stands at; each store call is one action, because a script is atomic in Redis. `rec`
is the hash in memory, `aof` the hash as last synced. A command nobody waits for (its caller got
`IdempotencyBackendError`, or the client sent it twice) is the handler's `straggler`; it lands at
any later moment, or never. An expired key is not removed by an action: `Live` makes it absent to
every command, as Redis does. `sentAt`, `doneAt` and `lostDecision` are history. The contents of
evidence and synthesis are a choice between accepted and refused. Time is in ticks; equal lease,
retention and wait make every order of their ends possible.

`OneDelegation` says what a caller may rely on: open, running, done, stuck. The refinement maps
an unstarted claim, however often it changes hands, to *open*, and an ambiguous record to *stuck*.

### StoreParity

Every action calls both stores. They differ in two ways, which `parted` records: an unrenewed
claim expires as a Redis key but stays in memory, and `read` condemns an abandoned start in Redis
only. `SameUntilParted` says these are the only differences.

### SpecialistCache

An execution is at `lookup`, `tools` or `store`: the two critical sections of the lock and what
happens between them. The tools answer each run on its own, so evidence is named for the run that
got it. `Timeout` and `Cancel` end a run at any await; `CancelLate` is a `cancel()` that finds the
run done, after which the execution may still report.

### CoordinatorTasks

`at` is where `execute` awaits, `thread` where its handler is: queued for a thread, before its
check, in `mark_started`, delegating, ended. The Event is not read again after the store call
(`MarkStarted`), so a report made during it may be followed by the delegation; `early` remembers
the tasks that were reported before the check. `Abandoned` is what cancelling the future does: a queued handler is
dropped, a running one goes on. The order inside a method is kept by separate actions: the Event is
set (`Timeout`, `Cancel`) before the report is made (`ReportTimeout`, `ReportCancel`).

### FeatureStream

A transaction is read, deduplicated and classified by the subtask its id hashes to (`SubtaskOf`),
then travels a FIFO `channel` to the keyed state. The event time there follows Flink's valve:
`arrived` holds the last watermark of each channel, `standing` whether the channel holds time back
(*aligned*), is *idle*, or is active again and still *behind*, and `clock` the watermark of the
operator, the least of the aligned channels (`Advanced`), which never goes back. `Idle` is
`with_idleness`: the splits of a subtask in `Idling` may be marked idle at any moment, with records
still behind them, because a split that is only slow to be read is marked too. `Fire` is
`on_timer`: it answers a whole timestamp group and evicts. A feature row is abstracted to the set of
transactions in its window, of which all 31 features are functions; a failing one is a sample
deviation that overflows (`Fails`).

`Restart` brings back offsets, state and timers of the checkpoint and starts watermarks over. The
six sinks have a producer each, so every topic keeps any part of what it was sent since the
checkpoint, whatever the others lost (`Surviving`): of the accepted history per transaction, of the
other topics per record. What the checkpoint covers was flushed and stays, and so does a retry that
was read again from its topic, of which it is known that it was there.

### Bootstrap

The feeder appends to the producer's `queue`; `Deliver` and `DeliveryFails` are the broker's
answers to a record, the completion marker included, which come later and which only a callback
would hear; `Flush` waits for an empty queue.
The job takes the records of its mode (`Own`), fails on a live one in bootstrap mode (it stays at
its offset: there is no action that passes it) and filters rows out in normal mode. `Gate` is the
condition of the runbook and the control log for the savepoint. One entity and one subtask:
parallelism is the subject of `FeatureStream`.

### HistorySink and OnlinePush

`pc` follows the consumer loop and, in the history sink, its `finally` clause. `Assign` is the
broker: a rebalance gives partitions to the consumers that poll in time, while the others keep
what they hold and do not notice. Commits of a consumer that is no longer a member raise. An
object of the history is named by the digest of its body, so writing it again changes nothing:
`written` is a set. The online store keeps the row of the latest timestamp; that rule is Feast's,
is not in the repository, and is external to the model: `RowsStayOnline` rests on it.

### SourceDataset

A run is a publisher between `Start` and `down`, `failed` or `done`. Every read, create and
verification in the bucket is an action of its own, and so is every rename or removal in the
staging directory. The content of a table is its plan and the generator build: with both equal,
generation is deterministic. `Compare` and `Upload` read the staged file separately, as the code
does. A worker process first removes what is staged of its shard (`Clear`) and later writes and
describes the tables and renames their directory into place (`Generate`), which raises when another
run of the host was faster; the tables of a shard are written in one step. `Finalize` reads all
manifests at once, which is sound because they are immutable (`NeverOverwritten`). A range of
shards stands for `--shard-start` and `--shard-end`.

### Method2

`chain` is the list of tasks the DAG builds; `done` and `head` are Airflow's view of it, `proc`
the processes, of which Airflow waits for `current`. `Lose` fails the task and leaves its process.
A batch ID has one attempt (`batch`): a client that finds one waits for it and adopts its success
(`Adopt`), before it submits (`Look`) and after a failure of its client (`Relook`). Any request of
the task's own may fail at any of its points (`RequestFails`): the description of a batch, in the
middle of waiting for it too, the listing of the scan's output, the quota gate. That fails the task
whatever its batch does. A file is created once; a process killed while writing leaves it `torn`, which no later task can read or replace.
Whether the two outputs of a stage are equivalent is chosen in the initial state.

### GoldRecovery

A command is a sequence of requests to Airflow and Dataproc, each an action, run from one of
several terminals. Airflow is external: a patched task may queue the failed DagRun (`Patched`), and
a queued DagRun of a DAG that is not paused launches Gold (`Launch`). `seen` is the state a command
has read and acts on later. The model starts where `recover-silver` or an operator's pause left
things.

### Remediation

An object is its generation and whose bytes it has. Every write is a `Request` on the condition of
a generation; one whose client gave up stays `inFlight` and lands later, or never. `StartApply` is
the check that there is no ledger, with the preflight of the objects; `BeginApply` the write of a
fresh ledger, over whatever another apply has put there between the two: nothing is locked. That
takes one of the `MaxFaults` and is remembered in `reset`. A command keeps its own copy of the ledger and saves it whole, so what it has not saved dies with it. Objects are
numbered in the order in which apply and rollback visit them, the dataset manifest last.
`touched` remembers what was changed behind the ledger's back.

### TrainingSnapshot

Each run has its files and content of its own. `Create` is on the condition that nothing is there;
a creation whose client is gone lands later, or never. Between the listings and the marker a run
reads every file again; a `published` run has read its marker back.

## 3. Runs

| Run | Instance | What it shows |
|---|---|---|
| `coordinator_safety` | 3 handlers, 2 fingerprints, 2 faults, 3 ticks | type, at most one delegation, one open delegation, it is kept, ambiguous is final, answers are the caller's own; every step is a step of `OneDelegation` |
| `coordinator_live` | 2 handlers, 2 fingerprints, 1 fault, Redis restarts | every call ends |
| `agents` | stores: 3 owners, 2 fingerprints, 5 ticks; Specialist: 3 executions of one id, one with other data; tasks: 2 on 1 thread | the two stores agree until one of the two differences is met; completed tasks of an id report one evidence; nothing reported before its handler's check is delegated |
| `stream` | normal: 4 transactions (2 peers, one failing), 1 retry, 1 restart with any part of each topic lost, 1 key; first deployment: 2 rows, 2 live transactions, 2 runs of the feeder, 1 lost delivery (of a row or a marker), 1 restart, a queue of 2 | what is read is kept, and dead only after its retries; accepted once while remembered; what is published is eligible or retried, restarts included; rows are counted, live transactions are left, the handover comes about unless the marker was lost |
| `stream_final` | 5 transactions, one malformed, one of them twice and possibly forgotten, 2 views, 2 subtasks of which one may turn idle, no restart | published snapshots are final, but for records of the subtask that may be idle; too late stays offline |
| `stream_dropped` (violation) | 4 transactions, 1 failing | a failed event comes back too late and is dropped |
| `sink` | 2 consumers, 2 partitions; history: 2 messages each, batches of 2, 2 faults; online: 3 rows of one entity, the second older than the first, and 1 of another, 2 faults | nothing committed is missing; all but an unfilled batch is written; every row, or a newer one of its entity, is online in the end and stays |
| `dataset_safety` | 2 runs at a time, 2 plans, 2 builds, 1 host, 1 shard of 2 tables, 1 fault | manifests are true, one plan, nothing replaced |
| `dataset_resume` | 2 runs on 2 hosts, 2 shards, 2 workers, 1 fault | repeated runs complete the dataset; its manifest describes every shard |
| `operations` | DAG: 2 stages, 2 processes at once, 2 faults; recovery: 2 terminals, 6 steps of one profile, 1 fault; remediation: 1 shard (3 objects), 2 terminals whose commands overlap, 2 faults, foreign writes; snapshot: 3 runs with different files | one paid batch at a time, winners only when due, adoption, no failure of a task whose batch lives but for a fault of that step, completion of the chain; no launch and no false success in a recovery; a true ledger, foreign objects kept, rollbacks that get there; a true marker |
| `remediation_stuck` (violation) | 1 shard, 1 terminal, 1 fault | a killed apply leaves a ledger no command accepts |
| `bootstrap_lost` (violation) | 2 rows, 2 live transactions, 2 runs of the feeder, 1 lost delivery, 1 restart | a feeder reports success although a row, or its marker, was never delivered |

### Bounds

Every bound is a constant, named *bound* where it is declared: `MaxFaults`, `MaxTime`,
`MaxRestarts`, `MaxLost`, `MaxQueue`, `MaxBuffer`, `RecoveryFaults`, `Runs`, `Slot`, `End`. The instances are the
smallest in which the interesting case happens and the mutants are caught.

* Three handlers let an owner, its successor and a waiting duplicate meet. Two faults let a
  lost command land after a takeover, or a crash follow a repeated command. Three ticks are a
  lease, a retention and one more. `MaxTime` never stops a handler that waits: `Tick` goes on
  for it, so no call ends because the clock did.
* Three executions let one store, one be served and one reuse the id for other data; a second task
  on one thread is what makes the first wait in the queue past its deadline.
* Two disposition subtasks suffice for the two watermarks to differ; two peers of one timestamp,
  one successor whose window holds both, and one transaction that carries the watermark past
  them all exercise groups, windows and lateness. In `stream_final` the subtask that may turn idle
  (`Idling`) is the one of that last transaction and of a peer that may also be forgotten and
  replayed (`Expiring`): the other is the one whose records must not be missed, while the channel
  beside it goes idle and active again. `MaxBuffer` bounds the records of a channel. Channels of one record keep records and watermarks in FIFO order, which
  is all the model needs of them. Eviction never removes what a later window of these few
  transactions counts, since the retention is no shorter than the window. `stream_final` leaves
  checkpoints and restarts out (`Streaming`), because its claims end with the first restart. Restarts are explored in
  the smaller instance (`stream`), where a record may be anywhere when they happen; the proofs
  cover all others.
* In the first deployment the window of the first live transaction holds the last row, and that of the
  second none; two runs of the feeder let the log hold part of the replay and then all of it.
* Two partitions make the flush on the way out fail between two buffers, and a flushed single
  message leaves an unfilled tail; two writers suffice for one to hold a stale buffer, or to push a
  row of a partition it has lost. The proof covers all other sizes of the history sink.
* A shard of two tables can be half published; two plans and builds disagree in every way they
  can. Symmetry (handlers, fingerprints; publishers, tables) is used in safety runs only.
* Two processes are a lost one and the one of the cleared task; two faults lose a heartbeat and a
  client, or two clients. One shard gives the remediation all three kinds of objects, and a second
  fault lets a request land after the rollback of an apply that was killed, or makes a second
  apply reset the ledger of the first. Three runs of the
  snapshot have files of the same name and of different names. The proofs cover all other sizes.

Deadlock is not checked: handlers, publishers, tasks and messages are finite, so the systems
stop.

### Fairness

* `Coordinator`: weak fairness of a handler's own steps (a thread proceeds, and a store call or
  the transport answers or raises, since both have timeouts) and of the clock. None for commands
  that are still under way, for faults, or for Redis's fsync.
* `MCSinks`: the loop proceeds, a process that ended is started again by its deployment, the
  group reassigns a partition that has no live member. Faults are finite in number. Each condition
  is stated of the setting it belongs to.
* `SourceDataset`: a run proceeds, and the command is repeated for all shards as often as it can
  be (strong fairness, since it can only start between runs and until the dataset is there): the
  runbook prescribes the repetition (`docs/runbooks/edai1/cloud/source_dataset_generation.md`). The
  publishers have hosts of their own: two runs that share a staging directory can go on removing
  each other's shards for ever, and only safety is claimed of them.
* `Bootstrap` (in `FeatureJob`): the feeder is run again, the broker answers a delivery, the job reads and takes
  checkpoints, the operator hands over once the gate is open.
* `Method2` (in `Operations`): the DAG goes on and batches end. As long as a task can be scheduled,
  a process can take a step or an operator can clear a failed task (as the runbook of the DAG has
  it), some such step is taken; no one process is promised its turn, so a zombie may sleep for
  ever. Faults (a killed or failing client, a failed request, a lost worker) are finite.
* `Remediation` (in `Operations`): the operators go on. As long as a command is running, some running
  command takes a step or is killed, and as long as a rollback can be started one is started in
  the end; kills are finite and no apply needs to be run.

## 4. Proofs

Each theorem holds for every value of the constants that satisfies the assumptions of its module
(named `...Assumption`, evaluated by TLC in the runs): positive lease and retention, names distinct
from the "none" values, natural bounds, finite lists of distinct files. None is an assumption about
behaviour.

**CoordinatorProofs.** The properties are not inductive: `AtMostOnce` relates two histories that
nothing in the state connects. `IInv` connects them through the record: a delegation in doubt
owns the `started` record, or the record is `ambiguous` (`Kept`); neither has an expiry
(`RecordSound`); a recorded answer keeps its key until its retention is over (`Retained`); so any
two delegations, the one about to be sent included, are `Apart`. It says the same of the record on
disk where that is needed for a restart, and `lostDecision` excuses what a restart undoes. The
lemmas classify what one command can do to the record (`CommandMoves`, `RecordMoves`), show that
executing it, by its caller or as a straggler, keeps soundness and fencing, then treat each action.
Concluded: `TypeCorrect`, `DelegatesAtMostOnce`,
`DoubtIsSingle`, `DoubtIsKept`, `AnswersAreOwn`, `AmbiguityIsFinal`.

The last part proves the refinement, `PromiseIsKept`, from `~RedisCrashes`: a restart from an older
disk takes back what the promise was told, and the promise says nothing of it (`AtMostOnce` and its
`lostDecision` do). Two facts beyond `IInv` are needed. `Durable`: a handler whose completion the
record has taken is never again its running owner, so a claim or a start that arrives late cannot
give it a second turn. `DoubtShows`: a call in doubt shows in the phase, so an open request has
none. With them the effect of any command, in time or late, on a record that has not expired is one
of a few moves (`Goes`), each a step of the promise or a stutter; sending is `Call`, the tick that
passes the retention reopens the request, and the other steps change nothing of it.

**AgentsProofs.** `AgentsInv` is the conjunction of three invariants, and a step is of one setting.
`CacheInv`: two reports agree because each agrees with the cached entry (`Agrees`), from an
execution's second look at the cache on, and because the entry is stored only over nothing.
`ParityInv`: that two stores *answer* alike is not inductive; until they have parted their records
are `Alike` in everything but the time to live, which is compared only where an answer's retention
depends on it, or both would be found absent: an answer whose retention is over leaves Redis with
the next command and stays in the dict (`Outlived`), where no owner can change it any more. The
lemmas go through the five operations on two such records. `TasksInv`: `Told` is the order in the
code, in which a task whose handler has not checked yet has its Event set before anything is
reported; while the execution goes on it is known, so `cancel` can set it. A task in `early` had its
Event set when it was reported, and so when its handler checks. Concluded:
`EvidenceIsOne`, `SameUntilPartedHolds`, `ReportedEarlyIsNotDelegatedHolds`, for any number of
executions, owners, requests, tasks and threads.

**FeatureStreamProofs.** `ReadIsKept` is about offsets and topics. A restart replaces the offsets
and the managed state, and each topic keeps some of what it was given. `StreamInv` therefore says
of the checkpoint what it says of the current state (`Kept`: what the offsets passed is accepted or
dead; a retry count in the history was reached by publishing every retry before it), and that the
topics have only `Grown` since the checkpoint. Of the retries it relies only on those no restart can
lose: those the checkpoint covers (`Secured`) and those that were read again (`Sure`). A count
travels only with a record that was read from the retry topic, so the retries below it are sure.
`AcceptedOnce` needs that the accepted history is never shorter than the one of the checkpoint
(`Longer`), so that no restart lengthens it.

The claims about snapshots and late events are those of a job until its first restart, since
watermarks are not restored; `FinalInv` is their reason. A subtask that never idles (`Steady`) holds
the clock of the feature state back (`Waited`), whatever other channels do, and what its channel
holds is not behind any watermark before it (`Ordered`). So an eligible transaction of such a
subtask is on its way, counted or evicted (`Counted`), and a published row is behind all their
watermarks (`RowsAreOld`). A record that comes through a channel that was idle may open a group far
behind the clock; answering it evicts nothing that is still needed, but the window of that group
may be short of what was evicted before. Hence `Evicted` and the property speak of groups all of
whose transactions are steady (`SteadyGroup`). What is on the late topic was never eligible
(`LateOnly`).

`PublishesEligible` is what remains of this after a restart. `KnownInv` says it of the state and
the channels, and of the checkpoint's state against the checkpoint's own topics: what it counts is
eligible in the accepted history, or was published for retry, and neither of the two goes away.
A retry enters it because the retry topic may keep a record whose acceptance was lost and is decided
anew. Concluded: `ReadIsKeptHolds`, `AcceptedOnceHolds`, `PublishesEligibleHolds` (through any number
of restarts), `SnapshotsStayFinalHolds` and `LateStaysOfflineHolds`, for any transactions, keys,
subtasks, idle ones included, parallelism and retries.

**FeatureJobProofs.** `RowsAreCounted` relates a published window to rows that were read, and maybe
evicted, before a savepoint. `BootInv` says where everything is. The queue is what the feeder has
produced and nobody has answered for (`Feeding`), so the log is in order up to lost records
(`Ordered`). The state of a job that has read so many records, and that of every checkpoint,
is `Accounted`: a row it has read is in the history, or so old that no window that is still
`Awaited`, pending or to come, reaches back to it. `Clocked` ties the watermark to the records read,
which is what makes "too late" and "evicted" the same boundary. `Phased` says which records the
bootstrap job has passed, and that the normal job starts after the marker. The theorem is about
live transactions *in order* (`InOrder`: none of their time follows one of a later time): without the condition TLC shows why. With times 1, 4, 6, 2 the normal job fires the group
of 4, evicts the first row, takes a checkpoint and restarts; it has no watermark then, so it takes
the last transaction as on time and publishes its window without that row. Concluded:
`RowsAreCountedHolds`, `LiveIsLeftHolds`, for any history, times, bounds, feeder runs and restarts.

**HistorySinkProofs.** `NothingSkipped` needs to know what a buffer is: `ConsumerSafe` says that a
buffer and the offsets before it that are not stored leave no gap, that between write and commit
the batch is in the bucket, and that a consumer's position is covered by what is stored or
buffered, whoever committed it and whoever owns the partition now. Concluded: `SinkTypeCorrect`,
`NothingIsSkipped`.

**SourceDatasetProofs.** `ObjectsSafe` (manifests true, the dataset manifest true, one plan) is
kept by what each run knows (`PublisherSafe`): past the plan it has read or written the recorded
plan; a table it counts as done is in the store as its own content; past finalization every shard
has a manifest. `Bystander` shows that steps of other runs cannot take that knowledge away,
because objects only appear. Concluded: `DatasetTypeCorrect`, `ManifestsDescribeTables`,
`DatasetDescribesShards`, `PlanIsUnique`, and the action property `ObjectsAreImmutable`.

**RemediationProofs.** For `ForeignIsKept`, a generation that anybody has noted, in the plan, a
ledger, a command or a late request, is either no longer live or that of an object nobody else has
written (`Noted`): generations only grow, so a foreign write makes every noted generation stale, and
no request that still matches can replace it. That holds whatever becomes of the ledger. The other
two hold as long as no apply has saved its fresh ledger over another's (`~reset`); until then an
apply that has saved its ledger is `Alone`, for the others are idle or have yet to save theirs. For
`ReplacedIsRecorded`, `Recorded` says that every running command agrees with the ledger file on what
was mutated, for a rollback never changes that set. For `LedgerIsTrue`, `LedgerInv` follows the
commands through the objects: whatever an apply has passed is staged, so staged objects form a
prefix of the order of application until a rollback is asked for (`InOrder`), and whatever a
rollback has passed has a restored generation in its copy of the ledger, which is noted only of an
object that is the original again (`Passed`, `RestoredIsBack`); foreign writes and late requests are
excused by `touched`, and nothing else stages an object once a rollback has begun. Concluded:
`ReplacedIsRecordedHolds`, `ForeignIsKeptHolds`, `LedgerIsTrueHolds`, for any number of shards,
terminals, overlapping applies and faults.

**OperationsProofs.** `OperationsInv` joins the invariants of three of its settings
(`RemediationProofs` has the fourth).

* *The DAG* (`DagInv`). `OneActiveBatch` needs to know that only one process can stand between a
  look that found no batch and its submission, while lost processes live on. Batches have a
  position in the chain: those before the head have succeeded, the head's may exist, none after it
  was submitted (`InOrder`). A process, lost or not, is at a task that was the head once
  (`ProcessSafe`), so what it may still submit is either the head's batch or one that exists.
  `WinnersSafe` says of a winner file what made it due, and Gold's positions come after the Silver
  winner's. The chain's own shape is lemmas about positions (`StageTask`).
* *The recovery* (`RecoveryInv`). What a command has read stays true while others run: tasks only
  become successes, evidence is only added, a batch that succeeded stays (`RecoveryKept`). A step
  begins when all before it are successes (`CommandSafe`, `Before`), so the batches before it have
  succeeded when it submits its own, and none after it was submitted (`BatchesSafe`). A task is a
  success only with its `Effect`; nothing is launched, because the DAG was paused before the first
  task whose patch may queue the DagRun (`Truthful`).
* *The snapshot* (`SnapshotInv`). A run that has sent its marker, a marker that has yet to land
  included, has read back every file (`MarkerSent`), and an object is never replaced.

Concluded: `OneAttemptHolds`, `WinnersAreDueHolds`, `NoPaidLaunchHolds`, `SuccessIsWholeHolds`,
`CompletionHolds`, and the action property `FailsOnlyWithItsBatchHolds` (a step in which a fault
strikes, `RequestFails` included, may fail the task too; every other step that fails one that has
submitted has seen its batch absent, failed or foreign), for any number of processes, terminals, profiles of steps, faults and files.

**Only model-checked.** Liveness (`Terminates`, `HistoryIsWritten`, `RowsStayOnline`, `Resumes`,
`ChainCompletes`, `RollsBack`, `HandsOver`) is outside what the prover handles. Every safety property
of the passing runs, action properties and the refinement included, has a theorem; the three
violation runs stay with TLC by their nature.

## 5. Findings

* `stream_dropped`: an event whose snapshot failed is published to the retry topic after the
  watermark has passed it; read again it is TOO_LATE, and none of the three filters of the job
  takes a TOO_LATE retry. The documents promise a dead letter.
* `remediation_stuck`: an apply that is killed, rather than failing, leaves its ledger in
  `APPLYING`. `apply` then asks to "roll back first", and `rollback` refuses that status.
* `bootstrap_lost`: the feeder takes an empty queue for delivery. A record whose delivery failed has
  left the queue and is reported only to a callback, which the feeder does not register, so it ends
  successfully with a row missing from the log, or with no completion marker in it.

Also met while modelling; no run is spent on them:

* `cancel()` or a timeout that is reported while the handler waits for `mark_started`
  (`programmatic_coordinator.py:361`) is followed by the delegation: the Event is read at 350 only.
  Hence *early* in `ReportedEarlyIsNotDelegated`; for all reports TLC refutes it in a few steps.
* Two applies of one plan may overlap: both find no ledger (566), both preflight, and the later
  one writes a fresh ledger (585) over the mutations of the earlier, which a rollback will then not
  find. `canonical_size_remediation.md:83-84` promises that each write "is recorded in the local
  ledger before and after the request". `ReplacedIsRecorded` and `LedgerIsTrue` are stated without
  this case (`reset`), and refuted with it.
* A describe request that fails (`dp2_method2.py:246`) while a task polls the batch it adopts fails
  the task although the batch runs on or has succeeded, where the comment at 592-593 has it adopted
  "rather than fail after Spark succeeds". The cleared task adopts it (`ChainCompletes`).
* With idle splits a timer fires before records that are still on a slow split (`job.py:73-81` says
  so of the benchmark, which therefore does without idleness, and `FLINK_STREAMING.md:280` of a
  measurement). What arrives behind the clock may be missing from windows, and is answered in a
  group of its own: `SnapshotsStayFinal` without the condition on `Idling` is refuted.
* The sinks of the job are independent (`job.py:239-244`). After a restart a snapshot, or a retry, may
  be there whose record is not in the accepted history, and the replayed record may be TOO_LATE in
  one topic while an earlier life has published it online. No property relates what the topics held
  before a restart; `PublishesEligible` is about what each step adds.
* When the only completion marker is lost, the handover never happens, though the feeder has
  succeeded and is not run again (`HandsOver` excuses it, as `MarkerLost`).
* After a restart the job has no watermark, so a replayed record that is already on the late topic
  may be classified as on time (`LateStaysOffline` is checked of a job that does not restart).
* The publisher of the source dataset handles `FileExistsError` of a lost create, which the test
  double raises; the real store raises `ObjectStoreError`, and the run fails although the object in
  place is identical. Repeating the command repairs it (`Resumes`).
* The in-memory store and the scripts differ as `parted` says; tests on the former do not see it.
* A creation of a dead snapshot run may land after another run has published, and adds an object
  the marker does not list. The files the marker lists stay true (`CompletionIsTrue`).
* Runs of two generator builds that each upload part of a shard leave it so that every later run
  refuses it.
* A stage of the RAG ingestion writes its artifact through one `.partial` name
  (`src/ops/llm_agent/rag_ingest.py:109`). An overlapping attempt that has passed the existence check
  and writes that name between the other's `link` and `unlink` rewrites the artifact in place, where
  the header promises "only once"; an attempt killed after its `link` leaves an artifact that every
  retry of the stage refuses, where it promises that "a retry starts clean".

## 6. What is left

In the order of their worth:

1. The ingestion of RAG policies, as a chain of write-once stages under retries.
2. `Bootstrap` composed with `FeatureStream`, so that the handover meets parallel subtasks; `FeatureJob`
   has the two side by side, of one window and lateness.
3. The safety half of `RowsStayOnline`: no row online is older than one that was, for any number of
   writers, by the argument of `HistorySinkProofs` over positions of the group.
4. What `PromiseIsKept` leaves out, a Redis restart, as a promise that may be taken back once.
