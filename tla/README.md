# Verification of dirextalk-agent

This directory holds TLA+ specifications of dirextalk-agent, the TLC
configurations that check them on small instances, and TLAPS proofs for
instances of any size. It is written to be read beside the Go source under
`src/`; every definition that models code is listed with its lines in
`PROJECT.json` under `map`. File names below without a directory are of
`src/internal/store/postgres/`.

## 1. The system

dirextalk-agent is a single Go process over one PostgreSQL database. Clients
(the Dirextalk app through RPC and HTTP) create durable *Tasks*; one worker pool
in the process claims and executes them; side effects that need the owner's
consent go through *Confirmations*; conversations, extensions, knowledge
indexing, workloads and Cloud Workers are domains that attach their own rows to
a Task.

### Inventory

| Component | State | Operations | Interacts with | What is hard |
|---|---|---|---|---|
| Durable task queue (`core_task_store.go`, `core_task_queue.go`, rules in `coretask/`) | `core_tasks`, `core_task_events`, `core_task_runtime_concurrency`, `core_model_profile_active_refs`, `core_task_replays` | create, claim, renew, progress, terminal, wait, resume, cancel, retry, delete | worker pool, every domain | hand-kept slot counter; leases and lagging clocks; revisions read without a lock; claims that skip locked rows |
| Worker pool (`coreruntime/runtime.go`, `task_executor.go`) | goroutines, their fences, the stale flag | Run, execute, renewer, persistTerminal, Stop | queue, handlers | lost replies, lost leases, zombies, crash and restart |
| Agent loop and its ledger (`coreruntime/agent_loop.go`, `core_task_ledger.go`) | `core_task_model_rounds`, `core_task_tool_calls` | Prepare, MarkDispatched, Complete, MarkUncertain | queue, model provider, tools | a crash between prepare, dispatch and completion |
| Confirmations (`coreconfirmation`, `core_confirmation_*.go`) | `core_confirmations`, `core_confirmation_reservations` | Request, Confirm, Reject, Consume, Expire, ReleaseReservation, SweepExpired | queue, domains | expiry racing consent; consent used twice; one of two rows left behind |
| Extensions (`coreextension`, `core_extension_*.go`) | installations, versions, lifecycles, runner artifacts | request, execute, acknowledge, switch; install, update, uninstall, clean up | queue, confirmations, runner | an unknown outcome; artifacts outside any transaction; pins |
| Conversations and turns (`coreconversation`, `core_conversation_*.go`) | turns, leases, model attempts, tool calls, finalizations, events | start, claim, dispatch, retry, tool calls, steer, cancel, commit, fail | queue, confirmations, models | supervisors that stop; steers and cancels under a running model call; one budget |
| Workloads (`coreworkload`, `core_workload_store.go`) | operations, dispatch claims, workloads | request, consume, apply or destroy, read, complete, recover | queue, confirmations, provider | unknown outcome of the provider, expired fences |
| Schedules (`coretask/schedule.go`, `core_schedule_store.go`, `ScheduleLoop`, `coreruntime/cron.go`) | `core_schedules`, `core_schedule_occurrences`, replays | create, update, pause, delete, trigger, materialize | queue, profiles | missed times, stale writes, two cron calculators |
| Capability operations (`capability/operation`, `capability/server`) | durable operations, runtimes in memory | start, execute, cancel, reconcile, recover | every domain | repeated calls, restarts, cancel racing the handler |
| Deprovisioning (`coredeprovision`, `core_deprovision.go`) | lifecycle fence, durable receipt | Enter, BeginPurge, Deprovision, Finish, Abort | every writer | purge crossing an admitted writer, two phases |
| Cloud Workers (`cloudworker`, `core_cloud_worker_*.go`, `core_ssh_worker_*.go`) | Worker and execution records, AWS resources, remote processes; offers, executions, reservations, the parked turn | lease, create, start, collect, complete, destroy; offer, answer, claim, report, end, stop | queue, confirmations, turns, AWS, SSH | lost answers of AWS and SSH, destruction racing completion, every kind of stop |
| Knowledge (`coreknowledge`, `core_knowledge_*.go`) | sources, jobs, generations of vectors, tombstones; uploads, staging and content files | request, index, promote, cancel, sweep, bind profile; upload, commit, abort, delete | queue, profiles, file system | overlapping attempts, files and rows that cannot change together |
| Model profiles and providers (`coremodel`, `core_model_profile_store.go`) | profiles, the default, active refs | create, update, delete, sync, converge | schedules, tasks, knowledge | pins |
| Memory (`corememory`, `core_memory_store.go`) | switch, observations, facts, timeline | enqueue, claim, apply, retry; edit, delete, switch | turns, models | extractions that outlive their lease, owners who edit meanwhile |
| AWS credentials (`coreaws`, `core_aws_store_credentials_plan.go`) | credentials, evidence of revisions, test claims | create, replace, delete, test | Cloud Workers, STS | lost answers, concurrent callers of one key, replacement during a test |
| Voice, web search, GitHub, text and image tools, static sites | sessions, configuration rows, files | CRUD and calls of providers | conversations | I/O |
| HTTP, RPC, MCP and auth front ends; configuration; migrations; deploy scripts; generated API | none of their own | decoding and dispatch | all | I/O, generated code |

### What makes each component correct

- *Queue*: the slot counter is the number of running tasks; a lease exists
  exactly while a task runs; the event log has no gaps and a terminal event ends
  it; a task leaves no terminal status; the revision pins what was read without
  a lock.
- *Worker pool*: one owner per lease; an executor that lost its lease neither
  writes nor renews; an orphaned lease is taken over.
- *Agent loop*: no model or tool call is started twice; the ledger reads as if
  one executor had written it; success means every effect has a result.
- *Confirmations*: one live consent per target; consent and task end together;
  a reservation lasts until its task ends; nothing waits for ever.
- *Extensions*: one consent is one call, under the lease that consumed it; an
  unknown outcome keeps its fence; what is installed or pinned is published.
- *Conversations*: no call is made twice; the turn ends once with one
  transcript; accepted guidance reaches a model call; one budget for all.
- *Workloads*: the provider is called once, with consent; only the newest claim
  decides.
- *Schedules*: the cursor is ahead of what fired, missed times are one firing, a
  named profile is kept, both calculators agree.
- *Capability operations and deprovisioning*: a handler runs once; after the
  purge nothing is admitted or written.
- *Cloud Workers*: one process per execution; a destruction leaves nothing and
  is final; the turn gets the result once and is never left parked.
- *Knowledge*: a source that search reads has its vectors and its content; what
  was canceled, aborted or deleted is cleaned up.
- *Memory*: an observation is applied once and whole, and the timeline explains
  every fact. *AWS credentials*: one call per key, answers that agree, an identity
  only on the revision it was found for.

## 2. Modules

| Module | Models | Role |
|---|---|---|
| `TaskLifecycle` | the promise of `coretask.Task.CanTransition` | abstract specification |
| `CoreTask` | the durable queue, one action per store method | component, implements `TaskLifecycle` |
| `WorkerPool` | `WorkerPool.Run`, `execute`, `persistTerminal` | over `CoreTask` |
| `AgentLoop` | `executeAgentLoop` and its ledger | over `WorkerPool`, implements `CoreTask` |
| `Confirmation` | `CoreConfirmationStore` | beside `CoreTask` |
| `ExtensionExecution` | executing an extension with consent | over `WorkerPool` and `Confirmation` |
| `ExtensionLifecycle` | install, update, uninstall | over `WorkerPool` and `Confirmation` |
| `ConversationTurn` | one durable turn and its supervisors | component |
| `Workload` | operations of one workload | component |
| `Cron`, `CronFields` | the two cron calculators; all day fields | pure operators |
| `Schedule` | schedules, profiles and the materializing loop | over `Cron` |
| `CapabilityOperation` | the operation ledger and deprovisioning | component |
| `SSHWorker` | the pool of retained SSH Workers | component |
| `CloudWorker` | the database's rows of an execution | component |
| `KnowledgeIndex` | index jobs, generations and tombstones | component |
| `KnowledgeContent` | uploads, content files and their deletion | component |
| `Memory` | observations, facts and timeline of the memory | component |
| `CredentialTest` | AWS credentials and their tests | component |
| `MC...` | small instances for TLC | |
| `WorkerPoolProofs`, `AgentLoopProofs` | theorems of the queue and of the pool over it; of the loop over both | proofs, the second extends the first |
| `ConfirmationProofs` | theorems of consents beside the queue | proofs, over `WorkerPoolProofs` |
| `ExtensionProofs`, `LifecycleProofs` | theorems of `ExtensionExecution` and of `ExtensionLifecycle` | proofs, each over `ConfirmationProofs` |
| `ServicesProofs` | theorems of `Workload`, `CapabilityOperation`, `Schedule`, `CronFields` and `ConversationTurn` | proofs |
| `ResourcesProofs` | theorems of `CloudWorker`, `SSHWorker` and `CredentialTest` | proofs |
| `KnowledgeProofs` | theorems of `KnowledgeContent` and `KnowledgeIndex` | proofs |

An operator whose comment says *Mutant*, or that is introduced as "a ... that"
does something the code does not, is a plausible bug of the definition that
follows it. No specification uses them; they document which change of the code
each property would notice (`PROJECT.json`, `mutants`).

A method of a store runs one transaction, so it is one action, with the
conditions of its `WHERE` clauses as guards; a call whose guard fails rolls back
and is no step. What a method does outside its transaction (a read before it, a
read-back, a call of a provider, a file) is a step of its own wherever another
actor can come between. A lease that may run out at any moment is a flag where
no property is about time, and a clock in `CoreTask` and what is built over it.

### CoreTask

The columns of `core_tasks` are one function of the task identifier each
(`status`, `attempt`, `lease_epoch`, ...), `running_count` is the row of
`core_task_runtime_concurrency`, `events` is `core_task_events`, `refs` the task
rows of `core_model_profile_active_refs`. `ClaimNextDue` has two outcomes,
`ClaimLease` and `ClaimOverdue`; `FOR UPDATE SKIP LOCKED` is the set `locked` of
rows that other transactions hold, which may be any set. Callers read the clock
before their transaction begins, so every operation takes the instant `at`, at
most `MaxLag` behind `now`. Payloads, results and summaries are left out; of the
failure code the values that the code branches on are kept. The writer's epoch
in an event is not a column: only properties read it.

### WorkerPool

An executor is a goroutine of `execute` with its renewer: `exec` holds its fence
and phase. `ClaimNextDue` reads the row back after the commit, outside the
transaction, so `Claim` and `ClaimRead` are two actions, with `ClaimPanics` for
the row that has lost its lease in between and `ClaimReadFails` for a lost
reply. Any write may commit and lose its reply (`TerminalWriteLost`,
`ProgressLost`), any may fail, and `persistTerminal` reads the task and tries
again at most three times. `Crash` drops every executor and keeps the database.

### AgentLoop

`ledger` holds the rows of `core_task_model_rounds` and `core_task_tool_calls`,
`loop` the place of each executor in `executeAgentLoop`, `effects` counts how
often a call of a provider or a tool really started (a ghost variable; the
program cannot see it). The model's answer is the number of tool calls it asks
for. A ledger write is one transaction fenced by the task's lease and revision,
both of which it checks and moves.

### Confirmation

Every caller creates a confirmation for a task of its own, so the task is the
identifier of the confirmation. A target (`operation_domain`, `target_id`) has a
version (`current`), and a confirmation is bound to one. Cancel, timeout and the
overdue claim end the confirmation in their own transaction; that is
`terminalizeConfirmationForTask`, a conjunct of every step of the queue.
`Consume` checks the expiry before the fence, as the code does: any caller may
find that a consent has run out.

### ExtensionExecution and ExtensionLifecycle

The handler of a task is a program counter beside the executor that runs it; its
steps are the calls of `execution.go` and `core_extension_lifecycle_handler.go`,
each of which may fail or lose its reply where `faults` or `disturbances` say
so. The runner's artifacts (`published`) and the extension's effects are outside
every transaction. An agent task pins the version that was active when it was
created; the retry of an ended one copies its pin. `RemoveMutation` reads the
revision and looks for pins before the transaction of an uninstall begins, so it is
an action of its own, and only the revision is compared again (`request`). The
handler reads the pins once more: of a Node extension those of every version that
is still published (`publishedNodeVersions`), of another one those of the active
version.

### ConversationTurn

`turn` is the row of `core_conversation_turns`, `attempts` the ledger of model
attempts, `finals` the finalization intents, `calls` and `gate` the tool calls of
the recorded result. A supervisor's `executeTurn` is a program counter; while it
holds the lease only a deferred steer can change the row under it, so the reads
of a step and its write are one step. `effects` and `repeated` are ghosts: the
external calls made, and those made twice.

### Workload

Three flags stand for time: the task's lease, the dispatch lease of the
operation and the fence an executor was given, which no heartbeat moves. The
provider (`actual`, `mutations`) is external.

### Schedule, Cron and CronFields

Time is a day of the week; a trigger is one day or a cron expression restricted
by its day-of-week field. `validCronField`, `cronFieldMatches` and `parseField`
are the two implementations of the field syntax, over items `[base, step]`.
`CronFields` enumerates fields; `Schedule` uses one calculator for the first
cursor and the other for every later one, as the code does. Profiles change by
`CreateProfile`, `UpdateProfile`, `DeleteProfile` and `SyncProfiles`, which writes
a list of them, restores deleted ones and may choose the default.

### CapabilityOperation

An execution is a goroutine of `executeAcceptedOperation`. The lifecycle fence
has readers, a writer and a seal; everything that mutates outside of operations
is one reader, `loops`. The purge has a database phase and an external phase,
and a durable receipt between them.

### SSHWorker and CloudWorker

`SSHWorker` has the records of the pool (files), what AWS really has under a
Worker's tags (`cloud`) and the remote process of each execution. A call of AWS
or of the host may take effect and be answered with an error. `pool.mu` is held
from the lease of a creating run until its records are saved. `CloudWorker` has
the rows that the same execution has in the database, with the revision numbers
on which the rebind of a claim insists.

### KnowledgeIndex

A generation of vectors is named by its job. `kihand` holds one handler per job
and lease epoch, so an attempt that lost its lease goes on beside its successor;
each call of the vector store (`EnsureGeneration`, `UpsertGeneration`,
`PromoteGeneration`, the deletions) and each fence check between them is a step
of its own. A source's vectors are written by one upsert. A source that left
indexing and one whose content cannot be opened fail the job differently from a
lost lease (`ReadSource`, `SourceUnavailable`): only the latter deletes what was
staged at once.

### KnowledgeContent

A chunk has size one and a digest is the data. An upload has its rows, a staging
file, content files and a sink in memory; each call may be undone by a failed
statement, or its commit may be answered with an error whether it happened or
not. A commit whose statement fails deletes the content again, if the file system
lets it. `Delete` is three steps (first transaction, file, last transaction) and
`resumeKnowledgeCleanup` two; several of them may be under way for one source.

### Memory and CredentialTest

An observation of `Memory` has a state, an attempt and a lease, which is named by
the attempt that made it; `mwork` is what each process that runs `ProcessNext`
holds while the model extracts. A claim takes any observation that may be claimed,
or none, because it skips rows that another transaction has locked. A change of facts is a function from facts and
timeline to facts and timeline, and `ApplyObservation` folds those of one
extraction in one transaction. Who made an event of the timeline (`by`) is
history.

`CredentialTest` has the rows of credential, evidence and claim, and a program
counter for each caller of `TestCredentialIdempotent` or `TestCredential`. A
failed statement and a commit that is answered with an error are `faults`.
`ctsts` and `cttold` are history: the provider calls made under a key, and what
its callers were told.

## 3. What is checked

| Run | Question | Result |
|---|---|---|
| `store_accounting` | do counter, pins, log, leases and revisions stay exact under every order of calls, with lagging clocks, and does the queue implement `TaskLifecycle`? | holds |
| `pool_fencing` | two executors of one task, lost replies, failed renewals, crashes: one owner, silent zombies, every orphan taken over | holds |
| `pool_readback` | does a claim return the lease it took? | violated |
| `loop_ledger` | two rounds with a tool call, two executors, crashes: effects at most once, one history, success is complete, the queue still implemented | holds |
| `loop_recovery` | can an executor that took over go on? | violated |
| `loop_retry` | is a task with an unresolved effect never retried? | violated |
| `confirm_store` | two tasks about one target whose binding changes, lagging clocks, the sweeper: one live consent, ended together, reserved until the end, none open for ever | holds |
| `extension_execution` | one execution with faults, or two of one installation: one call per consent, proposals that do not interfere, fences that stay | holds |
| `extension_lifecycle` | updates, removals and installs that race with pins, cancels and crashes: rows never part, what is installed or pinned is published | holds |
| `extension_slots` | does a completed lifecycle give its slot back? | violated |
| `services` | turns, workloads, schedules with cron, capability operations with deprovisioning, each in its own behaviours | holds |
| `resources` | SSH Workers, the rows of Cloud Worker executions, the knowledge index and its content, the memory, the tests of the AWS credential, each in its own behaviours | holds |

The invariants named `...Inv` are conjunctions of named parts, one of which is
the module's type invariant; the parts state one idea each and are documented
where they are defined.

`services` and `resources` check components that share no state with each other.
A behaviour is of one component, chosen in the initial state, with the others at
rest; that costs the sum of their state spaces, not the product.

### Bounds

Bounds are guards of the actions that would grow without end, never of
properties. `MaxTime` bounds the clock, `MaxRevision` the steps that a caller
could repeat without end (progress and waiting), `MaxDelay` the future of
`available_at`, `MaxRound` and `MaxCalls` the agent loop, `MaxBinding` the
versions of a target, `MaxToggles` the switches of an installation.

- *Tasks and executors.* Two tasks are enough for what relates tasks: a slot
  contended by two, a task and its retry, two consents for a target. Two
  executors are an owner and a zombie; a third would be another zombie. Lease
  times are one or two ticks, so that within `MaxTime` a lease expires, is taken
  over, and expires again. Where clocks lag by one tick, `TTL` is two: a lease
  that has expired when it is granted would be granted again without end.
- *Extensions.* One execution with faults up to time 3, or two of one
  installation without faults up to time 2. Four casts of the lifecycle: an
  update and the uninstall of one extension; a Node extension removed beside an
  agent task and its retry, up to time 1; an update (two executors, time 1) or the
  uninstall (one executor, time 2) beside an agent task; an extension that makes
  room for another one and comes back. What an uninstall has read is kept only
  while the revision stays (`ReadFits`): after that its request is refused.
- *Turns.* Two dispatches without steers, one dispatch with a steer, one with
  commits of another turn, or two with a steer and no stop; a stop is the loss of
  one supervisor, so every one of two supervisors takes over once. A round asks
  for a gated call, for a read and a local call, or for a gated and then a local
  call, which the gate of the first must not admit.
- *Workloads.* An apply with two claims and a destroy with one.
- *Schedules.* Days 5 to 7, which hold a weekend and Sunday as 7; a single day and
  a weekend trigger; one schedule with two profiles and three edits, or two
  schedules with one profile and two edits. Cron: every item over 0..7 with steps
  0, 1, 2, 3 and 5, and two-item fields, against five day-of-month fields.
- *Capability operations.* One ordinary operation and the account's, three
  executions, one restart, and one cancel or reconciliation.
- *Cloud Workers.* Executions 1 and 2 create a Worker, 3 reuses that of 1, one
  Worker is allowed; up to two runs of an execution, one crash, two destructions.
  Two executions of one turn, of which the second reuses a Worker; two claims, two
  handlers, and in each run of a handler one report besides the last.
- *Knowledge.* Two sources, two profiles, two claims per task, and settings that
  give up to two jobs with a move of the profile, or one job with moves, an edit
  and a deletion, or with up to two faults (lost leases, crashes, failed calls).
  Two uploads of two chunks, one active at a time, with three faults and two
  deletions, or one fault and the deletion of a source that is still uploaded.
- *Memory.* Two observations, predicates and values, two processes, two attempts
  in place of five; one edit of the owner, or a memory that is switched off once.
- *AWS credentials.* Two credentials, two revisions, two keys, each for one
  revision of the first credential, two callers and two identities; one fault and
  one crash, or one test without a key.

Deadlock is not checked: when all tasks have ended and the bounded clock stands,
nothing happens, as in the program when nobody calls. Symmetry is used over
interchangeable executors, supervisors and handlers, and never in a run with a
liveness property.

### Fairness

Only `pool_fencing` and `confirm_store` state liveness, and only they assume
fairness. `pool_fencing` assumes that time passes, that `Run` goes on polling and
some poll finds no row locked (a row lock lasts for one transaction), that the
read after a claim returns, and that an executor ends: its context is canceled
at the deadline and at the first failed renewal, and `persistTerminal` makes at
most three writes. It does not assume that renewals or terminal writes succeed,
that replies arrive, or that processes stop crashing. `confirm_store` assumes
only that time passes and that the expiry loop of
`cmd/dirextalk-agent/core_confirmation_compose.go` goes on sweeping; owners and
executors may never act. That a sweep reaches every expired confirmation holds
while at most 100 of them are expired at once, the limit of one sweep
(`core_confirmation_domain.go:30`).

`TurnFairSpec` and `ScheduleFairSpec` state the fairness of supervisors and of
the schedule loop; the liveness properties that go with them are false of the
code (section 4).

## 4. What the checks found

### Findings with a run

`PROJECT.json` quotes the lines of code, comment and documentation.

1. `pool_readback`: a cancel between the commit of a claim and its read-back
   makes `ClaimNextDue` dereference a lease that is gone.
2. `loop_recovery`: a loop that replays a completed ledger row takes the
   revision of that row for its fence, although the reclaim has moved the task's
   revision; its next ledger write fails and a healthy task is failed.
3. `loop_retry`: a task that timed out with a call dispatched and unresolved may
   be retried, which makes the call again.
4. `extension_slots`: a completed extension lifecycle leaves `running_count`
   alone; after `max_concurrent` of them nothing is claimed again.

### Properties that are stated and false of the code

Each is defined and commented in its module and left out of the passing runs.

- `LocalLaneBounded` (`CoreTask`): `RenewLease` (`core_task_queue.go:198`)
  compares the expiry with the instant its caller read. A delayed renewal
  succeeds after the lane's place was given away, so more local tasks than
  allowed hold unexpired leases (`docs/core-v1-development-spec.md:428-429`).
- `UncertainIsReconcilable` (`ExtensionExecution`): the acknowledgement requires
  an acquired epoch below the task's (`core_extension_uncertain_reconciliation.go:88`),
  so an outcome that the calling lease itself reports as uncertain can never be
  acknowledged (spec 749-751, 795-796).
- `ReclaimedKeepsFence` with faults: `Handle` reports
  `extension_resolution_failed` for any error of `Resolve`
  (`execution.go:624`), and `finish` releases the reservation of every code but
  the uncertain one (spec 746-751). It fails too where transactions lag the clocks
  of their callers: a renewal may commit with an older instant between a refused
  uncertain write and the next one. The property is stated for a database that
  does not fail and for `MaxLag = 0`.
- `LifecycleSettles` (`ExtensionLifecycle`): a lifecycle task that is canceled or
  failed by the pool after its consent was used leaves its row pending, and every
  later install is refused (`core_extension_lifecycle_store.go:223`).
- `InstalledIsPublished` for artifacts that are not Node artifacts, and
  `PinnedStaysPublished` for them or with retries: `Remove` runs before the
  completion commits, so a lost completion and a retry that pins the version again
  restore an installation whose artifact is gone
  (`core_extension_lifecycle_handler.go:98`); an executor that lost its lease may
  still remove the artifact after its successor gave the uninstall up and an agent
  task pinned the version anew; and two installations of one digest share an
  artifact without a reference count (`:101`).
- `DeferredSteerPreserves` (`ConversationTurn`): a deferred steer raises the
  revision under a kept lease, and a later gated call of the round fails
  `PrepareConversationTool` (`core_conversation_tool_store.go:91`), which fails
  the turn (`docs/api-contract.md:717-719`).
- `TurnFinishes`: a crash in the last allowed dispatch leaves a turn that every
  supervisor claims and gives up with `ErrModelBudgetExhausted`
  (`docs/api-contract.md:254-256`); a steer or continue during a finalization
  dispatch loses the intent (spec 611-614).
- `RunningHasTask` and `WorkloadSlots` (`Workload`): a refused `Recover` lets the
  pool complete the task of a running operation; a dispatch moves its task to
  running without taking a slot, and `completeDispatch` never gives one back.
- `DueWorkRuns` (`Schedule`): one due schedule that cannot be materialized ends
  the loop and the process, again after every restart (spec 133-134, 477-479;
  `docs/api-contract.md:594-599`).
- `ReadyIsSearchable` (`KnowledgeIndex`) with lost leases: an attempt that loses
  its lease between `PromoteGeneration` and its promote transaction deletes the
  promoted vectors after its successor has committed them
  (`core_knowledge_worker_run.go:174-184`), and so does one whose commit is
  answered with an error although it happened; the source reads as indexed
  (`core_knowledge_cleanup.go:347-350`) and has no vectors. The run states it for
  behaviours without faults.

- `QueuedStaysClaimable` (`Memory`): with the memory switched off,
  `ApplyObservation` gives an observation back as pending; one in its last attempt
  is never claimed again, although switching off "preserves facts, history, and
  queued observations for later reuse" (`src/migrations/agent_migrations.sql:2460-2461`).

### Other observations of the modelling

*Cloud Workers.* A generic `CancelTask` of a Cloud Worker task leaves the
execution row, the consumed reservation and the parked turn behind, and
`stop_turn` is then refused (`docs/api-contract.md:705-707`);
`terminalizeCloudWorkerTurnTx` leaves the turn of a deleted conversation waiting.
A run canceled while it starts or waits, or whose first progress write fails,
gives its Worker back as idle with the remote process still running
(`provider.go:149-175`; comment `flow.go:143-145`). A failure to store collected
results is not reported as ambiguous, so the task fails and the Worker stays
busy (spec 1080-1083). A crash between saving the busy Worker and the execution
leaves it busy; one after the lease and before the bootstrap makes every later
start ambiguous.

*Capability operations.* `Cancel` looks up the runtime and then updates the row;
an execution that registers in between goes on under a row reported canceled
(`manager.go:845-862`). A cancel whose handler returns another error leaves the
row running without a runtime. A blocking send to a watcher holds the manager's
mutex (`:1323`). An ambiguous commit of `Deprovision` aborts the fence while the
receipt is durable (`core_deprovision.go:113`).

*Workloads.* Confirming never enqueues the task and `ResumeTask` has no caller
(`core_confirmation_lifecycle.go:241-243`); the fence given to a handler is never
renewed (`types.go:185-187`). `Reconcile` of an uncertain operation does nothing;
the recovery of an apply that was never called reads a workload that was ready
before and reports success.

*Schedules.* `TriggerNow` reads without a lock, so a task may appear after a
committed pause or delete; the adapter's digest includes timestamps, so a retried
create with its key is refused.

*Turns.* A failed turn drops accepted steers from the transcript.

*Knowledge.* The `DeleteGeneration` of an attempt without a lease removes what
its successor has staged (`core_knowledge_worker_run.go:118-160`); with several
entries per source the successor may promote an incomplete generation. Errors
returned without `TerminalOwned` (`markRunning`, `progress`, `promote`) let the
pool fail the task while job, source and pin stay live until the profile is
retired. A fence failure after `PromoteGeneration` removes staged rows only, so
promoted vectors of a canceled generation stay, and the old generation recorded
by `promote` defaults to `staging`, so the sweep removes none of its promoted
vectors. `Delete`'s last transaction is unconditional and may turn `deleted` back
into `cleanup_pending`. `Delete` accepts a source that is being uploaded, and
`CommitUpload` then makes it ready again (`core_knowledge_content.go:299`). An
upload aborted after `Finalize` keeps its content file while its cleanup row is
removed; one aborted after a restart with complete but wrong content is refused
by `Resume` for ever; a failed statement of `CommitUpload` deletes the content
while the upload stays open. `ReconcileAutoIndex` uses a deterministic key, so a
failed automatic index is replayed, not retried.

*Memory.* `ApplyObservation` compares the expiry of a lease with the instant at
which it was claimed (`corememory/service.go:165,199`), so the lease id alone
fences. An observation that is retried later supersedes a newer fact, and one
extracted before the owner's `DeleteFact` adds the fact again.

*Voice.* `core_voice_sessions.active_turn_id` is `NOT NULL`
(`src/migrations/agent_migrations.sql:1139`), while the store writes
`NULLIF` of the empty string for a session without a turn
(`core_voice_store.go:31,50,108`): PostgreSQL refuses every new session.

*Queue and confirmations.* `Expire` locks the confirmation before the task while
the other methods lock the task first (`core_confirmation_lifecycle.go:469`);
`mutateRaw` replays the first response under a key (`core_task_store.go:199`).

## 5. What is proved

The theorems hold for every value of the constants that the named assumptions
allow: any finite set of tasks, executors and targets, any number of rounds and
calls, any set of operations, executions, handlers, callers and keys, and every
limit, lease time, lag and bound. What the assumptions ask beyond types is that
these sets are finite where they are counted (`ConstantsAssumption`,
`TargetsAssumption`, `ExecutorsAssumption`, `CloudWorkerAssumption`,
`SSHWorkerAssumption`, `CredentialTestAssumption`, `KnowledgeContentAssumption`,
`KnowledgeIndexAssumption`), that there is a task at all, since the fence of an
idle executor names one (`ExecutorsAssumption`), that sources are numbered in the
order a job takes them (`KnowledgeIndexAssumption`), that schedules, profiles and
days are numbered from 1 and a trigger is one day or a valid day-of-week field
(`ScheduleAssumption`), that a cron field is a set of items of the field syntax
(`CronFieldsAssumption`), that names kept for "none" name nothing else
(`WorkloadAssumption`, `TurnAssumption`, `VersionsAssumption`,
`ScheduleAssumption`, and `CapabilityAssumption` for the deprovisioning), and that
a model dispatch is allowed at all (`TurnAssumption`). Every inductive invariant below was first checked by
TLC on the run of its component.

### The queue: `WorkerPoolProofs`, first part

- `StoreTypeCorrect`: the types of all columns. The step is proved once per
  operation through `StoreNextCases`, which splits the next-state relation.
- `SlotsAreExact`: `SlotsExact` alone is not inductive, because a claim that takes
  a task out of `waiting_user` would run it without a slot. `SlotInv` adds
  `Unparked`: a Cloud Worker in `waiting_user`, the one kind whose deadline a
  claim does not enforce, has no deadline, so a claim finds waiting tasks only
  to fail them. `SlotTaken`, `SlotReleased` and `SlotsKept` are the facts about
  cardinality that the operations need.
- `RowsAreExact`, `ZombiesAreSilenced`: `RowInv` has the lease columns, the pins
  and, for every task, the shape of its log with the epochs of its writers. The
  log is appended to under the epoch of the row, which is at least that of the
  last event; without that bound the order of the epochs is not inductive.
- `QueueImplementsLifecycle`: with `SlotInv`, every operation is a step of
  `TaskLifecycle` or leaves it alone.
- `TerminalIsFrozen`, `RevisionIsAPin`: what no operation may do, from the types.

### The pool and the loop: `WorkerPoolProofs`, `AgentLoopProofs`

- `OneOwnerPerLease`: that two executors never own one lease is not inductive,
  since a renewal or a repair may bring back an executor that lost it. `PoolInd`
  says that what an executor knows has happened (`Behind`), that two executors of
  a task hold different epochs, and that both are older than a claim whose row is
  still to be read back (`Distinct`); only the newest can own the lease.
- `PoolImplementsQueue` and `PoolSilencesZombies`: every step of the pool is a
  transaction of the queue with inputs the queue allows, so the theorems of the
  queue carry over. `LoopImplementsQueue` is the same for the loop.
- `SideEffectsAtMostOnce`, `LedgerReadsAsOneRun`, `SuccessNeedsAllResults`: one
  invariant, `LoopInd`. A row of the ledger was written by a run that had come to
  it (`Reached`: everything before it is completed), under a revision of the past;
  an executor that is about to start a side effect finds it dispatched and not
  started, and is the only one that is (`OneInvokes`). The last holds because
  `dispatch` takes the row out of `prepared` in its transaction and nothing ever
  puts it back. Success needs that an executor holds that
  outcome only after the last answer was stored (`SuccessFits`).

### Consents: `ConfirmationProofs`

- `ConsentSlotsAreExact`: `SlotInv` is an invariant of the composition too. A
  method of the confirmation store writes to a task in one of three ways
  (`TaskWrites`), and ending a task releases its slot exactly if it ran.
- `TargetsAreExclusive`: no step but `Request` makes a consent live
  (`EveryStepMoves`), and `Request` finds no other for its target.
- `ConsentSettles`: `SettledTogether` needs that only ended tasks have a failure
  code and a timed out task is `failed` (`CodesFit`), that a consent belongs to a
  task that exists (`ConsentHasTask`), and that ended tasks stay as they are
  (`FrozenStep`).
- `ReservationsAreExact`: `ReserveInv` adds the lease columns of the queue, since
  the epoch of a reservation is that of a lease the task had, and that a consent
  whose reservation was released had been used (`ReleasedFits`).

### Extensions: `ExtensionProofs`, `LifecycleProofs`

Both compose the pool with the consents, so they start from `PoolInd` and
`ReserveInv`; slots are exact for the first only (section 4). `QueueMoved`, `ReleaseReserves` and `NoneVanishes` say once what
a step of either leaves true of the other.

- `OneConsentOneCall`, `ProposalsAreIndependent`: `ExtInd`. That an extension is
  called once is not inductive: a handler that comes to its call must know that
  nobody called before. `HandlerFits` says that, as long as it has not called, no
  call was made under its lease, and that after `require` the reservation is its
  own; `ClaimsAreLater` says that a new claim is later than every call, so it
  can never find the reservation its own. A proposal stays current because
  `RequestTask` insists that the newest one granted is consumed and released, which
  by induction is the only one that could still be open, and because bindings never
  come from the future (`BindingsFit`).
- `ReclaimedTasksKeepFence`: `ReclaimInd` over `ExtInd`. The fence is given away by
  a handler that could not resolve, so it must be shown that such a handler has
  lost its lease (`Settled`), and that a fence which was lost is never had
  again; the latter (`LeaseMoves`) is what needs clocks that do not lag.
- `LifecycleRowsNeverPart`, `InstalledArtifactsStay`, `PinnedArtifactsStay`: `LcInd`.
  `Flow` states the agreement of installation, lifecycle and consent without
  counting; `VersionsFit` says to which installation a version belongs and that
  what waits for its removal is not active, so a sweep takes nothing that is
  installed. `HandlerKnows` carries the pins that `hasPinnedVersion` read in one
  step over to the later step that retires the version: no new task can pin it,
  because the installation is in transit while its lifecycle is open, and an old
  pin comes back only by a retry.

### Services: `ServicesProofs`

- `WorkloadEndsTogether`: `WorkloadInd` relates the four rows of an operation
  (`WOpFits`), and says that an executor at its provider call is the only one
  there for its operation and the first (`WHandsFit`, `WOneCaller`): this is what
  the recovery path, which only reads, must preserve.
- `PurgedAccountStaysPurged`: `CapInd`. After the purge of the database the fence
  is sealed or held by the execution that purges the rest, and has no readers
  (`PurgeFits`), so nothing is admitted; an ordinary operation has one execution
  at a time, the registered one, which has not run its handler before it claims
  (`RegisteredFits`, `NotYetRun`, `OneLive`); a Cancel that may write has no
  handler left that was told to stop (`WaitFits`, `WriteFits`).
- `CalculatorsAgree`: an item that `parseField` accepts and the same item for
  `cronFieldMatches` contain the same days, by arithmetic on the step; Sunday as
  7 and a restricted second day field are cases of their own.
- `SchedulesFireOnce`, `MissedTimesFireOnce`: `SInd`. A cursor is a `CHOOSE` of the
  first day after an instant that the calculator accepts, so it must be shown that
  there is one within a week of it (`FirstDayFits`). The update in flight is what
  makes the cursor hard: it writes a whole row that it read earlier, and `EditFits`
  says that, where the revision has not moved since, the schedule has not fired
  after the instant the update computes its cursor from.
- `TurnsKeepOneAccount`, `TurnCallsAreMadeOnce`, `GuidanceIsHeard`: one invariant,
  `TurnInd`. That no call was repeated is not inductive: a supervisor that lost its
  lease may still be about to run a tool. `RunnersApart` says that whoever is about
  to run a call is the only one and the call was not run; `NoEarlyCall` and
  `PendingUntouched` say why a new dispatch or a takeover finds nothing of it begun:
  an attempt without a result has no calls, and a call that is pending in the
  recorded result is neither run nor about to be, but for the one behind the gate.
  `HolderFits` is what a supervisor knows while it holds the lease, place by place
  in `executeTurn`; a steer that supersedes takes the lease, a deferred one does not
  disturb it. `AskedInTime` carries the revision of the last steer from the dispatch
  to the commit: a result without calls, the only kind that may be committed, was
  asked for after it.

### Resources: `ResourcesProofs`

- `CloudWorkerRowsAgree`, `ResultIsGivenOnce`: `CWInd` gives, for every status of
  the task, the rows that go with it (`RunFits`), and at most one live execution
  (`OneRun`), by which the end of an execution may wake the turn.
- `CredentialTestsAgree`: `CTInd` ties the stage of a caller to the claim of its
  key (`StageFits`: one that is about to call the provider finds the claim in
  progress and no call made), allows one tester per key, and lists the answers
  that a claim can have given (`TellFits`).
- `SSHWorkersAreKept`, `DestructionIsFinal`: `SSHInd`. That the owner has no more
  instances than the limit is not inductive: a Worker that is still being made
  will get one. `Up` counts these too, and `CapacityLeft` shows that
  `checkCreateCapacity` counts every member of `Up`, some twice, so that a new
  intent keeps the bound. `ExecFits` has, for every stage of a run, what its
  execution's record, process and Worker are (a run that prepares its task root
  has never started a process, which is why the second start finds the first);
  `WorkerFits` says that a destruction past its intent works on a Worker that is
  `destroying` and not yet gone, and when its teardown begins the record names
  everything AWS has. `Yields` is what a step of one execution may do to the record
  of a Worker without taking it from another.

### Knowledge: `KnowledgeProofs`

- `ContentFollowsRows`: `KCInd` relates the rows of one upload to its two files
  (`FilesFit`): the staging file begins with the chunks of the rows, a content file
  that was renamed into place is those chunks and all that was declared, and a sink
  that is no longer open has no staging file. A content reference exists, and is
  deleted, only after the upload is ready, and a ready source has no deletion at
  work that would remove its content (`DeletesFit`). Where no source is deleted while
  it is uploaded, a deletion that is done has left no file (`LateFits`); with such a
  deletion one may be left (section 4). `UploadMoves` is the one
  argument all operations share: a step that writes the entries of one upload keeps
  the invariant if what it writes fits. The assumption asks for a non-empty declared
  content, as `UploadMetadata.validate` does.
- `IndexingStaysTogether` and `ReadyStaysSearchable` share `KIInd`. `JobFits` relates
  the rows of one job to its task, its vectors, its tombstones and its handlers: a
  task that may still run has a live job, vectors are only of the job's sources,
  a canceled job has the tombstone of each of its sources whatever its handlers
  still write, and only a job that succeeded has the tombstone of a deletion.
  `SourceBound` and `SourceFree` relate a source to the jobs and tombstones of
  others, and `LiveBound` says that live jobs are of the bound profile, which is
  what makes a move of the profile end all of them. `CalmFits` is the part
  for behaviours without faults: a job has one handler, which is done when the job
  succeeded, and between the promotion in the vector store and the commit of the rows
  the promoted vectors stay while the job is live. `Handles` covers the steps of a
  handler that leave the rows of its job, `JobOver` the ones that end it.

### Only model-checked

- `MemoryInv`: its transactions are folds over a sequence of changes, and what a
  fold computes for every sequence needs an induction that the provers cannot
  instantiate.
- `OrphansReclaimed` and `ConsentRunsOut`: liveness under fairness is out of the
  prover's reach.
- The runs that find a violation.

Every other property of the passing runs is stated by a theorem, alone or as a
part of a larger invariant.

## 6. Not modelled

- The replay tables of idempotent calls: a replayed call changes nothing and
  answers what it answered. `TriggerNow`, which reads before its transaction, and
  `StartOperation` are the exceptions and are modelled with their keys.
- Row locks within a transaction and PostgreSQL's deadlock detection: a
  transaction is one step. The limit of eight failed polls after which `Run`
  returns is, to the model, a crash.
- *Turns*: the active-time clock, intrinsic tools that commit the turn,
  attachments, group scopes, deltas; `FailTurnUncertain`,
  `MarkTurnModelUncertain` and `MarkTurnCanceled`, which have no caller.
- *Extensions*: `request` also refuses while an execution of the installation holds
  its reservation (`activeUncertainReservation`); executions and lifecycles are
  different modules, so the lifecycle admits more requests than the code.
- *Fences that others imply*: the promotion of an index job compares the task's
  revision, which only its own progress moves while its lease holds; the end of a
  Worker's execution asks for a completed dispatch of the turn, and nothing
  dispatches a turn that waits for a Worker.
- *Memory* under READ COMMITTED: an edit of the owner that commits between the
  read and the write of a retraction makes the retraction do nothing. The facts and
  observations that result are those of an extraction without it.
- *Schedules*: minutes, hours, months and time zones, which repeat the day
  fields' logic over larger ranges.
- *Model profiles*: kinds other than conversation, a change of kind, copied keys
  and connection tests; a `SyncProfiles` that is refused changes nothing.
- *Knowledge*: chunking, embedding and search (numbers), mounts and directory
  manifests (reads of a file system the Agent does not own), byte quotas.
- *Cloud Workers*: quotes, listings, images, domains and public services,
  workspace archives.
- *Memory*: recall and its ranking, confidence and validity times, the embedding
  profile. *AWS credentials*: encryption, the guard of retained Workers, the
  in-memory repository.
- Voice: no session can be inserted (section 4), so no state of it is reachable.
- Web search and GitHub lock one configuration row for the length of a call and
  compare revisions; the release of a static site is a row and a directory,
  deleted together; text and image tools keep nothing.
- Front ends, configuration, migrations, deployment scripts and generated code.
  A large share of the repository's lines (the generated API, RPC adapters and
  provider clients) is translation between formats, for which a state machine
  would only restate the code.

## 7. What could follow

The modules above are the components whose state outlives a call; section 6 lists
what they leave out. The next step for the proofs would be `MemoryInv`, with the
changes of one extraction applied by a recursive function over the length of the
sequence instead of a fold. The next ones for the models are the active-time
clock of turns, the restore of workspace archives, and the properties of section
4 that are false today, each of which becomes a passing run when its code
changes.
