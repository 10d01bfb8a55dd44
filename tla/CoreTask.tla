------------------------------ MODULE CoreTask ------------------------------
(***************************************************************************)
(* The durable Task queue of Core v1, as the PostgreSQL store keeps it:    *)
(* internal/store/postgres/core_task_store.go (create, delete) and         *)
(* core_task_queue.go (claim, renew, terminal, progress, cancel, retry,    *)
(* wait, resume).  Every exported method runs one transaction, so every    *)
(* method is one action.  A call whose guard fails returns an error and    *)
(* rolls back: it is a stuttering step and has no action.                  *)
(*                                                                         *)
(* A caller reads the clock before its transaction starts, so every        *)
(* operation takes the instant "at" it was given, which lags the real time *)
(* "now" by at most MaxLag.                                                *)
(***************************************************************************)
EXTENDS Integers, FiniteSets, Sequences

CONSTANTS
    Tasks,              \* the task identifiers (core_tasks.task_id)
    Kind,               \* task -> task_kind, sealed at creation
    LocalTasks,         \* tasks whose payload seals execution_target local_sandbox
    Timeout,            \* task -> timeout_seconds, 0 for none
    MaxConcurrent,      \* the max_concurrent every claim upserts
    LocalSandboxMax,    \* localSandboxMaxConcurrent
    TTL,                \* the lease time to live
    MaxLag,             \* how far a caller's clock reading may lag its transaction
    MaxDelay,           \* how far in the future a task may become available
    MaxTime,            \* bound of the clock
    MaxRevision         \* bound of the revisions that callers may drive

Kinds == {"agent", "conversation_tool", "extension", "knowledge_index",
          "workload", "cloud_worker"}

ASSUME ConstantsAssumption ==
    /\ IsFiniteSet(Tasks)
    /\ Kind \in [Tasks -> Kinds]
    /\ LocalTasks \subseteq {t \in Tasks : Kind[t] \in {"conversation_tool", "extension"}}
    /\ Timeout \in [Tasks -> Nat]
    /\ MaxConcurrent \in Nat \ {0}
    /\ LocalSandboxMax \in Nat \ {0}
    /\ TTL \in Nat \ {0}
    /\ MaxLag \in Nat
    /\ MaxDelay \in Nat
    /\ MaxTime \in Nat
    /\ MaxRevision \in Nat

VARIABLES
    \* the columns of core_tasks, one function of the identifier each
    status, attempt, lease_epoch, lease_expires_at, available_at,
    execution_deadline_at, revision, progress_sequence, failure_code, deleted,
    running_count,  \* core_task_runtime_concurrency.running_count
    events,         \* core_task_events: the log of each task, in the order of insertion
    refs,           \* core_model_profile_active_refs with owner_kind 'task'
    now             \* real time

leaseVars == <<lease_epoch, lease_expires_at>>
storeVars == <<status, attempt, lease_epoch, lease_expires_at, available_at,
               execution_deadline_at, revision, progress_sequence, failure_code, deleted,
               running_count, events, refs, now>>

-----------------------------------------------------------------------------
(* Types *)

Terminal == {"succeeded", "failed", "canceled"}
Status == {"absent", "queued", "running", "waiting_user"} \cup Terminal

\* NULL in a timestamp column
NoTime == -1

\* A confirmation that is rejected, runs out or no longer fits its target ends
\* its task with a code of its own.
FailureCode == {"", "task_error", "uncertain", "task_timed_out", "user_canceled",
                "user_rejected", "confirmation_expired", "confirmation_stale"}

\* "epoch" is the lease epoch of the writer: it is not a column, and only
\* properties read it.
Event == [sequence: Nat, status: Status, epoch: Nat]

\* coretask.Fence: what the owner of a claim presents with every write.
Fence == [task: Tasks, attempt: Nat, epoch: Nat, revision: Nat]

\* The instants a caller may have read before its transaction runs.
Clock == {at \in 0..now : now - at <= MaxLag}

RunningTasks == {t \in Tasks : status[t] = "running"}

-----------------------------------------------------------------------------
(* Helpers shared by the operations *)

\* The WHERE clause of RenewLease: the live owner of the attempt and epoch.
LeaseHolds(f, at) ==
    /\ status[f.task] = "running"
    /\ attempt[f.task] = f.attempt
    /\ lease_epoch[f.task] = f.epoch
    /\ lease_expires_at[f.task] > at

\* Mutant: only the revision is compared.
FenceHoldsByRevision(f, at) ==
    status[f.task] = "running" /\ revision[f.task] >= f.revision

\* The WHERE clause of every other fenced write also has the revision.
FenceHolds(f, at) == LeaseHolds(f, at) /\ revision[f.task] = f.revision

NewRevision(t) == revision' = [revision EXCEPT ![t] = @ + 1]

\* progress_sequence + 1 and the INSERT into core_task_events under it.
AppendEvent(t, s, epoch) ==
    /\ progress_sequence' = [progress_sequence EXCEPT ![t] = @ + 1]
    /\ events' = [events EXCEPT ![t] =
                    Append(@, [sequence |-> progress_sequence[t] + 1, status |-> s, epoch |-> epoch])]

\* lease_holder = '', lease_expires_at = NULL
DropLease(t) == lease_expires_at' = [lease_expires_at EXCEPT ![t] = NoTime]

\* GREATEST(0, running_count - 1)
ReleaseSlot == running_count' = IF running_count > 0 THEN running_count - 1 ELSE 0

\* The kinds whose creation pins a model profile.
HoldsModelRef(t) == Kind[t] \in {"agent", "cloud_worker"}

-----------------------------------------------------------------------------
(* Creation and deletion *)

\* createTaskTx: the confirmation-bound kinds may start in waiting_user.
CreateTask(t, s, available) ==
    /\ status[t] = "absent"
    /\ s = "waiting_user" => Kind[t] \notin {"agent", "knowledge_index"}
    /\ status' = [status EXCEPT ![t] = s]
    /\ available_at' = [available_at EXCEPT ![t] = available]
    /\ NewRevision(t)
    /\ AppendEvent(t, s, 0)
    /\ refs' = IF HoldsModelRef(t) THEN refs \cup {t} ELSE refs
    /\ UNCHANGED <<attempt, leaseVars, execution_deadline_at, failure_code, deleted,
                   running_count, now>>

\* RetryTask: a terminal agent task, unless a side effect of it is uncertain,
\* is copied into a fresh queued row.
RetryTask(t, n, at) ==
    /\ status[t] \in Terminal
    /\ t \notin deleted
    /\ Kind[t] = "agent"
    /\ failure_code[t] # "uncertain"
    /\ status[n] = "absent"
    /\ Kind[n] = "agent" /\ Timeout[n] = Timeout[t]
    /\ status' = [status EXCEPT ![n] = "queued"]
    /\ available_at' = [available_at EXCEPT ![n] = at]
    /\ NewRevision(n)
    /\ AppendEvent(n, "queued", 0)
    /\ refs' = refs \cup {n}
    /\ UNCHANGED <<attempt, leaseVars, execution_deadline_at, failure_code, deleted,
                   running_count, now>>

DeleteTask(t) ==
    /\ status[t] \in Terminal
    /\ t \notin deleted
    /\ deleted' = deleted \cup {t}
    /\ NewRevision(t)
    /\ refs' = refs \ {t}
    /\ UNCHANGED <<status, attempt, leaseVars, available_at, execution_deadline_at,
                   progress_sequence, failure_code, running_count, events, now>>

-----------------------------------------------------------------------------
(* Claiming *)

\* Mutant: a NULL deadline counts as a past one.
DueWithoutDeadline(t, at) ==
    \/ status[t] = "running" /\ lease_expires_at[t] <= at
    \/ status[t] = "queued" /\ available_at[t] <= at
    \/ status[t] = "waiting_user" /\ execution_deadline_at[t] <= at

\* Mutant: expired claims are not looked for.
DueOnlyNew(t, at) == status[t] = "queued" /\ available_at[t] <= at

Due(t, at) ==
    \/ status[t] = "running" /\ lease_expires_at[t] <= at
    \/ status[t] = "queued" /\ available_at[t] <= at
    \/ /\ status[t] = "waiting_user"
       /\ execution_deadline_at[t] # NoTime
       /\ execution_deadline_at[t] <= at

LocalRunning(at) == {t \in LocalTasks : status[t] = "running" /\ lease_expires_at[t] > at}

\* A local task needs a free slot of the local sandbox lane, which is derived
\* from the unexpired running rows.
Eligible(t, at) ==
    /\ Due(t, at)
    /\ \/ status[t] = "waiting_user"
       \/ t \notin LocalTasks
       \/ Cardinality(LocalRunning(at)) < LocalSandboxMax

Class(t) == IF status[t] = "running" THEN 0
            ELSE IF status[t] = "waiting_user" THEN 1 ELSE 2

\* ORDER BY class, available_at; created_at and task_id only break ties.
Before(t, u) == \/ Class(t) < Class(u)
                \/ Class(t) = Class(u) /\ available_at[t] < available_at[u]

\* FOR UPDATE SKIP LOCKED LIMIT 1: the first eligible row that no other
\* transaction has locked.  A queued head of the queue is given up when every
\* slot is taken, whatever else is due.
Candidate(t, at, locked) ==
    /\ t \notin locked
    /\ Eligible(t, at)
    /\ \A u \in Tasks \ locked : Eligible(u, at) => ~Before(u, t)
    /\ status[t] = "queued" => running_count < MaxConcurrent

Overdue(t, at) ==
    /\ Kind[t] # "cloud_worker"
    /\ execution_deadline_at[t] # NoTime
    /\ execution_deadline_at[t] <= at

\* Mutant: the slot is released whether or not the task held one.
ClaimOverdueReleasing(t, at, locked) ==
    /\ Candidate(t, at, locked)
    /\ Overdue(t, at)
    /\ status' = [status EXCEPT ![t] = "failed"]
    /\ failure_code' = [failure_code EXCEPT ![t] = "task_timed_out"]
    /\ attempt' = [attempt EXCEPT ![t] = IF @ > 1 THEN @ ELSE 1]
    /\ DropLease(t)
    /\ NewRevision(t)
    /\ running_count' = running_count - 1
    /\ AppendEvent(t, "failed", lease_epoch[t])
    /\ refs' = refs \ {t}
    /\ UNCHANGED <<lease_epoch, available_at, execution_deadline_at, deleted, now>>

\* ClaimNextDue, first outcome: an overdue task fails instead of being leased.
\* The caller gets ErrNotFound.
ClaimOverdue(t, at, locked) ==
    /\ Candidate(t, at, locked)
    /\ Overdue(t, at)
    /\ status' = [status EXCEPT ![t] = "failed"]
    /\ failure_code' = [failure_code EXCEPT ![t] = "task_timed_out"]
    /\ attempt' = [attempt EXCEPT ![t] = IF @ > 1 THEN @ ELSE 1]
    /\ DropLease(t)
    /\ NewRevision(t)
    /\ IF status[t] = "running" THEN ReleaseSlot ELSE UNCHANGED running_count
    /\ AppendEvent(t, "failed", lease_epoch[t])
    /\ refs' = refs \ {t}
    /\ UNCHANGED <<lease_epoch, available_at, execution_deadline_at, deleted, now>>

\* ClaimNextDue, second outcome: the task gets a lease under the next epoch.
\* The deadline starts with the first lease and survives a reclaim.
ClaimLease(t, at, locked) ==
    /\ Candidate(t, at, locked)
    /\ ~Overdue(t, at)
    /\ status' = [status EXCEPT ![t] = "running"]
    /\ attempt' = [attempt EXCEPT ![t] = IF @ = 0 THEN 1 ELSE @]
    /\ lease_epoch' = [lease_epoch EXCEPT ![t] = @ + 1]
    /\ lease_expires_at' = [lease_expires_at EXCEPT ![t] = at + TTL]
    /\ execution_deadline_at' = [execution_deadline_at EXCEPT ![t] =
                                   IF Timeout[t] = 0 THEN NoTime
                                   ELSE IF @ = NoTime THEN at + Timeout[t] ELSE @]
    /\ NewRevision(t)
    /\ running_count' = IF status[t] = "queued" THEN running_count + 1 ELSE running_count
    /\ AppendEvent(t, "running", lease_epoch[t] + 1)
    /\ UNCHANGED <<available_at, failure_code, deleted, refs, now>>

RenewLease(f, at) ==
    /\ LeaseHolds(f, at)
    /\ lease_expires_at' = [lease_expires_at EXCEPT ![f.task] = at + TTL]
    /\ UNCHANGED <<status, attempt, lease_epoch, available_at, execution_deadline_at, revision,
                   progress_sequence, failure_code, deleted, running_count, events, refs, now>>

-----------------------------------------------------------------------------
(* Writes of the lease owner *)

\* Mutant: the model profile stays pinned.
coreTerminalKeepingRef(f, at, s, code) ==
    /\ FenceHolds(f, at)
    /\ status' = [status EXCEPT ![f.task] = s]
    /\ failure_code' = [failure_code EXCEPT ![f.task] = code]
    /\ DropLease(f.task)
    /\ NewRevision(f.task)
    /\ ReleaseSlot
    /\ AppendEvent(f.task, s, f.epoch)
    /\ UNCHANGED <<attempt, lease_epoch, available_at, execution_deadline_at, deleted, refs, now>>

\* CompleteTask, FailTask and TimeoutTask.
coreTerminal(f, at, s, code) ==
    /\ FenceHolds(f, at)
    /\ status' = [status EXCEPT ![f.task] = s]
    /\ failure_code' = [failure_code EXCEPT ![f.task] = code]
    /\ DropLease(f.task)
    /\ NewRevision(f.task)
    /\ ReleaseSlot
    /\ AppendEvent(f.task, s, f.epoch)
    /\ refs' = refs \ {f.task}
    /\ UNCHANGED <<attempt, lease_epoch, available_at, execution_deadline_at, deleted, now>>

AppendProgress(f, at) ==
    /\ FenceHolds(f, at)
    /\ revision[f.task] < MaxRevision
    /\ NewRevision(f.task)
    /\ AppendEvent(f.task, "running", f.epoch)
    /\ UNCHANGED <<status, attempt, leaseVars, available_at, execution_deadline_at,
                   failure_code, deleted, running_count, refs, now>>

WaitTask(f, at) ==
    /\ FenceHolds(f, at)
    /\ revision[f.task] < MaxRevision
    /\ status' = [status EXCEPT ![f.task] = "waiting_user"]
    /\ DropLease(f.task)
    /\ NewRevision(f.task)
    /\ ReleaseSlot
    /\ AppendEvent(f.task, "waiting_user", f.epoch)
    /\ UNCHANGED <<attempt, lease_epoch, available_at, execution_deadline_at,
                   failure_code, deleted, refs, now>>

-----------------------------------------------------------------------------
(* Owner mutations; the expected revision must be the current one *)

\* Mutant: the revision is not moved.
ResumeTaskSilently(t) ==
    /\ status[t] = "waiting_user"
    /\ status' = [status EXCEPT ![t] = "queued"]
    /\ available_at' = [available_at EXCEPT ![t] = now]
    /\ DropLease(t)
    /\ AppendEvent(t, "queued", lease_epoch[t])
    /\ UNCHANGED <<attempt, lease_epoch, execution_deadline_at, revision, failure_code, deleted,
                   running_count, refs, now>>

ResumeTask(t) ==
    /\ status[t] = "waiting_user"
    /\ status' = [status EXCEPT ![t] = "queued"]
    /\ available_at' = [available_at EXCEPT ![t] = now]
    /\ DropLease(t)
    /\ NewRevision(t)
    /\ AppendEvent(t, "queued", lease_epoch[t])
    /\ UNCHANGED <<attempt, lease_epoch, execution_deadline_at, failure_code, deleted,
                   running_count, refs, now>>

\* Mutant: a task that has just ended is canceled like any other.
CancelAnyTask(t) ==
    /\ status[t] # "absent"
    /\ status' = [status EXCEPT ![t] = "canceled"]
    /\ failure_code' = [failure_code EXCEPT ![t] = "user_canceled"]
    /\ DropLease(t)
    /\ NewRevision(t)
    /\ IF status[t] = "running" THEN ReleaseSlot ELSE UNCHANGED running_count
    /\ AppendEvent(t, "canceled", lease_epoch[t])
    /\ refs' = refs \ {t}
    /\ UNCHANGED <<attempt, lease_epoch, available_at, execution_deadline_at, deleted, now>>

\* Mutant: the slot of a running task is not given back.
CancelTaskKeepingSlot(t) ==
    /\ status[t] \in {"queued", "running", "waiting_user"}
    /\ status' = [status EXCEPT ![t] = "canceled"]
    /\ failure_code' = [failure_code EXCEPT ![t] = "user_canceled"]
    /\ lease_epoch' = [lease_epoch EXCEPT ![t] = @ + 1]
    /\ DropLease(t)
    /\ NewRevision(t)
    /\ AppendEvent(t, "canceled", lease_epoch[t] + 1)
    /\ refs' = refs \ {t}
    /\ UNCHANGED <<attempt, available_at, execution_deadline_at, deleted, running_count, now>>

\* Canceling a running task moves the epoch past its executor; a running
\* workload or conversation tool has been dispatched and cannot be canceled.
CancelTask(t) ==
    LET running == status[t] = "running"
        epoch == IF running THEN lease_epoch[t] + 1 ELSE lease_epoch[t] IN
    /\ status[t] \in {"queued", "running", "waiting_user"}
    /\ running => Kind[t] \notin {"workload", "conversation_tool"}
    /\ status' = [status EXCEPT ![t] = "canceled"]
    /\ failure_code' = [failure_code EXCEPT ![t] = "user_canceled"]
    /\ lease_epoch' = [lease_epoch EXCEPT ![t] = epoch]
    /\ DropLease(t)
    /\ NewRevision(t)
    /\ IF running THEN ReleaseSlot ELSE UNCHANGED running_count
    /\ AppendEvent(t, "canceled", epoch)
    /\ refs' = refs \ {t}
    /\ UNCHANGED <<attempt, available_at, execution_deadline_at, deleted, now>>

Tick ==
    /\ now < MaxTime
    /\ now' = now + 1
    /\ UNCHANGED <<status, attempt, leaseVars, available_at, execution_deadline_at, revision,
                   progress_sequence, failure_code, deleted, running_count, events, refs>>

-----------------------------------------------------------------------------
(* The store under any callers *)

StoreInit ==
    /\ status = [t \in Tasks |-> "absent"]
    /\ attempt = [t \in Tasks |-> 0]
    /\ lease_epoch = [t \in Tasks |-> 0]
    /\ lease_expires_at = [t \in Tasks |-> NoTime]
    /\ available_at = [t \in Tasks |-> 0]
    /\ execution_deadline_at = [t \in Tasks |-> NoTime]
    /\ revision = [t \in Tasks |-> 0]
    /\ progress_sequence = [t \in Tasks |-> 0]
    /\ failure_code = [t \in Tasks |-> ""]
    /\ deleted = {}
    /\ running_count = 0
    /\ events = [t \in Tasks |-> <<>>]
    /\ refs = {}
    /\ now = 0

\* The calls of clients, which hold no lease.
ClientNext ==
    \/ \E t \in Tasks, s \in {"queued", "waiting_user"}, d \in 0..MaxDelay :
         CreateTask(t, s, now + d)
    \/ \E t, n \in Tasks, at \in Clock : RetryTask(t, n, at)
    \/ \E t \in Tasks : DeleteTask(t) \/ ResumeTask(t) \/ CancelTask(t)

\* The fences that match a row: a write with any other fence changes nothing.
CurrentFences == {[task |-> t, attempt |-> attempt[t], epoch |-> lease_epoch[t],
                   revision |-> revision[t]] : t \in Tasks}

\* The calls of executors, whoever they are and whenever they call.  No caller
\* parks a CLOUD_WORKER task: its deadline would bring it back from
\* waiting_user through a claim that takes no slot.
ExecutorNext ==
    \E at \in Clock :
      \/ \E t \in Tasks, locked \in SUBSET Tasks :
           ClaimOverdue(t, at, locked) \/ ClaimLease(t, at, locked)
      \/ \E f \in CurrentFences :
           \/ RenewLease(f, at)
           \/ AppendProgress(f, at)
           \/ Kind[f.task] # "cloud_worker" /\ WaitTask(f, at)
           \/ coreTerminal(f, at, "succeeded", "")
           \/ \E code \in {"task_error", "uncertain", "task_timed_out"} :
                coreTerminal(f, at, "failed", code)

StoreNext == ClientNext \/ ExecutorNext \/ Tick

StoreSpec == StoreInit /\ [][StoreNext]_storeVars

-----------------------------------------------------------------------------
(* Properties *)

\* Every column and log entry has its type.
StoreTypeOK ==
    /\ status \in [Tasks -> Status]
    /\ attempt \in [Tasks -> Nat]
    /\ lease_epoch \in [Tasks -> Nat]
    /\ lease_expires_at \in [Tasks -> Int]
    /\ available_at \in [Tasks -> Nat]
    /\ execution_deadline_at \in [Tasks -> Int]
    /\ revision \in [Tasks -> Nat]
    /\ progress_sequence \in [Tasks -> Nat]
    /\ failure_code \in [Tasks -> FailureCode]
    /\ deleted \subseteq Tasks
    /\ running_count \in Nat
    /\ events \in [Tasks -> Seq(Event)]
    /\ refs \subseteq Tasks
    /\ now \in Nat

\* The slot counter, which every path that starts or ends a lease adjusts by
\* hand, is exactly the number of running tasks: no slot leaks and none is
\* released twice, so the pool never starves and never exceeds its limit.
SlotsExact ==
    /\ running_count = Cardinality(RunningTasks)
    /\ running_count <= MaxConcurrent

\* A row has a lease exactly while it runs, and then under a real attempt and
\* epoch, so an expired claim can always be found and fenced.
LeaseExact ==
    \A t \in Tasks :
      IF status[t] = "running"
      THEN lease_expires_at[t] # NoTime /\ attempt[t] >= 1 /\ lease_epoch[t] >= 1
      ELSE lease_expires_at[t] = NoTime

\* core_model_profile_active_refs names exactly the tasks that still use a model
\* profile: createTaskTx inserts the row, and each of the ways a task ends (a
\* terminal write, a timeout found by a claim, a cancellation) deletes it in its
\* own transaction.
ModelRefsExact ==
    refs = {t \in Tasks : HoldsModelRef(t) /\ status[t] \notin Terminal \cup {"absent"}}

\* What a watcher of the event log sees: the log has no gaps, its last event
\* tells the status of the task, and a terminal event is the last one.
EventLogExact ==
    \A t \in Tasks :
      LET log == events[t] IN
      /\ Len(log) = progress_sequence[t]
      /\ \A i \in 1..Len(log) : log[i].sequence = i
      /\ Len(log) > 0 => log[Len(log)].status = status[t]
      /\ \A i \in 1..Len(log) : log[i].status \in Terminal => i = Len(log)

\* What one transaction must leave right in every row it touches and in the two
\* tables beside it: the lease columns, the pins of model profiles, the event log.
RowsExact == LeaseExact /\ ModelRefsExact /\ EventLogExact

\* An executor that lost its lease never writes after its successor: the
\* events of a task are in the order of the epochs of their writers.
ZombieSilenced ==
    \A t \in Tasks : \A i, j \in 1..Len(events[t]) :
      i < j => events[t][i].epoch <= events[t][j].epoch

\* At most LocalSandboxMax local tasks run with an unexpired lease.  No run
\* checks it: a delayed renewal breaks it (see the README).
LocalLaneBounded == Cardinality(LocalRunning(now)) <= LocalSandboxMax

\* Nothing revives or rewrites a terminal task; only its deletion still
\* touches it.
TerminalFrozen ==
    [][\A t \in Tasks : status[t] \in Terminal =>
         /\ status'[t] = status[t]
         /\ failure_code'[t] = failure_code[t]
         /\ lease_epoch'[t] = lease_epoch[t]
         /\ events'[t] = events[t]
         /\ t \in deleted => revision'[t] = revision[t] /\ t \in deleted']_storeVars

\* A compare-and-swap on the revision is enough to pin the status, the epoch
\* and the attempt that were read without a lock: they never change while the
\* revision stays, and neither the revision nor the epoch ever goes back.
RevisionPins ==
    [][\A t \in Tasks :
         /\ revision'[t] >= revision[t]
         /\ lease_epoch'[t] >= lease_epoch[t]
         /\ revision'[t] = revision[t] =>
              /\ status'[t] = status[t]
              /\ lease_epoch'[t] = lease_epoch[t]
              /\ attempt'[t] = attempt[t]]_storeVars

\* The queue implements the life cycle a Task promises: every transaction of
\* the store is one transition of one task, or none.
Lifecycle == INSTANCE TaskLifecycle WITH epoch <- lease_epoch

ImplementsLifecycle == Lifecycle!Spec

=============================================================================
