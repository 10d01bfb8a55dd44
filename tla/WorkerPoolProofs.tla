-------------------------- MODULE WorkerPoolProofs --------------------------
(***************************************************************************)
(* Theorems about the durable Task queue and the worker pool over it.  The *)
(* queue: for every set of tasks, every concurrency limit, lease time,     *)
(* clock lag and bound.  The pool: for every number of executors and       *)
(* crashes, it uses the queue only through its operations, so what holds   *)
(* of the queue under any callers holds under the pool; and at most one    *)
(* executor owns the lease of a task.                                      *)
(***************************************************************************)
EXTENDS WorkerPool, FiniteSetTheorems, SequenceTheorems, TLAPS

\* A fence that matches a row is typed, and names the row it matches.
LEMMA FencesAreTyped ==
    ASSUME StoreTypeOK, NEW f \in CurrentFences
    PROVE  f \in Fence /\ f.task \in Tasks /\ f.epoch \in Nat
BY DEF StoreTypeOK, CurrentFences, Fence

\* The instants callers present are natural numbers.
LEMMA ClockIsNat ==
    ASSUME StoreTypeOK, NEW at \in Clock
    PROVE  at \in Nat
BY DEF StoreTypeOK, Clock

\* NULL is none of the instants, but an integer like them.
LEMMA NoTimeIsInt == NoTime \in Int
BY DEF NoTime

\* A lease never expires at NULL.
LEMMA LeaseIsNotNull ==
    ASSUME StoreTypeOK, NEW at \in Clock
    PROVE  at + TTL # NoTime
<1>1. at \in Nat
  BY ClockIsNat
<1>2. QED
  BY <1>1, ConstantsAssumption DEF NoTime

\* A new revision is a natural number, and the lease of a row may be NULL.
LEMMA RowWritesTyped ==
    ASSUME StoreTypeOK, NEW t \in Tasks
    PROVE  /\ NewRevision(t) => revision' \in [Tasks -> Nat]
           /\ DropLease(t) => lease_expires_at' \in [Tasks -> Int]
<1>1. NewRevision(t) => revision' \in [Tasks -> Nat]
  BY DEF StoreTypeOK, NewRevision
<1>2. DropLease(t) => lease_expires_at' \in [Tasks -> Int]
  BY NoTimeIsInt DEF StoreTypeOK, DropLease
<1>3. QED
  BY <1>1, <1>2

\* Logging one event keeps the logs and their cursors typed.
LEMMA AppendEventTyped ==
    ASSUME StoreTypeOK, NEW t \in Tasks, NEW s \in Status, NEW n \in Nat, AppendEvent(t, s, n)
    PROVE  /\ events' \in [Tasks -> Seq(Event)]
           /\ progress_sequence' \in [Tasks -> Nat]
<1> DEFINE ev == [sequence |-> progress_sequence[t] + 1, status |-> s, epoch |-> n]
<1>1. ev \in Event
  BY DEF Event, StoreTypeOK
<1>2. events[t] \in Seq(Event)
  BY DEF StoreTypeOK
<1>3. events' = [events EXCEPT ![t] = Append(events[t], ev)]
  BY DEF AppendEvent
<1> HIDE DEF ev
<1>4. Append(events[t], ev) \in Seq(Event)
  BY <1>1, <1>2
<1>5. events' \in [Tasks -> Seq(Event)]
  BY <1>3, <1>4 DEF StoreTypeOK
<1>6. QED
  BY <1>5 DEF AppendEvent, StoreTypeOK

\* Releasing a slot keeps the counter a natural number.
LEMMA ReleaseSlotTyped ==
    ASSUME StoreTypeOK, ReleaseSlot
    PROVE  running_count' \in Nat
BY DEF StoreTypeOK, ReleaseSlot

\* A task that succeeds has no failure code.
CodeFits(s, code) == s = "succeeded" => code = ""

\* The next-state relation, one case per operation of the store.
LEMMA StoreNextCases ==
    ASSUME [StoreNext]_storeVars, StoreTypeOK, NEW P,
           ASSUME NEW t \in Tasks, NEW s \in {"queued", "waiting_user"}, NEW a \in Nat,
                  CreateTask(t, s, a)
           PROVE  P,
           ASSUME NEW t \in Tasks, NEW n \in Tasks, NEW at \in Clock, RetryTask(t, n, at)
           PROVE  P,
           ASSUME NEW t \in Tasks, DeleteTask(t) PROVE P,
           ASSUME NEW t \in Tasks, ResumeTask(t) PROVE P,
           ASSUME NEW t \in Tasks, CancelTask(t) PROVE P,
           ASSUME NEW t \in Tasks, NEW at \in Clock, NEW locked \in SUBSET Tasks,
                  ClaimOverdue(t, at, locked)
           PROVE  P,
           ASSUME NEW t \in Tasks, NEW at \in Clock, NEW locked \in SUBSET Tasks,
                  ClaimLease(t, at, locked)
           PROVE  P,
           ASSUME NEW f \in CurrentFences, NEW at \in Clock, RenewLease(f, at) PROVE P,
           ASSUME NEW f \in CurrentFences, NEW at \in Clock, AppendProgress(f, at) PROVE P,
           ASSUME NEW f \in CurrentFences, NEW at \in Clock, Kind[f.task] # "cloud_worker",
                  WaitTask(f, at)
           PROVE  P,
           ASSUME NEW f \in CurrentFences, NEW at \in Clock, NEW s \in {"succeeded", "failed"},
                  NEW code \in FailureCode, CodeFits(s, code), coreTerminal(f, at, s, code)
           PROVE  P,
           ASSUME Tick PROVE P,
           ASSUME UNCHANGED storeVars PROVE P
    PROVE  P
<1>1. CASE ClientNext
  <2>1. ASSUME NEW d \in 0..MaxDelay PROVE now + d \in Nat
    BY ConstantsAssumption DEF StoreTypeOK
  <2>2. QED
    BY <1>1, <2>1 DEF ClientNext
<1>2. CASE ExecutorNext
  <2>1. {"", "task_error", "uncertain", "task_timed_out"} \subseteq FailureCode
    BY DEF FailureCode
  <2>2. QED
    BY <1>2, <2>1 DEF ExecutorNext, CodeFits
<1>3. CASE Tick
  BY <1>3
<1>4. CASE UNCHANGED storeVars
  BY <1>4
<1>5. QED
  BY <1>1, <1>2, <1>3, <1>4 DEF StoreNext

-----------------------------------------------------------------------------
(* Types *)

\* Every operation keeps every column typed.
LEMMA TypeStep ==
    ASSUME StoreTypeOK, [StoreNext]_storeVars
    PROVE  StoreTypeOK'
<1>1. ASSUME NEW t \in Tasks, NEW s \in {"queued", "waiting_user"}, NEW a \in Nat,
             CreateTask(t, s, a)
      PROVE  StoreTypeOK'
  <2>1. s \in Status
    BY DEF Status
  <2>2. events' \in [Tasks -> Seq(Event)] /\ progress_sequence' \in [Tasks -> Nat]
    BY <1>1, <2>1, AppendEventTyped DEF CreateTask
  <2>3. QED
    BY <1>1, <2>1, <2>2, RowWritesTyped DEF CreateTask, StoreTypeOK, leaseVars
<1>2. ASSUME NEW t \in Tasks, NEW n \in Tasks, NEW at \in Clock, RetryTask(t, n, at)
      PROVE  StoreTypeOK'
  <2>1. "queued" \in Status
    BY DEF Status
  <2>2. events' \in [Tasks -> Seq(Event)] /\ progress_sequence' \in [Tasks -> Nat]
    BY <1>2, <2>1, AppendEventTyped DEF RetryTask
  <2>3. QED
    BY <1>2, <2>1, <2>2, ClockIsNat, RowWritesTyped DEF RetryTask, StoreTypeOK, leaseVars
<1>3. ASSUME NEW t \in Tasks, DeleteTask(t) PROVE StoreTypeOK'
  BY <1>3, RowWritesTyped DEF DeleteTask, StoreTypeOK, leaseVars
<1>4. ASSUME NEW t \in Tasks, ResumeTask(t) PROVE StoreTypeOK'
  <2>1. "queued" \in Status /\ lease_epoch[t] \in Nat
    BY DEF Status, StoreTypeOK
  <2>2. events' \in [Tasks -> Seq(Event)] /\ progress_sequence' \in [Tasks -> Nat]
    BY <1>4, <2>1, AppendEventTyped DEF ResumeTask
  <2>3. QED
    BY <1>4, <2>1, <2>2, RowWritesTyped DEF ResumeTask, StoreTypeOK
<1>5. ASSUME NEW t \in Tasks, CancelTask(t) PROVE StoreTypeOK'
  <2> DEFINE epoch == IF status[t] = "running" THEN lease_epoch[t] + 1 ELSE lease_epoch[t]
  <2>0. "canceled" \in Status /\ "user_canceled" \in FailureCode
    BY DEF Status, Terminal, FailureCode
  <2>1. epoch \in Nat
    BY DEF StoreTypeOK
  <2>2. AppendEvent(t, "canceled", epoch)
    BY <1>5 DEF CancelTask
  <2>3. lease_epoch' \in [Tasks -> Nat]
    BY <1>5, <2>1 DEF CancelTask, StoreTypeOK
  <2> HIDE DEF epoch
  <2>4. events' \in [Tasks -> Seq(Event)] /\ progress_sequence' \in [Tasks -> Nat]
    BY <2>0, <2>1, <2>2, AppendEventTyped
  <2>5. running_count' \in Nat
    BY <1>5, ReleaseSlotTyped DEF CancelTask, StoreTypeOK
  <2>6. QED
    BY <1>5, <2>0, <2>1, <2>3, <2>4, <2>5, RowWritesTyped DEF CancelTask, StoreTypeOK
<1>6. ASSUME NEW t \in Tasks, NEW at \in Clock, NEW locked \in SUBSET Tasks,
             ClaimOverdue(t, at, locked)
      PROVE  StoreTypeOK'
  <2>1. "failed" \in Status /\ "task_timed_out" \in FailureCode /\ lease_epoch[t] \in Nat
    BY DEF Status, Terminal, FailureCode, StoreTypeOK
  <2>2. events' \in [Tasks -> Seq(Event)] /\ progress_sequence' \in [Tasks -> Nat]
    BY <1>6, <2>1, AppendEventTyped DEF ClaimOverdue
  <2>3. running_count' \in Nat
    BY <1>6, ReleaseSlotTyped DEF ClaimOverdue, StoreTypeOK
  <2>4. QED
    BY <1>6, <2>1, <2>2, <2>3, RowWritesTyped DEF ClaimOverdue, StoreTypeOK
<1>7. ASSUME NEW t \in Tasks, NEW at \in Clock, NEW locked \in SUBSET Tasks,
             ClaimLease(t, at, locked)
      PROVE  StoreTypeOK'
  <2>1. "running" \in Status /\ lease_epoch[t] + 1 \in Nat /\ at \in Nat
    BY ClockIsNat DEF Status, StoreTypeOK
  <2>2. events' \in [Tasks -> Seq(Event)] /\ progress_sequence' \in [Tasks -> Nat]
    BY <1>7, <2>1, AppendEventTyped DEF ClaimLease
  <2>3. at + TTL \in Int /\ at + Timeout[t] \in Int /\ NoTime \in Int
    BY <2>1, NoTimeIsInt, ConstantsAssumption
  <2>4. attempt' \in [Tasks -> Nat] /\ lease_epoch' \in [Tasks -> Nat]
    BY <1>7, <2>1 DEF ClaimLease, StoreTypeOK
  <2>5. lease_expires_at' \in [Tasks -> Int] /\ execution_deadline_at' \in [Tasks -> Int]
    BY <1>7, <2>3 DEF ClaimLease, StoreTypeOK
  <2>6. revision' \in [Tasks -> Nat] /\ running_count' \in Nat
    BY <1>7, RowWritesTyped DEF ClaimLease, StoreTypeOK
  <2>7. status' \in [Tasks -> Status]
    BY <1>7, <2>1 DEF ClaimLease, StoreTypeOK
  <2>8. UNCHANGED <<available_at, failure_code, deleted, refs, now>>
    BY <1>7 DEF ClaimLease
  <2>9. QED
    BY <2>2, <2>4, <2>5, <2>6, <2>7, <2>8 DEF StoreTypeOK
<1>8. ASSUME NEW f \in CurrentFences, NEW at \in Clock, RenewLease(f, at) PROVE StoreTypeOK'
  <2>1. f.task \in Tasks /\ at + TTL \in Int
    BY FencesAreTyped, ClockIsNat, ConstantsAssumption
  <2>2. QED
    BY <1>8, <2>1 DEF RenewLease, StoreTypeOK
<1>9. ASSUME NEW f \in CurrentFences, NEW at \in Clock, AppendProgress(f, at) PROVE StoreTypeOK'
  <2>1. "running" \in Status /\ f.task \in Tasks /\ f.epoch \in Nat
    BY FencesAreTyped DEF Status
  <2>2. events' \in [Tasks -> Seq(Event)] /\ progress_sequence' \in [Tasks -> Nat]
    BY <1>9, <2>1, AppendEventTyped DEF AppendProgress
  <2>3. QED
    BY <1>9, <2>1, <2>2, RowWritesTyped DEF AppendProgress, StoreTypeOK, leaseVars
<1>10. ASSUME NEW f \in CurrentFences, NEW at \in Clock, Kind[f.task] # "cloud_worker",
              WaitTask(f, at)
       PROVE  StoreTypeOK'
  <2>1. "waiting_user" \in Status /\ f.task \in Tasks /\ f.epoch \in Nat
    BY FencesAreTyped DEF Status
  <2>2. events' \in [Tasks -> Seq(Event)] /\ progress_sequence' \in [Tasks -> Nat]
    BY <1>10, <2>1, AppendEventTyped DEF WaitTask
  <2>3. running_count' \in Nat
    BY <1>10, ReleaseSlotTyped DEF WaitTask
  <2>4. QED
    BY <1>10, <2>1, <2>2, <2>3, RowWritesTyped DEF WaitTask, StoreTypeOK
<1>11. ASSUME NEW f \in CurrentFences, NEW at \in Clock, NEW s \in {"succeeded", "failed"},
              NEW code \in FailureCode, coreTerminal(f, at, s, code)
       PROVE  StoreTypeOK'
  <2>1. s \in Status /\ f.task \in Tasks /\ f.epoch \in Nat
    BY FencesAreTyped DEF Status, Terminal
  <2>2. events' \in [Tasks -> Seq(Event)] /\ progress_sequence' \in [Tasks -> Nat]
    BY <1>11, <2>1, AppendEventTyped DEF coreTerminal
  <2>3. running_count' \in Nat
    BY <1>11, ReleaseSlotTyped DEF coreTerminal
  <2>4. QED
    BY <1>11, <2>1, <2>2, <2>3, RowWritesTyped DEF coreTerminal, StoreTypeOK
<1>12. ASSUME Tick PROVE StoreTypeOK'
  BY <1>12 DEF Tick, StoreTypeOK, leaseVars
<1>13. ASSUME UNCHANGED storeVars PROVE StoreTypeOK'
  BY <1>13 DEF storeVars, StoreTypeOK
<1>14. QED
  BY <1>1, <1>2, <1>3, <1>4, <1>5, <1>6, <1>7, <1>8, <1>9, <1>10, <1>11, <1>12, <1>13,
     StoreNextCases

\* The empty database is typed.
LEMMA InitTyped ==
    ASSUME StoreInit
    PROVE  StoreTypeOK
<1>1. "absent" \in Status /\ "" \in FailureCode
  BY DEF Status, FailureCode
<1>2. <<>> \in Seq(Event)
  OBVIOUS
<1>3. /\ lease_expires_at \in [Tasks -> Int]
      /\ execution_deadline_at \in [Tasks -> Int]
  BY NoTimeIsInt DEF StoreInit
<1>4. events \in [Tasks -> Seq(Event)]
  BY <1>2 DEF StoreInit
<1>5. status \in [Tasks -> Status] /\ failure_code \in [Tasks -> FailureCode]
  BY <1>1 DEF StoreInit
<1>6. /\ attempt \in [Tasks -> Nat] /\ lease_epoch \in [Tasks -> Nat]
      /\ available_at \in [Tasks -> Nat] /\ revision \in [Tasks -> Nat]
      /\ progress_sequence \in [Tasks -> Nat]
  BY DEF StoreInit
<1>7. running_count \in Nat /\ refs \subseteq Tasks /\ deleted \subseteq Tasks /\ now \in Nat
  BY DEF StoreInit
<1>8. QED
  BY <1>3, <1>4, <1>5, <1>6, <1>7 DEF StoreTypeOK

\* In every reachable state of the queue, whatever its callers do, every column,
\* log and counter has its type; the slot counter never goes below zero.
THEOREM StoreTypeCorrect == StoreSpec => []StoreTypeOK
<1>1. StoreInit => StoreTypeOK
  BY InitTyped
<1>2. StoreTypeOK /\ [StoreNext]_storeVars => StoreTypeOK'
  BY TypeStep
<1>3. QED
  BY <1>1, <1>2, PTL DEF StoreSpec

-----------------------------------------------------------------------------
(* Slots *)

\* A slot is taken when a task starts to run.
LEMMA SlotTaken ==
    ASSUME StoreTypeOK, running_count = Cardinality(RunningTasks),
           NEW t \in Tasks, status[t] # "running",
           status' = [status EXCEPT ![t] = "running"], running_count' = running_count + 1
    PROVE  running_count' = Cardinality(RunningTasks)'
<1>1. IsFiniteSet(RunningTasks)
  BY ConstantsAssumption, FS_Subset DEF RunningTasks
<1>2. RunningTasks' = RunningTasks \cup {t}
  BY DEF RunningTasks, StoreTypeOK
<1>3. t \notin RunningTasks
  BY DEF RunningTasks
<1>4. Cardinality(RunningTasks \cup {t}) = Cardinality(RunningTasks) + 1
  BY <1>1, <1>3, FS_AddElement
<1>5. QED
  BY <1>2, <1>4

\* It is released when the task stops, and then there was one to release.
LEMMA SlotReleased ==
    ASSUME StoreTypeOK, SlotsExact, NEW t \in Tasks, NEW s \in Status,
           status[t] = "running", s # "running", status' = [status EXCEPT ![t] = s], ReleaseSlot
    PROVE  SlotsExact'
<1>1. IsFiniteSet(RunningTasks)
  BY ConstantsAssumption, FS_Subset DEF RunningTasks
<1>2. RunningTasks' = RunningTasks \ {t}
  BY DEF RunningTasks, StoreTypeOK
<1>3. t \in RunningTasks
  BY DEF RunningTasks
<1>4. Cardinality(RunningTasks \ {t}) = Cardinality(RunningTasks) - 1
  BY <1>1, <1>3, FS_RemoveElement
<1>5. Cardinality(RunningTasks \ {t}) \in Nat
  BY <1>1, FS_RemoveElement, FS_CardinalityType
<1>6. running_count > 0 /\ running_count' = running_count - 1
  BY <1>4, <1>5 DEF SlotsExact, ReleaseSlot, StoreTypeOK
<1>7. QED
  BY <1>2, <1>4, <1>6, ConstantsAssumption DEF SlotsExact, StoreTypeOK

\* Any other change of one status leaves the slots alone.
LEMMA SlotsKept ==
    ASSUME StoreTypeOK, SlotsExact, NEW t \in Tasks, NEW s \in Status,
           status[t] = "running" <=> s = "running",
           status' = [status EXCEPT ![t] = s], running_count' = running_count
    PROVE  SlotsExact'
<1>1. RunningTasks' = RunningTasks
  BY DEF RunningTasks, StoreTypeOK
<1>2. QED
  BY <1>1 DEF SlotsExact

\* A task in waiting_user is never handed to an executor: a claim takes it only
\* when its deadline has passed, and then fails it.  A CLOUD_WORKER task, whose
\* deadline a claim does not enforce, has no deadline while it waits.
Unparked ==
    \A t \in Tasks :
      (status[t] = "absent" \/ (Kind[t] = "cloud_worker" /\ status[t] = "waiting_user"))
        => execution_deadline_at[t] = NoTime

\* The inductive invariant of the counter.
SlotInv == StoreTypeOK /\ SlotsExact /\ Unparked

\* A claim that leases finds the task queued or, expired, running.
LEMMA LeasedFrom ==
    ASSUME StoreTypeOK, Unparked, NEW t \in Tasks, NEW at \in Clock, NEW locked \in SUBSET Tasks,
           ClaimLease(t, at, locked)
    PROVE  status[t] \in {"queued", "running"}
BY DEF ClaimLease, Candidate, Eligible, Due, Overdue, Unparked

\* No operation gives a waiting Cloud Worker a deadline.
LEMMA UnparkedStep ==
    ASSUME StoreTypeOK, Unparked, [StoreNext]_storeVars
    PROVE  Unparked'
<1>1. ASSUME NEW t \in Tasks, NEW s \in {"queued", "waiting_user"}, NEW a \in Nat,
             CreateTask(t, s, a)
      PROVE  Unparked'
  BY <1>1 DEF CreateTask, Unparked, StoreTypeOK
<1>2. ASSUME NEW t \in Tasks, NEW n \in Tasks, NEW at \in Clock, RetryTask(t, n, at)
      PROVE  Unparked'
  BY <1>2 DEF RetryTask, Unparked, StoreTypeOK
<1>3. ASSUME NEW t \in Tasks, DeleteTask(t) PROVE Unparked'
  BY <1>3 DEF DeleteTask, Unparked, StoreTypeOK
<1>4. ASSUME NEW t \in Tasks, ResumeTask(t) PROVE Unparked'
  BY <1>4 DEF ResumeTask, Unparked, StoreTypeOK
<1>5. ASSUME NEW t \in Tasks, CancelTask(t) PROVE Unparked'
  BY <1>5 DEF CancelTask, Unparked, StoreTypeOK
<1>6. ASSUME NEW t \in Tasks, NEW at \in Clock, NEW locked \in SUBSET Tasks,
             ClaimOverdue(t, at, locked)
      PROVE  Unparked'
  BY <1>6 DEF ClaimOverdue, Unparked, StoreTypeOK
<1>7. ASSUME NEW t \in Tasks, NEW at \in Clock, NEW locked \in SUBSET Tasks,
             ClaimLease(t, at, locked)
      PROVE  Unparked'
  BY <1>7 DEF ClaimLease, Unparked, StoreTypeOK
<1>8. ASSUME NEW f \in CurrentFences, NEW at \in Clock, RenewLease(f, at) PROVE Unparked'
  BY <1>8 DEF RenewLease, Unparked
<1>9. ASSUME NEW f \in CurrentFences, NEW at \in Clock, AppendProgress(f, at) PROVE Unparked'
  BY <1>9 DEF AppendProgress, Unparked
<1>10. ASSUME NEW f \in CurrentFences, NEW at \in Clock, Kind[f.task] # "cloud_worker",
              WaitTask(f, at)
       PROVE  Unparked'
  BY <1>10, FencesAreTyped DEF WaitTask, Unparked, StoreTypeOK
<1>11. ASSUME NEW f \in CurrentFences, NEW at \in Clock, NEW s \in {"succeeded", "failed"},
              NEW code \in FailureCode, coreTerminal(f, at, s, code)
       PROVE  Unparked'
  BY <1>11, FencesAreTyped DEF coreTerminal, Unparked, StoreTypeOK
<1>12. ASSUME Tick PROVE Unparked'
  BY <1>12 DEF Tick, Unparked
<1>13. ASSUME UNCHANGED storeVars PROVE Unparked'
  BY <1>13 DEF storeVars, Unparked
<1>14. QED
  BY <1>1, <1>2, <1>3, <1>4, <1>5, <1>6, <1>7, <1>8, <1>9, <1>10, <1>11, <1>12, <1>13,
     StoreNextCases

\* Every operation keeps the counter exact.
LEMMA SlotsStep ==
    ASSUME SlotInv, [StoreNext]_storeVars
    PROVE  SlotsExact'
<1>0. StoreTypeOK /\ SlotsExact /\ Unparked
  BY DEF SlotInv
<1>a. {"queued", "waiting_user", "failed", "succeeded", "canceled", "running"} \subseteq Status
  BY DEF Status, Terminal
<1>1. ASSUME NEW t \in Tasks, NEW s \in {"queued", "waiting_user"}, NEW a \in Nat,
             CreateTask(t, s, a)
      PROVE  SlotsExact'
  BY <1>0, <1>a, <1>1, SlotsKept DEF CreateTask
<1>2. ASSUME NEW t \in Tasks, NEW n \in Tasks, NEW at \in Clock, RetryTask(t, n, at)
      PROVE  SlotsExact'
  BY <1>0, <1>a, <1>2, SlotsKept DEF RetryTask
<1>3. ASSUME NEW t \in Tasks, DeleteTask(t) PROVE SlotsExact'
  BY <1>0, <1>3 DEF DeleteTask, SlotsExact, RunningTasks
<1>4. ASSUME NEW t \in Tasks, ResumeTask(t) PROVE SlotsExact'
  BY <1>0, <1>a, <1>4, SlotsKept DEF ResumeTask
<1>5. ASSUME NEW t \in Tasks, CancelTask(t) PROVE SlotsExact'
  <2>1. CASE status[t] = "running"
    BY <1>0, <1>a, <1>5, <2>1, SlotReleased DEF CancelTask
  <2>2. CASE status[t] # "running"
    BY <1>0, <1>a, <1>5, <2>2, SlotsKept DEF CancelTask
  <2>3. QED
    BY <2>1, <2>2
<1>6. ASSUME NEW t \in Tasks, NEW at \in Clock, NEW locked \in SUBSET Tasks,
             ClaimOverdue(t, at, locked)
      PROVE  SlotsExact'
  <2>1. CASE status[t] = "running"
    BY <1>0, <1>a, <1>6, <2>1, SlotReleased DEF ClaimOverdue
  <2>2. CASE status[t] # "running"
    BY <1>0, <1>a, <1>6, <2>2, SlotsKept DEF ClaimOverdue
  <2>3. QED
    BY <2>1, <2>2
<1>7. ASSUME NEW t \in Tasks, NEW at \in Clock, NEW locked \in SUBSET Tasks,
             ClaimLease(t, at, locked)
      PROVE  SlotsExact'
  <2>1. CASE status[t] = "queued"
    <3>1. running_count < MaxConcurrent /\ running_count' = running_count + 1
      BY <1>7, <2>1 DEF ClaimLease, Candidate
    <3>2. running_count' = Cardinality(RunningTasks)'
      BY <1>0, <1>7, <2>1, <3>1, SlotTaken DEF ClaimLease, SlotsExact
    <3>3. running_count' <= MaxConcurrent
      BY <1>0, <3>1, ConstantsAssumption DEF StoreTypeOK
    <3>4. QED
      BY <3>2, <3>3 DEF SlotsExact
  <2>2. CASE status[t] = "running"
    BY <1>0, <1>a, <1>7, <2>2, SlotsKept DEF ClaimLease
  <2>3. QED
    BY <1>0, <1>7, <2>1, <2>2, LeasedFrom
<1>8. ASSUME NEW f \in CurrentFences, NEW at \in Clock, RenewLease(f, at) PROVE SlotsExact'
  BY <1>0, <1>8 DEF RenewLease, SlotsExact, RunningTasks
<1>9. ASSUME NEW f \in CurrentFences, NEW at \in Clock, AppendProgress(f, at) PROVE SlotsExact'
  BY <1>0, <1>9 DEF AppendProgress, SlotsExact, RunningTasks
<1>10. ASSUME NEW f \in CurrentFences, NEW at \in Clock, Kind[f.task] # "cloud_worker",
              WaitTask(f, at)
       PROVE  SlotsExact'
  BY <1>0, <1>a, <1>10, FencesAreTyped, SlotReleased DEF WaitTask, FenceHolds, LeaseHolds
<1>11. ASSUME NEW f \in CurrentFences, NEW at \in Clock, NEW s \in {"succeeded", "failed"},
              NEW code \in FailureCode, coreTerminal(f, at, s, code)
       PROVE  SlotsExact'
  BY <1>0, <1>a, <1>11, FencesAreTyped, SlotReleased DEF coreTerminal, FenceHolds, LeaseHolds
<1>12. ASSUME Tick PROVE SlotsExact'
  BY <1>0, <1>12 DEF Tick, SlotsExact, RunningTasks
<1>13. ASSUME UNCHANGED storeVars PROVE SlotsExact'
  BY <1>0, <1>13 DEF storeVars, SlotsExact, RunningTasks
<1>14. QED
  BY <1>0, <1>1, <1>2, <1>3, <1>4, <1>5, <1>6, <1>7, <1>8, <1>9, <1>10, <1>11, <1>12, <1>13,
     StoreNextCases

\* An empty queue has no running task.
LEMMA SlotInit == StoreInit => SlotInv
<1>1. SUFFICES ASSUME StoreInit PROVE SlotInv
  OBVIOUS
<1>2. StoreTypeOK
  BY <1>1, InitTyped
<1>3. RunningTasks = {}
  BY <1>1 DEF StoreInit, RunningTasks
<1>4. SlotsExact
  <2>1. Cardinality(RunningTasks) = 0
    BY <1>3, FS_EmptySet
  <2>2. running_count = 0
    BY <1>1 DEF StoreInit
  <2>3. QED
    BY <2>1, <2>2, ConstantsAssumption DEF SlotsExact
<1>5. Unparked
  BY <1>1 DEF StoreInit, Unparked
<1>6. QED
  BY <1>2, <1>4, <1>5 DEF SlotInv

\* The invariant of the counter holds in every state of the queue.
LEMMA SlotInvariant == StoreSpec => []SlotInv
<1>1. StoreInit => SlotInv
  BY SlotInit
<1>2. SlotInv /\ [StoreNext]_storeVars => SlotInv'
  BY TypeStep, UnparkedStep, SlotsStep DEF SlotInv
<1>3. QED
  BY <1>1, <1>2, PTL DEF StoreSpec

\* The counter every path adjusts by hand is the number of running tasks and
\* never exceeds the limit: for any number of tasks and any limit no slot leaks
\* and none is released twice.
THEOREM SlotsAreExact == StoreSpec => []SlotsExact
BY SlotInvariant, PTL DEF SlotInv

-----------------------------------------------------------------------------
(* The life cycle *)

\* Every operation is a transition the life cycle allows, or leaves it alone.
LEMMA LifecycleStep ==
    ASSUME StoreTypeOK, Unparked, [StoreNext]_storeVars
    PROVE  [Lifecycle!Next]_(Lifecycle!vars)
<1> USE DEF Lifecycle!CanTransition, Lifecycle!Done
<1>1. ASSUME NEW t \in Tasks, NEW s \in {"queued", "waiting_user"}, NEW a \in Nat,
             CreateTask(t, s, a)
      PROVE  Lifecycle!Next
  <2>1. Lifecycle!Create(t)
    BY <1>1 DEF CreateTask, leaseVars, Lifecycle!Create
  <2>2. QED
    BY <2>1 DEF Lifecycle!Next
<1>2. ASSUME NEW t \in Tasks, NEW n \in Tasks, NEW at \in Clock, RetryTask(t, n, at)
      PROVE  Lifecycle!Next
  <2>1. Lifecycle!Create(n)
    BY <1>2 DEF RetryTask, leaseVars, Lifecycle!Create
  <2>2. QED
    BY <2>1 DEF Lifecycle!Next
<1>3. ASSUME NEW t \in Tasks, DeleteTask(t) PROVE UNCHANGED Lifecycle!vars
  BY <1>3 DEF DeleteTask, leaseVars, Lifecycle!vars
<1>4. ASSUME NEW t \in Tasks, ResumeTask(t) PROVE Lifecycle!Next
  <2>1. Lifecycle!Transition(t)
    BY <1>4 DEF ResumeTask, Lifecycle!Transition
  <2>2. QED
    BY <2>1 DEF Lifecycle!Next
<1>5. ASSUME NEW t \in Tasks, CancelTask(t) PROVE Lifecycle!Next
  <2>1. CASE status[t] = "running"
    BY <1>5, <2>1 DEF CancelTask, Lifecycle!Transition, Lifecycle!Next
  <2>2. CASE status[t] # "running"
    <3>1. UNCHANGED lease_epoch
      BY <1>5, <2>2 DEF CancelTask, StoreTypeOK
    <3>2. /\ status[t] \in {"queued", "waiting_user"}
          /\ status' = [status EXCEPT ![t] = "canceled"]
      BY <1>5, <2>2 DEF CancelTask
    <3>3. Lifecycle!Transition(t)
      BY <3>1, <3>2 DEF Lifecycle!Transition
    <3>4. QED
      BY <3>3 DEF Lifecycle!Next
  <2>3. QED
    BY <2>1, <2>2
<1>6. ASSUME NEW t \in Tasks, NEW at \in Clock, NEW locked \in SUBSET Tasks,
             ClaimOverdue(t, at, locked)
      PROVE  Lifecycle!Next
  <2>1. status[t] \in {"queued", "running", "waiting_user"}
    BY <1>6 DEF ClaimOverdue, Candidate, Eligible, Due
  <2>2. CASE status[t] = "running"
    BY <1>6, <2>2 DEF ClaimOverdue, Lifecycle!Transition, Lifecycle!Next
  <2>3. CASE status[t] \in {"queued", "waiting_user"}
    BY <1>6, <2>3 DEF ClaimOverdue, Lifecycle!Expire, Lifecycle!Next
  <2>4. QED
    BY <2>1, <2>2, <2>3
<1>7. ASSUME NEW t \in Tasks, NEW at \in Clock, NEW locked \in SUBSET Tasks,
             ClaimLease(t, at, locked)
      PROVE  Lifecycle!Next
  <2>1. CASE status[t] = "queued"
    BY <1>7, <2>1 DEF ClaimLease, Lifecycle!Transition, Lifecycle!Next
  <2>2. CASE status[t] = "running"
    <3>1. UNCHANGED status
      BY <1>7, <2>2 DEF ClaimLease, StoreTypeOK
    <3>2. QED
      BY <1>7, <2>2, <3>1 DEF ClaimLease, Lifecycle!Reclaim, Lifecycle!Next
  <2>3. QED
    BY <1>7, <2>1, <2>2, LeasedFrom
<1>8. ASSUME NEW f \in CurrentFences, NEW at \in Clock, RenewLease(f, at)
      PROVE  UNCHANGED Lifecycle!vars
  BY <1>8 DEF RenewLease, Lifecycle!vars
<1>9. ASSUME NEW f \in CurrentFences, NEW at \in Clock, AppendProgress(f, at)
      PROVE  UNCHANGED Lifecycle!vars
  BY <1>9 DEF AppendProgress, leaseVars, Lifecycle!vars
<1>10. ASSUME NEW f \in CurrentFences, NEW at \in Clock, Kind[f.task] # "cloud_worker",
              WaitTask(f, at)
       PROVE  Lifecycle!Next
  <2>1. Lifecycle!Transition(f.task)
    BY <1>10 DEF WaitTask, FenceHolds, LeaseHolds, Lifecycle!Transition
  <2>2. QED
    BY <2>1, FencesAreTyped DEF Lifecycle!Next
<1>11. ASSUME NEW f \in CurrentFences, NEW at \in Clock, NEW s \in {"succeeded", "failed"},
              NEW code \in FailureCode, coreTerminal(f, at, s, code)
       PROVE  Lifecycle!Next
  <2>1. Lifecycle!Transition(f.task)
    BY <1>11 DEF coreTerminal, FenceHolds, LeaseHolds, Lifecycle!Transition
  <2>2. QED
    BY <2>1, FencesAreTyped DEF Lifecycle!Next
<1>12. ASSUME Tick PROVE UNCHANGED Lifecycle!vars
  BY <1>12 DEF Tick, leaseVars, Lifecycle!vars
<1>13. ASSUME UNCHANGED storeVars PROVE UNCHANGED Lifecycle!vars
  BY <1>13 DEF storeVars, Lifecycle!vars
<1>14. QED
  BY <1>1, <1>2, <1>3, <1>4, <1>5, <1>6, <1>7, <1>8, <1>9, <1>10, <1>11, <1>12, <1>13,
     StoreNextCases

\* The durable queue implements the life cycle that coretask draws for a Task,
\* for any number of tasks and callers: claims, reclaims, expiries and cancels
\* take every task along the allowed transitions only.
THEOREM QueueImplementsLifecycle == StoreSpec => ImplementsLifecycle
<1>1. StoreInit => Lifecycle!Init
  BY DEF StoreInit, Lifecycle!Init
<1>2. SlotInv /\ [StoreNext]_storeVars => [Lifecycle!Next]_(Lifecycle!vars)
  BY LifecycleStep DEF SlotInv
<1>3. QED
  BY <1>1, <1>2, SlotInvariant, PTL DEF StoreSpec, ImplementsLifecycle, Lifecycle!Spec

-----------------------------------------------------------------------------
(* What a step may never do *)

Frozen ==
    \A t \in Tasks : status[t] \in Terminal =>
      /\ status'[t] = status[t]
      /\ failure_code'[t] = failure_code[t]
      /\ lease_epoch'[t] = lease_epoch[t]
      /\ events'[t] = events[t]
      /\ t \in deleted => revision'[t] = revision[t] /\ t \in deleted'

\* No operation of the store touches a task that has ended, except to delete it.
LEMMA FrozenStep ==
    ASSUME StoreTypeOK, [StoreNext]_storeVars
    PROVE  Frozen
<1> USE DEF Frozen, Terminal, StoreTypeOK, AppendEvent, NewRevision, leaseVars
<1>1. ASSUME NEW t \in Tasks, NEW s \in {"queued", "waiting_user"}, NEW a \in Nat,
             CreateTask(t, s, a)
      PROVE  Frozen
  BY <1>1 DEF CreateTask
<1>2. ASSUME NEW t \in Tasks, NEW n \in Tasks, NEW at \in Clock, RetryTask(t, n, at)
      PROVE  Frozen
  BY <1>2 DEF RetryTask
<1>3. ASSUME NEW t \in Tasks, DeleteTask(t) PROVE Frozen
  BY <1>3 DEF DeleteTask
<1>4. ASSUME NEW t \in Tasks, ResumeTask(t) PROVE Frozen
  BY <1>4 DEF ResumeTask
<1>5. ASSUME NEW t \in Tasks, CancelTask(t) PROVE Frozen
  BY <1>5 DEF CancelTask
<1>6. ASSUME NEW t \in Tasks, NEW at \in Clock, NEW locked \in SUBSET Tasks,
             ClaimOverdue(t, at, locked)
      PROVE  Frozen
  BY <1>6 DEF ClaimOverdue, Candidate, Eligible, Due
<1>7. ASSUME NEW t \in Tasks, NEW at \in Clock, NEW locked \in SUBSET Tasks,
             ClaimLease(t, at, locked)
      PROVE  Frozen
  BY <1>7 DEF ClaimLease, Candidate, Eligible, Due
<1>8. ASSUME NEW f \in CurrentFences, NEW at \in Clock, RenewLease(f, at) PROVE Frozen
  BY <1>8 DEF RenewLease
<1>9. ASSUME NEW f \in CurrentFences, NEW at \in Clock, AppendProgress(f, at) PROVE Frozen
  BY <1>9, FencesAreTyped DEF AppendProgress, FenceHolds, LeaseHolds
<1>10. ASSUME NEW f \in CurrentFences, NEW at \in Clock, Kind[f.task] # "cloud_worker",
              WaitTask(f, at)
       PROVE  Frozen
  BY <1>10, FencesAreTyped DEF WaitTask, FenceHolds, LeaseHolds
<1>11. ASSUME NEW f \in CurrentFences, NEW at \in Clock, NEW s \in {"succeeded", "failed"},
              NEW code \in FailureCode, coreTerminal(f, at, s, code)
       PROVE  Frozen
  BY <1>11, FencesAreTyped DEF coreTerminal, FenceHolds, LeaseHolds
<1>12. ASSUME Tick PROVE Frozen
  BY <1>12 DEF Tick
<1>13. ASSUME UNCHANGED storeVars PROVE Frozen
  BY <1>13 DEF storeVars
<1> HIDE DEF Frozen
<1>14. QED
  BY <1>1, <1>2, <1>3, <1>4, <1>5, <1>6, <1>7, <1>8, <1>9, <1>10, <1>11, <1>12, <1>13,
     StoreNextCases

\* A task that is terminal stays as it ended: no claim, late fence, cancel or
\* retry of it changes its result, its log or its epoch.
THEOREM TerminalIsFrozen == StoreSpec => TerminalFrozen
<1>1. StoreTypeOK /\ [StoreNext]_storeVars => Frozen
  BY FrozenStep
<1>2. QED
  BY <1>1, StoreTypeCorrect, PTL DEF StoreSpec, TerminalFrozen, Frozen

\* What a compare-and-swap on the revision of a task relies on.
Pinned ==
    \A t \in Tasks :
      /\ revision'[t] >= revision[t]
      /\ lease_epoch'[t] >= lease_epoch[t]
      /\ revision'[t] = revision[t] =>
           /\ status'[t] = status[t]
           /\ lease_epoch'[t] = lease_epoch[t]
           /\ attempt'[t] = attempt[t]

\* Every operation that changes one of these columns also moves the revision.
LEMMA PinStep ==
    ASSUME StoreTypeOK, [StoreNext]_storeVars
    PROVE  Pinned
<1> USE DEF Pinned, StoreTypeOK, NewRevision, leaseVars
<1>1. ASSUME NEW t \in Tasks, NEW s \in {"queued", "waiting_user"}, NEW a \in Nat,
             CreateTask(t, s, a)
      PROVE  Pinned
  <2>1. /\ revision' = [revision EXCEPT ![t] = @ + 1]
        /\ status' = [status EXCEPT ![t] = s]
        /\ UNCHANGED <<lease_epoch, attempt>>
    BY <1>1 DEF CreateTask
  <2>2. QED
    BY <2>1
<1>2. ASSUME NEW t \in Tasks, NEW n \in Tasks, NEW at \in Clock, RetryTask(t, n, at)
      PROVE  Pinned
  <2>1. /\ revision' = [revision EXCEPT ![n] = @ + 1]
        /\ status' = [status EXCEPT ![n] = "queued"]
        /\ UNCHANGED <<lease_epoch, attempt>>
    BY <1>2 DEF RetryTask
  <2>2. /\ revision \in [Tasks -> Nat]
        /\ lease_epoch \in [Tasks -> Nat]
        /\ status \in [Tasks -> Status]
    OBVIOUS
  <2> HIDE DEF StoreTypeOK, NewRevision
  <2>3. QED
    BY <2>1, <2>2
<1>3. ASSUME NEW t \in Tasks, DeleteTask(t) PROVE Pinned
  BY <1>3 DEF DeleteTask
<1>4. ASSUME NEW t \in Tasks, ResumeTask(t) PROVE Pinned
  BY <1>4 DEF ResumeTask
<1>5. ASSUME NEW t \in Tasks, CancelTask(t) PROVE Pinned
  <2>1. /\ revision' = [revision EXCEPT ![t] = @ + 1]
        /\ status' = [status EXCEPT ![t] = "canceled"]
        /\ UNCHANGED attempt
    BY <1>5 DEF CancelTask
  <2>2. lease_epoch' = [lease_epoch EXCEPT ![t] = @ + 1] \/ UNCHANGED lease_epoch
    BY <1>5 DEF CancelTask
  <2>3. QED
    BY <2>1, <2>2
<1>6. ASSUME NEW t \in Tasks, NEW at \in Clock, NEW locked \in SUBSET Tasks,
             ClaimOverdue(t, at, locked)
      PROVE  Pinned
  BY <1>6 DEF ClaimOverdue
<1>7. ASSUME NEW t \in Tasks, NEW at \in Clock, NEW locked \in SUBSET Tasks,
             ClaimLease(t, at, locked)
      PROVE  Pinned
  BY <1>7 DEF ClaimLease
<1>8. ASSUME NEW f \in CurrentFences, NEW at \in Clock, RenewLease(f, at) PROVE Pinned
  BY <1>8 DEF RenewLease
<1>9. ASSUME NEW f \in CurrentFences, NEW at \in Clock, AppendProgress(f, at) PROVE Pinned
  <2>1. PICK u \in Tasks : u = f.task
    BY FencesAreTyped
  <2>2. /\ revision' = [revision EXCEPT ![u] = @ + 1]
        /\ UNCHANGED status
        /\ UNCHANGED <<lease_epoch, attempt>>
    BY <1>9, <2>1 DEF AppendProgress
  <2>3. QED
    BY <2>2
<1>10. ASSUME NEW f \in CurrentFences, NEW at \in Clock, Kind[f.task] # "cloud_worker",
              WaitTask(f, at)
       PROVE  Pinned
  <2>1. PICK u \in Tasks : u = f.task
    BY FencesAreTyped
  <2>2. /\ revision' = [revision EXCEPT ![u] = @ + 1]
        /\ status' = [status EXCEPT ![u] = "waiting_user"]
        /\ UNCHANGED <<lease_epoch, attempt>>
    BY <1>10, <2>1 DEF WaitTask
  <2>3. QED
    BY <2>2
<1>11. ASSUME NEW f \in CurrentFences, NEW at \in Clock, NEW s \in {"succeeded", "failed"},
              NEW code \in FailureCode, coreTerminal(f, at, s, code)
       PROVE  Pinned
  <2>1. PICK u \in Tasks : u = f.task
    BY FencesAreTyped
  <2>2. /\ revision' = [revision EXCEPT ![u] = @ + 1]
        /\ status' = [status EXCEPT ![u] = s]
        /\ UNCHANGED <<lease_epoch, attempt>>
    BY <1>11, <2>1 DEF coreTerminal
  <2>3. QED
    BY <2>2
<1>12. ASSUME Tick PROVE Pinned
  BY <1>12 DEF Tick
<1>13. ASSUME UNCHANGED storeVars PROVE Pinned
  BY <1>13 DEF storeVars
<1> HIDE DEF Pinned
<1>14. QED
  BY <1>1, <1>2, <1>3, <1>4, <1>5, <1>6, <1>7, <1>8, <1>9, <1>10, <1>11, <1>12, <1>13,
     StoreNextCases
\* A revision read without a lock pins the status, the epoch and the attempt:
\* every operation that changes one of them also moves the revision, and neither
\* the revision nor the epoch ever goes back.
THEOREM RevisionIsAPin == StoreSpec => RevisionPins
<1>1. StoreTypeOK /\ [StoreNext]_storeVars => Pinned
  BY PinStep
<1>2. QED
  BY <1>1, StoreTypeCorrect, PTL DEF StoreSpec, RevisionPins, Pinned

-----------------------------------------------------------------------------
(* The lease columns and the pins of model profiles *)

\* What a row that does not exist yet holds, and a lease only while it runs.
LeaseInv == LeaseExact /\ \A t \in Tasks : status[t] = "absent" => lease_epoch[t] = 0

\* Every operation gives a row a lease exactly when it makes it run.
LEMMA LeaseStep ==
    ASSUME StoreTypeOK, LeaseInv, [StoreNext]_storeVars
    PROVE  LeaseInv'
<1> USE DEF LeaseInv, LeaseExact, StoreTypeOK, DropLease, leaseVars
<1>1. ASSUME NEW t \in Tasks, NEW s \in {"queued", "waiting_user"}, NEW a \in Nat,
             CreateTask(t, s, a)
      PROVE  LeaseInv'
  BY <1>1 DEF CreateTask
<1>2. ASSUME NEW t \in Tasks, NEW n \in Tasks, NEW at \in Clock, RetryTask(t, n, at)
      PROVE  LeaseInv'
  BY <1>2 DEF RetryTask
<1>3. ASSUME NEW t \in Tasks, DeleteTask(t) PROVE LeaseInv'
  BY <1>3 DEF DeleteTask
<1>4. ASSUME NEW t \in Tasks, ResumeTask(t) PROVE LeaseInv'
  BY <1>4 DEF ResumeTask
<1>5. ASSUME NEW t \in Tasks, CancelTask(t) PROVE LeaseInv'
  BY <1>5 DEF CancelTask
<1>6. ASSUME NEW t \in Tasks, NEW at \in Clock, NEW locked \in SUBSET Tasks,
             ClaimOverdue(t, at, locked)
      PROVE  LeaseInv'
  BY <1>6 DEF ClaimOverdue
<1>7. ASSUME NEW t \in Tasks, NEW at \in Clock, NEW locked \in SUBSET Tasks,
             ClaimLease(t, at, locked)
      PROVE  LeaseInv'
  <2>1. at + TTL # NoTime
    BY LeaseIsNotNull
  <2>2. QED
    BY <1>7, <2>1 DEF ClaimLease
<1>8. ASSUME NEW f \in CurrentFences, NEW at \in Clock, RenewLease(f, at) PROVE LeaseInv'
  <2>1. at + TTL # NoTime /\ f.task \in Tasks
    BY LeaseIsNotNull, FencesAreTyped
  <2>2. QED
    BY <1>8, <2>1 DEF RenewLease, LeaseHolds
<1>9. ASSUME NEW f \in CurrentFences, NEW at \in Clock, AppendProgress(f, at) PROVE LeaseInv'
  BY <1>9 DEF AppendProgress
<1>10. ASSUME NEW f \in CurrentFences, NEW at \in Clock, Kind[f.task] # "cloud_worker",
              WaitTask(f, at)
       PROVE  LeaseInv'
  BY <1>10, FencesAreTyped DEF WaitTask
<1>11. ASSUME NEW f \in CurrentFences, NEW at \in Clock, NEW s \in {"succeeded", "failed"},
              NEW code \in FailureCode, coreTerminal(f, at, s, code)
       PROVE  LeaseInv'
  BY <1>11, FencesAreTyped DEF coreTerminal
<1>12. ASSUME Tick PROVE LeaseInv'
  BY <1>12 DEF Tick
<1>13. ASSUME UNCHANGED storeVars PROVE LeaseInv'
  BY <1>13 DEF storeVars
<1> HIDE DEF LeaseInv
<1>14. QED
  BY <1>1, <1>2, <1>3, <1>4, <1>5, <1>6, <1>7, <1>8, <1>9, <1>10, <1>11, <1>12, <1>13,
     StoreNextCases

\* Every operation that starts or ends a task moves the pin of its profile.
LEMMA RefsStep ==
    ASSUME StoreTypeOK, ModelRefsExact, [StoreNext]_storeVars
    PROVE  ModelRefsExact'
<1> USE DEF ModelRefsExact, StoreTypeOK, HoldsModelRef, Terminal
<1>1. ASSUME NEW t \in Tasks, NEW s \in {"queued", "waiting_user"}, NEW a \in Nat,
             CreateTask(t, s, a)
      PROVE  ModelRefsExact'
  BY <1>1 DEF CreateTask
<1>2. ASSUME NEW t \in Tasks, NEW n \in Tasks, NEW at \in Clock, RetryTask(t, n, at)
      PROVE  ModelRefsExact'
  BY <1>2 DEF RetryTask
<1>3. ASSUME NEW t \in Tasks, DeleteTask(t) PROVE ModelRefsExact'
  BY <1>3 DEF DeleteTask
<1>4. ASSUME NEW t \in Tasks, ResumeTask(t) PROVE ModelRefsExact'
  BY <1>4 DEF ResumeTask
<1>5. ASSUME NEW t \in Tasks, CancelTask(t) PROVE ModelRefsExact'
  BY <1>5 DEF CancelTask
<1>6. ASSUME NEW t \in Tasks, NEW at \in Clock, NEW locked \in SUBSET Tasks,
             ClaimOverdue(t, at, locked)
      PROVE  ModelRefsExact'
  BY <1>6 DEF ClaimOverdue
<1>7. ASSUME NEW t \in Tasks, NEW at \in Clock, NEW locked \in SUBSET Tasks,
             ClaimLease(t, at, locked)
      PROVE  ModelRefsExact'
  BY <1>7 DEF ClaimLease, Candidate, Eligible, Due
<1>8. ASSUME NEW f \in CurrentFences, NEW at \in Clock, RenewLease(f, at) PROVE ModelRefsExact'
  BY <1>8 DEF RenewLease
<1>9. ASSUME NEW f \in CurrentFences, NEW at \in Clock, AppendProgress(f, at)
      PROVE  ModelRefsExact'
  BY <1>9 DEF AppendProgress
<1>10. ASSUME NEW f \in CurrentFences, NEW at \in Clock, Kind[f.task] # "cloud_worker",
              WaitTask(f, at)
       PROVE  ModelRefsExact'
  BY <1>10, FencesAreTyped DEF WaitTask, FenceHolds, LeaseHolds
<1>11. ASSUME NEW f \in CurrentFences, NEW at \in Clock, NEW s \in {"succeeded", "failed"},
              NEW code \in FailureCode, coreTerminal(f, at, s, code)
       PROVE  ModelRefsExact'
  BY <1>11, FencesAreTyped DEF coreTerminal
<1>12. ASSUME Tick PROVE ModelRefsExact'
  BY <1>12 DEF Tick
<1>13. ASSUME UNCHANGED storeVars PROVE ModelRefsExact'
  BY <1>13 DEF storeVars
<1> HIDE DEF ModelRefsExact
<1>14. QED
  BY <1>1, <1>2, <1>3, <1>4, <1>5, <1>6, <1>7, <1>8, <1>9, <1>10, <1>11, <1>12, <1>13,
     StoreNextCases

-----------------------------------------------------------------------------
(* The event log *)

\* What one log looks like: numbered without gaps, in the order of the writers'
\* epochs, none of them newer than the row's, a terminal event only at the end.
LogInv(log, s, n) ==
    /\ \A i \in 1..Len(log) : /\ log[i].sequence = i
                              /\ log[i].epoch <= n
                              /\ log[i].status \in Terminal => i = Len(log)
    /\ Len(log) > 0 => log[Len(log)].status = s
    /\ \A i, j \in 1..Len(log) : i < j => log[i].epoch <= log[j].epoch

\* An event of the current epoch, added to the log of a task that has not ended,
\* keeps the log so.
LEMMA LogGrows ==
    ASSUME NEW log \in Seq(Event), NEW s \in Status, NEW n \in Nat, LogInv(log, s, n),
           s \notin Terminal, NEW ev \in Event, ev.sequence = Len(log) + 1, n <= ev.epoch
    PROVE  LogInv(Append(log, ev), ev.status, ev.epoch)
<1> DEFINE new == Append(log, ev)
<1>1. /\ Len(new) = Len(log) + 1 /\ Len(log) \in Nat
      /\ \A i \in 1..Len(log) : new[i] = log[i]
      /\ new[Len(log) + 1] = ev
  BY AppendProperties
<1>2. ev.epoch \in Nat /\ \A i \in 1..Len(log) : log[i].epoch \in Nat
  <2>1. \A e \in Event : e.epoch \in Nat
    BY DEF Event
  <2>2. \A i \in 1..Len(log) : log[i] \in Event
    BY ElementOfSeq
  <2>3. QED
    BY <2>1, <2>2
<1> HIDE DEF new
<1>3. \A i \in 1..Len(new) : i \in 1..Len(log) \/ i = Len(log) + 1
  BY <1>1
<1>4. \A i \in 1..Len(log) : log[i].status \notin Terminal
  BY <1>1 DEF LogInv
<1>5. ASSUME NEW i \in 1..Len(new)
      PROVE  /\ new[i].sequence = i
             /\ new[i].epoch <= ev.epoch
             /\ new[i].status \in Terminal => i = Len(new)
  BY <1>1, <1>2, <1>3, <1>4 DEF LogInv
<1>6. ASSUME NEW i \in 1..Len(new), NEW j \in 1..Len(new), i < j
      PROVE  new[i].epoch <= new[j].epoch
  <2>1. i \in 1..Len(log)
    BY <1>1, <1>6
  <2>2. CASE j \in 1..Len(log)
    BY <1>1, <1>6, <2>1, <2>2 DEF LogInv
  <2>3. CASE j = Len(log) + 1
    BY <1>1, <1>2, <2>1, <2>3 DEF LogInv
  <2>4. QED
    BY <1>3, <2>2, <2>3
<1>7. LogInv(new, ev.status, ev.epoch)
  BY <1>1, <1>5, <1>6 DEF LogInv
<1>8. QED
  BY <1>7 DEF new

\* Every task has such a log, with progress_sequence as its length.
LogsInv ==
    \A t \in Tasks : /\ LogInv(events[t], status[t], lease_epoch[t])
                     /\ Len(events[t]) = progress_sequence[t]

\* One event of one task, under the epoch its row then has.
Logs(t, s, n) ==
    /\ AppendEvent(t, s, n)
    /\ status' = [status EXCEPT ![t] = s]
    /\ lease_epoch' = [lease_epoch EXCEPT ![t] = n]
    /\ lease_epoch[t] <= n
    /\ status[t] \notin Terminal

\* The log, the status and the epoch of a task only change together.
LEMMA EveryStepLogs ==
    ASSUME StoreTypeOK, LeaseInv, [StoreNext]_storeVars
    PROVE  \/ UNCHANGED <<status, lease_epoch, events, progress_sequence>>
           \/ \E t \in Tasks, s \in Status, n \in Nat : Logs(t, s, n)
<1> DEFINE Goal == \/ UNCHANGED <<status, lease_epoch, events, progress_sequence>>
                   \/ \E t \in Tasks, s \in Status, n \in Nat : Logs(t, s, n)
<1>a. {"queued", "waiting_user", "failed", "succeeded", "canceled", "running"} \subseteq Status
  BY DEF Status, Terminal
<1>b. ASSUME NEW t \in Tasks PROVE lease_epoch[t] \in Nat /\ lease_epoch[t] + 1 \in Nat
  BY DEF StoreTypeOK
<1> USE DEF Logs, Terminal
<1>1. ASSUME NEW t \in Tasks, NEW s \in {"queued", "waiting_user"}, NEW a \in Nat,
             CreateTask(t, s, a)
      PROVE  Goal
  <2>1. Logs(t, s, 0)
    BY <1>1 DEF CreateTask, leaseVars, LeaseInv, StoreTypeOK
  <2>2. QED
    BY <1>a, <2>1
<1>2. ASSUME NEW t \in Tasks, NEW n \in Tasks, NEW at \in Clock, RetryTask(t, n, at)
      PROVE  Goal
  <2>1. Logs(n, "queued", 0)
    BY <1>2 DEF RetryTask, leaseVars, LeaseInv, StoreTypeOK
  <2>2. QED
    BY <1>a, <2>1
<1>3. ASSUME NEW t \in Tasks, DeleteTask(t) PROVE Goal
  BY <1>3 DEF DeleteTask, leaseVars
<1>4. ASSUME NEW t \in Tasks, ResumeTask(t) PROVE Goal
  <2>1. Logs(t, "queued", lease_epoch[t])
    BY <1>4 DEF ResumeTask, StoreTypeOK
  <2>2. QED
    BY <1>a, <1>b, <2>1
<1>5. ASSUME NEW t \in Tasks, CancelTask(t) PROVE Goal
  <2>1. \E n \in {lease_epoch[t], lease_epoch[t] + 1} : Logs(t, "canceled", n)
    <3>1. CASE status[t] = "running"
      BY <1>5, <1>b, <3>1 DEF CancelTask
    <3>2. CASE status[t] # "running"
      BY <1>5, <1>b, <3>2 DEF CancelTask
    <3>3. QED
      BY <3>1, <3>2
  <2>2. QED
    BY <1>a, <1>b, <2>1
<1>6. ASSUME NEW t \in Tasks, NEW at \in Clock, NEW locked \in SUBSET Tasks,
             ClaimOverdue(t, at, locked)
      PROVE  Goal
  <2>1. Logs(t, "failed", lease_epoch[t])
    BY <1>6 DEF ClaimOverdue, Candidate, Eligible, Due, StoreTypeOK
  <2>2. QED
    BY <1>a, <1>b, <2>1
<1>7. ASSUME NEW t \in Tasks, NEW at \in Clock, NEW locked \in SUBSET Tasks,
             ClaimLease(t, at, locked)
      PROVE  Goal
  <2>1. Logs(t, "running", lease_epoch[t] + 1)
    BY <1>7, <1>b DEF ClaimLease, Candidate, Eligible, Due
  <2>2. QED
    BY <1>a, <1>b, <2>1
<1>8. ASSUME NEW f \in CurrentFences, NEW at \in Clock, RenewLease(f, at) PROVE Goal
  BY <1>8 DEF RenewLease
<1>9. ASSUME NEW f \in CurrentFences, NEW at \in Clock, AppendProgress(f, at) PROVE Goal
  <2>1. Logs(f.task, "running", f.epoch)
    BY <1>9, FencesAreTyped DEF AppendProgress, FenceHolds, LeaseHolds, leaseVars, StoreTypeOK
  <2>2. QED
    BY <1>a, <2>1, FencesAreTyped
<1>10. ASSUME NEW f \in CurrentFences, NEW at \in Clock, Kind[f.task] # "cloud_worker",
              WaitTask(f, at)
       PROVE  Goal
  <2>1. Logs(f.task, "waiting_user", f.epoch)
    BY <1>10, FencesAreTyped DEF WaitTask, FenceHolds, LeaseHolds, StoreTypeOK
  <2>2. QED
    BY <1>a, <2>1, FencesAreTyped
<1>11. ASSUME NEW f \in CurrentFences, NEW at \in Clock, NEW s \in {"succeeded", "failed"},
              NEW code \in FailureCode, coreTerminal(f, at, s, code)
       PROVE  Goal
  <2>1. Logs(f.task, s, f.epoch)
    BY <1>11, FencesAreTyped DEF coreTerminal, FenceHolds, LeaseHolds, StoreTypeOK
  <2>2. QED
    BY <1>a, <2>1, FencesAreTyped
<1>12. ASSUME Tick PROVE Goal
  BY <1>12 DEF Tick, leaseVars
<1>13. ASSUME UNCHANGED storeVars PROVE Goal
  BY <1>13 DEF storeVars
<1> HIDE DEF Goal
<1>14. Goal
  BY <1>1, <1>2, <1>3, <1>4, <1>5, <1>6, <1>7, <1>8, <1>9, <1>10, <1>11, <1>12, <1>13,
     StoreNextCases
<1>15. QED
  BY <1>14 DEF Goal

\* So every operation keeps every log.
LEMMA LogsStep ==
    ASSUME StoreTypeOK, LeaseInv, LogsInv, [StoreNext]_storeVars
    PROVE  LogsInv'
<1>1. CASE UNCHANGED <<status, lease_epoch, events, progress_sequence>>
  BY <1>1 DEF LogsInv
<1>2. ASSUME NEW t \in Tasks, NEW s \in Status, NEW n \in Nat, Logs(t, s, n)
      PROVE  LogsInv'
  <2> DEFINE ev == [sequence |-> progress_sequence[t] + 1, status |-> s, epoch |-> n]
  <2>1. /\ events' = [events EXCEPT ![t] = Append(events[t], ev)]
        /\ progress_sequence' = [progress_sequence EXCEPT ![t] = @ + 1]
        /\ status' = [status EXCEPT ![t] = s]
        /\ lease_epoch' = [lease_epoch EXCEPT ![t] = n]
    BY <1>2 DEF Logs, AppendEvent
  <2>2. /\ ev \in Event /\ ev.sequence = progress_sequence[t] + 1
        /\ ev.status = s /\ ev.epoch = n
    BY DEF Event, StoreTypeOK
  <2>3. /\ events[t] \in Seq(Event) /\ status[t] \in Status /\ lease_epoch[t] \in Nat
        /\ LogInv(events[t], status[t], lease_epoch[t])
        /\ Len(events[t]) = progress_sequence[t]
    BY DEF StoreTypeOK, LogsInv
  <2> HIDE DEF ev
  <2>4. LogInv(Append(events[t], ev), s, n)
    BY <1>2, <2>2, <2>3, LogGrows DEF Logs
  <2>5. Len(Append(events[t], ev)) = Len(events[t]) + 1
    BY <2>2, <2>3
  <2>6. ASSUME NEW u \in Tasks
        PROVE  /\ LogInv(events'[u], status'[u], lease_epoch'[u])
               /\ Len(events'[u]) = progress_sequence'[u]
    <3>1. CASE u = t
      BY <2>1, <2>3, <2>4, <2>5, <3>1 DEF StoreTypeOK
    <3>2. CASE u # t
      BY <2>1, <3>2 DEF LogsInv, StoreTypeOK
    <3>3. QED
      BY <3>1, <3>2
  <2>7. QED
    BY <2>6 DEF LogsInv
<1>3. QED
  BY <1>1, <1>2, EveryStepLogs

\* The inductive invariant of the rows.
RowInv == StoreTypeOK /\ LeaseInv /\ ModelRefsExact /\ LogsInv

\* The invariant of the rows holds in every state of the queue.
LEMMA RowInvariant == StoreSpec => []RowInv
<1>1. StoreInit => RowInv
  <2>1. SUFFICES ASSUME StoreInit PROVE RowInv
    OBVIOUS
  <2>2. StoreTypeOK
    BY <2>1, InitTyped
  <2>3. LeaseInv
    BY <2>1 DEF StoreInit, LeaseInv, LeaseExact
  <2>4. ModelRefsExact
    BY <2>1 DEF StoreInit, ModelRefsExact
  <2>5. LogsInv
    <3>1. \A t \in Tasks : events[t] = <<>> /\ progress_sequence[t] = 0
      BY <2>1 DEF StoreInit
    <3>2. Len(<<>>) = 0
      OBVIOUS
    <3>3. QED
      BY <3>1, <3>2 DEF LogsInv, LogInv
  <2>6. QED
    BY <2>2, <2>3, <2>4, <2>5 DEF RowInv
<1>2. RowInv /\ [StoreNext]_storeVars => RowInv'
  BY TypeStep, LeaseStep, RefsStep, LogsStep DEF RowInv
<1>3. QED
  BY <1>1, <1>2, PTL DEF StoreSpec

\* What each transaction must leave right in the rows it touches: a lease exactly
\* while a task runs, a pin of the model profile exactly while a task that needs
\* one has not ended, and a log without gaps that ends with the status of the task.
THEOREM RowsAreExact == StoreSpec => []RowsExact
<1>1. RowInv => RowsExact
  BY DEF RowInv, RowsExact, LeaseInv, LogsInv, LogInv, EventLogExact
<1>2. QED
  BY <1>1, RowInvariant, PTL

\* Whatever executors come and go, the log of a task is in the order of the epochs
\* of its writers: one that lost its lease never writes after its successor.
THEOREM ZombiesAreSilenced == StoreSpec => []ZombieSilenced
<1>1. RowInv => ZombieSilenced
  BY DEF RowInv, LogsInv, LogInv, ZombieSilenced
<1>2. QED
  BY <1>1, RowInvariant, PTL

-----------------------------------------------------------------------------
(* The executors *)

\* How far an executor is within its terminal repair.
Shape(x) ==
    /\ x.phase \in {"handler", "stale"} => x.tries = 0
    /\ x.phase = "persist" => x.tries <= 2
    /\ x.phase \in {"persist", "reread"} => x.outcome # "none"

\* What an executor knows of its task has happened.
Behind(x) ==
    x.phase # "idle" =>
      /\ x.fence.epoch <= lease_epoch[x.fence.task]
      /\ x.fence.revision <= revision[x.fence.task]
      /\ x.claimed <= revision[x.fence.task]

\* Two executors work under different leases, and both under older ones than a
\* claim that is about to be read back.
Distinct ==
    /\ \A e, g \in Active :
         e # g /\ exec[e].fence.task = exec[g].fence.task
           => exec[e].fence.epoch # exec[g].fence.epoch
    /\ \A t \in claiming, e \in Active :
         exec[e].fence.task = t => exec[e].fence.epoch < lease_epoch[t]

\* The inductive invariant of the pool.
PoolInd ==
    /\ TypeOK
    /\ \A e \in Executors : Shape(exec[e]) /\ Behind(exec[e])
    /\ Distinct

\* An idle executor has the type of the others.
LEMMA IdleIsTyped == IdleExec \in ExecState
<1>1. NoFence \in Fence
  BY ExecutorsAssumption DEF NoFence, Fence
<1>2. QED
  BY <1>1 DEF IdleExec, ExecState, Phase, Outcome

\* One owner follows from different leases.
LEMMA DistinctOwners == PoolInd => PoolInv
BY DEF PoolInd, PoolInv, OneOwner, Distinct, Behind, Owns, Active, TypeOK

\* The fields the invariant compares are numbers.
LEMMA ExecFields ==
    ASSUME TypeOK, NEW e \in Executors
    PROVE  /\ exec[e] \in ExecState /\ exec[e].fence \in Fence
           /\ exec[e].fence.task \in Tasks /\ exec[e].fence.attempt \in Nat
           /\ exec[e].fence.epoch \in Nat /\ exec[e].fence.revision \in Nat
           /\ exec[e].claimed \in Nat /\ exec[e].tries \in 0..3
           /\ exec[e].outcome \in Outcome /\ exec[e].phase \in Phase
BY DEF TypeOK, ExecState, Fence

\* A state of an executor that stays with its claim, after a step of the store.
Stays(e, x) ==
    /\ exec[e].phase # "idle"
    /\ x.fence.task = exec[e].fence.task
    /\ x.fence.epoch = exec[e].fence.epoch
    /\ x.fence.revision <= revision'[x.fence.task]
    /\ x.claimed = exec[e].claimed
    /\ Shape(x)

\* Columns of the store that only grow.
LEMMA Grown ==
    ASSUME StoreTypeOK, StoreTypeOK', Pinned, NEW t \in Tasks
    PROVE  /\ lease_epoch[t] \in Nat /\ lease_epoch'[t] \in Nat
           /\ revision[t] \in Nat /\ revision'[t] \in Nat
           /\ lease_epoch[t] <= lease_epoch'[t] /\ revision[t] <= revision'[t]
BY DEF StoreTypeOK, Pinned

\* Executors that stay with their claims or stop, and a store that only grows
\* under them, keep the invariant.
LEMMA PoolMoves ==
    ASSUME PoolInd, StoreTypeOK', Pinned, claiming' = claiming \/ claiming' = {},
           exec' \in [Executors -> ExecState],
           \A e \in Executors : exec'[e].phase = "idle" \/ Stays(e, exec'[e])
    PROVE  PoolInd'
<1>0. TypeOK /\ StoreTypeOK
  BY DEF PoolInd, TypeOK
<1>1. TypeOK'
  <2>1. Cardinality({}) = 0
    BY FS_EmptySet
  <2>2. claiming' \subseteq Tasks /\ Cardinality(claiming') <= 1
    <3>1. CASE claiming' = claiming
      BY <1>0, <3>1 DEF TypeOK
    <3>2. CASE claiming' = {}
      BY <2>1, <3>2
    <3>3. QED
      BY <3>1, <3>2
  <2>3. QED
    BY <2>2 DEF TypeOK
<1>2. \A e \in Executors : /\ exec[e].fence.task \in Tasks
                           /\ exec[e].fence.epoch \in Nat
                           /\ exec[e].claimed \in Nat
  BY <1>0, ExecFields
<1>3. ASSUME NEW e \in Executors PROVE Shape(exec'[e])
  BY DEF Stays, Shape
<1>4. ASSUME NEW e \in Executors PROVE Behind(exec[e])'
  <2>1. CASE exec'[e].phase = "idle"
    BY <2>1 DEF Behind
  <2>2. CASE Stays(e, exec'[e])
    <3>1. Behind(exec[e])
      BY DEF PoolInd
    <3>2. QED
      BY <1>0, <1>2, <2>2, <3>1, Grown DEF Stays, Behind
  <2>3. QED
    BY <2>1, <2>2
<1>5. \A e \in Executors :
        exec'[e].phase # "idle" => /\ exec[e].phase # "idle"
                                   /\ exec'[e].fence.task = exec[e].fence.task
                                   /\ exec'[e].fence.epoch = exec[e].fence.epoch
  BY DEF Stays
<1>6. \A t \in claiming' : t \in claiming /\ t \in Tasks
  BY <1>0 DEF TypeOK
<1>7. Distinct'
  <2>1. \A t \in Tasks : lease_epoch[t] \in Nat /\ lease_epoch'[t] \in Nat
                         /\ lease_epoch[t] <= lease_epoch'[t]
    BY <1>0, Grown
  <2>2. Distinct
    BY DEF PoolInd
  <2>3. QED
    BY <1>2, <1>5, <1>6, <2>1, <2>2 DEF Distinct, Active
<1>8. QED
  BY <1>1, <1>3, <1>4, <1>7 DEF PoolInd, Shape

\* An executor that does nothing stays with its claim, if it has one.
LEMMA Resting ==
    ASSUME PoolInd, StoreTypeOK', Pinned, NEW e \in Executors
    PROVE  exec[e].phase = "idle" \/ Stays(e, exec[e])
<1>1. TypeOK /\ StoreTypeOK /\ Shape(exec[e]) /\ Behind(exec[e])
  BY DEF PoolInd, TypeOK
<1>2. exec[e].fence.task \in Tasks /\ exec[e].fence.revision \in Nat
  BY <1>1, ExecFields
<1>3. QED
  BY <1>1, <1>2, Grown DEF Behind, Stays

\* A step in which one executor stops or goes on with its claim.
LEMMA OneMoves ==
    ASSUME PoolInd, StoreTypeOK', Pinned, claiming' = claiming,
           NEW e \in Executors, NEW x \in ExecState, exec' = [exec EXCEPT ![e] = x],
           x.phase = "idle" \/ Stays(e, x)
    PROVE  PoolInd'
<1>1. exec \in [Executors -> ExecState]
  BY DEF PoolInd, TypeOK
<1>2. exec' \in [Executors -> ExecState]
  BY <1>1
<1>3. ASSUME NEW g \in Executors PROVE exec'[g].phase = "idle" \/ Stays(g, exec'[g])
  <2>1. CASE g = e
    BY <1>1, <2>1
  <2>2. CASE g # e
    BY <1>1, <2>2, Resting
  <2>3. QED
    BY <2>1, <2>2
<1>4. QED
  BY <1>2, <1>3, PoolMoves

\* A step in which no executor moves.
LEMMA NoneMoves ==
    ASSUME PoolInd, StoreTypeOK', Pinned, UNCHANGED exec, claiming' = claiming \/ claiming' = {}
    PROVE  PoolInd'
<1>1. exec' \in [Executors -> ExecState]
  BY DEF PoolInd, TypeOK
<1>2. QED
  BY <1>1, Resting, PoolMoves

\* The end of the process, which stops every executor.
LEMMA AllStop ==
    ASSUME PoolInd, StoreTypeOK', Pinned, exec' = [e \in Executors |-> IdleExec], claiming' = {}
    PROVE  PoolInd'
<1>1. exec' \in [Executors -> ExecState]
  BY IdleIsTyped
<1>2. \A e \in Executors : exec'[e].phase = "idle"
  BY DEF IdleExec
<1>3. QED
  BY <1>1, <1>2, PoolMoves

\* A new claim is under a later epoch than all the executors of its task.
LEMMA ClaimMoves ==
    ASSUME PoolInd, NEW t \in Tasks, NEW at \in Clock, NEW locked \in SUBSET Tasks,
           Claim(t, at, locked), StoreTypeOK', Pinned
    PROVE  PoolInd'
<1>0. TypeOK /\ StoreTypeOK
  BY DEF PoolInd, TypeOK
<1>1. /\ exec' = exec /\ claiming' = {t}
      /\ lease_epoch' = [lease_epoch EXCEPT ![t] = @ + 1]
  BY DEF Claim, ClaimLease
<1>2. TypeOK'
  <2>1. Cardinality({t}) = 1
    BY FS_Singleton
  <2>2. QED
    BY <1>0, <1>1, <2>1 DEF TypeOK
<1>3. \A e \in Executors : /\ exec[e].fence.task \in Tasks /\ exec[e].fence.epoch \in Nat
                           /\ exec[e].fence.revision \in Nat /\ exec[e].claimed \in Nat
  BY <1>0, ExecFields
<1>4. ASSUME NEW e \in Executors PROVE Behind(exec[e])'
  <2>1. Behind(exec[e])
    BY DEF PoolInd
  <2>2. QED
    BY <1>0, <1>1, <1>3, <2>1, Grown DEF Behind
<1>5. Distinct'
  <2>1. lease_epoch[t] \in Nat /\ lease_epoch'[t] = lease_epoch[t] + 1
    BY <1>0, <1>1 DEF StoreTypeOK
  <2>2. ASSUME NEW e \in Executors, exec[e].phase # "idle", exec[e].fence.task = t
        PROVE  exec[e].fence.epoch < lease_epoch'[t]
    <3>1. exec[e].fence.epoch <= lease_epoch[t]
      BY <2>2 DEF PoolInd, Behind
    <3>2. QED
      BY <1>3, <2>1, <3>1
  <2>3. QED
    BY <1>1, <2>2 DEF PoolInd, Distinct, Active
<1>6. ASSUME NEW e \in Executors PROVE Shape(exec'[e])
  BY <1>1 DEF PoolInd
<1>7. QED
  BY <1>2, <1>4, <1>5, <1>6 DEF PoolInd, Shape

\* An executor that starts has the lease its claim took, or a later one.
LEMMA ClaimReadMoves ==
    ASSUME PoolInd, NEW e \in Executors, NEW t \in Tasks, ClaimRead(e, t)
    PROVE  PoolInd'
<1> DEFINE x == [phase   |-> "handler",
                 fence   |-> [task |-> t, attempt |-> attempt[t],
                              epoch |-> lease_epoch[t], revision |-> revision[t]],
                 claimed |-> revision[t],
                 outcome |-> "none",
                 tries   |-> 0]
<1>0. TypeOK /\ StoreTypeOK /\ exec \in [Executors -> ExecState]
  BY DEF PoolInd, TypeOK
<1>1. /\ exec' = [exec EXCEPT ![e] = x]
      /\ claiming = {t} /\ claiming' = {}
      /\ UNCHANGED storeVars
  BY DEF ClaimRead
<1>2. /\ x \in ExecState /\ Shape(x)
      /\ x.fence.task = t /\ x.fence.epoch = lease_epoch[t]
      /\ x.fence.revision = revision[t] /\ x.claimed = revision[t]
  BY <1>0 DEF ExecState, Fence, Phase, Outcome, StoreTypeOK, Shape
<1> HIDE DEF x
<1>3. /\ exec' \in [Executors -> ExecState] /\ exec'[e] = x
      /\ \A g \in Executors : g # e => exec'[g] = exec[g]
  BY <1>0, <1>1, <1>2
<1>4. UNCHANGED <<lease_epoch, revision>> /\ StoreTypeOK'
  BY <1>0, <1>1 DEF storeVars, StoreTypeOK
<1>5. TypeOK'
  <2>1. Cardinality({}) = 0
    BY FS_EmptySet
  <2>2. QED
    BY <1>1, <1>3, <1>4, <2>1 DEF TypeOK
<1>6. ASSUME NEW g \in Executors PROVE Shape(exec'[g]) /\ Behind(exec[g])'
  <2>1. CASE g = e
    BY <1>0, <1>2, <1>3, <1>4, <2>1 DEF Behind, StoreTypeOK
  <2>2. CASE g # e
    BY <1>3, <1>4, <2>2 DEF PoolInd, Behind
  <2>3. QED
    BY <2>1, <2>2
<1>7. Distinct'
  <2>1. \A g \in Executors : exec[g].fence.epoch \in Nat
    BY <1>0, ExecFields
  <2>2. lease_epoch[t] \in Nat
    BY <1>0 DEF StoreTypeOK
  <2>3. \A g \in Executors : exec[g].phase # "idle" /\ exec[g].fence.task = t
          => exec[g].fence.epoch # lease_epoch[t]
    BY <1>1, <2>1, <2>2 DEF PoolInd, Distinct, Active
  <2>4. QED
    BY <1>1, <1>2, <1>3, <2>3 DEF PoolInd, Distinct, Active
<1>8. QED
  BY <1>5, <1>6, <1>7 DEF PoolInd, Shape

-----------------------------------------------------------------------------
(* The pool and the queue *)

\* A fence that matches its row is the row's.
LEMMA MatchingFence ==
    ASSUME StoreTypeOK, NEW f \in Fence, NEW at, FenceHolds(f, at)
    PROVE  f \in CurrentFences
<1>1. f = [task |-> f.task, attempt |-> f.attempt, epoch |-> f.epoch, revision |-> f.revision]
  BY DEF Fence
<1>2. /\ f.task \in Tasks /\ f.attempt = attempt[f.task]
      /\ f.epoch = lease_epoch[f.task] /\ f.revision = revision[f.task]
  BY DEF Fence, FenceHolds, LeaseHolds
<1>3. QED
  BY <1>1, <1>2 DEF CurrentFences

\* A renewal does not look at the revision: it is one under the row's own fence.
LEMMA RenewalMatches ==
    ASSUME StoreTypeOK, NEW f \in Fence, NEW at \in Clock, RenewLease(f, at)
    PROVE  StoreNext
<1> DEFINE g == [task |-> f.task, attempt |-> attempt[f.task], epoch |-> lease_epoch[f.task],
                 revision |-> revision[f.task]]
<1>1. g \in CurrentFences
  BY DEF Fence, CurrentFences
<1>2. RenewLease(g, at)
  BY DEF RenewLease, LeaseHolds
<1>3. QED
  BY <1>1, <1>2 DEF StoreNext, ExecutorNext

\* Every write an executor makes is an operation of the queue: progress, parking
\* and the terminal write that its outcome stands for.
LEMMA WritesMatch ==
    ASSUME StoreTypeOK, NEW f \in Fence, NEW at \in Clock, NEW o \in Outcome \ {"none"}
    PROVE  /\ AppendProgress(f, at) => StoreNext
           /\ Kind[f.task] # "cloud_worker" /\ WaitTask(f, at) => StoreNext
           /\ coreTerminal(f, at, OutcomeStatus(o), OutcomeCode(o)) => StoreNext
<1>1. ASSUME AppendProgress(f, at) PROVE StoreNext
  <2>1. f \in CurrentFences
    BY <1>1, MatchingFence DEF AppendProgress
  <2>2. QED
    BY <1>1, <2>1 DEF StoreNext, ExecutorNext
<1>2. ASSUME Kind[f.task] # "cloud_worker", WaitTask(f, at) PROVE StoreNext
  <2>1. f \in CurrentFences
    BY <1>2, MatchingFence DEF WaitTask
  <2>2. QED
    BY <1>2, <2>1 DEF StoreNext, ExecutorNext
<1>3. ASSUME coreTerminal(f, at, OutcomeStatus(o), OutcomeCode(o)) PROVE StoreNext
  <2>1. f \in CurrentFences
    BY <1>3, MatchingFence DEF coreTerminal
  <2>2. \/ OutcomeStatus(o) = "succeeded" /\ OutcomeCode(o) = ""
        \/ /\ OutcomeStatus(o) = "failed"
           /\ OutcomeCode(o) \in {"task_error", "uncertain", "task_timed_out"}
    BY DEF OutcomeStatus, OutcomeCode, Outcome
  <2>3. QED
    BY <1>3, <2>1, <2>2 DEF StoreNext, ExecutorNext
<1>4. QED
  BY <1>1, <1>2, <1>3

\* What an executor that is persisting writes is its outcome.
LEMMA PersistsOutcome ==
    ASSUME PoolInd, NEW e \in Executors, exec[e].phase = "persist"
    PROVE  exec[e].outcome \in Outcome \ {"none"}
BY ExecFields DEF PoolInd, Shape

\* The next-state relation of the pool, one case per action.
LEMMA PoolNextCases ==
    ASSUME [PoolNext]_poolVars, NEW P,
           ASSUME ClientNext \/ Tick, UNCHANGED <<exec, claiming>> PROVE P,
           ASSUME NEW at \in Clock, NEW t \in Tasks, NEW locked \in SUBSET Tasks,
                  Claim(t, at, locked)
           PROVE  P,
           ASSUME NEW at \in Clock, NEW t \in Tasks, NEW locked \in SUBSET Tasks,
                  ClaimConverges(t, at, locked)
           PROVE  P,
           ASSUME NEW t \in Tasks, ClaimPanics(t) PROVE P,
           ASSUME NEW t \in Tasks, NEW e \in Executors, ClaimRead(e, t) PROVE P,
           ASSUME ClaimReadFails PROVE P,
           ASSUME NEW e \in Executors, ExecNext(e), UNCHANGED claiming PROVE P,
           ASSUME Crash PROVE P,
           ASSUME UNCHANGED poolVars PROVE P
    PROVE  P
BY DEF PoolNext, ClaimNext

\* Every step of an executor is one operation of the queue or none.
LEMMA ExecUsesStore ==
    ASSUME PoolInd, NEW e \in Executors, ExecNext(e)
    PROVE  [StoreNext]_storeVars
<1> DEFINE f == exec[e].fence
<1>0. StoreTypeOK /\ f \in Fence
  BY ExecFields DEF PoolInd, TypeOK
<1>1. ASSUME NEW at \in Clock, Renew(e, at) PROVE [StoreNext]_storeVars
  BY <1>0, <1>1, RenewalMatches DEF Renew
<1>2. ASSUME NEW at \in Clock, Progress(e, at) \/ ProgressLost(e, at)
      PROVE  [StoreNext]_storeVars
  BY <1>0, <1>2, WritesMatch DEF Progress, ProgressLost, Outcome
<1>3. ASSUME NEW at \in Clock, Wait(e, at) PROVE [StoreNext]_storeVars
  BY <1>0, <1>3, WritesMatch DEF Wait, Outcome
<1>4. ASSUME NEW at \in Clock, TerminalWrite(e, at) \/ TerminalWriteLost(e, at)
      PROVE  [StoreNext]_storeVars
  BY <1>0, <1>4, PersistsOutcome, WritesMatch DEF TerminalWrite, TerminalWriteLost
<1>5. CASE UNCHANGED storeVars
  BY <1>5
<1>6. QED
  BY <1>1, <1>2, <1>3, <1>4, <1>5
     DEF ExecNext, HandlerReturns, RenewFails, HandlerCanceled, TerminalWriteFails, Reread, GiveUp

\* So is every step of the pool.
LEMMA PoolUsesStore ==
    ASSUME PoolInd, [PoolNext]_poolVars
    PROVE  [StoreNext]_storeVars
<1>1. ASSUME ClientNext \/ Tick, UNCHANGED <<exec, claiming>> PROVE [StoreNext]_storeVars
  BY <1>1 DEF StoreNext
<1>2. ASSUME NEW at \in Clock, NEW t \in Tasks, NEW locked \in SUBSET Tasks, Claim(t, at, locked)
      PROVE  [StoreNext]_storeVars
  BY <1>2 DEF Claim, StoreNext, ExecutorNext
<1>3. ASSUME NEW at \in Clock, NEW t \in Tasks, NEW locked \in SUBSET Tasks,
             ClaimConverges(t, at, locked)
      PROVE  [StoreNext]_storeVars
  BY <1>3 DEF ClaimConverges, StoreNext, ExecutorNext
<1>4. ASSUME NEW e \in Executors, ExecNext(e), UNCHANGED claiming PROVE [StoreNext]_storeVars
  BY <1>4, ExecUsesStore
<1>5. ASSUME UNCHANGED storeVars PROVE [StoreNext]_storeVars
  BY <1>5
<1>6. QED
  BY <1>1, <1>2, <1>3, <1>4, <1>5, PoolNextCases
     DEF ClaimPanics, ClaimRead, ClaimReadFails, Crash, poolVars

\* Every step of an executor keeps it on its claim.
LEMMA ExecStep ==
    ASSUME PoolInd, NEW e \in Executors, ExecNext(e), UNCHANGED claiming, StoreTypeOK', Pinned
    PROVE  PoolInd'
<1> DEFINE s == exec[e]  t == s.fence.task
<1>0. TypeOK /\ StoreTypeOK /\ exec \in [Executors -> ExecState] /\ Shape(s)
  BY DEF PoolInd, TypeOK
<1>1. /\ s \in ExecState /\ s.fence \in Fence /\ t \in Tasks
      /\ s.fence.revision \in Nat /\ s.claimed \in Nat /\ s.tries \in 0..3
      /\ s.outcome \in Outcome
  BY <1>0, ExecFields
<1>2. CASE UNCHANGED exec
  BY <1>2, NoneMoves
<1>3. CASE Stop(e)
  BY <1>3, IdleIsTyped, OneMoves DEF Stop, IdleExec
<1>4. s.phase # "idle" => Stays(e, s)
  BY Resting
<1>5. lease_epoch'[t] \in Nat /\ revision[t] \in Nat /\ revision'[t] \in Nat
      /\ revision[t] <= revision'[t]
  BY <1>0, <1>1, Grown
<1>6. ASSUME NEW at \in Clock, Progress(e, at) PROVE PoolInd'
  <2> DEFINE x == [s EXCEPT !.fence.revision = @ + 1]
  <2>1. s.phase \in {"handler", "stale"} /\ exec' = [exec EXCEPT ![e] = x]
    BY <1>6 DEF Progress
  <2>2. revision[t] = s.fence.revision /\ revision'[t] = revision[t] + 1
    BY <1>0, <1>1, <1>6 DEF Progress, AppendProgress, FenceHolds, NewRevision, StoreTypeOK
  <2>3. x \in ExecState
    BY <1>1 DEF ExecState, Fence
  <2>4. Stays(e, x)
    BY <1>0, <1>1, <1>4, <2>1, <2>2 DEF Stays, Shape, ExecState, Fence
  <2> HIDE DEF x
  <2>5. QED
    BY <2>1, <2>3, <2>4, OneMoves
<1>7. ASSUME NEW o \in Outcome \ {"none"}, HandlerReturns(e, o) PROVE PoolInd'
  <2> DEFINE r == IF Kind[t] = "agent" THEN s.fence.revision ELSE s.claimed
             x == [s EXCEPT !.phase = "persist", !.outcome = o, !.fence.revision = r]
  <2>1. s.phase = "handler" /\ exec' = [exec EXCEPT ![e] = x]
    BY <1>7 DEF HandlerReturns
  <2>2. r \in Nat /\ r <= revision'[t]
    <3>1. s.claimed <= revision[t] /\ s.fence.revision <= revision[t]
      BY <2>1 DEF PoolInd, Behind
    <3>2. QED
      BY <1>1, <1>5, <3>1
  <2> HIDE DEF r
  <2>3. x \in ExecState
    BY <1>1, <2>2 DEF ExecState, Fence, Phase
  <2>4. Stays(e, x)
    BY <1>0, <1>1, <1>4, <2>1, <2>2 DEF Stays, Shape, ExecState, Fence
  <2> HIDE DEF x
  <2>5. QED
    BY <2>1, <2>3, <2>4, OneMoves
<1>8. ASSUME RenewFails(e) PROVE PoolInd'
  <2> DEFINE x == [s EXCEPT !.phase = "stale"]
  <2>1. s.phase = "handler" /\ exec' = [exec EXCEPT ![e] = x]
    BY <1>8 DEF RenewFails
  <2>2. x \in ExecState /\ Stays(e, x)
    BY <1>0, <1>1, <1>4, <2>1 DEF Stays, Shape, ExecState, Phase
  <2>3. QED
    BY <2>1, <2>2, OneMoves
<1>9. ASSUME s.phase = "persist", exec' = [exec EXCEPT ![e].phase = "reread", ![e].tries = @ + 1]
      PROVE  PoolInd'
  <2> DEFINE x == [s EXCEPT !.phase = "reread", !.tries = @ + 1]
  <2>1. exec' = [exec EXCEPT ![e] = x]
    BY <1>9
  <2>2. s.tries + 1 \in 0..3
    BY <1>0, <1>1, <1>9 DEF Shape
  <2>3. x \in ExecState /\ Stays(e, x)
    BY <1>0, <1>1, <1>4, <1>9, <2>2 DEF Stays, Shape, ExecState, Phase
  <2>4. QED
    BY <2>1, <2>3, OneMoves
<1>10. ASSUME Reread(e) PROVE PoolInd'
  <2> DEFINE x == [s EXCEPT !.phase = "persist", !.fence.revision = revision[t]]
  <2>1. s.phase = "reread" /\ s.tries < 3 /\ exec' = [exec EXCEPT ![e] = x]
    BY <1>10 DEF Reread
  <2>2. x \in ExecState
    BY <1>1, <1>5 DEF ExecState, Fence, Phase
  <2>3. Stays(e, x)
    BY <1>0, <1>1, <1>4, <1>5, <2>1 DEF Stays, Shape, ExecState, Fence
  <2> HIDE DEF x
  <2>4. QED
    BY <2>1, <2>2, <2>3, OneMoves
<1>11. QED
  BY <1>2, <1>3, <1>6, <1>7, <1>8, <1>9, <1>10
     DEF ExecNext, Renew, ProgressLost, Wait, TerminalWrite, TerminalWriteLost,
         TerminalWriteFails, HandlerCanceled, GiveUp

\* Every step of the pool keeps its invariant.
LEMMA PoolIndStep ==
    ASSUME PoolInd, [PoolNext]_poolVars
    PROVE  PoolInd'
<1>0. StoreTypeOK /\ [StoreNext]_storeVars
  BY PoolUsesStore DEF PoolInd, TypeOK
<1>1. StoreTypeOK' /\ Pinned
  BY <1>0, TypeStep, PinStep
<1>2. ASSUME ClientNext \/ Tick, UNCHANGED <<exec, claiming>> PROVE PoolInd'
  BY <1>1, <1>2, NoneMoves
<1>3. ASSUME NEW at \in Clock, NEW t \in Tasks, NEW locked \in SUBSET Tasks, Claim(t, at, locked)
      PROVE  PoolInd'
  BY <1>1, <1>3, ClaimMoves
<1>4. ASSUME NEW at \in Clock, NEW t \in Tasks, NEW locked \in SUBSET Tasks,
             ClaimConverges(t, at, locked)
      PROVE  PoolInd'
  BY <1>1, <1>4, NoneMoves DEF ClaimConverges
<1>5. ASSUME NEW t \in Tasks, ClaimPanics(t) PROVE PoolInd'
  BY <1>1, <1>5, AllStop DEF ClaimPanics
<1>6. ASSUME NEW t \in Tasks, NEW e \in Executors, ClaimRead(e, t) PROVE PoolInd'
  BY <1>6, ClaimReadMoves
<1>7. ASSUME ClaimReadFails PROVE PoolInd'
  BY <1>1, <1>7, NoneMoves DEF ClaimReadFails
<1>8. ASSUME NEW e \in Executors, ExecNext(e), UNCHANGED claiming PROVE PoolInd'
  BY <1>1, <1>8, ExecStep
<1>9. ASSUME Crash PROVE PoolInd'
  BY <1>1, <1>9, AllStop DEF Crash
<1>10. ASSUME UNCHANGED poolVars PROVE PoolInd'
  BY <1>1, <1>10, NoneMoves DEF poolVars
<1>11. QED
  BY <1>2, <1>3, <1>4, <1>5, <1>6, <1>7, <1>8, <1>9, <1>10, PoolNextCases

\* A process that has just started has no executors.
LEMMA PoolStart ==
    ASSUME PoolInit
    PROVE  PoolInd
<1>1. StoreTypeOK
  BY InitTyped DEF PoolInit
<1>2. exec \in [Executors -> ExecState] /\ \A e \in Executors : exec[e].phase = "idle"
  BY IdleIsTyped DEF PoolInit, IdleExec
<1>3. claiming = {} /\ Cardinality({}) = 0
  BY FS_EmptySet DEF PoolInit
<1>4. TypeOK
  BY <1>1, <1>2, <1>3 DEF TypeOK
<1>5. QED
  BY <1>2, <1>3, <1>4 DEF PoolInd, Shape, Behind, Distinct, Active

\* The invariant of the pool holds in every state of it.
LEMMA PoolInvariant == PoolSpec => []PoolInd
<1>1. PoolInit => PoolInd
  BY PoolStart
<1>2. PoolInd /\ [PoolNext]_poolVars => PoolInd'
  BY PoolIndStep
<1>3. QED
  BY <1>1, <1>2, PTL DEF PoolSpec

\* For any number of executors, and whatever crashes, stale handlers, lost
\* replies and late renewals there are: two executors never hold the lease of one
\* task, no executor knows more of its task than has happened, and the repair of
\* a terminal write stays within its three tries.
THEOREM OneOwnerPerLease == PoolSpec => []PoolInv
BY PoolInvariant, DistinctOwners, PTL

\* The worker pool implements the durable queue under any callers: every step of
\* Run, execute and persistTerminal is one operation of the store with a fence
\* that matches, or does not touch it.
THEOREM PoolImplementsQueue == PoolSpec => StoreSpec
<1>1. PoolInit => StoreInit
  BY DEF PoolInit
<1>2. PoolInd /\ [PoolNext]_poolVars => [StoreNext]_storeVars
  BY PoolUsesStore
<1>3. QED
  BY <1>1, <1>2, PoolInvariant, PTL DEF PoolSpec, StoreSpec

\* So the log of a task of the pool is in the order of the epochs of its writers:
\* no executor that lost its lease writes after its successor.
THEOREM PoolSilencesZombies == PoolSpec => []ZombieSilenced
BY PoolImplementsQueue, ZombiesAreSilenced, PTL

=============================================================================
