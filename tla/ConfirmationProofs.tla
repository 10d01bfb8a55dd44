-------------------------- MODULE ConfirmationProofs --------------------------
(***************************************************************************)
(* What Confirmation promises for any tasks, targets and bounds: a target  *)
(* has at most one live consent, and the slots of the queue stay exact     *)
(* although confirmations end tasks too.                                   *)
(***************************************************************************)
EXTENDS Confirmation, WorkerPoolProofs

\* The columns that say which consents are live.
LiveTypeOK ==
    /\ state \in [Tasks -> State]
    /\ consumed_released \subseteq Tasks

\* The inductive invariant of the targets.
TargetInv == LiveTypeOK /\ OneLivePerTarget

-----------------------------------------------------------------------------
(* One live consent per target *)

\* A step that ends an open consent, as nearly all of them do.
LEMMA EndedIsExpired ==
    ASSUME NEW t, NEW code, terminalizeExpiredTx(t, code)
    PROVE  state' = [state EXCEPT ![t] = "expired"]
BY DEF terminalizeExpiredTx, SetState

\* Every step but a request moves one consent along, gives targets free or
\* leaves the consents alone.
ConsentMoves ==
    \/ state' = state /\ consumed_released \subseteq consumed_released'
    \/ /\ consumed_released' = consumed_released
       /\ \E t \in Tasks : \/ /\ Open(t)
                              /\ \E s \in {"confirmed", "consumed", "rejected", "expired"} :
                                   state' = [state EXCEPT ![t] = s]
    \/ terminalizeConfirmationForTask

\* Each method of the confirmation store, and the queue beside it, is one of these.
LEMMA EveryStepMoves ==
    ASSUME StoreTypeOK, LiveTypeOK, [ConfNext]_<<storeVars, confVars>>
    PROVE  \/ ConsentMoves /\ consumed_released' \subseteq Tasks
           \/ \E t \in Tasks, at \in Clock, e \in Int : Request(t, at, e)
<1> DEFINE Goal == ConsentMoves /\ consumed_released' \subseteq Tasks
<1> USE DEF reservationVars, LiveTypeOK
<1>1. CASE StoreNext /\ terminalizeConfirmationForTask
  BY <1>1 DEF ConsentMoves, terminalizeConfirmationForTask
<1>2. ASSUME NEW t \in Tasks, NEW at \in Clock, NEW ttl \in 1..ConfirmTTL,
             Request(t, at, at + ttl)
      PROVE  \E u \in Tasks, a \in Clock, e \in Int : Request(u, a, e)
  <2>1. at + ttl \in Int
    BY TargetsAssumption DEF Clock
  <2>2. QED
    BY <1>2, <2>1
<1>3. ASSUME NEW t \in Tasks, NEW at \in Clock, Confirm(t, at) PROVE Goal
  BY <1>3, EndedIsExpired DEF Confirm, ConsentMoves, Open, SetState
<1>4. ASSUME NEW t \in Tasks, NEW at \in Clock, Reject(t, at) PROVE Goal
  BY <1>4, EndedIsExpired DEF Reject, ConsentMoves, Open, SetState
<1>5. ASSUME NEW t \in Tasks, NEW at \in Clock, sweepExpiredConfirmation(t, at) PROVE Goal
  BY <1>5, EndedIsExpired DEF sweepExpiredConfirmation, ConsentMoves, Open, SetState
<1>6. ASSUME NEW f \in CurrentFences, NEW at \in Clock, Consume(f, at) PROVE Goal
  <2>1. f.task \in Tasks
    BY FencesAreTyped
  <2>2. Open(f.task) /\ consumed_released' = consumed_released
    BY <1>6 DEF Consume, Open
  <2>3. \E s \in {"consumed", "expired"} : state' = [state EXCEPT ![f.task] = s]
    BY <1>6, EndedIsExpired DEF Consume, SetState
  <2>4. QED
    BY <2>1, <2>2, <2>3 DEF ConsentMoves
<1>7. ASSUME NEW t \in Tasks, NEW code, Expire(t, code) PROVE Goal
  BY <1>7, EndedIsExpired DEF Expire, ConsentMoves, Open, SetState
<1>8. ASSUME NEW t \in Tasks, ReleaseReservation(t) PROVE Goal
  BY <1>8 DEF ReleaseReservation, ConsentMoves
<1>9. ASSUME NEW x \in Targets, UpsertCurrentTargetBinding(x) PROVE Goal
  BY <1>9 DEF UpsertCurrentTargetBinding, ConsentMoves
<1>10. CASE UNCHANGED <<storeVars, confVars>>
  BY <1>10 DEF confVars, ConsentMoves
<1> HIDE DEF Goal
<1>11. QED
  <2>1. Goal \/ \E t \in Tasks, at \in Clock, e \in Int : Request(t, at, e)
    BY <1>1, <1>2, <1>3, <1>4, <1>5, <1>6, <1>7, <1>8, <1>9, <1>10
       DEF ConfNext, ConfirmationNext, Goal
  <2>2. QED
    BY <2>1 DEF Goal

\* No step but a request makes a consent live.
LEMMA TargetStep ==
    ASSUME StoreTypeOK, TargetInv, [ConfNext]_<<storeVars, confVars>>
    PROVE  TargetInv'
<1> USE DEF TargetInv, LiveTypeOK
<1>1. CASE ConsentMoves /\ consumed_released' \subseteq Tasks
  <2>1. state' \in [Tasks -> State]
    BY <1>1 DEF ConsentMoves, State, terminalizeConfirmationForTask
  <2>2. ASSUME NEW t \in Tasks, Live(t)' PROVE Live(t)
    BY <1>1, <2>2 DEF ConsentMoves, terminalizeConfirmationForTask, reservationVars, Live, Open
  <2>3. QED
    BY <1>1, <2>1, <2>2 DEF OneLivePerTarget
<1>2. ASSUME NEW t \in Tasks, NEW at \in Clock, NEW e \in Int, Request(t, at, e)
      PROVE  TargetInv'
  <2>1. state' = [state EXCEPT ![t] = "pending"] /\ consumed_released' = consumed_released
    BY <1>2 DEF Request, reservationVars
  <2>2. ASSUME NEW u \in Tasks, Live(u)', u # t PROVE Live(u) /\ Target[u] # Target[t]
    BY <1>2, <2>1, <2>2 DEF Request, Live, Open
  <2>3. QED
    BY <2>1, <2>2 DEF OneLivePerTarget, State
<1>3. QED
  BY <1>1, <1>2, EveryStepMoves

-----------------------------------------------------------------------------
(* Slots *)

\* What a confirmation does to its task, if anything: it queues a waiting task
\* or ends one that has not ended, releasing the slot of a running one.
TaskWrites ==
    \/ UNCHANGED storeVars
    \/ \E t \in Tasks, at \in Clock : status[t] = "waiting_user" /\ Enqueue(t, at)
    \/ \E t \in Tasks, s \in {"failed", "canceled"}, code \in FailureCode :
         /\ status[t] \in {"waiting_user", "queued", "running"}
         /\ EndTask(t, s, code)
         /\ DropLease(t) \/ (status[t] = "waiting_user" /\ UNCHANGED lease_expires_at)
         /\ IF status[t] = "running" THEN ReleaseSlot ELSE UNCHANGED running_count

\* terminalizeExpiredTx ends the task or finds it ended.
LEMMA ExpiryWrites ==
    ASSUME NEW t \in Tasks, NEW code \in FailureCode, terminalizeExpiredTx(t, code)
    PROVE  TaskWrites
BY DEF terminalizeExpiredTx, TaskWrites

\* No method of the confirmation store writes anything else to a task.
LEMMA ConfirmationWrites ==
    ASSUME StoreTypeOK, ConfirmationNext
    PROVE  TaskWrites
<1>0. {"task_timed_out", "user_rejected", "confirmation_expired", "confirmation_stale"}
        \subseteq FailureCode
  BY DEF FailureCode
<1>1. ASSUME NEW t \in Tasks, NEW at \in Clock, NEW e, Request(t, at, e) PROVE TaskWrites
  BY <1>1 DEF Request, TaskWrites
<1>2. ASSUME NEW t \in Tasks, NEW at \in Clock, Confirm(t, at) PROVE TaskWrites
  <2>1. CASE status[t] = "waiting_user" /\ Enqueue(t, at)
    BY <2>1 DEF TaskWrites
  <2>2. QED
    BY <1>0, <1>2, <2>1, ExpiryWrites DEF Confirm
<1>3. ASSUME NEW t \in Tasks, NEW at \in Clock, Reject(t, at) PROVE TaskWrites
  <2>1. CASE /\ status[t] = "waiting_user"
             /\ EndTask(t, "canceled", "user_rejected")
             /\ UNCHANGED <<lease_expires_at, running_count>>
    BY <1>0, <2>1 DEF TaskWrites
  <2>2. QED
    BY <1>0, <1>3, <2>1, ExpiryWrites DEF Reject
<1>4. ASSUME NEW t \in Tasks, NEW at \in Clock, sweepExpiredConfirmation(t, at) PROVE TaskWrites
  BY <1>0, <1>4, ExpiryWrites DEF sweepExpiredConfirmation
<1>5. ASSUME NEW f \in CurrentFences, NEW at \in Clock, Consume(f, at) PROVE TaskWrites
  <2>1. CASE UNCHANGED storeVars
    BY <2>1 DEF TaskWrites
  <2>2. QED
    BY <1>0, <1>5, <2>1, ExpiryWrites, FencesAreTyped DEF Consume
<1>6. ASSUME NEW t \in Tasks, NEW code \in {"confirmation_expired", "confirmation_stale"},
             Expire(t, code)
      PROVE  TaskWrites
  BY <1>0, <1>6, ExpiryWrites DEF Expire
<1>7. ASSUME NEW t \in Tasks, ReleaseReservation(t) PROVE TaskWrites
  BY <1>7 DEF ReleaseReservation, TaskWrites
<1>8. ASSUME NEW x \in Targets, UpsertCurrentTargetBinding(x) PROVE TaskWrites
  BY <1>8 DEF UpsertCurrentTargetBinding, TaskWrites
<1>9. QED
  BY <1>1, <1>2, <1>3, <1>4, <1>5, <1>6, <1>7, <1>8 DEF ConfirmationNext

\* Those writes keep the columns typed.
LEMMA TaskWritesTyped ==
    ASSUME StoreTypeOK, Unparked, TaskWrites
    PROVE  StoreTypeOK' /\ Unparked'
<1>a. {"queued", "failed", "canceled"} \subseteq Status
  BY DEF Status, Terminal
<1>1. CASE UNCHANGED storeVars
  BY <1>1 DEF storeVars, StoreTypeOK, Unparked
<1>2. ASSUME NEW t \in Tasks, NEW at \in Clock, status[t] = "waiting_user", Enqueue(t, at)
      PROVE  StoreTypeOK' /\ Unparked'
  <2> USE <1>2
  <2>1. events' \in [Tasks -> Seq(Event)] /\ progress_sequence' \in [Tasks -> Nat]
    <3>1. lease_epoch[t] \in Nat
      BY DEF StoreTypeOK
    <3>2. QED
      BY <1>a, <3>1, AppendEventTyped DEF Enqueue
  <2>2. StoreTypeOK'
    BY <1>a, <2>1, ClockIsNat, RowWritesTyped DEF StoreTypeOK, Enqueue, leaseVars
  <2>3. Unparked'
    BY DEF Unparked, Enqueue, StoreTypeOK
  <2>4. QED
    BY <2>2, <2>3
<1>3. ASSUME NEW t \in Tasks, NEW s \in {"failed", "canceled"}, NEW code \in FailureCode,
             status[t] \in {"waiting_user", "queued", "running"},
             EndTask(t, s, code),
             DropLease(t) \/ UNCHANGED lease_expires_at,
             IF status[t] = "running" THEN ReleaseSlot ELSE UNCHANGED running_count
      PROVE  StoreTypeOK' /\ Unparked'
  <2> USE <1>3
  <2>1. events' \in [Tasks -> Seq(Event)] /\ progress_sequence' \in [Tasks -> Nat]
    <3>1. lease_epoch[t] \in Nat
      BY DEF StoreTypeOK
    <3>2. QED
      BY <1>a, <3>1, AppendEventTyped DEF EndTask
  <2>2. /\ revision' \in [Tasks -> Nat]
        /\ lease_expires_at' \in [Tasks -> Int]
        /\ running_count' \in Nat
    BY RowWritesTyped, ReleaseSlotTyped DEF EndTask, StoreTypeOK
  <2>3. StoreTypeOK'
    BY <1>a, <2>1, <2>2 DEF StoreTypeOK, EndTask
  <2>4. Unparked'
    BY DEF Unparked, EndTask, StoreTypeOK
  <2>5. QED
    BY <2>3, <2>4
<1>4. QED
  BY <1>1, <1>2, <1>3 DEF TaskWrites

\* They release a slot exactly when they end a running task.
LEMMA TaskWritesKeepSlots ==
    ASSUME SlotInv, TaskWrites
    PROVE  SlotInv'
<1>0. StoreTypeOK /\ SlotsExact /\ StoreTypeOK' /\ Unparked'
  BY TaskWritesTyped DEF SlotInv
<1>a. {"queued", "failed", "canceled"} \subseteq Status
  BY DEF Status, Terminal
<1>1. CASE UNCHANGED storeVars
  BY <1>0, <1>1 DEF storeVars, SlotsExact, RunningTasks, SlotInv
<1>2. ASSUME NEW t \in Tasks, NEW at \in Clock, status[t] = "waiting_user", Enqueue(t, at)
      PROVE  SlotsExact'
  BY <1>0, <1>2, <1>a, SlotsKept DEF Enqueue
<1>3. ASSUME NEW t \in Tasks, NEW s \in {"failed", "canceled"}, NEW code \in FailureCode,
             status[t] \in {"waiting_user", "queued", "running"},
             EndTask(t, s, code),
             IF status[t] = "running" THEN ReleaseSlot ELSE UNCHANGED running_count
      PROVE  SlotsExact'
  BY <1>0, <1>3, <1>a, SlotsKept, SlotReleased DEF EndTask
<1>4. QED
  BY <1>0, <1>1, <1>2, <1>3 DEF TaskWrites, SlotInv

\* Neither the queue nor the confirmations lose a slot.
LEMMA ConsentSlotStep ==
    ASSUME SlotInv, [ConfNext]_<<storeVars, confVars>>
    PROVE  SlotInv'
<1>1. CASE StoreNext
  <2>1. [StoreNext]_storeVars
    BY <1>1
  <2>2. QED
    BY <2>1, TypeStep, SlotsStep, UnparkedStep DEF SlotInv
<1>2. CASE ConfirmationNext
  BY <1>2, ConfirmationWrites, TaskWritesKeepSlots DEF SlotInv
<1>3. CASE UNCHANGED <<storeVars, confVars>>
  BY <1>3, TaskWritesKeepSlots DEF TaskWrites
<1>4. QED
  BY <1>1, <1>2, <1>3 DEF ConfNext

\* The inductive invariant of the queue is one of the composition too.
LEMMA ConsentSlotInvariant == ConfSpec => []SlotInv
<1>1. ConfInit => SlotInv
  BY SlotInit DEF ConfInit
<1>2. SlotInv /\ [ConfNext]_<<storeVars, confVars>> => SlotInv'
  BY ConsentSlotStep
<1>3. QED
  BY <1>1, <1>2, PTL DEF ConfSpec

\* The slot counter is the number of running tasks also when consents that are
\* refused, expire or no longer fit end tasks beside the executors, the clients
\* and the claims: terminalizeExpiredTx releases exactly the slots that are held.
THEOREM ConsentSlotsAreExact == ConfSpec => []SlotsExact
BY ConsentSlotInvariant, PTL DEF SlotInv

\* A target has at most one consent that could lead to a side effect, after any
\* sequence of requests, answers, uses, expiries, cancellations and timeouts.
THEOREM TargetsAreExclusive == ConfSpec => []OneLivePerTarget
<1>1. ConfInit => TargetInv
  BY DEF ConfInit, TargetInv, LiveTypeOK, OneLivePerTarget, Live, Open, State
<1>2. StoreTypeOK /\ TargetInv /\ [ConfNext]_<<storeVars, confVars>> => TargetInv'
  BY TargetStep
<1>3. SlotInv => StoreTypeOK
  BY DEF SlotInv
<1>4. TargetInv => OneLivePerTarget
  BY DEF TargetInv
<1>5. QED
  BY <1>1, <1>2, <1>3, <1>4, ConsentSlotInvariant, PTL DEF ConfSpec

-----------------------------------------------------------------------------
(* Consent and task end together *)

\* Only tasks that ended have a failure code, and a timeout is a failure; a
\* consent belongs to a task that exists.
CodesFit ==
    \A t \in Tasks :
      /\ failure_code[t] # "" => status[t] \in Terminal
      /\ failure_code[t] = "task_timed_out" => status[t] = "failed"

ConsentHasTask == \A t \in Tasks : state[t] # "none" => status[t] # "absent"

\* The inductive invariant.
SettleInv == LiveTypeOK /\ CodesFit /\ ConsentHasTask /\ SettledTogether

\* The store keeps the codes, and no task disappears.
LEMMA StoreKeepsCodes ==
    ASSUME StoreTypeOK, CodesFit, [StoreNext]_storeVars
    PROVE  CodesFit' /\ \A t \in Tasks : status[t] # "absent" => status'[t] # "absent"
<1> DEFINE Kept == CodesFit' /\ \A t \in Tasks : status[t] # "absent" => status'[t] # "absent"
<1> USE DEF CodesFit, Terminal, StoreTypeOK
<1>1. ASSUME NEW t \in Tasks, NEW s \in {"queued", "waiting_user"}, NEW a \in Nat,
             CreateTask(t, s, a)
      PROVE  Kept
  BY <1>1 DEF CreateTask
<1>2. ASSUME NEW t \in Tasks, NEW n \in Tasks, NEW at \in Clock, RetryTask(t, n, at)
      PROVE  Kept
  BY <1>2 DEF RetryTask
<1>3. ASSUME NEW t \in Tasks, DeleteTask(t) PROVE Kept
  BY <1>3 DEF DeleteTask
<1>4. ASSUME NEW t \in Tasks, ResumeTask(t) PROVE Kept
  BY <1>4 DEF ResumeTask
<1>5. ASSUME NEW t \in Tasks, CancelTask(t) PROVE Kept
  BY <1>5 DEF CancelTask
<1>6. ASSUME NEW t \in Tasks, NEW at \in Clock, NEW locked \in SUBSET Tasks,
             ClaimOverdue(t, at, locked)
      PROVE  Kept
  BY <1>6 DEF ClaimOverdue
<1>7. ASSUME NEW t \in Tasks, NEW at \in Clock, NEW locked \in SUBSET Tasks,
             ClaimLease(t, at, locked)
      PROVE  Kept
  BY <1>7 DEF ClaimLease, Candidate, Eligible, Due
<1>8. ASSUME NEW f \in CurrentFences, NEW at \in Clock, RenewLease(f, at) PROVE Kept
  BY <1>8 DEF RenewLease
<1>9. ASSUME NEW f \in CurrentFences, NEW at \in Clock, AppendProgress(f, at) PROVE Kept
  BY <1>9 DEF AppendProgress
<1>10. ASSUME NEW f \in CurrentFences, NEW at \in Clock, Kind[f.task] # "cloud_worker",
              WaitTask(f, at)
       PROVE  Kept
  <2>1. PICK u \in Tasks : u = f.task
    BY FencesAreTyped
  <2>2. QED
    BY <1>10, <2>1 DEF WaitTask, FenceHolds, LeaseHolds
<1>11. ASSUME NEW f \in CurrentFences, NEW at \in Clock, NEW s \in {"succeeded", "failed"},
              NEW code \in FailureCode, CodeFits(s, code), coreTerminal(f, at, s, code)
       PROVE  Kept
  <2>1. PICK u \in Tasks : u = f.task
    BY FencesAreTyped
  <2>2. QED
    BY <1>11, <2>1 DEF coreTerminal, CodeFits
<1>12. ASSUME Tick PROVE Kept
  BY <1>12 DEF Tick
<1>13. ASSUME UNCHANGED storeVars PROVE Kept
  BY <1>13 DEF storeVars
<1> HIDE DEF Kept
<1>14. Kept
  BY <1>1, <1>2, <1>3, <1>4, <1>5, <1>6, <1>7, <1>8, <1>9, <1>10, <1>11, <1>12, <1>13,
     StoreNextCases
<1>15. QED
  BY <1>14 DEF Kept

\* The queue ends the consent of every task it cancels or times out.
LEMMA StoreSettles ==
    ASSUME StoreTypeOK, SettleInv, StoreNext, terminalizeConfirmationForTask
    PROVE  SettleInv'
<1>1. Frozen /\ CodesFit' /\ \A t \in Tasks : status[t] # "absent" => status'[t] # "absent"
  BY FrozenStep, StoreKeepsCodes DEF SettleInv
<1>2. /\ state' = [t \in Tasks |-> IF CanceledOrTimedOut(t) /\ Open(t)
                                  THEN "expired" ELSE state[t]]
      /\ consumed_released' = consumed_released
  BY DEF terminalizeConfirmationForTask, reservationVars
<1>3. LiveTypeOK'
  BY <1>2 DEF SettleInv, LiveTypeOK, State
<1>4. ConsentHasTask'
  BY <1>1, <1>2 DEF SettleInv, ConsentHasTask, LiveTypeOK, Open
<1>5. ASSUME NEW t \in Tasks, state'[t] \in {"rejected", "expired"}
      PROVE  status'[t] \in Terminal
  <2>1. CASE CanceledOrTimedOut(t)
    BY <2>1 DEF CanceledOrTimedOut, Terminal
  <2>2. CASE ~CanceledOrTimedOut(t)
    <3>1. state'[t] = state[t]
      BY <1>2, <2>2
    <3>2. status[t] \in Terminal
      BY <1>5, <3>1 DEF SettleInv, SettledTogether
    <3>3. QED
      BY <1>1, <3>2 DEF Frozen
  <2>3. QED
    BY <2>1, <2>2
<1>6. ASSUME NEW t \in Tasks, status'[t] = "canceled" \/ failure_code'[t] = "task_timed_out"
      PROVE  state'[t] \notin {"pending", "confirmed"}
  <2>1. CASE status[t] \in Terminal
    BY <1>1, <1>2, <1>6, <2>1 DEF Frozen, SettleInv, SettledTogether, Open
  <2>2. CASE status[t] \notin Terminal
    <3>1. CanceledOrTimedOut(t)
      BY <1>1, <1>6, <2>2 DEF CodesFit, CanceledOrTimedOut
    <3>2. QED
      BY <1>2, <3>1 DEF Open
  <2>3. QED
    BY <2>1, <2>2
<1>7. SettledTogether'
  BY <1>5, <1>6 DEF SettledTogether, Open
<1>8. QED
  BY <1>1, <1>3, <1>4, <1>7 DEF SettleInv

\* A consent that ends takes its task with it.
LEMMA ExpirySettles ==
    ASSUME StoreTypeOK, SettleInv, NEW t \in Tasks, NEW code \in FailureCode \ {""}, Open(t),
           terminalizeExpiredTx(t, code), consumed_released' = consumed_released
    PROVE  SettleInv'
<1> USE DEF SettleInv, LiveTypeOK, CodesFit, ConsentHasTask, SettledTogether, Open, Terminal,
            StoreTypeOK, State
<1>1. state' = [state EXCEPT ![t] = "expired"] /\ status[t] # "absent"
  BY DEF terminalizeExpiredTx, SetState
<1>2. CASE /\ status' = [status EXCEPT ![t] = "failed"]
           /\ failure_code' = [failure_code EXCEPT ![t] = code]
  BY <1>1, <1>2
<1>3. CASE status[t] \in Terminal /\ UNCHANGED <<status, failure_code>>
  BY <1>1, <1>3
<1>4. status[t] \in Terminal \/ status[t] \in {"waiting_user", "queued", "running"}
  BY <1>1 DEF Status
<1>5. QED
  BY <1>2, <1>3, <1>4 DEF terminalizeExpiredTx, EndTask, storeVars

\* Every method of the confirmation store ends consent and task together.
LEMMA ConfirmationSettles ==
    ASSUME StoreTypeOK, SettleInv, ConfirmationNext
    PROVE  SettleInv'
<1>0. {"task_timed_out", "confirmation_expired", "confirmation_stale"} \subseteq FailureCode \ {""}
  BY DEF FailureCode
<1> DEFINE Settles(t, s) == /\ state' = [state EXCEPT ![t] = s]
                           /\ consumed_released' = consumed_released
<1>1. ASSUME NEW t \in Tasks, NEW at \in Clock, NEW e, Request(t, at, e) PROVE SettleInv'
  <2>1. /\ Settles(t, "pending") /\ status[t] = "waiting_user"
        /\ UNCHANGED <<status, failure_code>>
    BY <1>1 DEF Request, reservationVars, storeVars
  <2>2. QED
    BY <2>1 DEF SettleInv, LiveTypeOK, CodesFit, ConsentHasTask, SettledTogether, Open, Terminal,
                StoreTypeOK, State
<1>2. ASSUME NEW t \in Tasks, NEW at \in Clock, Confirm(t, at) PROVE SettleInv'
  <2>1. CASE /\ Settles(t, "confirmed") /\ status[t] = "waiting_user"
             /\ status' = [status EXCEPT ![t] = "queued"] /\ UNCHANGED failure_code
    BY <2>1 DEF SettleInv, LiveTypeOK, CodesFit, ConsentHasTask, SettledTogether, Open, Terminal,
                StoreTypeOK, State
  <2>2. Open(t) /\ consumed_released' = consumed_released
    BY <1>2 DEF Confirm, Open, reservationVars
  <2>3. CASE \E code \in FailureCode \ {""} : terminalizeExpiredTx(t, code)
    BY <2>2, <2>3, ExpirySettles
  <2>4. QED
    BY <1>0, <1>2, <2>1, <2>2, <2>3 DEF Confirm, SetState, Enqueue
<1>3. ASSUME NEW t \in Tasks, NEW at \in Clock, Reject(t, at) PROVE SettleInv'
  <2>1. CASE /\ Settles(t, "rejected")
             /\ status' = [status EXCEPT ![t] = "canceled"]
             /\ failure_code' = [failure_code EXCEPT ![t] = "user_rejected"]
    BY <2>1 DEF SettleInv, LiveTypeOK, CodesFit, ConsentHasTask, SettledTogether, Open, Terminal,
                StoreTypeOK, State
  <2>2. Open(t) /\ consumed_released' = consumed_released
    BY <1>3 DEF Reject, Open, reservationVars
  <2>3. QED
    BY <1>0, <1>3, <2>1, <2>2, ExpirySettles DEF Reject, SetState, EndTask
<1>4. ASSUME NEW t \in Tasks, NEW at \in Clock, sweepExpiredConfirmation(t, at) PROVE SettleInv'
  BY <1>0, <1>4, ExpirySettles DEF sweepExpiredConfirmation, reservationVars
<1>5. ASSUME NEW f \in CurrentFences, NEW at \in Clock, Consume(f, at) PROVE SettleInv'
  <2>1. PICK t \in Tasks : t = f.task
    BY FencesAreTyped
  <2>2. CASE Settles(t, "consumed") /\ UNCHANGED <<status, failure_code>>
    BY <1>5, <2>1, <2>2 DEF Consume, SettleInv, LiveTypeOK, CodesFit, ConsentHasTask,
                SettledTogether, Open, Terminal, StoreTypeOK, State
  <2>3. Open(t) /\ consumed_released' = consumed_released
    BY <1>5, <2>1 DEF Consume, Open
  <2>4. QED
    BY <1>0, <1>5, <2>1, <2>2, <2>3, ExpirySettles DEF Consume, SetState, storeVars
<1>6. ASSUME NEW t \in Tasks, NEW code \in {"confirmation_expired", "confirmation_stale"},
             Expire(t, code)
      PROVE  SettleInv'
  BY <1>0, <1>6, ExpirySettles DEF Expire, reservationVars
<1>7. ASSUME NEW t \in Tasks, ReleaseReservation(t) PROVE SettleInv'
  BY <1>7 DEF ReleaseReservation, storeVars, SettleInv, LiveTypeOK, CodesFit, ConsentHasTask,
              SettledTogether, Open
<1>8. ASSUME NEW x \in Targets, UpsertCurrentTargetBinding(x) PROVE SettleInv'
  BY <1>8 DEF UpsertCurrentTargetBinding, storeVars, reservationVars, SettleInv, LiveTypeOK,
              CodesFit, ConsentHasTask, SettledTogether, Open
<1>9. QED
  BY <1>1, <1>2, <1>3, <1>4, <1>5, <1>6, <1>7, <1>8 DEF ConfirmationNext

\* A refused or expired consent never leaves a task that could still run, and a
\* canceled or timed out task never leaves a consent that could still be used:
\* whichever side ends first, its transaction ends the other.
THEOREM ConsentSettles == ConfSpec => []SettledTogether
<1>1. ConfInit => SettleInv
  BY DEF ConfInit, StoreInit, SettleInv, LiveTypeOK, CodesFit, ConsentHasTask, SettledTogether,
         Open, State
<1>2. StoreTypeOK /\ SettleInv /\ [ConfNext]_<<storeVars, confVars>> => SettleInv'
  <2>1. SUFFICES ASSUME StoreTypeOK, SettleInv, [ConfNext]_<<storeVars, confVars>>
                 PROVE  SettleInv'
    OBVIOUS
  <2>2. CASE UNCHANGED <<storeVars, confVars>>
    BY <2>1, <2>2 DEF storeVars, confVars, SettleInv, LiveTypeOK, CodesFit, ConsentHasTask,
                      SettledTogether, Open
  <2>3. QED
    BY <2>1, <2>2, StoreSettles, ConfirmationSettles DEF ConfNext
<1>3. SlotInv => StoreTypeOK
  BY DEF SlotInv
<1>4. SettleInv => SettledTogether
  BY DEF SettleInv
<1>5. QED
  BY <1>1, <1>2, <1>3, <1>4, ConsentSlotInvariant, PTL DEF ConfSpec

-----------------------------------------------------------------------------
(* Reservations *)

\* Only a consumed consent was released.
ReleasedFits == \A t \in consumed_released : state[t] = "consumed"

\* The inductive invariant: the lease columns say that an executor that consumes
\* has a real epoch, and a target is not given free before it was reserved.
ReserveInv == ConfTypeOK /\ LeaseInv /\ ReservationExact /\ ReleasedFits

\* What the confirmations may do to a task.
Onward ==
    \A t \in Tasks : /\ lease_epoch'[t] >= lease_epoch[t]
                     /\ revision'[t] >= revision[t]
                     /\ status[t] \in Terminal => status'[t] \in Terminal

\* They leave the epoch alone and a task that has ended, too.
LEMMA TaskWritesOnward ==
    ASSUME StoreTypeOK, TaskWrites
    PROVE  Onward /\ (LeaseInv => LeaseInv')
<1> DEFINE Goal == Onward /\ (LeaseInv => LeaseInv')
<1>0. /\ status \in [Tasks -> Status] /\ lease_epoch \in [Tasks -> Nat]
      /\ revision \in [Tasks -> Nat] /\ lease_expires_at \in [Tasks -> Int]
      /\ attempt \in [Tasks -> Nat]
  BY DEF StoreTypeOK
<1>1. CASE UNCHANGED storeVars
  BY <1>0, <1>1 DEF storeVars, Onward, LeaseInv, LeaseExact
<1>2. ASSUME NEW t \in Tasks, NEW at \in Clock, status[t] = "waiting_user", Enqueue(t, at)
      PROVE  Goal
  <2>1. /\ status' = [status EXCEPT ![t] = "queued"] /\ revision' = [revision EXCEPT ![t] = @ + 1]
        /\ UNCHANGED <<lease_epoch, lease_expires_at, attempt>>
    BY <1>2 DEF Enqueue, NewRevision, leaseVars
  <2>2. Onward
    BY <1>0, <1>2, <2>1 DEF Onward, Terminal
  <2>3. LeaseInv => LeaseInv'
    BY <1>0, <1>2, <2>1 DEF LeaseInv, LeaseExact
  <2>4. QED
    BY <2>2, <2>3
<1>3. ASSUME NEW t \in Tasks, NEW s \in {"failed", "canceled"}, NEW code,
             status[t] \in {"waiting_user", "queued", "running"}, EndTask(t, s, code),
             DropLease(t) \/ (status[t] = "waiting_user" /\ UNCHANGED lease_expires_at)
      PROVE  Goal
  <2>1. /\ status' = [status EXCEPT ![t] = s] /\ revision' = [revision EXCEPT ![t] = @ + 1]
        /\ attempt' = [attempt EXCEPT ![t] = IF @ > 1 THEN @ ELSE 1]
        /\ UNCHANGED lease_epoch
    BY <1>3 DEF EndTask, NewRevision
  <2>2. Onward
    BY <1>0, <1>3, <2>1 DEF Onward, Terminal
  <2>3. LeaseInv => LeaseInv'
    BY <1>0, <1>3, <2>1 DEF LeaseInv, LeaseExact, DropLease
  <2>4. QED
    BY <2>2, <2>3
<1> HIDE DEF Goal
<1>4. Goal
  BY <1>2, <1>3, <1>1 DEF TaskWrites, Goal
<1>5. QED
  BY <1>4 DEF Goal

\* A step that ends or answers an open consent, or leaves all of them alone.
LEMMA ReserveRests ==
    ASSUME ReserveInv, StoreTypeOK', LeaseInv', Onward, UNCHANGED reservationVars,
           expires_at' \in [Tasks -> Nat], binding' \in [Tasks -> Nat], current' \in [Targets -> Nat],
           state' \in [Tasks -> State],
           \A t \in Tasks : state'[t] = "consumed" <=> state[t] = "consumed"
    PROVE  ReserveInv'
<1>1. UNCHANGED <<reservation, active, consumed_released>>
  BY DEF reservationVars
<1>2. ConfTypeOK'
  BY <1>1 DEF ReserveInv, ConfTypeOK
<1>3. ReleasedFits'
  BY <1>1 DEF ReserveInv, ReleasedFits, ConfTypeOK
<1>4. ASSUME NEW t \in Tasks
      PROVE  /\ t \in active <=> (state'[t] = "consumed" /\ t \notin consumed_released)
             /\ t \in active => /\ reservation[t].epoch \in 1..lease_epoch'[t]
                                /\ reservation[t].revision <= revision'[t]
             /\ state'[t] = "consumed" /\ status'[t] \notin Terminal => t \in active
  <2>1. /\ t \in active <=> (state[t] = "consumed" /\ t \notin consumed_released)
        /\ t \in active => /\ reservation[t].epoch \in 1..lease_epoch[t]
                           /\ reservation[t].revision <= revision[t]
        /\ state[t] = "consumed" /\ status[t] \notin Terminal => t \in active
    BY DEF ReserveInv, ReservationExact
  <2>2. /\ reservation[t].epoch \in Nat /\ reservation[t].revision \in Nat
        /\ lease_epoch[t] \in Nat /\ lease_epoch'[t] \in Nat
        /\ revision[t] \in Nat /\ revision'[t] \in Nat
    BY DEF ReserveInv, ConfTypeOK, Reservation, StoreTypeOK
  <2>3. /\ lease_epoch'[t] >= lease_epoch[t] /\ revision'[t] >= revision[t]
        /\ status[t] \in Terminal => status'[t] \in Terminal
    BY DEF Onward
  <2>4. QED
    BY <2>1, <2>2, <2>3
<1>5. ReservationExact'
  BY <1>1, <1>4 DEF ReservationExact
<1>6. QED
  BY <1>2, <1>3, <1>5 DEF ReserveInv

\* Consume reserves, under the lease of the executor.
LEMMA ConsumeReserves ==
    ASSUME ReserveInv, NEW f \in CurrentFences, NEW at \in Clock, state[f.task] = "confirmed",
           FenceHolds(f, at), SetState(f.task, "consumed"),
           reservation' = [reservation EXCEPT ![f.task] =
                 [attempt |-> f.attempt, epoch |-> f.epoch, revision |-> f.revision]],
           active' = active \cup {f.task},
           UNCHANGED <<consumed_released, current, storeVars>>
    PROVE  ReserveInv'
<1>1. PICK t \in Tasks : t = f.task
  BY FencesAreTyped DEF ReserveInv, ConfTypeOK
<1> DEFINE r == [attempt |-> f.attempt, epoch |-> f.epoch, revision |-> f.revision]
<1>2. /\ r \in Reservation /\ r.epoch = lease_epoch[t] /\ r.revision = revision[t]
      /\ lease_epoch[t] \in Nat /\ revision[t] \in Nat
  BY <1>1, FencesAreTyped DEF ReserveInv, ConfTypeOK, Reservation, FenceHolds, LeaseHolds, StoreTypeOK
<1>3. lease_epoch[t] >= 1
  BY <1>1 DEF FenceHolds, LeaseHolds, ReserveInv, LeaseInv, LeaseExact
<1> HIDE DEF r
<1>4. reservation' = [reservation EXCEPT ![t] = r] /\ state' = [state EXCEPT ![t] = "consumed"]
      /\ active' = active \cup {t} /\ UNCHANGED <<expires_at, binding>>
  BY <1>1 DEF r, SetState
<1>5. ConfTypeOK' /\ LeaseInv'
  <2>1. StoreTypeOK' /\ LeaseInv'
    BY DEF ReserveInv, ConfTypeOK, StoreTypeOK, storeVars, LeaseInv, LeaseExact
  <2>2. /\ state' \in [Tasks -> State] /\ reservation' \in [Tasks -> Reservation]
        /\ active' \subseteq Tasks
    BY <1>2, <1>4 DEF ReserveInv, ConfTypeOK, State
  <2>3. QED
    BY <1>4, <2>1, <2>2 DEF ReserveInv, ConfTypeOK
<1>6. t \notin consumed_released
  BY <1>1 DEF ReserveInv, ReleasedFits
<1>7. ReleasedFits'
  BY <1>4 DEF ReserveInv, ReleasedFits, ConfTypeOK
<1>8. ASSUME NEW u \in Tasks
      PROVE  /\ u \in active' <=> (state'[u] = "consumed" /\ u \notin consumed_released)
             /\ u \in active' => /\ reservation'[u].epoch \in 1..lease_epoch[u]
                                 /\ reservation'[u].revision <= revision[u]
             /\ state'[u] = "consumed" /\ status[u] \notin Terminal => u \in active'
  <2>1. CASE u = t
    BY <1>2, <1>3, <1>4, <1>6, <2>1 DEF ReserveInv, ConfTypeOK
  <2>2. CASE u # t
    <3>1. /\ u \in active <=> (state[u] = "consumed" /\ u \notin consumed_released)
          /\ u \in active => /\ reservation[u].epoch \in 1..lease_epoch[u]
                             /\ reservation[u].revision <= revision[u]
          /\ state[u] = "consumed" /\ status[u] \notin Terminal => u \in active
      BY DEF ReserveInv, ReservationExact
    <3>2. reservation'[u] = reservation[u] /\ state'[u] = state[u] /\ (u \in active' <=> u \in active)
      BY <1>4, <2>2 DEF ReserveInv, ConfTypeOK
    <3>3. QED
      BY <3>1, <3>2
  <2>3. QED
    BY <2>1, <2>2
<1>9. ReservationExact'
  BY <1>8 DEF ReservationExact, storeVars
<1>10. QED
  BY <1>5, <1>7, <1>9 DEF ReserveInv

\* Every step of the composition keeps the reservations exact.
LEMMA ReserveStep ==
    ASSUME SlotInv, ReserveInv, [ConfNext]_<<storeVars, confVars>>
    PROVE  ReserveInv'
<1>0. /\ StoreTypeOK /\ StoreTypeOK'
      /\ expires_at \in [Tasks -> Nat] /\ binding \in [Tasks -> Nat] /\ current \in [Targets -> Nat]
      /\ state \in [Tasks -> State]
  BY ConsentSlotStep DEF SlotInv, ReserveInv, ConfTypeOK
<1>1. CASE StoreNext /\ terminalizeConfirmationForTask
  <2>1. LeaseInv'
    BY <1>0, <1>1, LeaseStep DEF ReserveInv
  <2>2. Pinned /\ Frozen
    BY <1>0, <1>1, PinStep, FrozenStep
  <2>3. Onward
    BY <2>2 DEF Pinned, Frozen, Onward
  <2>4. /\ state' = [t \in Tasks |-> IF CanceledOrTimedOut(t) /\ Open(t)
                                    THEN "expired" ELSE state[t]]
        /\ UNCHANGED <<expires_at, binding, reservationVars, current>>
    BY <1>1 DEF terminalizeConfirmationForTask
  <2>5. state' \in [Tasks -> State] /\ \A t \in Tasks : state'[t] = "consumed" <=> state[t] = "consumed"
    BY <1>0, <2>4 DEF State, Open
  <2>6. QED
    BY <1>0, <2>1, <2>3, <2>4, <2>5, ReserveRests
<1>2. ASSUME TaskWrites, UNCHANGED reservationVars, current' \in [Targets -> Nat],
             expires_at' \in [Tasks -> Nat], binding' \in [Tasks -> Nat],
             \/ state' = state
             \/ \E t \in Tasks, s \in State \ {"consumed"} :
                  state[t] # "consumed" /\ state' = [state EXCEPT ![t] = s]
      PROVE  ReserveInv'
  <2>1. Onward /\ LeaseInv'
    BY <1>0, <1>2, TaskWritesOnward DEF ReserveInv
  <2>2. state' \in [Tasks -> State] /\ \A t \in Tasks : state'[t] = "consumed" <=> state[t] = "consumed"
    BY <1>0, <1>2
  <2>3. QED
    BY <1>0, <1>2, <2>1, <2>2, ReserveRests
<1>3. ASSUME ConfirmationNext PROVE ReserveInv'
  <2>0. TaskWrites
    BY <1>0, <1>3, ConfirmationWrites
  <2>a. {"pending", "confirmed", "rejected", "expired"} \subseteq State \ {"consumed"}
    BY DEF State
  <2>1. ASSUME NEW t \in Tasks, NEW at \in Clock, NEW ttl \in 1..ConfirmTTL, Request(t, at, at + ttl)
        PROVE  ReserveInv'
    <3>1. at + ttl \in Nat /\ current[Target[t]] \in Nat
      BY <1>0, TargetsAssumption, ClockIsNat
    <3>2. /\ state[t] = "none" /\ state' = [state EXCEPT ![t] = "pending"]
          /\ expires_at' = [expires_at EXCEPT ![t] = at + ttl]
          /\ binding' = [binding EXCEPT ![t] = current[Target[t]]]
          /\ UNCHANGED <<reservationVars, current>>
      BY <2>1 DEF Request
    <3>3. expires_at' \in [Tasks -> Nat] /\ binding' \in [Tasks -> Nat]
      BY <1>0, <3>1, <3>2
    <3>4. QED
      BY <1>0, <1>2, <2>0, <2>a, <3>2, <3>3
  <2>2. ASSUME NEW t \in Tasks, Open(t), NEW s \in State \ {"consumed"}, SetState(t, s),
               UNCHANGED <<reservationVars, current>>
        PROVE  ReserveInv'
    BY <1>0, <1>2, <2>0, <2>2 DEF SetState, Open
  <2>3. ASSUME NEW t \in Tasks, NEW at \in Clock, Confirm(t, at) \/ Reject(t, at) PROVE ReserveInv'
    BY <2>2, <2>3, <2>a DEF Confirm, Reject, terminalizeExpiredTx, Open
  <2>4. ASSUME NEW t \in Tasks, NEW at \in Clock, sweepExpiredConfirmation(t, at) PROVE ReserveInv'
    BY <2>2, <2>4, <2>a DEF sweepExpiredConfirmation, terminalizeExpiredTx
  <2>5. ASSUME NEW t \in Tasks, NEW code, Expire(t, code) PROVE ReserveInv'
    BY <2>2, <2>5, <2>a DEF Expire, terminalizeExpiredTx
  <2>6. ASSUME NEW f \in CurrentFences, NEW at \in Clock, Consume(f, at) PROVE ReserveInv'
    <3>1. f.task \in Tasks /\ Open(f.task)
      BY <1>0, <2>6, FencesAreTyped DEF Consume, Open
    <3>2. CASE SetState(f.task, "expired") /\ UNCHANGED <<reservation, active, consumed_released, current>>
      BY <2>2, <2>a, <3>1, <3>2 DEF reservationVars
    <3>3. QED
      BY <2>6, <3>2, ConsumeReserves DEF Consume, terminalizeExpiredTx
  <2>7. ASSUME NEW t \in Tasks, ReleaseReservation(t) PROVE ReserveInv'
    <3>1. /\ state[t] = "consumed" /\ t \in active /\ status[t] \in Terminal
          /\ active' = active \ {t} /\ consumed_released' = consumed_released \cup {t}
          /\ UNCHANGED <<storeVars, state, expires_at, binding, reservation, current>>
      BY <2>7 DEF ReleaseReservation
    <3>2. ConfTypeOK' /\ ReleasedFits'
      BY <1>0, <3>1 DEF ReserveInv, ConfTypeOK, ReleasedFits
    <3>3. LeaseInv'
      BY <3>1 DEF ReserveInv, LeaseInv, LeaseExact, storeVars
    <3>4. ReservationExact'
      BY <3>1 DEF ReserveInv, ReservationExact, storeVars
    <3>5. QED
      BY <3>2, <3>3, <3>4 DEF ReserveInv
  <2>8. ASSUME NEW x \in Targets, UpsertCurrentTargetBinding(x) PROVE ReserveInv'
    <3>1. current' \in [Targets -> Nat]
      BY <1>0, <2>8 DEF UpsertCurrentTargetBinding
    <3>2. QED
      BY <1>0, <1>2, <2>0, <2>8, <3>1 DEF UpsertCurrentTargetBinding
  <2>9. QED
    BY <1>3, <2>1, <2>3, <2>4, <2>5, <2>6, <2>7, <2>8 DEF ConfirmationNext
<1>4. CASE UNCHANGED <<storeVars, confVars>>
  BY <1>0, <1>2, <1>4 DEF confVars, reservationVars, TaskWrites
<1>5. QED
  BY <1>1, <1>3, <1>4 DEF ConfNext

\* A reservation of a target is held exactly for a consumed consent that still
\* reserves it, under a lease the task really had, and until the task has ended:
\* no second consent for the target meets a side effect under way.
THEOREM ReservationsAreExact == ConfSpec => []ConfInv
<1>1. ConfInit => ReserveInv
  <2>1. SUFFICES ASSUME ConfInit PROVE ReserveInv
    OBVIOUS
  <2>2. StoreTypeOK /\ ConfTypeOK
    BY <2>1, InitTyped DEF ConfInit, ConfTypeOK, State, Reservation
  <2>3. LeaseInv /\ ReservationExact /\ ReleasedFits
    BY <2>1 DEF ConfInit, StoreInit, LeaseInv, LeaseExact, ReservationExact, ReleasedFits
  <2>4. QED
    BY <2>2, <2>3 DEF ReserveInv
<1>2. SlotInv /\ ReserveInv /\ [ConfNext]_<<storeVars, confVars>> => ReserveInv'
  BY ReserveStep
<1>3. ReserveInv => ConfInv
  BY DEF ReserveInv, ConfInv
<1>4. QED
  BY <1>1, <1>2, <1>3, ConsentSlotInvariant, PTL DEF ConfSpec

-----------------------------------------------------------------------------
(* Executors beside the confirmations *)

\* A task that has ended may give its reservation back.
LEMMA ReleaseReserves ==
    ASSUME ReserveInv, StoreTypeOK', LeaseInv', Onward, NEW t \in Tasks, status'[t] \in Terminal,
           active' = active \ {t},
           consumed_released' = IF state[t] = "consumed" THEN consumed_released \cup {t}
                                ELSE consumed_released,
           UNCHANGED <<state, expires_at, binding, reservation, current>>
    PROVE  ReserveInv'
<1>1. ConfTypeOK'
  BY DEF ReserveInv, ConfTypeOK
<1>2. ReleasedFits'
  BY DEF ReserveInv, ReleasedFits
<1>3. ASSUME NEW u \in Tasks
      PROVE  /\ u \in active' <=> (state[u] = "consumed" /\ u \notin consumed_released')
             /\ u \in active' => /\ reservation[u].epoch \in 1..lease_epoch'[u]
                                 /\ reservation[u].revision <= revision'[u]
             /\ state[u] = "consumed" /\ status'[u] \notin Terminal => u \in active'
  <2>1. /\ u \in active <=> (state[u] = "consumed" /\ u \notin consumed_released)
        /\ u \in active => /\ reservation[u].epoch \in 1..lease_epoch[u]
                           /\ reservation[u].revision <= revision[u]
        /\ state[u] = "consumed" /\ status[u] \notin Terminal => u \in active
    BY DEF ReserveInv, ReservationExact
  <2>2. /\ reservation[u].epoch \in Nat /\ reservation[u].revision \in Nat
        /\ lease_epoch[u] \in Nat /\ lease_epoch'[u] \in Nat
        /\ revision[u] \in Nat /\ revision'[u] \in Nat
    BY DEF ReserveInv, ConfTypeOK, Reservation, StoreTypeOK
  <2>3. /\ lease_epoch'[u] >= lease_epoch[u] /\ revision'[u] >= revision[u]
        /\ status[u] \in Terminal => status'[u] \in Terminal
    BY DEF Onward
  <2>4. CASE u = t
    BY <2>1, <2>4
  <2>5. CASE u # t
    <3>1. (u \in active' <=> u \in active) /\ (u \in consumed_released' <=> u \in consumed_released)
      BY <2>5
    <3>2. QED
      BY <2>1, <2>2, <2>3, <3>1
  <2>6. QED
    BY <2>4, <2>5
<1>4. ReservationExact'
  BY <1>3 DEF ReservationExact
<1>5. QED
  BY <1>1, <1>2, <1>4 DEF ReserveInv

\* A task that exists goes on existing.
NoneVanishes == \A t \in Tasks : status[t] # "absent" => status'[t] # "absent"

\* What the operations of the queue and the writes of confirmations have in
\* common, and what executors and reservations rely on.
LEMMA QueueMoved ==
    ASSUME StoreTypeOK, Unparked, LeaseInv, [StoreNext]_storeVars \/ TaskWrites
    PROVE  /\ StoreTypeOK' /\ Unparked' /\ LeaseInv'
           /\ Pinned /\ Onward /\ NoneVanishes
<1>1. CASE [StoreNext]_storeVars
  <2>1. StoreTypeOK' /\ Unparked' /\ LeaseInv' /\ Pinned /\ Frozen
    BY <1>1, TypeStep, UnparkedStep, LeaseStep, PinStep, FrozenStep
  <2>2. Onward
    BY <2>1 DEF Pinned, Frozen, Onward
  <2>3. [Lifecycle!Next]_(Lifecycle!vars)
    BY <1>1, LifecycleStep
  <2>4. NoneVanishes
    BY <2>3 DEF NoneVanishes, StoreTypeOK, Lifecycle!Next, Lifecycle!vars, Lifecycle!Create,
                Lifecycle!Transition, Lifecycle!Reclaim, Lifecycle!Expire, Lifecycle!Done
  <2>5. QED
    BY <2>1, <2>2, <2>4
<1>2. CASE TaskWrites
  <2>0. /\ status \in [Tasks -> Status] /\ lease_epoch \in [Tasks -> Nat]
        /\ revision \in [Tasks -> Nat] /\ attempt \in [Tasks -> Nat]
    BY DEF StoreTypeOK
  <2>1. StoreTypeOK' /\ Unparked' /\ LeaseInv' /\ Onward
    BY <1>2, TaskWritesTyped, TaskWritesOnward
  <2>2. CASE UNCHANGED storeVars
    BY <2>0, <2>1, <2>2 DEF storeVars, Pinned, NoneVanishes
  <2>3. ASSUME NEW t \in Tasks, NEW at \in Clock, Enqueue(t, at)
        PROVE  Pinned /\ NoneVanishes
    BY <2>0, <2>3 DEF Enqueue, NewRevision, leaseVars, Pinned, NoneVanishes
  <2>4. ASSUME NEW t \in Tasks, NEW s \in {"failed", "canceled"}, NEW code, EndTask(t, s, code)
        PROVE  Pinned /\ NoneVanishes
    BY <2>0, <2>4 DEF EndTask, NewRevision, Pinned, NoneVanishes
  <2>5. QED
    BY <1>2, <2>1, <2>2, <2>3, <2>4 DEF TaskWrites
<1>3. QED
  BY <1>1, <1>2

=============================================================================
