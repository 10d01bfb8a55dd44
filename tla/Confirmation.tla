----------------------------- MODULE Confirmation -----------------------------
(***************************************************************************)
(* Confirmations, the owner's consent to a side effect, as                 *)
(* internal/store/postgres/core_confirmation_lifecycle.go and              *)
(* core_confirmation_domain.go keep them beside the durable queue of       *)
(* CoreTask.  A confirmation is bound to one task, which waits for it in   *)
(* waiting_user, and to one version of a target.  The owner confirms or    *)
(* rejects it, the executor of the task consumes it into a reservation     *)
(* under its own lease, and a sweeper ends it when it expires.             *)
(*                                                                         *)
(* Every method is one transaction that locks the task and the             *)
(* confirmation, so every method is one action.  This module has what all  *)
(* domains share; those of Workloads, conversation tools, Cloud Workers    *)
(* and extension installation also write rows of their own.  Every caller  *)
(* creates a confirmation for a task of its own, so the task identifies    *)
(* it.                                                                     *)
(***************************************************************************)
EXTENDS CoreTask

CONSTANTS
    Targets,        \* the (operation_domain, target_id) pairs
    Target,         \* task -> the target its side effect is about
    ConfirmTTL,     \* how long a confirmation may be open
    MaxBinding      \* bound of the versions a target goes through

ASSUME TargetsAssumption ==
    /\ IsFiniteSet(Targets)
    /\ Target \in [Tasks -> Targets]
    /\ ConfirmTTL \in Nat \ {0}
    /\ MaxBinding \in Nat

VARIABLES
    \* the columns of core_confirmations, one function of the task each
    state, expires_at, binding, consumed_released,
    reservation,    \* core_confirmation_reservations: task -> the lease that consumed it
    active,         \* the tasks whose reservation is active
    current         \* core_confirmation_current_bindings: target -> its version

reservationVars == <<reservation, active, consumed_released>>
confVars == <<state, expires_at, binding, consumed_released, reservation, active, current>>

-----------------------------------------------------------------------------

State == {"none", "pending", "confirmed", "rejected", "expired", "consumed"}

Reservation == [attempt : Nat, epoch : Nat, revision : Nat]

\* The owner has not ended it and nobody has used it.
Open(t) == state[t] \in {"pending", "confirmed"}

\* It still reserves its target.
Live(t) == Open(t) \/ (state[t] = "consumed" /\ t \notin consumed_released)

\* The binding that was confirmed is no longer that of the target.
Stale(t) == binding[t] # current[Target[t]]

Expired(t, at) == expires_at[t] <= at

DeadlinePassed(t, at) == execution_deadline_at[t] # NoTime /\ execution_deadline_at[t] <= at

SetState(t, s) ==
    /\ state' = [state EXCEPT ![t] = s]
    /\ UNCHANGED <<expires_at, binding>>

\* The part of core_tasks that both a rejection and an expiry write.
EndTask(t, s, code) ==
    /\ status' = [status EXCEPT ![t] = s]
    /\ attempt' = [attempt EXCEPT ![t] = IF @ > 1 THEN @ ELSE 1]
    /\ failure_code' = [failure_code EXCEPT ![t] = code]
    /\ NewRevision(t)
    /\ AppendEvent(t, s, lease_epoch[t])
    /\ UNCHANGED <<lease_epoch, available_at, execution_deadline_at, deleted, refs, now>>

\* The confirmation ends and takes its task with it, wherever the task is.
terminalizeExpiredTx(t, code) ==
    /\ SetState(t, "expired")
    /\ IF status[t] \in {"waiting_user", "queued", "running"}
       THEN /\ EndTask(t, "failed", code)
            /\ DropLease(t)
            /\ IF status[t] = "running" THEN ReleaseSlot ELSE UNCHANGED running_count
       ELSE UNCHANGED storeVars

-----------------------------------------------------------------------------
(* The methods of CoreConfirmationStore *)

\* Mutant: the target is not searched for another live confirmation.
RequestUnchecked(t, at, expires) ==
    /\ state[t] = "none"
    /\ expires > at
    /\ status[t] = "waiting_user"
    /\ state' = [state EXCEPT ![t] = "pending"]
    /\ expires_at' = [expires_at EXCEPT ![t] = expires]
    /\ binding' = [binding EXCEPT ![t] = current[Target[t]]]
    /\ UNCHANGED <<storeVars, reservationVars, current>>

Request(t, at, expires) ==
    /\ state[t] = "none"
    /\ expires > at
    /\ status[t] = "waiting_user"
    /\ \A u \in Tasks : Target[u] = Target[t] => ~Live(u)
    /\ state' = [state EXCEPT ![t] = "pending"]
    /\ expires_at' = [expires_at EXCEPT ![t] = expires]
    /\ binding' = [binding EXCEPT ![t] = current[Target[t]]]
    /\ UNCHANGED <<storeVars, reservationVars, current>>

\* The task becomes runnable.
Enqueue(t, at) ==
    /\ status' = [status EXCEPT ![t] = "queued"]
    /\ available_at' = [available_at EXCEPT ![t] = at]
    /\ NewRevision(t)
    /\ AppendEvent(t, "queued", lease_epoch[t])
    /\ UNCHANGED <<attempt, leaseVars, execution_deadline_at, failure_code, deleted,
                   running_count, refs, now>>

Confirm(t, at) ==
    /\ state[t] = "pending"
    /\ \/ DeadlinePassed(t, at) /\ terminalizeExpiredTx(t, "task_timed_out")
       \/ /\ ~DeadlinePassed(t, at) /\ Expired(t, at)
          /\ terminalizeExpiredTx(t, "confirmation_expired")
       \/ /\ ~DeadlinePassed(t, at) /\ ~Expired(t, at)
          /\ status[t] = "waiting_user"
          /\ \/ Stale(t) /\ terminalizeExpiredTx(t, "confirmation_stale")
             \/ ~Stale(t) /\ SetState(t, "confirmed") /\ Enqueue(t, at)
    /\ UNCHANGED <<reservationVars, current>>

\* A rejection looks at the deadline of the task, not at the expiry.
Reject(t, at) ==
    /\ state[t] = "pending"
    /\ \/ DeadlinePassed(t, at) /\ terminalizeExpiredTx(t, "task_timed_out")
       \/ /\ ~DeadlinePassed(t, at)
          /\ status[t] = "waiting_user"
          /\ SetState(t, "rejected")
          /\ EndTask(t, "canceled", "user_rejected")
          /\ UNCHANGED <<lease_expires_at, running_count>>
    /\ UNCHANGED <<reservationVars, current>>

\* The owner of the lease takes the consent; an expired one ends the task
\* whoever asks.
Consume(f, at) ==
    LET t == f.task IN
    /\ state[t] = "confirmed"
    /\ UNCHANGED <<consumed_released, current>>
    /\ \/ /\ Expired(t, at)
          /\ terminalizeExpiredTx(t, "confirmation_expired") /\ UNCHANGED <<reservation, active>>
       \/ /\ ~Expired(t, at) /\ FenceHolds(f, at) /\ Stale(t)
          /\ terminalizeExpiredTx(t, "confirmation_stale") /\ UNCHANGED <<reservation, active>>
       \/ /\ ~Expired(t, at) /\ FenceHolds(f, at) /\ ~Stale(t)
          /\ SetState(t, "consumed")
          /\ reservation' = [reservation EXCEPT ![t] =
                 [attempt |-> f.attempt, epoch |-> f.epoch, revision |-> f.revision]]
          /\ active' = active \cup {t}
          /\ UNCHANGED storeVars

\* An operator ends it, before its time too.
Expire(t, code) ==
    /\ Open(t)
    /\ terminalizeExpiredTx(t, code)
    /\ UNCHANGED <<reservationVars, current>>

\* Mutant: only consents the owner has not answered are swept.
sweepPendingConfirmation(t, at) ==
    /\ state[t] = "pending"
    /\ Expired(t, at)
    /\ terminalizeExpiredTx(t, "confirmation_expired")
    /\ UNCHANGED <<reservationVars, current>>

\* SweepExpired ends each candidate in a transaction of its own.
sweepExpiredConfirmation(t, at) ==
    /\ Open(t)
    /\ Expired(t, at)
    /\ terminalizeExpiredTx(t, "confirmation_expired")
    /\ UNCHANGED <<reservationVars, current>>

\* Mutant: the target is given free while the side effect may still happen.
ReleaseReservationEarly(t) ==
    /\ state[t] = "consumed"
    /\ t \in active
    /\ active' = active \ {t}
    /\ consumed_released' = consumed_released \cup {t}
    /\ UNCHANGED <<storeVars, state, expires_at, binding, reservation, current>>

\* A terminal task gives its target free.
ReleaseReservation(t) ==
    /\ state[t] = "consumed"
    /\ t \in active
    /\ status[t] \in Terminal
    /\ active' = active \ {t}
    /\ consumed_released' = consumed_released \cup {t}
    /\ UNCHANGED <<storeVars, state, expires_at, binding, reservation, current>>

UpsertCurrentTargetBinding(x) ==
    /\ current[x] < MaxBinding
    /\ current' = [current EXCEPT ![x] = @ + 1]
    /\ UNCHANGED <<storeVars, state, expires_at, binding, reservationVars>>

-----------------------------------------------------------------------------
(* The queue beside it *)

\* A cancellation or a timeout, found by a claim or by the executor.
CanceledOrTimedOut(t) ==
    /\ status[t] \notin Terminal
    /\ \/ status'[t] = "canceled"
       \/ status'[t] = "failed" /\ failure_code'[t] = "task_timed_out"

\* Mutant: only pending confirmations are ended.
terminalizeConfirmationForTaskPending ==
    /\ state' = [t \in Tasks |-> IF CanceledOrTimedOut(t) /\ state[t] = "pending"
                                 THEN "expired" ELSE state[t]]
    /\ UNCHANGED <<expires_at, binding, reservationVars, current>>

\* CancelTask, TimeoutTask and the overdue branch of ClaimNextDue end the
\* confirmation of their task in their own transaction; a consumed one stays,
\* for the side effect may have happened.
terminalizeConfirmationForTask ==
    /\ state' = [t \in Tasks |-> IF CanceledOrTimedOut(t) /\ Open(t)
                                 THEN "expired" ELSE state[t]]
    /\ UNCHANGED <<expires_at, binding, reservationVars, current>>

ConfInit ==
    /\ StoreInit
    /\ state = [t \in Tasks |-> "none"]
    /\ expires_at = [t \in Tasks |-> 0]
    /\ binding = [t \in Tasks |-> 0]
    /\ consumed_released = {}
    /\ reservation = [t \in Tasks |-> [attempt |-> 0, epoch |-> 0, revision |-> 0]]
    /\ active = {}
    /\ current = [x \in Targets |-> 0]

ConfirmationNext ==
    \/ \E t \in Tasks, at \in Clock :
         \/ \E ttl \in 1..ConfirmTTL : Request(t, at, at + ttl)
         \/ Confirm(t, at) \/ Reject(t, at) \/ sweepExpiredConfirmation(t, at)
    \/ \E f \in CurrentFences, at \in Clock : Consume(f, at)
    \/ \E t \in Tasks, code \in {"confirmation_expired", "confirmation_stale"} : Expire(t, code)
    \/ \E t \in Tasks : ReleaseReservation(t)
    \/ \E x \in Targets : UpsertCurrentTargetBinding(x)

ConfNext ==
    \/ StoreNext /\ terminalizeConfirmationForTask
    \/ ConfirmationNext

ConfSpec == ConfInit /\ [][ConfNext]_<<storeVars, confVars>>

\* The service sweeps in a loop of its own, whatever owners and executors do.
Sweeper ==
    /\ WF_<<storeVars, confVars>>(Tick /\ terminalizeConfirmationForTask)
    /\ \A t \in Tasks : WF_<<storeVars, confVars>>(sweepExpiredConfirmation(t, now))

ConfFairSpec == ConfSpec /\ Sweeper

-----------------------------------------------------------------------------
(* Properties *)

\* The store and the confirmations have their types.
ConfTypeOK ==
    /\ StoreTypeOK
    /\ state \in [Tasks -> State]
    /\ expires_at \in [Tasks -> Nat]
    /\ binding \in [Tasks -> Nat]
    /\ consumed_released \subseteq Tasks
    /\ reservation \in [Tasks -> Reservation]
    /\ active \subseteq Tasks
    /\ current \in [Targets -> Nat]

\* A target never has two confirmations that could lead to a side effect, so
\* two consents cannot race for it: not even while the task of one is ended by
\* a cancel, a timeout or the sweeper and the other is requested.
OneLivePerTarget ==
    \A t, u \in Tasks : Live(t) /\ Live(u) /\ Target[t] = Target[u] => t = u

\* A consent that was refused or ran out never leaves work behind that could
\* still run, and a task that was canceled or timed out leaves no consent that
\* could still be given or used.
SettledTogether ==
    \A t \in Tasks :
      /\ state[t] \in {"rejected", "expired"} => status[t] \in Terminal
      /\ status[t] = "canceled" \/ failure_code[t] = "task_timed_out" => ~Open(t)

\* A reservation is held exactly for a consumed confirmation that still reserves
\* its target, by a lease the task really had, and at least until the task ends:
\* no second consent for the target meets a side effect under way.
ReservationExact ==
    \A t \in Tasks :
      /\ t \in active <=> (state[t] = "consumed" /\ t \notin consumed_released)
      /\ t \in active =>
           /\ reservation[t].epoch \in 1..lease_epoch[t]
           /\ reservation[t].revision <= revision[t]
      /\ state[t] = "consumed" /\ status[t] \notin Terminal => t \in active

\* Types, and the reservations of targets are exact (Consume, ReleaseReservation
\* and the ends of tasks).
ConfInv == ConfTypeOK /\ ReservationExact

\* No task waits for ever on an owner who does not answer, nor keeps a consent
\* it never uses: the sweeper ends every consent that runs out unused.
ConsentRunsOut ==
    \A t \in Tasks : (Open(t) /\ expires_at[t] <= MaxTime) ~> ~Open(t)

=============================================================================
