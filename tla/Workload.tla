----------------------------- MODULE Workload -----------------------------
(***************************************************************************)
(* Workload operations: each is a row of core_workload_operations with its *)
(* task and its confirmation, run by an executor of the worker pool        *)
(* (executeWorkload, Handler.Handle, Handler.Recover) that presents the    *)
(* task lease it was given as a fence.  All operations are of one workload *)
(* and one plan.  The provider is what Apply, Destroy and Read reach.      *)
(*                                                                         *)
(* Time is three flags that may run out at any moment: the task's lease,   *)
(* the operation's dispatch lease, and the fence an executor was given,    *)
(* whose ExpiresAt no heartbeat moves.  A claim is fresh at every consume  *)
(* and recovery, one per lease epoch, so the epoch stands for it.  The     *)
(* methods without a fence have no caller outside the tests and are left   *)
(* out.                                                                    *)
(***************************************************************************)
EXTENDS Integers, FiniteSets

CONSTANTS WOps, WNone, WExecutors,
          WKind,      \* "apply" or "destroy", by operation
          WMaxClaims  \* bound on the claims of each task

ASSUME WorkloadAssumption ==
    /\ WNone \notin WOps
    /\ WKind \in [WOps -> {"apply", "destroy"}]
    /\ WMaxClaims \in [WOps -> Nat]

VARIABLES
    wop,        \* the operation: [status, dispatch, epoch, live]
    wtask,      \* its task: [status, epoch, live, slot]
    wconf,      \* its confirmation: [state, released]
    wrow,       \* state of the workload's row, "none" before the first
    wexec,      \* executors: [pc, op, epoch, fresh, seen]
    actual,     \* what the provider has
    mutations,  \* calls of Apply or Destroy, by operation
    decided     \* epoch of the claim that decided the operation, 0 before

workloadVars == <<wop, wtask, wconf, wrow, wexec, actual, mutations, decided>>

WIdle == [pc |-> "idle", op |-> WNone, epoch |-> 0, fresh |-> FALSE, seen |-> ""]
WTerminal == {"succeeded", "failed", "rejected", "expired", "canceled", "uncertain"}
WDesired(o) == IF WKind[o] = "apply" THEN "ready" ELSE "destroyed"

(* A workload that does not exist yet, or one an earlier operation applied.*)
WorkloadInit ==
    /\ wop = [o \in WOps |-> [status |-> "none", dispatch |-> "", epoch |-> 0, live |-> FALSE]]
    /\ wtask = [o \in WOps |-> [status |-> "none", epoch |-> 0, live |-> FALSE, slot |-> FALSE]]
    /\ wconf = [o \in WOps |-> [state |-> "none", released |-> FALSE]]
    /\ wrow \in {"none", "ready"} /\ actual = wrow
    /\ wexec = [x \in WExecutors |-> WIdle]
    /\ mutations = [o \in WOps |-> 0] /\ decided = [o \in WOps |-> 0]

(* The operations the unique index on live confirmations counts.           *)
WLive(o) ==
    \/ wconf[o].state \in {"pending", "confirmed"}
    \/ wconf[o].state = "consumed" /\ ~wconf[o].released
-----------------------------------------------------------------------------
(* The owner's calls.                                                      *)

RequestOperation(o) ==
    /\ wop[o].status = "none"
    /\ wrow \in IF WKind[o] = "apply" THEN {"none", "destroyed", "ready", "failed"} ELSE {"ready"}
    /\ \A p \in WOps : WLive(p) => WKind[p] # WKind[o]
    /\ wop' = [wop EXCEPT ![o].status = "waiting_user", ![o].dispatch = "prepared"]
    /\ wtask' = [wtask EXCEPT ![o].status = "waiting_user"]
    /\ wconf' = [wconf EXCEPT ![o].state = "pending"]
    /\ UNCHANGED <<wrow, wexec, actual, mutations, decided>>

(* Confirm leaves the task of a workload where it is.                      *)
ConfirmWorkload(o) ==
    /\ wconf[o].state = "pending" /\ wtask[o].status = "waiting_user"
    /\ wconf' = [wconf EXCEPT ![o].state = "confirmed"]
    /\ UNCHANGED <<wop, wtask, wrow, wexec, actual, mutations, decided>>

(* terminalizeWorkloadBeforeDispatchTx                                     *)
WEndBeforeDispatch(o, confirmation, operation, task) ==
    /\ wconf[o].state \in {"pending", "confirmed"}
    /\ wtask[o].status = "waiting_user"
    /\ wop[o].status = "waiting_user" /\ wop[o].dispatch = "prepared"
    /\ wconf' = [wconf EXCEPT ![o].state = confirmation]
    /\ wop' = [wop EXCEPT ![o].status = operation, ![o].dispatch = "terminal"]
    /\ wtask' = [wtask EXCEPT ![o].status = task, ![o].live = FALSE]
    /\ UNCHANGED <<wrow, wexec, actual, mutations, decided>>

RejectWorkload(o) ==
    wconf[o].state = "pending" /\ WEndBeforeDispatch(o, "rejected", "rejected", "canceled")

CancelOperation(o) == WEndBeforeDispatch(o, "rejected", "canceled", "canceled")

(* The sweep, or a Confirm that comes too late.                            *)
ExpireWorkload(o) == WEndBeforeDispatch(o, "expired", "expired", "failed")

(* terminalizeConfirmationForTaskTx: the end of a task that was never      *)
(* dispatched ends its confirmation and its operation.                     *)
WithTask(o) ==
    IF wconf[o].state \in {"pending", "confirmed"}
    THEN /\ wconf' = [wconf EXCEPT ![o].state = "expired"]
         /\ wop' = [wop EXCEPT ![o].status = IF @ = "waiting_user" THEN "canceled" ELSE @]
    ELSE UNCHANGED <<wconf, wop>>

(* CancelTask of a workload's task: a running one is refused.              *)
CancelWorkloadTask(o) ==
    /\ wtask[o].status \in {"waiting_user", "queued"}
    /\ wtask' = [wtask EXCEPT ![o].status = "canceled", ![o].live = FALSE]
    /\ WithTask(o)
    /\ UNCHANGED <<wrow, wexec, actual, mutations, decided>>

(* ResumeTask, the only way the task comes to the queue.                   *)
ResumeWorkloadTask(o) ==
    /\ wtask[o].status = "waiting_user"
    /\ wtask' = [wtask EXCEPT ![o].status = "queued"]
    /\ UNCHANGED <<wop, wconf, wrow, wexec, actual, mutations, decided>>
-----------------------------------------------------------------------------
(* The executor.                                                           *)

(* ClaimLease of a queued task, or of a running one whose lease ran out,   *)
(* which keeps the slot it has.                                            *)
ClaimWorkloadTask(x, o) ==
    /\ wexec[x].pc = "idle"
    /\ wtask[o].status = "queued" \/ (wtask[o].status = "running" /\ ~wtask[o].live)
    /\ wtask[o].epoch < WMaxClaims[o]
    /\ wtask' = [wtask EXCEPT ![o] = [status |-> "running", epoch |-> @.epoch + 1,
                                      live |-> TRUE, slot |-> TRUE]]
    /\ wexec' = [wexec EXCEPT ![x] = [pc |-> "start", op |-> o, epoch |-> wtask[o].epoch + 1,
                                      fresh |-> TRUE, seen |-> ""]]
    /\ UNCHANGED <<wop, wconf, wrow, actual, mutations, decided>>

(* The worker pool's fence, and the one the workload's store compares.     *)
PoolFence(x) ==
    LET o == wexec[x].op IN
      wtask[o].status = "running" /\ wtask[o].epoch = wexec[x].epoch /\ wtask[o].live

TaskFence(x) == wexec[x].fresh /\ PoolFence(x)

(* The claim of the operation by this executor.                            *)
WClaimHeld(x) ==
    LET o == wexec[x].op IN
      wop[o].status = "running" /\ wop[o].epoch = wexec[x].epoch /\ wop[o].live

WGoes(x, pc) == wexec' = [wexec EXCEPT ![x].pc = pc]

(* An error of Handle: executeWorkload leaves a terminal operation alone   *)
(* and gives any other one's task to the pool to fail.                     *)
WRefused(x) ==
    IF wop[wexec[x].op].status \in WTerminal
    THEN wexec' = [wexec EXCEPT ![x] = WIdle] ELSE WGoes(x, "failed")

(* Handle of an operation not yet dispatched: ConsumeFenced, which also    *)
(* refuses a confirmation whose time is over.                              *)
ConsumeFenced(x) ==
    LET o == wexec[x].op IN
    /\ wexec[x].pc = "start" /\ wop[o].status = "waiting_user"
    /\ \/ /\ TaskFence(x) /\ wconf[o].state = "confirmed"
          /\ wconf' = [wconf EXCEPT ![o].state = "consumed"]
          /\ wop' = [wop EXCEPT ![o] = [status |-> "running", dispatch |-> "dispatched",
                                        epoch |-> wexec[x].epoch, live |-> TRUE]]
          /\ WGoes(x, "call")
       \/ /\ WRefused(x)
          /\ UNCHANGED <<wconf, wop>>
    /\ UNCHANGED <<wtask, wrow, actual, mutations, decided>>

(* Handle of an operation that is over.                                    *)
HandleTerminal(x) ==
    /\ wexec[x].pc = "start" /\ wop[wexec[x].op].status \in WTerminal
    /\ wexec' = [wexec EXCEPT ![x] = WIdle]
    /\ UNCHANGED <<wop, wtask, wconf, wrow, actual, mutations, decided>>

(* Apply or Destroy, which may fail with or without an effect.             *)
CallProvider(x) ==
    LET o == wexec[x].op IN
    /\ wexec[x].pc = "call"
    /\ mutations' = [mutations EXCEPT ![o] = @ + 1]
    /\ actual' \in {actual, WDesired(o)}
    /\ WGoes(x, "called")
    /\ UNCHANGED <<wop, wtask, wconf, wrow, decided>>

(* RenewDispatchLeaseFenced, at the ticker and once after the call.        *)
RenewDispatchLeaseFenced(x) ==
    /\ wexec[x].pc = "called"
    /\ IF TaskFence(x) /\ WClaimHeld(x) THEN WGoes(x, "read") ELSE WRefused(x)
    /\ UNCHANGED <<wop, wtask, wconf, wrow, actual, mutations, decided>>

RecoverByRedispatch(x) ==
    LET o == wexec[x].op IN
    /\ wexec[x].pc = "start" /\ wop[o].status = "running"
    /\ TaskFence(x)
    /\ wop' = [wop EXCEPT ![o] = [@ EXCEPT !.dispatch = "uncertain", !.epoch = wexec[x].epoch,
                                           !.live = TRUE]]
    /\ WGoes(x, "call")
    /\ UNCHANGED <<wtask, wconf, wrow, actual, mutations, decided>>

(* Recover: a dispatched operation is claimed by its successor, which only *)
(* reads.  When the claim is refused Recover returns the operation as it   *)
(* is and the pool completes the task.                                     *)
RecoverClaimFenced(x) ==
    LET o == wexec[x].op IN
    /\ wexec[x].pc = "start" /\ wop[o].status = "running"
    /\ IF TaskFence(x)
       THEN /\ wop' = [wop EXCEPT ![o] = [@ EXCEPT !.dispatch = "uncertain",
                                                   !.epoch = wexec[x].epoch, !.live = TRUE]]
            /\ WGoes(x, "reread")
       ELSE WGoes(x, "done") /\ UNCHANGED wop
    /\ UNCHANGED <<wtask, wconf, wrow, actual, mutations, decided>>

ReadProvider(x) ==
    /\ wexec[x].pc \in {"read", "reread"}
    /\ \E seen \in {actual, "error"} :
         wexec' = [wexec EXCEPT ![x].pc = IF @ = "read" THEN "complete" ELSE "recomplete",
                                ![x].seen = seen]
    /\ UNCHANGED <<wop, wtask, wconf, wrow, actual, mutations, decided>>

WDecide(x) ==
    LET o == wexec[x].op
        outcome == IF wexec[x].seen = WDesired(o) THEN "succeeded" ELSE "uncertain" IN
    /\ wop' = [wop EXCEPT ![o].status = outcome, ![o].live = FALSE,
                          ![o].dispatch = IF outcome = "succeeded" THEN "terminal" ELSE "uncertain"]
    /\ wtask' = [wtask EXCEPT ![o].status = IF outcome = "succeeded" THEN "succeeded" ELSE "failed",
                              ![o].epoch = 0, ![o].live = FALSE]
    /\ wconf' = [wconf EXCEPT ![o].released = TRUE]
    /\ wrow' = IF outcome = "succeeded" THEN WDesired(o) ELSE "uncertain"
    /\ decided' = [decided EXCEPT ![o] = wexec[x].epoch]
    /\ wexec' = [wexec EXCEPT ![x] = WIdle]

(* completeDispatch under the fence: the operation, its task, the workload *)
(* and the confirmation end in one transaction; the slot of the task is    *)
(* not given back.  After a refusal Handle's task is the pool's to fail,   *)
(* Recover's is left to its lease.                                         *)
CompleteDispatchFenced(x) ==
    /\ wexec[x].pc \in {"complete", "recomplete"}
    /\ \/ /\ TaskFence(x) /\ WClaimHeld(x)
          /\ WDecide(x)
       \/ /\ ~(TaskFence(x) /\ WClaimHeld(x))
          /\ IF wexec[x].pc = "complete" THEN WRefused(x)
             ELSE wexec' = [wexec EXCEPT ![x] = WIdle]
          /\ UNCHANGED <<wop, wtask, wconf, wrow, decided>>
    /\ UNCHANGED <<actual, mutations>>

(* The pool's terminal write for what the handler did not end itself.      *)
PoolEndsWorkload(x) ==
    LET o == wexec[x].op IN
    /\ wexec[x].pc \in {"failed", "done"}
    /\ IF PoolFence(x)
       THEN /\ wtask' = [wtask EXCEPT ![o].live = FALSE, ![o].slot = FALSE,
                  ![o].status = IF wexec[x].pc = "done" THEN "succeeded" ELSE "failed"]
            /\ WithTask(o)
       ELSE UNCHANGED <<wtask, wconf, wop>>
    /\ wexec' = [wexec EXCEPT ![x] = WIdle]
    /\ UNCHANGED <<wrow, actual, mutations, decided>>

StopExecutor(x) ==
    /\ wexec[x].pc # "idle"
    /\ wexec' = [wexec EXCEPT ![x] = WIdle]
    /\ UNCHANGED <<wop, wtask, wconf, wrow, actual, mutations, decided>>

FenceRunsOut(x) ==
    /\ wexec[x].fresh
    /\ wexec' = [wexec EXCEPT ![x].fresh = FALSE]
    /\ UNCHANGED <<wop, wtask, wconf, wrow, actual, mutations, decided>>

TaskLeaseRunsOut(o) ==
    /\ wtask[o].live
    /\ wtask' = [wtask EXCEPT ![o].live = FALSE]
    /\ UNCHANGED <<wop, wconf, wrow, wexec, actual, mutations, decided>>

DispatchLeaseRunsOut(o) ==
    /\ wop[o].live
    /\ wop' = [wop EXCEPT ![o].live = FALSE]
    /\ UNCHANGED <<wtask, wconf, wrow, wexec, actual, mutations, decided>>

WorkloadNext ==
    \/ \E o \in WOps :
         \/ RequestOperation(o) \/ ConfirmWorkload(o) \/ RejectWorkload(o)
         \/ CancelOperation(o) \/ ExpireWorkload(o) \/ CancelWorkloadTask(o)
         \/ ResumeWorkloadTask(o) \/ TaskLeaseRunsOut(o) \/ DispatchLeaseRunsOut(o)
         \/ \E x \in WExecutors : ClaimWorkloadTask(x, o)
    \/ \E x \in WExecutors :
         \/ ConsumeFenced(x) \/ HandleTerminal(x) \/ CallProvider(x)
         \/ RenewDispatchLeaseFenced(x) \/ RecoverClaimFenced(x) \/ ReadProvider(x)
         \/ CompleteDispatchFenced(x) \/ PoolEndsWorkload(x) \/ StopExecutor(x)
         \/ FenceRunsOut(x)

WorkloadSpec == WorkloadInit /\ [][WorkloadNext]_workloadVars
-----------------------------------------------------------------------------
(* Type invariant.                                                         *)
WorkloadTypeOK ==
    /\ \A o \in WOps :
         /\ wop[o].status \in {"none", "waiting_user", "running"} \cup WTerminal
         /\ wtask[o].status \in {"none", "waiting_user", "queued", "running", "succeeded",
                                 "failed", "canceled"}
         /\ wtask[o].epoch \in 0..WMaxClaims[o]
         /\ wconf[o].state \in {"none", "pending", "confirmed", "rejected", "expired", "consumed"}
    /\ wrow \in {"none", "ready", "destroyed", "uncertain"}
    /\ \A x \in WExecutors : wexec[x].op = WNone <=> wexec[x].pc = "idle"

(* Apply or Destroy is called at most once for an operation, and only for  *)
(* a consumed consent: whatever executor stopped or lost its lease, a      *)
(* successor only reads (ConsumeFenced, RecoverClaimFenced).               *)
MutatedOnceWithConsent ==
    \A o \in WOps : mutations[o] <= IF wconf[o].state = "consumed" THEN 1 ELSE 0

(* Consent, operation and task stay one story: the consent is consumed     *)
(* exactly when the operation went to the provider, it is released exactly *)
(* when that operation is decided, and no operation is over while its task *)
(* could still run (completeDispatch, terminalizeConfirmationForTaskTx).   *)
WorkloadSettledTogether ==
    \A o \in WOps :
      /\ wconf[o].state = "consumed" <=> wop[o].status \in {"running", "succeeded", "uncertain"}
      /\ wconf[o].released <=> wop[o].status \in {"succeeded", "uncertain"}
      /\ wop[o].status \in WTerminal => wtask[o].status \in {"succeeded", "failed", "canceled"}

(* Only the latest claim of an operation decides it: an executor that lost *)
(* its lease never completes it with what it read (completeDispatch).      *)
LatestClaimDecides ==
    \A o \in WOps :
      /\ decided[o] # 0 => decided[o] = wop[o].epoch
      /\ decided[o] # 0 <=> wop[o].status \in {"succeeded", "uncertain"}

(* The provider is called once with consent; the operation, its consent,   *)
(* its task and the claim of the dispatch end together, and only the       *)
(* newest claim ends them.                                                 *)
WorkloadInv ==
    /\ WorkloadTypeOK /\ MutatedOnceWithConsent
    /\ WorkloadSettledTogether /\ LatestClaimDecides

(* The handler owns the operation's end: the pool never ends the task of   *)
(* an operation that is still running.  No run checks it: it is false of   *)
(* the code (see the README).                                              *)
RunningHasTask ==
    \A o \in WOps : wop[o].status = "running" => wtask[o].status = "running"

(* A task that is over holds no slot.  No run checks it: it is false of    *)
(* the code (see the README).                                              *)
WorkloadSlots == \A o \in WOps : wtask[o].slot <=> wtask[o].status = "running"
=============================================================================
