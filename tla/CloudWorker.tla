---------------------------- MODULE CloudWorker ----------------------------
(***************************************************************************)
(* The database's side of a Cloud Worker execution: the offer that parks a *)
(* conversation turn, its task, confirmation, reservation and execution    *)
(* row, the handler that runs it (sshflow.Handler over SSHWorkerStore) and *)
(* every way the owner can stop it.  What the handler's executor does with *)
(* the Worker is in SSHWorker; the life of the turn between two offers is  *)
(* in ConversationTurn and the queue's order and clocks are in CoreTask.   *)
(*                                                                         *)
(* Each transaction is one step.  The deadline of a lease is abstracted to *)
(* whether it has passed; the attempt of a task that is never retried is   *)
(* constant and left out of the fences.                                    *)
(***************************************************************************)
EXTENDS Integers, FiniteSets

CONSTANTS CWRuns,       \* executions, each with its plan, task and confirmation
          CWReuse,      \* those that use an existing Worker: no owner is asked
          CWHandlers,   \* goroutines of the pool
          CWClaims,     \* bound: claims of one task
          CWReports     \* bound: progress reports of one run of the handler

ASSUME CloudWorkerAssumption ==
    /\ CWReuse \subseteq CWRuns
    /\ IsFiniteSet(CWRuns)
    /\ CWClaims \in Nat /\ CWReports \in Nat

VARIABLES
    cwtask,     \* core_tasks: [status, epoch, rev, leased]
    cwconf,     \* core_confirmations: [state, rev, released]
    cwres,      \* core_confirmation_reservations: [active, epoch, rev]
    cwexec,     \* core_cloud_worker_executions: [state, rev]
    cwturn,     \* core_conversation_turns.state
    cwdeleted,  \* the conversation is deleted
    cwslots,    \* running_count
    answered,   \* how many results of an execution the turn was given
    cwhand      \* the handlers: [pc, run, epoch, rev, erev, proof, reports]

cwRows == <<cwtask, cwconf, cwres, cwexec, cwturn, cwdeleted, cwslots, answered>>
cwVars == <<cwRows, cwhand>>

NoHand == [pc |-> "idle", run |-> 0, epoch |-> 0, rev |-> 0, erev |-> 0, proof |-> 0, reports |-> 0]

CWInit ==
    /\ cwtask = [e \in CWRuns |-> [status |-> "none", epoch |-> 0, rev |-> 1, leased |-> FALSE]]
    /\ cwconf = [e \in CWRuns |-> [state |-> "none", rev |-> 1, released |-> FALSE]]
    /\ cwres = [e \in CWRuns |-> [active |-> FALSE, epoch |-> 0, rev |-> 0]]
    /\ cwexec = [e \in CWRuns |-> [state |-> "none", rev |-> 1]]
    /\ cwturn = "running" /\ cwdeleted = FALSE /\ cwslots = 0
    /\ answered = [e \in CWRuns |-> 0]
    /\ cwhand = [h \in CWHandlers |-> NoHand]

LiveTask == {"waiting_user", "queued", "running"}
LiveRun == {"waiting_user", "queued", "provisioning", "running"}
EndedTurn == {"completed", "canceled", "failed"}

(* canTransition, without "cleaning", which nothing enters.                *)
CanTransition(from, to) ==
    \/ from = "waiting_user" /\ to \in {"queued", "rejected", "expired", "canceled"}
    \/ from = "queued" /\ to \in {"provisioning", "expired", "canceled"}
    \/ from = "provisioning" /\ to \in {"running", "succeeded", "failed", "canceled"}
    \/ from = "running" /\ to \in {"succeeded", "failed", "canceled"}

(* saveCloudWorkerExecutionTx: the change is logged on the turn, which     *)
(* refuses it when it is over.                                             *)
SaveExecution(e, s) ==
    /\ CanTransition(cwexec[e].state, s) /\ cwturn \notin EndedTurn
    /\ cwexec' = [cwexec EXCEPT ![e] = [state |-> s, rev |-> @.rev + 1]]

TaskBecomes(e, s) ==
    cwtask' = [cwtask EXCEPT ![e].status = s, ![e].rev = @ + 1, ![e].leased = FALSE]

ConfBecomes(e, s) == cwconf' = [cwconf EXCEPT ![e].state = s, ![e].rev = @ + 1]

(* terminalizeCloudWorkerTurnTx: the turn of a deleted conversation stays. *)
EndTurn(s) ==
    /\ cwturn = "waiting"
    /\ cwturn' = IF cwdeleted THEN cwturn ELSE s
-----------------------------------------------------------------------------
(* The turn.                                                               *)

(* CreateOffer: the model's call parks its turn.                           *)
CreateOffer(e) ==
    LET asks == e \notin CWReuse IN
      /\ cwexec[e].state = "none" /\ cwturn = "running" /\ ~cwdeleted
      /\ cwtask' = [cwtask EXCEPT ![e].status = IF asks THEN "waiting_user" ELSE "queued"]
      /\ cwconf' = [cwconf EXCEPT ![e].state = IF asks THEN "pending" ELSE "confirmed"]
      /\ cwexec' = [cwexec EXCEPT ![e].state = IF asks THEN "waiting_user" ELSE "queued"]
      /\ cwturn' = "waiting"
      /\ UNCHANGED <<cwres, cwdeleted, cwslots, answered, cwhand>>

(* A turn that got its result goes on, and may end by itself or by a stop. *)
TurnGoesOn ==
    /\ \/ cwturn = "accepted" /\ cwturn' \in {"running", "canceled"}
       \/ cwturn = "running" /\ cwturn' \in EndedTurn
    /\ UNCHANGED <<cwtask, cwconf, cwres, cwexec, cwdeleted, cwslots, answered, cwhand>>

DeleteConversation ==
    /\ ~cwdeleted /\ cwdeleted' = TRUE
    /\ UNCHANGED <<cwtask, cwconf, cwres, cwexec, cwturn, cwslots, answered, cwhand>>
-----------------------------------------------------------------------------
(* The owner's answer, through projectCloudWorkerConfirmationTx.           *)

ConfirmOffer(e) ==
    /\ cwconf[e].state = "pending" /\ cwtask[e].status = "waiting_user"
    /\ TaskBecomes(e, "queued") /\ ConfBecomes(e, "confirmed") /\ SaveExecution(e, "queued")
    /\ UNCHANGED <<cwres, cwturn, cwdeleted, cwslots, answered, cwhand>>

RejectOffer(e) ==
    /\ cwconf[e].state = "pending" /\ cwtask[e].status = "waiting_user"
    /\ TaskBecomes(e, "canceled") /\ ConfBecomes(e, "rejected") /\ SaveExecution(e, "rejected")
    /\ EndTurn("canceled")
    /\ UNCHANGED <<cwres, cwdeleted, cwslots, answered, cwhand>>

(* An expiry that forgets the turn.                                        *)
ExpireKeepingTurn(e) ==
    /\ cwconf[e].state \in {"pending", "confirmed"}
    /\ cwslots' = IF cwtask[e].status = "running" THEN cwslots - 1 ELSE cwslots
    /\ IF cwtask[e].status \in LiveTask THEN TaskBecomes(e, "failed") ELSE UNCHANGED cwtask
    /\ ConfBecomes(e, "expired") /\ SaveExecution(e, "expired")
    /\ UNCHANGED <<cwres, cwturn, cwdeleted, answered, cwhand>>

(* The quote's time passes before the consent is used, or its binding is   *)
(* found stale (terminalizeExpiredTx).                                     *)
ExpireOffer(e) ==
    /\ cwconf[e].state \in {"pending", "confirmed"}
    /\ cwslots' = IF cwtask[e].status = "running" THEN cwslots - 1 ELSE cwslots
    /\ IF cwtask[e].status \in LiveTask THEN TaskBecomes(e, "failed") ELSE UNCHANGED cwtask
    /\ ConfBecomes(e, "expired") /\ SaveExecution(e, "expired") /\ EndTurn("failed")
    /\ UNCHANGED <<cwres, cwdeleted, answered, cwhand>>
-----------------------------------------------------------------------------
(* Stopping an execution.                                                  *)

(* The guards of cancelCloudWorkerExecutionTx, and its effect on the rows  *)
(* of the executions in runs.                                              *)
Cancelable(e) ==
    /\ cwexec[e].state \in LiveRun /\ cwtask[e].status \in LiveTask
    /\ cwconf[e].state \in {"pending", "confirmed", "consumed"}
    /\ cwconf[e].state = "consumed" => cwres[e].active /\ ~cwconf[e].released
    /\ cwturn = "waiting"

CancelExecutions(runs) ==
    LET used(e) == cwconf[e].state = "consumed"
        held == {e \in runs : cwtask[e].status = "running"} IN
      /\ \A e \in runs : Cancelable(e)
      /\ cwtask' = [e \in CWRuns |-> IF e \in runs THEN
            [cwtask[e] EXCEPT !.status = "canceled", !.rev = @ + 1, !.leased = FALSE,
                              !.epoch = IF e \in held THEN @ + 1 ELSE @] ELSE cwtask[e]]
      /\ cwconf' = [e \in CWRuns |-> IF e \in runs THEN
            [state |-> IF used(e) THEN "consumed" ELSE "expired",
             rev |-> cwconf[e].rev + 1, released |-> used(e)] ELSE cwconf[e]]
      /\ cwres' = [e \in CWRuns |-> [cwres[e] EXCEPT !.active = @ /\ e \notin runs]]
      /\ cwexec' = [e \in CWRuns |-> IF e \in runs
            THEN [state |-> "canceled", rev |-> cwexec[e].rev + 1] ELSE cwexec[e]]
      /\ cwslots' = cwslots - Cardinality(held)
      /\ runs # {} => EndTurn("canceled")
      /\ UNCHANGED <<cwdeleted, answered, cwhand>>

(* RequestCancel: only before the execution is dispatched.                 *)
RequestCancel(e) ==
    /\ cwexec[e].state \in {"waiting_user", "queued"}
    /\ cwtask[e].status \in {"waiting_user", "queued"}
    /\ cwconf[e].state \in {"pending", "confirmed"}
    /\ CancelExecutions({e})

(* RequestTurnCancel of a parked turn: the execution that is not over.  It *)
(* is undone when the turn does not end with it.                           *)
StopTurn(e) ==
    /\ cwturn = "waiting" /\ cwexec[e].state \in LiveRun
    /\ CancelExecutions({e}) /\ cwturn' = "canceled"

(* StopWorkerExecutions: the Worker is being destroyed, so every execution *)
(* that is bound to it ends, or none.  All of them are here.               *)
StopWorkerExecutions ==
    LET runs == {e \in CWRuns : cwtask[e].status \in LiveTask} IN
      /\ runs # {}
      /\ CancelExecutions(runs)

(* CoreTaskStore.CancelTask knows the task and its open confirmation only. *)
CancelCloudTask(e) ==
    LET held == cwtask[e].status = "running" IN
      /\ cwtask[e].status \in LiveTask
      /\ cwtask' = [cwtask EXCEPT ![e] = [status |-> "canceled", rev |-> @.rev + 1, leased |-> FALSE,
                                          epoch |-> IF held THEN @.epoch + 1 ELSE @.epoch]]
      /\ cwslots' = IF held THEN cwslots - 1 ELSE cwslots
      /\ IF cwconf[e].state \in {"pending", "confirmed"} THEN ConfBecomes(e, "expired")
                                                          ELSE UNCHANGED cwconf
      /\ UNCHANGED <<cwres, cwexec, cwturn, cwdeleted, answered, cwhand>>
-----------------------------------------------------------------------------
(* The pool and the handler.                                               *)

(* ClaimNextDue of a lease that ran out: the reservation moves to the new  *)
(* lease, and must be the old one's to the revision.                       *)
Rebind(e) ==
    /\ cwres[e] = [active |-> TRUE, epoch |-> cwtask[e].epoch, rev |-> cwtask[e].rev]
    /\ cwconf[e].state = "consumed" /\ ~cwconf[e].released
    /\ cwres' = [cwres EXCEPT ![e].epoch = @ + 1, ![e].rev = @ + 1]

(* beginExecutionTx: the first claim uses the consent and starts the       *)
(* execution in one transaction.                                           *)
BeginExecution(e) ==
    /\ cwconf[e].state = "confirmed" /\ cwexec[e].state = "queued"
    /\ ConfBecomes(e, "consumed") /\ SaveExecution(e, "provisioning")
    /\ cwres' = [cwres EXCEPT ![e] = [active |-> TRUE, epoch |-> cwtask[e].epoch + 1,
                                      rev |-> cwtask[e].rev + 1]]

Reclaimable(e) == cwtask[e].status = "running" /\ ~cwtask[e].leased

ClaimCloudTask(e, h) ==
    /\ cwhand[h].pc = "idle" /\ cwtask[e].epoch < CWClaims
    /\ \/ /\ cwtask[e].status = "queued" /\ BeginExecution(e)
          /\ cwslots' = cwslots + 1
       \/ /\ Reclaimable(e) /\ Rebind(e)
          /\ UNCHANGED <<cwconf, cwexec, cwslots>>
    /\ cwtask' = [cwtask EXCEPT ![e] = [status |-> "running", leased |-> TRUE,
                                        epoch |-> @.epoch + 1, rev |-> @.rev + 1]]
    /\ cwhand' = [cwhand EXCEPT ![h] = [NoHand EXCEPT !.pc = "claimed", !.run = e,
                    !.epoch = cwtask'[e].epoch, !.rev = cwtask'[e].rev]]
    /\ UNCHANGED <<cwturn, cwdeleted, answered>>

(* validateSSHWorkerTaskFence                                              *)
Fenced(h) ==
    LET t == cwtask[cwhand[h].run] IN
      t = [status |-> "running", leased |-> TRUE, epoch |-> cwhand[h].epoch, rev |-> cwhand[h].rev]

HandGoes(h, pc) == cwhand' = [cwhand EXCEPT ![h].pc = pc]
HandReturns(h) == cwhand' = [cwhand EXCEPT ![h] = NoHand]

(* Begin.                                                                  *)
Authorized(h) ==
    LET e == cwhand[h].run IN
      /\ Fenced(h) /\ cwconf[e].state = "consumed" /\ cwexec[e].state \in {"provisioning", "running"}
      /\ cwres[e].active /\ cwres[e].epoch = cwhand[h].epoch /\ cwturn = "waiting"

BeginRun(h) ==
    LET e == cwhand[h].run IN
      /\ cwhand[h].pc = "claimed" /\ Authorized(h)
      /\ IF cwexec[e].state = "provisioning" THEN SaveExecution(e, "running") ELSE UNCHANGED cwexec
      /\ \/ cwhand' = [cwhand EXCEPT ![h].pc = "begun", ![h].erev = cwexec'[e].rev,
                                     ![h].proof = cwconf[e].rev]
         \/ HandReturns(h)
      /\ UNCHANGED <<cwtask, cwconf, cwres, cwturn, cwdeleted, cwslots, answered>>

(* Progress: the reservation follows the task's revision.                  *)
ProgressWrites(h) ==
    LET e == cwhand[h].run IN
      /\ Fenced(h) /\ cwturn = "waiting"
      /\ cwres[e] = [active |-> TRUE, epoch |-> cwhand[h].epoch, rev |-> cwhand[h].rev]
      /\ cwtask' = [cwtask EXCEPT ![e].rev = @ + 1]
      /\ cwres' = [cwres EXCEPT ![e].rev = @ + 1]
      /\ UNCHANGED <<cwconf, cwexec, cwturn, cwdeleted, cwslots, answered>>

(* A report while the handler runs: it knows the new revision, or it is    *)
(* told of an error and does not.                                          *)
Report(h) ==
    /\ cwhand[h].pc \in {"begun", "working"} /\ cwhand[h].reports < CWReports
    /\ ProgressWrites(h)
    /\ \/ cwhand' = [cwhand EXCEPT ![h].pc = "working", ![h].rev = @ + 1, ![h].reports = @ + 1]
       \/ HandGoes(h, "fail")

ReportFails(h) ==
    /\ cwhand[h].pc \in {"begun", "working"} /\ HandGoes(h, "fail") /\ UNCHANGED cwRows

(* Execute returns.                                                        *)
ExecutorReturns(h) ==
    /\ cwhand[h].pc = "working"
    /\ \E pc \in {"complete", "fail", "unsure"} : HandGoes(h, pc)
    /\ UNCHANGED cwRows

(* The last report of a handler that leaves its task to the next claim.    *)
LastReport(h) ==
    /\ cwhand[h].pc \in {"unsure", "failing"} /\ HandReturns(h)
    /\ ProgressWrites(h) \/ UNCHANGED cwRows

(* A terminal write under the task's identity alone.                       *)
EndRunUnfenced(h, s) ==
    LET e == cwhand[h].run IN
      /\ cwtask[e].status = "running" /\ cwexec[e].rev = cwhand[h].erev
      /\ cwconf[e].state = "consumed" /\ cwres[e].active /\ cwturn = "waiting"
      /\ TaskBecomes(e, s) /\ SaveExecution(e, s)
      /\ cwconf' = [cwconf EXCEPT ![e].released = TRUE, ![e].rev = @ + 1]
      /\ cwres' = [cwres EXCEPT ![e].active = FALSE]
      /\ cwslots' = cwslots - 1 /\ cwturn' = "accepted"
      /\ answered' = [answered EXCEPT ![e] = @ + 1]
      /\ UNCHANGED cwdeleted

(* terminal: task, slot, reservation, confirmation, execution and turn.    *)
(* It also asks for a completed dispatch of the turn: the offer was a call *)
(* that dispatch answered with, and nothing dispatches a parked turn.      *)
EndRun(h, s) ==
    LET e == cwhand[h].run IN
      /\ Fenced(h) /\ cwexec[e].rev = cwhand[h].erev
      /\ cwconf[e].state = "consumed" /\ cwconf[e].rev = cwhand[h].proof /\ ~cwconf[e].released
      /\ cwres[e].active /\ cwturn = "waiting"
      /\ TaskBecomes(e, s) /\ SaveExecution(e, s)
      /\ cwconf' = [cwconf EXCEPT ![e].released = TRUE, ![e].rev = @ + 1]
      /\ cwres' = [cwres EXCEPT ![e].active = FALSE]
      /\ cwslots' = cwslots - 1 /\ cwturn' = "accepted"
      /\ answered' = [answered EXCEPT ![e] = @ + 1]
      /\ UNCHANGED cwdeleted

Complete(h) ==
    /\ cwhand[h].pc = "complete" /\ HandReturns(h)
    /\ EndRun(h, "succeeded") \/ UNCHANGED cwRows

(* handler.fail: an error, also of a write that took effect, is followed   *)
(* by one more report.                                                     *)
Fail(h) ==
    /\ cwhand[h].pc = "fail"
    /\ \/ EndRun(h, "failed") /\ (HandReturns(h) \/ HandGoes(h, "failing"))
       \/ HandGoes(h, "failing") /\ UNCHANGED cwRows

(* Begin fails, or the process stops.                                      *)
HandlerEnds(h) == cwhand[h].pc # "idle" /\ HandReturns(h) /\ UNCHANGED cwRows

(* The lease runs out, and a heartbeat that was delayed renews it still.   *)
LeaseRunsOut(e) ==
    /\ cwtask[e].leased
    /\ cwtask' = [cwtask EXCEPT ![e].leased = FALSE]
    /\ UNCHANGED <<cwconf, cwres, cwexec, cwturn, cwdeleted, cwslots, answered, cwhand>>

RenewLate(h) ==
    LET e == cwhand[h].run IN
      /\ cwhand[h].pc # "idle"
      /\ cwtask[e].status = "running" /\ cwtask[e].epoch = cwhand[h].epoch /\ ~cwtask[e].leased
      /\ cwtask' = [cwtask EXCEPT ![e].leased = TRUE]
      /\ UNCHANGED <<cwconf, cwres, cwexec, cwturn, cwdeleted, cwslots, answered, cwhand>>

CWNext ==
    \/ \E e \in CWRuns :
          \/ CreateOffer(e) \/ ConfirmOffer(e) \/ RejectOffer(e) \/ ExpireOffer(e)
          \/ RequestCancel(e) \/ StopTurn(e) \/ CancelCloudTask(e) \/ LeaseRunsOut(e)
          \/ \E h \in CWHandlers : ClaimCloudTask(e, h)
    \/ \E h \in CWHandlers :
          \/ BeginRun(h) \/ Report(h) \/ ReportFails(h) \/ ExecutorReturns(h) \/ LastReport(h)
          \/ Complete(h) \/ Fail(h) \/ HandlerEnds(h) \/ RenewLate(h)
    \/ TurnGoesOn \/ DeleteConversation \/ StopWorkerExecutions

CWSpec == CWInit /\ [][CWNext]_cwVars
-----------------------------------------------------------------------------
CWTypeOK ==
    /\ cwtask \in [CWRuns -> [status : LiveTask \cup {"none", "succeeded", "failed", "canceled"},
                              epoch : Nat, rev : Nat, leased : BOOLEAN]]
    /\ cwconf \in [CWRuns -> [state : {"none", "pending", "confirmed", "consumed", "rejected", "expired"},
                              rev : Nat, released : BOOLEAN]]
    /\ cwexec \in [CWRuns -> [state : LiveRun \cup {"none", "succeeded", "failed", "canceled",
                                                    "rejected", "expired"}, rev : Nat]]
    /\ cwturn \in EndedTurn \cup {"running", "waiting", "accepted"}

(* While a task is live its confirmation, reservation, execution and turn  *)
(* are where every operation expects them: a claim can start or rebind it, *)
(* whatever reports of earlier handlers were lost, and every stop is       *)
(* accepted.  A claim that is refused would fail for all tasks behind it   *)
(* (ClaimNextDue).                                                         *)
LiveRunComplete ==
    \A e \in CWRuns :
        /\ cwtask[e].status = "waiting_user" =>
              cwconf[e].state = "pending" /\ cwexec[e].state = "waiting_user"
        /\ cwtask[e].status = "queued" =>
              cwconf[e].state = "confirmed" /\ cwexec[e].state = "queued"
        /\ cwtask[e].status = "running" =>
              /\ cwexec[e].state \in {"provisioning", "running"}
              /\ cwconf[e].state = "consumed" /\ ~cwconf[e].released
              /\ cwres[e] = [active |-> TRUE, epoch |-> cwtask[e].epoch, rev |-> cwtask[e].rev]
        /\ cwtask[e].status \in LiveTask => cwturn = "waiting"

CWSlotsExact == cwslots = Cardinality({e \in CWRuns : cwtask[e].status = "running"})

(* A parked turn waits for an execution that is not over, unless its       *)
(* conversation was deleted; and an execution that is not over has a live  *)
(* task, unless CancelTask took the task from under it.                    *)
Orphaned(e) == cwexec[e].state \in LiveRun /\ cwtask[e].status = "canceled"

ParkedTurnHasRun ==
    /\ cwturn = "waiting" => cwdeleted \/ \E e \in CWRuns : cwexec[e].state \in LiveRun
    /\ \A e \in CWRuns : cwexec[e].state \in LiveRun => cwtask[e].status \in LiveTask \/ Orphaned(e)
    /\ Cardinality({e \in CWRuns : cwexec[e].state \in LiveRun}) <= 1

(* The rows of an execution agree while it is live, the slot counter with  *)
(* them, and a parked turn is not left behind.                             *)
CloudWorkerInv == CWTypeOK /\ LiveRunComplete /\ CWSlotsExact /\ ParkedTurnHasRun

(* The turn is given the result of an execution once, by the handler of    *)
(* its last claim and by the execution's end; and an execution that ended  *)
(* stays as it ended: no late handler, report or stop changes its rows     *)
(* (SSHWorkerStore.terminal, cancelCloudWorkerExecutionTx).                *)
ResultGivenOnce ==
    [][\A e \in CWRuns :
         /\ answered'[e] # answered[e] =>
              /\ answered[e] = 0 /\ cwturn = "waiting" /\ cwturn' = "accepted"
              /\ cwexec[e].state \in LiveRun /\ cwexec'[e].state = cwtask'[e].status
              /\ \E h \in CWHandlers :
                    /\ cwhand'[h] # cwhand[h]
                    /\ cwhand[h].run = e /\ cwhand[h].epoch = cwtask[e].epoch
         /\ cwexec[e].state \notin LiveRun \cup {"none"} =>
              cwexec'[e] = cwexec[e] /\ cwtask'[e] = cwtask[e] /\ cwconf'[e] = cwconf[e]
      ]_cwVars
=============================================================================
