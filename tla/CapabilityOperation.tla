------------------------ MODULE CapabilityOperation ------------------------
(***************************************************************************)
(* The durable ledger of capability operations (operation.Manager behind   *)
(* Server.StartOperation) and the account's deprovisioning: the process    *)
(* local LifecycleFence, Service.Deprovision and the durable receipt of    *)
(* CoreDeprovisionStore.  One operation, Account, is deprovision_account;  *)
(* the others are ordinary mutations.                                      *)
(*                                                                         *)
(* An execution is one goroutine of executeAcceptedOperation; executions   *)
(* are numbered in the order they start.  A step is one transaction or one *)
(* critical section with the reads it rests on.  Everything else that      *)
(* mutates (worker pool, schedule loop, expiry loop, the RPC servers)      *)
(* enters the same fence and is one actor, "loops".  A transaction is      *)
(* either committed and answered or not committed.  Left out: event        *)
(* streams, redaction, and a second deprovisioning key.                    *)
(***************************************************************************)
EXTENDS Naturals, FiniteSets

CONSTANTS Ordinary, Account,
          MaxExecutions,   \* bound on executions
          Disturbances     \* [restarts, calls]: bounds on restarts of the process
                           \* and on cancels and reconciliations

ASSUME CapabilityAssumption ==
    /\ Account \notin Ordinary
    /\ MaxExecutions \in Nat
    /\ Disturbances \subseteq [restarts : Nat, calls : Nat]

VARIABLES
    opRow,     \* agent_capability_operations: the state by id, none without a row
    receipt,   \* agent_account_deprovisions: none, database_purged, failed, completed
    rows,      \* whether there are business rows in the database
    files,     \* whether there is anything of the account outside of it
    fence,     \* [readers, writer, sealed]; the writer is an execution or 0
    execs,     \* the executions: [op, pc, signalled, err]
    runtime,   \* Manager.runtime: the execution registered for an operation, or 0
    cancel,    \* one CancelOperation call: [pc, op, exec]
    reconcile, \* the operation a ReconcileOperation call has found uncertain
    ran,       \* how often the handler of an ordinary operation was invoked
    left       \* what is left of the bounds

capVars == <<opRow, receipt, rows, files, fence, execs, runtime, cancel, reconcile,
             ran, left>>

OpIds == Ordinary \cup {Account}
Executions == 1..MaxExecutions
NoExec == [op |-> Account, pc |-> "none", signalled |-> FALSE, err |-> "none"]
OverExec == [NoExec EXCEPT !.pc = "done"]
NoCancel == [pc |-> "idle", op |-> Account, exec |-> 0]
OpenFence == [readers |-> {}, writer |-> 0, sealed |-> FALSE]

CapInit ==
    /\ opRow = [o \in OpIds |-> "none"] /\ receipt = "none"
    /\ rows = FALSE /\ files = FALSE
    /\ fence = OpenFence
    /\ execs = [t \in Executions |-> NoExec]
    /\ runtime = [o \in OpIds |-> 0]
    /\ cancel = NoCancel /\ reconcile = {}
    /\ ran = [o \in Ordinary |-> 0]
    /\ left \in Disturbances
-----------------------------------------------------------------------------
(* The fence and those who may be its readers.                             *)

ByExec(t) == <<"execution", t>>
Canceler == <<"cancel", 0>>
Reconciler == <<"reconcile", 0>>
Loops == <<"loops", 0>>

\* Mutant: only a sealed account keeps readers out.
EnterWhilePurging(r) ==
    /\ ~fence.sealed
    /\ fence' = [fence EXCEPT !.readers = @ \cup {r}]

\* Enter waits while there is a writer and is refused once sealed.
Enter(r) ==
    /\ ~fence.sealed /\ fence.writer = 0
    /\ fence' = [fence EXCEPT !.readers = @ \cup {r}]

Leave(r) == fence' = [fence EXCEPT !.readers = @ \ {r}]

\* PurgeLease.Finish and PurgeLease.Abort
FinishPurge == fence' = [fence EXCEPT !.writer = 0, !.sealed = TRUE]
AbortPurge == fence' = [fence EXCEPT !.writer = 0]

(* checkAdmission: the service's CheckAdmission, which also asks the store. *)
(* The deprovisioning operation is exempt.                                 *)
Admissible(o) ==
    o # Account => ~fence.sealed /\ fence.writer = 0 /\ receipt = "none"
-----------------------------------------------------------------------------
(* The ledger.                                                             *)

\* terminal and Cancel: a compare-and-set; only a failure leaves uncertain.
Closable(o, state) ==
    opRow[o] \in {"pending", "running"}
                 \cup (IF state = "failed" THEN {"uncertain"} ELSE {})
CloseRow(o, state) ==
    opRow' = IF Closable(o, state) THEN [opRow EXCEPT ![o] = state] ELSE opRow

\* executeAcceptedOperation starts the next execution.
Spawn(o) ==
    \E t \in Executions :
        /\ execs[t].pc = "none" /\ \A u \in 1..(t - 1) : execs[u].pc # "none"
        /\ execs' = [execs EXCEPT ![t] = [NoExec EXCEPT !.op = o, !.pc = "started"]]

\* Mutant: a replay of an operation that is still pending starts it too.
(* StartOperation: a new operation is admitted and executed, a replay      *)
(* answers with the row it finds; a failed or uncertain deprovisioning is  *)
(* reopened (ReopenForReplay).                                             *)
StartOperation(o) ==
    /\ Admissible(o)
    /\ \/ opRow[o] = "none"
       \/ o = Account /\ opRow[o] \in {"failed", "uncertain"}
    /\ opRow' = [opRow EXCEPT ![o] = "pending"] /\ Spawn(o)
    /\ UNCHANGED <<receipt, rows, files, fence, runtime, cancel, reconcile, ran, left>>
-----------------------------------------------------------------------------
(* Execute.                                                                *)

\* The call's deadline has passed, the server is stopping, the account is not
\* admissible, or the wait for the fence ends without it.
ExecuteRefused(t) ==
    /\ execs[t].pc = "started"
    /\ CloseRow(execs[t].op, "failed")
    /\ execs' = [execs EXCEPT ![t] = OverExec]
    /\ UNCHANGED <<receipt, rows, files, fence, runtime, cancel, reconcile, ran, left>>

Registered(t) ==
    /\ runtime' = [runtime EXCEPT ![execs[t].op] = t]
    /\ execs' = [execs EXCEPT ![t].pc = "registered"]

\* The fence is entered and the runtime registered; the purge is not a reader.
Register(t) ==
    /\ execs[t].pc = "started"
    /\ IF execs[t].op = Account THEN UNCHANGED fence
                                ELSE Enter(ByExec(t))
    /\ Registered(t)
    /\ UNCHANGED <<opRow, receipt, rows, files, cancel, reconcile, ran, left>>

\* claimRunning, the look at an explicit cancel, and the call of the handler.
Claim(t) ==
    LET o == execs[t].op
        claimed == opRow[o] \in {"pending", "running"}
    IN  /\ execs[t].pc = "registered"
        /\ opRow' = IF claimed THEN [opRow EXCEPT ![o] = "running"] ELSE opRow
        /\ IF claimed /\ ~execs[t].signalled
           THEN /\ execs' = [execs EXCEPT ![t].pc = "handler"]
                /\ ran' = [x \in Ordinary |-> IF x = o THEN ran[x] + 1 ELSE ran[x]]
           ELSE /\ execs' = [execs EXCEPT ![t].pc = "ending",
                                          ![t].err = IF claimed THEN "canceled" ELSE "other"]
                /\ UNCHANGED ran
        /\ UNCHANGED <<receipt, rows, files, fence, runtime, cancel, reconcile, left>>

\* What Execute makes of the handler's answer; after an explicit cancel an
\* error leaves the row to Cancel.
Answer(t, outcome) ==
    /\ CASE outcome = "ok" -> CloseRow(execs[t].op, "completed")
         [] outcome # "ok" /\ execs[t].signalled -> UNCHANGED opRow
         [] outcome = "canceled" /\ ~execs[t].signalled -> CloseRow(execs[t].op, "uncertain")
         [] outcome = "CANCELLED" /\ ~execs[t].signalled -> CloseRow(execs[t].op, "cancelled")
         [] OTHER -> CloseRow(execs[t].op, outcome)
    /\ execs' = [execs EXCEPT ![t].pc = "ending",
                    ![t].err = CASE outcome = "ok" -> "none"
                                 [] outcome = "canceled" -> "canceled"
                                 [] OTHER -> "other"]

Outcomes == {"ok", "canceled", "CANCELLED", "uncertain", "failed"}

OrdinaryWrites(t) ==
    /\ execs[t].pc = "handler" /\ execs[t].op # Account
    /\ rows' = TRUE /\ files' = TRUE
    /\ UNCHANGED <<opRow, receipt, fence, execs, runtime, cancel, reconcile, ran, left>>

OrdinaryReturns(t, outcome) ==
    /\ execs[t].pc = "handler" /\ execs[t].op # Account
    /\ Answer(t, outcome)
    /\ UNCHANGED <<receipt, rows, files, fence, runtime, cancel, reconcile, ran, left>>

\* The execution's result on runtime.done, for a Cancel that waits for it.
Publish(t) ==
    cancel' = IF cancel.pc = "wait" /\ cancel.exec = t
              THEN [cancel EXCEPT !.pc = IF execs[t].err = "other" THEN "refused" ELSE "write"]
              ELSE cancel

\* The deferred calls: the result is published to Cancel, the runtime of the
\* operation is deleted and the fence released.
EndExecution(t) ==
    /\ execs[t].pc = "ending"
    /\ execs' = [execs EXCEPT ![t] = OverExec]
    /\ runtime' = [runtime EXCEPT ![execs[t].op] = 0]
    /\ Publish(t) /\ Leave(ByExec(t))
    /\ UNCHANGED <<opRow, receipt, rows, files, reconcile, ran, left>>
-----------------------------------------------------------------------------
(* Service.Deprovision, the handler of Account.                            *)

AccountExec(t, pc) == execs[t].op = Account /\ execs[t].pc = pc
PurgeFailures == {"canceled", "failed", "uncertain"}

\* The precondition fails, or the call ends while another purge is at work.
PurgeRefused(t, outcome) ==
    /\ AccountExec(t, "handler") /\ Answer(t, outcome)
    /\ UNCHANGED <<receipt, rows, files, fence, runtime, cancel, reconcile, ran, left>>

BeginPurge(t) ==
    /\ AccountExec(t, "handler") /\ fence.writer = 0
    /\ fence' = [fence EXCEPT !.writer = t]
    /\ execs' = [execs EXCEPT ![t].pc = "draining"]
    /\ UNCHANGED <<opRow, receipt, rows, files, runtime, cancel, reconcile, ran, left>>

\* The call is cancelled or its deadline passes before the readers are gone.
DrainEnds(t) ==
    /\ AccountExec(t, "draining") /\ fence.readers # {}
    /\ AbortPurge /\ Answer(t, "canceled")
    /\ UNCHANGED <<receipt, rows, files, runtime, cancel, reconcile, ran, left>>

\* The store's first transaction.
PurgeDatabase(t) ==
    /\ AccountExec(t, "draining") /\ fence.readers = {} /\ receipt # "completed"
    /\ receipt' = "database_purged" /\ rows' = FALSE
    /\ opRow' = [o \in OpIds |-> IF o = Account THEN opRow[o] ELSE "none"]
    /\ execs' = [execs EXCEPT ![t].pc = "external"]
    /\ UNCHANGED <<files, fence, runtime, cancel, reconcile, ran, left>>

PurgeReplayed(t) ==
    /\ AccountExec(t, "draining") /\ fence.readers = {} /\ receipt = "completed"
    /\ FinishPurge /\ Answer(t, "ok")
    /\ UNCHANGED <<receipt, rows, files, runtime, cancel, reconcile, ran, left>>

\* The precondition fails again or the transaction does.
PurgeDatabaseFails(t, outcome) ==
    /\ AccountExec(t, "draining") /\ fence.readers = {}
    /\ AbortPurge /\ Answer(t, outcome)
    /\ UNCHANGED <<receipt, rows, files, runtime, cancel, reconcile, ran, left>>

ExternalPurge(t) ==
    /\ AccountExec(t, "external")
    /\ files' = FALSE /\ receipt' = "completed"
    /\ FinishPurge /\ Answer(t, "ok")
    /\ UNCHANGED <<rows, runtime, cancel, reconcile, ran, left>>

\* The purge fails, before or after it has removed everything, or its end cannot
\* be recorded; the account is sealed all the same.
ExternalPurgeFails(t, outcome) ==
    /\ AccountExec(t, "external")
    /\ files' \in {files, FALSE} /\ receipt' \in {"database_purged", "failed"}
    /\ FinishPurge /\ Answer(t, outcome)
    /\ UNCHANGED <<rows, runtime, cancel, reconcile, ran, left>>
-----------------------------------------------------------------------------
(* CancelOperation and ReconcileOperation, which enter the fence.          *)

Call == left.calls > 0 /\ left' = [left EXCEPT !.calls = @ - 1]

\* Mutant: Cancel does not wait for the handler it has signalled.
\* Cancel signals the execution it finds registered, and waits for it.
CancelStart(o) ==
    /\ cancel.pc = "idle" /\ opRow[o] \in {"pending", "running"}
    /\ Enter(Canceler)
    /\ cancel' = [pc |-> IF runtime[o] = 0 THEN "write" ELSE "wait",
                  op |-> o, exec |-> runtime[o]]
    /\ execs' = IF runtime[o] = 0 THEN execs
                ELSE [execs EXCEPT ![runtime[o]].signalled = TRUE]
    /\ Call
    /\ UNCHANGED <<opRow, receipt, rows, files, runtime, reconcile, ran>>

\* The handler's own error, or the end of the caller's wait, ends the call.
CancelGivesUp ==
    /\ cancel.pc \in {"wait", "refused"} /\ cancel' = NoCancel
    /\ Leave(Canceler)
    /\ UNCHANGED <<opRow, receipt, rows, files, execs, runtime, reconcile, ran, left>>

CancelWrites ==
    /\ cancel.pc = "write" /\ cancel' = NoCancel
    /\ CloseRow(cancel.op, "cancelled") /\ Leave(Canceler)
    /\ UNCHANGED <<receipt, rows, files, execs, runtime, reconcile, ran, left>>

ReconcileReads(o) ==
    /\ reconcile = {} /\ opRow[o] = "uncertain"
    /\ Enter(Reconciler) /\ reconcile' = {o}
    /\ Call
    /\ UNCHANGED <<opRow, receipt, rows, files, execs, runtime, cancel, ran>>

ReconcileFails(o) ==
    /\ o \in reconcile /\ reconcile' = {}
    /\ CloseRow(o, "failed") /\ Leave(Reconciler)
    /\ UNCHANGED <<receipt, rows, files, execs, runtime, cancel, ran, left>>
-----------------------------------------------------------------------------
(* Everything else behind the fence, and the process.                      *)

LoopsEnter ==
    /\ Loops \notin fence.readers /\ Enter(Loops)
    /\ UNCHANGED <<opRow, receipt, rows, files, execs, runtime, cancel, reconcile, ran, left>>

LoopsWrite ==
    /\ Loops \in fence.readers
    /\ rows' = TRUE /\ files' = TRUE /\ Leave(Loops)
    /\ UNCHANGED <<opRow, receipt, execs, runtime, cancel, reconcile, ran, left>>

(* A crash and the start after it: RestoreFence, and Recover before the    *)
(* server is published.                                                    *)
Restart ==
    /\ left.restarts > 0 /\ left' = [left EXCEPT !.restarts = @ - 1]
    /\ fence' = [OpenFence EXCEPT !.sealed = receipt # "none"]
    /\ execs' = [t \in Executions |-> IF execs[t].pc = "none" THEN NoExec
                                      ELSE OverExec]
    /\ runtime' = [o \in OpIds |-> 0]
    /\ cancel' = NoCancel /\ reconcile' = {}
    /\ opRow' = [o \in OpIds |-> IF opRow[o] \in {"pending", "running"}
                                 THEN "uncertain" ELSE opRow[o]]
    /\ UNCHANGED <<receipt, rows, files, ran>>

ExecuteNext ==
    \E t \in Executions :
        \/ ExecuteRefused(t) \/ Register(t) \/ Claim(t) \/ OrdinaryWrites(t)
        \/ \E x \in Outcomes : OrdinaryReturns(t, x)
        \/ EndExecution(t)
PurgeNext ==
    \E t \in Executions :
        \/ BeginPurge(t) \/ DrainEnds(t) \/ PurgeDatabase(t) \/ PurgeReplayed(t)
        \/ ExternalPurge(t)
        \/ \E x \in PurgeFailures : \/ PurgeRefused(t, x) \/ PurgeDatabaseFails(t, x)
                                    \/ ExternalPurgeFails(t, x)
CallNext ==
    \/ \E o \in OpIds : StartOperation(o) \/ CancelStart(o) \/ ReconcileReads(o)
                        \/ ReconcileFails(o)
    \/ CancelGivesUp \/ CancelWrites
CapNext == ExecuteNext \/ PurgeNext \/ CallNext \/ LoopsEnter \/ LoopsWrite \/ Restart

CapSpec == CapInit /\ [][CapNext]_capVars
-----------------------------------------------------------------------------
(* Types, and the bookkeeping of what is in flight: a registered runtime   *)
(* is an execution of its operation that has not ended, the readers are    *)
(* the ones at work, a sealed process has a durable receipt.               *)
CapTypeOK ==
    /\ opRow \in [OpIds -> {"none", "pending", "running", "completed", "failed",
                            "cancelled", "uncertain"}]
    /\ receipt \in {"none", "database_purged", "failed", "completed"}
    /\ \A o \in OpIds : runtime[o] # 0 =>
            /\ execs[runtime[o]].op = o
            /\ execs[runtime[o]].pc \notin {"none", "started", "done"}
    /\ \A t \in Executions :
            ByExec(t) \in fence.readers <=>
                execs[t].op # Account /\ execs[t].pc \in {"registered", "handler", "ending"}
    /\ Canceler \in fence.readers <=> cancel # NoCancel
    /\ Reconciler \in fence.readers <=> reconcile # {}
    /\ fence.writer # 0 <=> \E t \in Executions : execs[t].pc \in {"draining", "external"}
    /\ fence.sealed => receipt # "none"

(* "a new mutation [cannot] recreate data": once the database is purged no *)
(* business row and no ordinary operation comes back, through a crash      *)
(* between the phases, a failed external purge and its replays; and the    *)
(* receipt says completed only when nothing is left outside either.        *)
PurgedStaysPurged ==
    /\ receipt # "none" => ~rows /\ \A o \in Ordinary : opRow[o] = "none"
    /\ receipt = "completed" => ~files

(* The handler of an ordinary operation is invoked at most once, whatever  *)
(* replays, cancels, reconciliations and restarts there are.               *)
HandlerRunsOnce == \A o \in Ordinary : ran[o] <= 1

(* A deprovisioning answered as completed has its durable receipt, also    *)
(* when an earlier execution of it is still ending.                        *)
AccountReceipt == opRow[Account] = "completed" => receipt = "completed"

(* A handler that was told to stop is not running any more when its        *)
(* operation is reported cancelled: Cancel waits for it, and a caller that *)
(* does not wait leaves the row alone.                                     *)
CancelledHandlerStopped ==
    \A t \in Executions :
        execs[t].op \in Ordinary /\ execs[t].pc = "handler" /\ execs[t].signalled
            => opRow[execs[t].op] # "cancelled"

(* The fence, the receipt and the operation rows agree on how far the      *)
(* purge of the account got, what is purged is not written again, and a    *)
(* handler runs once and not on under a cancelled row.                     *)
CapInv ==
    /\ CapTypeOK /\ PurgedStaysPurged /\ AccountReceipt
    /\ HandlerRunsOnce /\ CancelledHandlerStopped
============================================================================
