------------------------- MODULE ExtensionExecution -------------------------
(***************************************************************************)
(* Executing an installed extension with the owner's consent:              *)
(* internal/store/postgres/core_extension_execution.go, the handler of     *)
(* internal/coreextension/execution/execution.go, the enable switch and    *)
(* the owner's acknowledgement of an unknown outcome.                      *)
(*                                                                         *)
(* A request creates task, confirmation and current binding together.  The *)
(* handler runs inside an executor of WorkerPool: it consumes the consent  *)
(* into a reservation, calls the extension and ends the task itself.  The  *)
(* reservation is the fence of the side effect: only a lease that took it  *)
(* may call the extension, and no new request for the installation is      *)
(* accepted while it is held.                                              *)
(***************************************************************************)
EXTENDS WorkerPool, Confirmation

CONSTANT
    MaxToggles      \* bound of the switches of one installation

ASSUME TogglesAssumption == MaxToggles \in Nat

VARIABLES
    installation,   \* core_extension_installations.revision, per target
    enabled,        \* the installations that are switched on
    pinned,         \* task -> the ExpectedRevision its payload seals
    handler,        \* executor -> where its handler stands, and the outcome it has
    effects,        \* task -> the lease epochs under which the extension was called
    acknowledged,   \* the tasks whose unknown outcome the owner accepted
    faults          \* whether a call of the database may fail, or its reply be lost

extVars == <<installation, enabled, pinned, handler, effects, acknowledged>>
allVars == <<poolVars, confVars, extVars, faults>>

-----------------------------------------------------------------------------

Pc == {"idle", "get", "consume", "require", "uncertain", "lease", "invoke", "finish", "resolution"}
Handler == [pc : Pc, outcome : {"none", "succeeded", "task_error", "uncertain"}]
IdleHandler == [pc |-> "idle", outcome |-> "none"]

Goto(e, pc) == handler' = [handler EXCEPT ![e].pc = pc]

\* A handler acts until its renewer cancels its context.
At(e, pc) == exec[e].phase = "handler" /\ handler[e].pc = pc

InstallationFits(t) ==
    Target[t] \in enabled /\ installation[Target[t]] = pinned[t]

-----------------------------------------------------------------------------
(* Clients *)

\* The newest confirmation of the installation that was not refused.
Newest(x, u) ==
    LET granted == {v \in Tasks : Target[v] = x /\ state[v] \in {"pending", "confirmed", "consumed"}}
    IN u \in granted /\ \A v \in granted : binding[v] <= binding[u]

\* Mutant: a proposal that only waits for its owner does not stop another one.
RequestTaskUnlessConsumed(t) ==
    LET x == Target[t] IN
    /\ x \in enabled
    /\ \A u \in Tasks : Newest(x, u) /\ state[u] = "consumed" => u \in consumed_released
    /\ CreateTask(t, "waiting_user", now)
    /\ state' = [state EXCEPT ![t] = "pending"]
    /\ expires_at' = [expires_at EXCEPT ![t] = now + ConfirmTTL]
    /\ binding' = [binding EXCEPT ![t] = current[x] + 1]
    /\ current' = [current EXCEPT ![x] = @ + 1]
    /\ pinned' = [pinned EXCEPT ![t] = installation[x]]
    /\ UNCHANGED <<exec, claiming, reservationVars, installation, enabled, handler, effects,
                   acknowledged>>

\* Every request seals its own input, so it has a binding of its own.
RequestTask(t) ==
    LET x == Target[t] IN
    /\ x \in enabled
    /\ \A u \in Tasks : Newest(x, u) => state[u] = "consumed" /\ u \in consumed_released
    /\ CreateTask(t, "waiting_user", now)
    /\ state' = [state EXCEPT ![t] = "pending"]
    /\ expires_at' = [expires_at EXCEPT ![t] = now + ConfirmTTL]
    /\ binding' = [binding EXCEPT ![t] = current[x] + 1]
    /\ current' = [current EXCEPT ![x] = @ + 1]
    /\ pinned' = [pinned EXCEPT ![t] = installation[x]]
    /\ UNCHANGED <<exec, claiming, reservationVars, installation, enabled, handler, effects,
                   acknowledged>>

\* extensionExecutionBindingTx refuses a changed installation: the call fails
\* and leaves the confirmation as it was.
ConfirmExecution(t, at) ==
    /\ Confirm(t, at)
    /\ state'[t] = "confirmed" => InstallationFits(t)
    /\ UNCHANGED <<exec, claiming, extVars>>

SetEnabled(x) ==
    /\ installation[x] <= MaxToggles
    /\ enabled' = IF x \in enabled THEN enabled \ {x} ELSE enabled \cup {x}
    /\ installation' = [installation EXCEPT ![x] = @ + 1]
    /\ UNCHANGED <<poolVars, confVars, pinned, handler, effects, acknowledged>>

\* The conditions of AcknowledgeExtensionExecutionUncertain.
Acknowledgeable(t) ==
    /\ state[t] = "consumed"
    /\ status[t] = "failed" /\ failure_code[t] = "uncertain"
    /\ t \in active
    /\ reservation[t].attempt = attempt[t]
    /\ reservation[t].epoch < lease_epoch[t]
    /\ reservation[t].revision < revision[t]
    /\ InstallationFits(t) /\ ~Stale(t)

AcknowledgeExtensionExecutionUncertain(t) ==
    /\ Acknowledgeable(t)
    /\ active' = active \ {t}
    /\ consumed_released' = consumed_released \cup {t}
    /\ NewRevision(t)
    /\ AppendEvent(t, "failed", lease_epoch[t])
    /\ acknowledged' = acknowledged \cup {t}
    /\ UNCHANGED <<status, attempt, leaseVars, available_at, execution_deadline_at, failure_code,
                   deleted, running_count, refs, now, exec, claiming, state, expires_at, binding,
                   reservation, current, installation, enabled, pinned, handler, effects>>

-----------------------------------------------------------------------------
(* The handler: Resolve *)

\* The confirmation is read: consumed already, to be consumed, or of no use.
GetConfirmation(e) ==
    LET t == exec[e].fence.task IN
    /\ At(e, "get")
    /\ \/ state[t] = "confirmed" /\ Goto(e, "consume")
       \/ state[t] = "consumed" /\ Goto(e, "require")
       \/ (faults \/ state[t] \notin {"confirmed", "consumed"}) /\ Goto(e, "resolution")
    /\ UNCHANGED <<poolVars, confVars, installation, enabled, pinned, effects, acknowledged>>

\* The consent is consumed, or found to be void; with faults the reply may be
\* lost after the commit.
ConsumeExecution(e, at) ==
    LET t == exec[e].fence.task IN
    /\ At(e, "consume")
    /\ Consume(exec[e].fence, at)
    /\ state'[t] = "consumed" => InstallationFits(t)
    /\ \/ state'[t] = "consumed" /\ Goto(e, "require")
       \/ (faults \/ state'[t] # "consumed") /\ Goto(e, "resolution")
    /\ UNCHANGED <<exec, claiming, installation, enabled, pinned, effects, acknowledged>>

\* The fence, the state or the installation has moved: nothing is consumed.
ConsumeRefused(e, at) ==
    LET f == exec[e].fence IN
    /\ At(e, "consume")
    /\ \/ faults
       \/ state[f.task] # "confirmed"
       \/ ~Expired(f.task, at) /\ ~FenceHolds(f, at)
       \/ ~Expired(f.task, at) /\ ~Stale(f.task) /\ ~InstallationFits(f.task)
    /\ Goto(e, "resolution")
    /\ UNCHANGED <<poolVars, confVars, installation, enabled, pinned, effects, acknowledged>>

\* Mutant: whoever holds the task may use the reservation of an earlier lease.
ReservationHeldByAnyLease(f) ==
    state[f.task] = "consumed" /\ f.task \in active /\ f.task \notin consumed_released

\* The reservation is that of this very lease.
ReservationHeld(f) ==
    /\ state[f.task] = "consumed" /\ f.task \notin consumed_released
    /\ f.task \in active
    /\ reservation[f.task] = [attempt |-> f.attempt, epoch |-> f.epoch, revision |-> f.revision]

requireActiveExecutionReservation(e) ==
    /\ At(e, "require")
    /\ \/ ReservationHeld(exec[e].fence) /\ Goto(e, "lease")
       \/ (faults \/ ~ReservationHeld(exec[e].fence)) /\ Goto(e, "uncertain")
    /\ UNCHANGED <<poolVars, confVars, installation, enabled, pinned, effects, acknowledged>>

\* The row is read once more; an error in the pinned snapshot refuses as well.
CheckLease(e, at) ==
    /\ At(e, "lease")
    /\ \/ FenceHolds(exec[e].fence, at) /\ Goto(e, "invoke")
       \/ (faults \/ ~FenceHolds(exec[e].fence, at)) /\ Goto(e, "resolution")
    /\ UNCHANGED <<poolVars, confVars, installation, enabled, pinned, effects, acknowledged>>

-----------------------------------------------------------------------------
(* The handler: the call, and the transaction that ends the task *)

\* The extension is called; whether it acted is known or, without a receipt of
\* the local runner, uncertain.
Invoke(e) ==
    LET f == exec[e].fence IN
    /\ At(e, "invoke")
    /\ effects' = [effects EXCEPT ![f.task] = Append(@, f.epoch)]
    /\ \E o \in {"succeeded", "task_error", "uncertain"} :
         handler' = [handler EXCEPT ![e] = [pc |-> "finish", outcome |-> o]]
    /\ UNCHANGED <<poolVars, confVars, installation, enabled, pinned, acknowledged>>

\* Mutant: the fence is given back whatever the outcome.
finishReleasing(f, at, outcome) ==
    /\ coreTerminal(f, at, OutcomeStatus(outcome), OutcomeCode(outcome))
    /\ active' = active \ {f.task}
    /\ consumed_released' = IF state[f.task] = "consumed"
                            THEN consumed_released \cup {f.task} ELSE consumed_released
    /\ UNCHANGED <<state, expires_at, binding, reservation, current>>

\* Complete and Fail: unless the outcome is uncertain the reservation ends with
\* the task.
finish(f, at, outcome) ==
    LET releases == outcome # "uncertain" IN
    /\ coreTerminal(f, at, OutcomeStatus(outcome), OutcomeCode(outcome))
    /\ active' = IF releases THEN active \ {f.task} ELSE active
    /\ consumed_released' = IF releases /\ state[f.task] = "consumed"
                            THEN consumed_released \cup {f.task} ELSE consumed_released
    /\ UNCHANGED <<state, expires_at, binding, reservation, current>>

\* A reclaimed worker finds a reservation it did not take: the task ends as
\* uncertain.  Whatever becomes of that write, the handler then reports that it
\* could not resolve.
FailUncertain(e, at) ==
    /\ At(e, "uncertain")
    /\ Goto(e, "resolution")
    /\ \/ finish(exec[e].fence, at, "uncertain")
       \/ (faults \/ ~FenceHolds(exec[e].fence, at)) /\ UNCHANGED <<storeVars, confVars>>
    /\ UNCHANGED <<exec, claiming, installation, enabled, pinned, effects, acknowledged>>

\* The outcome the handler tries to write last.
LastOutcome(e) == IF handler[e].pc = "resolution" THEN "task_error" ELSE handler[e].outcome

\* The domain's own terminal write committed: execute has nothing left to do.
FinishCommits(e, at) ==
    /\ At(e, "finish") \/ At(e, "resolution")
    /\ finish(exec[e].fence, at, LastOutcome(e))
    /\ Stop(e)
    /\ handler' = [handler EXCEPT ![e] = IdleHandler]
    /\ UNCHANGED <<claiming, installation, enabled, pinned, effects, acknowledged>>

\* It did not, or its reply was lost: persistTerminal fails the task.
FinishFails(e, at) ==
    /\ At(e, "finish") \/ At(e, "resolution")
    /\ \/ finish(exec[e].fence, at, LastOutcome(e)) /\ faults
       \/ (faults \/ ~FenceHolds(exec[e].fence, at)) /\ UNCHANGED <<storeVars, confVars>>
    /\ exec' = [exec EXCEPT ![e].phase = "persist", ![e].outcome = "task_error"]
    /\ handler' = [handler EXCEPT ![e] = IdleHandler]
    /\ UNCHANGED <<claiming, installation, enabled, pinned, effects, acknowledged>>

-----------------------------------------------------------------------------
(* The pool around the handler *)

\* What WorkerPool does to an executor, and a crash, also decide where its
\* handler stands; cancellations and timeouts end the confirmation.
PoolStep ==
    /\ \/ \E t \in Tasks : CancelTask(t) /\ UNCHANGED <<exec, claiming>>
       \/ Tick /\ UNCHANGED <<exec, claiming>>
       \/ ClaimNext
       \/ Crash
       \/ \E e \in Executors :
            /\ \/ \E at \in Clock : Renew(e, at) \/ TerminalWrite(e, at)
               \/ RenewFails(e) \/ HandlerCanceled(e)
               \/ (faults \/ ~FenceHolds(exec[e].fence, now)) /\ TerminalWriteFails(e)
               \/ Reread(e) \/ GiveUp(e)
            /\ UNCHANGED claiming
    /\ handler' = [e \in Executors |->
                     IF exec'[e].phase # "handler" THEN IdleHandler
                     ELSE IF exec[e].phase # "handler" THEN [pc |-> "get", outcome |-> "none"]
                     ELSE handler[e]]
    /\ terminalizeConfirmationForTask
    /\ UNCHANGED <<installation, enabled, pinned, effects, acknowledged>>

ExtInit ==
    /\ PoolInit /\ ConfInit
    /\ installation = [x \in Targets |-> 1]
    /\ enabled = Targets
    /\ pinned = [t \in Tasks |-> 0]
    /\ handler = [e \in Executors |-> IdleHandler]
    /\ effects = [t \in Tasks |-> <<>>]
    /\ acknowledged = {}
    /\ faults \in BOOLEAN

\* Requests, consents and the sweeper: nothing of these needs a lease.
OwnerNext ==
    \/ \E t \in Tasks : RequestTask(t) \/ AcknowledgeExtensionExecutionUncertain(t)
    \/ \E t \in Tasks, at \in Clock :
         \/ ConfirmExecution(t, at)
         \/ (Reject(t, at) \/ sweepExpiredConfirmation(t, at)) /\ UNCHANGED <<exec, claiming, extVars>>
    \/ \E x \in Targets : SetEnabled(x)

HandlerNext(e) ==
    \/ GetConfirmation(e) \/ requireActiveExecutionReservation(e) \/ Invoke(e)
    \/ \E at \in Clock :
         \/ ConsumeExecution(e, at) \/ ConsumeRefused(e, at)
         \/ CheckLease(e, at)
         \/ FailUncertain(e, at) \/ FinishCommits(e, at) \/ FinishFails(e, at)

ExtNext ==
    /\ OwnerNext \/ PoolStep \/ \E e \in Executors : HandlerNext(e)
    /\ UNCHANGED faults

ExtSpec == ExtInit /\ [][ExtNext]_allVars

-----------------------------------------------------------------------------
(* Properties *)

\* Executors, confirmations and installations have their types.
ExtTypeOK ==
    /\ ConfTypeOK
    /\ exec \in [Executors -> ExecState]
    /\ installation \in [Targets -> Nat]
    /\ enabled \subseteq Targets
    /\ pinned \in [Tasks -> Nat]
    /\ handler \in [Executors -> Handler]
    /\ effects \in [Tasks -> Seq(Nat)]
    /\ acknowledged \subseteq Tasks

\* One consent allows one call of the extension: however often the task is
\* reclaimed, its process crashes or its handler lives on without a lease, the
\* extension is called at most once, and only under the lease that consumed the
\* consent.
ConsentUsedOnce ==
    \A t \in Tasks :
      /\ Len(effects[t]) <= 1
      /\ effects[t] # <<>> => state[t] = "consumed" /\ effects[t][1] = reservation[t].epoch

\* Types, one consent is one call of the extension, and finish gives back the
\* slot of the task it ends, once.
ExtInv == ExtTypeOK /\ ConsentUsedOnce /\ SlotsExact

\* "independent requests cannot invalidate one another by replacing the target
\* binding" (core_extension_execution.go:113-115): while the owner may still
\* answer a proposal, or it may still be executed, the binding it was made with
\* is the current one of its installation.
ProposalsDoNotInterfere ==
    \A t \in Tasks : Open(t) \/ (state[t] = "consumed" /\ t \in active) => ~Stale(t)

\* A task that was reclaimed after its consent was consumed keeps the fence of
\* its installation, whoever ends it, until the owner accepts the unknown
\* outcome: a second execution cannot start beside an abandoned one.  (A failed
\* call of the database, or a lost reply, makes the handler report task_error
\* and give the fence away; so does a renewal that commits with an older clock
\* between the refused uncertain write and the next one.  With faults, or with
\* transactions that lag the clocks of their callers, this does not hold.)
ReclaimedKeepsFence ==
    ~faults /\ MaxLag = 0 => \A t \in Tasks :
      /\ state[t] = "consumed"
      /\ reservation[t].epoch < lease_epoch[t]
      /\ t \notin acknowledged
      => t \in active

\* An uncertain execution that blocks its installation can be reconciled: as
\* long as the installation is the one that was consented to, the owner's
\* acknowledgement is accepted.  No run checks it: it is false of the code (see
\* the README).
UncertainIsReconcilable ==
    \A t \in Tasks :
      failure_code[t] = "uncertain" /\ t \in active /\ InstallationFits(t) => Acknowledgeable(t)

=============================================================================
