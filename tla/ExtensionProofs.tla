--------------------------- MODULE ExtensionProofs ---------------------------
(***************************************************************************)
(* Theorems about executing extensions, for any number of requests,        *)
(* installations, executors and crashes: one consent is one call of the    *)
(* extension, proposals do not invalidate one another, and a task that was *)
(* reclaimed after its consent was consumed keeps the fence of its         *)
(* installation.                                                           *)
(***************************************************************************)
EXTENDS ExtensionExecution, ConfirmationProofs

-----------------------------------------------------------------------------
(* The inductive invariant *)

\* The columns of this module.
ExtColumns ==
    /\ installation \in [Targets -> Nat]
    /\ enabled \subseteq Targets
    /\ pinned \in [Tasks -> Nat]
    /\ handler \in [Executors -> Handler]
    /\ effects \in [Tasks -> Seq(Nat)]
    /\ acknowledged \subseteq Tasks

\* What the handler of an executor may rely on.  Before it calls the extension,
\* no call was made under its lease; once it found the reservation to be its own,
\* the reservation stays its own.
HandlerFits(x, h) ==
    x.phase = "handler" =>
      /\ h.pc \in {"get", "consume", "require", "lease", "invoke"} =>
           (effects[x.fence.task] # <<>> => reservation[x.fence.task].epoch # x.fence.epoch)
      /\ h.pc \in {"lease", "invoke", "finish"} =>
           /\ state[x.fence.task] = "consumed"
           /\ reservation[x.fence.task].epoch = x.fence.epoch
      /\ h.pc = "finish" => h.outcome # "none"

\* A claim that is about to be read back is later than every call of its task.
ClaimsAreLater ==
    \A t \in claiming : effects[t] # <<>> => reservation[t].epoch < lease_epoch[t]

\* No proposal has a binding from the future.
BindingsFit == \A t \in Tasks : state[t] # "none" => binding[t] <= current[Target[t]]

\* The inductive invariant of the executions.
ExtInd ==
    /\ PoolInd /\ SlotInv /\ ReserveInv /\ ConsentHasTask
    /\ ExtColumns
    /\ ConsentUsedOnce
    /\ \A e \in Executors : HandlerFits(exec[e], handler[e])
    /\ ClaimsAreLater
    /\ BindingsFit /\ ProposalsDoNotInterfere

-----------------------------------------------------------------------------
(* Steps of the store *)

\* The owner's acknowledgement writes one event to a task that has ended.
AckWrites(t) ==
    /\ NewRevision(t)
    /\ AppendEvent(t, "failed", lease_epoch[t])
    /\ UNCHANGED <<status, attempt, leaseVars, available_at, execution_deadline_at, failure_code,
                   deleted, running_count, refs, now>>

ExtStoreMoves == [StoreNext]_storeVars \/ TaskWrites \/ \E t \in Tasks : AckWrites(t)

\* Whatever writes to the tasks, slots, leases and revisions stay in order.
LEMMA ExtStoreMoved ==
    ASSUME SlotInv, LeaseInv, ExtStoreMoves
    PROVE  /\ SlotInv' /\ LeaseInv' /\ StoreTypeOK /\ StoreTypeOK'
           /\ Pinned /\ Onward /\ NoneVanishes
<1>0. StoreTypeOK /\ Unparked /\ SlotsExact
  BY DEF SlotInv
<1>1. CASE [StoreNext]_storeVars \/ TaskWrites
  <2>1. StoreTypeOK' /\ Unparked' /\ LeaseInv' /\ Pinned /\ Onward /\ NoneVanishes
    BY <1>0, <1>1, QueueMoved
  <2>2. SlotInv'
    BY <1>0, <1>1, <2>1, SlotsStep, TaskWritesKeepSlots DEF SlotInv
  <2>3. QED
    BY <1>0, <2>1, <2>2
<1>2. ASSUME NEW t \in Tasks, AckWrites(t)
      PROVE  /\ SlotInv' /\ LeaseInv' /\ StoreTypeOK'
             /\ Pinned /\ Onward /\ NoneVanishes
  <2>1. /\ UNCHANGED <<status, attempt, lease_epoch, lease_expires_at, available_at,
                       execution_deadline_at, failure_code, deleted, running_count, refs, now>>
        /\ revision' = [revision EXCEPT ![t] = @ + 1]
    BY <1>2 DEF AckWrites, leaseVars, NewRevision
  <2>2. events' \in [Tasks -> Seq(Event)] /\ progress_sequence' \in [Tasks -> Nat]
    <3>1. lease_epoch[t] \in Nat /\ "failed" \in Status
      BY <1>0 DEF StoreTypeOK, Status, Terminal
    <3>2. QED
      BY <1>0, <1>2, <3>1, AppendEventTyped DEF AckWrites
  <2>a. /\ revision \in [Tasks -> Nat] /\ lease_epoch \in [Tasks -> Nat]
        /\ revision' \in [Tasks -> Nat] /\ revision'[t] = revision[t] + 1
        /\ \A u \in Tasks : u # t => revision'[u] = revision[u]
    BY <1>0, <2>1 DEF StoreTypeOK
  <2>3. StoreTypeOK'
    BY <1>0, <2>1, <2>2, <2>a DEF StoreTypeOK
  <2>4. SlotsExact' /\ Unparked' /\ LeaseInv'
    BY <1>0, <2>1 DEF SlotsExact, RunningTasks, Unparked, LeaseInv, LeaseExact
  <2>5. Pinned /\ Onward /\ NoneVanishes
    <3>1. ASSUME NEW u \in Tasks
          PROVE  revision'[u] >= revision[u] /\ (revision'[u] = revision[u] => u # t)
      BY <2>a
    <3>2. QED
      BY <2>1, <2>a, <3>1 DEF Pinned, Onward, NoneVanishes
  <2>6. QED
    BY <2>3, <2>4, <2>5 DEF SlotInv
<1>3. QED
  BY <1>0, <1>1, <1>2 DEF ExtStoreMoves

-----------------------------------------------------------------------------
(* Steps that make no proposal and call no extension *)

\* A consent that was consumed stays consumed, under the lease that took it.
ConsumedStays ==
    \A t \in Tasks : state[t] = "consumed" =>
      state'[t] = "consumed" /\ reservation'[t] = reservation[t]

\* No consent is requested, and none that ended or was released comes back.
NoProposal ==
    \A t \in Tasks :
      /\ state[t] = "none" => state'[t] = "none"
      /\ Open(t)' \/ (state'[t] = "consumed" /\ t \in active')
           => Open(t) \/ (state[t] = "consumed" /\ t \in active)

\* What every step of the executions keeps.
ExtKept == ExtInd' /\ ExtStoreMoves /\ ConsumedStays

\* An executor that goes on as it was, or is no longer in its handler.
LEMMA HandlerRests ==
    ASSUME ExtInd, NEW e \in Executors, ConsumedStays, UNCHANGED effects,
           \/ exec'[e].phase # "handler"
           \/ exec'[e] = exec[e] /\ handler'[e] = handler[e]
    PROVE  HandlerFits(exec[e], handler[e])'
<1>1. CASE exec'[e].phase # "handler"
  BY <1>1 DEF HandlerFits
<1>2. CASE exec'[e] = exec[e] /\ handler'[e] = handler[e]
  <2>1. PICK t \in Tasks : t = exec[e].fence.task
    BY ExecFields DEF ExtInd, PoolInd
  <2>2. HandlerFits(exec[e], handler[e])
    BY DEF ExtInd
  <2>3. effects[t] # <<>> => state[t] = "consumed"
    BY DEF ExtInd, ConsentUsedOnce
  <2>4. state[t] = "consumed" => state'[t] = "consumed" /\ reservation'[t] = reservation[t]
    BY DEF ConsumedStays
  <2>5. QED
    BY <1>2, <2>1, <2>2, <2>3, <2>4 DEF HandlerFits
<1>3. QED
  BY <1>1, <1>2

\* What such a step has to leave right, and what follows from that.
LEMMA ExtRests ==
    ASSUME ExtInd, ExtStoreMoves, PoolInd', ReserveInv', ExtColumns', ConsumedStays, NoProposal,
           UNCHANGED <<effects, binding, current>>,
           \A t \in claiming' : t \in claiming
              \/ (effects[t] # <<>> => reservation[t].epoch < lease_epoch'[t]),
           \A e \in Executors : HandlerFits(exec[e], handler[e])'
    PROVE  ExtKept
<1>0. SlotInv' /\ NoneVanishes /\ Pinned /\ StoreTypeOK /\ StoreTypeOK'
  BY ExtStoreMoved DEF ExtInd, ReserveInv
<1>a. /\ claiming' \subseteq Tasks /\ reservation \in [Tasks -> Reservation]
      /\ state \in [Tasks -> State]
  BY DEF ExtInd, ReserveInv, ConfTypeOK, PoolInd, TypeOK
<1>1. ConsentHasTask'
  BY <1>0 DEF ExtInd, ConsentHasTask, NoProposal, NoneVanishes
<1>2. ConsentUsedOnce'
  BY DEF ExtInd, ConsentUsedOnce, ConsumedStays
<1>3. ClaimsAreLater'
  <2>1. SUFFICES ASSUME NEW t \in claiming', effects[t] # <<>>
                 PROVE  reservation'[t].epoch < lease_epoch'[t]
    BY DEF ClaimsAreLater
  <2>2. t \in Tasks
    BY <1>a
  <2>3. reservation'[t] = reservation[t]
    BY <2>1, <2>2 DEF ConsumedStays, ExtInd, ConsentUsedOnce
  <2>4. /\ lease_epoch[t] \in Nat /\ lease_epoch'[t] \in Nat /\ lease_epoch'[t] >= lease_epoch[t]
        /\ reservation[t].epoch \in Nat
    BY <1>0, <1>a, <2>2 DEF StoreTypeOK, Pinned, Reservation
  <2>5. CASE t \in claiming
    <3>1. reservation[t].epoch < lease_epoch[t]
      BY <2>1, <2>5 DEF ExtInd, ClaimsAreLater
    <3>2. QED
      BY <2>3, <2>4, <3>1
  <2>6. QED
    BY <2>1, <2>3, <2>5
<1>4. BindingsFit' /\ ProposalsDoNotInterfere'
  BY DEF ExtInd, BindingsFit, ProposalsDoNotInterfere, NoProposal, Stale
<1>5. QED
  BY <1>0, <1>1, <1>2, <1>3, <1>4 DEF ExtInd, ExtKept

-----------------------------------------------------------------------------
(* The pool around the handler *)

\* A step of the pool is one the worker pool may take.
LEMMA PoolStepIsPool ==
    ASSUME PoolStep
    PROVE  PoolNext
<1>1. ASSUME NEW e \in Executors,
             \/ \E at \in Clock : Renew(e, at) \/ TerminalWrite(e, at)
             \/ RenewFails(e) \/ HandlerCanceled(e)
             \/ TerminalWriteFails(e)
             \/ Reread(e) \/ GiveUp(e)
      PROVE  ExecNext(e)
  BY <1>1 DEF ExecNext
<1>2. QED
  BY <1>1 DEF PoolStep, PoolNext, ClientNext

\* An executor that is in its handler was there before, or has just read a claim.
LEMMA HandlerStarts ==
    ASSUME PoolInd, PoolStep, NEW g \in Executors, exec'[g].phase = "handler"
    PROVE  \/ exec'[g] = exec[g]
           \/ /\ exec[g].phase # "handler"
              /\ exec'[g].fence.task \in claiming
              /\ exec'[g].fence.epoch = lease_epoch'[exec'[g].fence.task]
<1>0. exec \in [Executors -> ExecState]
  BY DEF PoolInd, TypeOK
<1> DEFINE Goal == \/ exec'[g] = exec[g]
                   \/ /\ exec[g].phase # "handler"
                      /\ exec'[g].fence.task \in claiming
                      /\ exec'[g].fence.epoch = lease_epoch'[exec'[g].fence.task]
<1>1. CASE UNCHANGED exec
  BY <1>1
<1>2. ASSUME NEW e \in Executors, NEW t \in Tasks, ClaimRead(e, t) PROVE Goal
  BY <1>0, <1>2 DEF ClaimRead, storeVars
<1>3. ASSUME exec' = [e \in Executors |-> IdleExec] PROVE Goal
  BY <1>3 DEF IdleExec
<1>4. ASSUME NEW e \in Executors, Stop(e) PROVE Goal
  BY <1>0, <1>4 DEF Stop, IdleExec
<1>5. ASSUME NEW e \in Executors, RenewFails(e) \/ TerminalWriteFails(e) \/ Reread(e) PROVE Goal
  <2>1. CASE g = e
    BY <1>0, <1>5, <2>1 DEF RenewFails, TerminalWriteFails, Reread, ExecState
  <2>2. CASE g # e
    BY <1>0, <1>5, <2>2 DEF RenewFails, TerminalWriteFails, Reread
  <2>3. QED
    BY <2>1, <2>2
<1> HIDE DEF Goal
<1>6. Goal
  BY <1>1, <1>2, <1>3, <1>4, <1>5
     DEF PoolStep, ClaimNext, Claim, ClaimConverges, ClaimPanics, ClaimReadFails, Crash, Renew,
         TerminalWrite, HandlerCanceled, GiveUp, Goal
<1>7. QED
  BY <1>6 DEF Goal

\* A claim is later than the calls that were made before it.
LEMMA ClaimIsLater ==
    ASSUME ExtInd, PoolStep, NEW t \in claiming'
    PROVE  t \in claiming \/ (effects[t] # <<>> => reservation[t].epoch < lease_epoch'[t])
<1>1. ASSUME NEW at \in Clock, NEW u \in Tasks, NEW locked \in SUBSET Tasks, Claim(u, at, locked)
      PROVE  effects[t] # <<>> => reservation[t].epoch < lease_epoch'[t]
  <2>1. t = u /\ t \in Tasks /\ lease_epoch' = [lease_epoch EXCEPT ![t] = @ + 1]
    BY <1>1 DEF Claim, ClaimLease
  <2>2. status[t] \notin Terminal
    BY <1>1, <2>1 DEF Claim, ClaimLease, Candidate, Eligible, Due, Terminal
  <2>3. SUFFICES ASSUME effects[t] # <<>> PROVE reservation[t].epoch < lease_epoch'[t]
    OBVIOUS
  <2>4. t \in active
    BY <2>1, <2>2, <2>3 DEF ExtInd, ConsentUsedOnce, ReserveInv, ReservationExact
  <2>5. reservation[t].epoch \in 1..lease_epoch[t]
    BY <2>1, <2>4 DEF ExtInd, ReserveInv, ReservationExact
  <2>6. lease_epoch[t] \in Nat /\ lease_epoch'[t] = lease_epoch[t] + 1
    BY <2>1 DEF ExtInd, SlotInv, StoreTypeOK
  <2>7. QED
    BY <2>5, <2>6
<1>2. QED
  BY <1>1 DEF PoolStep, ClaimNext, ClaimConverges, ClaimPanics, ClaimRead, ClaimReadFails, Crash

\* An executor that has just read its claim: no call was made under its lease.
LEMMA HandlerIsNew ==
    ASSUME ExtInd, Pinned, StoreTypeOK, StoreTypeOK', ConsumedStays, UNCHANGED effects,
           NEW g \in Executors, handler'[g] = [pc |-> "get", outcome |-> "none"],
           exec'[g].fence.task \in claiming,
           exec'[g].fence.epoch = lease_epoch'[exec'[g].fence.task]
    PROVE  HandlerFits(exec[g], handler[g])'
<1>1. PICK t \in Tasks : t = exec'[g].fence.task
  BY DEF ExtInd, PoolInd, TypeOK
<1>2. SUFFICES ASSUME effects[t] # <<>> PROVE reservation'[t].epoch # exec'[g].fence.epoch
  BY <1>1 DEF HandlerFits
<1>3. reservation'[t] = reservation[t]
  BY <1>2 DEF ExtInd, ConsentUsedOnce, ConsumedStays
<1>4. reservation[t].epoch < lease_epoch[t]
  BY <1>1, <1>2 DEF ExtInd, ClaimsAreLater
<1>5. /\ reservation[t].epoch \in Nat /\ lease_epoch[t] \in Nat /\ lease_epoch'[t] \in Nat
      /\ lease_epoch'[t] >= lease_epoch[t]
  BY DEF ExtInd, ReserveInv, ConfTypeOK, Reservation, StoreTypeOK, Pinned
<1>6. QED
  BY <1>1, <1>3, <1>4, <1>5

\* The pool keeps the invariant: cancellations, claims, renewals, crashes and the
\* terminal repair.
LEMMA PoolKeeps ==
    ASSUME ExtInd, PoolStep
    PROVE  ExtKept
<1>1. PoolInd' /\ [StoreNext]_storeVars
  BY PoolStepIsPool, PoolIndStep, PoolUsesStore DEF ExtInd
<1>2. ExtStoreMoves
  BY <1>1 DEF ExtStoreMoves
<1>3. LeaseInv' /\ Pinned /\ Onward /\ StoreTypeOK /\ StoreTypeOK'
  BY <1>2, ExtStoreMoved DEF ExtInd, ReserveInv
<1>4. /\ state' = [t \in Tasks |-> IF CanceledOrTimedOut(t) /\ Open(t)
                                  THEN "expired" ELSE state[t]]
      /\ UNCHANGED <<expires_at, binding, reservationVars, current>>
      /\ UNCHANGED <<installation, enabled, pinned, effects, acknowledged>>
      /\ handler' = [e \in Executors |->
                     IF exec'[e].phase # "handler" THEN IdleHandler
                     ELSE IF exec[e].phase # "handler" THEN [pc |-> "get", outcome |-> "none"]
                     ELSE handler[e]]
  BY DEF PoolStep, terminalizeConfirmationForTask
<1>5. /\ expires_at \in [Tasks -> Nat] /\ binding \in [Tasks -> Nat] /\ current \in [Targets -> Nat]
      /\ state \in [Tasks -> State] /\ handler \in [Executors -> Handler]
  BY DEF ExtInd, ReserveInv, ConfTypeOK, ExtColumns
<1>6. state' \in [Tasks -> State] /\ \A t \in Tasks : state'[t] = "consumed" <=> state[t] = "consumed"
  BY <1>4, <1>5 DEF State, Open
<1>7. ReserveInv'
  BY <1>3, <1>4, <1>5, <1>6, ReserveRests DEF ExtInd
<1>8. ExtColumns'
  <2>1. handler' \in [Executors -> Handler]
    BY <1>4, <1>5 DEF Handler, IdleHandler, Pc
  <2>2. QED
    BY <1>4, <2>1 DEF ExtInd, ExtColumns
<1>9. UNCHANGED <<reservation, active, consumed_released>>
  BY <1>4 DEF reservationVars
<1>10. ConsumedStays
  BY <1>6, <1>9 DEF ConsumedStays
<1>11. NoProposal
  BY <1>4, <1>5, <1>9 DEF NoProposal, Open
<1>12. ASSUME NEW g \in Executors PROVE HandlerFits(exec[g], handler[g])'
  <2>1. CASE exec'[g].phase # "handler"
    BY <1>4, <1>10, <2>1, HandlerRests
  <2>2. CASE exec'[g].phase = "handler" /\ exec'[g] = exec[g]
    <3>1. handler'[g] = handler[g]
      BY <1>4, <2>2
    <3>2. QED
      BY <1>4, <1>10, <2>2, <3>1, HandlerRests
  <2>3. CASE /\ exec'[g].phase = "handler" /\ exec[g].phase # "handler"
             /\ exec'[g].fence.task \in claiming
             /\ exec'[g].fence.epoch = lease_epoch'[exec'[g].fence.task]
    <3>1. handler'[g] = [pc |-> "get", outcome |-> "none"]
      BY <1>4, <2>3
    <3>2. QED
      BY <1>3, <1>4, <1>10, <2>3, <3>1, HandlerIsNew
  <2>4. QED
    BY <2>1, <2>2, <2>3, HandlerStarts DEF ExtInd
<1>13. QED
  BY <1>1, <1>2, <1>4, <1>7, <1>8, <1>10, <1>11, <1>12, ClaimIsLater, ExtRests

-----------------------------------------------------------------------------
(* Owners and the sweeper *)

\* A step beside the executors.
LEMMA OwnerRests ==
    ASSUME ExtInd, ExtStoreMoves, UNCHANGED <<exec, claiming, handler, effects, binding, current>>,
           ReserveInv', ExtColumns', ConsumedStays, NoProposal
    PROVE  ExtKept
<1>1. StoreTypeOK' /\ Pinned
  BY ExtStoreMoved DEF ExtInd, ReserveInv
<1>2. PoolInd'
  BY <1>1, NoneMoves DEF ExtInd
<1>3. \A e \in Executors : HandlerFits(exec[e], handler[e])'
  BY HandlerRests
<1>4. QED
  BY <1>2, <1>3, ExtRests

\* An answer of the owner, or the end of an open consent.
LEMMA AnswerKeeps ==
    ASSUME ExtInd, TaskWrites, NEW t \in Tasks, Open(t),
           NEW s \in {"confirmed", "rejected", "expired"}, SetState(t, s),
           UNCHANGED <<exec, claiming, extVars, reservationVars, current>>
    PROVE  ExtKept
<1>1. ExtStoreMoves
  BY DEF ExtStoreMoves
<1>2. LeaseInv' /\ Pinned /\ Onward /\ StoreTypeOK /\ StoreTypeOK'
  BY <1>1, ExtStoreMoved DEF ExtInd, ReserveInv
<1>3. /\ state' = [state EXCEPT ![t] = s] /\ state[t] \in {"pending", "confirmed"}
      /\ UNCHANGED <<expires_at, binding, reservation, active, consumed_released, current>>
      /\ UNCHANGED <<installation, enabled, pinned, handler, effects, acknowledged>>
  BY DEF SetState, Open, reservationVars, extVars
<1>4. /\ expires_at \in [Tasks -> Nat] /\ binding \in [Tasks -> Nat] /\ current \in [Targets -> Nat]
      /\ state \in [Tasks -> State]
  BY DEF ExtInd, ReserveInv, ConfTypeOK
<1>5. state' \in [Tasks -> State] /\ \A u \in Tasks : state'[u] = "consumed" <=> state[u] = "consumed"
  BY <1>3, <1>4 DEF State
<1>6. ReserveInv'
  BY <1>2, <1>3, <1>4, <1>5, ReserveRests DEF ExtInd
<1>7. ExtColumns'
  BY <1>3 DEF ExtInd, ExtColumns
<1>8. ConsumedStays /\ NoProposal
  BY <1>3, <1>4, <1>5 DEF ConsumedStays, NoProposal, Open
<1>9. QED
  BY <1>1, <1>3, <1>6, <1>7, <1>8, OwnerRests

\* The transactions that answer or end an open consent.
LEMMA AnswersKeep ==
    ASSUME ExtInd, NEW t \in Tasks, NEW at \in Clock,
           Confirm(t, at) \/ Reject(t, at) \/ sweepExpiredConfirmation(t, at),
           UNCHANGED <<exec, claiming, extVars>>
    PROVE  ExtKept
<1>1. TaskWrites
  BY ConfirmationWrites DEF ExtInd, SlotInv, ConfirmationNext
<1>2. Open(t) /\ UNCHANGED <<reservationVars, current>>
  BY DEF Confirm, Reject, sweepExpiredConfirmation, Open
<1>3. \E s \in {"confirmed", "rejected", "expired"} : SetState(t, s)
  BY DEF Confirm, Reject, sweepExpiredConfirmation, terminalizeExpiredTx
<1>4. QED
  BY <1>1, <1>2, <1>3, AnswerKeeps

\* The switch of an installation touches no execution.
LEMMA SwitchKeeps ==
    ASSUME ExtInd, NEW x \in Targets, SetEnabled(x)
    PROVE  ExtKept
<1>1. /\ enabled' = (IF x \in enabled THEN enabled \ {x} ELSE enabled \cup {x})
      /\ installation' = [installation EXCEPT ![x] = @ + 1]
      /\ UNCHANGED <<storeVars, exec, claiming, confVars, pinned, handler, effects, acknowledged>>
  BY DEF SetEnabled, poolVars
<1>2. UNCHANGED <<state, expires_at, binding, consumed_released, reservation, active, current>>
  BY <1>1 DEF confVars
<1>3. ExtColumns'
  BY <1>1 DEF ExtInd, ExtColumns
<1>4. TaskWrites /\ ExtStoreMoves
  BY <1>1 DEF TaskWrites, ExtStoreMoves
<1>5. LeaseInv' /\ Onward /\ StoreTypeOK'
  BY <1>4, ExtStoreMoved DEF ExtInd, ReserveInv
<1>6. /\ expires_at \in [Tasks -> Nat] /\ binding \in [Tasks -> Nat] /\ current \in [Targets -> Nat]
      /\ state \in [Tasks -> State]
  BY DEF ExtInd, ReserveInv, ConfTypeOK
<1>7. ReserveInv'
  BY <1>2, <1>5, <1>6, ReserveRests DEF ExtInd, reservationVars
<1>8. ConsumedStays /\ NoProposal
  BY <1>2 DEF ConsumedStays, NoProposal, Open
<1>9. QED
  BY <1>1, <1>2, <1>3, <1>4, <1>7, <1>8, OwnerRests

\* The owner accepts an unknown outcome: the fence goes, the consumed consent stays.
LEMMA AcknowledgeKeeps ==
    ASSUME ExtInd, NEW t \in Tasks, AcknowledgeExtensionExecutionUncertain(t)
    PROVE  ExtKept
<1>1. /\ AckWrites(t) /\ status[t] = "failed" /\ state[t] = "consumed"
      /\ active' = active \ {t} /\ consumed_released' = consumed_released \cup {t}
      /\ acknowledged' = acknowledged \cup {t}
      /\ UNCHANGED <<exec, claiming, state, expires_at, binding, reservation, current,
                     installation, enabled, pinned, handler, effects>>
  BY DEF AcknowledgeExtensionExecutionUncertain, Acknowledgeable, AckWrites
<1>2. ExtStoreMoves
  BY <1>1 DEF ExtStoreMoves
<1>3. LeaseInv' /\ Onward /\ StoreTypeOK'
  BY <1>2, ExtStoreMoved DEF ExtInd, ReserveInv
<1>4. status'[t] \in Terminal
  BY <1>1 DEF AckWrites, Terminal
<1>5. ReserveInv'
  BY <1>1, <1>3, <1>4, ReleaseReserves DEF ExtInd
<1>6. ExtColumns'
  BY <1>1 DEF ExtInd, ExtColumns
<1>7. ConsumedStays /\ NoProposal
  BY <1>1 DEF ConsumedStays, NoProposal, Open
<1>8. QED
  BY <1>1, <1>2, <1>5, <1>6, <1>7, OwnerRests

\* A proposal is made only when no other one of its installation can still be
\* answered or executed: such a one would be the newest of them.
LEMMA TargetIsFree ==
    ASSUME ExtInd, NEW t \in Tasks, RequestTask(t), NEW u \in Tasks, Target[u] = Target[t]
    PROVE  ~(Open(u) \/ (state[u] = "consumed" /\ u \in active))
<1>1. SUFFICES ASSUME Open(u) \/ (state[u] = "consumed" /\ u \in active) PROVE FALSE
  OBVIOUS
<1>2. binding[u] = current[Target[t]]
  BY <1>1 DEF ExtInd, ProposalsDoNotInterfere, Stale
<1>3. ASSUME NEW v \in Tasks, Target[v] = Target[t],
             state[v] \in {"pending", "confirmed", "consumed"}
      PROVE  binding[v] <= binding[u]
  BY <1>2, <1>3 DEF ExtInd, BindingsFit
<1>4. Newest(Target[t], u)
  BY <1>1, <1>3 DEF Newest, Open
<1>5. state[u] = "consumed" /\ u \in consumed_released
  BY <1>4 DEF RequestTask
<1>6. QED
  BY <1>1, <1>5 DEF Open, ExtInd, ReserveInv, ReservationExact

\* A new proposal, with its task and its binding.
LEMMA RequestKeeps ==
    ASSUME ExtInd, NEW t \in Tasks, RequestTask(t)
    PROVE  ExtKept
<1> DEFINE x == Target[t]
<1>0. /\ StoreTypeOK /\ state \in [Tasks -> State] /\ expires_at \in [Tasks -> Nat]
      /\ binding \in [Tasks -> Nat] /\ current \in [Targets -> Nat] /\ x \in Targets
      /\ reservation \in [Tasks -> Reservation] /\ claiming \subseteq Tasks
  BY TargetsAssumption DEF ExtInd, ReserveInv, ConfTypeOK, PoolInd, TypeOK
<1>1. /\ CreateTask(t, "waiting_user", now)
      /\ state' = [state EXCEPT ![t] = "pending"]
      /\ expires_at' = [expires_at EXCEPT ![t] = now + ConfirmTTL]
      /\ binding' = [binding EXCEPT ![t] = current[x] + 1]
      /\ current' = [current EXCEPT ![x] = @ + 1]
      /\ pinned' = [pinned EXCEPT ![t] = installation[x]]
      /\ UNCHANGED <<exec, claiming, reservationVars, installation, enabled, handler, effects,
                     acknowledged>>
  BY DEF RequestTask
<1>2. UNCHANGED <<reservation, active, consumed_released>>
  BY <1>1 DEF reservationVars
<1>3. /\ status[t] = "absent" /\ status' = [status EXCEPT ![t] = "waiting_user"]
      /\ lease_epoch' = lease_epoch
  BY <1>1 DEF CreateTask, leaseVars
<1>4. state[t] = "none"
  BY <1>3 DEF ExtInd, ConsentHasTask
<1>5. ExtStoreMoves
  <2>1. now \in Nat /\ 0 \in 0..MaxDelay /\ now + 0 = now
    BY <1>0, ConstantsAssumption DEF StoreTypeOK
  <2>2. ClientNext
    BY <1>1, <2>1 DEF ClientNext
  <2>3. QED
    BY <2>2 DEF ExtStoreMoves, StoreNext
<1>6. SlotInv' /\ LeaseInv' /\ Pinned /\ Onward /\ StoreTypeOK' /\ NoneVanishes
  BY <1>5, ExtStoreMoved DEF ExtInd, ReserveInv
<1>7. PoolInd'
  BY <1>1, <1>6, NoneMoves DEF ExtInd
<1>8. ReserveInv'
  <2>1. now + ConfirmTTL \in Nat /\ current[x] + 1 \in Nat
    BY <1>0, TargetsAssumption DEF StoreTypeOK
  <2>2. /\ expires_at' \in [Tasks -> Nat] /\ binding' \in [Tasks -> Nat]
        /\ current' \in [Targets -> Nat] /\ state' \in [Tasks -> State]
    BY <1>0, <1>1, <2>1 DEF State
  <2>3. \A u \in Tasks : state'[u] = "consumed" <=> state[u] = "consumed"
    BY <1>0, <1>1, <1>4
  <2>4. QED
    BY <1>1, <1>6, <2>2, <2>3, ReserveRests DEF ExtInd
<1>9. ExtColumns'
  BY <1>0, <1>1 DEF ExtInd, ExtColumns
<1>10. ConsumedStays
  BY <1>0, <1>1, <1>2, <1>4 DEF ConsumedStays
<1>11. ConsentHasTask'
  BY <1>0, <1>1, <1>3, <1>6 DEF ExtInd, ConsentHasTask, NoneVanishes, StoreTypeOK
<1>12. ConsentUsedOnce'
  BY <1>1, <1>10 DEF ExtInd, ConsentUsedOnce, ConsumedStays
<1>13. \A e \in Executors : HandlerFits(exec[e], handler[e])'
  BY <1>1, <1>10, HandlerRests
<1>14. ClaimsAreLater'
  BY <1>1, <1>2, <1>3 DEF ExtInd, ClaimsAreLater
<1>15. BindingsFit'
  <2>1. SUFFICES ASSUME NEW u \in Tasks, state'[u] # "none"
                 PROVE  binding'[u] <= current'[Target[u]]
    BY DEF BindingsFit
  <2>2. CASE u = t
    BY <1>0, <1>1, <2>2
  <2>3. CASE u # t
    <3>1. binding[u] <= current[Target[u]]
      BY <1>0, <1>1, <2>1, <2>3 DEF ExtInd, BindingsFit
    <3>2. Target[u] \in Targets
      BY TargetsAssumption
    <3>3. QED
      BY <1>0, <1>1, <2>3, <3>1, <3>2
  <2>4. QED
    BY <2>2, <2>3
<1>16. ProposalsDoNotInterfere'
  <2>1. SUFFICES ASSUME NEW u \in Tasks, Open(u)' \/ (state'[u] = "consumed" /\ u \in active')
                 PROVE  binding'[u] = current'[Target[u]]
    BY DEF ProposalsDoNotInterfere, Stale
  <2>2. CASE u = t
    BY <1>0, <1>1, <2>2
  <2>3. CASE u # t
    <3>1. Open(u) \/ (state[u] = "consumed" /\ u \in active)
      BY <1>0, <1>1, <1>2, <2>1, <2>3 DEF Open
    <3>2. Target[u] # x
      BY <3>1, TargetIsFree
    <3>3. binding[u] = current[Target[u]]
      BY <3>1 DEF ExtInd, ProposalsDoNotInterfere, Stale
    <3>4. Target[u] \in Targets
      BY TargetsAssumption
    <3>5. QED
      BY <1>0, <1>1, <2>3, <3>2, <3>3, <3>4
  <2>4. QED
    BY <2>2, <2>3
<1>17. QED
  BY <1>5, <1>6, <1>7, <1>8, <1>9, <1>10, <1>11, <1>12, <1>13, <1>14, <1>15, <1>16
     DEF ExtInd, ExtKept

\* The owner and the sweeper keep the invariant.
LEMMA OwnerKeeps ==
    ASSUME ExtInd, OwnerNext
    PROVE  ExtKept
BY RequestKeeps, AcknowledgeKeeps, AnswersKeep, SwitchKeeps DEF OwnerNext, ConfirmExecution

-----------------------------------------------------------------------------
(* The handler *)

\* Before the call of the extension.
Early == {"get", "consume", "require", "lease", "invoke"}

\* A step of one handler that calls no extension.
LEMMA HandlerMoves ==
    ASSUME ExtInd, NEW e \in Executors, NEW h \in Handler, handler' = [handler EXCEPT ![e] = h],
           ExtStoreMoves, PoolInd', ReserveInv', ConsumedStays, NoProposal,
           UNCHANGED <<claiming, effects, binding, current, installation, enabled, pinned, acknowledged>>,
           \A g \in Executors : g # e => exec'[g] = exec[g],
           HandlerFits(exec[e], handler[e])'
    PROVE  ExtKept
<1>1. handler \in [Executors -> Handler]
  BY DEF ExtInd, ExtColumns
<1>2. ExtColumns'
  BY <1>1 DEF ExtInd, ExtColumns
<1>3. ASSUME NEW g \in Executors PROVE HandlerFits(exec[g], handler[g])'
  <2>1. CASE g = e
    BY <2>1
  <2>2. CASE g # e
    <3>1. exec'[g] = exec[g] /\ handler'[g] = handler[g]
      BY <1>1, <2>2
    <3>2. QED
      BY <3>1, HandlerRests
  <2>3. QED
    BY <2>1, <2>2
<1>4. QED
  BY <1>2, <1>3, ExtRests

\* A step of one handler that only reads.
LEMMA ReadKeeps ==
    ASSUME ExtInd, NEW e \in Executors, exec[e].phase = "handler", NEW pc \in Pc, Goto(e, pc),
           UNCHANGED <<poolVars, confVars, installation, enabled, pinned, effects, acknowledged>>,
           pc # "finish", pc \in Early => handler[e].pc \in Early,
           pc \in {"lease", "invoke"} =>
             /\ state[exec[e].fence.task] = "consumed"
             /\ reservation[exec[e].fence.task].epoch = exec[e].fence.epoch
    PROVE  ExtKept
<1>0. UNCHANGED <<storeVars, exec, claiming, state, expires_at, binding, consumed_released,
                  reservation, active, current>>
  BY DEF poolVars, confVars
<1>a. handler \in [Executors -> Handler]
  BY DEF ExtInd, ExtColumns
<1>1. PICK h \in Handler : handler' = [handler EXCEPT ![e] = h] /\ h.pc = pc
  <2>1. /\ [handler[e] EXCEPT !.pc = pc] \in Handler
        /\ handler' = [handler EXCEPT ![e] = [handler[e] EXCEPT !.pc = pc]]
        /\ [handler[e] EXCEPT !.pc = pc].pc = pc
    BY <1>a DEF Goto, Handler
  <2>2. QED
    BY <2>1
<1>2. TaskWrites /\ ExtStoreMoves
  BY <1>0 DEF TaskWrites, ExtStoreMoves
<1>3. LeaseInv' /\ Onward /\ Pinned /\ StoreTypeOK'
  BY <1>2, ExtStoreMoved DEF ExtInd, ReserveInv
<1>4. PoolInd'
  BY <1>0, <1>3, NoneMoves DEF ExtInd
<1>5. ReserveInv'
  <2>1. /\ expires_at \in [Tasks -> Nat] /\ binding \in [Tasks -> Nat] /\ current \in [Targets -> Nat]
        /\ state \in [Tasks -> State]
    BY DEF ExtInd, ReserveInv, ConfTypeOK
  <2>2. QED
    BY <1>0, <1>3, <2>1, ReserveRests DEF ExtInd, reservationVars
<1>6. ConsumedStays /\ NoProposal
  BY <1>0 DEF ConsumedStays, NoProposal, Open
<1>7. HandlerFits(exec[e], handler[e])'
  <2>1. HandlerFits(exec[e], handler[e])
    BY DEF ExtInd
  <2>2. handler'[e].pc = pc
    BY <1>a, <1>1
  <2>3. QED
    BY <1>0, <2>1, <2>2 DEF HandlerFits, Early
<1>8. QED
  BY <1>0, <1>1, <1>2, <1>4, <1>5, <1>6, <1>7, HandlerMoves

\* The steps of a handler that only read.
LEMMA ReadsKeep ==
    ASSUME ExtInd, NEW e \in Executors, NEW at \in Clock,
           \/ GetConfirmation(e) \/ requireActiveExecutionReservation(e)
           \/ ConsumeRefused(e, at) \/ CheckLease(e, at)
    PROVE  ExtKept
<1>0. {"get", "consume", "require", "uncertain", "lease", "invoke", "resolution"} \subseteq Pc
  BY DEF Pc
<1>1. HandlerFits(exec[e], handler[e])
  BY DEF ExtInd
<1>2. CASE GetConfirmation(e)
  BY <1>0, <1>2, ReadKeeps DEF GetConfirmation, At, Early
<1>3. CASE requireActiveExecutionReservation(e)
  <2>1. ReservationHeld(exec[e].fence) =>
           /\ state[exec[e].fence.task] = "consumed"
           /\ reservation[exec[e].fence.task].epoch = exec[e].fence.epoch
    BY DEF ReservationHeld
  <2>2. QED
    BY <1>0, <1>3, <2>1, ReadKeeps DEF requireActiveExecutionReservation, At, Early
<1>4. CASE ConsumeRefused(e, at)
  BY <1>0, <1>4, ReadKeeps DEF ConsumeRefused, At, Early
<1>5. CASE CheckLease(e, at)
  BY <1>0, <1>1, <1>5, ReadKeeps DEF CheckLease, At, Early, HandlerFits
<1>6. QED
  BY <1>2, <1>3, <1>4, <1>5

\* The consent is consumed into the reservation of this lease, or found void.
LEMMA ConsumeKeeps ==
    ASSUME ExtInd, NEW e \in Executors, NEW at \in Clock, ConsumeExecution(e, at)
    PROVE  ExtKept
<1> DEFINE f == exec[e].fence
           t == f.task
<1>0. /\ f \in Fence /\ t \in Tasks /\ handler \in [Executors -> Handler]
      /\ StoreTypeOK /\ ReserveInv
      /\ expires_at \in [Tasks -> Nat] /\ binding \in [Tasks -> Nat] /\ current \in [Targets -> Nat]
      /\ state \in [Tasks -> State]
  BY ExecFields DEF ExtInd, PoolInd, TypeOK, ExtColumns, ReserveInv, ConfTypeOK
<1>1. /\ Consume(f, at) /\ state[t] = "confirmed"
      /\ Goto(e, "require") \/ Goto(e, "resolution")
      /\ UNCHANGED <<exec, claiming, installation, enabled, pinned, effects, acknowledged>>
      /\ UNCHANGED <<consumed_released, current>>
  BY DEF ConsumeExecution, Consume
<1>2. PICK h \in Handler : /\ handler' = [handler EXCEPT ![e] = h]
                           /\ h.pc \in {"require", "resolution"}
  <2>1. ASSUME NEW pc \in {"require", "resolution"}, Goto(e, pc)
        PROVE  \E h \in Handler : /\ handler' = [handler EXCEPT ![e] = h]
                                  /\ h.pc \in {"require", "resolution"}
    <3>1. /\ [handler[e] EXCEPT !.pc = pc] \in Handler
          /\ handler' = [handler EXCEPT ![e] = [handler[e] EXCEPT !.pc = pc]]
          /\ [handler[e] EXCEPT !.pc = pc].pc = pc
      BY <1>0, <2>1 DEF Goto, Handler, Pc
    <3>2. QED
      BY <3>1
  <2>2. QED
    BY <1>1, <2>1
<1>3. effects[t] = <<>>
  BY <1>0, <1>1 DEF ExtInd, ConsentUsedOnce
<1>4. HandlerFits(exec[e], handler[e])'
  BY <1>0, <1>1, <1>2, <1>3 DEF HandlerFits
<1>5. CASE \E code \in FailureCode : terminalizeExpiredTx(t, code) /\ UNCHANGED <<reservation, active>>
  <2>1. TaskWrites /\ ExtStoreMoves
    BY <1>0, <1>5, ExpiryWrites DEF ExtStoreMoves
  <2>2. LeaseInv' /\ Onward /\ Pinned /\ StoreTypeOK'
    BY <2>1, ExtStoreMoved DEF ExtInd, ReserveInv
  <2>3. PoolInd'
    BY <1>1, <2>2, NoneMoves DEF ExtInd
  <2>4. /\ state' = [state EXCEPT ![t] = "expired"]
        /\ UNCHANGED <<expires_at, binding, reservation, active, consumed_released>>
    BY <1>1, <1>5 DEF terminalizeExpiredTx, SetState
  <2>5. state' \in [Tasks -> State] /\ \A u \in Tasks : state'[u] = "consumed" <=> state[u] = "consumed"
    BY <1>0, <1>1, <2>4 DEF State
  <2>6. ReserveInv'
    BY <1>0, <1>1, <2>2, <2>4, <2>5, ReserveRests DEF reservationVars
  <2>7. ConsumedStays /\ NoProposal
    BY <1>0, <1>1, <2>4 DEF ConsumedStays, NoProposal, Open
  <2>8. QED
    BY <1>1, <1>2, <1>4, <2>1, <2>3, <2>4, <2>6, <2>7, HandlerMoves
<1>6. CASE /\ FenceHolds(f, at) /\ SetState(t, "consumed")
           /\ reservation' = [reservation EXCEPT ![t] =
                 [attempt |-> f.attempt, epoch |-> f.epoch, revision |-> f.revision]]
           /\ active' = active \cup {t}
           /\ UNCHANGED storeVars
  <2>1. TaskWrites /\ ExtStoreMoves
    BY <1>6 DEF TaskWrites, ExtStoreMoves
  <2>2. Pinned /\ StoreTypeOK'
    BY <2>1, ExtStoreMoved DEF ExtInd, ReserveInv
  <2>3. PoolInd'
    BY <1>1, <2>2, NoneMoves DEF ExtInd
  <2>4. f \in CurrentFences
    BY <1>0, <1>6, MatchingFence
  <2>5. ReserveInv'
    BY <1>0, <1>1, <1>6, <2>4, ConsumeReserves
  <2>6. state' = [state EXCEPT ![t] = "consumed"] /\ UNCHANGED <<expires_at, binding>>
    BY <1>6 DEF SetState
  <2>7. ConsumedStays
    BY <1>0, <1>1, <1>6, <2>6 DEF ConsumedStays, ReserveInv, ConfTypeOK
  <2>8. NoProposal
    BY <1>0, <1>1, <1>6, <2>6 DEF NoProposal, Open
  <2>9. QED
    BY <1>1, <1>2, <1>4, <2>1, <2>3, <2>5, <2>6, <2>7, <2>8, HandlerMoves
<1>7. {"confirmation_expired", "confirmation_stale"} \subseteq FailureCode
  BY DEF FailureCode
<1>8. QED
  BY <1>1, <1>5, <1>6, <1>7 DEF Consume

\* The call of the extension: the only one of its consent.
LEMMA InvokeKeeps ==
    ASSUME ExtInd, NEW e \in Executors, Invoke(e)
    PROVE  ExtKept
<1> DEFINE f == exec[e].fence
           t == f.task
<1>0. /\ f \in Fence /\ t \in Tasks /\ f.epoch \in Nat /\ handler \in [Executors -> Handler]
      /\ StoreTypeOK /\ ReserveInv /\ effects \in [Tasks -> Seq(Nat)]
      /\ expires_at \in [Tasks -> Nat] /\ binding \in [Tasks -> Nat] /\ current \in [Targets -> Nat]
      /\ state \in [Tasks -> State] /\ claiming \subseteq Tasks
  BY ExecFields DEF ExtInd, PoolInd, TypeOK, ExtColumns, ReserveInv, ConfTypeOK
<1>1. PICK o \in {"succeeded", "task_error", "uncertain"} :
         handler' = [handler EXCEPT ![e] = [pc |-> "finish", outcome |-> o]]
  BY DEF Invoke
<1>2. /\ exec[e].phase = "handler" /\ handler[e].pc = "invoke"
      /\ effects' = [effects EXCEPT ![t] = Append(@, f.epoch)]
      /\ UNCHANGED <<storeVars, exec, claiming, state, expires_at, binding, consumed_released,
                     reservation, active, current, installation, enabled, pinned, acknowledged>>
  BY DEF Invoke, At, poolVars, confVars
<1>3. state[t] = "consumed" /\ reservation[t].epoch = f.epoch /\ effects[t] = <<>>
  BY <1>2 DEF ExtInd, HandlerFits
<1>4. effects'[t] = <<f.epoch>> /\ \A u \in Tasks : u # t => effects'[u] = effects[u]
  BY <1>0, <1>2, <1>3
<1>5. TaskWrites /\ ExtStoreMoves
  BY <1>2 DEF TaskWrites, ExtStoreMoves
<1>6. SlotInv' /\ LeaseInv' /\ Onward /\ Pinned /\ StoreTypeOK'
  BY <1>5, ExtStoreMoved DEF ExtInd, ReserveInv
<1>7. PoolInd'
  BY <1>2, <1>6, NoneMoves DEF ExtInd
<1>8. ReserveInv'
  BY <1>0, <1>2, <1>6, ReserveRests DEF reservationVars
<1>9. ExtColumns'
  <2>1. [pc |-> "finish", outcome |-> o] \in Handler
    BY DEF Handler, Pc
  <2>2. effects' \in [Tasks -> Seq(Nat)]
    BY <1>0, <1>2
  <2>3. QED
    BY <1>0, <1>1, <1>2, <2>1, <2>2 DEF ExtInd, ExtColumns
<1>10. ConsentUsedOnce'
  BY <1>2, <1>3, <1>4 DEF ExtInd, ConsentUsedOnce
<1>11. ASSUME NEW g \in Executors PROVE HandlerFits(exec[g], handler[g])'
  <2>1. CASE g = e
    BY <1>0, <1>1, <1>2, <1>3, <2>1 DEF HandlerFits
  <2>2. CASE g # e
    <3>1. handler'[g] = handler[g] /\ exec'[g] = exec[g]
      BY <1>0, <1>1, <1>2, <2>2
    <3>2. HandlerFits(exec[g], handler[g])
      BY DEF ExtInd
    <3>3. PICK u \in Tasks : u = exec[g].fence.task
      BY ExecFields DEF ExtInd, PoolInd
    <3>4. exec[g].phase = "handler" /\ u = t => exec[g].fence.epoch # f.epoch
      BY <1>2, <2>2, <3>3 DEF ExtInd, PoolInd, Distinct, Active
    <3>5. CASE u = t
      BY <1>2, <1>3, <3>1, <3>2, <3>3, <3>4, <3>5 DEF HandlerFits
    <3>6. CASE u # t
      BY <1>2, <1>4, <3>1, <3>2, <3>3, <3>6 DEF HandlerFits
    <3>7. QED
      BY <3>5, <3>6
  <2>3. QED
    BY <2>1, <2>2
<1>12. ClaimsAreLater'
  <2>1. t \in claiming => f.epoch < lease_epoch[t]
    BY <1>2 DEF ExtInd, PoolInd, Distinct, Active
  <2>2. lease_epoch' = lease_epoch
    BY <1>2 DEF storeVars
  <2>3. QED
    BY <1>0, <1>2, <1>3, <1>4, <2>1, <2>2 DEF ExtInd, ClaimsAreLater
<1>13. ConsentHasTask' /\ BindingsFit' /\ ProposalsDoNotInterfere'
  BY <1>2 DEF ExtInd, ConsentHasTask, BindingsFit, ProposalsDoNotInterfere, Open, Stale, storeVars
<1>14. QED
  BY <1>2, <1>5, <1>6, <1>7, <1>8, <1>9, <1>10, <1>11, <1>12, <1>13
     DEF ExtInd, ExtKept, ConsumedStays

-----------------------------------------------------------------------------
(* The end of the task *)

\* What a step of the end does to the store and the consents: it ends the task,
\* or finds its fence moved and writes nothing.
Ends(f, at, o) == finish(f, at, o) \/ UNCHANGED <<storeVars, confVars>>

\* The reservation ends with the task, or stays with an uncertain one.
LEMMA EndKeepsReservations ==
    ASSUME ExtInd, NEW e \in Executors, NEW at \in Clock,
           NEW o \in {"succeeded", "task_error", "uncertain"}, Ends(exec[e].fence, at, o)
    PROVE  /\ ExtStoreMoves /\ StoreTypeOK' /\ Pinned
           /\ ReserveInv' /\ ConsumedStays /\ NoProposal
           /\ UNCHANGED <<binding, current>>
<1> DEFINE f == exec[e].fence
           t == f.task
<1>0. /\ f \in Fence /\ t \in Tasks /\ StoreTypeOK /\ ReserveInv
      /\ expires_at \in [Tasks -> Nat] /\ binding \in [Tasks -> Nat] /\ current \in [Targets -> Nat]
      /\ state \in [Tasks -> State]
  BY ExecFields DEF ExtInd, PoolInd, TypeOK, ReserveInv, ConfTypeOK
<1>1. CASE finish(f, at, o)
  <2>1. /\ coreTerminal(f, at, OutcomeStatus(o), OutcomeCode(o))
        /\ UNCHANGED <<state, expires_at, binding, reservation, current>>
        /\ active' = (IF o # "uncertain" THEN active \ {t} ELSE active)
        /\ consumed_released' = (IF o # "uncertain" /\ state[t] = "consumed"
                                 THEN consumed_released \cup {t} ELSE consumed_released)
    BY <1>1 DEF finish
  <2>2. ExtStoreMoves
    BY <1>0, <2>1, WritesMatch DEF Outcome, ExtStoreMoves
  <2>3. LeaseInv' /\ Onward /\ Pinned /\ StoreTypeOK'
    BY <2>2, ExtStoreMoved DEF ExtInd, ReserveInv
  <2>4. status'[t] \in Terminal
    BY <1>0, <2>1 DEF coreTerminal, OutcomeStatus, Terminal, StoreTypeOK
  <2>5. ASSUME o = "uncertain" PROVE ReserveInv'
    BY <1>0, <2>1, <2>3, <2>5, ReserveRests DEF reservationVars
  <2>6. ASSUME o # "uncertain" PROVE ReserveInv'
    BY <1>0, <2>1, <2>3, <2>4, <2>6, ReleaseReserves
  <2>7. ConsumedStays /\ NoProposal
    BY <2>1 DEF ConsumedStays, NoProposal, Open
  <2>8. QED
    BY <2>1, <2>2, <2>3, <2>5, <2>6, <2>7
<1>2. CASE UNCHANGED <<storeVars, confVars>>
  <2>1. UNCHANGED <<state, expires_at, binding, consumed_released, reservation, active, current>>
    BY <1>2 DEF confVars
  <2>2. TaskWrites /\ ExtStoreMoves
    BY <1>2 DEF TaskWrites, ExtStoreMoves
  <2>3. LeaseInv' /\ Onward /\ Pinned /\ StoreTypeOK'
    BY <2>2, ExtStoreMoved DEF ExtInd, ReserveInv
  <2>4. ReserveInv'
    BY <1>0, <2>1, <2>3, ReserveRests DEF reservationVars
  <2>5. ConsumedStays /\ NoProposal
    BY <2>1 DEF ConsumedStays, NoProposal, Open
  <2>6. QED
    BY <2>1, <2>2, <2>3, <2>4, <2>5
<1>3. QED
  BY <1>1, <1>2 DEF Ends

\* The reclaimed worker ends its task as uncertain, or fails to.
LEMMA FailUncertainKeeps ==
    ASSUME ExtInd, NEW e \in Executors, NEW at \in Clock, FailUncertain(e, at)
    PROVE  ExtKept
<1>0. handler \in [Executors -> Handler]
  BY DEF ExtInd, ExtColumns
<1>1. /\ Ends(exec[e].fence, at, "uncertain") /\ Goto(e, "resolution")
      /\ UNCHANGED <<exec, claiming, installation, enabled, pinned, effects, acknowledged>>
  BY DEF FailUncertain, Ends
<1>2. PICK h \in Handler : handler' = [handler EXCEPT ![e] = h] /\ h.pc = "resolution"
  <2>1. /\ [handler[e] EXCEPT !.pc = "resolution"] \in Handler
        /\ handler' = [handler EXCEPT ![e] = [handler[e] EXCEPT !.pc = "resolution"]]
        /\ [handler[e] EXCEPT !.pc = "resolution"].pc = "resolution"
    BY <1>0, <1>1 DEF Goto, Handler, Pc
  <2>2. QED
    BY <2>1
<1>3. /\ ExtStoreMoves /\ StoreTypeOK' /\ Pinned /\ ReserveInv' /\ ConsumedStays /\ NoProposal
      /\ UNCHANGED <<binding, current>>
  BY <1>1, EndKeepsReservations
<1>4. PoolInd'
  BY <1>1, <1>3, NoneMoves DEF ExtInd
<1>5. HandlerFits(exec[e], handler[e])'
  BY <1>0, <1>2 DEF HandlerFits
<1>6. QED
  BY <1>1, <1>2, <1>3, <1>4, <1>5, HandlerMoves

\* The domain's own terminal write, and the fall back to persistTerminal.
LEMMA FinishKeeps ==
    ASSUME ExtInd, NEW e \in Executors, NEW at \in Clock, FinishCommits(e, at) \/ FinishFails(e, at)
    PROVE  ExtKept
<1>0. /\ handler \in [Executors -> Handler] /\ exec \in [Executors -> ExecState]
      /\ HandlerFits(exec[e], handler[e])
  BY DEF ExtInd, ExtColumns, PoolInd, TypeOK
<1>1. /\ exec[e].phase = "handler"
      /\ handler[e].pc \in {"finish", "resolution"}
      /\ Ends(exec[e].fence, at, LastOutcome(e))
      /\ handler' = [handler EXCEPT ![e] = IdleHandler]
      /\ UNCHANGED <<claiming, installation, enabled, pinned, effects, acknowledged>>
  BY DEF FinishCommits, FinishFails, Ends, At
<1>2. LastOutcome(e) \in {"succeeded", "task_error", "uncertain"}
  <2>1. handler[e].outcome \in {"none", "succeeded", "task_error", "uncertain"}
    BY <1>0 DEF Handler
  <2>2. QED
    BY <1>0, <1>1, <2>1 DEF LastOutcome, HandlerFits
<1>3. /\ ExtStoreMoves /\ StoreTypeOK' /\ Pinned /\ ReserveInv' /\ ConsumedStays /\ NoProposal
      /\ UNCHANGED <<binding, current>>
  BY <1>1, <1>2, EndKeepsReservations
<1> DEFINE x == [exec[e] EXCEPT !.phase = "persist", !.outcome = "task_error"]
<1>4. x \in ExecState /\ Stays(e, x) /\ x.phase = "persist"
  <2>1. Stays(e, exec[e])
    BY <1>1, <1>3, Resting DEF ExtInd
  <2>2. exec[e] \in ExecState
    BY <1>0
  <2>3. x \in ExecState /\ x.phase = "persist" /\ x.fence = exec[e].fence
        /\ x.claimed = exec[e].claimed /\ x.tries = exec[e].tries /\ x.outcome = "task_error"
    BY <2>2 DEF ExecState, Phase, Outcome
  <2>4. exec[e].tries = 0
    BY <1>1, <2>1 DEF Stays, Shape
  <2>5. Shape(x)
    BY <2>3, <2>4 DEF Shape
  <2>6. QED
    BY <2>1, <2>3, <2>5 DEF Stays
<1>5. PICK y \in ExecState : /\ exec' = [exec EXCEPT ![e] = y]
                             /\ y.phase # "handler"
                             /\ y.phase = "idle" \/ Stays(e, y)
  <2>1. CASE FinishCommits(e, at)
    <3>1. exec' = [exec EXCEPT ![e] = IdleExec] /\ IdleExec.phase = "idle"
      BY <2>1 DEF FinishCommits, Stop, IdleExec
    <3>2. QED
      BY <3>1, IdleIsTyped
  <2>2. CASE FinishFails(e, at)
    <3>1. exec' = [exec EXCEPT ![e] = x]
      BY <1>0, <2>2 DEF FinishFails
    <3>2. QED
      BY <1>4, <3>1
  <2>3. QED
    BY <2>1, <2>2
<1>6. PoolInd'
  BY <1>1, <1>3, <1>5, OneMoves DEF ExtInd
<1>7. HandlerFits(exec[e], handler[e])'
  BY <1>0, <1>5 DEF HandlerFits
<1>8. IdleHandler \in Handler
  BY DEF IdleHandler, Handler, Pc
<1>9. \A g \in Executors : g # e => exec'[g] = exec[g]
  BY <1>0, <1>5
<1>10. QED
  BY <1>1, <1>3, <1>6, <1>7, <1>8, <1>9, HandlerMoves

-----------------------------------------------------------------------------
(* The invariant *)

\* No executor is in its handler, no consent is asked for, when the system starts.
LEMMA ExtStart ==
    ASSUME ExtInit
    PROVE  ExtInd
<1>1. PoolInd /\ SlotInv /\ StoreTypeOK
  BY PoolStart, SlotInit DEF ExtInit, PoolInit, SlotInv
<1>2. ReserveInv /\ ConsentHasTask
  BY <1>1 DEF ExtInit, ConfInit, StoreInit, ReserveInv, ConfTypeOK, State, Reservation, LeaseInv,
              LeaseExact, ReservationExact, ReleasedFits, ConsentHasTask
<1>3. ExtColumns
  BY DEF ExtInit, ExtColumns, Handler, IdleHandler, Pc
<1>4. ConsentUsedOnce /\ ClaimsAreLater
  BY DEF ExtInit, ConsentUsedOnce, ClaimsAreLater, PoolInit
<1>5. \A e \in Executors : HandlerFits(exec[e], handler[e])
  BY DEF ExtInit, PoolInit, IdleExec, HandlerFits
<1>6. BindingsFit /\ ProposalsDoNotInterfere
  BY DEF ExtInit, ConfInit, BindingsFit, ProposalsDoNotInterfere, Open
<1>7. QED
  BY <1>1, <1>2, <1>3, <1>4, <1>5, <1>6 DEF ExtInd

\* Every step keeps it.
LEMMA ExtStep ==
    ASSUME ExtInd, [ExtNext]_allVars
    PROVE  ExtKept
<1>1. ASSUME NEW e \in Executors, HandlerNext(e) PROVE ExtKept
  <2>1. ASSUME GetConfirmation(e) \/ requireActiveExecutionReservation(e) PROVE ExtKept
    <3>1. now \in Clock
      BY ConstantsAssumption DEF ExtInd, SlotInv, StoreTypeOK, Clock
    <3>2. QED
      BY <2>1, <3>1, ReadsKeep
  <2>2. ASSUME NEW at \in Clock,
               \/ ConsumeExecution(e, at) \/ ConsumeRefused(e, at) \/ CheckLease(e, at)
               \/ FailUncertain(e, at) \/ FinishCommits(e, at) \/ FinishFails(e, at)
        PROVE  ExtKept
    BY <2>2, ReadsKeep, ConsumeKeeps, FailUncertainKeeps, FinishKeeps
  <2>3. QED
    BY <1>1, <2>1, <2>2, InvokeKeeps DEF HandlerNext
<1>2. CASE UNCHANGED allVars
  <2>1. /\ UNCHANGED <<storeVars, exec, claiming, state, expires_at, binding, consumed_released,
                       reservation, active, current>>
        /\ UNCHANGED <<installation, enabled, pinned, handler, effects, acknowledged>>
    BY <1>2 DEF allVars, poolVars, confVars, extVars
  <2>2. TaskWrites /\ ExtStoreMoves
    BY <2>1 DEF TaskWrites, ExtStoreMoves
  <2>3. LeaseInv' /\ Onward /\ StoreTypeOK'
    BY <2>2, ExtStoreMoved DEF ExtInd, ReserveInv
  <2>4. /\ expires_at \in [Tasks -> Nat] /\ binding \in [Tasks -> Nat] /\ current \in [Targets -> Nat]
        /\ state \in [Tasks -> State]
    BY DEF ExtInd, ReserveInv, ConfTypeOK
  <2>5. ReserveInv'
    BY <2>1, <2>3, <2>4, ReserveRests DEF ExtInd, reservationVars
  <2>6. ExtColumns' /\ ConsumedStays /\ NoProposal
    BY <2>1 DEF ExtInd, ExtColumns, ConsumedStays, NoProposal, Open
  <2>7. QED
    BY <2>1, <2>2, <2>5, <2>6, OwnerRests
<1>3. QED
  BY <1>1, <1>2, OwnerKeeps, PoolKeeps DEF ExtNext

\* The inductive invariant holds of every execution.
LEMMA ExtInvariant == ExtSpec => []ExtInd
<1>1. ExtInit => ExtInd
  BY ExtStart
<1>2. ExtInd /\ [ExtNext]_allVars => ExtInd'
  BY ExtStep DEF ExtKept
<1>3. QED
  BY <1>1, <1>2, PTL DEF ExtSpec

\* However often a task is reclaimed, its process crashes or its handler lives on
\* without a lease, the extension is called at most once for one consent, under
\* the lease that consumed it; and every path that ends a task gives its slot back
\* once (Resolve, the terminal write of the handler and persistTerminal).
THEOREM OneConsentOneCall == ExtSpec => []ExtInv
<1>1. ExtInd => ExtInv
  BY DEF ExtInd, ExtInv, ExtTypeOK, ReserveInv, PoolInd, TypeOK, ExtColumns, SlotInv
<1>2. QED
  BY <1>1, ExtInvariant, PTL

\* A proposal that can still be answered or executed has the current binding of
\* its installation: independent requests do not invalidate one another
\* (CreateExecutionTask's search for a newer consent).
THEOREM ProposalsAreIndependent == ExtSpec => []ProposalsDoNotInterfere
<1>1. ExtInd => ProposalsDoNotInterfere
  BY DEF ExtInd
<1>2. QED
  BY <1>1, ExtInvariant, PTL

-----------------------------------------------------------------------------
(* The fence of an installation *)

\* A handler that is about to consume finds the consent unused, unless a later
\* lease has used it; and one that could not resolve holds its fence no longer if
\* the consent was used.
Settled(x, h) ==
    x.phase = "handler" /\ state[x.fence.task] = "consumed" =>
      /\ h.pc = "consume" => x.fence.epoch < lease_epoch[x.fence.task]
      /\ h.pc = "resolution" => ~FenceHolds(x.fence, now)

\* The inductive invariant, where calls of the database do not fail and
\* transactions do not lag.
ReclaimInd ==
    ~faults /\ MaxLag = 0 =>
      ReclaimedKeepsFence /\ \A e \in Executors : Settled(exec[e], handler[e])

\* A row that keeps its revision keeps its lease, or has it renewed while it lasts;
\* a task that has ended keeps its epoch, and time does not go back.
LeaseMoves ==
    /\ now' >= now
    /\ \A t \in Tasks :
         /\ status[t] \in Terminal => lease_epoch'[t] = lease_epoch[t]
         /\ revision'[t] = revision[t] =>
              \/ lease_expires_at'[t] = lease_expires_at[t]
              \/ \E at \in Clock : lease_expires_at[t] > at

\* The operations of the queue.
LEMMA StoreLeaseMoves ==
    ASSUME StoreTypeOK, [StoreNext]_storeVars
    PROVE  LeaseMoves
<1>0. /\ now \in Nat /\ revision \in [Tasks -> Nat] /\ lease_expires_at \in [Tasks -> Int]
      /\ lease_epoch \in [Tasks -> Nat]
  BY DEF StoreTypeOK
<1>e. \A t \in Tasks : status[t] \in Terminal => lease_epoch'[t] = lease_epoch[t]
  BY FrozenStep DEF Frozen
<1> DEFINE Kept(t) == revision'[t] = revision[t] =>
                        \/ lease_expires_at'[t] = lease_expires_at[t]
                        \/ \E at \in Clock : lease_expires_at[t] > at
           Goal == now' >= now /\ \A t \in Tasks : Kept(t)
<1>w. ASSUME NEW t \in Tasks, NewRevision(t), now' = now,
             \A u \in Tasks : u # t => lease_expires_at'[u] = lease_expires_at[u]
      PROVE  Goal
  <2>1. revision'[t] # revision[t]
    BY <1>0, <1>w DEF NewRevision
  <2>2. QED
    BY <1>0, <1>w, <2>1
<1>k. ASSUME lease_expires_at' = lease_expires_at, now' >= now PROVE Goal
  BY <1>k
<1>z. now' = now => now' >= now
  BY <1>0
<1>d. ASSUME NEW t \in Tasks, DropLease(t)
      PROVE  \A u \in Tasks : u # t => lease_expires_at'[u] = lease_expires_at[u]
  BY <1>0, <1>d DEF DropLease
<1> HIDE DEF Goal
<1>1. ASSUME NEW t \in Tasks, NEW s \in {"queued", "waiting_user"}, NEW a \in Nat,
             CreateTask(t, s, a)
      PROVE  Goal
  BY <1>1, <1>k, <1>z DEF CreateTask, leaseVars
<1>2. ASSUME NEW t \in Tasks, NEW n \in Tasks, NEW at \in Clock, RetryTask(t, n, at) PROVE Goal
  BY <1>2, <1>k, <1>z DEF RetryTask, leaseVars
<1>3. ASSUME NEW t \in Tasks, DeleteTask(t) PROVE Goal
  BY <1>3, <1>k, <1>z DEF DeleteTask, leaseVars
<1>4. ASSUME NEW t \in Tasks, ResumeTask(t) PROVE Goal
  BY <1>4, <1>w, <1>d DEF ResumeTask
<1>5. ASSUME NEW t \in Tasks, CancelTask(t) PROVE Goal
  BY <1>5, <1>w, <1>d DEF CancelTask
<1>6. ASSUME NEW t \in Tasks, NEW at \in Clock, NEW locked \in SUBSET Tasks,
             ClaimOverdue(t, at, locked)
      PROVE  Goal
  BY <1>6, <1>w, <1>d DEF ClaimOverdue
<1>7. ASSUME NEW t \in Tasks, NEW at \in Clock, NEW locked \in SUBSET Tasks,
             ClaimLease(t, at, locked)
      PROVE  Goal
  <2>1. \A u \in Tasks : u # t => lease_expires_at'[u] = lease_expires_at[u]
    BY <1>0, <1>7 DEF ClaimLease
  <2>2. QED
    BY <1>7, <1>w, <2>1 DEF ClaimLease
<1>8. ASSUME NEW f \in CurrentFences, NEW at \in Clock, RenewLease(f, at) PROVE Goal
  <2>1. f.task \in Tasks
    BY FencesAreTyped
  <2>2. /\ lease_expires_at[f.task] > at /\ now' = now
        /\ lease_expires_at' = [lease_expires_at EXCEPT ![f.task] = at + TTL]
    BY <1>8 DEF RenewLease, LeaseHolds
  <2>3. ASSUME NEW t \in Tasks PROVE Kept(t)
    BY <1>0, <2>1, <2>2
  <2>4. QED
    BY <1>z, <2>2, <2>3 DEF Goal
<1>9. ASSUME NEW f \in CurrentFences, NEW at \in Clock, AppendProgress(f, at) PROVE Goal
  BY <1>9, <1>k, <1>z DEF AppendProgress, leaseVars
<1>10. ASSUME NEW f \in CurrentFences, NEW at \in Clock, Kind[f.task] # "cloud_worker",
              WaitTask(f, at)
       PROVE  Goal
  BY <1>10, <1>w, <1>d, FencesAreTyped DEF WaitTask
<1>11. ASSUME NEW f \in CurrentFences, NEW at \in Clock, NEW s \in {"succeeded", "failed"},
              NEW code \in FailureCode, coreTerminal(f, at, s, code)
       PROVE  Goal
  BY <1>11, <1>w, <1>d, FencesAreTyped DEF coreTerminal
<1>12. ASSUME Tick PROVE Goal
  <2>1. now' >= now
    BY <1>0, <1>12 DEF Tick
  <2>2. QED
    BY <1>12, <1>k, <2>1 DEF Tick, leaseVars
<1>13. ASSUME UNCHANGED storeVars PROVE Goal
  BY <1>13, <1>k, <1>z DEF storeVars
<1>14. Goal
  BY <1>1, <1>2, <1>3, <1>4, <1>5, <1>6, <1>7, <1>8, <1>9, <1>10, <1>11, <1>12, <1>13,
     StoreNextCases
<1>15. QED
  BY <1>14, <1>e DEF Goal, LeaseMoves

\* The other writes to tasks.
LEMMA ExtLeaseMoves ==
    ASSUME StoreTypeOK, ExtStoreMoves
    PROVE  LeaseMoves
<1>0. /\ now \in Nat /\ revision \in [Tasks -> Nat] /\ lease_expires_at \in [Tasks -> Int]
  BY DEF StoreTypeOK
<1>k. ASSUME UNCHANGED <<lease_epoch, lease_expires_at, now>> PROVE LeaseMoves
  BY <1>0, <1>k DEF LeaseMoves
<1>1. ASSUME NEW t \in Tasks, NEW at \in Clock, Enqueue(t, at) PROVE LeaseMoves
  BY <1>1, <1>k DEF Enqueue, leaseVars
<1>2. ASSUME NEW t \in Tasks, NEW s, NEW code, EndTask(t, s, code), DropLease(t) PROVE LeaseMoves
  <2>1. /\ revision' = [revision EXCEPT ![t] = @ + 1] /\ UNCHANGED <<lease_epoch, now>>
        /\ lease_expires_at' = [lease_expires_at EXCEPT ![t] = NoTime]
    BY <1>2 DEF EndTask, NewRevision, DropLease
  <2>2. ASSUME NEW u \in Tasks, revision'[u] = revision[u]
        PROVE  lease_expires_at'[u] = lease_expires_at[u]
    BY <1>0, <2>1, <2>2
  <2>3. QED
    BY <1>0, <2>1, <2>2 DEF LeaseMoves
<1>3. ASSUME NEW t \in Tasks, NEW s, NEW code, EndTask(t, s, code), UNCHANGED lease_expires_at
      PROVE  LeaseMoves
  BY <1>3, <1>k DEF EndTask
<1>4. ASSUME UNCHANGED storeVars PROVE LeaseMoves
  BY <1>4, <1>k DEF storeVars
<1>5. ASSUME NEW t \in Tasks, AckWrites(t) PROVE LeaseMoves
  BY <1>5, <1>k DEF AckWrites, leaseVars
<1>6. QED
  BY <1>1, <1>2, <1>3, <1>4, <1>5, StoreLeaseMoves DEF ExtStoreMoves, TaskWrites

\* A fence that holds after a step held before it: a lease that ran out is not
\* renewed, and a revision that was left behind does not come back.
LEMMA FenceHeldBefore ==
    ASSUME ExtInd, ExtKept, MaxLag = 0, NEW e \in Executors, exec[e].phase # "idle",
           FenceHolds(exec[e].fence, now)'  , exec'[e] = exec[e]
    PROVE  FenceHolds(exec[e].fence, now)
<1> DEFINE f == exec[e].fence
           t == f.task
<1>1. /\ t \in Tasks /\ f.revision \in Nat /\ f.revision <= revision[t]
  BY ExecFields DEF ExtInd, PoolInd, Behind
<1>2. StoreTypeOK /\ StoreTypeOK' /\ Pinned /\ LeaseMoves
  BY ExtStoreMoved, ExtLeaseMoves DEF ExtInd, ReserveInv, ExtKept
<1>3. /\ revision[t] \in Nat /\ revision'[t] \in Nat /\ revision'[t] >= revision[t]
      /\ lease_expires_at[t] \in Int /\ lease_expires_at'[t] \in Int
      /\ now \in Nat /\ now' \in Nat /\ now' >= now
  BY <1>1, <1>2 DEF StoreTypeOK, Pinned, LeaseMoves
<1>4. /\ status'[t] = "running" /\ attempt'[t] = f.attempt /\ lease_epoch'[t] = f.epoch
      /\ lease_expires_at'[t] > now' /\ revision'[t] = f.revision
  BY DEF FenceHolds, LeaseHolds
<1>5. revision'[t] = revision[t]
  BY <1>1, <1>3, <1>4
<1>6. status'[t] = status[t] /\ lease_epoch'[t] = lease_epoch[t] /\ attempt'[t] = attempt[t]
  BY <1>1, <1>2, <1>5 DEF Pinned
<1>7. \A at \in Clock : at = now
  BY <1>3 DEF Clock
<1>8. lease_expires_at[t] > now
  <2>1. \/ lease_expires_at'[t] = lease_expires_at[t]
        \/ \E at \in Clock : lease_expires_at[t] > at
    BY <1>1, <1>2, <1>5 DEF LeaseMoves
  <2>2. CASE lease_expires_at'[t] = lease_expires_at[t]
    BY <1>3, <1>4, <2>2
  <2>3. QED
    BY <1>7, <2>1, <2>2
<1>9. QED
  BY <1>4, <1>5, <1>6, <1>8 DEF FenceHolds, LeaseHolds

\* Nobody but another executor that holds the lease uses a consent in this step.
UsedByOthers(e) ==
    \A t \in Tasks : state'[t] = "consumed" =>
      \/ state[t] = "consumed"
      \/ \E g \in Executors \ {e} :
           /\ exec[g].phase # "idle" /\ exec[g].fence.task = t
           /\ FenceHolds(exec[g].fence, now)

\* A handler that does not move stays settled.
LEMMA SettledRests ==
    ASSUME ExtInd, ExtKept, MaxLag = 0, NEW e \in Executors, Settled(exec[e], handler[e]),
           exec'[e] = exec[e], handler'[e] = handler[e], UsedByOthers(e)
    PROVE  Settled(exec[e], handler[e])'
<1> DEFINE f == exec[e].fence
           t == f.task
<1>1. SUFFICES ASSUME exec[e].phase = "handler", state'[t] = "consumed"
               PROVE  /\ handler[e].pc = "consume" => f.epoch < lease_epoch'[t]
                      /\ handler[e].pc = "resolution" => ~FenceHolds(exec[e].fence, now)'
  BY DEF Settled, FenceHolds, LeaseHolds
<1>2. t \in Tasks /\ f.epoch \in Nat /\ f.epoch <= lease_epoch[t]
  BY <1>1, ExecFields DEF ExtInd, PoolInd, Behind
<1>3. /\ lease_epoch[t] \in Nat /\ lease_epoch'[t] \in Nat /\ lease_epoch'[t] >= lease_epoch[t]
  BY <1>2, ExtStoreMoved DEF ExtInd, ReserveInv, ExtKept, StoreTypeOK, Pinned
<1>4. CASE state[t] = "consumed"
  <2>1. /\ handler[e].pc = "consume" => f.epoch < lease_epoch[t]
        /\ handler[e].pc = "resolution" => ~FenceHolds(f, now)
    BY <1>1, <1>4 DEF Settled
  <2>2. handler[e].pc = "resolution" => ~FenceHolds(exec[e].fence, now)'
    BY <1>1, <2>1, FenceHeldBefore
  <2>3. QED
    BY <1>2, <1>3, <2>1, <2>2
<1>5. CASE \E g \in Executors \ {e} :
             exec[g].phase # "idle" /\ exec[g].fence.task = t /\ FenceHolds(exec[g].fence, now)
  <2>1. PICK g \in Executors \ {e} :
               exec[g].phase # "idle" /\ exec[g].fence.task = t /\ FenceHolds(exec[g].fence, now)
    BY <1>5
  <2>2. exec[g].fence.epoch = lease_epoch[t]
    BY <2>1 DEF FenceHolds, LeaseHolds
  <2>3. f.epoch # lease_epoch[t]
    BY <1>1, <2>1, <2>2 DEF ExtInd, PoolInd, Distinct, Active
  <2>4. ~FenceHolds(f, now)
    BY <2>3 DEF FenceHolds, LeaseHolds
  <2>5. ~FenceHolds(exec[e].fence, now)'
    BY <1>1, <2>4, FenceHeldBefore
  <2>6. QED
    BY <1>2, <1>3, <2>3, <2>5
<1>6. QED
  BY <1>1, <1>2, <1>4, <1>5 DEF UsedByOthers

\* What a step has to leave right.
LEMMA ReclaimMoves ==
    ASSUME ExtInd, ExtKept, ReclaimInd, ~faults, MaxLag = 0,
           \A t \in Tasks : state'[t] = "consumed" /\ t \notin active' /\ t \notin acknowledged' =>
             \/ state[t] = "consumed" /\ t \notin active /\ t \notin acknowledged
             \/ reservation'[t].epoch >= lease_epoch'[t],
           \A e \in Executors :
             \/ exec'[e].phase # "handler"
             \/ handler'[e].pc \notin {"consume", "resolution"}
             \/ exec'[e] = exec[e] /\ handler'[e] = handler[e] /\ UsedByOthers(e)
             \/ Settled(exec[e], handler[e])'
    PROVE  ReclaimInd'
<1>1. ReclaimedKeepsFence /\ \A e \in Executors : Settled(exec[e], handler[e])
  BY DEF ReclaimInd
<1>2. LeaseMoves /\ StoreTypeOK' /\ StoreTypeOK
  BY ExtStoreMoved, ExtLeaseMoves DEF ExtInd, ReserveInv, ExtKept
<1>3. ASSUME NEW t \in Tasks, state'[t] = "consumed", reservation'[t].epoch < lease_epoch'[t],
             t \notin acknowledged'
      PROVE  t \in active'
  <2>1. SUFFICES ASSUME t \notin active' PROVE FALSE
    OBVIOUS
  <2>2. reservation'[t].epoch \in Nat /\ lease_epoch'[t] \in Nat
    BY <1>2 DEF ExtKept, ExtInd, ReserveInv, ConfTypeOK, Reservation, StoreTypeOK
  <2>3. state[t] = "consumed" /\ t \notin active /\ t \notin acknowledged
    BY <1>3, <2>1, <2>2
  <2>4. status[t] \in Terminal
    BY <2>3 DEF ExtInd, ReserveInv, ReservationExact
  <2>5. lease_epoch'[t] = lease_epoch[t] /\ reservation'[t] = reservation[t]
    BY <1>2, <2>3, <2>4 DEF LeaseMoves, ExtKept, ConsumedStays
  <2>6. QED
    BY <1>1, <1>3, <2>3, <2>5 DEF ReclaimedKeepsFence
<1>4. ReclaimedKeepsFence'
  BY <1>3 DEF ReclaimedKeepsFence
<1>5. ASSUME NEW e \in Executors PROVE Settled(exec[e], handler[e])'
  <2>1. CASE exec'[e] = exec[e] /\ handler'[e] = handler[e] /\ UsedByOthers(e)
    BY <1>1, <2>1, SettledRests
  <2>2. CASE exec'[e].phase # "handler" \/ handler'[e].pc \notin {"consume", "resolution"}
    BY <2>2 DEF Settled
  <2>3. QED
    BY <2>1, <2>2
<1>6. QED
  BY <1>4, <1>5 DEF ReclaimInd

\* The pool never gives a fence back.
LEMMA PoolReclaims ==
    ASSUME ExtInd, ReclaimInd, ~faults, MaxLag = 0, PoolStep
    PROVE  ReclaimInd'
<1>1. ExtKept
  BY PoolKeeps
<1>2. /\ state' = [t \in Tasks |-> IF CanceledOrTimedOut(t) /\ Open(t)
                                  THEN "expired" ELSE state[t]]
      /\ UNCHANGED <<reservation, active, consumed_released, acknowledged>>
      /\ handler' = [e \in Executors |->
                     IF exec'[e].phase # "handler" THEN IdleHandler
                     ELSE IF exec[e].phase # "handler" THEN [pc |-> "get", outcome |-> "none"]
                     ELSE handler[e]]
  BY DEF PoolStep, terminalizeConfirmationForTask, reservationVars
<1>3. \A t \in Tasks : state'[t] = "consumed" => state[t] = "consumed"
  BY <1>2
<1>4. ASSUME NEW e \in Executors
      PROVE  \/ exec'[e].phase # "handler"
             \/ handler'[e].pc \notin {"consume", "resolution"}
             \/ exec'[e] = exec[e] /\ handler'[e] = handler[e] /\ UsedByOthers(e)
  <2>1. CASE exec'[e].phase = "handler" /\ exec'[e] = exec[e]
    BY <1>2, <1>3, <2>1 DEF UsedByOthers
  <2>2. CASE exec'[e].phase = "handler" /\ exec[e].phase # "handler"
    BY <1>2, <2>2
  <2>3. QED
    BY <2>1, <2>2, HandlerStarts DEF ExtInd
<1>5. QED
  BY <1>1, <1>2, <1>3, <1>4, ReclaimMoves

\* Of the owner's steps only an acknowledgement gives one back.
LEMMA OwnerReclaims ==
    ASSUME ExtInd, ReclaimInd, ~faults, MaxLag = 0, OwnerNext
    PROVE  ReclaimInd'
<1>0. state \in [Tasks -> State]
  BY DEF ExtInd, ReserveInv, ConfTypeOK
<1>1. ASSUME UNCHANGED <<exec, handler>>, acknowledged \subseteq acknowledged',
             active \subseteq active' \cup acknowledged',
             \A t \in Tasks : state'[t] = "consumed" => state[t] = "consumed"
      PROVE  ReclaimInd'
  <2>1. ExtKept
    BY OwnerKeeps
  <2>2. \A e \in Executors : UsedByOthers(e)
    BY <1>1 DEF UsedByOthers
  <2>3. QED
    BY <1>1, <2>1, <2>2, ReclaimMoves
<1>2. ASSUME NEW t \in Tasks, RequestTask(t) PROVE ReclaimInd'
  BY <1>0, <1>1, <1>2 DEF RequestTask, reservationVars
<1>3. ASSUME NEW t \in Tasks, AcknowledgeExtensionExecutionUncertain(t) PROVE ReclaimInd'
  BY <1>1, <1>3 DEF AcknowledgeExtensionExecutionUncertain
<1>4. ASSUME NEW t \in Tasks, NEW at \in Clock,
             Confirm(t, at) \/ Reject(t, at) \/ sweepExpiredConfirmation(t, at),
             UNCHANGED <<exec, claiming, extVars>>
      PROVE  ReclaimInd'
  <2>1. \E s \in {"confirmed", "rejected", "expired"} : state' = [state EXCEPT ![t] = s]
    BY <1>4 DEF Confirm, Reject, sweepExpiredConfirmation, terminalizeExpiredTx, SetState
  <2>2. UNCHANGED <<exec, handler, active, acknowledged>>
    BY <1>4 DEF Confirm, Reject, sweepExpiredConfirmation, reservationVars, extVars
  <2>3. QED
    BY <1>0, <1>1, <2>1, <2>2
<1>5. ASSUME NEW x \in Targets, SetEnabled(x) PROVE ReclaimInd'
  BY <1>1, <1>5 DEF SetEnabled, poolVars, confVars
<1>6. QED
  BY <1>2, <1>3, <1>4, <1>5 DEF OwnerNext, ConfirmExecution

\* A step of one handler.
LEMMA HandlerReclaims ==
    ASSUME ExtInd, ReclaimInd, ~faults, MaxLag = 0, ExtKept, UNCHANGED acknowledged,
           NEW e \in Executors, exec[e].phase = "handler",
           \A g \in Executors \ {e} : exec'[g] = exec[g] /\ handler'[g] = handler[g],
           \A t \in Tasks : state'[t] = "consumed" =>
             \/ state[t] = "consumed"
             \/ exec[e].fence.task = t /\ t \in active' /\ FenceHolds(exec[e].fence, now),
           \A t \in active : t \in active' \/ reservation'[t].epoch >= lease_epoch'[t]
                             \/ state'[t] # "consumed",
           \/ exec'[e].phase # "handler"
           \/ handler'[e].pc \notin {"consume", "resolution"}
           \/ Settled(exec[e], handler[e])'
    PROVE  ReclaimInd'
<1>1. \A g \in Executors \ {e} : UsedByOthers(g)
  BY DEF UsedByOthers
<1>2. QED
  BY <1>1, ReclaimMoves

\* Where a handler goes on when its context holds.
LEMMA Went ==
    ASSUME ExtInd, NEW e \in Executors, NEW pc, Goto(e, pc)
    PROVE  /\ handler'[e].pc = pc
           /\ \A g \in Executors \ {e} : handler'[g] = handler[g]
BY DEF Goto, ExtInd, ExtColumns, Handler

\* The steps of a handler that read.
LEMMA ReadsReclaim ==
    ASSUME ExtInd, ReclaimInd, ~faults, MaxLag = 0, NEW e \in Executors, NEW at \in Clock,
           \/ GetConfirmation(e) \/ requireActiveExecutionReservation(e)
           \/ ConsumeRefused(e, at) \/ CheckLease(e, at)
    PROVE  ReclaimInd'
<1> DEFINE f == exec[e].fence
           t == f.task
<1>0. ExtKept
  BY ReadsKeep
<1>1. at = now
  BY DEF Clock, ExtInd, SlotInv, StoreTypeOK
<1>2. /\ exec[e].phase = "handler"
      /\ UNCHANGED <<storeVars, exec, state, active, reservation, acknowledged>>
  BY DEF GetConfirmation, requireActiveExecutionReservation, ConsumeRefused, CheckLease, At,
         poolVars, confVars
<1>3. UNCHANGED <<status, attempt, lease_epoch, lease_expires_at, revision, now>>
  BY <1>2 DEF storeVars
<1>4. ASSUME NEW pc \in {"consume", "resolution"}, Goto(e, pc),
             state[t] = "consumed" => pc = "resolution" /\ ~FenceHolds(f, now)
      PROVE  ReclaimInd'
  <2>1. Settled(exec[e], handler[e])'
    BY <1>2, <1>3, <1>4, Went DEF Settled, FenceHolds, LeaseHolds
  <2>2. QED
    BY <1>0, <1>2, <1>4, <2>1, Went, HandlerReclaims
<1>5. ASSUME NEW pc \in {"require", "uncertain", "lease", "invoke"}, Goto(e, pc) PROVE ReclaimInd'
  BY <1>0, <1>2, <1>5, Went, HandlerReclaims
<1>6. CASE GetConfirmation(e)
  BY <1>4, <1>5, <1>6 DEF GetConfirmation
<1>7. CASE requireActiveExecutionReservation(e)
  BY <1>5, <1>7 DEF requireActiveExecutionReservation
<1>8. CASE ConsumeRefused(e, at)
  <2>1. /\ handler[e].pc = "consume" /\ Goto(e, "resolution")
        /\ \/ state[t] # "confirmed" \/ ~FenceHolds(f, now)
           \/ ~Expired(t, now) /\ ~Stale(t) /\ ~InstallationFits(t)
    BY <1>1, <1>8 DEF ConsumeRefused, At
  <2>2. state[t] = "consumed" => f.epoch < lease_epoch[t]
    BY <1>2, <2>1 DEF ReclaimInd, Settled
  <2>3. f.epoch \in Nat /\ lease_epoch[t] \in Nat
    BY ExecFields DEF ExtInd, PoolInd, SlotInv, StoreTypeOK
  <2>4. state[t] = "consumed" => ~FenceHolds(f, now)
    BY <2>2, <2>3 DEF FenceHolds, LeaseHolds
  <2>5. QED
    BY <1>4, <2>1, <2>4
<1>9. CASE CheckLease(e, at)
  BY <1>1, <1>4, <1>5, <1>9 DEF CheckLease
<1>10. QED
  BY <1>6, <1>7, <1>8, <1>9

\* The consent is consumed under the lease that holds.
LEMMA ConsumeReclaims ==
    ASSUME ExtInd, ReclaimInd, ~faults, MaxLag = 0, NEW e \in Executors, NEW at \in Clock,
           ConsumeExecution(e, at)
    PROVE  ReclaimInd'
<1> DEFINE f == exec[e].fence
           t == f.task
<1>0. ExtKept /\ t \in Tasks /\ state \in [Tasks -> State]
  BY ConsumeKeeps, ExecFields DEF ExtInd, PoolInd, ReserveInv, ConfTypeOK
<1>1. at = now
  BY DEF Clock, ExtInd, SlotInv, StoreTypeOK
<1>2. /\ exec[e].phase = "handler" /\ Consume(f, now) /\ UNCHANGED <<exec, acknowledged>>
      /\ \/ state'[t] = "consumed" /\ Goto(e, "require")
         \/ state'[t] # "consumed" /\ Goto(e, "resolution")
  BY <1>1 DEF ConsumeExecution, At
<1>3. active \subseteq active'
  BY <1>2 DEF Consume
<1>4. \A u \in Tasks : state'[u] = "consumed" =>
         state[u] = "consumed" \/ (t = u /\ u \in active' /\ FenceHolds(f, now))
  BY <1>0, <1>2 DEF Consume, SetState, terminalizeExpiredTx
<1>5. CASE Goto(e, "require")
  BY <1>0, <1>2, <1>3, <1>4, <1>5, Went, HandlerReclaims
<1>6. CASE state'[t] # "consumed" /\ Goto(e, "resolution")
  <2>1. Settled(exec[e], handler[e])'
    BY <1>2, <1>6 DEF Settled
  <2>2. QED
    BY <1>0, <1>2, <1>3, <1>4, <1>6, <2>1, Went, HandlerReclaims
<1>7. QED
  BY <1>2, <1>5, <1>6

\* The call changes no consent.
LEMMA InvokeReclaims ==
    ASSUME ExtInd, ReclaimInd, ~faults, MaxLag = 0, NEW e \in Executors, Invoke(e)
    PROVE  ReclaimInd'
<1>1. ExtKept /\ handler \in [Executors -> Handler]
  BY InvokeKeeps DEF ExtInd, ExtColumns
<1>2. PICK o \in {"succeeded", "task_error", "uncertain"} :
         handler' = [handler EXCEPT ![e] = [pc |-> "finish", outcome |-> o]]
  BY DEF Invoke
<1>3. handler'[e].pc = "finish" /\ \A g \in Executors \ {e} : handler'[g] = handler[g]
  BY <1>1, <1>2
<1>4. exec[e].phase = "handler" /\ UNCHANGED <<exec, state, active, acknowledged>>
  BY DEF Invoke, At, poolVars, confVars
<1>5. QED
  BY <1>1, <1>3, <1>4, HandlerReclaims

\* A reclaimed task ends as uncertain and keeps the fence; if that write is
\* refused, so is the next one.
LEMMA FailUncertainReclaims ==
    ASSUME ExtInd, ReclaimInd, ~faults, MaxLag = 0, NEW e \in Executors, NEW at \in Clock,
           FailUncertain(e, at)
    PROVE  ReclaimInd'
<1> DEFINE f == exec[e].fence
           t == f.task
<1>0. ExtKept /\ t \in Tasks /\ StoreTypeOK
  BY FailUncertainKeeps, ExecFields DEF ExtInd, PoolInd, SlotInv
<1>1. at = now
  BY DEF Clock, ExtInd, SlotInv, StoreTypeOK
<1>2. /\ exec[e].phase = "handler" /\ Goto(e, "resolution") /\ UNCHANGED <<exec, acknowledged>>
      /\ finish(f, now, "uncertain") \/ (~FenceHolds(f, now) /\ UNCHANGED <<storeVars, confVars>>)
  BY <1>1 DEF FailUncertain, At
<1>3. UNCHANGED <<state, active>>
  BY <1>2 DEF finish, confVars
<1>4. ~FenceHolds(exec[e].fence, now)'
  <2>1. CASE finish(f, now, "uncertain")
    <3>1. status'[t] = "failed"
      BY <1>0, <2>1 DEF finish, coreTerminal, OutcomeStatus, StoreTypeOK
    <3>2. QED
      BY <1>2, <3>1 DEF FenceHolds, LeaseHolds
  <2>2. CASE ~FenceHolds(f, now) /\ UNCHANGED <<storeVars, confVars>>
    BY <1>2, <2>2 DEF FenceHolds, LeaseHolds, storeVars
  <2>3. QED
    BY <1>2, <2>1, <2>2
<1>5. Settled(exec[e], handler[e])'
  BY <1>2, <1>4, Went DEF Settled
<1>6. QED
  BY <1>0, <1>2, <1>3, <1>5, Went, HandlerReclaims

\* The terminal write of a handler gives the fence back only under the lease that
\* took it.
LEMMA FinishReclaims ==
    ASSUME ExtInd, ReclaimInd, ~faults, MaxLag = 0, NEW e \in Executors, NEW at \in Clock,
           FinishCommits(e, at) \/ FinishFails(e, at)
    PROVE  ReclaimInd'
<1> DEFINE f == exec[e].fence
           t == f.task
<1>0. /\ ExtKept /\ t \in Tasks /\ StoreTypeOK /\ f.epoch \in Nat
      /\ handler \in [Executors -> Handler] /\ exec \in [Executors -> ExecState]
  BY FinishKeeps, ExecFields DEF ExtInd, PoolInd, TypeOK, SlotInv, ExtColumns
<1>1. at = now
  BY DEF Clock, ExtInd, SlotInv, StoreTypeOK
<1>2. /\ exec[e].phase = "handler" /\ handler[e].pc \in {"finish", "resolution"}
      /\ handler' = [handler EXCEPT ![e] = IdleHandler] /\ UNCHANGED acknowledged
      /\ finish(f, now, LastOutcome(e)) \/ UNCHANGED <<storeVars, confVars>>
  BY <1>1 DEF FinishCommits, FinishFails, At
<1>3. handler'[e].pc = "idle" /\ \A g \in Executors \ {e} : handler'[g] = handler[g]
  BY <1>0, <1>2 DEF IdleHandler
<1>4. \A g \in Executors \ {e} : exec'[g] = exec[g]
  BY <1>0 DEF FinishCommits, FinishFails, Stop
<1>5. UNCHANGED <<state, reservation>>
  BY <1>2 DEF finish, confVars
<1>6. \A u \in active : u \in active' \/ reservation'[u].epoch >= lease_epoch'[u]
                        \/ state'[u] # "consumed"
  <2>1. CASE finish(f, now, LastOutcome(e))
    <3>1. /\ FenceHolds(f, now) /\ lease_epoch' = lease_epoch
          /\ \A u \in active : u # t => u \in active'
      BY <2>1 DEF finish, coreTerminal
    <3>2. lease_epoch[t] = f.epoch
      BY <3>1 DEF FenceHolds, LeaseHolds
    <3>3. CASE handler[e].pc = "finish"
      <4>1. reservation[t].epoch = f.epoch
        BY <1>2, <3>3 DEF ExtInd, HandlerFits
      <4>2. reservation'[t].epoch >= lease_epoch'[t]
        BY <1>0, <1>5, <3>1, <3>2, <4>1
      <4>3. QED
        BY <3>1, <4>2
    <3>4. CASE handler[e].pc = "resolution"
      <4>1. state[t] # "consumed"
        BY <1>2, <3>1, <3>4 DEF ReclaimInd, Settled
      <4>2. QED
        BY <1>5, <3>1, <4>1
    <3>5. QED
      BY <1>2, <3>3, <3>4
  <2>2. CASE UNCHANGED <<storeVars, confVars>>
    BY <2>2 DEF confVars
  <2>3. QED
    BY <1>2, <2>1, <2>2
<1>7. QED
  BY <1>0, <1>2, <1>3, <1>4, <1>5, <1>6, HandlerReclaims

\* Every step keeps the fences of reclaimed tasks.
LEMMA ReclaimStep ==
    ASSUME ExtInd, ReclaimInd, [ExtNext]_allVars
    PROVE  ReclaimInd'
<1>0. faults' = faults
  BY DEF ExtNext, allVars
<1>1. SUFFICES ASSUME ~faults, MaxLag = 0 PROVE ReclaimInd'
  BY <1>0 DEF ReclaimInd
<1>2. ASSUME NEW e \in Executors, HandlerNext(e) PROVE ReclaimInd'
  <2>1. ASSUME GetConfirmation(e) \/ requireActiveExecutionReservation(e) PROVE ReclaimInd'
    <3>1. now \in Clock
      BY ConstantsAssumption DEF ExtInd, SlotInv, StoreTypeOK, Clock
    <3>2. QED
      BY <1>1, <2>1, <3>1, ReadsReclaim
  <2>2. ASSUME NEW at \in Clock,
               \/ ConsumeExecution(e, at) \/ ConsumeRefused(e, at) \/ CheckLease(e, at)
               \/ FailUncertain(e, at) \/ FinishCommits(e, at) \/ FinishFails(e, at)
        PROVE  ReclaimInd'
    BY <1>1, <2>2, ReadsReclaim, ConsumeReclaims, FailUncertainReclaims, FinishReclaims
  <2>3. QED
    BY <1>1, <1>2, <2>1, <2>2, InvokeReclaims DEF HandlerNext
<1>3. CASE UNCHANGED allVars
  <2>1. /\ UNCHANGED <<storeVars, exec, handler, state, active, acknowledged>>
    BY <1>3 DEF allVars, poolVars, confVars, extVars
  <2>2. \A e \in Executors : UsedByOthers(e)
    BY <2>1 DEF UsedByOthers
  <2>3. QED
    BY <1>1, <2>1, <2>2, ExtStep, ReclaimMoves
<1>4. QED
  BY <1>1, <1>2, <1>3, OwnerReclaims, PoolReclaims DEF ExtNext

\* Where calls of the database do not fail and transactions do not lag the clocks
\* of their callers, a task that was reclaimed after its consent was consumed keeps
\* the fence of its installation until the owner accepts the unknown outcome: a
\* second execution cannot start beside an abandoned one.
THEOREM ReclaimedTasksKeepFence == ExtSpec => []ReclaimedKeepsFence
<1>1. ExtInit => ReclaimInd
  BY DEF ExtInit, ConfInit, PoolInit, IdleExec, ReclaimInd, ReclaimedKeepsFence, Settled
<1>2. ExtInd /\ ReclaimInd /\ [ExtNext]_allVars => ReclaimInd'
  BY ReclaimStep
<1>3. ReclaimInd => ReclaimedKeepsFence
  BY DEF ReclaimInd, ReclaimedKeepsFence
<1>4. QED
  BY <1>1, <1>2, <1>3, ExtInvariant, PTL DEF ExtSpec

=============================================================================
