-------------------------- MODULE LifecycleProofs --------------------------
(***************************************************************************)
(* Proofs about ExtensionLifecycle: whatever the owner, the executors, a   *)
(* crash or a lost reply do, the row of an installation and that of its    *)
(* lifecycle never part, and a managed Node artifact that is installed, or *)
(* pinned by a task that may still run, stays in the runner.               *)
(***************************************************************************)
EXTENDS ExtensionLifecycle, ConfirmationProofs

-----------------------------------------------------------------------------
(* The inductive invariant *)

HandlerState == [pc : Pc, version : Versions \cup {NoVersion}]

\* The lifecycles that are open.
Pending == {t \in Lifecycles : lifecycle[t] = "pending"}

\* The columns of installations, lifecycles and the runner have their types.
LcColumns ==
    /\ installed \in [Targets -> InstallState]
    /\ installation \in [Targets -> Nat]
    /\ active_version \in [Targets -> Versions \cup {NoVersion}]
    /\ proposed_version \in [Targets -> Versions \cup {NoVersion}]
    /\ lifecycle \in [Tasks -> {"none", "pending", "succeeded", "failed"}]
    /\ expected \in [Tasks -> Nat]
    /\ pin \in [Tasks -> Versions \cup {NoVersion}]
    /\ handler \in [Executors -> HandlerState]
    /\ published \subseteq {Digest[v] : v \in Versions}
    /\ cleanup \subseteq Versions

\* Executors and claims are those of tasks that exist.
Started ==
    /\ \A e \in Executors : exec[e].phase # "idle" => status[exec[e].fence.task] # "absent"
    /\ \A t \in claiming : status[t] # "absent"

\* Where a handler h inside the executor x may stand.
HandlerFits(x, h) ==
    /\ x.phase # "handler" => h = IdleHandler
    /\ h.pc # "idle" => x.fence.task \in Lifecycles
    /\ h.pc = "promoted_fail" => Operation[x.fence.task] # "uninstall"
    /\ h.pc = "promote" => h.version # NoVersion

\* The queue, the consents and the executors.
LcBase ==
    /\ PoolInd /\ Unparked /\ ReserveInv /\ ConsentHasTask
    /\ Started
    /\ \A e \in Executors : HandlerFits(exec[e], handler[e])

InTransit == {"installing", "updating", "uninstalling"}

\* How the rows of installations, lifecycles and consents fit together.
Flow ==
    /\ \A t, u \in Pending : Target[t] = Target[u] => t = u
    /\ \A t, u \in Pending : Operation[t] # "uninstall" /\ Operation[u] # "uninstall" => t = u
    /\ \A t \in Pending : /\ installed[Target[t]] = Transition[Operation[t]]
                          /\ installation[Target[t]] = expected[t]
                          /\ Operation[t] # "uninstall" => proposed_version[Target[t]] = t
    /\ \A x \in Targets : installed[x] \in InTransit => \E t \in Pending : Target[t] = x
    /\ \A x \in Targets : proposed_version[x] # NoVersion =>
                          \E t \in Pending : Target[t] = x /\ proposed_version[x] = t
    /\ \A t \in Lifecycles : Live(t) => t \in Pending
    /\ \A x \in Targets : /\ installed[x] = "installed" => active_version[x] # NoVersion
                          /\ installed[x] \in {"absent", "installing"} => active_version[x] = NoVersion

\* The version v belongs to the installation x.
Fits(v, x) == v = x \/ (v \in Tasks /\ Target[v] = x)

\* A version that was published once.
Used(v) ==
    \/ v \in cleanup
    \/ \E x \in Targets : active_version[x] = v
    \/ \E a \in Tasks : pin[a] = v

\* Versions have one installation, those of open lifecycles are new, and what is
\* to be removed is not active.
VersionsFit ==
    /\ \A x \in Targets : active_version[x] # NoVersion => Fits(active_version[x], x)
    /\ \A v \in Tasks : Used(v) => status[v] # "absent" /\ v \notin Pending
    /\ \A v \in Pending : status[v] # "absent"
    /\ \A a \in Tasks : pin[a] # NoVersion => status[a] # "absent"
    /\ \A x \in Targets : active_version[x] \notin cleanup

\* The task a may still run and needs the version it pins.
Needs(a) == pin[a] # NoVersion /\ status[a] \in {"queued", "running", "waiting_user"}

\* What is active or needed is in the runner, and not to be removed.
ArtifactsKept ==
    node =>
      /\ \A v, w \in Versions : Digest[v] = Digest[w] => v = w
      /\ \A x \in Targets : active_version[x] # NoVersion => Digest[active_version[x]] \in published
      /\ ~May("retry") =>
           \A a \in Tasks : Needs(a) => pin[a] \notin cleanup /\ Digest[pin[a]] \in published

\* What a handler h of the task t knows of an open lifecycle when it publishes or
\* commits: nobody needs what it retires, and what it installs is in the runner.
HandlerKnows(t, h) ==
    /\ node /\ h.pc = "promote" => Operation[t] # "uninstall"
    /\ t \in Pending =>
         /\ h.pc = "promote" /\ Operation[t] # "uninstall" => h.version = t
         /\ node /\ h.pc = "complete" /\ Operation[t] # "uninstall" => Digest[t] \in published
         /\ node /\ ~May("retry") /\ h.pc \in {"promote", "complete"} /\ Operation[t] # "install"
              => \A a \in Tasks : Needs(a) => pin[a] # active_version[Target[t]]

\* The inductive invariant.
LcInd ==
    /\ LcBase /\ LcColumns /\ Flow
    /\ VersionsFit /\ ArtifactsKept
    /\ \A e \in Executors : HandlerKnows(exec[e].fence.task, handler[e])

-----------------------------------------------------------------------------
(* The queue under the lifecycles *)

\* The row of a request: inserted without an event.
RequestWrites(t) ==
    /\ status[t] = "absent"
    /\ status' = [status EXCEPT ![t] = "waiting_user"]
    /\ available_at' = [available_at EXCEPT ![t] = now]
    /\ NewRevision(t)
    /\ UNCHANGED <<attempt, leaseVars, execution_deadline_at, progress_sequence, failure_code,
                   deleted, running_count, events, refs, now>>

\* The row of a lifecycle that ends.
EndWrites(t, s, n) ==
    /\ status[t] = "running"
    /\ status' = [status EXCEPT ![t] = s]
    /\ failure_code' = [failure_code EXCEPT ![t] = IF s = "failed" THEN "task_error" ELSE ""]
    /\ DropLease(t)
    /\ NewRevision(t)
    /\ AppendEvent(t, s, n)
    /\ UNCHANGED <<attempt, lease_epoch, available_at, execution_deadline_at, deleted,
                   running_count, refs, now>>

LcStoreMoves ==
    \/ [StoreNext]_storeVars \/ TaskWrites
    \/ \E t \in Tasks : RequestWrites(t)
    \/ \E t \in Tasks, s \in {"succeeded", "failed"}, n \in Nat : EndWrites(t, s, n)

\* What every step does to the queue.
LcMoved ==
    /\ StoreTypeOK' /\ Unparked' /\ LeaseInv'
    /\ Pinned /\ Onward /\ NoneVanishes

\* A request inserts a row as a creation would.
LEMMA RequestMoved ==
    ASSUME StoreTypeOK, Unparked, LeaseInv, NEW t \in Tasks, RequestWrites(t)
    PROVE  LcMoved
<1>0. /\ status \in [Tasks -> Status] /\ lease_epoch \in [Tasks -> Nat]
      /\ revision \in [Tasks -> Nat] /\ attempt \in [Tasks -> Nat]
      /\ "waiting_user" \in Status
  BY DEF StoreTypeOK, Status
<1>1. /\ status[t] = "absent" /\ status' = [status EXCEPT ![t] = "waiting_user"]
      /\ revision' = [revision EXCEPT ![t] = @ + 1]
      /\ UNCHANGED <<attempt, lease_epoch, lease_expires_at, execution_deadline_at>>
  BY DEF RequestWrites, NewRevision, leaseVars
<1>2. StoreTypeOK'
  BY <1>0, <1>1 DEF StoreTypeOK, RequestWrites
<1>3. Unparked'
  BY <1>0, <1>1 DEF Unparked
<1>4. LeaseInv'
  BY <1>0, <1>1 DEF LeaseInv, LeaseExact
<1>5. Pinned /\ Onward /\ NoneVanishes
  BY <1>0, <1>1 DEF Pinned, Onward, NoneVanishes, Terminal
<1>6. QED
  BY <1>2, <1>3, <1>4, <1>5 DEF LcMoved

\* The end of a lifecycle drops the lease of its task.
LEMMA EndMoved ==
    ASSUME StoreTypeOK, Unparked, LeaseInv, NEW t \in Tasks, NEW s \in {"succeeded", "failed"},
           NEW n \in Nat, EndWrites(t, s, n)
    PROVE  LcMoved
<1>0. /\ status \in [Tasks -> Status] /\ lease_epoch \in [Tasks -> Nat]
      /\ revision \in [Tasks -> Nat] /\ attempt \in [Tasks -> Nat]
      /\ lease_expires_at \in [Tasks -> Int]
      /\ s \in Status /\ s \in Terminal
  BY DEF StoreTypeOK, Status, Terminal
<1>1. /\ status[t] = "running" /\ status' = [status EXCEPT ![t] = s]
      /\ revision' = [revision EXCEPT ![t] = @ + 1]
      /\ lease_expires_at' = [lease_expires_at EXCEPT ![t] = NoTime]
      /\ UNCHANGED <<attempt, lease_epoch, available_at, execution_deadline_at, deleted,
                     running_count, refs, now>>
  BY DEF EndWrites, NewRevision, DropLease
<1>2. StoreTypeOK'
  <2>1. events' \in [Tasks -> Seq(Event)] /\ progress_sequence' \in [Tasks -> Nat]
    BY <1>0, AppendEventTyped DEF EndWrites
  <2>2. failure_code' \in [Tasks -> FailureCode]
    <3>1. PICK code \in FailureCode : failure_code' = [failure_code EXCEPT ![t] = code]
      BY DEF EndWrites, FailureCode
    <3>2. QED
      BY <3>1 DEF StoreTypeOK
  <2>3. revision' \in [Tasks -> Nat] /\ lease_expires_at' \in [Tasks -> Int]
    BY RowWritesTyped DEF EndWrites
  <2>4. status' \in [Tasks -> Status]
    BY <1>0, <1>1
  <2>5. QED
    BY <1>1, <2>1, <2>2, <2>3, <2>4 DEF StoreTypeOK
<1>3. Unparked'
  BY <1>0, <1>1 DEF Unparked
<1>4. LeaseInv'
  BY <1>0, <1>1 DEF LeaseInv, LeaseExact
<1>5. Pinned /\ Onward /\ NoneVanishes
  BY <1>0, <1>1 DEF Pinned, Onward, NoneVanishes
<1>6. QED
  BY <1>2, <1>3, <1>4, <1>5 DEF LcMoved

\* Every write of the queue is of one of these forms.
LEMMA LcStoreMoved ==
    ASSUME StoreTypeOK, Unparked, LeaseInv, LcStoreMoves
    PROVE  LcMoved
<1>1. CASE [StoreNext]_storeVars \/ TaskWrites
  BY <1>1, QueueMoved DEF LcMoved
<1>2. QED
  BY <1>1, RequestMoved, EndMoved DEF LcStoreMoves

-----------------------------------------------------------------------------
(* Executors and handlers *)

\* Executors without a claim of a new task, or the queue alone.
LEMMA StartedStays ==
    ASSUME PoolInd, Started, NoneVanishes,
           \A e \in Executors : exec'[e].phase # "idle" =>
              \/ exec[e].phase # "idle" /\ exec'[e].fence.task = exec[e].fence.task
              \/ exec'[e].fence.task \in claiming,
           \A t \in claiming' : t \in claiming \/ status'[t] # "absent"
    PROVE  Started'
<1>1. (\A e \in Executors : exec[e].fence.task \in Tasks) /\ claiming \subseteq Tasks
  BY ExecFields DEF PoolInd, TypeOK
<1>2. QED
  BY <1>1 DEF Started, NoneVanishes

\* A step beside the executors.
LEMMA OwnerBase ==
    ASSUME LcBase, LcMoved, UNCHANGED <<exec, claiming, handler>>, ReserveInv', ConsentHasTask'
    PROVE  LcBase'
<1>1. PoolInd'
  BY NoneMoves DEF LcBase, LcMoved
<1>2. Started'
  BY StartedStays DEF LcBase, LcMoved
<1>3. QED
  BY <1>1, <1>2 DEF LcBase, LcMoved

\* A step of one executor inside its handler: the handler goes on, or the
\* executor leaves it.
Turn(e, x, h) ==
    /\ exec' = [exec EXCEPT ![e] = x]
    /\ handler' = [handler EXCEPT ![e] = h]
    /\ UNCHANGED claiming
    /\ \/ x = exec[e]
       \/ h = IdleHandler /\ x.phase = "idle"
       \/ h = IdleHandler /\ x.phase = "persist" /\ Stays(e, x)

\* Such a step keeps the executors.
LEMMA TurnBase ==
    ASSUME LcBase, LcColumns, LcMoved, ReserveInv', ConsentHasTask', NEW e \in Executors,
           exec[e].phase = "handler", NEW x \in ExecState, NEW h, Turn(e, x, h),
           HandlerFits(x, h)
    PROVE  LcBase'
<1>0. PoolInd /\ StoreTypeOK' /\ Pinned /\ exec \in [Executors -> ExecState]
  BY DEF LcBase, LcMoved, PoolInd, TypeOK
<1>a. DOMAIN handler = Executors
  BY DEF LcColumns
<1>1. x.phase = "idle" \/ Stays(e, x)
  BY <1>0, Resting DEF Turn
<1>2. PoolInd'
  BY <1>0, <1>1, OneMoves DEF Turn
<1>3. Started'
  <2>1. ASSUME NEW g \in Executors, exec'[g].phase # "idle"
        PROVE  exec[g].phase # "idle" /\ exec'[g].fence.task = exec[g].fence.task
    BY <1>0, <1>1, <2>1 DEF Turn, Stays
  <2>2. QED
    BY <1>0, <2>1, StartedStays DEF LcBase, LcMoved, Turn
<1>4. ASSUME NEW g \in Executors PROVE HandlerFits(exec'[g], handler'[g])
  BY <1>0, <1>a DEF LcBase, Turn
<1>5. \A g \in Executors : HandlerFits(exec[g], handler[g])'
  BY <1>4 DEF HandlerFits
<1>6. QED
  BY <1>2, <1>3, <1>5 DEF LcBase, LcMoved

\* Where the steps of a handler lead.
LEMMA Turns ==
    ASSUME LcBase, LcColumns, NEW e \in Executors, exec[e].phase = "handler", UNCHANGED claiming,
           StoreTypeOK', Pinned
    PROVE  /\ \A pc \in Pc : Goto(e, pc) /\ UNCHANGED exec =>
                \E h \in HandlerState : /\ Turn(e, exec[e], h)
                                        /\ h.pc = pc /\ h.version = handler[e].version
           /\ Leave(e) => Turn(e, IdleExec, IdleHandler)
           /\ ReturnError(e) => \E x \in ExecState : Turn(e, x, IdleHandler) /\ x.phase = "persist"
<1>0. exec \in [Executors -> ExecState] /\ handler \in [Executors -> HandlerState]
  BY DEF LcBase, LcColumns, PoolInd, TypeOK
<1>1. ASSUME NEW pc \in Pc, Goto(e, pc), UNCHANGED exec
      PROVE  \E h \in HandlerState : /\ Turn(e, exec[e], h)
                                     /\ h.pc = pc /\ h.version = handler[e].version
  <2> DEFINE h == [handler[e] EXCEPT !.pc = pc]
  <2>1. h \in HandlerState /\ h.pc = pc /\ h.version = handler[e].version
    BY <1>0 DEF HandlerState
  <2>2. handler' = [handler EXCEPT ![e] = h] /\ exec' = [exec EXCEPT ![e] = exec[e]]
    BY <1>0, <1>1 DEF Goto
  <2>3. Turn(e, exec[e], h)
    BY <2>2 DEF Turn
  <2>4. QED
    BY <2>1, <2>3
<1>2. Leave(e) => Turn(e, IdleExec, IdleHandler)
  BY DEF Leave, Stop, Turn, IdleExec
<1>3. ASSUME ReturnError(e)
      PROVE  \E x \in ExecState : Turn(e, x, IdleHandler) /\ x.phase = "persist"
  <2> DEFINE x == [exec[e] EXCEPT !.phase = "persist", !.outcome = "task_error"]
  <2>1. x \in ExecState /\ x.phase = "persist"
    BY <1>0 DEF ExecState, Phase, Outcome
  <2>2. exec' = [exec EXCEPT ![e] = x]
    BY <1>0, <1>3 DEF ReturnError
  <2>3. Stays(e, x)
    <3>1. Stays(e, exec[e])
      BY Resting DEF LcBase
    <3>2. /\ x.fence = exec[e].fence /\ x.claimed = exec[e].claimed
          /\ x.tries = exec[e].tries /\ x.outcome = "task_error"
      BY <1>0 DEF ExecState
    <3>3. QED
      BY <2>1, <3>1, <3>2 DEF Stays, Shape
  <2>4. QED
    BY <1>3, <2>1, <2>2, <2>3 DEF Turn, ReturnError
<1>4. QED
  BY <1>1, <1>2, <1>3

\* No step but a request opens a consent, or gives its target back.
ConsentsRest == \A t \in Tasks : Live(t)' => Live(t)

\* An idle handler fits everywhere.
LEMMA IdleFits == \A x : HandlerFits(x, IdleHandler)
BY DEF HandlerFits, IdleHandler

\* A step that leaves the queue and the consents alone.
LEMMA Untouched ==
    ASSUME LcBase, UNCHANGED <<storeVars, confVars>>
    PROVE  LcMoved /\ ReserveInv' /\ ConsentHasTask' /\ ConsentsRest
<1>0. UNCHANGED <<state, expires_at, binding, consumed_released, reservation, active, current>>
  BY DEF confVars
<1>1. LcMoved
  <2>1. LcStoreMoves
    BY DEF LcStoreMoves, TaskWrites
  <2>2. QED
    BY <2>1, LcStoreMoved DEF LcBase, ReserveInv, ConfTypeOK
<1>2. ReserveInv'
  BY <1>0, <1>1, ReserveRests DEF LcBase, LcMoved, ReserveInv, ConfTypeOK, reservationVars
<1>3. ConsentHasTask'
  BY <1>0 DEF LcBase, ConsentHasTask, storeVars
<1>4. ConsentsRest
  BY <1>0 DEF ConsentsRest, Live, Open
<1>5. QED
  BY <1>1, <1>2, <1>3, <1>4

\* The tasks and fences of executors are typed.
LEMMA BaseTypes ==
    ASSUME LcBase
    PROVE  /\ StoreTypeOK /\ LeaseInv /\ ConfTypeOK
           /\ state \in [Tasks -> State] /\ expires_at \in [Tasks -> Nat]
           /\ binding \in [Tasks -> Nat] /\ current \in [Targets -> Nat]
           /\ exec \in [Executors -> ExecState]
           /\ \A e \in Executors : exec[e].fence \in Fence /\ exec[e].fence.task \in Tasks
           /\ \A t \in Tasks : Target[t] \in Targets
BY ExecFields, TargetsAssumption DEF LcBase, ReserveInv, ConfTypeOK, PoolInd, TypeOK

-----------------------------------------------------------------------------
(* Owners beside the executors *)

\* An open consent is answered or ends with its task.
LEMMA AnswerBase ==
    ASSUME LcBase, TaskWrites, NEW t \in Tasks, Open(t),
           NEW s \in {"confirmed", "rejected", "expired"}, SetState(t, s),
           UNCHANGED <<reservationVars, current>>
    PROVE  LcMoved /\ ReserveInv' /\ ConsentHasTask' /\ ConsentsRest
<1>0. /\ state' = [state EXCEPT ![t] = s] /\ state[t] \in {"pending", "confirmed"}
      /\ UNCHANGED <<expires_at, binding, reservation, active, consumed_released, current>>
  BY DEF SetState, Open, reservationVars
<1>1. LcMoved
  <2>1. LcStoreMoves
    BY DEF LcStoreMoves
  <2>2. QED
    BY <2>1, LcStoreMoved, BaseTypes DEF LcBase
<1>2. state' \in [Tasks -> State] /\ \A u \in Tasks : state'[u] = "consumed" <=> state[u] = "consumed"
  BY <1>0, BaseTypes DEF State
<1>3. ReserveInv'
  BY <1>0, <1>1, <1>2, BaseTypes, ReserveRests DEF LcBase, LcMoved
<1>4. ConsentHasTask'
  BY <1>0, <1>1, BaseTypes DEF LcBase, LcMoved, ConsentHasTask, NoneVanishes
<1>5. ConsentsRest
  BY <1>0, BaseTypes DEF ConsentsRest, Live, Open
<1>6. QED
  BY <1>1, <1>3, <1>4, <1>5

\* The answers of the owner and the sweeper.
LEMMA OwnerAnswers ==
    ASSUME LcBase, NEW t \in Tasks, NEW at \in Clock,
           Confirm(t, at) \/ Reject(t, at) \/ sweepExpiredConfirmation(t, at)
    PROVE  LcMoved /\ ReserveInv' /\ ConsentHasTask' /\ ConsentsRest
<1>1. TaskWrites
  BY ConfirmationWrites, BaseTypes DEF ConfirmationNext
<1>2. Open(t) /\ UNCHANGED <<reservationVars, current>>
  BY DEF Confirm, Reject, sweepExpiredConfirmation, Open
<1>3. \E s \in {"confirmed", "rejected", "expired"} : SetState(t, s)
  BY DEF Confirm, Reject, sweepExpiredConfirmation, terminalizeExpiredTx
<1>4. QED
  BY <1>1, <1>2, <1>3, AnswerBase

\* An agent task is created, or retried.
LEMMA AgentBase ==
    ASSUME LcBase, [StoreNext]_storeVars, UNCHANGED <<exec, claiming, handler, confVars>>
    PROVE  LcMoved /\ LcBase' /\ ConsentsRest
<1>0. UNCHANGED <<state, expires_at, binding, consumed_released, reservation, active, current>>
  BY DEF confVars
<1>1. LcMoved
  BY LcStoreMoved, BaseTypes DEF LcStoreMoves, LcBase
<1>2. ReserveInv'
  BY <1>0, <1>1, BaseTypes, ReserveRests DEF LcBase, LcMoved, reservationVars
<1>3. ConsentHasTask'
  BY <1>0, <1>1 DEF LcBase, LcMoved, ConsentHasTask, NoneVanishes
<1>4. ConsentsRest
  BY <1>0 DEF ConsentsRest, Live, Open
<1>5. QED
  BY <1>1, <1>2, <1>3, <1>4, OwnerBase

\* A request opens the consent of a task that did not exist.
LEMMA RequestBase ==
    ASSUME LcBase, LcColumns, NEW t \in Tasks, request(t)
    PROVE  LcMoved /\ LcBase' /\ \A u \in Tasks : Live(u)' => u = t \/ Live(u)
<1> DEFINE x == Target[t]
<1>0. /\ x \in Targets /\ StoreTypeOK /\ LeaseInv /\ installation \in [Targets -> Nat]
      /\ state \in [Tasks -> State] /\ expires_at \in [Tasks -> Nat]
      /\ binding \in [Tasks -> Nat] /\ current \in [Targets -> Nat]
  BY BaseTypes DEF LcColumns
<1>1. /\ state' = [state EXCEPT ![t] = "pending"]
      /\ expires_at' = [expires_at EXCEPT ![t] = now + ConfirmTTL]
      /\ binding' = [binding EXCEPT ![t] = installation[x] + 1]
      /\ current' = [current EXCEPT ![x] = installation[x] + 1]
      /\ UNCHANGED <<exec, claiming, reservationVars, handler>>
  BY DEF request
<1>2. UNCHANGED <<reservation, active, consumed_released>>
  BY <1>1 DEF reservationVars
<1>3. RequestWrites(t)
  BY DEF request, RequestWrites
<1>4. LcMoved
  BY <1>0, <1>3, RequestMoved DEF LcBase
<1>5. status[t] = "absent" /\ status'[t] = "waiting_user"
  BY <1>0, <1>3 DEF RequestWrites, StoreTypeOK
<1>6. state[t] = "none"
  BY <1>5 DEF LcBase, ConsentHasTask
<1>7. ReserveInv'
  <2>1. now + ConfirmTTL \in Nat /\ installation[x] + 1 \in Nat
    BY <1>0, TargetsAssumption DEF StoreTypeOK
  <2>2. /\ expires_at' \in [Tasks -> Nat] /\ binding' \in [Tasks -> Nat]
        /\ current' \in [Targets -> Nat] /\ state' \in [Tasks -> State]
    BY <1>0, <1>1, <2>1 DEF State
  <2>3. \A u \in Tasks : state'[u] = "consumed" <=> state[u] = "consumed"
    BY <1>0, <1>1, <1>6
  <2>4. QED
    BY <1>1, <1>4, <2>2, <2>3, ReserveRests DEF LcBase, LcMoved
<1>8. ConsentHasTask'
  BY <1>0, <1>1, <1>4, <1>5 DEF LcBase, LcMoved, ConsentHasTask, NoneVanishes
<1>9. \A u \in Tasks : Live(u)' => u = t \/ Live(u)
  BY <1>0, <1>1, <1>2 DEF Live, Open
<1>10. QED
  BY <1>1, <1>4, <1>7, <1>8, <1>9, OwnerBase

-----------------------------------------------------------------------------
(* The pool around the handler *)

\* A step of the pool is one the worker pool may take.
LEMMA PoolStepIsPool ==
    ASSUME PoolStep
    PROVE  PoolNext
<1>1. ASSUME NEW e \in Executors,
             \/ \E at \in Clock : Renew(e, at) \/ TerminalWrite(e, at)
             \/ HandlerCanceled(e)
             \/ HandlerReturns(e, "task_error")
             \/ TerminalWriteFails(e)
             \/ Reread(e) \/ GiveUp(e)
      PROVE  ExecNext(e)
  BY <1>1 DEF ExecNext, Outcome
<1>2. QED
  BY <1>1 DEF PoolStep, PoolNext, ClientNext

\* An executor stops, stays with its task, or has just read a claim.
LEMMA ExecutorsStay ==
    ASSUME PoolInd, PoolStep, NEW g \in Executors
    PROVE  \/ exec'[g].phase = "idle"
           \/ /\ exec[g].phase # "idle" /\ exec'[g].fence.task = exec[g].fence.task
              /\ exec'[g].phase = "handler" => exec[g].phase = "handler"
           \/ exec[g].phase = "idle" /\ exec'[g].fence.task \in claiming
<1>0. exec \in [Executors -> ExecState]
  BY DEF PoolInd, TypeOK
<1> DEFINE Goal == \/ exec'[g].phase = "idle"
                   \/ /\ exec[g].phase # "idle" /\ exec'[g].fence.task = exec[g].fence.task
                      /\ exec'[g].phase = "handler" => exec[g].phase = "handler"
                   \/ exec[g].phase = "idle" /\ exec'[g].fence.task \in claiming
<1>1. CASE UNCHANGED exec
  BY <1>1
<1>2. ASSUME NEW e \in Executors, NEW t \in Tasks, ClaimRead(e, t) PROVE Goal
  BY <1>0, <1>2 DEF ClaimRead
<1>3. ASSUME exec' = [e \in Executors |-> IdleExec] PROVE Goal
  BY <1>3 DEF IdleExec
<1>4. ASSUME NEW e \in Executors, Stop(e) PROVE Goal
  BY <1>0, <1>4 DEF Stop, IdleExec
<1>5. ASSUME NEW e \in Executors, TerminalWriteFails(e) \/ Reread(e) \/ HandlerReturns(e, "task_error")
      PROVE  Goal
  <2>1. CASE g = e
    BY <1>0, <1>5, <2>1 DEF TerminalWriteFails, Reread, HandlerReturns, ExecState, Fence
  <2>2. CASE g # e
    BY <1>0, <1>5, <2>2 DEF TerminalWriteFails, Reread, HandlerReturns
  <2>3. QED
    BY <2>1, <2>2
<1> HIDE DEF Goal
<1>6. Goal
  BY <1>1, <1>2, <1>3, <1>4, <1>5
     DEF PoolStep, ClaimNext, Claim, ClaimConverges, ClaimPanics, ClaimReadFails, Crash, Renew,
         TerminalWrite, HandlerCanceled, GiveUp, Goal
<1>7. QED
  BY <1>6 DEF Goal

\* A handler that is about to publish, or to commit, was there before.
Calm(g) ==
    handler'[g].pc \in {"promote", "complete"} =>
      /\ exec[g].phase = "handler"
      /\ exec'[g].fence.task = exec[g].fence.task
      /\ handler'[g] = handler[g]

\* The pool keeps executors, consents and handlers.
LEMMA PoolBase ==
    ASSUME LcBase, LcColumns, PoolStep
    PROVE  /\ LcMoved /\ LcBase' /\ ConsentsRest
           /\ handler' \in [Executors -> HandlerState]
           /\ \A g \in Executors : Calm(g)
<1>1. PoolInd' /\ [StoreNext]_storeVars
  BY PoolStepIsPool, PoolIndStep, PoolUsesStore DEF LcBase
<1>2. LcMoved
  BY <1>1, LcStoreMoved, BaseTypes DEF LcStoreMoves, LcBase
<1>3. /\ state' = [t \in Tasks |-> IF CanceledOrTimedOut(t) /\ Open(t)
                                  THEN "expired" ELSE state[t]]
      /\ UNCHANGED <<expires_at, binding, reservationVars, current>>
      /\ handler' = [e \in Executors |->
                     IF exec'[e].phase # "handler" THEN IdleHandler
                     ELSE IF exec[e].phase # "handler" /\ exec'[e].fence.task \in Lifecycles
                     THEN [pc |-> "get", version |-> NoVersion]
                     ELSE handler[e]]
  BY DEF PoolStep, terminalizeConfirmationForTask
<1>4. state' \in [Tasks -> State] /\ \A t \in Tasks : state'[t] = "consumed" <=> state[t] = "consumed"
  BY <1>3, BaseTypes DEF State, Open
<1>5. ReserveInv'
  BY <1>2, <1>3, <1>4, BaseTypes, ReserveRests DEF LcBase, LcMoved
<1>6. ConsentHasTask'
  BY <1>2, <1>3 DEF LcBase, LcMoved, ConsentHasTask, NoneVanishes, Open
<1>7. ConsentsRest
  BY <1>3 DEF ConsentsRest, Live, Open, reservationVars
<1>8. Started'
  <2>1. ASSUME NEW t \in claiming' PROVE t \in claiming \/ status'[t] # "absent"
    <3>1. ASSUME NEW at \in Clock, NEW u \in Tasks, NEW locked \in SUBSET Tasks, Claim(u, at, locked)
          PROVE  status'[t] # "absent"
      <4>1. t = u /\ status' = [status EXCEPT ![u] = "running"]
        BY <3>1 DEF Claim, ClaimLease
      <4>2. QED
        BY <4>1, BaseTypes DEF StoreTypeOK
    <3>2. QED
      BY <3>1 DEF PoolStep, ClaimNext, ClaimConverges, ClaimPanics, ClaimRead, ClaimReadFails, Crash
  <2>2. QED
    BY <1>2, <2>1, ExecutorsStay, StartedStays DEF LcBase, LcMoved
<1>9. handler \in [Executors -> HandlerState]
  BY DEF LcColumns
<1>10. handler' \in [Executors -> HandlerState]
  BY <1>3, <1>9 DEF HandlerState, IdleHandler, Pc
<1>11. ASSUME NEW g \in Executors PROVE HandlerFits(exec[g], handler[g])' /\ Calm(g)
  <2>0. HandlerFits(exec[g], handler[g])
    BY DEF LcBase
  <2>1. CASE exec'[g].phase # "handler"
    <3>1. handler'[g] = IdleHandler
      BY <1>3, <2>1
    <3>2. QED
      BY <3>1, IdleFits DEF HandlerFits, Calm, IdleHandler
  <2>2. CASE exec'[g].phase = "handler" /\ exec[g].phase # "handler"
    <3>1. \/ handler'[g] = [pc |-> "get", version |-> NoVersion] /\ exec'[g].fence.task \in Lifecycles
          \/ handler'[g] = IdleHandler
      BY <1>3, <2>0, <2>2 DEF HandlerFits
    <3>2. QED
      BY <2>2, <3>1 DEF HandlerFits, Calm, IdleHandler
  <2>3. CASE exec'[g].phase = "handler" /\ exec[g].phase = "handler"
    <3>1. handler'[g] = handler[g]
      BY <1>3, <2>3
    <3>2. exec'[g].fence.task = exec[g].fence.task
      BY <2>3, ExecutorsStay DEF LcBase
    <3>3. QED
      BY <2>0, <2>3, <3>1, <3>2 DEF HandlerFits, Calm
  <2>4. QED
    BY <2>1, <2>2, <2>3
<1>12. QED
  BY <1>1, <1>2, <1>5, <1>6, <1>7, <1>8, <1>10, <1>11 DEF LcBase, LcMoved

-----------------------------------------------------------------------------
(* The handler *)

\* The consent is consumed, or found void.
LEMMA ConsumeBase ==
    ASSUME LcBase, NEW e \in Executors, NEW at \in Clock, Consume(exec[e].fence, at)
    PROVE  LcMoved /\ ReserveInv' /\ ConsentHasTask' /\ ConsentsRest
<1> DEFINE f == exec[e].fence
           t == f.task
<1>0. f \in Fence /\ t \in Tasks
  BY BaseTypes
<1>1. state[t] = "confirmed" /\ UNCHANGED <<consumed_released, current>>
  BY DEF Consume
<1>2. CASE \E code \in FailureCode : terminalizeExpiredTx(t, code) /\ UNCHANGED <<reservation, active>>
  <2>1. TaskWrites
    BY <1>0, <1>2, ExpiryWrites
  <2>2. SetState(t, "expired") /\ Open(t)
    BY <1>1, <1>2 DEF terminalizeExpiredTx, Open
  <2>3. QED
    BY <1>0, <1>1, <1>2, <2>1, <2>2, AnswerBase DEF reservationVars
<1>3. CASE /\ FenceHolds(f, at) /\ SetState(t, "consumed")
           /\ reservation' = [reservation EXCEPT ![t] =
                 [attempt |-> f.attempt, epoch |-> f.epoch, revision |-> f.revision]]
           /\ active' = active \cup {t}
           /\ UNCHANGED storeVars
  <2>1. LcMoved
    <3>1. LcStoreMoves
      BY <1>3 DEF LcStoreMoves, TaskWrites
    <3>2. QED
      BY <3>1, LcStoreMoved, BaseTypes DEF LcBase
  <2>2. f \in CurrentFences
    BY <1>0, <1>3, MatchingFence, BaseTypes
  <2>3. ReserveInv'
    BY <1>0, <1>1, <1>3, <2>2, ConsumeReserves DEF LcBase
  <2>4. state' = [state EXCEPT ![t] = "consumed"]
    BY <1>3 DEF SetState
  <2>5. ConsentHasTask'
    BY <1>0, <1>1, <2>1, <2>4, BaseTypes DEF LcBase, LcMoved, ConsentHasTask, NoneVanishes
  <2>6. ConsentsRest
    BY <1>0, <1>1, <2>4, BaseTypes DEF ConsentsRest, Live, Open
  <2>7. QED
    BY <2>1, <2>3, <2>5, <2>6
<1>4. {"confirmation_expired", "confirmation_stale"} \subseteq FailureCode
  BY DEF FailureCode
<1>5. QED
  BY <1>1, <1>2, <1>3, <1>4 DEF Consume

\* A reclaiming executor moves the reservation to its own lease.
LEMMA ReacquireBase ==
    ASSUME LcBase, NEW e \in Executors, NEW at \in Clock, state[exec[e].fence.task] = "consumed",
           exec[e].fence.task \notin consumed_released, FenceHolds(exec[e].fence, at),
           reservation' = [reservation EXCEPT ![exec[e].fence.task] =
              [attempt |-> exec[e].fence.attempt, epoch |-> exec[e].fence.epoch,
               revision |-> exec[e].fence.revision]],
           active' = active \cup {exec[e].fence.task},
           UNCHANGED <<storeVars, state, expires_at, binding, consumed_released, current>>
    PROVE  LcMoved /\ ReserveInv' /\ ConsentHasTask' /\ ConsentsRest
<1> DEFINE f == exec[e].fence
           t == f.task
           mine == [attempt |-> f.attempt, epoch |-> f.epoch, revision |-> f.revision]
<1>0. /\ t \in Tasks /\ f.attempt \in Nat /\ f.epoch \in Nat /\ f.revision \in Nat
      /\ StoreTypeOK /\ LeaseInv /\ ConfTypeOK
  BY BaseTypes, ExecFields DEF LcBase, PoolInd
<1>1. LcMoved
  <2>1. LcStoreMoves
    BY DEF LcStoreMoves, TaskWrites
  <2>2. QED
    BY <1>0, <2>1, LcStoreMoved DEF LcBase
<1>2. /\ lease_epoch[t] = f.epoch /\ revision[t] = f.revision /\ lease_epoch[t] >= 1
  BY <1>0 DEF FenceHolds, LeaseHolds, LeaseInv, LeaseExact
<1>3. ConfTypeOK'
  <2>1. mine \in Reservation
    BY <1>0 DEF Reservation
  <2>2. reservation' = [reservation EXCEPT ![t] = mine] /\ active' = active \cup {t}
    OBVIOUS
  <2> HIDE DEF mine, t, f
  <2>3. QED
    BY <1>0, <1>1, <2>1, <2>2 DEF ConfTypeOK, LcMoved
<1>4. UNCHANGED <<lease_epoch, revision, status>>
  BY DEF storeVars
<1>5. ReservationExact'
  <2>1. ASSUME NEW u \in Tasks
        PROVE  /\ u \in active' <=> (state[u] = "consumed" /\ u \notin consumed_released)
               /\ u \in active' => /\ reservation'[u].epoch \in 1..lease_epoch[u]
                                   /\ reservation'[u].revision <= revision[u]
               /\ state[u] = "consumed" /\ status[u] \notin Terminal => u \in active'
    <3>1. /\ u \in active <=> (state[u] = "consumed" /\ u \notin consumed_released)
          /\ u \in active => /\ reservation[u].epoch \in 1..lease_epoch[u]
                             /\ reservation[u].revision <= revision[u]
          /\ state[u] = "consumed" /\ status[u] \notin Terminal => u \in active
      BY DEF LcBase, ReserveInv, ReservationExact
    <3>2. CASE u = t
      <4>1. reservation'[t] = mine
        BY <1>0 DEF ConfTypeOK
      <4>2. mine.epoch = f.epoch /\ mine.revision = f.revision
        OBVIOUS
      <4>3. QED
        BY <1>0, <1>2, <3>1, <3>2, <4>1, <4>2
    <3>3. CASE u # t
      BY <1>0, <3>1, <3>3 DEF ConfTypeOK
    <3>4. QED
      BY <3>2, <3>3
  <2>2. QED
    BY <1>4, <2>1 DEF ReservationExact
<1>6. ReserveInv'
  BY <1>1, <1>3, <1>5 DEF LcBase, LcMoved, ReserveInv, ReleasedFits
<1>7. ConsentHasTask'
  BY <1>4 DEF LcBase, ConsentHasTask
<1>8. ConsentsRest
  BY DEF ConsentsRest, Live, Open
<1>9. QED
  BY <1>1, <1>6, <1>7, <1>8

\* The end of a lifecycle gives the reservation back with the task.
LEMMA EndBase ==
    ASSUME LcBase, NEW e \in Executors, NEW s \in {"succeeded", "failed"},
           MayComplete(exec[e].fence), EndLifecycle(exec[e].fence, s)
    PROVE  LcMoved /\ ReserveInv' /\ ConsentHasTask' /\ ConsentsRest
<1> DEFINE f == exec[e].fence
           t == f.task
<1>0. t \in Tasks /\ f.epoch \in Nat /\ StoreTypeOK /\ LeaseInv /\ s \in Terminal
  BY BaseTypes DEF Fence, Terminal
<1>1. EndWrites(t, s, f.epoch)
  BY DEF EndWrites, EndLifecycle, MayComplete
<1>2. LcMoved
  BY <1>0, <1>1, EndMoved DEF LcBase
<1>3. /\ active' = active \ {t} /\ consumed_released' = consumed_released \cup {t}
      /\ state[t] = "consumed"
      /\ UNCHANGED <<state, expires_at, binding, reservation, current>>
  BY DEF EndLifecycle, MayComplete
<1>4. status'[t] \in Terminal
  BY <1>0, <1>1 DEF EndWrites, StoreTypeOK
<1>5. ReserveInv'
  BY <1>0, <1>2, <1>3, <1>4, ReleaseReserves DEF LcBase, LcMoved
<1>6. ConsentHasTask'
  BY <1>2, <1>3 DEF LcBase, LcMoved, ConsentHasTask, NoneVanishes
<1>7. ConsentsRest
  BY <1>3 DEF ConsentsRest, Live, Open
<1>8. QED
  BY <1>2, <1>5, <1>6, <1>7

-----------------------------------------------------------------------------
(* The rows of installations and lifecycles *)

\* The lifecycles are tasks with an operation, and their targets are installations.
LEMMA LifecycleTypes ==
    /\ \A t \in Lifecycles : /\ t \in Tasks /\ Target[t] \in Targets
                             /\ Operation[t] \in {"install", "update", "uninstall"}
                             /\ Transition[Operation[t]] \in InTransit
    /\ InTransit \subseteq InstallState
<1>1. ASSUME NEW t \in Lifecycles
      PROVE  /\ t \in Tasks /\ Target[t] \in Targets
             /\ Operation[t] \in {"install", "update", "uninstall"}
  BY LifecycleAssumption, TargetsAssumption DEF Lifecycles
<1>2. \A o \in {"install", "update", "uninstall"} : Transition[o] \in InTransit
  BY DEF Transition, InTransit
<1>3. QED
  BY <1>1, <1>2 DEF InTransit, InstallState

\* The rows stay.
LEMMA FlowRests ==
    ASSUME Flow, UNCHANGED <<instVars, lifecycle, expected>>, ConsentsRest
    PROVE  Flow'
<1>1. UNCHANGED <<installed, installation, active_version, proposed_version, lifecycle, expected>>
  BY DEF instVars
<1>2. Pending' = Pending
  BY <1>1 DEF Pending
<1>3. \A t \in Lifecycles : Live(t)' => t \in Pending
  BY LifecycleTypes DEF Flow, ConsentsRest
<1>4. QED
  BY <1>1, <1>2, <1>3 DEF Flow

\* What the rollback of refused consents does to one installation.
RolledBack(over) ==
    /\ over \subseteq Pending
    /\ Pending' = Pending \ over
    /\ \A x \in Targets :
         IF \E t \in over : Target[t] = x
         THEN /\ proposed_version'[x] = NoVersion
              /\ installed'[x] = "failed" \/ (installed'[x] = "installed" /\ active_version[x] # NoVersion)
         ELSE /\ proposed_version'[x] = proposed_version[x]
              /\ installed'[x] = installed[x]
              /\ installation'[x] = installation[x]

\* It ends the lifecycle of every consent that is refused or runs out, and
\* the transition of its installation with it.
LEMMA Rollback ==
    ASSUME LcBase, LcColumns, Flow, rollbackExtensionLifecycle, ConsentsRest
    PROVE  \E over \in SUBSET Lifecycles :
             /\ RolledBack(over)
             /\ \A t \in over : ~Live(t)'
             /\ UNCHANGED <<active_version, expected, pin, published, cleanup>>
             /\ installed' \in [Targets -> InstallState] /\ installation' \in [Targets -> Nat]
             /\ proposed_version' \in [Targets -> Versions \cup {NoVersion}]
             /\ lifecycle' \in [Tasks -> {"none", "pending", "succeeded", "failed"}]
<1> DEFINE over == {t \in Lifecycles : Open(t) /\ state'[t] \in {"rejected", "expired"}}
           hit == {Target[t] : t \in over}
<1>1. /\ lifecycle' = [t \in Tasks |-> IF t \in over THEN "failed" ELSE lifecycle[t]]
      /\ installed' = [x \in Targets |-> IF x \in hit THEN Restored(CHOOSE t \in over : Target[t] = x)
                                         ELSE installed[x]]
      /\ installation' = [x \in Targets |-> IF x \in hit THEN installation[x] + 1 ELSE installation[x]]
      /\ proposed_version' = [x \in Targets |-> IF x \in hit THEN NoVersion ELSE proposed_version[x]]
      /\ UNCHANGED <<active_version, expected, pin, published, cleanup>>
  BY DEF rollbackExtensionLifecycle, runnerVars
<1>2. over \in SUBSET Lifecycles /\ over \subseteq Pending
  BY DEF Flow, Live
<1>3. \A t \in over : ~Live(t)'
  BY DEF Live, Open
<1>4. Lifecycles \subseteq Tasks
  BY DEF Lifecycles
<1> HIDE DEF over
<1>5. Pending' = Pending \ over
  BY <1>1, <1>2, <1>4 DEF Pending
<1>6. ASSUME NEW x \in Targets, \E t \in over : Target[t] = x
      PROVE  /\ proposed_version'[x] = NoVersion
             /\ installed'[x] = "failed" \/ (installed'[x] = "installed" /\ active_version[x] # NoVersion)
  <2>1. x \in hit
    BY <1>6
  <2>2. Target[CHOOSE t \in over : Target[t] = x] = x
    BY <1>6
  <2>3. QED
    BY <1>1, <2>1, <2>2 DEF Restored
<1>7. ASSUME NEW x \in Targets, ~\E t \in over : Target[t] = x
      PROVE  /\ proposed_version'[x] = proposed_version[x]
             /\ installed'[x] = installed[x]
             /\ installation'[x] = installation[x]
  BY <1>1, <1>7
<1>8. /\ installed' \in [Targets -> InstallState] /\ installation' \in [Targets -> Nat]
      /\ proposed_version' \in [Targets -> Versions \cup {NoVersion}]
      /\ lifecycle' \in [Tasks -> {"none", "pending", "succeeded", "failed"}]
  <2>1. \A t : Restored(t) \in InstallState
    BY DEF Restored, InstallState
  <2>2. /\ installed \in [Targets -> InstallState] /\ installation \in [Targets -> Nat]
        /\ proposed_version \in [Targets -> Versions \cup {NoVersion}]
        /\ lifecycle \in [Tasks -> {"none", "pending", "succeeded", "failed"}]
    BY DEF LcColumns
  <2> HIDE DEF hit
  <2>3. installed' \in [Targets -> InstallState]
    BY <1>1, <2>1, <2>2
  <2>4. QED
    BY <1>1, <2>2, <2>3
<1>9. RolledBack(over)
  BY <1>2, <1>5, <1>6, <1>7 DEF RolledBack
<1>10. QED
  BY <1>1, <1>2, <1>3, <1>8, <1>9

\* So the rows fit after it.
LEMMA FlowRolls ==
    ASSUME Flow, NEW over \in SUBSET Lifecycles, RolledBack(over), ConsentsRest,
           \A t \in over : ~Live(t)', UNCHANGED <<active_version, expected>>
    PROVE  Flow'
<1>0. Pending' = Pending \ over /\ over \subseteq Pending
  BY DEF RolledBack
<1>1. ASSUME NEW t \in Pending'
      PROVE  /\ t \in Pending /\ Target[t] \in Targets
             /\ proposed_version'[Target[t]] = proposed_version[Target[t]]
             /\ installed'[Target[t]] = installed[Target[t]]
             /\ installation'[Target[t]] = installation[Target[t]]
  <2>1. t \in Pending /\ t \notin over /\ Target[t] \in Targets
    BY <1>0, LifecycleTypes DEF Pending
  <2>2. ~\E u \in over : Target[u] = Target[t]
    BY <1>0, <2>1 DEF Flow
  <2>3. QED
    BY <2>1, <2>2 DEF RolledBack
<1>2. ASSUME NEW x \in Targets
      PROVE  /\ installed'[x] \in InTransit => \E t \in Pending' : Target[t] = x
             /\ proposed_version'[x] # NoVersion =>
                   \E t \in Pending' : Target[t] = x /\ proposed_version'[x] = t
             /\ installed'[x] = "installed" => active_version[x] # NoVersion
             /\ installed'[x] \in {"absent", "installing"} => active_version[x] = NoVersion
  <2>1. CASE \E t \in over : Target[t] = x
    BY <2>1 DEF RolledBack, InTransit
  <2>2. CASE ~\E t \in over : Target[t] = x
    <3>1. proposed_version'[x] = proposed_version[x] /\ installed'[x] = installed[x]
      BY <2>2 DEF RolledBack
    <3>2. QED
      BY <1>0, <2>2, <3>1 DEF Flow
  <2>3. QED
    BY <2>1, <2>2
<1>3. \A t \in Lifecycles : Live(t)' => t \in Pending'
  BY <1>0, LifecycleTypes DEF Flow, ConsentsRest
<1>4. /\ \A t, u \in Pending' : Target[t] = Target[u] => t = u
      /\ \A t, u \in Pending' : Operation[t] # "uninstall" /\ Operation[u] # "uninstall" => t = u
  BY <1>0 DEF Flow
<1>5. \A t \in Pending' : /\ installed'[Target[t]] = Transition[Operation[t]]
                          /\ installation'[Target[t]] = expected[t]
                          /\ Operation[t] # "uninstall" => proposed_version'[Target[t]] = t
  BY <1>1 DEF Flow
<1>6. QED
  BY <1>2, <1>3, <1>4, <1>5 DEF Flow

\* A request opens the only lifecycle of its installation.
LEMMA FlowRequested ==
    ASSUME LcColumns, Flow, NEW t \in Tasks, request(t),
           \A u \in Tasks : Live(u)' => u = t \/ Live(u)
    PROVE  Flow' /\ LcColumns' /\ Pending' = Pending \cup {t} /\ t \in Lifecycles
<1> DEFINE x == Target[t]
           o == Operation[t]
<1>0. /\ t \in Lifecycles /\ x \in Targets /\ o \in {"install", "update", "uninstall"}
      /\ Transition[o] \in InTransit /\ Transition[o] \in InstallState /\ Lifecycles \subseteq Tasks
  <2>1. t \in Lifecycles
    BY DEF request
  <2>2. QED
    BY <2>1, LifecycleTypes DEF Lifecycles
<1>1. /\ o = "install" <=> installed[x] = "absent"
      /\ Admitted(t)
      /\ installed' = [installed EXCEPT ![x] = Transition[o]]
      /\ installation' = [installation EXCEPT ![x] = @ + 1]
      /\ proposed_version' = [proposed_version EXCEPT ![x] = IF o = "uninstall" THEN @ ELSE t]
      /\ lifecycle' = [lifecycle EXCEPT ![t] = "pending"]
      /\ expected' = [expected EXCEPT ![t] = installation[x] + 1]
      /\ UNCHANGED <<active_version, pin, handler, published, cleanup>>
  BY DEF request, runnerVars
<1>2. /\ installed \in [Targets -> InstallState] /\ installation \in [Targets -> Nat]
      /\ proposed_version \in [Targets -> Versions \cup {NoVersion}]
      /\ lifecycle \in [Tasks -> {"none", "pending", "succeeded", "failed"}]
      /\ expected \in [Tasks -> Nat]
  BY DEF LcColumns
<1>3. \A u \in Pending : u \in Tasks /\ u # t /\ Target[u] # x /\ Target[u] \in Targets
  BY <1>0, <1>1, LifecycleTypes DEF Admitted, Pending
<1>4. Pending' = Pending \cup {t}
  BY <1>0, <1>1, <1>2 DEF Pending
<1>5. LcColumns'
  <2>1. installed' \in [Targets -> InstallState]
    BY <1>0, <1>1, <1>2
  <2>2. t \in Versions
    BY DEF Versions
  <2>3. proposed_version' \in [Targets -> Versions \cup {NoVersion}]
    BY <1>0, <1>1, <1>2, <2>2
  <2>4. /\ installation' \in [Targets -> Nat] /\ expected' \in [Tasks -> Nat]
        /\ lifecycle' \in [Tasks -> {"none", "pending", "succeeded", "failed"}]
    BY <1>0, <1>1, <1>2
  <2>5. QED
    BY <1>1, <2>1, <2>3, <2>4 DEF LcColumns
<1>6. \A u, w \in Pending' : Target[u] = Target[w] => u = w
  BY <1>3, <1>4 DEF Flow
<1>7. \A u, w \in Pending' : Operation[u] # "uninstall" /\ Operation[w] # "uninstall" => u = w
  <2>1. o # "uninstall" => \A u \in Pending : Operation[u] = "uninstall"
    <3>1. SUFFICES ASSUME o # "uninstall", NEW u \in Pending PROVE Operation[u] = "uninstall"
      OBVIOUS
    <3>2. u \in Lifecycles /\ lifecycle[u] = "pending" /\ Operation[u] \in {"install", "update", "uninstall"}
      BY LifecycleTypes DEF Pending
    <3>3. QED
      BY <1>0, <1>1, <3>1, <3>2 DEF Admitted
  <2>2. QED
    BY <1>4, <2>1 DEF Flow
<1>8. ASSUME NEW u \in Pending'
      PROVE  /\ installed'[Target[u]] = Transition[Operation[u]]
             /\ installation'[Target[u]] = expected'[u]
             /\ Operation[u] # "uninstall" => proposed_version'[Target[u]] = u
  <2>1. CASE u = t
    BY <1>0, <1>1, <1>2, <2>1
  <2>2. CASE u # t
    <3>1. u \in Pending
      BY <1>4, <2>2
    <3>2. /\ installed[Target[u]] = Transition[Operation[u]]
          /\ installation[Target[u]] = expected[u]
          /\ Operation[u] # "uninstall" => proposed_version[Target[u]] = u
      BY <3>1 DEF Flow
    <3>3. u \in Tasks /\ Target[u] # x /\ Target[u] \in Targets
      BY <1>3, <3>1
    <3>4. QED
      BY <1>1, <1>2, <2>2, <3>2, <3>3
  <2>3. QED
    BY <2>1, <2>2
<1>9. ASSUME NEW y \in Targets
      PROVE  /\ installed'[y] \in InTransit => \E u \in Pending' : Target[u] = y
             /\ proposed_version'[y] # NoVersion =>
                   \E u \in Pending' : Target[u] = y /\ proposed_version'[y] = u
             /\ installed'[y] = "installed" => active_version'[y] # NoVersion
             /\ installed'[y] \in {"absent", "installing"} => active_version'[y] = NoVersion
  <2>1. CASE y = x
    <3>1. proposed_version[x] = NoVersion
      BY <1>0, <1>3 DEF Flow
    <3>2. proposed_version'[x] \in {NoVersion, t}
      BY <1>0, <1>1, <1>2, <3>1
    <3>3. installed'[x] = Transition[o] /\ Transition[o] # "installed" /\ Transition[o] # "absent"
      BY <1>0, <1>1, <1>2 DEF InTransit
    <3>4. Transition[o] = "installing" => o = "install"
      BY <1>0 DEF Transition
    <3>5. Transition[o] = "installing" => active_version[x] = NoVersion
      BY <1>0, <1>1, <3>4 DEF Flow
    <3>6. QED
      BY <1>1, <1>4, <2>1, <3>2, <3>3, <3>5
  <2>2. CASE y # x
    <3>1. installed'[y] = installed[y] /\ proposed_version'[y] = proposed_version[y]
      BY <1>1, <1>2, <2>2
    <3>2. QED
      BY <1>1, <1>4, <3>1 DEF Flow
  <2>3. QED
    BY <2>1, <2>2
<1>10. \A u \in Lifecycles : Live(u)' => u \in Pending'
  BY <1>0, <1>4 DEF Flow
<1>11. QED
  BY <1>0, <1>4, <1>5, <1>6, <1>7, <1>8, <1>9, <1>10 DEF Flow

\* The end of a lifecycle: its installation rests again.
LEMMA FlowEnded ==
    ASSUME LcColumns, Flow, ConsentsRest, NEW t \in Pending, NEW s \in {"succeeded", "failed"},
           NEW i \in {"installed", "removed", "failed"}, NEW v \in Versions \cup {NoVersion},
           lifecycle' = [lifecycle EXCEPT ![t] = s], ~Live(t)',
           installed' = [installed EXCEPT ![Target[t]] = i],
           installation' = [installation EXCEPT ![Target[t]] = @ + 1],
           proposed_version' = [proposed_version EXCEPT ![Target[t]] = NoVersion],
           active_version' = [active_version EXCEPT ![Target[t]] = v],
           i = "installed" => v # NoVersion,
           UNCHANGED expected
    PROVE  /\ Flow' /\ Pending' = Pending \ {t}
           /\ installed' \in [Targets -> InstallState] /\ installation' \in [Targets -> Nat]
           /\ proposed_version' \in [Targets -> Versions \cup {NoVersion}]
           /\ active_version' \in [Targets -> Versions \cup {NoVersion}]
           /\ lifecycle' \in [Tasks -> {"none", "pending", "succeeded", "failed"}]
<1> DEFINE x == Target[t]
<1>0. t \in Tasks /\ x \in Targets /\ t \in Lifecycles /\ Lifecycles \subseteq Tasks
  BY LifecycleTypes DEF Pending, Lifecycles
<1>1. /\ installed \in [Targets -> InstallState] /\ installation \in [Targets -> Nat]
      /\ proposed_version \in [Targets -> Versions \cup {NoVersion}]
      /\ active_version \in [Targets -> Versions \cup {NoVersion}]
      /\ lifecycle \in [Tasks -> {"none", "pending", "succeeded", "failed"}]
      /\ i \in InstallState
  BY DEF LcColumns, InstallState
<1>2. /\ installed' \in [Targets -> InstallState] /\ installation' \in [Targets -> Nat]
      /\ proposed_version' \in [Targets -> Versions \cup {NoVersion}]
      /\ active_version' \in [Targets -> Versions \cup {NoVersion}]
      /\ lifecycle' \in [Tasks -> {"none", "pending", "succeeded", "failed"}]
  BY <1>0, <1>1
<1>3. Pending' = Pending \ {t}
  BY <1>0, <1>1 DEF Pending
<1>4. \A u \in Pending' : u \in Pending /\ u # t /\ Target[u] # x /\ Target[u] \in Targets
  BY <1>3, LifecycleTypes DEF Flow, Pending
<1>5. ASSUME NEW u \in Pending'
      PROVE  /\ installed'[Target[u]] = Transition[Operation[u]]
             /\ installation'[Target[u]] = expected[u]
             /\ Operation[u] # "uninstall" => proposed_version'[Target[u]] = u
  <2>1. /\ installed[Target[u]] = Transition[Operation[u]]
        /\ installation[Target[u]] = expected[u]
        /\ Operation[u] # "uninstall" => proposed_version[Target[u]] = u
    BY <1>4 DEF Flow
  <2>2. QED
    BY <1>1, <1>4, <2>1
<1>6. ASSUME NEW y \in Targets
      PROVE  /\ installed'[y] \in InTransit => \E u \in Pending' : Target[u] = y
             /\ proposed_version'[y] # NoVersion =>
                   \E u \in Pending' : Target[u] = y /\ proposed_version'[y] = u
             /\ installed'[y] = "installed" => active_version'[y] # NoVersion
             /\ installed'[y] \in {"absent", "installing"} => active_version'[y] = NoVersion
  <2>1. CASE y = x
    BY <1>0, <1>1, <2>1 DEF InTransit
  <2>2. CASE y # x
    <3>1. /\ installed'[y] = installed[y] /\ proposed_version'[y] = proposed_version[y]
          /\ active_version'[y] = active_version[y]
      BY <1>1, <2>2
    <3>2. QED
      BY <1>3, <2>2, <3>1 DEF Flow
  <2>3. QED
    BY <2>1, <2>2
<1>7. \A u \in Lifecycles : Live(u)' => u \in Pending'
  BY <1>0, <1>3 DEF Flow, ConsentsRest
<1>8. /\ \A u, w \in Pending' : Target[u] = Target[w] => u = w
      /\ \A u, w \in Pending' : Operation[u] # "uninstall" /\ Operation[w] # "uninstall" => u = w
  BY <1>3 DEF Flow
<1>9. QED
  BY <1>2, <1>3, <1>5, <1>6, <1>7, <1>8 DEF Flow

-----------------------------------------------------------------------------
(* Versions, pins and artifacts *)

\* A version has one installation.
LEMMA OneOwnerOfVersion ==
    ASSUME NEW v, NEW x \in Targets, NEW y \in Targets, Fits(v, x), Fits(v, y)
    PROVE  x = y
BY VersionsAssumption DEF Fits

\* No step but the creation of a task makes a task need a version.
LEMMA NeedsStay ==
    ASSUME LcBase, VersionsFit, LcMoved, UNCHANGED pin, NEW a \in Tasks, Needs(a)'
    PROVE  Needs(a)
<1>1. status[a] \in Status
  BY BaseTypes DEF StoreTypeOK
<1>2. status[a] # "absent"
  BY DEF VersionsFit, Needs
<1>3. status[a] \in Terminal => status'[a] \in Terminal
  BY DEF LcMoved, Onward
<1>4. QED
  BY <1>1, <1>2, <1>3 DEF Needs, Status, Terminal

\* A step that publishes, installs and retires nothing.
LEMMA VersionsRest ==
    ASSUME VersionsFit, LcColumns, LcMoved, Pending' \subseteq Pending, cleanup' \subseteq cleanup,
           UNCHANGED <<active_version, pin>>
    PROVE  VersionsFit'
<1>1. \A v : Used(v)' => Used(v)
  BY DEF Used
<1>2. \A v \in Tasks : Used(v)' => status'[v] # "absent" /\ v \notin Pending'
  BY <1>1 DEF VersionsFit, LcMoved, NoneVanishes
<1>3. \A v \in Pending' : status'[v] # "absent"
  BY LifecycleTypes DEF VersionsFit, LcMoved, NoneVanishes, Pending
<1>4. \A a \in Tasks : pin'[a] # NoVersion => status'[a] # "absent"
  BY DEF VersionsFit, LcMoved, NoneVanishes
<1>5. QED
  BY <1>2, <1>3, <1>4 DEF VersionsFit

\* The artifacts stay when none is removed.
LEMMA ArtifactsRest ==
    ASSUME LcBase, VersionsFit, ArtifactsKept, LcMoved, UNCHANGED <<active_version, pin, setting>>,
           cleanup' \subseteq cleanup, node => published \subseteq published'
    PROVE  ArtifactsKept'
<1>1. \A a \in Tasks : Needs(a)' => Needs(a)
  BY NeedsStay
<1>2. node' = node /\ May("retry")' = May("retry")
  BY DEF setting, May
<1>3. QED
  BY <1>1, <1>2 DEF ArtifactsKept

\* A handler that stays where it is knows what it knew.
LEMMA KnowsStill ==
    ASSUME LcInd, LcMoved, UNCHANGED <<pin, setting>>, Pending' \subseteq Pending,
           \A t \in Pending' : active_version'[Target[t]] = active_version[Target[t]],
           NEW g \in Executors, Calm(g),
           node => \A t \in Pending' : Operation[t] # "uninstall" =>
                      (Digest[t] \in published => Digest[t] \in published')
    PROVE  HandlerKnows(exec[g].fence.task, handler[g])'
<1>1. \A a \in Tasks : Needs(a)' => Needs(a)
  BY NeedsStay DEF LcInd
<1>2. node' = node /\ May("retry")' = May("retry")
  BY DEF setting, May
<1>3. CASE handler'[g].pc \notin {"promote", "complete"}
  BY <1>3 DEF HandlerKnows
<1>4. CASE handler'[g].pc \in {"promote", "complete"}
  <2>1. exec'[g].fence.task = exec[g].fence.task /\ handler'[g] = handler[g]
    BY <1>4 DEF Calm
  <2>2. HandlerKnows(exec[g].fence.task, handler[g])
    BY DEF LcInd
  <2>3. QED
    BY <1>1, <1>2, <2>1, <2>2 DEF HandlerKnows
<1>5. QED
  BY <1>3, <1>4

\* Steps that change neither versions nor pins, remove no artifact and open no
\* lifecycle, while every handler stays where it is or is done.
LEMMA QuietStep ==
    ASSUME LcInd, LcMoved, LcBase', LcColumns', Flow', UNCHANGED <<active_version, pin, setting>>,
           Pending' \subseteq Pending, cleanup' \subseteq cleanup, node => published \subseteq published',
           \A g \in Executors : Calm(g)
    PROVE  LcInd'
<1>1. VersionsFit' /\ ArtifactsKept'
  BY VersionsRest, ArtifactsRest DEF LcInd
<1>2. \A g \in Executors : HandlerKnows(exec[g].fence.task, handler[g])'
  BY KnowsStill
<1>3. QED
  BY <1>1, <1>2 DEF LcInd

\* A request: its task is new, so no version, pin or handler is about it.
LEMMA RequestStep ==
    ASSUME LcInd, NEW t \in Tasks, request(t), UNCHANGED setting
    PROVE  LcInd'
<1>1. LcMoved /\ LcBase' /\ \A u \in Tasks : Live(u)' => u = t \/ Live(u)
  BY RequestBase DEF LcInd
<1>2. Flow' /\ LcColumns' /\ Pending' = Pending \cup {t} /\ t \in Lifecycles
  BY <1>1, FlowRequested DEF LcInd
<1>3. UNCHANGED <<active_version, pin, handler, published, cleanup, exec>> /\ status[t] = "absent"
  BY DEF request, runnerVars
<1>4. status'[t] # "absent"
  BY BaseTypes DEF LcInd, request, StoreTypeOK
<1>5. \A v : Used(v)' <=> Used(v)
  BY <1>3 DEF Used
<1>6. ~Used(t)
  BY <1>3 DEF LcInd, VersionsFit
<1>7. VersionsFit'
  <2>1. \A v \in Tasks : Used(v)' => status'[v] # "absent" /\ v \notin Pending'
    BY <1>1, <1>2, <1>5, <1>6 DEF LcInd, VersionsFit, LcMoved, NoneVanishes
  <2>2. \A v \in Pending' : status'[v] # "absent"
    BY <1>1, <1>2, <1>4, LifecycleTypes DEF LcInd, VersionsFit, LcMoved, NoneVanishes, Pending
  <2>3. \A a \in Tasks : pin'[a] # NoVersion => status'[a] # "absent"
    BY <1>1, <1>3 DEF LcInd, VersionsFit, LcMoved, NoneVanishes
  <2>4. QED
    BY <1>3, <2>1, <2>2, <2>3 DEF LcInd, VersionsFit
<1>8. ArtifactsKept'
  BY <1>1, <1>3, ArtifactsRest DEF LcInd
<1>9. ASSUME NEW g \in Executors PROVE HandlerKnows(exec[g].fence.task, handler[g])'
  <2>1. HandlerKnows(exec[g].fence.task, handler[g]) /\ HandlerFits(exec[g], handler[g])
    BY DEF LcInd, LcBase
  <2>2. node' = node /\ May("retry")' = May("retry")
    BY DEF setting, May
  <2>3. \A a \in Tasks : Needs(a)' => Needs(a)
    BY <1>1, <1>3, NeedsStay DEF LcInd
  <2>4. CASE handler[g].pc = "idle"
    BY <1>3, <2>4 DEF HandlerKnows
  <2>5. CASE handler[g].pc # "idle"
    <3>1. exec[g].fence.task # t
      BY <1>3, <2>1, <2>5 DEF HandlerFits, IdleHandler, LcInd, LcBase, Started
    <3>2. exec[g].fence.task \in Pending' => exec[g].fence.task \in Pending
      BY <1>2, <3>1
    <3>3. QED
      BY <1>3, <2>1, <2>2, <2>3, <3>2 DEF HandlerKnows
  <2>6. QED
    BY <2>4, <2>5
<1>10. QED
  BY <1>1, <1>2, <1>7, <1>8, <1>9 DEF LcInd

\* A handler that does not move.
LEMMA StillIsCalm ==
    ASSUME LcBase, UNCHANGED <<exec, handler>>, NEW g \in Executors
    PROVE  Calm(g)
BY DEF LcBase, HandlerFits, IdleHandler, Calm

\* An uninstall reads its revision: the task is new, so no open lifecycle is about it.
LEMMA RemovalStep ==
    ASSUME LcInd, NEW t \in Tasks, RemoveMutation(t), UNCHANGED setting
    PROVE  LcInd'
<1>1. /\ UNCHANGED <<storeVars, exec, claiming, confVars, instVars, lifecycle, pin,
                     handler, published, cleanup>>
      /\ Operation[t] = "uninstall" /\ status[t] = "absent"
      /\ expected' = [expected EXCEPT ![t] = installation[Target[t]]]
  BY DEF RemoveMutation, poolVars, runnerVars
<1>2. UNCHANGED <<installed, installation, active_version, proposed_version>>
  BY <1>1 DEF instVars
<1>3. LcMoved /\ ReserveInv' /\ ConsentHasTask' /\ ConsentsRest
  BY <1>1, Untouched DEF LcInd
<1>4. LcBase'
  BY <1>1, <1>3, OwnerBase DEF LcInd
<1>5. Pending' = Pending
  BY <1>1 DEF Pending
<1>6. t \in Lifecycles /\ Target[t] \in Targets
  BY <1>1, LifecycleTypes DEF Lifecycles
<1>7. \A u \in Pending : expected'[u] = expected[u]
  BY <1>1 DEF LcInd, VersionsFit, LcColumns
<1>8. Flow'
  <2>1. \A u \in Lifecycles : Live(u)' => u \in Pending
    BY <1>3, LifecycleTypes DEF LcInd, Flow, ConsentsRest
  <2>2. QED
    BY <1>2, <1>5, <1>7, <2>1 DEF LcInd, Flow
<1>9. LcColumns'
  <2>1. expected' \in [Tasks -> Nat]
    BY <1>1, <1>6 DEF LcInd, LcColumns
  <2>2. QED
    BY <1>1, <1>2, <2>1 DEF LcInd, LcColumns
<1>10. \A g \in Executors : Calm(g)
  BY <1>1, StillIsCalm DEF LcInd
<1>11. QED
  BY <1>1, <1>2, <1>3, <1>4, <1>5, <1>8, <1>9, <1>10, QuietStep

\* A new agent task takes the active version of an installation at rest.
LEMMA CreateStep ==
    ASSUME LcInd, NEW a \in Tasks, NEW x \in Targets, CreateAgent(a, x), UNCHANGED setting
    PROVE  LcInd'
<1>0. /\ installed[x] = "installed" /\ CreateTask(a, "queued", now)
      /\ pin' = [pin EXCEPT ![a] = active_version[x]]
      /\ UNCHANGED <<exec, claiming, confVars, instVars, lifecycle, expected, handler, published, cleanup>>
  BY DEF CreateAgent, runnerVars
<1>1. UNCHANGED <<installed, installation, active_version, proposed_version>>
  BY <1>0 DEF instVars
<1>2. [StoreNext]_storeVars
  <2>1. now \in Nat /\ 0 \in 0..MaxDelay /\ now + 0 = now
    BY ConstantsAssumption, BaseTypes DEF StoreTypeOK, LcInd
  <2>2. ClientNext
    BY <1>0, <2>1 DEF ClientNext
  <2>3. QED
    BY <2>2 DEF StoreNext
<1>3. LcMoved /\ LcBase' /\ ConsentsRest
  BY <1>0, <1>2, AgentBase DEF LcInd
<1>4. Flow'
  BY <1>0, <1>3, FlowRests DEF LcInd
<1>5. /\ pin \in [Tasks -> Versions \cup {NoVersion}]
      /\ active_version \in [Targets -> Versions \cup {NoVersion}]
      /\ status \in [Tasks -> Status] /\ cleanup \subseteq Versions
  BY BaseTypes DEF LcInd, LcColumns, StoreTypeOK
<1>6. LcColumns'
  BY <1>0, <1>1, <1>5 DEF LcInd, LcColumns
<1>7. /\ status[a] = "absent" /\ status' = [status EXCEPT ![a] = "queued"]
      /\ active_version[x] # NoVersion
  BY <1>0 DEF CreateTask, LcInd, Flow
<1>8. Pending' = Pending
  BY <1>0 DEF Pending
<1>9. \A v : Used(v)' => Used(v)
  BY <1>0, <1>1, <1>5 DEF Used
<1>10. VersionsFit'
  <2>1. \A v \in Tasks : Used(v)' => status'[v] # "absent" /\ v \notin Pending'
    BY <1>3, <1>8, <1>9 DEF LcInd, VersionsFit, LcMoved, NoneVanishes
  <2>2. \A v \in Pending' : status'[v] # "absent"
    BY <1>3, <1>8, LifecycleTypes DEF LcInd, VersionsFit, LcMoved, NoneVanishes, Pending
  <2>3. \A b \in Tasks : pin'[b] # NoVersion => status'[b] # "absent"
    BY <1>0, <1>5, <1>7 DEF LcInd, VersionsFit
  <2>4. QED
    BY <1>0, <1>1, <2>1, <2>2, <2>3 DEF LcInd, VersionsFit
<1>11. node' = node /\ May("retry")' = May("retry")
  BY DEF setting, May
<1>12. \A b \in Tasks : b # a /\ Needs(b)' => Needs(b) /\ pin'[b] = pin[b]
  BY <1>0, <1>5, <1>7 DEF Needs
<1>13. pin'[a] = active_version[x]
  BY <1>0, <1>5
<1>14. ArtifactsKept'
  <2>1. active_version[x] \notin cleanup
    BY DEF LcInd, VersionsFit
  <2>2. node => Digest[active_version[x]] \in published
    BY <1>7 DEF LcInd, ArtifactsKept
  <2>3. node /\ ~May("retry") =>
           \A b \in Tasks : Needs(b)' => pin'[b] \notin cleanup /\ Digest[pin'[b]] \in published
    BY <1>12, <1>13, <2>1, <2>2 DEF LcInd, ArtifactsKept
  <2>4. QED
    BY <1>0, <1>1, <1>11, <2>3 DEF LcInd, ArtifactsKept
<1>15. ASSUME NEW g \in Executors PROVE HandlerKnows(exec[g].fence.task, handler[g])'
  <2> DEFINE t == exec[g].fence.task
  <2>1. HandlerKnows(t, handler[g])
    BY DEF LcInd
  <2>2. t \in Pending => active_version[x] # active_version[Target[t]]
    <3>1. SUFFICES ASSUME t \in Pending, active_version[x] = active_version[Target[t]] PROVE FALSE
      OBVIOUS
    <3>2. Target[t] \in Targets /\ installed[Target[t]] \in InTransit
      BY <3>1, LifecycleTypes DEF LcInd, Flow, Pending
    <3>3. Fits(active_version[x], x) /\ Fits(active_version[x], Target[t])
      BY <1>7, <3>1, <3>2 DEF LcInd, VersionsFit
    <3>4. x = Target[t]
      BY <3>2, <3>3, OneOwnerOfVersion
    <3>5. QED
      BY <1>0, <3>2, <3>4 DEF InTransit
  <2>3. \A b \in Tasks : Needs(b)' => pin'[b] = active_version[x] \/ (Needs(b) /\ pin'[b] = pin[b])
    BY <1>12, <1>13
  <2>4. QED
    BY <1>0, <1>1, <1>8, <1>11, <2>1, <2>2, <2>3 DEF HandlerKnows
<1>16. QED
  BY <1>3, <1>4, <1>6, <1>10, <1>14, <1>15 DEF LcInd

\* A retry copies the pin of its task, of which nothing is claimed then.
LEMMA RetryStep ==
    ASSUME LcInd, NEW a \in Tasks, NEW b \in Tasks, RetryAgent(a, b), UNCHANGED setting
    PROVE  LcInd'
<1>0. /\ May("retry") /\ RetryTask(a, b, now)
      /\ pin' = [pin EXCEPT ![b] = pin[a]]
      /\ UNCHANGED <<exec, claiming, confVars, instVars, lifecycle, expected, handler, published, cleanup>>
  BY DEF RetryAgent, runnerVars
<1>1. UNCHANGED <<installed, installation, active_version, proposed_version>>
  BY <1>0 DEF instVars
<1>2. [StoreNext]_storeVars
  <2>1. now \in Clock
    <3>1. now \in Nat /\ MaxLag \in Nat
      BY ConstantsAssumption, BaseTypes DEF StoreTypeOK, LcInd
    <3>2. QED
      BY <3>1 DEF Clock
  <2>2. ClientNext
    BY <1>0, <2>1 DEF ClientNext
  <2>3. QED
    BY <2>2 DEF StoreNext
<1>3. LcMoved /\ LcBase' /\ ConsentsRest
  BY <1>0, <1>2, AgentBase DEF LcInd
<1>4. Flow'
  BY <1>0, <1>3, FlowRests DEF LcInd
<1>5. pin \in [Tasks -> Versions \cup {NoVersion}] /\ status \in [Tasks -> Status]
  BY BaseTypes DEF LcInd, LcColumns, StoreTypeOK
<1>6. LcColumns'
  BY <1>0, <1>1, <1>5 DEF LcInd, LcColumns
<1>7. status' = [status EXCEPT ![b] = "queued"]
  BY <1>0 DEF RetryTask
<1>8. Pending' = Pending
  BY <1>0 DEF Pending
<1>9. \A v : Used(v)' => Used(v)
  BY <1>0, <1>1, <1>5 DEF Used
<1>10. VersionsFit'
  <2>1. \A v \in Tasks : Used(v)' => status'[v] # "absent" /\ v \notin Pending'
    BY <1>3, <1>8, <1>9 DEF LcInd, VersionsFit, LcMoved, NoneVanishes
  <2>2. \A v \in Pending' : status'[v] # "absent"
    BY <1>3, <1>8, LifecycleTypes DEF LcInd, VersionsFit, LcMoved, NoneVanishes, Pending
  <2>3. \A c \in Tasks : pin'[c] # NoVersion => status'[c] # "absent"
    BY <1>0, <1>5, <1>7 DEF LcInd, VersionsFit
  <2>4. QED
    BY <1>0, <1>1, <2>1, <2>2, <2>3 DEF LcInd, VersionsFit
<1>11. node' = node /\ May("retry")'
  BY <1>0 DEF setting, May
<1>12. ArtifactsKept'
  BY <1>0, <1>1, <1>11 DEF LcInd, ArtifactsKept
<1>13. ASSUME NEW g \in Executors PROVE HandlerKnows(exec[g].fence.task, handler[g])'
  BY <1>0, <1>1, <1>8, <1>11 DEF LcInd, HandlerKnows
<1>14. QED
  BY <1>3, <1>4, <1>6, <1>10, <1>12, <1>13 DEF LcInd

\* The sweeper removes only what is neither active, proposed nor needed.
LEMMA SweepStep ==
    ASSUME LcInd, NEW v \in Versions, sweepNode(v), UNCHANGED setting
    PROVE  LcInd'
<1>0. /\ v \in cleanup /\ \A x \in Targets : v # active_version[x] /\ v # proposed_version[x]
      /\ published' = published \ {Digest[v]} /\ cleanup' \subseteq cleanup
      /\ UNCHANGED <<poolVars, confVars, instVars, lifecycle, expected, pin, handler>>
  BY DEF sweepNode
<1>1. /\ UNCHANGED <<installed, installation, active_version, proposed_version>>
      /\ UNCHANGED <<storeVars, exec, claiming>>
  BY <1>0 DEF instVars, poolVars
<1>2. LcMoved /\ ReserveInv' /\ ConsentHasTask' /\ ConsentsRest
  BY <1>0, <1>1, Untouched DEF LcInd
<1>3. LcBase' /\ Flow'
  BY <1>0, <1>1, <1>2, OwnerBase, FlowRests DEF LcInd
<1>4. LcColumns'
  BY <1>0, <1>1 DEF LcInd, LcColumns
<1>5. Pending' = Pending
  BY <1>0 DEF Pending
<1>6. VersionsFit'
  BY <1>0, <1>1, <1>2, <1>5, VersionsRest DEF LcInd
<1>7. node' = node /\ May("retry")' = May("retry")
  BY DEF setting, May
<1>8. \A a \in Tasks : Needs(a)' => Needs(a)
  BY <1>0, <1>2, NeedsStay DEF LcInd
<1>9. node => \A w \in Versions : w # v /\ Digest[w] \in published => Digest[w] \in published'
  BY <1>0 DEF LcInd, ArtifactsKept
<1>10. ArtifactsKept'
  <2>1. (\A x \in Targets : active_version[x] # NoVersion => active_version[x] \in Versions)
        /\ \A a \in Tasks : pin[a] # NoVersion => pin[a] \in Versions
    BY DEF LcInd, LcColumns
  <2>2. node => \A x \in Targets : active_version[x] # NoVersion => Digest[active_version[x]] \in published'
    BY <1>0, <1>9, <2>1 DEF LcInd, ArtifactsKept
  <2>3. node /\ ~May("retry") =>
          \A a \in Tasks : Needs(a) => pin[a] \notin cleanup' /\ Digest[pin[a]] \in published'
    BY <1>0, <1>9, <2>1 DEF LcInd, ArtifactsKept, Needs
  <2>4. QED
    BY <1>0, <1>1, <1>7, <1>8, <2>2, <2>3 DEF LcInd, ArtifactsKept
<1>11. ASSUME NEW g \in Executors PROVE HandlerKnows(exec[g].fence.task, handler[g])'
  <2>1. ASSUME NEW t \in Pending, Operation[t] # "uninstall"
        PROVE  t \in Versions /\ t # v
    BY <1>0, <2>1, LifecycleTypes DEF LcInd, Flow, Pending, Versions
  <2>2. node => \A t \in Pending' : Operation[t] # "uninstall" =>
                   (Digest[t] \in published => Digest[t] \in published')
    BY <1>5, <1>9, <2>1
  <2>3. Calm(g)
    BY <1>0, <1>1, StillIsCalm DEF LcInd
  <2>4. QED
    BY <1>0, <1>1, <1>2, <1>5, <2>2, <2>3, KnowsStill
<1>12. QED
  BY <1>3, <1>4, <1>6, <1>10, <1>11 DEF LcInd

\* A step that rolls lifecycles back and whose handlers are calm.
LEMMA RollbackStep ==
    ASSUME LcInd, LcMoved, LcBase', ConsentsRest, rollbackExtensionLifecycle, UNCHANGED setting,
           handler' \in [Executors -> HandlerState], \A g \in Executors : Calm(g)
    PROVE  LcInd'
<1>1. PICK over \in SUBSET Lifecycles :
             /\ RolledBack(over)
             /\ \A t \in over : ~Live(t)'
             /\ UNCHANGED <<active_version, expected, pin, published, cleanup>>
             /\ installed' \in [Targets -> InstallState] /\ installation' \in [Targets -> Nat]
             /\ proposed_version' \in [Targets -> Versions \cup {NoVersion}]
             /\ lifecycle' \in [Tasks -> {"none", "pending", "succeeded", "failed"}]
  BY Rollback DEF LcInd
<1>2. Flow'
  BY <1>1, FlowRolls DEF LcInd
<1>3. LcColumns'
  BY <1>1 DEF LcInd, LcColumns
<1>4. Pending' \subseteq Pending
  BY <1>1 DEF RolledBack
<1>5. QED
  BY <1>1, <1>2, <1>3, <1>4, QuietStep

\* The owner, the sweeper and the pool.
LEMMA AnswerStep ==
    ASSUME LcInd, NEW t \in Tasks, NEW at \in Clock, OwnerAnswer(t, at), UNCHANGED setting
    PROVE  LcInd'
<1>1. /\ Confirm(t, at) \/ Reject(t, at) \/ sweepExpiredConfirmation(t, at)
      /\ rollbackExtensionLifecycle /\ UNCHANGED <<exec, claiming, handler>>
  BY DEF OwnerAnswer
<1>2. LcMoved /\ ReserveInv' /\ ConsentHasTask' /\ ConsentsRest
  BY <1>1, OwnerAnswers DEF LcInd
<1>3. LcBase'
  BY <1>1, <1>2, OwnerBase DEF LcInd
<1>4. \A g \in Executors : Calm(g)
  BY <1>1, StillIsCalm DEF LcInd
<1>5. handler' \in [Executors -> HandlerState]
  BY <1>1 DEF LcInd, LcColumns
<1>6. QED
  BY <1>1, <1>2, <1>3, <1>4, <1>5, RollbackStep

LEMMA PoolKeeps ==
    ASSUME LcInd, PoolStep, UNCHANGED setting
    PROVE  LcInd'
<1>1. rollbackExtensionLifecycle
  BY DEF PoolStep
<1>2. /\ LcMoved /\ LcBase' /\ ConsentsRest
      /\ handler' \in [Executors -> HandlerState]
      /\ \A g \in Executors : Calm(g)
  BY PoolBase DEF LcInd
<1>3. QED
  BY <1>1, <1>2, RollbackStep

-----------------------------------------------------------------------------
(* The steps of the handler *)

\* The other executors do not move.
LEMMA OthersAreCalm ==
    ASSUME LcBase, LcColumns, NEW e \in Executors, NEW x, NEW h, Turn(e, x, h),
           NEW g \in Executors, g # e
    PROVE  Calm(g)
<1>1. exec \in [Executors -> ExecState] /\ handler \in [Executors -> HandlerState]
  BY BaseTypes DEF LcColumns
<1>2. exec'[g] = exec[g] /\ handler'[g] = handler[g]
  BY <1>1 DEF Turn
<1>3. HandlerFits(exec[g], handler[g])
  BY DEF LcBase
<1>4. QED
  BY <1>2, <1>3 DEF Calm, HandlerFits, IdleHandler

\* A step that goes neither to the runner nor to the commit is calm.
LEMMA TurnsAreCalm ==
    ASSUME LcBase, LcColumns, NEW e \in Executors, NEW x, NEW h, Turn(e, x, h),
           h.pc \notin {"promote", "complete"}
    PROVE  \A g \in Executors : Calm(g)
<1>1. handler'[e] = h
  BY DEF Turn, LcColumns
<1>2. QED
  BY <1>1, OthersAreCalm DEF Calm

\* The rows stay typed when only the handler moves.
LEMMA HandlerTyped ==
    ASSUME LcColumns, NEW e \in Executors, NEW x, NEW h \in HandlerState, Turn(e, x, h)
    PROVE  handler' \in [Executors -> HandlerState]
BY DEF LcColumns, Turn

LEMMA IdleHandlerTyped == IdleHandler \in HandlerState /\ IdleHandler.pc = "idle"
BY DEF IdleHandler, HandlerState, Pc

\* A step of a handler that reads, or fails, and changes no row.
LEMMA ReadStep ==
    ASSUME LcInd, NEW e \in Executors, exec[e].phase = "handler", handler[e].pc # "idle",
           UNCHANGED <<storeVars, claiming, confVars, instVars, lifecycle, expected, pin, cleanup, setting>>,
           node => published \subseteq published',
           published' \subseteq {Digest[v] : v \in Versions},
           \/ Leave(e) \/ ReturnError(e)
           \/ \E pc \in Pc : /\ Goto(e, pc) /\ UNCHANGED exec
                             /\ pc \notin {"promote", "complete"}
                             /\ pc = "promoted_fail" => Operation[exec[e].fence.task] # "uninstall"
    PROVE  LcInd'
<1>0. LcBase /\ LcColumns /\ Flow
  BY DEF LcInd
<1>1. LcMoved /\ ReserveInv' /\ ConsentHasTask' /\ ConsentsRest
  BY <1>0, Untouched
<1>2. HandlerFits(exec[e], handler[e])
  BY <1>0 DEF LcBase
<1>3. PICK x \in ExecState, h \in HandlerState :
         /\ Turn(e, x, h) /\ h.pc \notin {"promote", "complete"} /\ HandlerFits(x, h)
  <2>1. CASE Leave(e)
    BY <1>0, <1>1, <2>1, Turns, IdleFits, IdleHandlerTyped, IdleIsTyped DEF LcMoved
  <2>2. CASE ReturnError(e)
    BY <1>0, <1>1, <2>2, Turns, IdleFits, IdleHandlerTyped DEF LcMoved
  <2>3. ASSUME NEW pc \in Pc, Goto(e, pc), UNCHANGED exec, pc \notin {"promote", "complete"},
               pc = "promoted_fail" => Operation[exec[e].fence.task] # "uninstall"
        PROVE  \E h \in HandlerState : /\ Turn(e, exec[e], h) /\ h.pc \notin {"promote", "complete"}
                                       /\ HandlerFits(exec[e], h)
    <3>1. PICK h \in HandlerState : Turn(e, exec[e], h) /\ h.pc = pc
      BY <1>0, <1>1, <2>3, Turns DEF LcMoved
    <3>2. HandlerFits(exec[e], h)
      BY <1>2, <2>3, <3>1 DEF HandlerFits
    <3>3. QED
      BY <2>3, <3>1, <3>2
  <2>4. exec[e] \in ExecState
    BY <1>0, BaseTypes
  <2>5. QED
    BY <2>1, <2>2, <2>3, <2>4
<1>4. LcBase'
  BY <1>0, <1>1, <1>3, TurnBase
<1>5. UNCHANGED <<installed, installation, active_version, proposed_version>>
  BY DEF instVars
<1>6. LcColumns'
  BY <1>0, <1>3, <1>5, HandlerTyped DEF LcColumns
<1>7. Flow'
  BY <1>0, <1>1, FlowRests
<1>8. \A g \in Executors : Calm(g)
  BY <1>0, <1>3, TurnsAreCalm
<1>9. Pending' = Pending
  BY DEF Pending
<1>10. QED
  BY <1>1, <1>4, <1>5, <1>6, <1>7, <1>8, <1>9, QuietStep

\* The handler looks for the consent, or finds it gone.
LEMMA LookStep ==
    ASSUME LcInd, NEW e \in Executors, NEW at \in Clock, UNCHANGED setting,
           GetConfirmation(e) \/ ConsumeRefused(e, at)
    PROVE  LcInd'
<1>1. {"consume", "reacquire"} \subseteq Pc
  BY DEF Pc
<1>2. /\ exec[e].phase = "handler" /\ handler[e].pc # "idle"
      /\ UNCHANGED <<storeVars, claiming, confVars, instVars, lifecycle, expected, pin, published, cleanup>>
      /\ \/ ReturnError(e)
         \/ Goto(e, "consume") /\ UNCHANGED exec
         \/ Goto(e, "reacquire") /\ UNCHANGED exec
  BY DEF GetConfirmation, ConsumeRefused, At, runnerVars
<1>3. published \subseteq {Digest[v] : v \in Versions}
  BY DEF LcInd, LcColumns
<1>4. QED
  BY <1>1, <1>2, <1>3, ReadStep

\* The consent is consumed, or ends with its task and its lifecycle.
LEMMA ConsumeStep ==
    ASSUME LcInd, NEW e \in Executors, NEW at \in Clock, ConsumeLifecycle(e, at), UNCHANGED setting
    PROVE  LcInd'
<1>0. LcBase /\ LcColumns
  BY DEF LcInd
<1>1. /\ exec[e].phase = "handler" /\ handler[e].pc = "consume"
      /\ Consume(exec[e].fence, at) /\ rollbackExtensionLifecycle /\ UNCHANGED claiming
      /\ (Goto(e, "pinned") /\ UNCHANGED exec) \/ Leave(e) \/ ReturnError(e)
  BY DEF ConsumeLifecycle, At
<1>2. LcMoved /\ ReserveInv' /\ ConsentHasTask' /\ ConsentsRest
  BY <1>0, <1>1, ConsumeBase
<1>3. PICK x \in ExecState, h \in HandlerState :
         /\ Turn(e, x, h) /\ h.pc \notin {"promote", "complete"} /\ HandlerFits(x, h)
  <2>1. CASE Leave(e)
    BY <1>0, <1>1, <1>2, <2>1, Turns, IdleFits, IdleHandlerTyped, IdleIsTyped DEF LcMoved
  <2>2. CASE ReturnError(e)
    BY <1>0, <1>1, <1>2, <2>2, Turns, IdleFits, IdleHandlerTyped DEF LcMoved
  <2>3. CASE Goto(e, "pinned") /\ UNCHANGED exec
    <3>1. PICK h \in HandlerState : Turn(e, exec[e], h) /\ h.pc = "pinned"
      BY <1>0, <1>1, <1>2, <2>3, Turns DEF LcMoved, Pc
    <3>2. HandlerFits(exec[e], handler[e])
      BY <1>0 DEF LcBase
    <3>3. HandlerFits(exec[e], h)
      BY <1>1, <3>1, <3>2 DEF HandlerFits
    <3>4. QED
      BY <1>0, <3>1, <3>3, BaseTypes
  <2>4. QED
    BY <1>1, <2>1, <2>2, <2>3
<1>4. LcBase'
  BY <1>0, <1>1, <1>2, <1>3, TurnBase
<1>5. \A g \in Executors : Calm(g)
  BY <1>0, <1>3, TurnsAreCalm
<1>6. handler' \in [Executors -> HandlerState]
  BY <1>0, <1>3, HandlerTyped
<1>7. QED
  BY <1>1, <1>2, <1>4, <1>5, <1>6, RollbackStep

\* The reservation moves to this lease, or the task is given up.
LEMMA ReacquireStep ==
    ASSUME LcInd, NEW e \in Executors, NEW at \in Clock, reacquireLifecycleReservation(e, at),
           UNCHANGED setting
    PROVE  LcInd'
<1> DEFINE f == exec[e].fence
<1>0. LcBase /\ LcColumns /\ Flow
  BY DEF LcInd
<1>1. /\ exec[e].phase = "handler" /\ handler[e].pc = "reacquire"
      /\ UNCHANGED <<storeVars, claiming, state, expires_at, binding, consumed_released, current,
                     instVars, lifecycle, expected, pin, published, cleanup>>
      /\ (Goto(e, "pinned") /\ UNCHANGED exec) \/ ReturnError(e)
  BY DEF reacquireLifecycleReservation, At, runnerVars
<1>2. LcMoved /\ ReserveInv' /\ ConsentHasTask' /\ ConsentsRest
  <2>1. CASE UNCHANGED <<reservation, active>>
    BY <1>0, <1>1, <2>1, Untouched DEF confVars
  <2>2. CASE /\ state[f.task] = "consumed" /\ f.task \notin consumed_released /\ FenceHolds(f, at)
             /\ reservation' = [reservation EXCEPT ![f.task] =
                     [attempt |-> f.attempt, epoch |-> f.epoch, revision |-> f.revision]]
             /\ active' = active \cup {f.task}
    BY <1>0, <1>1, <2>2, ReacquireBase
  <2>3. QED
    BY <2>1, <2>2 DEF reacquireLifecycleReservation
<1>3. PICK x \in ExecState, h \in HandlerState :
         /\ Turn(e, x, h) /\ h.pc \notin {"promote", "complete"} /\ HandlerFits(x, h)
  <2>1. CASE ReturnError(e)
    BY <1>0, <1>1, <1>2, <2>1, Turns, IdleFits, IdleHandlerTyped DEF LcMoved
  <2>2. CASE Goto(e, "pinned") /\ UNCHANGED exec
    <3>1. PICK h \in HandlerState : Turn(e, exec[e], h) /\ h.pc = "pinned"
      BY <1>0, <1>1, <1>2, <2>2, Turns DEF LcMoved, Pc
    <3>2. HandlerFits(exec[e], handler[e])
      BY <1>0 DEF LcBase
    <3>3. HandlerFits(exec[e], h)
      BY <1>1, <3>1, <3>2 DEF HandlerFits
    <3>4. QED
      BY <1>0, <3>1, <3>3, BaseTypes
  <2>3. QED
    BY <1>1, <2>1, <2>2
<1>4. LcBase'
  BY <1>0, <1>1, <1>2, <1>3, TurnBase
<1>5. \A g \in Executors : Calm(g)
  BY <1>0, <1>3, TurnsAreCalm
<1>6. UNCHANGED <<installed, installation, active_version, proposed_version>>
  BY <1>1 DEF instVars
<1>7. LcColumns'
  BY <1>0, <1>1, <1>3, <1>6, HandlerTyped DEF LcColumns
<1>8. Flow'
  BY <1>0, <1>1, <1>2, FlowRests
<1>9. Pending' = Pending
  BY <1>1 DEF Pending
<1>10. QED
  BY <1>1, <1>2, <1>4, <1>5, <1>6, <1>7, <1>8, <1>9, QuietStep

\* A step of a handler toward the runner or the commit, which changes no row.
LEMMA GoStep ==
    ASSUME LcInd, NEW e \in Executors, exec[e].phase = "handler", handler[e].pc # "idle",
           UNCHANGED <<storeVars, claiming, confVars, instVars, lifecycle, expected, pin, cleanup, setting>>,
           node => published \subseteq published',
           published' \subseteq {Digest[v] : v \in Versions},
           NEW h \in HandlerState, Turn(e, exec[e], h), h.pc # "promoted_fail",
           h.pc = "promote" => h.version # NoVersion,
           HandlerKnows(exec[e].fence.task, h)'
    PROVE  LcInd'
<1>0. LcBase /\ LcColumns /\ Flow /\ exec[e] \in ExecState
  BY BaseTypes DEF LcInd
<1>1. LcMoved /\ ReserveInv' /\ ConsentHasTask' /\ ConsentsRest
  BY <1>0, Untouched
<1>2. HandlerFits(exec[e], h)
  BY <1>0 DEF HandlerFits, LcBase
<1>3. LcBase'
  BY <1>0, <1>1, <1>2, TurnBase
<1>4. UNCHANGED <<installed, installation, active_version, proposed_version>>
  BY DEF instVars
<1>5. LcColumns'
  BY <1>0, <1>4, HandlerTyped DEF LcColumns
<1>6. Flow'
  BY <1>0, <1>1, FlowRests
<1>7. Pending' = Pending
  BY DEF Pending
<1>8. VersionsFit' /\ ArtifactsKept'
  BY <1>1, <1>4, <1>7, VersionsRest, ArtifactsRest DEF LcInd
<1>9. ASSUME NEW g \in Executors PROVE HandlerKnows(exec[g].fence.task, handler[g])'
  <2>1. CASE g = e
    <3>1. handler'[e] = h /\ exec'[e] = exec[e]
      BY <1>0 DEF Turn, LcColumns, LcBase, PoolInd, TypeOK
    <3>2. QED
      BY <2>1, <3>1 DEF HandlerKnows
  <2>2. CASE g # e
    <3>1. Calm(g)
      BY <1>0, <2>2, OthersAreCalm
    <3>2. QED
      BY <1>1, <1>4, <1>7, <3>1, KnowsStill
  <2>3. QED
    BY <2>1, <2>2
<1>10. QED
  BY <1>3, <1>5, <1>6, <1>8, <1>9 DEF LcInd

\* The installation is read: what the handler knows from now on.
LEMMA CheckStep ==
    ASSUME LcInd, NEW e \in Executors, CheckPinned(e), UNCHANGED setting
    PROVE  LcInd'
<1> DEFINE t == exec[e].fence.task
           gone == Operation[t] = "uninstall"
           refused == (gone \/ (node /\ Operation[t] = "update"))
                        /\ hasPinnedVersion(active_version[Target[t]])
           retired == IF node THEN publishedNodeVersions(Target[t]) ELSE {active_version[Target[t]]}
<1>1. /\ exec[e].phase = "handler" /\ handler[e].pc = "pinned"
      /\ UNCHANGED <<storeVars, exec, claiming, confVars, instVars, lifecycle, expected, pin,
                     published, cleanup>>
  BY DEF CheckPinned, At, poolVars, runnerVars
<1>2. PICK pc \in {"promote", "complete", "fail"} :
         /\ pc = "promote" => ~refused /\ ~(node /\ gone) /\ Subject(t) # NoVersion
         /\ pc = "complete" => ~refused /\ node /\ gone
         /\ handler' = [handler EXCEPT ![e] = [pc |-> pc, version |-> Subject(t)]]
  <2>1. active_version[Target[t]] \in retired
    BY DEF publishedNodeVersions
  <2>2. refused => (gone \/ (node /\ Operation[t] = "update"))
                     /\ \E v \in retired : hasPinnedVersion(v)
    BY <2>1
  <2>3. QED
    BY <2>2 DEF CheckPinned
<1>3. t \in Lifecycles /\ Target[t] \in Targets /\ Operation[t] \in {"install", "update", "uninstall"}
  <2>1. HandlerFits(exec[e], handler[e])
    BY DEF LcInd, LcBase
  <2>2. QED
    BY <1>1, <2>1, LifecycleTypes DEF HandlerFits
<1>4. PICK h \in HandlerState : /\ handler' = [handler EXCEPT ![e] = h]
                                /\ h.pc = pc /\ h.version = Subject(t)
  <2>1. Subject(t) \in Versions \cup {NoVersion}
    BY <1>3 DEF Subject, LcInd, LcColumns
  <2>2. [pc |-> pc, version |-> Subject(t)] \in HandlerState
    BY <2>1 DEF HandlerState, Pc
  <2>3. QED
    BY <1>2, <2>2
<1>5. Turn(e, exec[e], h)
  BY <1>1, <1>4, BaseTypes DEF Turn, LcInd
<1>6. HandlerKnows(t, h)'
  <2>1. node' = node /\ May("retry")' = May("retry") /\ Pending' = Pending
    BY <1>1 DEF setting, May, Pending
  <2>2. UNCHANGED <<active_version, pin, published, status, exec>>
    BY <1>1 DEF instVars, storeVars
  <2>3. t \in Pending /\ Operation[t] # "uninstall" => Subject(t) = t
    BY DEF Subject, LcInd, Flow
  <2>4. \A a \in Tasks : Needs(a) /\ pin[a] = active_version[Target[t]]
                           => hasPinnedVersion(active_version[Target[t]])
    BY DEF Needs, hasPinnedVersion
  <2>5. \A a \in Tasks : Needs(a)' <=> Needs(a)
    BY <2>2 DEF Needs
  <2>6. node /\ h.pc = "promote" => Operation[t] # "uninstall"
    BY <1>2, <1>4
  <2>7. t \in Pending /\ h.pc = "promote" /\ Operation[t] # "uninstall" => h.version = t
    BY <1>4, <2>3
  <2>8. node /\ h.pc = "complete" => Operation[t] = "uninstall"
    BY <1>2, <1>4
  <2>9. node /\ h.pc \in {"promote", "complete"} /\ Operation[t] # "install"
          => \A a \in Tasks : Needs(a) => pin[a] # active_version[Target[t]]
    BY <1>2, <1>3, <1>4, <2>4
  <2>10. QED
    BY <2>1, <2>2, <2>5, <2>6, <2>7, <2>8, <2>9 DEF HandlerKnows
<1>7. published \subseteq {Digest[v] : v \in Versions}
  BY DEF LcInd, LcColumns
<1>8. QED
  BY <1>1, <1>2, <1>4, <1>5, <1>6, <1>7, GoStep

\* The call of the runner.
LEMMA PromoteStep ==
    ASSUME LcInd, NEW e \in Executors, Promote(e), UNCHANGED setting
    PROVE  LcInd'
<1> DEFINE t == exec[e].fence.task
           gone == Operation[t] = "uninstall"
           digest == Digest[handler[e].version]
           effect == IF gone THEN published \ {digest} ELSE published \cup {digest}
<1>1. /\ exec[e].phase = "handler" /\ handler[e].pc = "promote"
      /\ UNCHANGED <<storeVars, claiming, confVars, instVars, lifecycle, expected, pin, cleanup>>
      /\ \/ published' = effect /\ Goto(e, "complete") /\ UNCHANGED exec
         \/ published' \in {published, effect} /\ Leave(e)
         \/ published' = published /\ Goto(e, "fail") /\ UNCHANGED exec
  BY DEF Promote, At
<1>2. /\ HandlerFits(exec[e], handler[e]) /\ HandlerKnows(t, handler[e])
      /\ published \subseteq {Digest[v] : v \in Versions}
      /\ handler[e] \in HandlerState
  BY DEF LcInd, LcBase, LcColumns
<1>3. handler[e].version \in Versions
  BY <1>1, <1>2 DEF HandlerFits, HandlerState
<1>4. node => ~gone
  BY <1>1, <1>2 DEF HandlerKnows
<1>5. published' \in {published, effect}
  BY <1>1
<1>6. /\ node => published \subseteq published'
      /\ published' \subseteq {Digest[v] : v \in Versions}
  BY <1>2, <1>3, <1>4, <1>5
<1>7. CASE published' = effect /\ Goto(e, "complete") /\ UNCHANGED exec
  <2>1. LcMoved
    BY <1>1, Untouched DEF LcInd
  <2>2. PICK h \in HandlerState : Turn(e, exec[e], h) /\ h.pc = "complete"
    BY <1>1, <1>7, <2>1, Turns DEF LcInd, LcMoved, Pc
  <2>3. node' = node /\ May("retry")' = May("retry") /\ Pending' = Pending
    BY <1>1 DEF setting, May, Pending
  <2>4. UNCHANGED <<active_version, pin, status, exec>>
    BY <1>1, <1>7 DEF instVars, storeVars
  <2>5. \A a \in Tasks : Needs(a)' <=> Needs(a)
    BY <2>4 DEF Needs
  <2>6. t \in Pending /\ ~gone => Digest[t] \in published'
    <3>1. SUFFICES ASSUME t \in Pending, ~gone PROVE Digest[t] \in published'
      OBVIOUS
    <3>2. handler[e].version = t
      BY <1>1, <1>2, <3>1 DEF HandlerKnows
    <3>3. QED
      BY <1>7, <3>1, <3>2
  <2>7. HandlerKnows(t, h)'
    BY <1>1, <1>2, <2>2, <2>3, <2>4, <2>5, <2>6 DEF HandlerKnows
  <2>8. QED
    BY <1>1, <1>6, <2>2, <2>7, GoStep
<1>8. CASE Leave(e)
  BY <1>1, <1>6, <1>8, ReadStep
<1>9. CASE Goto(e, "fail") /\ UNCHANGED exec
  <2>1. "fail" \in Pc
    BY DEF Pc
  <2>2. QED
    BY <1>1, <1>6, <1>9, <2>1, ReadStep
<1>10. QED
  BY <1>1, <1>7, <1>8, <1>9

-----------------------------------------------------------------------------
(* The transactions that end a lifecycle *)

\* A lifecycle that may end is open: its reservation is live.
LEMMA CompletesPending ==
    ASSUME LcInd, NEW e \in Executors, handler[e].pc # "idle", MayComplete(exec[e].fence)
    PROVE  /\ exec[e].fence.task \in Pending /\ exec[e].fence.task \in Tasks
           /\ Target[exec[e].fence.task] \in Targets
<1> DEFINE t == exec[e].fence.task
<1>1. t \in Lifecycles
  BY DEF LcInd, LcBase, HandlerFits
<1>2. t \in active /\ state[t] = "consumed"
  BY DEF MayComplete
<1>3. t \in Tasks /\ Target[t] \in Targets
  BY <1>1, LifecycleTypes
<1>4. t \notin consumed_released
  BY <1>2, <1>3 DEF LcInd, LcBase, ReserveInv, ReleasedFits, ReservationExact
<1>5. Live(t)
  BY <1>2, <1>4 DEF Live
<1>6. QED
  BY <1>1, <1>3, <1>5 DEF LcInd, Flow

\* The executor e ends its lifecycle with the result s: the installation becomes i,
\* v is its active version, and the versions C are retired.
Ends(e, s, i, v, C) ==
    LET t == exec[e].fence.task
        x == Target[t] IN
    /\ exec[e].phase = "handler" /\ handler[e].pc # "idle"
    /\ MayComplete(exec[e].fence) /\ EndLifecycle(exec[e].fence, s) /\ Leave(e)
    /\ UNCHANGED <<claiming, expected, pin, published>>
    /\ s \in {"succeeded", "failed"} /\ i \in {"installed", "removed", "failed"}
    /\ i = "installed" => v # NoVersion
    /\ v \in {NoVersion, active_version[x], t}
    /\ installed' = [installed EXCEPT ![x] = i]
    /\ active_version' = [active_version EXCEPT ![x] = v]
    /\ cleanup' = cleanup \cup C
    /\ C \in SUBSET {active_version[x], t} /\ v \notin C /\ NoVersion \notin C
    /\ node /\ v # NoVersion => Digest[v] \in published
    /\ node /\ ~May("retry") => \A a \in Tasks : Needs(a) => pin[a] \notin C

\* Such an end keeps the invariant.
LEMMA EndedStep ==
    ASSUME LcInd, UNCHANGED setting, NEW e \in Executors, NEW s, NEW i, NEW v, NEW C,
           Ends(e, s, i, v, C)
    PROVE  LcInd'
<1>p. PICK t, x : t = exec[e].fence.task /\ x = Target[t]
  OBVIOUS
<1>e. /\ exec[e].phase = "handler" /\ handler[e].pc # "idle"
      /\ MayComplete(exec[e].fence) /\ EndLifecycle(exec[e].fence, s) /\ Leave(e)
      /\ UNCHANGED <<claiming, expected, pin, published>>
      /\ s \in {"succeeded", "failed"} /\ i \in {"installed", "removed", "failed"}
      /\ i = "installed" => v # NoVersion
      /\ v \in {NoVersion, active_version[x], t}
      /\ installed' = [installed EXCEPT ![x] = i]
      /\ active_version' = [active_version EXCEPT ![x] = v]
      /\ cleanup' = cleanup \cup C
      /\ C \in SUBSET {active_version[x], t} /\ v \notin C /\ NoVersion \notin C
      /\ node /\ v # NoVersion => Digest[v] \in published
      /\ node /\ ~May("retry") => \A a \in Tasks : Needs(a) => pin[a] \notin C
  BY <1>p DEF Ends
<1> USE <1>p, <1>e
<1>0. LcBase /\ LcColumns /\ Flow /\ VersionsFit /\ ArtifactsKept
  BY DEF LcInd
<1>1. t \in Pending /\ t \in Tasks /\ x \in Targets
  BY CompletesPending
<1>2. LcMoved /\ ReserveInv' /\ ConsentHasTask' /\ ConsentsRest
  BY <1>0, EndBase
<1>3. Turn(e, IdleExec, IdleHandler) /\ IdleExec \in ExecState
  BY <1>0, <1>2, Turns, IdleIsTyped DEF LcMoved
<1>4. LcBase'
  BY <1>0, <1>2, <1>3, TurnBase, IdleFits
<1>5. \A g \in Executors : Calm(g)
  BY <1>0, <1>3, TurnsAreCalm, IdleHandlerTyped
<1>6. ~Live(t)'
  BY DEF EndLifecycle, MayComplete, Live, Open
<1>7. /\ active_version[x] \in Versions \cup {NoVersion} /\ t \in Versions
      /\ v \in Versions \cup {NoVersion}
  BY <1>0, <1>1 DEF LcColumns, Versions
<1>8. /\ lifecycle' = [lifecycle EXCEPT ![t] = s]
      /\ installation' = [installation EXCEPT ![x] = @ + 1]
      /\ proposed_version' = [proposed_version EXCEPT ![x] = NoVersion]
  BY DEF EndLifecycle
<1>9. /\ Flow' /\ Pending' = Pending \ {t}
      /\ installed' \in [Targets -> InstallState] /\ installation' \in [Targets -> Nat]
      /\ proposed_version' \in [Targets -> Versions \cup {NoVersion}]
      /\ active_version' \in [Targets -> Versions \cup {NoVersion}]
      /\ lifecycle' \in [Tasks -> {"none", "pending", "succeeded", "failed"}]
  BY <1>0, <1>1, <1>2, <1>6, <1>7, <1>8, FlowEnded
<1>10. LcColumns'
  <2>1. handler' \in [Executors -> HandlerState]
    BY <1>0, <1>3, HandlerTyped, IdleHandlerTyped
  <2>2. cleanup' \subseteq Versions
    BY <1>0, <1>7 DEF LcColumns
  <2>3. QED
    BY <1>0, <1>9, <2>1, <2>2 DEF LcColumns
<1>11. active_version \in [Targets -> Versions \cup {NoVersion}]
  BY <1>0 DEF LcColumns
<1>12. VersionsFit'
  <2>1. \A y \in Targets : active_version'[y] # NoVersion => Fits(active_version'[y], y)
    BY <1>0, <1>1, <1>11 DEF VersionsFit, Fits
  <2>2. ASSUME NEW w \in Tasks, Used(w)' PROVE status'[w] # "absent" /\ w \notin Pending'
    <3>1. Used(w) \/ w = t
      BY <1>1, <1>7, <1>11, <2>2, VersionsAssumption DEF Used, Versions
    <3>2. status[t] # "absent"
      BY <1>0, <1>1 DEF VersionsFit
    <3>3. QED
      BY <1>0, <1>1, <1>2, <1>9, <3>1, <3>2 DEF VersionsFit, LcMoved, NoneVanishes
  <2>3. \A w \in Pending' : status'[w] # "absent"
    BY <1>0, <1>2, <1>9, LifecycleTypes DEF VersionsFit, LcMoved, NoneVanishes, Pending
  <2>4. \A a \in Tasks : pin'[a] # NoVersion => status'[a] # "absent"
    BY <1>0, <1>2 DEF VersionsFit, LcMoved, NoneVanishes
  <2>5. ~Used(t)
    BY <1>0, <1>1 DEF VersionsFit
  <2>6. ASSUME NEW y \in Targets PROVE active_version'[y] \notin cleanup'
    <3>1. CASE y = x
      <4>1. v \notin cleanup
        BY <1>0, <1>1, <2>5, VersionsAssumption DEF VersionsFit, Used, LcColumns
      <4>2. QED
        BY <1>1, <1>11, <3>1, <4>1
    <3>2. CASE y # x
      <4>1. active_version'[y] = active_version[y] /\ active_version[y] \notin cleanup
        BY <1>0, <1>11, <3>2 DEF VersionsFit
      <4>2. active_version[y] # t
        BY <2>5 DEF Used
      <4>3. active_version[y] # active_version[x] \/ active_version[x] = NoVersion
        BY <1>0, <1>1, <3>2, OneOwnerOfVersion DEF VersionsFit
      <4>4. QED
        BY <4>1, <4>2, <4>3
    <3>3. QED
      BY <3>1, <3>2
  <2>7. QED
    BY <2>1, <2>2, <2>3, <2>4, <2>6 DEF VersionsFit
<1>13. ArtifactsKept'
  <2>1. \A a \in Tasks : Needs(a)' => Needs(a)
    BY <1>0, <1>2, NeedsStay
  <2>2. node' = node /\ May("retry")' = May("retry")
    BY DEF setting, May
  <2>3. node => \A y \in Targets : active_version'[y] # NoVersion => Digest[active_version'[y]] \in published
    BY <1>0, <1>1, <1>11 DEF ArtifactsKept
  <2>4. node /\ ~May("retry") =>
          \A a \in Tasks : Needs(a) => pin[a] \notin cleanup' /\ Digest[pin[a]] \in published
    BY <1>0 DEF ArtifactsKept
  <2>5. QED
    BY <1>0, <2>1, <2>2, <2>3, <2>4 DEF ArtifactsKept
<1>14. \A u \in Pending' : active_version'[Target[u]] = active_version[Target[u]]
  BY <1>0, <1>1, <1>9, <1>11, LifecycleTypes DEF Flow, Pending
<1>15. \A g \in Executors : HandlerKnows(exec[g].fence.task, handler[g])'
  BY <1>2, <1>5, <1>9, <1>14, KnowsStill
<1>16. QED
  BY <1>4, <1>9, <1>10, <1>12, <1>13, <1>15 DEF LcInd

\* CompleteLifecycle commits a success.
LEMMA SuccessStep ==
    ASSUME LcInd, NEW e \in Executors, exec[e].phase = "handler", handler[e].pc = "complete",
           completeSuccess(exec[e].fence), Leave(e), UNCHANGED <<claiming, expected, pin, setting>>
    PROVE  LcInd'
<1>1. PICK t, x : t = exec[e].fence.task /\ x = Target[t]
  OBVIOUS
<1>2. t \in Pending /\ t \in Tasks /\ x \in Targets
  BY <1>1, CompletesPending DEF completeSuccess
<1>3. /\ proposed_version[x] = t \/ Operation[t] = "uninstall"
      /\ Operation[t] \in {"install", "update", "uninstall"}
      /\ Operation[t] = "install" => active_version[x] = NoVersion
  <2>1. Operation[t] \in {"install", "update", "uninstall"} /\ installed[x] = Transition[Operation[t]]
        /\ (proposed_version[x] = t \/ Operation[t] = "uninstall")
    BY <1>1, <1>2, LifecycleTypes DEF LcInd, Flow, Pending
  <2>2. Transition["install"] = "installing"
    BY DEF Transition
  <2>3. QED
    BY <1>2, <2>1, <2>2 DEF LcInd, Flow
<1>4. PICK i, v, C :
        /\ i = IF Operation[t] = "uninstall" THEN "removed" ELSE "installed"
        /\ v = IF Operation[t] = "uninstall" THEN NoVersion ELSE t
        /\ C = IF node /\ active_version[x] \notin {NoVersion, v} THEN {active_version[x]} ELSE {}
  OBVIOUS
<1>5. /\ MayComplete(exec[e].fence) /\ EndLifecycle(exec[e].fence, "succeeded")
      /\ installed' = [installed EXCEPT ![x] = i]
      /\ active_version' = [active_version EXCEPT ![x] = v]
      /\ cleanup' = cleanup \cup C
      /\ UNCHANGED published
  BY <1>1, <1>3, <1>4 DEF completeSuccess
<1>6. HandlerKnows(t, handler[e])
  BY <1>1 DEF LcInd
<1>7. t # NoVersion
  BY <1>2, VersionsAssumption DEF Versions
<1>8. node /\ v # NoVersion => Digest[v] \in published
  BY <1>2, <1>4, <1>6 DEF HandlerKnows
<1>9. node /\ ~May("retry") => \A a \in Tasks : Needs(a) => pin[a] \notin C
  <2>1. CASE Operation[t] = "install"
    BY <1>3, <1>4, <2>1
  <2>2. CASE Operation[t] # "install"
    BY <1>1, <1>2, <1>4, <1>6, <2>2 DEF HandlerKnows
  <2>3. QED
    BY <2>1, <2>2
<1>10. Ends(e, "succeeded", i, v, C)
  BY <1>1, <1>4, <1>5, <1>7, <1>8, <1>9 DEF Ends
<1>11. QED
  BY <1>10, EndedStep

\* A failure restores the installation; what was promoted gets its row.
LEMMA FailureStep ==
    ASSUME LcInd, NEW e \in Executors, exec[e].phase = "handler", handler[e].pc # "idle",
           completeFailure(exec[e].fence, handler[e].pc = "promoted_fail"), Leave(e),
           UNCHANGED <<claiming, expected, pin, setting>>
    PROVE  LcInd'
<1>1. PICK t, x : t = exec[e].fence.task /\ x = Target[t]
  OBVIOUS
<1>2. t \in Pending /\ t \in Tasks /\ x \in Targets
  BY <1>1, CompletesPending DEF completeFailure
<1>3. handler[e].pc = "promoted_fail" => proposed_version[x] = t
  BY <1>1, <1>2 DEF LcInd, LcBase, HandlerFits, Flow
<1>4. PICK i, v, C :
        /\ i = Restored(t) /\ v = active_version[x]
        /\ C = IF handler[e].pc = "promoted_fail" THEN {t} ELSE {}
  OBVIOUS
<1>5. active_version \in [Targets -> Versions \cup {NoVersion}]
  BY DEF LcInd, LcColumns
<1>6. /\ MayComplete(exec[e].fence) /\ EndLifecycle(exec[e].fence, "failed")
      /\ installed' = [installed EXCEPT ![x] = i]
      /\ active_version' = [active_version EXCEPT ![x] = v]
      /\ cleanup' = cleanup \cup C
      /\ UNCHANGED published
  BY <1>1, <1>2, <1>3, <1>4, <1>5 DEF completeFailure
<1>7. t # NoVersion /\ ~Used(t)
  BY <1>2, VersionsAssumption DEF Versions, LcInd, VersionsFit
<1>8. v \notin C /\ \A a \in Tasks : pin[a] \notin C
  BY <1>2, <1>4, <1>7 DEF Used
<1>9. node /\ v # NoVersion => Digest[v] \in published
  BY <1>2, <1>4 DEF LcInd, ArtifactsKept
<1>10. i \in {"installed", "failed"} /\ (i = "installed" => v # NoVersion)
  BY <1>1, <1>4 DEF Restored
<1>11. C \in SUBSET {active_version[x], t} /\ NoVersion \notin C
  BY <1>4, <1>7
<1>12. Ends(e, "failed", i, v, C)
  BY <1>1, <1>4, <1>6, <1>8, <1>9, <1>10, <1>11 DEF Ends
<1>13. QED
  BY <1>12, EndedStep

\* CompleteLifecycle: it commits, the quota is full, or a reclaim takes over.
LEMMA CompleteStep ==
    ASSUME LcInd, NEW e \in Executors, Complete(e), UNCHANGED setting
    PROVE  LcInd'
<1>1. exec[e].phase = "handler" /\ handler[e].pc = "complete" /\ UNCHANGED <<claiming, expected, pin>>
  BY DEF Complete, At
<1>2. published \subseteq {Digest[v] : v \in Versions}
  BY DEF LcInd, LcColumns
<1>3. CASE completeSuccess(exec[e].fence) /\ Leave(e)
  BY <1>1, <1>3, SuccessStep
<1>4. CASE /\ QuotaRefuses(exec[e].fence.task)
           /\ Goto(e, IF node THEN "promoted_fail" ELSE "fail")
           /\ published' = IF node THEN published ELSE published \ {Digest[handler[e].version]}
           /\ UNCHANGED <<exec, storeVars, confVars, instVars, lifecycle, cleanup>>
  <2>1. Operation[exec[e].fence.task] # "uninstall"
    BY <1>4 DEF QuotaRefuses
  <2>2. "promoted_fail" \in Pc /\ "fail" \in Pc
    BY DEF Pc
  <2>3. \E pc \in Pc : Goto(e, pc) /\ pc \notin {"promote", "complete"}
    BY <1>4, <2>2
  <2>4. published' \subseteq {Digest[v] : v \in Versions} /\ (node => published \subseteq published')
    BY <1>2, <1>4
  <2>5. QED
    BY <1>1, <1>4, <2>1, <2>3, <2>4, ReadStep
<1>5. CASE Leave(e) /\ UNCHANGED <<storeVars, confVars, instVars, lifecycle, runnerVars>>
  BY <1>1, <1>2, <1>5, ReadStep DEF runnerVars
<1>6. QED
  BY <1>3, <1>4, <1>5 DEF Complete

\* completeLifecycleFailure commits or is left to a reclaim.
LEMMA CompleteFailsStep ==
    ASSUME LcInd, NEW e \in Executors, CompleteFails(e), UNCHANGED setting
    PROVE  LcInd'
<1>1. /\ exec[e].phase = "handler" /\ handler[e].pc # "idle" /\ Leave(e)
      /\ UNCHANGED <<claiming, expected, pin>>
  BY DEF CompleteFails, At
<1>2. published \subseteq {Digest[v] : v \in Versions}
  BY DEF LcInd, LcColumns
<1>3. CASE completeFailure(exec[e].fence, handler[e].pc = "promoted_fail")
  BY <1>1, <1>3, FailureStep
<1>4. CASE UNCHANGED <<storeVars, confVars, instVars, lifecycle, runnerVars>>
  BY <1>1, <1>2, <1>4, ReadStep DEF runnerVars
<1>5. QED
  BY <1>3, <1>4 DEF CompleteFails

-----------------------------------------------------------------------------
(* The theorems *)

\* The system starts with nothing on its way and every seeded artifact published.
LEMMA LcStarts ==
    ASSUME LcInit
    PROVE  LcInd
<1>1. PoolInd /\ SlotInv
  BY PoolStart, SlotInit DEF LcInit, PoolInit
<1>2. ReserveInv /\ ConsentHasTask
  BY <1>1 DEF SlotInv, LcInit, ConfInit, StoreInit, ReserveInv, ConfTypeOK, State, Reservation,
              LeaseInv, LeaseExact, ReservationExact, ReleasedFits, ConsentHasTask
<1>3. LcColumns
  <2>1. IdleHandler \in HandlerState
    BY IdleHandlerTyped
  <2>2. Seeded \subseteq Targets
    BY LifecycleAssumption
  <2>3. QED
    BY <2>1, <2>2 DEF LcInit, LcColumns, InstallState, Versions
<1>4. LcBase
  <2>1. exec = [e \in Executors |-> IdleExec] /\ claiming = {} /\ handler = [e \in Executors |-> IdleHandler]
    BY DEF LcInit, PoolInit
  <2>2. Started
    BY <2>1 DEF Started, IdleExec
  <2>3. QED
    BY <1>1, <1>2, <2>1, <2>2, IdleFits DEF LcBase, SlotInv
<1>5. Pending = {}
  BY DEF LcInit, Pending, Lifecycles
<1>6. Flow
  <2>1. \A t \in Lifecycles : ~Live(t)
    BY DEF LcInit, ConfInit, Live, Open, Lifecycles
  <2>2. Seeded \subseteq Targets /\ \A x \in Targets : x # NoVersion
    BY LifecycleAssumption, VersionsAssumption DEF Versions
  <2>3. QED
    BY <1>5, <2>1, <2>2 DEF LcInit, Flow, InTransit
<1>7. VersionsFit
  <2>1. \A v \in Tasks : ~Used(v)
    BY VersionsAssumption DEF LcInit, Used, Versions
  <2>2. QED
    BY <1>5, <2>1 DEF LcInit, VersionsFit, Fits
<1>8. ArtifactsKept
  BY DEF LcInit, ArtifactsKept, Needs
<1>9. \A e \in Executors : HandlerKnows(exec[e].fence.task, handler[e])
  BY <1>5 DEF LcInit, HandlerKnows, IdleHandler
<1>10. QED
  BY <1>3, <1>4, <1>6, <1>7, <1>8, <1>9 DEF LcInd

\* Every step keeps the invariant.
LEMMA LcSteps ==
    ASSUME LcInd, [LcNext]_allVars
    PROVE  LcInd'
<1>1. now \in Clock
  BY BaseTypes, ConstantsAssumption DEF LcInd, StoreTypeOK, Clock
<1>2. ASSUME UNCHANGED setting, NEW e \in Executors, HandlerNext(e) PROVE LcInd'
  <2>1. ASSUME NEW at \in Clock,
               \/ ConsumeLifecycle(e, at) \/ ConsumeRefused(e, at)
               \/ reacquireLifecycleReservation(e, at)
        PROVE  LcInd'
    BY <1>2, <2>1, LookStep, ConsumeStep, ReacquireStep
  <2>2. CASE GetConfirmation(e)
    BY <1>1, <1>2, <2>2, LookStep
  <2>3. QED
    BY <1>2, <2>1, <2>2, CheckStep, PromoteStep, CompleteStep, CompleteFailsStep DEF HandlerNext
<1>3. CASE LcStep /\ UNCHANGED setting
  BY <1>2, <1>3, RemovalStep, RequestStep, CreateStep, RetryStep, AnswerStep, SweepStep, PoolKeeps DEF LcStep
<1>4. CASE UNCHANGED allVars
  <2>1. /\ UNCHANGED <<storeVars, exec, claiming, confVars, instVars, lifecycle, expected, pin,
                       handler, published, cleanup, setting>>
    BY <1>4 DEF allVars, poolVars, lcVars, runnerVars
  <2>2. UNCHANGED <<installed, installation, active_version, proposed_version>>
    BY <2>1 DEF instVars
  <2>3. LcMoved /\ ReserveInv' /\ ConsentHasTask' /\ ConsentsRest
    BY <2>1, Untouched DEF LcInd
  <2>4. LcBase' /\ Flow'
    BY <2>1, <2>3, OwnerBase, FlowRests DEF LcInd
  <2>5. LcColumns' /\ Pending' = Pending
    BY <2>1, <2>2 DEF LcInd, LcColumns, Pending
  <2>6. \A g \in Executors : Calm(g)
    BY <2>1, StillIsCalm DEF LcInd
  <2>7. QED
    BY <2>1, <2>2, <2>3, <2>4, <2>5, <2>6, QuietStep
<1>5. QED
  BY <1>3, <1>4 DEF LcNext

\* The inductive invariant holds throughout.
LEMMA LcInvariant == LcSpec => []LcInd
<1>1. LcInit => LcInd
  BY LcStarts
<1>2. LcInd /\ [LcNext]_allVars => LcInd'
  BY LcSteps
<1>3. QED
  BY <1>1, <1>2, PTL DEF LcSpec

\* A set whose members are all the same has at most one.
LEMMA AtMostOne ==
    ASSUME NEW S, \A a, b \in S : a = b
    PROVE  Cardinality(S) <= 1
<1>1. CASE S = {}
  BY <1>1, FS_EmptySet
<1>2. CASE S # {}
  <2>1. PICK a \in S : TRUE
    BY <1>2
  <2>2. S = {a}
    BY <2>1
  <2>3. QED
    BY <2>2, FS_Singleton
<1>3. QED
  BY <1>1, <1>2

\* Requests, answers, reclaimed executors, crashes and lost replies never leave the
\* row of an installation and that of its lifecycle apart (request,
\* rollbackExtensionLifecycleTx, completeLifecycle), and at most one install or
\* update is open: for any number of tasks, installations and executors.
THEOREM LifecycleRowsNeverPart == LcSpec => []LcInv
<1>1. LcInd => LcInv
  <2>1. SUFFICES ASSUME LcInd PROVE LcInv
    OBVIOUS
  <2>2. LcTypeOK
    BY <2>1, BaseTypes DEF LcInd, LcColumns, LcTypeOK, HandlerState
  <2>3. ASSUME NEW x \in Targets,
               NEW open, open = {t \in Lifecycles : Target[t] = x /\ lifecycle[t] = "pending"}
        PROVE  /\ Cardinality(open) <= 1
               /\ installed[x] \in {"installing", "updating", "uninstalling"} <=> open # {}
               /\ \A t \in open : installed[x] = Transition[Operation[t]] /\ installation[x] = expected[t]
               /\ open = {} => proposed_version[x] = NoVersion
    <3>1. \A t : t \in open <=> t \in Pending /\ Target[t] = x
      BY <2>3 DEF Pending
    <3>2. Cardinality(open) <= 1
      <4>1. \A t, u \in open : t = u
        BY <2>1, <3>1 DEF LcInd, Flow
      <4>2. QED
        BY <4>1, AtMostOne
    <3>3. \A t \in open : installed[x] = Transition[Operation[t]] /\ installation[x] = expected[t]
      BY <2>1, <3>1 DEF LcInd, Flow
    <3>4. \A t \in open : Transition[Operation[t]] \in {"installing", "updating", "uninstalling"}
      BY <3>1, LifecycleTypes DEF Pending, InTransit
    <3>5. /\ installed[x] \in {"installing", "updating", "uninstalling"} => open # {}
          /\ open = {} => proposed_version[x] = NoVersion
      BY <2>1, <3>1 DEF LcInd, Flow, InTransit
    <3>6. QED
      BY <3>2, <3>3, <3>4, <3>5
  <2>4. InstallationFollowsLifecycle
    BY <2>3 DEF InstallationFollowsLifecycle
  <2>5. OneInstallAtATime
    <3> DEFINE S == {t \in Lifecycles : Operation[t] \in {"install", "update"}
                                        /\ lifecycle[t] = "pending"}
    <3>1. \A t, u \in S : t = u
      BY <2>1 DEF LcInd, Flow, Pending
    <3> HIDE DEF S
    <3>2. Cardinality(S) <= 1
      BY <3>1, AtMostOne
    <3>3. QED
      BY <3>2 DEF OneInstallAtATime, S
  <2>6. QED
    BY <2>2, <2>4, <2>5 DEF LcInv
<1>2. QED
  BY <1>1, LcInvariant, PTL

\* The runner has the artifact of every installed Node extension: publishing before
\* the commit, retiring after it and sweeping only what no row names (Promote,
\* completeLifecycle, sweepNode) are enough, whatever fails or is retried between.
THEOREM InstalledArtifactsStay == LcSpec => []InstalledIsPublished
<1>1. LcInd => InstalledIsPublished
  BY DEF LcInd, Flow, ArtifactsKept, InstalledIsPublished
<1>2. QED
  BY <1>1, LcInvariant, PTL

\* A task that can still execute finds the Node artifact it pinned when it was
\* created (resolveTaskSnapshotTx, hasPinnedVersion), even though the pins are read
\* in one step and the version is retired in a later one, unless the owner retries
\* tasks that have ended.
THEOREM PinnedArtifactsStay == LcSpec => []PinnedStaysPublished
<1>1. LcInd => PinnedStaysPublished
  BY DEF LcInd, ArtifactsKept, Needs, PinnedStaysPublished
<1>2. QED
  BY <1>1, LcInvariant, PTL

=============================================================================
