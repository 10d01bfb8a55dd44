----------------------------- MODULE WorkerPool -----------------------------
(***************************************************************************)
(* The worker pool of internal/coreruntime/runtime.go over the durable     *)
(* queue of CoreTask.  Run, one loop per process, claims tasks while fewer *)
(* than maxConcurrent goroutines are active.  ClaimNextDue commits the     *)
(* claim and then reads the row back outside its transaction; the loop     *)
(* waits for that.  Every claim runs execute, which renews the lease from  *)
(* a second goroutine while the handler works and then persists the        *)
(* outcome with persistTerminal.                                           *)
(*                                                                         *)
(* An executor is one such goroutine with its renewer.  The process may    *)
(* crash and restart at any point: executors vanish, leases stay.  A lost  *)
(* lease does not stop the handler at once, so two executors may work on   *)
(* one task; the fences decide which of them may write.                    *)
(***************************************************************************)
EXTENDS CoreTask

CONSTANT Executors      \* the goroutines that Run may start

\* There are identifiers for a Task, whether or not it exists.
ASSUME ExecutorsAssumption == IsFiniteSet(Executors) /\ Tasks # {}

VARIABLES
    exec,       \* executor -> its local state
    claiming    \* the task whose claim has committed and is being read back, if any

poolVars == <<storeVars, exec, claiming>>

-----------------------------------------------------------------------------

Outcome == {"none", "succeeded", "task_error", "uncertain", "task_timed_out"}

\* idle    : no claim
\* handler : the handler runs, the renewer renews
\* stale   : a renewal failed; the handler was canceled but has not returned
\* persist : persistTerminal is about to write
\* reread  : its write failed, it is about to read the task again
Phase == {"idle", "handler", "stale", "persist", "reread"}

ExecState == [phase   : Phase,
              fence   : Fence,      \* the fence of the claim, its revision kept current by the handler
              claimed : Nat,        \* the revision at the claim
              outcome : Outcome,
              tries   : 0..3]       \* writes persistTerminal has made

NoFence == [task |-> CHOOSE t \in Tasks : TRUE, attempt |-> 0, epoch |-> 0, revision |-> 0]

IdleExec == [phase |-> "idle", fence |-> NoFence, claimed |-> 0, outcome |-> "none", tries |-> 0]

Active == {e \in Executors : exec[e].phase # "idle"}

\* The executor holds the current lease of its task.
Owns(e) ==
    /\ exec[e].phase # "idle"
    /\ LET f == exec[e].fence IN
       status[f.task] = "running" /\ lease_epoch[f.task] = f.epoch

Stop(e) == exec' = [exec EXCEPT ![e] = IdleExec]

-----------------------------------------------------------------------------
(* Run *)

\* The transaction of a claim that leases.
Claim(t, at, locked) ==
    /\ claiming = {}
    /\ Cardinality(Active) < MaxConcurrent
    /\ ClaimLease(t, at, locked)
    /\ claiming' = {t}
    /\ UNCHANGED exec

\* GetTask and the dereference of its lease: execute starts with the fence that
\* was read.
ClaimRead(e, t) ==
    /\ exec[e].phase = "idle"
    /\ claiming = {t}
    /\ t \notin deleted
    /\ lease_expires_at[t] # NoTime
    /\ exec' = [exec EXCEPT ![e] =
                  [phase   |-> "handler",
                   fence   |-> [task |-> t, attempt |-> attempt[t],
                                epoch |-> lease_epoch[t], revision |-> revision[t]],
                   claimed |-> revision[t],
                   outcome |-> "none",
                   tries   |-> 0]]
    /\ claiming' = {}
    /\ UNCHANGED storeVars

\* The reply of the commit was lost, or GetTask fails: the lease is taken and
\* nobody executes.
ClaimReadFails ==
    /\ claiming # {}
    /\ claiming' = {}
    /\ UNCHANGED <<storeVars, exec>>

\* The row that was read back has no lease any more: dereferencing it panics and
\* takes the process down.
ClaimPanics(t) ==
    /\ claiming = {t}
    /\ t \notin deleted
    /\ lease_expires_at[t] = NoTime
    /\ exec' = [e \in Executors |-> IdleExec]
    /\ claiming' = {}
    /\ UNCHANGED storeVars

ClaimConverges(t, at, locked) ==
    /\ claiming = {}
    /\ Cardinality(Active) < MaxConcurrent
    /\ ClaimOverdue(t, at, locked)
    /\ UNCHANGED <<exec, claiming>>

-----------------------------------------------------------------------------
(* execute *)

\* The renewer is stopped when the handler returns, but a renewal already on its
\* way may still commit.
Renew(e, at) ==
    /\ exec[e].phase \in {"handler", "persist", "reread"}
    /\ RenewLease(exec[e].fence, at)
    /\ UNCHANGED exec

\* Any error of a renewal, a lost lease or a failing database, makes the
\* executor stale and cancels the handler's context.
RenewFails(e) ==
    /\ exec[e].phase = "handler"
    /\ exec' = [exec EXCEPT ![e].phase = "stale"]
    /\ UNCHANGED storeVars

\* The handler reports progress under the fence it keeps current.
Progress(e, at) ==
    /\ exec[e].phase \in {"handler", "stale"}
    /\ AppendProgress(exec[e].fence, at)
    /\ exec' = [exec EXCEPT ![e].fence.revision = @ + 1]

\* Progress that committed without the handler learning the new revision.
ProgressLost(e, at) ==
    /\ exec[e].phase \in {"handler", "stale"}
    /\ AppendProgress(exec[e].fence, at)
    /\ UNCHANGED exec

Wait(e, at) ==
    /\ exec[e].phase \in {"handler", "stale"}
    /\ Kind[exec[e].fence.task] # "cloud_worker"
    /\ WaitTask(exec[e].fence, at)
    /\ UNCHANGED exec

\* The handler returns an outcome to be persisted.  Past the deadline a
\* handler of a kind other than agent has lost its result (ExecuteManaged).
\* Only the agent loop hands its current fence back; the other handlers leave
\* execute with the fence of the claim.
HandlerReturns(e, outcome) ==
    LET t == exec[e].fence.task
        late == Overdue(t, now) IN
    /\ exec[e].phase = "handler"
    /\ outcome = "task_timed_out" => late
    /\ (late /\ Kind[t] # "agent") => outcome = "task_timed_out"
    /\ exec' = [exec EXCEPT ![e].phase = "persist", ![e].outcome = outcome,
                            ![e].fence.revision = IF Kind[t] = "agent" THEN @ ELSE exec[e].claimed]
    /\ UNCHANGED storeVars

\* A canceled handler returns: shutdown, a stale lease or context.Canceled
\* leave the lease to expire.
HandlerCanceled(e) ==
    /\ exec[e].phase \in {"handler", "stale"}
    /\ Stop(e)
    /\ UNCHANGED storeVars

OutcomeStatus(o) == IF o = "succeeded" THEN "succeeded" ELSE "failed"
OutcomeCode(o) == IF o = "succeeded" THEN "" ELSE o

-----------------------------------------------------------------------------
(* persistTerminal: at most three writes, a read between two of them *)

TerminalWrite(e, at) ==
    /\ exec[e].phase = "persist"
    /\ coreTerminal(exec[e].fence, at, OutcomeStatus(exec[e].outcome), OutcomeCode(exec[e].outcome))
    /\ Stop(e)

\* The write committed, its reply was lost.
TerminalWriteLost(e, at) ==
    /\ exec[e].phase = "persist"
    /\ coreTerminal(exec[e].fence, at, OutcomeStatus(exec[e].outcome), OutcomeCode(exec[e].outcome))
    /\ exec' = [exec EXCEPT ![e].phase = "reread", ![e].tries = @ + 1]

\* The write failed: its fence matched no row, or the database was unavailable.
TerminalWriteFails(e) ==
    /\ exec[e].phase = "persist"
    /\ exec' = [exec EXCEPT ![e].phase = "reread", ![e].tries = @ + 1]
    /\ UNCHANGED storeVars

\* GetTask fails for a deleted row and may fail for others; a terminal task, or
\* one that another claim has taken over, ends the repair; so does the third
\* failed write.
GiveUp(e) ==
    /\ exec[e].phase = "reread"
    /\ Stop(e)
    /\ UNCHANGED storeVars

\* Mutant: the repair adopts whatever claim the row holds now.
RereadAnyClaim(e) ==
    LET t == exec[e].fence.task IN
    /\ exec[e].phase = "reread"
    /\ exec[e].tries < 3
    /\ status[t] = "running"
    /\ exec' = [exec EXCEPT ![e].phase = "persist",
                            ![e].fence = [task |-> t, attempt |-> attempt[t],
                                          epoch |-> lease_epoch[t], revision |-> revision[t]]]
    /\ UNCHANGED storeVars

Reread(e) ==
    LET f == exec[e].fence IN
    /\ exec[e].phase = "reread"
    /\ exec[e].tries < 3
    /\ status[f.task] = "running"
    /\ attempt[f.task] = f.attempt
    /\ lease_epoch[f.task] = f.epoch
    /\ exec' = [exec EXCEPT ![e].phase = "persist", ![e].fence.revision = revision[f.task]]
    /\ UNCHANGED storeVars

-----------------------------------------------------------------------------

\* The process dies and restarts.
Crash ==
    /\ Active # {} \/ claiming # {}
    /\ exec' = [e \in Executors |-> IdleExec]
    /\ claiming' = {}
    /\ UNCHANGED storeVars

PoolInit ==
    /\ StoreInit
    /\ exec = [e \in Executors |-> IdleExec]
    /\ claiming = {}

ClaimNext ==
    \/ \E at \in Clock, t \in Tasks, locked \in SUBSET Tasks :
         Claim(t, at, locked) \/ ClaimConverges(t, at, locked)
    \/ \E t \in Tasks : ClaimPanics(t) \/ \E e \in Executors : ClaimRead(e, t)
    \/ ClaimReadFails

ExecNext(e) ==
    \/ \E at \in Clock :
         \/ Renew(e, at)
         \/ Progress(e, at) \/ ProgressLost(e, at)
         \/ Wait(e, at)
         \/ TerminalWrite(e, at) \/ TerminalWriteLost(e, at)
    \/ \E outcome \in Outcome \ {"none"} : HandlerReturns(e, outcome)
    \/ RenewFails(e) \/ HandlerCanceled(e)
    \/ TerminalWriteFails(e) \/ Reread(e) \/ GiveUp(e)

PoolNext ==
    \/ (ClientNext \/ Tick) /\ UNCHANGED <<exec, claiming>>
    \/ ClaimNext
    \/ \E e \in Executors : ExecNext(e) /\ UNCHANGED claiming
    \/ Crash

PoolSpec == PoolInit /\ [][PoolNext]_poolVars

\* Run polls without end, and a row lock lasts one transaction, so some claim
\* finds every row unlocked.
ClaimUnlocked ==
    \E at \in Clock, t \in Tasks : Claim(t, at, {}) \/ ClaimConverges(t, at, {})

\* The read after a claim returns.
ClaimReturns ==
    \/ \E t \in Tasks : ClaimPanics(t) \/ \E e \in Executors : ClaimRead(e, t)
    \/ ClaimReadFails

\* A handler returns (its context is canceled at the deadline and at the first
\* failed renewal) and persistTerminal makes at most three writes.
ExecutorEnds(e) ==
    \/ \E outcome \in Outcome \ {"none"} : HandlerReturns(e, outcome)
    \/ HandlerCanceled(e)
    \/ \E at \in Clock : TerminalWrite(e, at)
    \/ TerminalWriteFails(e) \/ Reread(e) \/ GiveUp(e)

PoolFairness ==
    /\ WF_poolVars(Tick /\ UNCHANGED <<exec, claiming>>)
    /\ WF_poolVars(ClaimUnlocked)
    /\ WF_poolVars(ClaimReturns)
    /\ \A e \in Executors : WF_poolVars(ExecutorEnds(e) /\ UNCHANGED claiming)

PoolLiveSpec == PoolSpec /\ PoolFairness

-----------------------------------------------------------------------------
(* Properties *)

\* The store and every executor's local state have their types.
TypeOK ==
    /\ StoreTypeOK
    /\ exec \in [Executors -> ExecState]
    /\ claiming \subseteq Tasks /\ Cardinality(claiming) <= 1

\* Two executors never hold the lease of one task, and an executor never holds
\* a fence from the future: whatever an executor knows of its task, the row has
\* moved at least that far.
OneOwner ==
    /\ \A e, g \in Executors :
         Owns(e) /\ Owns(g) /\ exec[e].fence.task = exec[g].fence.task => e = g
    /\ \A e \in Active :
         LET f == exec[e].fence IN
         f.epoch <= lease_epoch[f.task] /\ f.revision <= revision[f.task]

\* Types, the bounds of each retry, and one owner per lease (ClaimNextDue with
\* its read-back, renew and the terminal repair).
PoolInv == TypeOK /\ OneOwner

\* A claim returns the lease it took: the row that is read back after the
\* commit is still running.
ClaimReturnsLease == [][\A t \in Tasks : ~ClaimPanics(t)]_poolVars

\* A running task that no executor owns: its process crashed, a claim's reply
\* was lost, or its executor gave up.
Orphaned(t) ==
    /\ status[t] = "running"
    /\ t \notin claiming
    /\ \A e \in Executors : ~(Owns(e) /\ exec[e].fence.task = t)

\* No orphan is forgotten: a lease that expires within the modelled time is
\* taken over under a later epoch, or the task ends.
OrphansReclaimed ==
    \A t \in Tasks, n \in 1..MaxTime :
      (Orphaned(t) /\ lease_epoch[t] = n /\ lease_expires_at[t] <= MaxTime)
        ~> (lease_epoch[t] > n \/ status[t] # "running")

=============================================================================
