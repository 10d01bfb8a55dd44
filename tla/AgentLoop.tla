------------------------------ MODULE AgentLoop ------------------------------
(***************************************************************************)
(* The agent handler, executeAgentLoop of internal/coreruntime/            *)
(* agent_loop.go, over the worker pool, with its durable ledger,           *)
(* internal/store/postgres/core_task_ledger.go.  A round asks the model    *)
(* once and then performs the tool calls of the answer one by one.  Every  *)
(* such side effect is a ledger row that goes from prepared over           *)
(* dispatched to completed or uncertain; every change of a row is fenced   *)
(* by, and moves, the revision of the task.  A reclaimed task keeps its    *)
(* attempt, so its new executor replays the rows of the old one.           *)
(*                                                                         *)
(* The model answers with a number of tool calls, which is all of the      *)
(* answer that the control depends on.                                     *)
(***************************************************************************)
EXTENDS WorkerPool

CONSTANTS
    MaxRound,   \* bound of the rounds
    MaxCalls    \* bound of the tool calls of one answer

ASSUME LoopAssumption == MaxRound \in Nat /\ MaxCalls \in Nat

VARIABLES
    ledger,     \* core_task_model_rounds and core_task_tool_calls
    effects,    \* how often each side effect was really started
    loop        \* executor -> where executeAgentLoop stands

loopVars == <<poolVars, ledger, effects, loop>>

-----------------------------------------------------------------------------

\* call = 0 is the model round itself, call = n its n-th tool call.
Key == [round : 0..MaxRound, call : 0..MaxCalls]

\* The row of a key; its task_revision is the revision the writer expected,
\* which its own write has moved by one.
RowState == {"absent", "prepared", "dispatched", "completed", "uncertain"}
Row == [state : RowState, task_revision : Nat, calls : 0..MaxCalls]
NoRow == [state |-> "absent", task_revision |-> 0, calls |-> 0]

\* get, prepare, dispatch, invoke, complete : before that call for the key
\* mark   : before the best effort to mark the row uncertain
\* return : the outcome is decided
Pc == {"off", "get", "prepare", "dispatch", "invoke", "complete", "mark", "return"}
LoopState == [pc : Pc, key : Key, calls : 0..MaxCalls]

FirstKey == [round |-> 0, call |-> 0]
NoLoop == [pc |-> "off", key |-> FirstKey, calls |-> 0]

At(e, pc) == exec[e].phase \in {"handler", "stale"} /\ loop[e].pc = pc

Goto(e, pc) == loop' = [loop EXCEPT ![e].pc = pc]

\* The next side effect after a completed one, or the return of the result.
Advance(e, calls) ==
    LET k == loop[e].key
        next == IF k.call < calls THEN [k EXCEPT !.call = @ + 1]
                ELSE [round |-> k.round + 1, call |-> 0] IN
    loop' = [loop EXCEPT ![e] = IF calls = 0 THEN [@ EXCEPT !.pc = "return"]
                                ELSE [pc |-> "get", key |-> next, calls |-> calls]]

\* An answer without tool calls is the result, unless it does not validate.
Answers(calls) == IF calls = 0 THEN {"succeeded", "task_error"} ELSE {"none"}

Learn(e, rev) == exec' = [exec EXCEPT ![e].fence.revision = rev]
Decide(e, outcome) == exec' = [exec EXCEPT ![e].outcome = outcome]

-----------------------------------------------------------------------------
(* The ledger *)

\* Mutant: the revision moves without the check of the lease.
ledgerMutationUnfenced(f, k, at, from, to, calls) ==
    /\ NewRevision(f.task)
    /\ AppendEvent(f.task, "running", f.epoch)
    /\ ledger[f.task][k].state = from
    /\ ledger' = [ledger EXCEPT ![f.task][k] =
                    [state |-> to, task_revision |-> f.revision, calls |-> calls]]
    /\ UNCHANGED <<status, attempt, leaseVars, available_at, execution_deadline_at,
                   failure_code, deleted, running_count, refs, now>>

\* One transaction: the fence, the step of the row, the event.
ledgerMutation(f, k, at, from, to, calls) ==
    /\ AppendProgress(f, at)
    /\ ledger[f.task][k].state = from
    /\ ledger' = [ledger EXCEPT ![f.task][k] =
                    [state |-> to, task_revision |-> f.revision, calls |-> calls]]

PrepareModelRound(f, k, at) == k.call = 0 /\ ledgerMutation(f, k, at, "absent", "prepared", 0)
MarkModelDispatched(f, k, at) == k.call = 0 /\ ledgerMutation(f, k, at, "prepared", "dispatched", 0)
CompleteModelRound(f, k, at, calls) ==
    k.call = 0 /\ ledgerMutation(f, k, at, "dispatched", "completed", calls)
MarkModelUncertain(f, k, at) == k.call = 0 /\ ledgerMutation(f, k, at, "dispatched", "uncertain", 0)

PrepareToolCall(f, k, at) == k.call > 0 /\ ledgerMutation(f, k, at, "absent", "prepared", 0)
MarkToolDispatched(f, k, at) == k.call > 0 /\ ledgerMutation(f, k, at, "prepared", "dispatched", 0)
CompleteToolCall(f, k, at) == k.call > 0 /\ ledgerMutation(f, k, at, "dispatched", "completed", 0)
MarkToolUncertain(f, k, at) == k.call > 0 /\ ledgerMutation(f, k, at, "dispatched", "uncertain", 0)

-----------------------------------------------------------------------------
(* executeAgentLoop *)

StartLoop(e, t) ==
    /\ ClaimRead(e, t)
    /\ loop' = [loop EXCEPT ![e] = [NoLoop EXCEPT !.pc = "get"]]
    /\ UNCHANGED <<ledger, effects>>

\* Mutant: a dispatched row is taken for one that was only prepared.
GetModelRoundRedispatching(e) ==
    LET row == ledger[exec[e].fence.task][loop[e].key] IN
    /\ At(e, "get") /\ loop[e].key.call = 0
    /\ \/ /\ row.state \in {"absent", "prepared"}
          /\ Goto(e, "prepare") /\ UNCHANGED exec
       \/ /\ row.state = "completed"
          /\ Advance(e, row.calls) /\ Learn(e, row.task_revision + 1)
       \/ /\ row.state \in {"dispatched", "uncertain"}
          /\ Goto(e, "invoke") /\ UNCHANGED exec
    /\ UNCHANGED <<storeVars, ledger, effects>>

\* A row of an earlier executor decides: replay its answer, or give up.  Either
\* way the revision of the row replaces the one of the fence.
GetModelRound(e) ==
    LET row == ledger[exec[e].fence.task][loop[e].key]
        fenceOf(outcome) == [exec EXCEPT ![e].fence.revision = row.task_revision + 1,
                                         ![e].outcome = outcome] IN
    /\ At(e, "get") /\ loop[e].key.call = 0
    /\ \/ /\ row.state \in {"absent", "prepared"}
          /\ Goto(e, "prepare") /\ UNCHANGED exec
       \/ /\ row.state = "completed"
          /\ Advance(e, row.calls)
          /\ \E outcome \in Answers(row.calls) : exec' = fenceOf(outcome)
       \/ /\ row.state = "uncertain"
          /\ Goto(e, "return") /\ exec' = fenceOf("uncertain")
       \/ /\ row.state = "dispatched"
          /\ Goto(e, "mark") /\ exec' = fenceOf("uncertain")
    /\ UNCHANGED <<storeVars, ledger, effects>>

\* Only a completed tool call replaces the revision of the fence.
GetToolCall(e) ==
    LET row == ledger[exec[e].fence.task][loop[e].key] IN
    /\ At(e, "get") /\ loop[e].key.call > 0
    /\ \/ /\ row.state \in {"absent", "prepared"}
          /\ Goto(e, "prepare") /\ UNCHANGED exec
       \/ /\ row.state = "completed"
          /\ Advance(e, loop[e].calls) /\ Learn(e, row.task_revision + 1)
       \/ /\ row.state = "uncertain"
          /\ Goto(e, "return") /\ Decide(e, "uncertain")
       \/ /\ row.state = "dispatched"
          /\ Goto(e, "mark") /\ Decide(e, "uncertain")
    /\ UNCHANGED <<storeVars, ledger, effects>>

\* The write committed: the loop goes on under the next revision, or its reply
\* was lost and the loop fails.
ContinueOrFail(e, next) ==
    \/ Goto(e, next) /\ Learn(e, exec[e].fence.revision + 1)
    \/ Goto(e, "return") /\ Decide(e, "task_error")

Prepare(e, at) ==
    LET f == exec[e].fence  k == loop[e].key IN
    /\ At(e, "prepare")
    /\ PrepareModelRound(f, k, at) \/ PrepareToolCall(f, k, at)
    /\ ContinueOrFail(e, "dispatch")
    /\ UNCHANGED effects

Dispatch(e, at) ==
    LET f == exec[e].fence  k == loop[e].key IN
    /\ At(e, "dispatch")
    /\ MarkModelDispatched(f, k, at) \/ MarkToolDispatched(f, k, at)
    /\ ContinueOrFail(e, "invoke")
    /\ UNCHANGED effects

\* client.Generate or DispatchTool.  In the last round that is modelled the
\* model asks for no tool.
Invoke(e, calls) ==
    LET k == loop[e].key IN
    /\ At(e, "invoke")
    /\ k.call > 0 => calls = loop[e].calls
    /\ k.round = MaxRound => calls = 0
    /\ effects' = [effects EXCEPT ![exec[e].fence.task][k] = @ + 1]
    /\ loop' = [loop EXCEPT ![e].pc = "complete", ![e].calls = calls]
    /\ UNCHANGED <<storeVars, exec, ledger>>

\* An error says nothing about the side effect, which may have happened.
InvokeFails(e) ==
    /\ At(e, "invoke")
    /\ effects' = [effects EXCEPT ![exec[e].fence.task][loop[e].key] = @ + 1]
    /\ Goto(e, "mark") /\ Decide(e, "uncertain")
    /\ UNCHANGED <<storeVars, ledger>>

\* No dispatcher is configured: the call never starts.
ToolUnavailable(e) ==
    /\ At(e, "invoke") /\ loop[e].key.call > 0
    /\ Goto(e, "mark") /\ Decide(e, "task_error")
    /\ UNCHANGED <<storeVars, ledger, effects>>

Complete(e, at) ==
    LET f == exec[e].fence  k == loop[e].key  calls == loop[e].calls IN
    /\ At(e, "complete")
    /\ CompleteModelRound(f, k, at, calls) \/ CompleteToolCall(f, k, at)
    /\ \/ /\ Advance(e, calls)
          /\ \E outcome \in Answers(calls) :
               exec' = [exec EXCEPT ![e].fence.revision = @ + 1, ![e].outcome = outcome]
       \/ Goto(e, "mark") /\ Decide(e, "uncertain")
    /\ UNCHANGED effects

\* Mutant: an answer that could not be stored is used all the same.
CompleteFailsUnnoticed(e) ==
    /\ At(e, "complete")
    /\ Advance(e, loop[e].calls)
    /\ Decide(e, IF loop[e].calls = 0 THEN "succeeded" ELSE "none")
    /\ UNCHANGED <<storeVars, ledger, effects>>

CompleteFails(e) ==
    /\ At(e, "complete")
    /\ Goto(e, "mark") /\ Decide(e, "uncertain")
    /\ UNCHANGED <<storeVars, ledger, effects>>

\* Marking is a best effort; the outcome is decided already.
Mark(e, at) ==
    LET f == exec[e].fence  k == loop[e].key IN
    /\ At(e, "mark")
    /\ MarkModelUncertain(f, k, at) \/ MarkToolUncertain(f, k, at)
    /\ Goto(e, "return")
    /\ Learn(e, f.revision + 1) \/ UNCHANGED exec
    /\ UNCHANGED effects

MarkFails(e) ==
    /\ At(e, "mark")
    /\ Goto(e, "return")
    /\ UNCHANGED <<storeVars, exec, ledger, effects>>

\* A read or write of the ledger fails, the fence does not match, or a tool call
\* is invalid or not authorized: nothing was started for this key.
LoopFails(e) ==
    /\ At(e, "get") \/ At(e, "prepare") \/ At(e, "dispatch")
    /\ Goto(e, "return")
    /\ Decide(e, IF Overdue(exec[e].fence.task, now) THEN "task_timed_out" ELSE "task_error")
    /\ UNCHANGED <<storeVars, ledger, effects>>

\* execute takes the outcome; a stale executor writes nothing.
Return(e) ==
    /\ At(e, "return")
    /\ \/ HandlerReturns(e, exec[e].outcome)
       \/ exec[e].phase = "stale" /\ Stop(e) /\ UNCHANGED storeVars
    /\ loop' = [loop EXCEPT ![e] = NoLoop]
    /\ UNCHANGED <<ledger, effects>>

\* Shutdown or cancellation leaves the lease to be reclaimed, unless the
\* outcome of a side effect is uncertain.
LoopCanceled(e) ==
    /\ HandlerCanceled(e)
    /\ \/ loop[e].pc \in {"get", "prepare", "dispatch"}
       \/ loop[e].pc = "return" /\ exec[e].outcome # "uncertain"
    /\ loop' = [loop EXCEPT ![e] = NoLoop]
    /\ UNCHANGED <<ledger, effects>>

-----------------------------------------------------------------------------

LoopInit ==
    /\ PoolInit
    /\ ledger = [t \in Tasks |-> [k \in Key |-> NoRow]]
    /\ effects = [t \in Tasks |-> [k \in Key |-> 0]]
    /\ loop = [e \in Executors |-> NoLoop]

LoopStep(e) ==
    \/ \E at \in Clock : Prepare(e, at) \/ Dispatch(e, at) \/ Complete(e, at) \/ Mark(e, at)
    \/ \E calls \in 0..MaxCalls : Invoke(e, calls)
    \/ GetModelRound(e) \/ GetToolCall(e)
    \/ InvokeFails(e) \/ ToolUnavailable(e) \/ CompleteFails(e) \/ MarkFails(e)
    \/ LoopFails(e) \/ Return(e) \/ LoopCanceled(e)

\* The steps of the pool around the loop.
PoolStep(e) ==
    \/ \E at \in Clock : Renew(e, at) \/ TerminalWrite(e, at) \/ TerminalWriteLost(e, at)
    \/ RenewFails(e) \/ TerminalWriteFails(e) \/ Reread(e) \/ GiveUp(e)

Restart ==
    /\ Crash \/ \E t \in Tasks : ClaimPanics(t)
    /\ loop' = [e \in Executors |-> NoLoop]
    /\ UNCHANGED <<ledger, effects>>

LoopNext ==
    \/ /\ ClientNext \/ Tick
       /\ UNCHANGED <<exec, claiming, ledger, effects, loop>>
    \/ \E at \in Clock, t \in Tasks, locked \in SUBSET Tasks :
         /\ Claim(t, at, locked) \/ ClaimConverges(t, at, locked)
         /\ UNCHANGED <<ledger, effects, loop>>
    \/ ClaimReadFails /\ UNCHANGED <<ledger, effects, loop>>
    \/ \E e \in Executors, t \in Tasks : StartLoop(e, t)
    \/ \E e \in Executors : LoopStep(e) /\ UNCHANGED claiming
    \/ \E e \in Executors : PoolStep(e) /\ UNCHANGED <<claiming, ledger, effects, loop>>
    \/ Restart

LoopSpec == LoopInit /\ [][LoopNext]_loopVars

-----------------------------------------------------------------------------
(* Properties *)

\* The ledger, the counters and the executors have their types.
LoopTypeOK ==
    /\ TypeOK
    /\ ledger \in [Tasks -> [Key -> Row]]
    /\ effects \in [Tasks -> [Key -> Nat]]
    /\ loop \in [Executors -> LoopState]
    /\ \A e \in Executors : loop[e].pc # "off" => exec[e].phase \in {"handler", "stale"}

\* No model call and no tool call of a task is ever started twice, whatever
\* crashes, takes over or comes late, and none is started that a later executor
\* would not find dispatched.
EffectsAtMostOnce ==
    \A t \in Tasks, k \in Key :
      /\ effects[t][k] <= 1
      /\ effects[t][k] = 1 => ledger[t][k].state \in {"dispatched", "completed", "uncertain"}

\* k comes before j in the order of the loop.
Earlier(k, j) == k.round < j.round \/ (k.round = j.round /\ k.call < j.call)

\* The rows of a task are one history, as if a single executor had written them:
\* a side effect is recorded only after all the earlier ones have completed, and
\* a tool call only if the model asked for it.
LedgerIsOneHistory ==
    \A t \in Tasks : \A j \in Key : ledger[t][j].state # "absent" =>
      /\ \A k \in Key :
           /\ Earlier(k, j)
           /\ k.call = 0 \/ k.call <= ledger[t][[round |-> k.round, call |-> 0]].calls
           => ledger[t][k].state = "completed"
      /\ j.call <= ledger[t][[round |-> j.round, call |-> 0]].calls

\* Types, only a live handler is inside the loop, and the ledger that successive
\* executors wrote reads as one run of it.
LoopInv == LoopTypeOK /\ LedgerIsOneHistory

\* A task succeeds only with an answer that asks for no more tools, after every
\* side effect it started has a durable result.
SuccessIsComplete ==
    \A t \in Tasks : status[t] = "succeeded" =>
      /\ \E r \in 0..MaxRound :
           LET row == ledger[t][[round |-> r, call |-> 0]] IN
           row.state = "completed" /\ row.calls = 0
      /\ \A k \in Key : ledger[t][k].state \in {"absent", "completed"}

\* An executor that took over a task can go on with it: while it owns the
\* lease, the revision it is about to present to the ledger is the current one.
RecoveredLoopGoesOn ==
    \A e \in Executors :
      Owns(e) /\ At(e, "prepare") => exec[e].fence.revision = revision[exec[e].fence.task]

\* A side effect was started and its result is not known.
Unresolved(t) ==
    \E k \in Key : effects[t][k] > 0 /\ ledger[t][k].state # "completed"

\* RetryTask refuses a failed task that started a side effect whose outcome is
\* unknown, so a retry never repeats one.
UnresolvedNotRetried ==
    [][\A t, n \in Tasks, at \in Clock :
         status[t] = "failed" /\ RetryTask(t, n, at) => ~Unresolved(t)]_loopVars

=============================================================================
