------------------------- MODULE ConversationTurn -------------------------
(***************************************************************************)
(* One durable conversation turn: its row in core_conversation_turns, the  *)
(* ledger of model attempts, the finalization intents, the tool calls of   *)
(* the recorded result, the gated tool attempt with its task, the turn's   *)
(* event log and what it adds to the transcript.  Supervisors are the      *)
(* processes that may run the turn (runTurnSupervisor); a step of one is   *)
(* one transaction of executeTurn with the reads it rests on.  While a     *)
(* supervisor holds the lease only a deferred steer can change the row     *)
(* under it, so those reads and the write after them are one step.         *)
(*                                                                         *)
(* A lease id is fresh at every claim and a supervisor runs the turn in    *)
(* one goroutine, so "lease_id and lease_epoch are mine" is "the owner is  *)
(* me"; lease time is a flag that runs out at any moment (LeaseRunsOut).   *)
(* The model's active-time clock, attachments, group scopes, the intrinsic *)
(* tools and the Cloud Worker are left out.                                *)
(***************************************************************************)
EXTENDS Integers, Sequences, FiniteSets

CONSTANTS Supervisors, Nobody,
          Settings   \* [max, batches, steers, stops, others]: the frozen policy's
                     \* MaxModelDispatches, the tool calls a model may ask for
                     \* at once, and the bounds on accepted steers, on stops of a
                     \* supervisor and on commits of other turns

ASSUME TurnAssumption ==
    /\ Nobody \notin Supervisors
    /\ Settings \subseteq [max : Nat \ {0}, batches : SUBSET Seq({"read", "local", "gated"}),
                           steers : Nat, stops : Nat, others : Nat]

VARIABLES
    turn,       \* the row: state, owner, live, cancel, rev, disp, started, count,
                \* code, and asked: the revision its last directive was made at
    attempts,   \* core_conversation_model_attempts by sequence: state, and final
                \* for a directive with a finalization reason
    finals,     \* core_conversation_turn_finalizations: revisions with an intent
    result,     \* kind of the result in dispatch_result_json
    calls,      \* its tool calls: tool, entry state, state by the public events
    gate,       \* the current call's gated attempt, until its result is the
                \* call's: [state, task, slot]
    runner,     \* each supervisor's executeTurn: [pc, call]
    run,        \* what the holder's run has read or done under its lease
    conv,       \* revision of the conversation
    said,       \* messages the turn added to it, by kind
    log,        \* what matters of the turn's events: a tool result, how many
                \* done, error or canceled events, and any event after one
    steers,     \* [count, rev]: accepted steers and the revision of the last
    effects,    \* external calls made: <<attempt, 0>> model, <<attempt, i>> tool i
    repeated,   \* external calls made more than once
    budget      \* the policy's max and what is left of the bounds

turnVars == <<turn, attempts, finals, result, calls, gate, runner, run, conv,
              said, log, steers, effects, repeated, budget>>

Terminal == {"completed", "canceled", "failed"}
Idle == [pc |-> "idle", call |-> <<>>]
NoRun == [rev |-> 0, conv |-> 0, disp |-> "", final |-> FALSE, retried |-> FALSE,
          mine |-> FALSE]
NoGate == [state |-> "none", task |-> "none", slot |-> FALSE]
-----------------------------------------------------------------------------
(* StartTurn leaves an accepted row and its first event.                   *)
TurnInit ==
    /\ turn = [state |-> "accepted", owner |-> Nobody, live |-> FALSE, cancel |-> FALSE,
               rev |-> 1, disp |-> "", started |-> FALSE, count |-> 0, code |-> "",
               asked |-> 0]
    /\ attempts = <<>> /\ finals = {} /\ result = "none" /\ calls = <<>>
    /\ gate = NoGate
    /\ runner = [e \in Supervisors |-> Idle] /\ run = NoRun
    /\ conv = 1
    /\ said = [user |-> 0, steer |-> 0, assistant |-> 0, failed |-> 0]
    /\ log = [tooled |-> FALSE, ends |-> 0, late |-> FALSE]
    /\ steers = [count |-> 0, rev |-> 0]
    /\ effects = {} /\ repeated = {}
    /\ budget \in Settings

(* WHERE lease_id=$2 AND lease_epoch=$3 AND state='running'                *)
Holds(e) == turn.owner = e /\ turn.state = "running"

Finalizing == turn.rev \in finals

(* The model is called or a tool is run, outside any transaction.          *)
Calls(x) ==
    /\ effects' = effects \cup {x}
    /\ repeated' = repeated \cup (effects \cap {x})

Logs(kind) ==
    log' = [tooled |-> log.tooled \/ kind = "tool_result",
            ends |-> log.ends + (IF kind = "end" THEN 1 ELSE 0),
            late |-> log.late \/ log.ends > 0]

Goes(e, pc) == runner' = [runner EXCEPT ![e].pc = pc] /\ UNCHANGED run
Returns(e) ==
    /\ runner' = [runner EXCEPT ![e] = Idle]
    /\ run' = IF Holds(e) THEN NoRun ELSE run

Released(t) == [t EXCEPT !.owner = Nobody, !.live = FALSE]

(* dispatch_result_json = NULL                                             *)
ResultCleared == result' = "none" /\ calls' = <<>>

(* failedTurnTranscriptTx: the user's message when it is missing and the   *)
(* assistant's failed one; the conversation advances.                      *)
failedTurnTranscriptTx ==
    /\ said' = [said EXCEPT !.user = 1, !.failed = @ + 1]
    /\ conv' = conv + 1

(* FailTurn: the end of a turn by the holder of its lease; anyone else is  *)
(* refused and executeTurn returns either way.                             *)
FailTurn(e, code) ==
    /\ Returns(e)
    /\ IF Holds(e)
       THEN /\ turn' = Released([turn EXCEPT !.state = "failed", !.rev = @ + 1, !.code = code])
            /\ failedTurnTranscriptTx
            /\ Logs("end")
       ELSE UNCHANGED <<turn, said, conv, log>>

(* commitTurnTx: completes the row, compares and advances the conversation *)
(* revision, and writes the user's messages and the reply.                 *)
CommitTurn(e, code) ==
    IF Holds(e) /\ conv = run.conv
    THEN /\ Returns(e)
         /\ turn' = Released([turn EXCEPT !.state = "completed", !.rev = @ + 1, !.code = code])
         /\ conv' = conv + 1
         /\ said' = [said EXCEPT !.user = 1, !.steer = steers.count, !.assistant = @ + 1]
         /\ Logs("end")
    ELSE FailTurn(e, "turn_commit_failed")

(* PrepareTurnFinalization without a failure: possible when no dispatch is *)
(* under way; a refusal leaves everything and executeTurn returns.         *)
NoFailureIntent(e) ==
    /\ Returns(e)
    /\ IF /\ Holds(e) /\ turn.rev = run.rev /\ ~Finalizing
          /\ turn.disp \in {"", "completed"} \/ (turn.disp = "dispatched" /\ ~turn.started)
       THEN /\ finals' = finals \cup {turn.rev}
            /\ turn' = Released([turn EXCEPT !.state = "accepted", !.disp = ""])
            /\ ResultCleared
       ELSE UNCHANGED <<finals, turn, result, calls>>
    /\ UNCHANGED attempts

(* PrepareTurnFinalization after a failed dispatch: an ordinary attempt    *)
(* gives the turn back with a new intent, the attempt of an intent leaves  *)
(* an uncertain dispatch under the same lease for the fallback.            *)
FailureIntent(e) ==
    IF /\ Holds(e) /\ turn.rev = run.rev
       /\ turn.disp = "dispatched" /\ turn.started
       /\ attempts[turn.count].state = "dispatched"
       /\ attempts[turn.count].final = Finalizing
    THEN /\ attempts' = [attempts EXCEPT ![turn.count].state = "ended"]
         /\ finals' = finals \cup {turn.rev}
         /\ IF Finalizing
            THEN /\ turn' = [turn EXCEPT !.disp = "uncertain", !.started = FALSE]
                 /\ Goes(e, "fallback")
            ELSE /\ turn' = Released([turn EXCEPT !.state = "accepted", !.disp = "", !.started = FALSE])
                 /\ Returns(e)
    ELSE Returns(e) /\ UNCHANGED <<attempts, finals, turn>>

(* MarkTurnCanceledRequested: a requested cancel ends a turn nobody leases.*)
MarkTurnCanceledRequested ==
    IF turn.state \in {"accepted", "running"} /\ turn.cancel /\ turn.owner = Nobody
    THEN /\ turn' = [turn EXCEPT !.state = "canceled", !.rev = @ + 1]
         /\ Logs("end")
    ELSE UNCHANGED <<turn, log>>
-----------------------------------------------------------------------------
(* runTurnSupervisor up to ClaimTurn: a gated result is projected before   *)
(* the turn is claimed, a lease that has not run out is respected, and the *)
(* attempts of the earlier lease are no longer the claimer's.  executeTurn *)
(* then reads the conversation.                                            *)
ClaimTurn(e) ==
    /\ runner[e].pc = "idle"
    /\ turn.state \in {"accepted", "running"} /\ ~turn.cancel
    /\ turn.owner = Nobody \/ ~turn.live
    /\ ~(turn.state = "accepted" /\ turn.disp = "completed" /\ gate.state = "ended")
    /\ turn' = [turn EXCEPT !.state = "running", !.owner = e, !.live = TRUE]
    /\ runner' = [runner EXCEPT ![e].pc = "claimed"]
    /\ run' = [NoRun EXCEPT !.rev = turn.rev, !.conv = conv, !.disp = turn.disp]
    /\ UNCHANGED <<attempts, finals, result, calls, gate, conv, said, log, steers, effects,
                   repeated, budget>>

(* The many early ends of executeTurn: the turn's context, history, scope, *)
(* runtime or extensions are unavailable or do not fit what was accepted,  *)
(* or the model's tool calls are invalid.                                  *)
RunFails(e) ==
    /\ runner[e].pc \in {"claimed", "prepared", "asking", "recorded", "call"}
    /\ FailTurn(e, "run_failed")
    /\ UNCHANGED <<attempts, finals, result, calls, gate, steers, effects, repeated, budget>>

(* executeTurn with an intent whose dispatch was already made: it is never *)
(* repeated; a started one is first marked uncertain, then the fallback.   *)
RecoverFinalDispatch(e) ==
    /\ runner[e].pc = "claimed" /\ Finalizing
    /\ run.disp \in {"dispatched", "uncertain"}
    /\ IF turn.disp = "dispatched" /\ turn.started
       THEN FailureIntent(e)
       ELSE Goes(e, "fallback") /\ UNCHANGED <<attempts, finals, turn>>
    /\ UNCHANGED <<result, calls, gate, conv, said, log, steers, effects, repeated, budget>>

(* executeTurn when what the tools returned asks for an answer without     *)
(* tools: a spent tool budget, a loop, a terminal outcome.                 *)
FinalizeFromHistory(e) ==
    /\ runner[e].pc = "claimed" /\ ~Finalizing
    /\ log.tooled
    /\ NoFailureIntent(e)
    /\ UNCHANGED <<gate, conv, said, log, steers, effects, repeated, budget>>

(* LoadTurnModelResult: a completed dispatch is replayed, never repeated.  *)
ReplayResult(e) ==
    /\ runner[e].pc = "claimed" /\ turn.disp = "completed"
    /\ runner' = [runner EXCEPT ![e].pc = "recorded"]
    /\ run' = IF Holds(e) THEN [run EXCEPT !.final = Finalizing] ELSE run
    /\ UNCHANGED <<turn, attempts, finals, result, calls, gate, conv, said, log,
                   steers, effects, repeated, budget>>

(* PrepareTurnModel's guard: an idle dispatch of the revision the lease    *)
(* was taken at, within the budget; an intent admits one more, once.       *)
Admits(e) ==
    /\ Holds(e) /\ turn.rev = run.rev /\ turn.disp = ""
    /\ turn.count < budget.max + (IF Finalizing THEN 1 ELSE 0)
    /\ Finalizing => \A i \in DOMAIN attempts : ~attempts[i].final

Spent == turn.count >= budget.max + (IF Finalizing THEN 1 ELSE 0)

(* The dispatch and its directive become durable before the model is asked.*)
Dispatches(final) ==
    /\ turn' = [turn EXCEPT !.disp = "dispatched", !.started = TRUE, !.count = @ + 1,
                            !.asked = turn.rev]
    /\ attempts' = Append(attempts, [state |-> "dispatched", final |-> final])

PrepareTurnModel(e) ==
    /\ runner[e].pc = "claimed" /\ turn.disp # "completed"
    /\ ~(Finalizing /\ run.disp \in {"dispatched", "uncertain"})
    /\ \/ /\ Admits(e)
          /\ Dispatches(Finalizing)
          /\ runner' = [runner EXCEPT ![e].pc = "prepared"]
          /\ run' = [run EXCEPT !.final = Finalizing, !.mine = TRUE]
          /\ UNCHANGED <<finals, result, calls, conv, said, log>>
       \/ /\ ~Admits(e) /\ Spent /\ Finalizing
          /\ Goes(e, "fallback")
          /\ UNCHANGED <<turn, attempts, finals, result, calls, conv, said, log>>
       \/ /\ ~Admits(e) /\ Spent /\ ~Finalizing
          /\ NoFailureIntent(e)
          /\ UNCHANGED <<conv, said, log>>
       \/ /\ ~Admits(e) /\ ~Spent /\ turn.disp = "dispatched"
          /\ FailTurn(e, "model_dispatch_uncertain")
          /\ UNCHANGED <<attempts, finals, result, calls>>
       \/ /\ ~Admits(e) /\ ~Spent /\ turn.disp # "dispatched"
          /\ Returns(e)
          /\ UNCHANGED <<turn, attempts, finals, result, calls, conv, said, log>>
    /\ UNCHANGED <<gate, steers, effects, repeated, budget>>

(* LoadTurnModelDirective and BindTurnModelRuntime, then the model is      *)
(* asked (runAttempt); a lease lost in between ends the run.               *)
AskModel(e) ==
    /\ runner[e].pc = "prepared"
    /\ IF Holds(e)
       THEN Goes(e, "asking") /\ Calls(<<turn.count, 0>>)
       ELSE Returns(e) /\ UNCHANGED <<effects, repeated>>
    /\ UNCHANGED <<turn, attempts, finals, result, calls, gate, conv, said, log,
                   steers, budget>>

(* The attempt that MarkTurnModelRetryable and RecordTurnModelResult end.  *)
OwnAttempt(e) ==
    /\ Holds(e) /\ turn.disp = "dispatched" /\ turn.started
    /\ attempts[turn.count].state = "dispatched" /\ run.mine

(* MarkTurnModelRetryable: one failure before any output, or one unusable  *)
(* reply, may be tried again; of a final attempt only a malformed call.    *)
MarkTurnModelRetryable(e) ==
    /\ runner[e].pc = "asking" /\ ~run.retried
    /\ OwnAttempt(e)
    /\ attempts' = [attempts EXCEPT ![turn.count].state = "retryable"]
    /\ turn' = [turn EXCEPT !.started = FALSE]
    /\ runner' = [runner EXCEPT ![e].pc = "backoff"]
    /\ run' = [run EXCEPT !.retried = TRUE]
    /\ UNCHANGED <<finals, result, calls, gate, conv, said, log, steers, effects,
                   repeated, budget>>

RetrySpent == turn.count >= budget.max + (IF run.final THEN 2 ELSE 0)

(* PrepareTurnModelRetry after the backoff: a new attempt under the same   *)
(* directive, or the end of the budget.                                    *)
PrepareTurnModelRetry(e) ==
    /\ runner[e].pc = "backoff"
    /\ \/ /\ turn.cancel
          /\ MarkTurnCanceledRequested
          /\ Returns(e)
          /\ UNCHANGED <<attempts, finals, result, calls, conv, said, effects, repeated>>
       \/ /\ ~turn.cancel /\ Holds(e) /\ ~RetrySpent
          /\ turn.rev = run.rev /\ attempts[turn.count].state = "retryable"
          /\ Dispatches(run.final)
          /\ Goes(e, "asking")
          /\ Calls(<<turn.count + 1, 0>>)
          /\ UNCHANGED <<finals, result, calls, conv, said, log>>
       \/ /\ ~turn.cancel /\ Holds(e) /\ RetrySpent
          /\ IF run.final
             THEN Goes(e, "fallback") /\ UNCHANGED <<turn, attempts, finals, result, calls>>
             ELSE NoFailureIntent(e)
          /\ UNCHANGED <<conv, said, log, effects, repeated>>
       \/ /\ ~turn.cancel /\ ~Holds(e)
          /\ FailTurn(e, "model_dispatch_uncertain")
          /\ UNCHANGED <<attempts, finals, result, calls, effects, repeated>>
    /\ UNCHANGED <<gate, steers, budget>>

(* The model's call ends in an error that is not tried again.              *)
ModelFails(e) ==
    /\ runner[e].pc = "asking"
    /\ IF turn.cancel
       THEN MarkTurnCanceledRequested /\ Returns(e) /\ UNCHANGED <<attempts, finals>>
       ELSE FailureIntent(e) /\ UNCHANGED log
    /\ UNCHANGED <<result, calls, gate, conv, said, steers, effects, repeated, budget>>

Entry(tool) == [tool |-> tool, state |-> "pending", public |-> "absent"]

(* RecordTurnModelResult: the result becomes durable under the lease its   *)
(* attempt was dispatched with; otherwise it is dropped.                   *)
RecordTurnModelResult(e, kind, batch) ==
    /\ runner[e].pc = "asking"
    /\ IF turn.cancel
       THEN /\ MarkTurnCanceledRequested /\ Returns(e)
            /\ UNCHANGED <<attempts, result, calls>>
       ELSE /\ IF OwnAttempt(e)
               THEN /\ attempts' = [attempts EXCEPT ![turn.count].state = "ended"]
                    /\ turn' = [turn EXCEPT !.disp = "completed", !.started = FALSE]
                    /\ result' = kind
                    /\ calls' = [i \in DOMAIN batch |-> Entry(batch[i])]
                    /\ Goes(e, "recorded")
               ELSE Returns(e) /\ UNCHANGED <<attempts, turn, result, calls>>
            /\ UNCHANGED log
    /\ UNCHANGED <<finals, gate, conv, said, steers, effects, repeated, budget>>

ModelReturns(e) ==
    \/ \E kind \in {"answer", "continue", "unusable"} : RecordTurnModelResult(e, kind, <<>>)
    \/ \E batch \in budget.batches : RecordTurnModelResult(e, "tools", batch)
-----------------------------------------------------------------------------
(* CompleteConversationToolRound: every call has its result; the row goes  *)
(* back for the next model round at a new revision.                        *)
CompleteConversationToolRound(e) ==
    /\ Returns(e)
    /\ IF Holds(e) /\ turn.disp = "completed" /\ \A i \in DOMAIN calls : calls[i].state = "terminal"
       THEN /\ turn' = Released([turn EXCEPT !.state = "accepted", !.disp = "", !.rev = @ + 1])
            /\ ResultCleared
       ELSE UNCHANGED <<turn, result, calls>>

(* executeTurn with a durable result, just recorded or replayed.  A read   *)
(* finds what the lease protects; without it every write is refused.       *)
UseResult(e) ==
    /\ runner[e].pc = "recorded"
    /\ \/ /\ Holds(e) /\ result = "answer"
          /\ CommitTurn(e, "answer")
          /\ UNCHANGED <<attempts, finals, result, calls>>
       \/ /\ Holds(e) /\ result = "continue"
          /\ CompleteConversationToolRound(e)
          /\ UNCHANGED <<attempts, finals, conv, said, log>>
       \/ /\ Holds(e) /\ result \in {"unusable", "tools"} /\ run.final
          /\ Goes(e, "fallback")
          /\ UNCHANGED <<turn, attempts, finals, result, calls, conv, said, log>>
       \/ /\ Holds(e) /\ result \in {"unusable", "tools"} /\ ~run.final
          /\ NoFailureIntent(e)
          /\ UNCHANGED <<conv, said, log>>
       \/ /\ Holds(e) /\ result = "tools" /\ ~run.final
          /\ Goes(e, "tools")
          /\ UNCHANGED <<turn, attempts, finals, result, calls, conv, said, log>>
       \/ /\ ~Holds(e)
          /\ Returns(e)
          /\ UNCHANGED <<turn, attempts, finals, result, calls, conv, said, log>>
    /\ UNCHANGED <<gate, steers, effects, repeated, budget>>

(* commitTurnFinalizationFallback: a reply made from what is durable.      *)
Fallback(e) ==
    /\ runner[e].pc = "fallback"
    /\ CommitTurn(e, "fallback")
    /\ UNCHANGED <<attempts, finals, result, calls, gate, steers, effects, repeated, budget>>

Open == {i \in DOMAIN calls : calls[i].state # "terminal"}
Current == CHOOSE i \in Open : \A j \in Open : i <= j

(* The loop over the calls: the next one becomes public                    *)
(* (RecordConversationToolCall), or the round is over.                     *)
RecordConversationToolCall(e) ==
    /\ runner[e].pc = "tools"
    /\ \/ /\ Holds(e) /\ turn.disp = "completed" /\ Open # {}
          /\ calls' = [calls EXCEPT ![Current].public = "pending"]
          /\ IF calls[Current].public = "absent" THEN Logs("tool_call") ELSE UNCHANGED log
          /\ Goes(e, "call")
          /\ UNCHANGED <<turn, result>>
       \/ /\ Holds(e) /\ Open = {}
          /\ CompleteConversationToolRound(e)
          /\ UNCHANGED log
       \/ /\ ~Holds(e)
          /\ Returns(e)
          /\ UNCHANGED <<turn, result, calls, log>>
    /\ UNCHANGED <<attempts, finals, gate, conv, said, steers, effects, repeated, budget>>

(* FailConversationToolDispatch: the call's outcome is unknown or invalid; *)
(* the turn fails with the result and the error as its last events.        *)
FailConversationToolDispatch(e, code) ==
    /\ turn' = Released([turn EXCEPT !.state = "failed", !.rev = @ + 1, !.code = code])
    /\ calls' = [calls EXCEPT ![Current].state = "terminal", ![Current].public = "terminal"]
    /\ Logs("end")
    /\ failedTurnTranscriptTx
    /\ Returns(e)

BeginAgain(e) ==
    /\ runner[e].pc = "call" /\ Holds(e) /\ calls[Current].tool = "read"
    /\ calls' = [calls EXCEPT ![Current].state = "dispatched"]
    /\ runner' = [runner EXCEPT ![e] = [pc |-> "run", call |-> <<turn.count, Current>>]]
    /\ UNCHANGED <<run, turn, conv, said, log, attempts, finals, result, gate, steers,
                   effects, repeated, budget>>

(* BeginConversationToolDispatch: the entry is marked before the tool is   *)
(* run; one found marked is never run again.                               *)
BeginConversationToolDispatch(e) ==
    /\ runner[e].pc = "call"
    /\ Holds(e) => calls[Current].tool = "read"
    /\ \/ /\ Holds(e) /\ calls[Current].state = "pending"
          /\ calls' = [calls EXCEPT ![Current].state = "dispatched"]
          /\ runner' = [runner EXCEPT ![e] = [pc |-> "run", call |-> <<turn.count, Current>>]]
          /\ UNCHANGED run
          /\ UNCHANGED <<turn, conv, said, log>>
       \/ /\ Holds(e) /\ calls[Current].state = "dispatched"
          /\ FailConversationToolDispatch(e, "tool_dispatch_uncertain")
       \/ /\ ~Holds(e)
          /\ Returns(e)
          /\ UNCHANGED <<turn, calls, conv, said, log>>
    /\ UNCHANGED <<attempts, finals, result, gate, steers, effects, repeated, budget>>

(* executeImmediateTool: no transaction and no heartbeat while it runs.    *)
RunTool(e) ==
    /\ runner[e].pc = "run"
    /\ runner' = [runner EXCEPT ![e] = [pc |-> "ran", call |-> <<>>]]
    /\ Calls(runner[e].call)
    /\ UNCHANGED <<run, turn, attempts, finals, result, calls, gate, conv, said, log,
                   steers, budget>>

(* prepareTurnNoProgressFinalizationTx: a result that shows no progress    *)
(* gives the turn back with an intent.                                     *)
StalledFinalization ==
    /\ finals' = finals \cup {turn.rev}
    /\ turn' = Released([turn EXCEPT !.state = "accepted", !.disp = ""])
    /\ ResultCleared

(* RecordConversationToolResult, or the failure of an invalid result.      *)
RecordConversationToolResult(e) ==
    /\ runner[e].pc = "ran"
    /\ \/ /\ Holds(e)
          /\ calls' = [calls EXCEPT ![Current].state = "terminal", ![Current].public = "terminal"]
          /\ Logs("tool_result")
          /\ Goes(e, "tools")
          /\ UNCHANGED <<turn, finals, result, conv, said>>
       \/ /\ Holds(e) /\ ~Finalizing
          /\ StalledFinalization
          /\ Logs("tool_result")
          /\ Goes(e, "tools")
          /\ UNCHANGED <<conv, said>>
       \/ /\ Holds(e)
          /\ FailConversationToolDispatch(e, "invalid_tool_result")
          /\ UNCHANGED <<finals, result>>
       \/ /\ ~Holds(e)
          /\ Returns(e)
          /\ UNCHANGED <<turn, calls, finals, result, conv, said, log>>
    /\ UNCHANGED <<attempts, gate, steers, effects, repeated, budget>>

(* PrepareConversationTool: the call becomes a task of its own, waiting    *)
(* for consent or queued at once, and the turn waits without a lease.  The *)
(* row must still have the revision of the lease.                          *)
PrepareConversationTool(e) ==
    /\ runner[e].pc = "call" /\ Holds(e) /\ calls[Current].tool # "read"
    /\ \/ /\ turn.rev = run.rev
          /\ turn' = Released([turn EXCEPT !.state = "waiting_confirmation", !.rev = @ + 1])
          /\ gate' = [state |-> "waiting", slot |-> FALSE,
                      task |-> IF calls[Current].tool = "gated" THEN "waiting_user" ELSE "queued"]
          /\ IF calls[Current].tool = "gated" THEN Logs("waiting") ELSE UNCHANGED log
          /\ Returns(e)
          /\ UNCHANGED <<conv, said>>
       \/ /\ turn.rev # run.rev
          /\ FailTurn(e, "tool_prepare_failed")
          /\ UNCHANGED gate
    /\ UNCHANGED <<attempts, finals, result, calls, steers, effects, repeated, budget>>
-----------------------------------------------------------------------------
(* The task of the gated call, run by the task workers.                    *)
ConfirmTool ==
    /\ gate.state = "waiting" /\ gate.task = "waiting_user"
    /\ gate' = [gate EXCEPT !.task = "queued"]
    /\ UNCHANGED <<turn, attempts, finals, result, calls, runner, run, conv, said, log,
                   steers, effects, repeated, budget>>

(* terminalizeConversationToolTx: consent refused, expired or the task     *)
(* canceled before it ran wakes the turn.                                  *)
DenyTool ==
    /\ gate.state = "waiting" /\ gate.task \in {"waiting_user", "queued"}
    /\ gate' = [gate EXCEPT !.state = "ended", !.task = "ended"]
    /\ turn' = IF turn.state = "waiting_confirmation" /\ ~turn.cancel
               THEN [Released(turn) EXCEPT !.state = "accepted", !.rev = @ + 1] ELSE turn
    /\ UNCHANGED <<attempts, finals, result, calls, runner, run, conv, said, log, steers,
                   effects, repeated, budget>>

ClaimToolTask ==
    /\ gate.task = "queued"
    /\ gate' = [gate EXCEPT !.task = "running", !.slot = TRUE]
    /\ UNCHANGED <<turn, attempts, finals, result, calls, runner, run, conv, said, log,
                   steers, effects, repeated, budget>>

(* BeginConversationTool: consent is consumed and the attempt marked, then *)
(* the tool is run.                                                        *)
BeginConversationTool ==
    /\ gate.task = "running" /\ gate.state = "waiting"
    /\ gate' = [gate EXCEPT !.state = "dispatched"]
    /\ Calls(<<turn.count, Current>>)
    /\ UNCHANGED <<turn, attempts, finals, result, calls, runner, run, conv, said, log,
                   steers, budget>>

(* FinishConversationTool, by the worker that ran the tool or, with an     *)
(* unknown outcome, by one that found the attempt dispatched.              *)
FinishConversationTool ==
    /\ gate.task = "running" /\ gate.state = "dispatched"
    /\ gate' = [state |-> "ended", task |-> "ended", slot |-> FALSE]
    /\ UNCHANGED <<turn, attempts, finals, result, calls, runner, run, conv, said, log,
                   steers, effects, repeated, budget>>

(* ResumeConversationTurn: the ended attempt becomes the call's result and *)
(* the turn may be claimed again.                                          *)
ResumeConversationTurn ==
    /\ turn.state \in {"accepted", "waiting_confirmation"} /\ ~turn.cancel
    /\ turn.disp = "completed" /\ gate.state = "ended"
    /\ gate' = NoGate
    /\ Logs("tool_result")
    /\ \/ /\ calls' = [calls EXCEPT ![Current].state = "terminal", ![Current].public = "terminal"]
          /\ turn' = [Released(turn) EXCEPT !.state = "accepted",
                        !.rev = IF turn.state = "waiting_confirmation" THEN @ + 1 ELSE @]
          /\ UNCHANGED <<finals, result>>
       \/ /\ ~Finalizing
          /\ StalledFinalization
    /\ UNCHANGED <<attempts, runner, run, conv, said, steers, effects, repeated, budget>>
-----------------------------------------------------------------------------
(* RequestTurnCancel.  A waiting turn is canceled with its task, if that   *)
(* still waits for consent; otherwise the lease is revoked and the request *)
(* is left to the supervisor.  A dispatched gated attempt of a running     *)
(* turn would be ended here without giving back its slot.                  *)
RequestTurnCancel ==
    /\ turn.state \notin Terminal /\ ~turn.cancel
    /\ turn.state = "waiting_confirmation" =>
          gate.state = "waiting" /\ gate.task = "waiting_user"
    /\ gate' = IF \/ turn.state = "waiting_confirmation"
                  \/ turn.state = "running" /\ gate.state = "dispatched"
               THEN [gate EXCEPT !.state = "ended", !.task = "ended"] ELSE gate
    /\ run' = NoRun
    /\ turn' = [Released(turn) EXCEPT !.cancel = TRUE, !.rev = @ + 1,
                  !.state = IF @ = "waiting_confirmation" THEN "canceled" ELSE @]
    /\ IF turn.state = "waiting_confirmation" THEN Logs("end") ELSE UNCHANGED log
    /\ UNCHANGED <<attempts, finals, result, calls, runner, conv, said, steers,
                   effects, repeated, budget>>

(* The supervisor of a turn with a requested cancel.                       *)
EndCanceled(e) ==
    /\ runner[e].pc = "idle" /\ turn.cancel /\ turn.state \notin Terminal
    /\ MarkTurnCanceledRequested
    /\ UNCHANGED <<attempts, finals, result, calls, gate, runner, run, conv, said, steers,
                   effects, repeated, budget>>

(* A call that is public or running defers the steer to the next round.    *)
Deferred ==
    turn.disp = "completed"
        /\ \E i \in DOMAIN calls : \/ calls[i].state = "dispatched"
                                   \/ calls[i].state = "pending" /\ calls[i].public = "pending"

SteerWithoutFence ==
    /\ budget.steers > 0
    /\ turn.state \in {"accepted", "running"} /\ ~turn.cancel
    /\ steers' = [count |-> steers.count + 1, rev |-> turn.rev + 1]
    /\ budget' = [budget EXCEPT !.steers = @ - 1]
    /\ Logs("steered")
    /\ turn' = [turn EXCEPT !.rev = @ + 1]
    /\ UNCHANGED <<attempts, result, calls, finals, gate, runner, run, conv, said,
                   effects, repeated>>

SteerWithoutSuperseding ==
    /\ budget.steers > 0
    /\ turn.state \in {"accepted", "running"} /\ ~turn.cancel
    /\ steers' = [count |-> steers.count + 1, rev |-> turn.rev + 1]
    /\ budget' = [budget EXCEPT !.steers = @ - 1]
    /\ Logs("steered")
    /\ IF Deferred
       THEN turn' = [turn EXCEPT !.rev = @ + 1] /\ UNCHANGED <<result, calls, run>>
       ELSE /\ turn' = Released([turn EXCEPT !.state = "accepted", !.disp = "",
                                             !.started = FALSE, !.rev = @ + 1])
            /\ ResultCleared /\ run' = NoRun
    /\ UNCHANGED <<attempts, finals, gate, runner, conv, said, effects, repeated>>

(* RequestTurnSteer: guidance at the revision the user saw.  Deferred, it  *)
(* only advances the revision; otherwise it supersedes the attempt under   *)
(* way, drops the result and revokes the lease.                            *)
RequestTurnSteer ==
    /\ budget.steers > 0
    /\ turn.state \in {"accepted", "running"} /\ ~turn.cancel
    /\ steers' = [count |-> steers.count + 1, rev |-> turn.rev + 1]
    /\ budget' = [budget EXCEPT !.steers = @ - 1]
    /\ Logs("steered")
    /\ IF Deferred
       THEN turn' = [turn EXCEPT !.rev = @ + 1] /\ UNCHANGED <<attempts, result, calls, run>>
       ELSE /\ turn' = Released([turn EXCEPT !.state = "accepted", !.disp = "",
                                             !.started = FALSE, !.rev = @ + 1])
            /\ attempts' = [i \in DOMAIN attempts |->
                   IF attempts[i].state = "dispatched"
                   THEN [attempts[i] EXCEPT !.state = "ended"] ELSE attempts[i]]
            /\ ResultCleared /\ run' = NoRun
    /\ UNCHANGED <<finals, gate, runner, conv, said, effects, repeated>>

-----------------------------------------------------------------------------
(* RenewTurn at the heartbeat, which only beats while the model is awaited.*)
RenewTurn(e) ==
    /\ runner[e].pc \in {"asking", "backoff"} /\ Holds(e) /\ ~turn.live
    /\ turn' = [turn EXCEPT !.live = TRUE]
    /\ UNCHANGED <<attempts, finals, result, calls, gate, runner, run, conv, said, log,
                   steers, effects, repeated, budget>>

LeaseRunsOut ==
    /\ turn.owner # Nobody /\ turn.live
    /\ turn' = [turn EXCEPT !.live = FALSE]
    /\ UNCHANGED <<attempts, finals, result, calls, gate, runner, run, conv, said, log,
                   steers, effects, repeated, budget>>

(* A renewal refused, or the signal of a cancel or a steer, cancels the    *)
(* context of the model's call; the run ends with nothing written.         *)
Interrupted(e) ==
    /\ runner[e].pc \in {"asking", "backoff"} /\ ~Holds(e) /\ ~turn.cancel
    /\ Returns(e)
    /\ UNCHANGED <<turn, attempts, finals, result, calls, gate, conv, said, log,
                   steers, effects, repeated, budget>>

(* The process stops; RecoverTurns starts a supervisor again.              *)
Stop(e) ==
    /\ runner[e].pc # "idle" /\ budget.stops > 0
    /\ Returns(e)
    /\ budget' = [budget EXCEPT !.stops = @ - 1]
    /\ UNCHANGED <<turn, attempts, finals, result, calls, gate, conv, said, log,
                   steers, effects, repeated>>

(* Another turn of the conversation commits.                               *)
OtherTurnCommits ==
    /\ budget.others > 0
    /\ conv' = conv + 1
    /\ budget' = [budget EXCEPT !.others = @ - 1]
    /\ UNCHANGED <<turn, attempts, finals, result, calls, gate, runner, run, said, log,
                   steers, effects, repeated>>

Runs(e) ==
    \/ ClaimTurn(e) \/ RunFails(e) \/ RecoverFinalDispatch(e) \/ FinalizeFromHistory(e)
    \/ ReplayResult(e) \/ PrepareTurnModel(e) \/ AskModel(e)
    \/ MarkTurnModelRetryable(e) \/ PrepareTurnModelRetry(e) \/ ModelFails(e)
    \/ ModelReturns(e) \/ UseResult(e) \/ Fallback(e)
    \/ RecordConversationToolCall(e) \/ BeginConversationToolDispatch(e)
    \/ RunTool(e) \/ RecordConversationToolResult(e) \/ PrepareConversationTool(e)
    \/ EndCanceled(e) \/ Interrupted(e)

ToolTask == ClaimToolTask \/ BeginConversationTool \/ FinishConversationTool

TurnNext ==
    \/ \E e \in Supervisors : Runs(e) \/ RenewTurn(e) \/ Stop(e)
    \/ ToolTask \/ ConfirmTool \/ DenyTool \/ ResumeConversationTurn
    \/ RequestTurnCancel \/ RequestTurnSteer \/ LeaseRunsOut \/ OtherTurnCommits

(* The supervisors and the task workers run, a lease nobody renews runs    *)
(* out, and the sweep ends a consent the user never answers.  The user,    *)
(* the stops and the other turns owe nothing.                              *)
TurnFairness ==
    /\ \A e \in Supervisors : WF_turnVars(Runs(e))
    /\ WF_turnVars(ToolTask) /\ WF_turnVars(DenyTool)
    /\ WF_turnVars(ResumeConversationTurn) /\ WF_turnVars(LeaseRunsOut)

TurnSpec == TurnInit /\ [][TurnNext]_turnVars
TurnFairSpec == TurnSpec /\ TurnFairness
-----------------------------------------------------------------------------
(* Type invariant.                                                         *)
TurnTypeOK ==
    /\ turn.state \in {"accepted", "running", "waiting_confirmation"} \cup Terminal
    /\ turn.owner \in Supervisors \cup {Nobody}
    /\ turn.disp \in {"", "dispatched", "completed", "uncertain"}
    /\ turn.count = Len(attempts)
    /\ turn.state # "running" => turn.owner = Nobody
    /\ \A i \in DOMAIN attempts : attempts[i].state \in
          {"dispatched", "retryable", "ended"}
    /\ finals \subseteq 1..turn.rev
    /\ gate.state \in {"none", "waiting", "dispatched", "ended"}

(* No model dispatch and no tool call is made twice, whatever supervisor   *)
(* stopped, lost its lease, was steered or replayed a recorded result      *)
(* (BeginConversationToolDispatch, LoadTurnModelResult, PrepareTurnModel). *)
TurnEffectsOnce == repeated = {}

(* What the turn adds to its conversation: an answered turn the user's     *)
(* message, every accepted steer and one reply; a failed one the user's    *)
(* message and one failed reply; any other turn nothing (commitTurnTx,     *)
(* failedTurnTranscriptTx).                                                *)
TranscriptExact ==
    said = [user |-> IF turn.state \in {"completed", "failed"} THEN 1 ELSE 0,
            steer |-> IF turn.state = "completed" THEN steers.count ELSE 0,
            assistant |-> IF turn.state = "completed" THEN 1 ELSE 0,
            failed |-> IF turn.state = "failed" THEN 1 ELSE 0]

(* The event log closes exactly when the turn ends: one done, error or     *)
(* canceled event, and nothing after it (WatchTurnEvents stops there).     *)
LogClosesOnce ==
    ~log.late /\ log.ends = IF turn.state \in Terminal THEN 1 ELSE 0

(* The ledger of attempts and the row agree on every turn that is not      *)
(* over: the last attempt is dispatched just when the row has a started    *)
(* dispatch, and no earlier one is left dispatched.                        *)
DispatchLedger ==
    turn.state \notin Terminal =>
        \A i \in DOMAIN attempts : attempts[i].state = "dispatched" <=>
            i = turn.count /\ turn.disp = "dispatched" /\ turn.started

(* An answer the model gave was asked for after the last steer: a result   *)
(* of a superseded generation is never committed (RequestTurnSteer).       *)
GuidanceHeard ==
    turn.state = "completed" /\ turn.code = "answer" =>
        turn.asked >= steers.rev

(* The budget of model dispatches: at most MaxModelDispatches ordinary     *)
(* ones, one under a finalization intent and one repeat of that for a      *)
(* malformed call, however many intents, steers and restarts there are.    *)
DispatchBudget ==
    /\ Cardinality({i \in DOMAIN attempts : ~attempts[i].final}) <= budget.max
    /\ Cardinality({i \in DOMAIN attempts : attempts[i].final}) <= 2

(* The gated task holds its slot while it runs and only then: a cancel     *)
(* never meets a running turn whose gated attempt is dispatched, which is  *)
(* the case RequestTurnCancel would end without giving the slot back.      *)
ToolSlotExact == gate.slot <=> gate.task = "running"

(* A requested cancel stays one step from its end: nobody can lease the    *)
(* turn again, so the supervisor's MarkTurnCanceledRequested is accepted.  *)
CancelNotBlocked ==
    turn.cancel /\ turn.state \notin Terminal =>
        turn.state \in {"accepted", "running"} /\ turn.owner = Nobody

(* A turn ends once, for its watchers and in its conversation alike, and   *)
(* one that is to be cancelled can end.                                    *)
TurnEndsOnce == TranscriptExact /\ LogClosesOnce /\ CancelNotBlocked

(* The row, its lease and its ledger of attempts are one account of the    *)
(* model dispatches, within their budget, and of the gated call, up to the *)
(* one end of the turn.                                                    *)
TurnInv ==
    /\ TurnTypeOK /\ DispatchLedger /\ DispatchBudget /\ ToolSlotExact
    /\ TurnEndsOnce

(* Once a call is public or dispatched a steer preserves its authority and *)
(* lease, and the results continue with the instruction in the next round. *)
(* No run checks it: it is false of the code (see the README).             *)
DeferredSteerPreserves == turn.code # "tool_prepare_failed"

(* Every turn ends, or waits for the user.  No run checks it: it is false  *)
(* of the code (see the README).                                           *)
TurnFinishes == <>(turn.state \in Terminal)
=============================================================================
