----------------------------- MODULE MCAgentLoop -----------------------------
(* Small instances of AgentLoop for TLC. *)
EXTENDS AgentLoop, TLC

CONSTANTS t1, t2, e1, e2

\* One agent task with a deadline.
OneKind == t1 :> "agent"
OneTimeout == t1 :> 2

\* A task and its retry.
TwoKind == (t1 :> "agent") @@ (t2 :> "agent")
TwoTimeout == (t1 :> 1) @@ (t2 :> 1)
=============================================================================
