---------------------------- MODULE MCWorkerPool ----------------------------
(* Small instances of WorkerPool for TLC. *)
EXTENDS WorkerPool, TLC

CONSTANTS t1, e1, e2

\* One task that outlives its executors: a handler that hands its fence back.
AgentKind == t1 :> "agent"
AgentTimeout == t1 :> 3
=============================================================================
