--------------------------- MODULE TaskLifecycle ---------------------------
(***************************************************************************)
(* What a Task promises its owner, without queue, leases or clocks: the    *)
(* life of its status, as coretask.Task.CanTransition draws it, and the    *)
(* epoch of its claim.  CoreTask implements this specification.            *)
(***************************************************************************)
EXTENDS Naturals

CONSTANT Tasks

VARIABLES
    status,     \* task -> Status, "absent" before it is created
    epoch       \* task -> how often the task was claimed or fenced off

vars == <<status, epoch>>

Done == {"succeeded", "failed", "canceled"}

\* coretask.Task.CanTransition
CanTransition(from, to) ==
    \/ from = "queued" /\ to \in {"running", "canceled"}
    \/ from = "running" /\ to \in {"succeeded", "failed", "waiting_user", "canceled"}
    \/ from = "waiting_user" /\ to \in {"queued", "canceled"}

Init ==
    /\ status = [t \in Tasks |-> "absent"]
    /\ epoch = [t \in Tasks |-> 0]

Create(t) ==
    /\ status[t] = "absent"
    /\ \E to \in {"queued", "waiting_user"} : status' = [status EXCEPT ![t] = to]
    /\ UNCHANGED epoch

\* Entering or leaving a claim from outside fences its executor off: a claim,
\* and the cancellation of a running task, move the epoch.
Transition(t) ==
    \E to \in {"queued", "running", "waiting_user"} \cup Done :
      /\ CanTransition(status[t], to)
      /\ status' = [status EXCEPT ![t] = to]
      /\ epoch' = IF to = "running" \/ (status[t] = "running" /\ to = "canceled")
                  THEN [epoch EXCEPT ![t] = @ + 1]
                  ELSE epoch

\* An expired claim is taken over under the next epoch.
Reclaim(t) ==
    /\ status[t] = "running"
    /\ epoch' = [epoch EXCEPT ![t] = @ + 1]
    /\ UNCHANGED status

\* A task past its deadline fails before it is handed to an executor.
Expire(t) ==
    /\ status[t] \in {"queued", "waiting_user"}
    /\ status' = [status EXCEPT ![t] = "failed"]
    /\ UNCHANGED epoch

Next == \E t \in Tasks : Create(t) \/ Transition(t) \/ Reclaim(t) \/ Expire(t)

Spec == Init /\ [][Next]_vars

=============================================================================
