----------------------------- MODULE SSHWorker -----------------------------
(***************************************************************************)
(* The pool of retained SSH Workers (sshworker.Provider): executions that  *)
(* create a Worker or reuse an idle one, start a process on it and collect *)
(* its result, and the owner's destruction of Workers.  The records are    *)
(* files, AWS and the remote host answer or fail, the process may stop at  *)
(* any step and an execution whose task is still live is run again.        *)
(*                                                                         *)
(* All records are of one owner and one credential.  pool.mu is held from  *)
(* the lease of a creating run until its records are saved, across the     *)
(* calls of AWS; every other locked section is one step.  A call of AWS    *)
(* that fails may have taken effect, but no effect comes after the answer. *)
(***************************************************************************)
EXTENDS Integers, FiniteSets

CONSTANTS SWExecs,      \* executions, and the Workers they create
          SWTarget,     \* the execution's Worker: its own, or the one it reuses
          SWMaxWorkers,
          SWSettings    \* bounds: [runs, crashes, destroys]

SWWorkers == {e \in SWExecs : SWTarget[e] = e}

ASSUME SSHWorkerAssumption ==
    /\ SWExecs \subseteq Nat \ {0} /\ IsFiniteSet(SWExecs)
    /\ SWTarget \in [SWExecs -> SWWorkers]
    /\ SWMaxWorkers \in Nat
    /\ SWSettings \subseteq [runs : [SWExecs -> Nat], crashes : Nat, destroys : Nat]

Resources == {"key", "group", "instance"}

VARIABLES
    sworker,   \* WorkerRecord: [phase, cur, known, gone]
    sexec,     \* ExecutionRecord: [phase, remote]
    cloud,     \* resources AWS has under the Worker's tags
    srun,      \* pool.runs: [pc, cancelled]
    sdestroy,  \* pool.destroying: [pc, stopped]
    prepared,  \* executions whose task root on the host is complete
    proc,      \* the remote process of an execution
    started,   \* how often a remote process of it was started
    etask,     \* whether the task of the execution is still live
    swleft     \* what is left of the bounds

swVars == <<sworker, sexec, cloud, srun, sdestroy, prepared, proc, started, etask, swleft>>

NoRun == [pc |-> "none", cancelled |-> FALSE]
NoDestroy == [pc |-> "none", stopped |-> {}]

SSHInit ==
    /\ sworker = [w \in SWWorkers |-> [phase |-> "none", cur |-> 0, known |-> {}, gone |-> FALSE]]
    /\ sexec = [e \in SWExecs |-> [phase |-> "none", remote |-> FALSE]]
    /\ cloud = [w \in SWWorkers |-> {}]
    /\ srun = [e \in SWExecs |-> NoRun]
    /\ sdestroy = [w \in SWWorkers |-> NoDestroy]
    /\ prepared = {} /\ proc = [e \in SWExecs |-> "none"] /\ started = [e \in SWExecs |-> 0]
    /\ etask = [e \in SWExecs |-> "live"]
    /\ swleft \in SWSettings

HoldsPool == {"key", "group", "instance", "boot", "leased"}
PoolFree == \A e \in SWExecs : srun[e].pc \notin HoldsPool

(* reconcileProvisioning and findProvisioningResources: what exists under  *)
(* the intent's tags is recorded, as far as it is found.                   *)
Finds(w, found) == sworker' = [sworker EXCEPT ![w].known = @ \cup found]

SWGoes(e, pc) == srun' = [srun EXCEPT ![e].pc = pc]

(* The run returns: with an outcome that is uncertain its task stays, with *)
(* any other the handler ends the task, unless that commit fails.          *)
Returns(e) ==
    /\ srun' = [srun EXCEPT ![e] = NoRun]
    /\ \E t \in {etask[e], "ended"} : etask' = [etask EXCEPT ![e] = t]

ReturnsUncertain(e) == srun' = [srun EXCEPT ![e] = NoRun] /\ UNCHANGED etask

(* releaseLocked: a destroy intent stays.                                  *)
Released(e) ==
    LET w == SWTarget[e] IN
      IF sworker[w].phase \in {"destroying", "destroyed"} \/ sworker[w].cur # e
      THEN sworker
      ELSE [sworker EXCEPT ![w].phase = "idle", ![w].cur = 0]

(* executionStillOwned                                                     *)
StillOwned(e) ==
    /\ sworker[SWTarget[e]].phase \notin {"destroying", "destroyed"}
    /\ sworker[SWTarget[e]].cur = e
-----------------------------------------------------------------------------
(* Leasing a Worker.                                                       *)

(* registerExecution: the handler of a live task calls Execute.            *)
RegisterExecution(e) ==
    /\ etask[e] = "live" /\ srun[e].pc = "none" /\ swleft.runs[e] > 0
    /\ swleft' = [swleft EXCEPT !.runs[e] = @ - 1]
    /\ IF sdestroy[SWTarget[e]].pc = "none"
       THEN SWGoes(e, "lease") /\ UNCHANGED etask
       ELSE Returns(e)
    /\ UNCHANGED <<sworker, sexec, cloud, sdestroy, prepared, proc, started>>

(* checkCreateCapacity: the Workers that are retained, and the instances   *)
(* of the owner that no counted Worker is known to have.                   *)
Retained(w) ==
    /\ sworker[w].phase \notin {"none", "destroyed", "failed"}
    /\ ~(sworker[w].phase = "destroying" /\ sworker[w].gone)

Untracked(w) ==
    "instance" \in cloud[w] /\ ~(Retained(w) /\ "instance" \in sworker[w].known)

HasCapacity ==
    Cardinality({w \in SWWorkers : Retained(w)}) + Cardinality({w \in SWWorkers : Untracked(w)})
        < SWMaxWorkers

(* A lease that prepares a running execution as it does a new one.         *)
ResumedAfresh(e) ==
    /\ sexec[e].phase = "running" /\ sworker[SWTarget[e]].cur = e
    /\ SWGoes(e, "prepare") /\ UNCHANGED <<sworker, etask>>

(* lease of an execution that has a record.                                *)
Resumed(e) ==
    \/ /\ sexec[e].phase \in {"completed", "failed"}
       /\ sworker' \in {sworker, Released(e)}
       /\ Returns(e)
    \/ /\ sexec[e].phase = "running"
       /\ IF sworker[SWTarget[e]].phase = "busy" /\ sworker[SWTarget[e]].cur = e
          THEN SWGoes(e, "resume") /\ UNCHANGED etask
          ELSE Returns(e)
       /\ UNCHANGED sworker

(* acquire, with ReuseOnly: an idle Worker whose instance is observed.     *)
Reused(e) ==
    LET w == SWTarget[e] IN
      \/ /\ sworker[w].phase = "idle" /\ "instance" \in cloud[w]
         /\ sworker' = [sworker EXCEPT ![w].phase = "busy", ![w].cur = e]
         /\ SWGoes(e, "leased") /\ UNCHANGED etask
      \/ Returns(e) /\ UNCHANGED sworker

(* acquire, to create: a new intent, or one an earlier run left.           *)
Intended(e) ==
    \/ /\ sworker[e].phase = "none" /\ HasCapacity
       /\ sworker' = [sworker EXCEPT ![e].phase = "provisioning"]
       /\ SWGoes(e, "key") /\ UNCHANGED etask
    \/ /\ sworker[e].phase = "provisioning"
       /\ SWGoes(e, "key") /\ UNCHANGED <<sworker, etask>>
    \/ /\ sworker[e].phase = "provisioning"
       /\ \E found \in SUBSET cloud[e] : Finds(e, found)
       /\ Returns(e)
    \/ Returns(e) /\ UNCHANGED sworker

Lease(e) ==
    /\ srun[e].pc = "lease" /\ PoolFree
    /\ \/ srun[e].cancelled /\ Returns(e) /\ UNCHANGED sworker
       \/ ~srun[e].cancelled /\ Resumed(e)
       \/ /\ ~srun[e].cancelled /\ sexec[e].phase = "none"
          /\ IF SWTarget[e] = e THEN Intended(e) ELSE Reused(e)
    /\ UNCHANGED <<sexec, cloud, sdestroy, prepared, proc, started, swleft>>

(* create: the resource is found or made, and its identity saved; or the   *)
(* call fails and may have made it; or the credential is no longer allowed *)
(* and what exists is recorded; or AWS has no quota for the instance.      *)
Provision(e, r, next) ==
    /\ srun[e].pc = r
    /\ \/ /\ ~srun[e].cancelled
          /\ cloud' = [cloud EXCEPT ![e] = @ \cup {r}]
          /\ sworker' = [sworker EXCEPT ![e].known = @ \cup {r}]
          /\ SWGoes(e, next) /\ UNCHANGED etask
       \/ /\ \E made \in SUBSET {r} : cloud' = [cloud EXCEPT ![e] = @ \cup made]
          /\ Returns(e) /\ UNCHANGED sworker
       \/ /\ r \notin cloud[e] \/ r = "instance"
          /\ \E found \in SUBSET cloud[e] : Finds(e, found)
          /\ Returns(e) /\ UNCHANGED cloud
       \/ /\ r = "instance" /\ r \notin cloud[e]
          /\ sworker' = [sworker EXCEPT ![e].phase = "failed"]
          /\ Returns(e) /\ UNCHANGED cloud
    /\ UNCHANGED <<sexec, sdestroy, prepared, proc, started, swleft>>

(* waitRunning and the lease of the new Worker.                            *)
Boot(e) ==
    /\ srun[e].pc = "boot"
    /\ \/ /\ ~srun[e].cancelled
          /\ sworker' = [sworker EXCEPT ![e].phase = "busy", ![e].cur = e]
          /\ SWGoes(e, "leased") /\ UNCHANGED etask
       \/ Returns(e) /\ UNCHANGED sworker
    /\ UNCHANGED <<sexec, cloud, sdestroy, prepared, proc, started, swleft>>

(* The record of the execution follows the Worker's; if it cannot be saved *)
(* the Worker is given back.                                               *)
SaveLease(e) ==
    /\ srun[e].pc = "leased"
    /\ \/ /\ sexec' = [sexec EXCEPT ![e].phase = "running"]
          /\ SWGoes(e, "prepare") /\ UNCHANGED <<sworker, etask>>
       \/ sworker' \in {sworker, Released(e)} /\ Returns(e) /\ UNCHANGED sexec
    /\ UNCHANGED <<cloud, sdestroy, prepared, proc, started, swleft>>
-----------------------------------------------------------------------------
(* The remote process.                                                     *)

(* What a run leaves alone between its lease and its end.                  *)
AtWork == UNCHANGED <<sworker, cloud, sdestroy, swleft>>

(* The task root is emptied and filled, or one of the steps fails.         *)
Prepare(e) ==
    /\ srun[e].pc = "prepare"
    /\ proc' = [proc EXCEPT ![e] = "none"]
    /\ \/ /\ ~srun[e].cancelled
          /\ prepared' = prepared \cup {e} /\ SWGoes(e, "start")
       \/ prepared' = prepared \ {e} /\ SWGoes(e, "fail")
    /\ UNCHANGED <<sexec, started, etask>> /\ AtWork

(* A resumed run reports its progress before it looks at the process.      *)
Resume(e) ==
    /\ srun[e].pc = "resume"
    /\ \/ ~srun[e].cancelled /\ SWGoes(e, "wait")
       \/ SWGoes(e, "fail")
    /\ UNCHANGED <<sexec, prepared, proc, started, etask>> /\ AtWork

(* The call did not work, or it is not known whether it did.               *)
Ambiguous(e) ==
    IF srun[e].cancelled THEN SWGoes(e, "fail") /\ UNCHANGED etask ELSE ReturnsUncertain(e)

(* Late guidance is written first, then DispatchStart: the runner starts a *)
(* task root once.  A lost answer is reconciled by the runner's status, or *)
(* stays unknown.                                                          *)
Start(e) ==
    LET effect == e \in prepared /\ proc[e] = "none" IN
      /\ srun[e].pc = "start"
      /\ \/ /\ e \in prepared
            /\ proc' = [proc EXCEPT ![e] = IF effect THEN "running" ELSE @]
            /\ started' = [started EXCEPT ![e] = IF effect THEN @ + 1 ELSE @]
            /\ (SWGoes(e, "wait") /\ UNCHANGED etask) \/ Ambiguous(e)
         \/ (Ambiguous(e) \/ (SWGoes(e, "fail") /\ UNCHANGED etask)) /\ UNCHANGED <<proc, started>>
      /\ UNCHANGED <<sexec, prepared>> /\ AtWork

(* waitRuntime and RecordCompletion.  A cancelled run stops the process if *)
(* it can; so does one whose progress is refused by the task's fence.      *)
WaitRuntime(e) ==
    /\ srun[e].pc = "wait"
    /\ \/ /\ proc[e] = "running"
          /\ proc' = [proc EXCEPT ![e] = "ended"]
          /\ SWGoes(e, "fail") /\ UNCHANGED <<sexec, etask>>
       \/ Ambiguous(e) /\ UNCHANGED <<sexec, proc>>
       \/ /\ ~srun[e].cancelled /\ proc[e] = "none" /\ ~sexec[e].remote
          /\ SWGoes(e, "start") /\ UNCHANGED <<sexec, proc, etask>>
       \/ /\ ~srun[e].cancelled /\ proc[e] = "ended" /\ PoolFree /\ StillOwned(e)
          /\ sexec' = [sexec EXCEPT ![e].remote = TRUE]
          /\ SWGoes(e, "collect") /\ UNCHANGED <<proc, etask>>
    /\ UNCHANGED <<prepared, started>> /\ AtWork

(* The result is collected, and a service is published.  A failure to      *)
(* store what was read keeps the execution running but is not reported as  *)
(* uncertain; one to read it is; one that would come again fails it.       *)
Collect(e) ==
    /\ srun[e].pc = "collect"
    /\ \/ ~srun[e].cancelled /\ SWGoes(e, "complete") /\ UNCHANGED etask
       \/ ~srun[e].cancelled /\ (ReturnsUncertain(e) \/ Returns(e))
       \/ SWGoes(e, "fail") /\ UNCHANGED etask
    /\ UNCHANGED <<sexec, prepared, proc, started>> /\ AtWork

(* completeExecution, when no destruction took the Worker; the release may *)
(* fail without changing the result.                                       *)
CompleteAnyway(e) ==
    /\ srun[e].pc = "complete" /\ PoolFree
    /\ sexec' = [sexec EXCEPT ![e].phase = "completed"]
    /\ sworker' \in {sworker, Released(e)}
    /\ Returns(e)
    /\ UNCHANGED <<cloud, sdestroy, prepared, proc, started, swleft>>

CompleteExecution(e) ==
    /\ srun[e].pc = "complete" /\ PoolFree
    /\ \/ /\ StillOwned(e)
          /\ sexec' = [sexec EXCEPT ![e].phase = "completed"]
          /\ sworker' \in {sworker, Released(e)}
       \/ UNCHANGED <<sexec, sworker>>
    /\ Returns(e)
    /\ UNCHANGED <<cloud, sdestroy, prepared, proc, started, swleft>>

(* failExecution: both writes are tried.                                   *)
FailExecution(e) ==
    /\ srun[e].pc = "fail" /\ PoolFree
    /\ \E p \in {sexec[e].phase, "failed"} : sexec' = [sexec EXCEPT ![e].phase = p]
    /\ sworker' \in {sworker, Released(e)}
    /\ Returns(e)
    /\ UNCHANGED <<cloud, sdestroy, prepared, proc, started, swleft>>

(* The context of the run ends: its task was cancelled or its lease lost.  *)
CancelRun(e) ==
    /\ srun[e].pc # "none" /\ ~srun[e].cancelled
    /\ srun' = [srun EXCEPT ![e].cancelled = TRUE]
    /\ \E t \in {etask[e], "ended"} : etask' = [etask EXCEPT ![e] = t]
    /\ UNCHANGED <<sworker, sexec, cloud, sdestroy, prepared, proc, started, swleft>>

(* The process ends on its host.                                           *)
ProcessEnds(e) ==
    /\ proc[e] = "running"
    /\ proc' = [proc EXCEPT ![e] = "ended"]
    /\ UNCHANGED <<sworker, sexec, cloud, srun, sdestroy, prepared, started, etask, swleft>>
-----------------------------------------------------------------------------
(* Destroying a Worker.                                                    *)

SDGoes(w, pc) == sdestroy' = [sdestroy EXCEPT ![w].pc = pc]
SDReturns(w) == sdestroy' = [sdestroy EXCEPT ![w] = NoDestroy]

(* The runs of the Worker are cancelled before the pool's lock is taken.   *)
DestroyBegins(w) ==
    LET runs == {e \in SWExecs : SWTarget[e] = w /\ srun[e].pc # "none"} IN
      /\ sworker[w].phase # "none" /\ sdestroy[w].pc = "none" /\ swleft.destroys > 0
      /\ swleft' = [swleft EXCEPT !.destroys = @ - 1]
      /\ sdestroy' = [sdestroy EXCEPT ![w] = [pc |-> "fence", stopped |-> runs]]
      /\ srun' = [e \in SWExecs |->
                    IF e \in runs THEN [srun[e] EXCEPT !.cancelled = TRUE] ELSE srun[e]]
      /\ UNCHANGED <<sworker, sexec, cloud, prepared, proc, started, etask>>

(* The intent is saved, then the execution it ends.                        *)
DestroyFences(w) ==
    LET e == sworker[w].cur
        running == e # 0 /\ sexec[e].phase = "running" IN
      /\ sdestroy[w].pc = "fence" /\ PoolFree
      /\ IF sworker[w].phase = "destroyed" \/ sworker[w].gone
         THEN SDReturns(w) /\ UNCHANGED <<sworker, sexec>>
         ELSE /\ sworker' = [sworker EXCEPT ![w].phase = "destroying"]
              /\ \/ /\ sexec' = IF running THEN [sexec EXCEPT ![e].phase = "failed"] ELSE sexec
                    /\ SDGoes(w, "drain")
                 \/ running /\ SDReturns(w) /\ UNCHANGED sexec
      /\ UNCHANGED <<cloud, srun, prepared, proc, started, etask, swleft>>

(* The call fails, or its deadline comes.                                  *)
DestroyGivesUp(w) ==
    /\ sdestroy[w].pc # "none" /\ SDReturns(w)
    /\ UNCHANGED <<sworker, sexec, cloud, srun, prepared, proc, started, etask, swleft>>

(* The cancelled runs are waited for.                                      *)
DestroyDrains(w) ==
    /\ sdestroy[w].pc = "drain" /\ PoolFree
    /\ \A e \in sdestroy[w].stopped : srun[e].pc = "none"
    /\ SDGoes(w, IF sworker[w].known = Resources THEN "teardown" ELSE "discover")
    /\ UNCHANGED <<sworker, sexec, cloud, srun, prepared, proc, started, etask, swleft>>

(* A destruction that trusts the record.                                   *)
DestroyTrusts(w) ==
    /\ sdestroy[w].pc = "discover"
    /\ SDGoes(w, "teardown")
    /\ UNCHANGED <<sworker, sexec, cloud, srun, prepared, proc, started, etask, swleft>>

(* What was found is saved even when a lookup failed.                      *)
DestroyDiscovers(w) ==
    /\ sdestroy[w].pc = "discover" /\ PoolFree
    /\ \E found \in SUBSET cloud[w] :
          /\ Finds(w, found)
          /\ SDReturns(w) \/ (found = cloud[w] /\ SDGoes(w, "teardown"))
    /\ UNCHANGED <<sexec, cloud, srun, prepared, proc, started, etask, swleft>>

(* destroy: each known resource is removed on its own; the group only when *)
(* no instance uses it.                                                    *)
DestroyRemoves(w) ==
    LET known == sworker[w].known \cap cloud[w] IN
      /\ sdestroy[w].pc = "teardown"
      /\ \E removed \in SUBSET known :
            /\ "group" \in removed => "instance" \notin cloud[w] \ removed
            /\ cloud' = [cloud EXCEPT ![w] = @ \ removed]
            /\ proc' = [e \in SWExecs |->
                 IF SWTarget[e] = w /\ proc[e] = "running" /\ "instance" \in removed
                 THEN "ended" ELSE proc[e]]
            /\ SDReturns(w) \/ (removed = known /\ SDGoes(w, "mark"))
      /\ UNCHANGED <<sworker, sexec, srun, prepared, started, etask, swleft>>

DestroyMarks(w) ==
    /\ sdestroy[w].pc = "mark" /\ PoolFree
    /\ sworker' = IF sworker[w].phase = "destroying"
                  THEN [sworker EXCEPT ![w].gone = TRUE] ELSE sworker
    /\ SDReturns(w)
    /\ UNCHANGED <<sexec, cloud, srun, prepared, proc, started, etask, swleft>>

FinalizeWorkerDestroy(w) ==
    /\ PoolFree /\ sworker[w].phase = "destroying" /\ sworker[w].gone
    /\ sworker' = [sworker EXCEPT ![w].phase = "destroyed", ![w].cur = 0]
    /\ UNCHANGED <<sexec, cloud, srun, sdestroy, prepared, proc, started, etask, swleft>>

(* The process stops and starts again; files, AWS and the hosts remain.    *)
SSHCrash ==
    /\ swleft.crashes > 0
    /\ swleft' = [swleft EXCEPT !.crashes = @ - 1]
    /\ srun' = [e \in SWExecs |-> NoRun] /\ sdestroy' = [w \in SWWorkers |-> NoDestroy]
    /\ UNCHANGED <<sworker, sexec, cloud, prepared, proc, started, etask>>

SSHNext ==
    \/ \E e \in SWExecs :
          \/ RegisterExecution(e) \/ Lease(e) \/ SaveLease(e) \/ Prepare(e) \/ Resume(e)
          \/ Start(e) \/ WaitRuntime(e) \/ Collect(e) \/ CompleteExecution(e)
          \/ FailExecution(e) \/ CancelRun(e) \/ ProcessEnds(e)
    \/ \E w \in SWWorkers :
          \/ Provision(w, "key", "group") \/ Provision(w, "group", "instance")
          \/ Provision(w, "instance", "boot") \/ Boot(w)
          \/ DestroyBegins(w) \/ DestroyGivesUp(w) \/ DestroyFences(w) \/ DestroyDrains(w)
          \/ DestroyDiscovers(w) \/ DestroyRemoves(w) \/ DestroyMarks(w) \/ FinalizeWorkerDestroy(w)
    \/ SSHCrash

SSHSpec == SSHInit /\ [][SSHNext]_swVars
-----------------------------------------------------------------------------
SWTypeOK ==
    /\ sworker \in [SWWorkers ->
         [phase : {"none", "provisioning", "busy", "idle", "failed", "destroying", "destroyed"},
          cur : SWExecs \cup {0}, known : SUBSET Resources, gone : BOOLEAN]]
    /\ sexec \in [SWExecs -> [phase : {"none", "running", "completed", "failed"},
                              remote : BOOLEAN]]
    /\ proc \in [SWExecs -> {"none", "running", "ended"}]
    /\ etask \in [SWExecs -> {"live", "ended"}]

(* A run that works on a Worker is the one the Worker's record names,      *)
(* until a destruction takes the Worker.                                   *)
RunsHoldTheirWorker ==
    \A e \in SWExecs :
       srun[e].pc \in {"leased", "prepare", "resume", "start", "wait", "collect", "complete"} =>
          \/ sworker[SWTarget[e]].phase = "busy" /\ sworker[SWTarget[e]].cur = e
          \/ sworker[SWTarget[e]].phase \in {"destroying", "destroyed"}

(* checkCreateCapacity: the owner never has more instances than the limit, *)
(* whatever earlier runs left half made.                                   *)
CapacityKept == Cardinality({w \in SWWorkers : "instance" \in cloud[w]}) <= SWMaxWorkers

(* Execute and its resumption start at most one process of an execution,   *)
(* through crashes, lost answers and retries.                              *)
RemoteStartedOnce == \A e \in SWExecs : started[e] <= 1

(* DestroyWorkerResources: once a Worker is recorded as without resources, *)
(* AWS has none under its tags, also of a creation that was interrupted    *)
(* before it saved what it made.                                           *)
DestroyedLeavesNothing == \A w \in SWWorkers : sworker[w].gone => cloud[w] = {}

(* The shape of the records, who works on a Worker, how many there are and *)
(* what was started on them and is left of them (lease, acquire,           *)
(* releaseLocked, checkCreateCapacity, Execute, DestroyWorkerResources).   *)
SSHInv ==
    /\ SWTypeOK /\ RunsHoldTheirWorker /\ CapacityKept /\ RemoteStartedOnce
    /\ DestroyedLeavesNothing

(* releaseLocked, completeExecution and DestroyWorkerResources: a          *)
(* destruction is never undone by a late completion or release, and an     *)
(* execution that ended keeps its outcome.                                 *)
DestroyIsFinal ==
    [][/\ \A w \in SWWorkers :
             /\ sworker[w].phase = "destroying" => sworker'[w].phase \in {"destroying", "destroyed"}
             /\ sworker[w].phase = "destroyed" => sworker'[w] = sworker[w]
             /\ sworker[w].gone => sworker'[w].gone
       /\ \A e \in SWExecs :
             sexec[e].phase \in {"completed", "failed"} => sexec'[e].phase = sexec[e].phase
      ]_swVars
=============================================================================
