------------------------- MODULE ExtensionLifecycle -------------------------
(***************************************************************************)
(* Installing, updating and uninstalling extensions with the owner's       *)
(* consent: core_extension_lifecycle_store.go (the request), _handler.go   *)
(* (the handler inside an executor of WorkerPool), _completion.go (the     *)
(* transaction that ends it, and the rollback of a consent that was        *)
(* refused) and core_extension_cleanup.go (retired Node artifacts).        *)
(*                                                                         *)
(* A request moves the installation to installing, updating or             *)
(* uninstalling and opens a lifecycle row; the handler publishes or        *)
(* removes the artifact in the runner, which no transaction covers, and    *)
(* then ends task, lifecycle, reservation and installation together.       *)
(* Agent tasks pin the version that was active when they were created.     *)
(* The executions of an extension are another module (ExtensionExecution): *)
(* that a request is also refused while one of them holds its reservation  *)
(* is left out, so more requests are admitted here.                        *)
(***************************************************************************)
EXTENDS WorkerPool, Confirmation

CONSTANTS
    Operation,      \* extension task -> "install", "update" or "uninstall"
    Seeded,         \* the installations that exist from the start
    Digest,         \* version -> the digest under which the runner keeps its artifact
    MaxInstallations

ASSUME LifecycleAssumption ==
    /\ Operation \in [Tasks -> {"none", "install", "update", "uninstall"}]
    /\ Seeded \subseteq Targets
    /\ DOMAIN Digest = Tasks \cup Targets
    /\ MaxInstallations \in Nat \ {0}

VARIABLES
    \* the columns of core_extension_installations
    installed, installation, active_version, proposed_version,
    lifecycle,      \* task -> core_extension_lifecycles.state
    expected,       \* task -> its expected_revision; before an uninstall is requested,
                    \* the revision its caller has read
    pin,            \* agent task -> the version in its execution snapshot
    handler,        \* executor -> where its handler stands, and the version it read
    published,      \* the digests whose artifact the runner has (external)
    cleanup,        \* the Node versions to be removed: core_extension_node_artifact_cleanup
    \* chosen once: whether artifacts are managed Node artifacts (stdio_node), and
    \* what may come between
    node, disturbances

\* "database" : a call of the database fails, or its reply is lost
\* "cancel"   : the owner cancels tasks
\* "retry"    : the owner retries agent tasks that have ended
Disturbance == {"database", "cancel", "retry"}

instVars == <<installed, installation, active_version, proposed_version>>
runnerVars == <<published, cleanup>>
lcVars == <<instVars, lifecycle, expected, pin, handler, runnerVars>>
setting == <<node, disturbances>>
allVars == <<poolVars, confVars, lcVars, setting>>

-----------------------------------------------------------------------------

\* A version is named by the task that proposed it, a seeded one by its installation.
Versions == Tasks \cup Targets
NoVersion == "none"

\* The identifiers of versions are distinct.
ASSUME VersionsAssumption == NoVersion \notin Versions /\ Tasks \cap Targets = {}

InstallState == {"absent", "installing", "installed", "updating", "uninstalling", "removed", "failed"}
Pc == {"idle", "get", "consume", "reacquire", "pinned", "promote", "complete", "fail", "promoted_fail"}

Lifecycles == {t \in Tasks : Operation[t] # "none"}

IdleHandler == [pc |-> "idle", version |-> NoVersion]

Goto(e, pc) == handler' = [handler EXCEPT ![e].pc = pc]
At(e, pc) == exec[e].phase = "handler" /\ handler[e].pc = pc
May(d) == d \in disturbances

\* The artifact the operation is about.
Subject(t) == IF Operation[t] = "uninstall" THEN active_version[Target[t]]
              ELSE proposed_version[Target[t]]

\* hasPinnedVersion: only tasks that can still execute pin; a snapshot without
\* extensions pins none.
hasPinnedVersion(v) ==
    /\ v # NoVersion
    /\ \E a \in Tasks : pin[a] = v /\ status[a] \in {"queued", "running", "waiting_user"}

Count == Cardinality({x \in Targets : installed[x] \notin {"absent", "removed", "failed"}})

-----------------------------------------------------------------------------
(* Requests *)

Transition == [install |-> "installing", update |-> "updating", uninstall |-> "uninstalling"]

\* The admission of a request: one install or update at a time, one lifecycle
\* per installation.
Admitted(t) ==
    /\ Operation[t] \in {"install", "update"} =>
         \A u \in Lifecycles : Operation[u] \in {"install", "update"} => lifecycle[u] # "pending"
    /\ \A u \in Lifecycles : lifecycle[u] = "pending" => Target[u] # Target[t]
    /\ Operation[t] = "install" => Count < MaxInstallations

\* RemoveMutation reads the installation and the pins of its active version
\* outside of any transaction; only the revision is compared in the request.
RemoveMutation(t) ==
    LET x == Target[t] IN
    /\ Operation[t] = "uninstall" /\ status[t] = "absent"
    /\ active_version[x] # NoVersion /\ ~hasPinnedVersion(active_version[x])
    /\ expected[t] # installation[x]
    /\ expected' = [expected EXCEPT ![t] = installation[x]]
    /\ UNCHANGED <<poolVars, confVars, instVars, lifecycle, pin, handler, runnerVars>>

\* The transaction of CreateMutation, updateMutation and RemoveMutation: the
\* task is inserted without an event.
request(t) ==
    LET x == Target[t]
        o == Operation[t] IN
    /\ t \in Lifecycles /\ status[t] = "absent"
    /\ o = "install" <=> installed[x] = "absent"
    /\ o = "uninstall" => expected[t] = installation[x]
    /\ Admitted(t)
    /\ installed' = [installed EXCEPT ![x] = Transition[o]]
    /\ installation' = [installation EXCEPT ![x] = @ + 1]
    /\ proposed_version' = [proposed_version EXCEPT ![x] = IF o = "uninstall" THEN @ ELSE t]
    /\ lifecycle' = [lifecycle EXCEPT ![t] = "pending"]
    /\ expected' = [expected EXCEPT ![t] = installation[x] + 1]
    /\ status' = [status EXCEPT ![t] = "waiting_user"]
    /\ available_at' = [available_at EXCEPT ![t] = now]
    /\ NewRevision(t)
    /\ state' = [state EXCEPT ![t] = "pending"]
    /\ expires_at' = [expires_at EXCEPT ![t] = now + ConfirmTTL]
    /\ binding' = [binding EXCEPT ![t] = installation[x] + 1]
    /\ current' = [current EXCEPT ![x] = installation[x] + 1]
    /\ UNCHANGED <<attempt, leaseVars, execution_deadline_at, progress_sequence, failure_code,
                   deleted, running_count, events, refs, now, exec, claiming, reservationVars,
                   active_version, pin, handler, runnerVars>>

\* resolveTaskSnapshotTx: an agent task pins the active version.
CreateAgent(a, x) ==
    /\ Kind[a] = "agent"
    /\ installed[x] = "installed"
    /\ CreateTask(a, "queued", now)
    /\ pin' = [pin EXCEPT ![a] = active_version[x]]
    /\ UNCHANGED <<exec, claiming, confVars, instVars, lifecycle, expected, handler, runnerVars>>

\* A retry copies the snapshot, whatever became of the installation.
RetryAgent(a, b) ==
    /\ May("retry")
    /\ RetryTask(a, b, now)
    /\ pin' = [pin EXCEPT ![b] = pin[a]]
    /\ UNCHANGED <<exec, claiming, confVars, instVars, lifecycle, expected, handler, runnerVars>>

-----------------------------------------------------------------------------
(* The rollback of a consent that was refused, ran out or lost its task *)

\* Where a lifecycle that did not succeed leaves the installation.
Restored(t) ==
    IF active_version[Target[t]] # NoVersion /\ Operation[t] # "install" THEN "installed" ELSE "failed"

\* Mutant: the installation is left where the request put it.
rollbackLifecycleOnly ==
    /\ lifecycle' = [t \in Tasks |-> IF lifecycle[t] = "pending" /\ Open(t) /\ state'[t] \in {"rejected", "expired"}
                                     THEN "failed" ELSE lifecycle[t]]
    /\ UNCHANGED <<instVars, expected, pin, runnerVars>>

\* rollbackExtensionLifecycleTx, in the transaction that ends the consent.
rollbackExtensionLifecycle ==
    LET over == {t \in Lifecycles : Open(t) /\ state'[t] \in {"rejected", "expired"}}
        hit == {Target[t] : t \in over} IN
    /\ lifecycle' = [t \in Tasks |-> IF t \in over THEN "failed" ELSE lifecycle[t]]
    /\ installed' = [x \in Targets |-> IF x \in hit THEN Restored(CHOOSE t \in over : Target[t] = x)
                                       ELSE installed[x]]
    /\ installation' = [x \in Targets |-> IF x \in hit THEN installation[x] + 1 ELSE installation[x]]
    /\ proposed_version' = [x \in Targets |-> IF x \in hit THEN NoVersion ELSE proposed_version[x]]
    /\ UNCHANGED <<active_version, expected, pin, runnerVars>>

\* The owner's answers and the sweeper.
OwnerAnswer(t, at) ==
    /\ t \in Lifecycles
    /\ Confirm(t, at) \/ Reject(t, at) \/ sweepExpiredConfirmation(t, at)
    /\ rollbackExtensionLifecycle
    /\ UNCHANGED <<exec, claiming, handler>>

-----------------------------------------------------------------------------
(* The handler *)

\* An error before the first side effect is returned as it is: persistTerminal
\* fails the task.
ReturnError(e) ==
    /\ exec' = [exec EXCEPT ![e].phase = "persist", ![e].outcome = "task_error"]
    /\ handler' = [handler EXCEPT ![e] = IdleHandler]

\* Nothing is left to write: the domain ended the task itself, or the error is
\* joined with context.Canceled and the lease is left to expire.
Leave(e) ==
    /\ Stop(e)
    /\ handler' = [handler EXCEPT ![e] = IdleHandler]

GetConfirmation(e) ==
    LET t == exec[e].fence.task IN
    /\ At(e, "get")
    /\ \/ state[t] = "confirmed" /\ Goto(e, "consume") /\ UNCHANGED exec
       \/ state[t] = "consumed" /\ Goto(e, "reacquire") /\ UNCHANGED exec
       \/ (May("database") \/ state[t] \notin {"confirmed", "consumed"}) /\ ReturnError(e)
    /\ UNCHANGED <<storeVars, claiming, confVars, instVars, lifecycle, expected, pin, runnerVars>>

\* An expired or stale consent has ended the task already.
ConsumeLifecycle(e, at) ==
    LET t == exec[e].fence.task IN
    /\ At(e, "consume")
    /\ Consume(exec[e].fence, at)
    /\ rollbackExtensionLifecycle
    /\ \/ state'[t] = "consumed" /\ Goto(e, "pinned") /\ UNCHANGED exec
       \/ state'[t] = "expired" /\ Leave(e)
       \/ May("database") /\ ReturnError(e)
    /\ UNCHANGED claiming

ConsumeRefused(e, at) ==
    LET f == exec[e].fence IN
    /\ At(e, "consume")
    /\ \/ May("database")
       \/ state[f.task] # "confirmed"
       \/ ~Expired(f.task, at) /\ ~FenceHolds(f, at)
    /\ ReturnError(e)
    /\ UNCHANGED <<storeVars, claiming, confVars, instVars, lifecycle, expected, pin, runnerVars>>

\* A reclaimed worker moves the reservation to its own lease.
reacquireLifecycleReservation(e, at) ==
    LET f == exec[e].fence
        mine == [attempt |-> f.attempt, epoch |-> f.epoch, revision |-> f.revision] IN
    /\ At(e, "reacquire")
    /\ \/ /\ state[f.task] = "consumed" /\ f.task \notin consumed_released
          /\ FenceHolds(f, at)
          /\ reservation[f.task].epoch <= f.epoch
          /\ reservation' = [reservation EXCEPT ![f.task] = mine]
          /\ active' = active \cup {f.task}
          /\ \/ Goto(e, "pinned") /\ UNCHANGED exec
             \/ May("database") /\ ReturnError(e)
       \/ /\ May("database") \/ ~FenceHolds(f, at) \/ f.task \in consumed_released
          /\ ReturnError(e)
          /\ UNCHANGED <<reservation, active>>
    /\ UNCHANGED <<storeVars, claiming, state, expires_at, binding, consumed_released, current,
                   instVars, lifecycle, expected, pin, runnerVars>>

\* Mutant: the versions that tasks still need are not looked for.
CheckNothing(e) ==
    LET t == exec[e].fence.task
        gone == Operation[t] = "uninstall" IN
    /\ At(e, "pinned")
    /\ handler' = [handler EXCEPT ![e] = [pc |-> IF node /\ gone THEN "complete" ELSE "promote",
                                         version |-> Subject(t)]]
    /\ UNCHANGED <<poolVars, confVars, instVars, lifecycle, expected, pin, runnerVars>>

\* Mutant: a Node artifact is removed before the uninstall commits.
CheckThenRemove(e) ==
    LET t == exec[e].fence.task IN
    /\ At(e, "pinned")
    /\ \E pc \in {"promote", "fail"} :
         /\ pc = "promote" => Subject(t) # NoVersion
         /\ pc = "fail" => May("database") \/ Subject(t) = NoVersion
         /\ handler' = [handler EXCEPT ![e] = [pc |-> pc, version |-> Subject(t)]]
    /\ UNCHANGED <<poolVars, confVars, instVars, lifecycle, expected, pin, runnerVars>>

\* publishedNodeVersionsForRemoval: what is published of a Node extension is its
\* active version and those whose artifact is still to be removed.
publishedNodeVersions(x) ==
    {active_version[x]} \cup {v \in cleanup : v = x \/ (v \in Tasks /\ Target[v] = x)}

\* The installation is read.  What success would retire must not be pinned: the
\* published versions of a Node extension, the active one of another extension
\* that is uninstalled.  An error of that query counts as pinned.
CheckPinned(e) ==
    LET t == exec[e].fence.task
        gone == Operation[t] = "uninstall"
        retires == gone \/ (node /\ Operation[t] = "update")
        retired == IF node THEN publishedNodeVersions(Target[t]) ELSE {active_version[Target[t]]}
        refused == retires /\ \E v \in retired : hasPinnedVersion(v) IN
    /\ At(e, "pinned")
    /\ \E pc \in {"promote", "complete", "fail"} :
         /\ pc = "promote" => ~refused /\ ~(node /\ gone) /\ Subject(t) # NoVersion
         /\ pc = "complete" => ~refused /\ node /\ gone
         /\ pc = "fail" => refused \/ (retires /\ May("database")) \/ Subject(t) = NoVersion
         /\ handler' = [handler EXCEPT ![e] = [pc |-> pc, version |-> Subject(t)]]
    /\ UNCHANGED <<poolVars, confVars, instVars, lifecycle, expected, pin, runnerVars>>

\* The call of the runner; it is idempotent.  An error may come after the
\* effect.  A staged bundle that does not fit its receipt is refused for good,
\* even when an earlier attempt has published it.
Promote(e) ==
    LET gone == Operation[exec[e].fence.task] = "uninstall"
        digest == Digest[handler[e].version]
        effect == IF gone THEN published \ {digest} ELSE published \cup {digest} IN
    /\ At(e, "promote")
    /\ \/ published' = effect /\ Goto(e, "complete") /\ UNCHANGED exec
       \/ published' \in {published, effect} /\ Leave(e)
       \/ ~gone /\ published' = published /\ Goto(e, "fail") /\ UNCHANGED exec
    /\ UNCHANGED <<storeVars, claiming, confVars, instVars, lifecycle, expected, pin, cleanup>>

\* The fence of completeLifecycle: the lease by attempt, epoch and revision,
\* not by its expiry, the reservation, and the revision of the installation.
MayComplete(f) ==
    /\ installation[Target[f.task]] = expected[f.task]
    /\ status[f.task] = "running"
    /\ attempt[f.task] = f.attempt /\ lease_epoch[f.task] = f.epoch /\ revision[f.task] = f.revision
    /\ state[f.task] = "consumed" /\ f.task \in active
    /\ reservation[f.task].attempt = f.attempt /\ reservation[f.task].epoch = f.epoch

\* The rows that success and failure write alike.
EndLifecycle(f, s) ==
    LET t == f.task IN
    /\ status' = [status EXCEPT ![t] = s]
    /\ failure_code' = [failure_code EXCEPT ![t] = IF s = "failed" THEN "task_error" ELSE ""]
    /\ DropLease(t)
    /\ NewRevision(t)
    /\ AppendEvent(t, s, f.epoch)
    /\ active' = active \ {t}
    /\ consumed_released' = consumed_released \cup {t}
    /\ lifecycle' = [lifecycle EXCEPT ![t] = s]
    /\ installation' = [installation EXCEPT ![Target[t]] = @ + 1]
    /\ proposed_version' = [proposed_version EXCEPT ![Target[t]] = NoVersion]
    /\ UNCHANGED <<attempt, lease_epoch, available_at, execution_deadline_at, deleted,
                   running_count, refs, now, state, expires_at, binding, reservation, current>>

\* validateExtensionPromotionQuotaTx; the storage of Node artifacts may be full.
QuotaRefuses(t) == Operation[t] # "uninstall" /\ (node \/ Count > MaxInstallations)

\* completeLifecycle of a success; retirePublishedNodeVersionsTx leaves a row
\* for every Node version that is not kept.
completeSuccess(f) ==
    LET x == Target[f.task]
        gone == Operation[f.task] = "uninstall"
        kept == IF gone THEN NoVersion ELSE proposed_version[x] IN
    /\ MayComplete(f)
    /\ EndLifecycle(f, "succeeded")
    /\ installed' = [installed EXCEPT ![x] = IF gone THEN "removed" ELSE "installed"]
    /\ active_version' = [active_version EXCEPT ![x] = kept]
    /\ cleanup' = IF node /\ active_version[x] \notin {NoVersion, kept}
                  THEN cleanup \cup {active_version[x]} ELSE cleanup
    /\ UNCHANGED published

\* completeLifecycle of a failure; a promoted Node artifact gets its row.
completeFailure(f, promoted) ==
    LET x == Target[f.task] IN
    /\ MayComplete(f)
    /\ EndLifecycle(f, "failed")
    /\ installed' = [installed EXCEPT ![x] = Restored(f.task)]
    /\ cleanup' = IF promoted THEN cleanup \cup {proposed_version[x]} ELSE cleanup
    /\ UNCHANGED <<active_version, published>>

\* CompleteLifecycle commits, meets a full quota, or fails and is left to a reclaim.
Complete(e) ==
    LET f == exec[e].fence
        t == f.task IN
    /\ At(e, "complete")
    /\ \/ (QuotaRefuses(t) => node) /\ completeSuccess(f) /\ Leave(e)
       \/ /\ QuotaRefuses(t) /\ MayComplete(f)
          /\ Goto(e, IF node THEN "promoted_fail" ELSE "fail")
          /\ published' = IF node THEN published ELSE published \ {Digest[handler[e].version]}
          /\ UNCHANGED <<exec, storeVars, confVars, instVars, lifecycle, cleanup>>
       \/ /\ QuotaRefuses(t) /\ MayComplete(f) /\ ~node
          /\ Leave(e)
          /\ UNCHANGED <<storeVars, confVars, instVars, lifecycle, runnerVars>>
       \/ /\ May("database") \/ ~MayComplete(f)
          /\ Leave(e)
          /\ UNCHANGED <<storeVars, confVars, instVars, lifecycle, runnerVars>>
    /\ UNCHANGED <<claiming, expected, pin>>

\* completeLifecycleFailure and completePromotedLifecycleFailure.
CompleteFails(e) ==
    LET f == exec[e].fence IN
    /\ At(e, "fail") \/ At(e, "promoted_fail")
    /\ \/ completeFailure(f, handler[e].pc = "promoted_fail")
       \/ /\ May("database") \/ ~MayComplete(f)
          /\ UNCHANGED <<storeVars, confVars, instVars, lifecycle, runnerVars>>
    /\ Leave(e)
    /\ UNCHANGED <<claiming, expected, pin>>

\* sweepNode: a row whose version is neither active nor proposed is removed from
\* the runner; the row is finalized then, or found again by a later sweep.
sweepNode(v) ==
    /\ v \in cleanup
    /\ \A x \in Targets : v \notin {active_version[x], proposed_version[x]}
    /\ published' = published \ {Digest[v]}
    /\ cleanup' \in {cleanup, cleanup \ {v}}
    /\ UNCHANGED <<poolVars, confVars, instVars, lifecycle, expected, pin, handler>>

-----------------------------------------------------------------------------
(* The pool around the handler *)

\* Agent tasks are run by another handler, which only returns.
PoolStep ==
    /\ \/ /\ \E t \in Tasks : CancelTask(t) /\ May("cancel")
          /\ UNCHANGED <<exec, claiming>>
       \/ Tick /\ UNCHANGED <<exec, claiming>>
       \/ ClaimNext
       \/ Crash
       \/ \E e \in Executors :
            /\ \/ \E at \in Clock : Renew(e, at) \/ TerminalWrite(e, at)
               \/ HandlerCanceled(e)
               \/ Kind[exec[e].fence.task] = "agent" /\ HandlerReturns(e, "task_error")
               \/ (May("database") \/ ~FenceHolds(exec[e].fence, now)) /\ TerminalWriteFails(e)
               \/ Reread(e) \/ GiveUp(e)
            /\ UNCHANGED claiming
    /\ handler' = [e \in Executors |->
                     IF exec'[e].phase # "handler" THEN IdleHandler
                     ELSE IF exec[e].phase # "handler" /\ exec'[e].fence.task \in Lifecycles
                     THEN [pc |-> "get", version |-> NoVersion]
                     ELSE handler[e]]
    /\ terminalizeConfirmationForTask
    /\ rollbackExtensionLifecycle

LcInit ==
    /\ PoolInit /\ ConfInit
    /\ installed = [x \in Targets |-> IF x \in Seeded THEN "installed" ELSE "absent"]
    /\ installation = [x \in Targets |-> IF x \in Seeded THEN 1 ELSE 0]
    /\ active_version = [x \in Targets |-> IF x \in Seeded THEN x ELSE NoVersion]
    /\ proposed_version = [x \in Targets |-> NoVersion]
    /\ lifecycle = [t \in Tasks |-> "none"]
    /\ expected = [t \in Tasks |-> 0]
    /\ pin = [t \in Tasks |-> NoVersion]
    /\ handler = [e \in Executors |-> IdleHandler]
    /\ published = {Digest[x] : x \in Seeded}
    /\ cleanup = {}
    \* a Node artifact is stored under the digest of its version
    /\ node \in {n \in BOOLEAN : n => \A v, w \in Versions : Digest[v] = Digest[w] => v = w}
    /\ disturbances \in SUBSET Disturbance

HandlerNext(e) ==
    \/ GetConfirmation(e) \/ CheckPinned(e) \/ Promote(e) \/ Complete(e) \/ CompleteFails(e)
    \/ \E at \in Clock :
         ConsumeLifecycle(e, at) \/ ConsumeRefused(e, at) \/ reacquireLifecycleReservation(e, at)

LcStep ==
    \/ \E t \in Tasks : RemoveMutation(t) \/ request(t)
    \/ \E a \in Tasks, x \in Targets : CreateAgent(a, x)
    \/ \E a, b \in Tasks : RetryAgent(a, b)
    \/ \E t \in Tasks, at \in Clock : OwnerAnswer(t, at)
    \/ \E e \in Executors : HandlerNext(e)
    \/ \E v \in Versions : sweepNode(v)
    \/ PoolStep

LcNext == LcStep /\ UNCHANGED setting

LcSpec == LcInit /\ [][LcNext]_allVars

-----------------------------------------------------------------------------
(* Properties *)

\* Executors, confirmations, installations and lifecycles have their types.
LcTypeOK ==
    /\ ConfTypeOK
    /\ exec \in [Executors -> ExecState]
    /\ installed \in [Targets -> InstallState]
    /\ installation \in [Targets -> Nat]
    /\ active_version \in [Targets -> Versions \cup {NoVersion}]
    /\ proposed_version \in [Targets -> Versions \cup {NoVersion}]
    /\ lifecycle \in [Tasks -> {"none", "pending", "succeeded", "failed"}]
    /\ expected \in [Tasks -> Nat]
    /\ pin \in [Tasks -> Versions \cup {NoVersion}]
    /\ handler \in [Executors -> [pc : Pc, version : Versions \cup {NoVersion}]]
    /\ published \subseteq {Digest[v] : v \in Versions}
    /\ cleanup \subseteq Versions

\* An installation is on its way exactly while one lifecycle of it is open, that
\* lifecycle expects its present revision, and only it may hold a proposal: a
\* crash, a refusal or a reclaim never leaves the two rows apart.
InstallationFollowsLifecycle ==
    \A x \in Targets :
      LET open == {t \in Lifecycles : Target[t] = x /\ lifecycle[t] = "pending"} IN
      /\ Cardinality(open) <= 1
      /\ installed[x] \in {"installing", "updating", "uninstalling"} <=> open # {}
      /\ \A t \in open : installed[x] = Transition[Operation[t]] /\ installation[x] = expected[t]
      /\ open = {} => proposed_version[x] = NoVersion

\* "one active install/update lifecycle" (core-v1-development-spec.md:784-785)
OneInstallAtATime ==
    Cardinality({t \in Lifecycles : Operation[t] \in {"install", "update"}
                                    /\ lifecycle[t] = "pending"}) <= 1

\* Types, the two rows of a lifecycle never part, and one install is open.
LcInv == LcTypeOK /\ InstallationFollowsLifecycle /\ OneInstallAtATime

\* What is installed can be run: the runner has the artifact of the active
\* version of a Node extension, whatever was published, removed, retried or
\* cleaned up on the way.  (Other artifacts are removed before the uninstall
\* commits: for them a failed query of pins, a retried agent task or a shared
\* digest leaves an installed extension without its artifact.)
InstalledIsPublished ==
    node => \A x \in Targets : installed[x] = "installed" => Digest[active_version[x]] \in published

\* "Only a task that can still execute owns an artifact pin"
\* (core_extension_lifecycle_store.go:154): as long as it can, the artifact it
\* pins is there, whatever is updated or uninstalled meanwhile.  (A retry pins
\* its old version again without looking for it.  And the artifact of another
\* kind of extension is removed before the uninstall commits: an executor that
\* has lost its lease may still remove it after its successor gave the uninstall
\* up and an agent task pinned the version anew.)
PinnedStaysPublished ==
    node /\ ~May("retry") =>
    \A a \in Tasks :
      pin[a] # NoVersion /\ status[a] \in {"queued", "running", "waiting_user"}
      => Digest[pin[a]] \in published

\* A lifecycle whose task has ended is settled, or its consent is still open and
\* the sweeper will settle it: no ended task keeps installations blocked.  No run
\* checks it: it is false of the code (see the README).
LifecycleSettles ==
    \A t \in Lifecycles : status[t] \in Terminal => lifecycle[t] # "pending" \/ Open(t)

=============================================================================
