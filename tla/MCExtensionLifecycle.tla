------------------------ MODULE MCExtensionLifecycle ------------------------
(* Small instances of ExtensionLifecycle for TLC. *)
EXTENDS ExtensionLifecycle, TLC

CONSTANTS t1, t2, t3, a1, a2, x1, x2, e1, e2

\* What a behaviour is about: the tasks that are created, how many executors
\* work and how far time goes.
VARIABLE cast

CastKind == [t \in Tasks |-> IF t \in {t1, t2, t3} THEN "extension" ELSE "agent"]
CastTimeout == [t \in Tasks |-> 0]
CastTarget == [t \in Tasks |-> IF t = t3 THEN x2 ELSE x1]
CastOperation ==
    (t1 :> "update") @@ (t2 :> "uninstall") @@ (t3 :> "install") @@ [t \in {a1, a2} |-> "none"]

\* Every version has an artifact of its own.
OwnDigest == [v \in Tasks \cup Targets |-> v]

\* Chain  : an update and the uninstall of one extension, in any order, by two
\*          executors, or by one over a time in which consents run out
\* NodeRetry : the uninstall of a Node extension beside an agent task and its retry
\* Pins   : the update or the uninstall of a Node extension beside an agent task
\* Beside : an extension is removed, another one takes its place and the first
\*          comes back
Cast(tasks, team, horizon, n, d) ==
    /\ cast = [tasks |-> tasks, team |-> team, horizon |-> horizon]
    /\ node = n /\ disturbances = d

Chain ==
    \/ Cast({t1, t2}, 2, 1, FALSE, {"database", "cancel"})
    \/ Cast({t1, t2}, 1, 2, FALSE, {"database", "cancel"})
NodeRetry == Cast({t2, a1, a2}, 1, 1, TRUE, {"database", "retry"})
Pins ==
    \/ Cast({t1, a1}, 2, 1, TRUE, {"database"})
    \/ Cast({t2, a1}, 1, 2, TRUE, {"database"})
Beside == Cast({t1, t2, t3}, 1, 1, FALSE, {"cancel"})

CastInit == LcInit /\ (Chain \/ NodeRetry \/ Pins \/ Beside)

\* What an uninstall reads is left out when the revision moves on before its
\* request: the request is refused then, and nothing else looks at what was read.
ReadFits(t) ==
    expected[t] # 0 =>
      /\ expected[t] = installation[Target[t]]
      /\ installed[Target[t]] \notin {"installing", "updating", "uninstalling"}

CastNext ==
    /\ LcNext
    /\ now' <= cast.horizon
    /\ Cardinality({e \in Executors : exec'[e].phase # "idle"}) <= cast.team
    /\ \A t \in Tasks \ cast.tasks : status'[t] = "absent" /\ expected'[t] = 0
    /\ \A t \in Tasks : status'[t] = "absent" => ReadFits(t)'
    /\ UNCHANGED cast

CastSpec == CastInit /\ [][CastNext]_<<allVars, cast>>

\* One uninstall by one executor, and nothing comes between.
UninstallSpec ==
    LcInit /\ Cast({t2}, 1, 2, FALSE, {}) /\ [][CastNext]_<<allVars, cast>>

\* Executors are interchangeable.
ExecutorSymmetry == Permutations(Executors)
=============================================================================
