------------------------ MODULE MCExtensionExecution ------------------------
(* Small instances of ExtensionExecution for TLC. *)
EXTENDS ExtensionExecution, TLC

CONSTANTS t1, t2, x1, e1, e2

\* The requests a behaviour is about; the others are never made.
VARIABLE cast

PairKind == (t1 :> "extension") @@ (t2 :> "extension")
PairTimeout == (t1 :> 0) @@ (t2 :> 0)
PairTarget == (t1 :> x1) @@ (t2 :> x1)

\* One execution while the database fails, or two of one installation while it
\* does not: the second one needs the first to end, so it has less time.
CastInit == ExtInit /\ cast = IF faults THEN {t1} ELSE {t1, t2}

Horizon == IF faults THEN MaxTime ELSE MaxTime - 1

CastNext ==
    /\ ExtNext
    /\ now' <= Horizon
    /\ \A t \in Tasks \ cast : status'[t] = "absent"
    /\ UNCHANGED cast

CastSpec == CastInit /\ [][CastNext]_<<allVars, cast>>

\* Executors are interchangeable.
ExecutorSymmetry == Permutations({e1, e2})
=============================================================================
