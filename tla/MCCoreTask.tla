----------------------------- MODULE MCCoreTask -----------------------------
(* Small instances of the store, under any callers, for TLC. *)
EXTENDS CoreTask, TLC

CONSTANTS t1, t2, t3, t4

\* The tasks a behaviour is about; the others are never created.
VARIABLE cast

castVars == <<storeVars, cast>>

\* store_accounting, first: an agent task with a deadline and its possible retry
\* compete for one slot.  Second: a confirmation-bound task and a Cloud Worker,
\* whose deadline the queue must not enforce.
CastKind == (t1 :> "agent") @@ (t2 :> "agent") @@ (t3 :> "extension") @@ (t4 :> "cloud_worker")
CastTimeout == (t1 :> 1) @@ (t2 :> 1) @@ (t3 :> 2) @@ (t4 :> 1)
Casts == {{t1, t2}, {t3, t4}}

CastInit == StoreInit /\ cast \in Casts

CastNext ==
    /\ StoreNext
    /\ \A t \in Tasks \ cast : status'[t] = "absent"
    /\ UNCHANGED cast

CastSpec == CastInit /\ [][CastNext]_castVars
=============================================================================
