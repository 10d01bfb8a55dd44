--------------------------- MODULE MCConfirmation ---------------------------
(* Small instances of Confirmation for TLC. *)
EXTENDS Confirmation, TLC

CONSTANTS t1, t2, x1

\* Two tasks about one target; one of them has a deadline.
PairKind == (t1 :> "extension") @@ (t2 :> "extension")
PairTimeout == (t1 :> 1) @@ (t2 :> 0)
PairTarget == (t1 :> x1) @@ (t2 :> x1)
=============================================================================
