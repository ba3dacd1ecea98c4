------------------------------ MODULE MCRecord -------------------------------
(* Instances of Record for TLC: rows with a statkey of their own, and rows  *)
(* that share one, as all rows of pg_stat_replication do.                   *)
EXTENDS Record, TLC

CONSTANTS r1, r2, k1, k2

OwnKeys == (r1 :> k1) @@ (r2 :> k2)
OneKey == [r \in {r1, r2} |-> k1]

(* Rows are exchanged together with their statkeys.                         *)
OwnKeysSymmetry == {(r1 :> r2) @@ (r2 :> r1) @@ (k1 :> k2) @@ (k2 :> k1)}
=============================================================================
