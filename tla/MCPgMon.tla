------------------------------- MODULE MCPgMon -------------------------------
(* Instances of PgMon for TLC.  QuietSpec, DiscoverySpec and Spec are run  *)
(* with two backends, so that one index can be mistaken for another.       *)
EXTENDS PgMon

CONSTANTS a, b, c, q1, q2, t1, t2

Symmetry == Permutations({a, b}) \cup Permutations({t1, t2})
QuerySymmetry == Symmetry \cup Permutations({q1, q2})
BackendSymmetry == Permutations({a, b, c})

(* Backends that leave once, with none of their queries pending, so that   *)
(* no removal is forced; and announcements and setups between ticks.       *)
LeavingNext ==
  /\ MonitorStep \/ \E x \in Backends : Removed(x)
  /\ removals' = {}
  /\ \A x \in Backends : discovered[x] = "removed" => discovered'[x] = "removed"
  /\ (\E t \in Ticks : ticks[t] = "open") =>
       Len(pm_pools') <= Len(pm_pools) /\ UNCHANGED <<immediates, setups>>

LeavingSpec == Init /\ [][LeavingNext]_vars
=============================================================================
