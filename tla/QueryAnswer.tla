----------------------------- MODULE QueryAnswer ------------------------------
(***************************************************************************)
(* What PGClient promises to the caller of query(): rows, then one answer, *)
(* an 'end' or an 'error', and nothing after it.  tickPgQuery and dbinit   *)
(* rely on it: each answer calls one callback, and vasync allows one call. *)
(***************************************************************************)
CONSTANT Queries

VARIABLE answer     (* the last event the caller of each query has seen     *)

Open == {"issued", "row"}

Init == answer = [q \in Queries |-> "none"]

Issue(q) ==
  /\ answer[q] = "none"
  /\ answer' = [answer EXCEPT ![q] = "issued"]

GiveRow(q) ==
  /\ answer[q] \in Open
  /\ answer' = [answer EXCEPT ![q] = "row"]

Settle(q) ==
  /\ answer[q] \in Open
  /\ \E event \in {"end", "error"} : answer' = [answer EXCEPT ![q] = event]

Next == \E q \in Queries : Issue(q) \/ GiveRow(q) \/ Settle(q)

Spec == Init /\ [][Next]_answer
=============================================================================
