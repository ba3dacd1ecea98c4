---------------------------- MODULE BackendMetrics ----------------------------
(***************************************************************************)
(* What the monitor promises about the data of one backend, whatever       *)
(* happens to the others.  A backend is known from its announcement to its *)
(* withdrawal, and is polled once it has been set up, which happens once.  *)
(* While it is polled the last rows of each query are those of this very   *)
(* backend, and they go only when newer ones come or the backend leaves:   *)
(* record() can take differences to them.                                  *)
(***************************************************************************)
CONSTANTS Backends, Queries, None

VARIABLES
  known,      (* "absent", "waiting" for its setup, or "polled"             *)
  samples     (* per backend and query: whose rows are kept, or None        *)

vars == <<known, samples>>

NoSamples == [q \in Queries |-> None]

Init ==
  /\ known = [b \in Backends |-> "absent"]
  /\ samples = [b \in Backends |-> NoSamples]

Announce(b) ==
  /\ known[b] = "absent"
  /\ known' = [known EXCEPT ![b] = "waiting"]
  /\ UNCHANGED samples

Prepare(b) ==
  /\ known[b] = "waiting"
  /\ known' = [known EXCEPT ![b] = "polled"]
  /\ UNCHANGED samples

Keep(b, q) ==
  /\ known[b] = "polled"
  /\ samples' = [samples EXCEPT ![b][q] = b]
  /\ UNCHANGED known

Withdraw(b) ==
  /\ known[b] # "absent"
  /\ known' = [known EXCEPT ![b] = "absent"]
  /\ samples' = [samples EXCEPT ![b] = NoSamples]

Next ==
  \E b \in Backends :
    Announce(b) \/ Prepare(b) \/ Withdraw(b) \/ \E q \in Queries : Keep(b, q)

Spec == Init /\ [][Next]_vars
=============================================================================
