---------------------------- MODULE BackendSetup -----------------------------
(***************************************************************************)
(* What the setup of one backend promises the rest of the monitor.  It is  *)
(* tried, one attempt at a time, until it succeeds once, which is final.   *)
(* From then on the backend has the role and the functions that its        *)
(* queries use, or it is a server that was found to be a standby.          *)
(***************************************************************************)
VARIABLES
  status,     (* "needs_setup", "setting_up" or "set_up"                    *)
  prepared,   (* the server has all that the backend's queries use          *)
  standby     (* the server was a standby when it was discovered            *)

vars == <<status, prepared, standby>>

Init ==
  /\ status = "needs_setup"
  /\ prepared \in BOOLEAN
  /\ standby \in BOOLEAN

Begin == status = "needs_setup" /\ status' = "setting_up"
Fail == status = "setting_up" /\ status' = "needs_setup"
Succeed ==
  /\ status = "setting_up"
  /\ prepared \/ standby
  /\ status' = "set_up"

(* What is created is never dropped, whoever creates it and however late.  *)
Next ==
  /\ Begin \/ Fail \/ Succeed \/ UNCHANGED status
  /\ prepared' \in {TRUE, prepared}
  /\ UNCHANGED standby

Spec == Init /\ [][Next]_vars
=============================================================================
