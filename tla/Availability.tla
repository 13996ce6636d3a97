---------------------------- MODULE Availability ----------------------------
(***************************************************************************)
(* What the retained availability topic tells Home Assistant, without the  *)
(* add-on's tasks: "online" is only published by a running add-on, and an  *)
(* add-on that ends in good order, with the broker in reach to the last,   *)
(* leaves "offline" behind.  Lifecycle is shown to implement it.           *)
(***************************************************************************)
VARIABLES phase, status, reached

Phases == {"starting", "running", "stopping", "down", "dead"}
vars == <<phase, status, reached>>

Init == phase = "starting" /\ status = "none" /\ reached = FALSE

Connect == phase = "starting" /\ reached' = TRUE /\ UNCHANGED <<phase, status>>
Run     == phase = "starting" /\ phase' = "running" /\ UNCHANGED <<status, reached>>
Online  == phase = "running" /\ reached /\ status' = "online" /\ UNCHANGED <<phase, reached>>
Stop    == phase = "running" /\ phase' = "stopping" /\ UNCHANGED <<status, reached>>
Offline == phase = "stopping" /\ reached /\ status' = "offline" /\ UNCHANGED <<phase, reached>>
Down ==
  /\ phase = "stopping" /\ (reached => status = "offline")
  /\ phase' = "down"
  /\ UNCHANGED <<status, reached>>
Lose == reached' = FALSE /\ UNCHANGED <<phase, status>>
Die  == phase' = "dead" /\ UNCHANGED <<status, reached>>
Restart ==
  /\ phase \in {"down", "dead"} /\ phase' = "starting"
  /\ reached' = FALSE /\ UNCHANGED status

Next ==
  \/ Connect \/ Run \/ Online \/ Stop \/ Offline \/ Down \/ Lose \/ Die \/ Restart

Spec == Init /\ [][Next]_vars
=============================================================================
