--------------------------- MODULE MCMqttEntities ---------------------------
(* Instances of MqttEntities for TLC: a current limit that may only be      *)
(* negative, and a mode; a correction of the description makes the limit    *)
(* read-only and the mode a switch.                                         *)
EXTENDS MqttEntities
CONSTANTS Eco, Boost

Two == <<"limit", "mode">>
OwnSlugs == [p \in {"limit", "mode"} |-> p]
Texts == {Eco, Boost}

Description(writable, type, low, high, step, options) ==
  [writable |-> writable, type |-> type, low |-> low, high |-> high, step |-> step,
   options |-> options]
Of(limit, mode) == [p \in {"limit", "mode"} |-> IF p = "limit" THEN limit ELSE mode]

Entered == {-160, -155, 0, 50}
Emptied == {Empty}
Amperes == Description(TRUE, "INT", -160, 0, None, {})
Mode == Description(TRUE, "ENUM", None, None, None, {Eco, Boost})
Relay == Description(TRUE, "BOOLEAN", None, None, None, {})
Corrected == <<Of(Amperes, Mode),
               Of([Amperes EXCEPT !.writable = FALSE, !.type = "FLOAT"], Relay)>>
Returned == <<Of({-160}, {Eco}), Of({None}, {Yes, No})>>

\* The limit counts half amperes.
Halves == <<Of([Amperes EXCEPT !.step = 5], Mode)>>
=============================================================================
