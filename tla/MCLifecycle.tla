---------------------------- MODULE MCLifecycle -----------------------------
(* Instances of Lifecycle for TLC.                                         *)
EXTENDS Lifecycle

\* A heat pump with one data point, a charger with one or two.
TwoPoints == <<"mode", "limit">>
TwoDevices == [p \in {"mode", "limit"} |-> IF p = "mode" THEN "pump" ELSE "charger"]
TwoSlugs == [p \in {"mode", "limit"} |-> p]

\* Two functional profiles of one meter with a data point of the same name.
MeterPoints == <<"import.power", "export.power">>
OneMeter == [p \in {"import.power", "export.power"} |-> "pump"]
OneSlug == [p \in {"import.power", "export.power"} |-> "power"]
=============================================================================
