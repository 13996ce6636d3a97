---------------------------- MODULE MCPvForecast ----------------------------
(* Instances of PvForecast for TLC: a day of six hours, of which three     *)
(* have sun; a whole answer, or one whose second day has a hole.           *)
EXTENDS PvForecast

Hole == {{}, {10}}
MorningToEvening == 3..5
EarlySun == 2..5
ServedForEightHours == ServedForCacheTtl(3)
=============================================================================
