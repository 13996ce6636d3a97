---------------------------- MODULE MCOptimizer -----------------------------
(* Instances of Optimizer for TLC: a day of four hours.                    *)
EXTENDS Optimizer

Span == 0..(MaxHour + Hours)
Noon == [h \in Span |-> IF h % Hours = 2 THEN 2 ELSE 0]
Glare == [h \in Span |-> IF h % Hours = 2 THEN 9 ELSE 0]

\* Prices that differ from hour to hour, one with a gap at its start.
Rising  == [h \in Span |-> h + 1]
Falling == [h \in Span |-> 9 - h]
Gappy   == [h \in Span |-> IF h % 3 = 0 THEN None ELSE (h % 2) * 3 + 1]
AllPrices == {Rising, Falling, Gappy}

\* A boiler with a night window, a heater that needs more hours than its
\* window has, a load for any time, a pump that needs no hours.
Boiler  == [min |-> 0, max |-> 2, must_run |-> 1, switchable |-> TRUE, window |-> <<3, 0>>]
Heater  == [min |-> 0, max |-> 2, must_run |-> 3, switchable |-> FALSE, window |-> <<1, 2>>]
AnyTime == [min |-> 0, max |-> 2, must_run |-> 2, switchable |-> TRUE, window |-> <<>>]
Pump    == [min |-> 0, max |-> 1, must_run |-> 0, switchable |-> FALSE, window |-> <<1, 2>>]

BoilerAndHeater == <<Boiler, Heater>>
OneLoad == <<AnyTime>>
FreeLoad == <<Pump>>
NoonOnly == {Noon}
NoonOrGlare == {Noon, Glare}
=============================================================================
