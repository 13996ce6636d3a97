--------------------------- MODULE MCRulesEngine ----------------------------
(* Instances of RulesEngine for TLC.                                       *)
EXTENDS RulesEngine

Always(S) == [t \in 0..MaxTime |-> S]
OneDay == [t \in 0..MaxTime |-> 0]
ShortDays == [t \in 0..MaxTime |-> t \div 3]

\* One heat pump whose rule always matches.
LockRules ==
  << [point |-> "hp", min_interval |-> 2, smooth |-> FALSE,
      targets |-> Always({"HP_LOCKED", "HP_NORMAL"})] >>
PumpInit == [{"hp"} -> {"HP_NORMAL"}]

\* A heat pump beside a virtual switch, whose min_interval is left at 0.
PumpRules ==
  << [point |-> "hp", min_interval |-> 2, smooth |-> FALSE,
      targets |-> Always({"HP_LOCKED", "HP_NORMAL", None})],
     [point |-> "q", min_interval |-> 0, smooth |-> FALSE,
      targets |-> [t \in 0..MaxTime |-> IF t % 4 < 2 THEN {"on"} ELSE {"off", None}]] >>
TwoInit == {[hp |-> "HP_NORMAL", q |-> "off"]}

\* A heat pump evaluated by the loop and by the web UI, and set over MQTT.
WebRules ==
  << [point |-> "hp", min_interval |-> 1, smooth |-> TRUE,
      targets |-> Always({"HP_LOCKED", "HP_NORMAL"})] >>
MqttCommands == {<<"hp", "HP_LOCKED">>}

\* A charger bound to the first car, one bound to none, whose discharges are
\* the first car's too, and one of a car that may give 0 A.
Down(min, max) == [v \in Negative |-> IF v = "-20" THEN max ELSE min]
Car(chargers, cycles, clamp) ==
  [charger |-> chargers, enabled |-> TRUE, grd |-> TRUE, cycles |-> cycles, clamp |-> clamp]
CarRules ==
  << [point |-> "c1", min_interval |-> 1, smooth |-> FALSE, targets |-> Always({"-20", "-6", "0"})],
     [point |-> "c2", min_interval |-> 1, smooth |-> FALSE, targets |-> Always({"-20", "0", None})],
     [point |-> "c3", min_interval |-> 1, smooth |-> FALSE, targets |-> Always({"-20"})] >>
Fleet == << Car({"c1"}, 2, Down("-6", "-6")), Car({"c3"}, 1, Down("0", "0")) >>
CarInit == [{"c1", "c2", "c3"} -> {"0"}]

\* A rule that discharges whenever it may, at one current or at two.
DischargeRules ==
  << [point |-> "c1", min_interval |-> 1, smooth |-> FALSE, targets |-> Always({"-20"})] >>
TrimRules ==
  << [point |-> "c1", min_interval |-> 1, smooth |-> FALSE, targets |-> Always({"-20", "-6"})] >>
OneCycle == << Car({"c1"}, 1, Down("-6", "-20")) >>

NoVehicles == <<>>
=============================================================================
