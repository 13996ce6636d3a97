-------------------------- MODULE MCVirtualDevices --------------------------
(* Instances of VirtualDevices for TLC: files with one device of each type, *)
(* and files that are wrong in one way or another.                         *)
EXTENDS VirtualDevices

States == {"LOCKED", "FORCED", "UNKNOWN"}
Mapping(locked, normal, forced) ==
  [l \in {"LOCKED", "NORMAL", "FORCED"} |->
     IF l = "LOCKED" THEN locked ELSE IF l = "NORMAL" THEN normal ELSE forced]
BaseValues == {None, 22}

\* Two thermostats with an offset that leaves the limits, a relay, a tank and
\* an inverter limit with an entry that is no number.
Climate == [name |-> "d", type |-> "climate_proxy", targets |-> <<"living_room", "bedroom">>,
            mapping |-> Mapping(-3, 0, 5), base_setpoint_entity |-> Yes,
            min_setpoint |-> 18, max_setpoint |-> 24]
Relay == [name |-> "d", type |-> "switch_proxy", targets |-> <<"boiler", "pump">>,
          mapping |-> Mapping(OtherText, No, OnText)]
Tank == [name |-> "d", type |-> "boiler_proxy", targets |-> <<"tank", "other">>,
         mapping |-> Mapping(40, 50, 70), max_temperature |-> 60]
Inverter == [name |-> "d", type |-> "number_proxy", targets |-> <<"limit">>,
             mapping |-> Mapping(-10, OtherText, 90), min_value |-> -5, max_value |-> 50]

File(raw) == [kind |-> "mapping", raw |-> raw]
Only(vd) == File([virtual_devices |-> <<vd>>])
GoodFiles == {Only(Climate), Only(Relay), Only(Tank), Only(Inverter)}
House == File([virtual_devices |-> <<Null, Tank, [Climate EXCEPT !.name = Null], Inverter>>,
               devices |-> <<[name |-> "p", eid |-> Null], [name |-> "p", eid |-> "x", enabled |-> No]>>,
               rules |-> <<[device |-> "d", profile |-> "f", data_point |-> "x"]>>,
               vehicles |-> <<[v2h |-> <<>>]>>,
               pv_arrays |-> <<[kwp |-> OtherText], [kwp |-> 50, tilt |-> 30, efficiency |-> 0]>>,
               grid_connection_limit_w |-> OtherText,
               optimizer |-> [devices |-> <<[name |-> "boiler", max_power_w |-> 2000,
                                               preferred_window |-> <<22, 6>>]>>,
                              battery |-> [capacity_kwh |-> No], grid |-> <<>>]])
Broken == {[kind |-> "missing"], [kind |-> "no YAML"],
           File([virtual_devices |-> <<Climate>>,
                 vehicles |-> <<[battery_capacity_kwh |-> OtherText]>>])}
\* A scalar in the place of a section, of a list or of a mapping.
Scalar == {File([virtual_devices |-> <<Climate>>, rules |-> Yes]),
           File([virtual_devices |-> OtherText]),
           File([virtual_devices |-> <<Climate>>, vehicles |-> <<[v2h |-> Yes]>>]),
           File([virtual_devices |-> <<[Relay EXCEPT !.mapping = OtherText]>>]),
           File([virtual_devices |-> <<Climate>>, optimizer |-> [grid |-> Yes]]),
           File([virtual_devices |-> <<[Relay EXCEPT !.targets = OtherText]>>, optimizer |-> Yes])}
AllFiles == GoodFiles \cup {House} \cup Broken \cup Scalar

ZeroMaximum == {Only([Inverter EXCEPT !.max_value = 0])}
LowMaximum == {Only([Tank EXCEPT !.max_temperature = 40])}
=============================================================================
