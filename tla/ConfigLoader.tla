---------------------------- MODULE ConfigLoader ----------------------------
(***************************************************************************)
(* load_user_config of config_loader.py: what the YAML file of the user    *)
(* becomes, and what becomes of a section that cannot be read.             *)
(*                                                                         *)
(* A YAML scalar is an integer or one of five values: Null, the booleans   *)
(* Yes and No, a text for "on", any other text.  A mapping is a function   *)
(* from the keys it has; a key with an empty text counts as missing, and   *)
(* `targets' and `mapping' stand for the keys of the type of the device.   *)
(* Names and entities are values of their own; the defaults are those of   *)
(* the code in the units the sections use (tenths for PV and for shares of *)
(* a battery).  A section is a function on the positions in the file of    *)
(* the entries that are kept: their order is what the code looks at.       *)
(* Where a list or a mapping belongs there may be one of the five (there   *)
(* an integer does what a boolean does).                                   *)
(***************************************************************************)
EXTENDS Integers, Sequences, FiniteSets

CONSTANTS
  Null, Yes, No, OnText, OtherText,
  Raises       \* a ValueError or TypeError nobody catches: the add-on ends

Scalars == {Null, Yes, No, OnText, OtherText}

ASSUME ConfigLoaderAssumption == Cardinality(Scalars) = 5 /\ Scalars \cap Int = {}

-----------------------------------------------------------------------------
(* Python's readings of a value.                                           *)

Get(entry, key, default) == IF key \in DOMAIN entry THEN entry[key] ELSE default
Given(entry, key) == key \in DOMAIN entry /\ entry[key] # Null
Truthy(x) == x \notin {Null, No, 0}

(* float(entry.get(key, default) or default), and int() alike.             *)
IsNumber(x) == x \in {Yes, No} \cup Int
Number(x) == IF x = Yes THEN 1 ELSE IF x = No THEN 0 ELSE x
OrDefault(entry, key, default) ==
  LET x == Get(entry, key, default)
  IN  IF ~Truthy(x) THEN default ELSE IF IsNumber(x) THEN Number(x) ELSE Raises

(* float(entry.get(key, default)): no default for what is there.           *)
Cast(entry, key, default) ==
  LET x == Get(entry, key, default) IN IF IsNumber(x) THEN Number(x) ELSE Raises

(* list(entry.get(key) or []) and dict(entry.get(key) or {}), or a loop    *)
(* over them: the list of a text is that of its characters.                *)
Characters == <<OtherText, OtherText>>
ScalarAt(entry, key) == Given(entry, key) /\ entry[key] \in Scalars \ {No}
PartAt(entry, key) == IF Given(entry, key) /\ entry[key] # No THEN entry[key] ELSE <<>>
ListAt(entry, key) ==
  IF ~ScalarAt(entry, key) THEN PartAt(entry, key)
  ELSE IF entry[key] = Yes THEN Raises ELSE Characters
MappingAt(entry, key) == IF ScalarAt(entry, key) THEN Raises ELSE PartAt(entry, key)

Fails(f) == \E k \in DOMAIN f : f[k] = Raises

(* A list: entries that are dropped, and the failure of any other.         *)
Entries(raw, Keep(_), Read(_)) ==
  LET kept == {i \in DOMAIN raw : raw[i] \notin Scalars /\ Keep(raw[i])}
      read == [i \in kept |-> Read(raw[i])]
  IN  IF raw = Raises THEN Raises
      ELSE IF \E i \in kept : Fails(read[i]) THEN Raises ELSE read

-----------------------------------------------------------------------------
(* The sections.                                                           *)

ReadDevices(raw) ==
  Entries(raw, LAMBDA d : Given(d, "name") /\ Given(d, "eid"),
          LAMBDA d : [name |-> d.name, eid |-> d.eid, enabled |-> Truthy(Get(d, "enabled", Yes)),
                      evse_safety |-> MappingAt(d, "evse_safety")])

ReadRules(raw) ==
  Entries(raw,
          LAMBDA r : \A k \in {"device", "profile", "data_point"} : Given(r, k),
          LAMBDA r : [device |-> r.device, min_interval |-> Cast(r, "min_interval", 15),
                      conditions |-> ListAt(r, "conditions")])

(* str(entry.get("name", "")): a null is the text None.                    *)
NameOf(entry, default) ==
  IF Get(entry, "name", default) = Null THEN "None" ELSE Get(entry, "name", default)

ReadVehicles(raw) ==
  Entries(raw, LAMBDA v : TRUE,
          LAMBDA v : [name |-> NameOf(v, "ev"),
                      charger_device |-> Get(v, "charger_device", Null),
                      battery_capacity_kwh |-> OrDefault(v, "battery_capacity_kwh", 0),
                      v2h |-> MappingAt(v, "v2h")])

(* An array without a power is dropped; its other numbers have to be some. *)
ReadPvArrays(raw) ==
  Entries(raw,
          LAMBDA a : LET kwp == OrDefault(a, "kwp", 0) IN kwp # Raises /\ kwp > 0,
          LAMBDA a : [kwp |-> OrDefault(a, "kwp", 0),
                      tilt |-> IF Get(a, "tilt", Null) = Null THEN Null ELSE Cast(a, "tilt", 0),
                      efficiency |-> OrDefault(a, "efficiency", 8),
                      enabled |-> Truthy(Get(a, "enabled", Yes))])

(* The mapping of a virtual device: a switch takes any value, the others   *)
(* drop what is no number.                                                 *)
Proxies == {"climate_proxy", "switch_proxy", "boiler_proxy", "number_proxy"}
SwitchValue(x) == IF x \in {Yes, OnText} \/ (x \in Int /\ x # 0) THEN 1 ELSE 0
MappingOf(type, raw) ==
  IF raw = Raises THEN Raises
  ELSE IF type = "switch_proxy" THEN [l \in DOMAIN raw |-> SwitchValue(raw[l])]
  ELSE [l \in {k \in DOMAIN raw : IsNumber(raw[k])} |-> Number(raw[l])]

GenericRange(vd) ==              \* mutant: one pair of keys for every type
  [min_value |-> OrDefault(vd, "min_value", 0), max_value |-> OrDefault(vd, "max_value", 100)]
RangeOf(vd) ==
  IF vd.type = "boiler_proxy"
  THEN [min_value |-> OrDefault(vd, "min_temperature", 45),
        max_value |-> OrDefault(vd, "max_temperature", 65)]
  ELSE [min_value |-> OrDefault(vd, "min_value", 0),
        max_value |-> OrDefault(vd, "max_value", 100)]

(* The one target of a boiler may be anything.                             *)
TargetsOf(vd) ==
  IF vd.type # "boiler_proxy" THEN ListAt(vd, "targets")
  ELSE IF ScalarAt(vd, "targets") THEN <<vd.targets>> ELSE SubSeq(PartAt(vd, "targets"), 1, 1)

ReadVirtualDevices(raw) ==
  Entries(raw,
          LAMBDA vd : /\ Get(vd, "type", Null) \in Proxies /\ "name" \in DOMAIN vd
                      /\ Truthy(Get(vd, "enabled", Yes)) /\ TargetsOf(vd) # <<>>,
          LAMBDA vd : [name |-> NameOf(vd, ""), type |-> vd.type,
                       targets |-> TargetsOf(vd),
                       mapping |-> MappingOf(vd.type, MappingAt(vd, "mapping")),
                       base |-> OrDefault(vd, "base_setpoint_default", 21),
                       live |-> Given(vd, "base_setpoint_entity"),
                       min_setpoint |-> OrDefault(vd, "min_setpoint", 16),
                       max_setpoint |-> OrDefault(vd, "max_setpoint", 24),
                       min_value |-> RangeOf(vd).min_value,
                       max_value |-> RangeOf(vd).max_value])

(* A number at the top level that is none counts as 0.                     *)
Limit(raw, key) == LET x == OrDefault(raw, key, 0) IN IF x = Raises THEN 0 ELSE x

ReadLoads(raw) ==
  Entries(raw, LAMBDA d : Given(d, "name"),
          LAMBDA d : [name |-> d.name, min |-> OrDefault(d, "min_power_w", 0),
                      max |-> OrDefault(d, "max_power_w", 3000),
                      must_run |-> OrDefault(d, "must_run_hours", 0),
                      priority |-> OrDefault(d, "priority", 50),
                      switchable |-> Truthy(Get(d, "switchable", No)),
                      volts |-> OrDefault(d, "voltage", 230), phases |-> OrDefault(d, "phases", 1),
                      window |-> LET w == PartAt(d, "preferred_window")
                                 IN  IF w \in Scalars \/ Len(w) # 2 THEN <<>>
                                     ELSE IF IsNumber(w[1]) /\ IsNumber(w[2]) THEN w ELSE Raises])

(* The optimizer: capacity and import limit default to those of the house. *)
Battery(raw, capacity) ==
  [capacity_kwh |-> LET x == Get(raw, "capacity_kwh", capacity)
                    IN  IF ~Truthy(x) THEN 0 ELSE IF IsNumber(x) THEN Number(x) ELSE Raises,
   max_charge_w |-> OrDefault(raw, "max_charge_w", 0),
   max_discharge_w |-> OrDefault(raw, "max_discharge_w", 0),
   soc_min_pct |-> OrDefault(raw, "soc_min_pct", 100),
   soc_max_pct |-> OrDefault(raw, "soc_max_pct", 950)]

Grid(raw, limit) ==
  [pcc_import_w |-> OrDefault(raw, "pcc_import_w", IF limit = 0 THEN 25000 ELSE limit),
   pcc_export_w |-> OrDefault(raw, "pcc_export_w", 12000),
   export_price |-> OrDefault(raw, "export_price_chf_kwh", 8)]

Empty ==
  [devices |-> <<>>, rules |-> <<>>, vehicles |-> <<>>, pv_arrays |-> <<>>,
   virtual_devices |-> <<>>, loads |-> <<>>, battery |-> Battery(<<>>, 0), grid |-> Grid(<<>>, 0)]

(* An optimizer section that is no mapping is none.                        *)
ReadOptimizer(opt, capacity, limit) ==
  IF opt \in Scalars THEN [loads |-> <<>>, battery |-> Empty.battery, grid |-> Empty.grid]
  ELSE LET battery == MappingAt(opt, "battery")
           grid == MappingAt(opt, "grid")
       IN  [loads |-> ReadLoads(ListAt(opt, "devices")),
            battery |-> IF battery = Raises THEN Raises ELSE Battery(battery, capacity),
            grid |-> IF grid = Raises THEN Raises ELSE Grid(grid, limit)]

(* The file: missing, no YAML, no mapping, or the mapping `raw'.           *)
LoadUserConfig(file) ==
  IF file.kind # "mapping" THEN Empty
  ELSE LET List(key) == ListAt(file.raw, key)
           opt == ReadOptimizer(PartAt(file.raw, "optimizer"),
                                Limit(file.raw, "battery_capacity_kwh"),
                                Limit(file.raw, "grid_connection_limit_w"))
           config == [devices |-> ReadDevices(List("devices")), rules |-> ReadRules(List("rules")),
                      vehicles |-> ReadVehicles(List("vehicles")),
                      pv_arrays |-> ReadPvArrays(List("pv_arrays")),
                      virtual_devices |-> ReadVirtualDevices(List("virtual_devices")),
                      loads |-> opt.loads, battery |-> opt.battery, grid |-> opt.grid]
       IN  IF Fails(config) THEN Raises
           ELSE IF Fails(config.battery) \/ Fails(config.grid) THEN Raises ELSE config
=============================================================================
