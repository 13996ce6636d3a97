--------------------------- MODULE VirtualDevices ---------------------------
(***************************************************************************)
(* VirtualDeviceManager.apply below a rule of the engine: one state        *)
(* literal becomes one Home Assistant service call per target entity, each *)
(* awaited, by the background evaluation and POST /api/evaluate.           *)
(*                                                                         *)
(* The device is what ConfigLoader makes of the file of the user.  The     *)
(* rule is reduced to the value it yields and the engine to the checks     *)
(* around apply() (RulesEngine has the rest).  A switch that is on has the *)
(* setting 1.                                                              *)
(***************************************************************************)
EXTENDS ConfigLoader

CONSTANTS
  None,
  Evaluators,    \* the background loop and API requests
  Files,         \* files the user may have, see LoadUserConfig
  Name,          \* the device of the rule
  Literals,      \* what the rule may yield
  Bases,         \* values of base_setpoint_entity
  MinInterval, MaxTime,
  Slots,         \* bound: as many timed-out calls may be outstanding at once
  Faults         \* "call": a call fails, "late": one is carried out after its timeout

VirtualDevicesOf(f) == ListAt(f.raw, "virtual_devices")

ASSUME VirtualDevicesAssumption ==
  /\ Bases \subseteq Int \cup {None} /\ None \notin Int \cup Scalars
  /\ None \notin [value : Literals, base : Int, next : Nat \ {0}, ok : Nat]
  /\ \A f \in Files : f.kind = "mapping" =>
       LET list == VirtualDevicesOf(f)
       IN  list # Raises => Len(list) \in Nat /\ DOMAIN list = 1..Len(list)
  /\ MinInterval \in Nat \ {0} /\ MaxTime \in Nat
  /\ Faults \subseteq {"call", "late"}

VARIABLES
  file, device,  \* the configuration, and the device of the rule, or None
  now, base,     \* the world: clock, state of base_setpoint_entity (None: not a number)
  setting,       \* the world: target -> its setting
  last, changed, \* RulesEngine._last_values, _last_change_times of the rule
  call,          \* evaluator -> None, or the apply() it awaits
  late,          \* Home Assistant: slot -> None, or a call nobody awaits any more
  answered,      \* history: evaluator -> the targets that answered so far
  applied,       \* history: the value and the base of `last' and who answered
  contested      \* history: the targets set last by a late call, or by one of
                 \* two evaluations under way at once

vars == <<file, device, now, base, setting, last, changed, call, late,
          answered, applied, contested>>

config == <<file, device>>

(* A name that is given twice is that of the last entry.                   *)
Registered(devices) ==
  LET I == {i \in DOMAIN devices : devices[i].name = Name}
  IN  IF I = {} THEN None ELSE devices[CHOOSE i \in I : \A j \in I : j <= i]

Targets == device.targets
TargetSet == {Targets[i] : i \in DOMAIN Targets}

ClampLow(x, low, high) == IF x < low THEN low ELSE x   \* mutant: no upper limit
Clamp(x, low, high) ==                       \* max(low, min(high, x))
  LET y == IF x > high THEN high ELSE x IN IF y < low THEN low ELSE y
Base == IF base = None THEN device.base ELSE base

Setting(l, b) ==
  CASE device.type = "climate_proxy" ->
         Clamp(b + device.mapping[l], device.min_setpoint, device.max_setpoint)
    [] device.type = "switch_proxy" -> device.mapping[l]
    [] OTHER -> Clamp(device.mapping[l], device.min_value, device.max_value)

-----------------------------------------------------------------------------
(* evaluate() up to apply(): redundant, too early, unmapped, or begun.     *)
AlreadySet(e, l) == call[e] = None /\ l = last /\ UNCHANGED vars

IntervalOver == changed # None => now - changed >= MinInterval

Apply(e, l) ==
  /\ call[e] = None /\ l # last /\ IntervalOver /\ l \in DOMAIN device.mapping
  /\ call' = [call EXCEPT ![e] = [value |-> l, base |-> Base, next |-> 1, ok |-> 0]]
  /\ UNCHANGED <<config, now, base, setting, last, changed, late, answered, applied, contested>>

(* _call_all: one awaited service call after the other.                    *)
Calling(e) == call[e] # None /\ call[e].next \in DOMAIN Targets
CalledTarget(e) == Targets[call[e].next]
CalledSetting(e) == Setting(call[e].value, call[e].base)
Alone(e) == \A f \in Evaluators \ {e} : call[f] = None

CallSucceeds(e) ==
  /\ Calling(e)
  /\ setting' = [setting EXCEPT ![CalledTarget(e)] = CalledSetting(e)]
  /\ call' = [call EXCEPT ![e].next = @ + 1, ![e].ok = @ + 1]
  /\ answered' = [answered EXCEPT ![e] = @ \cup {CalledTarget(e)}]
  /\ contested' = IF Alone(e) THEN contested \ {CalledTarget(e)}
                              ELSE contested \cup {CalledTarget(e)}
  /\ UNCHANGED <<config, now, base, last, changed, late, applied>>

(* The call raised or timed out.  After a timeout nobody awaits it, but    *)
(* Home Assistant may have the request and carry it out at any time later. *)
CallFails(e) ==
  /\ Calling(e)
  /\ \/ "call" \in Faults /\ UNCHANGED late
     \/ "late" \in Faults /\ \E s \in Slots :
          /\ late[s] = None
          /\ late' = [late EXCEPT ![s] = [target |-> CalledTarget(e), setting |-> CalledSetting(e)]]
  /\ call' = [call EXCEPT ![e].next = @ + 1]
  /\ UNCHANGED <<config, now, base, setting, last, changed, answered, applied, contested>>

Lands(s) ==
  /\ late[s] # None
  /\ setting' = [setting EXCEPT ![late[s].target] = late[s].setting]
  /\ contested' = contested \cup {late[s].target}
  /\ late' = [late EXCEPT ![s] = None]
  /\ UNCHANGED <<config, now, base, last, changed, call, answered, applied>>

(* The result, and evaluate() after it: one success counts as applied.     *)
Returned(e) == call[e] # None /\ call[e].next \notin DOMAIN Targets

Believe(e) ==
  /\ last' = call[e].value /\ changed' = now
  /\ applied' = [value |-> call[e].value, base |-> call[e].base, on |-> answered[e]]
  /\ call' = [call EXCEPT ![e] = None]
  /\ answered' = [answered EXCEPT ![e] = {}]
  /\ UNCHANGED <<config, now, base, setting, late, contested>>

AppliedAnyway(e) == Returned(e) /\ Believe(e)   \* mutant: ok_count is not looked at
Applied(e) == Returned(e) /\ call[e].ok > 0 /\ Believe(e)

AllFailed(e) ==
  /\ Returned(e) /\ call[e].ok = 0
  /\ call' = [call EXCEPT ![e] = None]
  /\ UNCHANGED <<config, now, base, setting, last, changed, late, answered, applied, contested>>

-----------------------------------------------------------------------------
BaseMoves ==
  /\ device # None /\ device.live
  /\ base' \in Bases /\ base' # base
  /\ UNCHANGED <<config, now, setting, last, changed, call, late, answered, applied, contested>>

(* There is no such device, or no add-on: a rule on it changes nothing.     *)
NoDevice == device = None /\ UNCHANGED vars

Tick ==
  /\ device # None /\ now < MaxTime /\ now' = now + 1
  /\ UNCHANGED <<config, base, setting, last, changed, call, late, answered, applied, contested>>

Init ==
  /\ file \in Files
  /\ LET loaded == LoadUserConfig(file)
     IN  device = IF loaded = Raises THEN None ELSE Registered(loaded.virtual_devices)
  /\ now = 0
  /\ base \in IF device # None /\ device.live THEN Bases ELSE {None}
  /\ setting = IF device = None THEN <<>> ELSE [t \in TargetSet |-> None]
  /\ last = None /\ changed = None
  /\ call = [e \in Evaluators |-> None] /\ late = [s \in Slots |-> None]
  /\ answered = [e \in Evaluators |-> {}] /\ applied = None /\ contested = {}

Evaluate(e) ==
  /\ device # None
  /\ \/ \E l \in Literals : AlreadySet(e, l) \/ Apply(e, l)
     \/ CallSucceeds(e) \/ CallFails(e) \/ Applied(e) \/ AllFailed(e)

Next ==
  \/ \E e \in Evaluators : Evaluate(e)
  \/ \E s \in Slots : Lands(s)
  \/ NoDevice \/ BaseMoves \/ Tick

Spec == Init /\ [][Next]_vars

-----------------------------------------------------------------------------
(* Properties.                                                             *)

Quiet == \A e \in Evaluators : call[e] = None

(* Every setting respects the limits the user wrote for that type of       *)
(* device, whatever the base entity and the mapping say, as long as they   *)
(* are not 0 and, with the defaults for what is not written, in order.     *)
LowKey == CASE device.type = "climate_proxy" -> "min_setpoint"
            [] device.type = "boiler_proxy" -> "min_temperature"
            [] OTHER -> "min_value"
HighKey == CASE device.type = "climate_proxy" -> "max_setpoint"
             [] device.type = "boiler_proxy" -> "max_temperature"
             [] OTHER -> "max_value"

Written == {e \in {VirtualDevicesOf(file)[i] : i \in DOMAIN VirtualDevicesOf(file)} :
              e \notin Scalars /\ NameOf(e, "") = Name /\ e.type = device.type}
Respects(x, e) ==
  IF device.type = "switch_proxy" THEN x \in {0, 1}
  ELSE /\ LowKey \in DOMAIN e => x >= Number(e[LowKey])
       /\ HighKey \in DOMAIN e => x <= Number(e[HighKey])
InOrder ==
  IF device.type = "climate_proxy" THEN device.min_setpoint <= device.max_setpoint
  ELSE device.min_value <= device.max_value
NoZero(e) == \A k \in {LowKey, HighKey} : k \in DOMAIN e => Truthy(e[k])

SettingsInRange ==
  device # None /\ InOrder =>
    \A t \in TargetSet : setting[t] # None =>
      \E e \in Written : NoZero(e) => Respects(setting[t], e)

(* The claims of the configuration's keys: a maximum of 0 is a maximum, and *)
(* one below the default of the minimum is.                                *)
ZeroIsALimit ==
  device # None /\ InOrder =>
    \A t \in TargetSet : setting[t] # None => \E e \in Written : Respects(setting[t], e)
MaximumHolds ==
  device # None =>
    \A t \in TargetSet : setting[t] # None =>
      \E e \in Written : HighKey \in DOMAIN e /\ e[HighKey] # 0 => setting[t] <= e[HighKey]

(* One entry that cannot be read does not take the others away: the device *)
(* is there when its own entry is right.                                   *)
DeviceIsThere ==
  file.kind = "mapping" => device # None \/ VirtualDevicesOf(file) = <<>>

(* What the engine believes is real: the value applied last was answered by *)
(* a target at least, and every target that answered has it, unless a      *)
(* timed-out call was carried out on it since, or calls of two evaluations *)
(* under way at once have met on it.  However applications fail, overlap   *)
(* and repeat, nothing else makes a skipped write a wrong one.             *)
BeliefIsReal ==
  Quiet /\ applied # None =>
    /\ applied.on # {}
    /\ \A t \in applied.on \ contested : setting[t] = Setting(applied.value, applied.base)

(* The claim behind skipping a value that is set: a target that has        *)
(* answered has it.                                                        *)
AnsweredTargetsFollow ==
  Quiet /\ applied # None =>
    \A t \in applied.on : setting[t] = Setting(applied.value, applied.base)

(* The claim of virtual_devices.py, a virtual device is targeted exactly   *)
(* like a real one: what was applied is applied on every target.           *)
AllTargetsFollow ==
  Quiet /\ applied # None =>
    \A t \in TargetSet : setting[t] = Setting(applied.value, applied.base)

(* The claim of the docs: base_setpoint_entity is a live base, so a value  *)
(* an evaluation would now take as already set is set for the base of now. *)
BaseIsLive ==
  last # None => Setting(last, Base) = Setting(applied.value, applied.base)
=============================================================================
