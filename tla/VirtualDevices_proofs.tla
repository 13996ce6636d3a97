------------------------ MODULE VirtualDevices_proofs ------------------------
(***************************************************************************)
(* Theorems about VirtualDevices and the part of ConfigLoader below it, for *)
(* every file of the user, any targets, mapping, base and faults.          *)
(***************************************************************************)
EXTENDS VirtualDevices, WellFoundedInduction, TLAPS

-----------------------------------------------------------------------------
(* What ConfigLoader makes of an entry.                                    *)

(* A number read from the file, or the default, is a number.               *)
LEMMA OrDefaultType ==
  ASSUME NEW e, NEW k, NEW d \in Int, OrDefault(e, k, d) # Raises
  PROVE  /\ OrDefault(e, k, d) \in Int
         /\ k \in DOMAIN e /\ Truthy(e[k]) => OrDefault(e, k, d) = Number(e[k])
<1> DEFINE x == Get(e, k, d)
<1>1. CASE ~Truthy(x)
  BY <1>1 DEF OrDefault, Get
<1>2. CASE Truthy(x)
  <2>1. IsNumber(x) /\ OrDefault(e, k, d) = Number(x)
    BY <1>2 DEF OrDefault
  <2>2. Number(x) \in Int
    BY <2>1 DEF IsNumber, Number
  <2>3. QED
    BY <2>1, <2>2 DEF Get
<1>3. QED
  BY <1>1, <1>2

(* The values of a mapping that is kept are numbers, a switch's are 0 or 1. *)
LEMMA MappingType ==
  ASSUME NEW type, NEW raw, MappingOf(type, raw) # Raises, NEW l \in DOMAIN MappingOf(type, raw)
  PROVE  /\ MappingOf(type, raw)[l] \in Int
         /\ type = "switch_proxy" => MappingOf(type, raw)[l] \in {0, 1}
<1>1. CASE type = "switch_proxy"
  BY <1>1 DEF MappingOf, SwitchValue
<1>2. CASE type # "switch_proxy"
  <2>1. l \in {k \in DOMAIN raw : IsNumber(raw[k])} /\ MappingOf(type, raw)[l] = Number(raw[l])
    BY <1>2 DEF MappingOf
  <2>2. QED
    BY <1>2, <2>1 DEF IsNumber, Number
<1>3. QED
  BY <1>1, <1>2

(* The configuration of a virtual device that ReadVirtualDevices makes of   *)
(* the entry vd, and its limits by the keys of its type.                   *)
Made(vd) ==
  [name |-> NameOf(vd, ""), type |-> vd.type,
   targets |-> TargetsOf(vd), mapping |-> MappingOf(vd.type, MappingAt(vd, "mapping")),
   base |-> OrDefault(vd, "base_setpoint_default", 21),
   live |-> Given(vd, "base_setpoint_entity"),
   min_setpoint |-> OrDefault(vd, "min_setpoint", 16),
   max_setpoint |-> OrDefault(vd, "max_setpoint", 24),
   min_value |-> RangeOf(vd).min_value, max_value |-> RangeOf(vd).max_value]

(* A device is made of the entries of a file.                              *)
LEMMA MadeOfEntries ==
  ASSUME NEW raw, ReadVirtualDevices(raw) # Raises, NEW i \in DOMAIN ReadVirtualDevices(raw)
  PROVE  /\ i \in DOMAIN raw /\ raw[i] \notin Scalars
         /\ ReadVirtualDevices(raw)[i] = Made(raw[i]) /\ ~Fails(Made(raw[i]))
  BY DEF ReadVirtualDevices, Entries, Made

-----------------------------------------------------------------------------
(* The device of the rule.                                                 *)

Low == IF device.type = "climate_proxy" THEN device.min_setpoint ELSE device.min_value
High == IF device.type = "climate_proxy" THEN device.max_setpoint ELSE device.max_value

(* Its numbers are numbers, and its limits are those of an entry of the    *)
(* file that has its name and type, as long as that has no 0 for one.      *)
Numbered ==
  /\ device.base \in Int /\ Low \in Int /\ High \in Int
  /\ \A l \in DOMAIN device.mapping :
       /\ device.mapping[l] \in Int
       /\ device.type = "switch_proxy" => device.mapping[l] \in {0, 1}
LimitsOf(e) ==
  NoZero(e) /\ device.type # "switch_proxy" =>
    /\ LowKey \in DOMAIN e => Low = Number(e[LowKey])
    /\ HighKey \in DOMAIN e => High = Number(e[HighKey])
Configured == device # None => Numbered /\ \E e \in Written : LimitsOf(e)

(* A non-empty set of positions has a last one.                            *)
LEMMA LastPosition ==
  ASSUME NEW n \in Nat, NEW I \in SUBSET (1..n), I # {}
  PROVE  \E i \in I : \A j \in I : j <= i
<1> DEFINE T == {n - i : i \in I}
           R == OpToRel(<, Nat)
<1>1. T \subseteq Nat
  OBVIOUS
<1>2. T # {}
  <2>1. PICK i \in I : TRUE
    OBVIOUS
  <2>2. n - i \in T
    OBVIOUS
  <2>3. QED
    BY <2>2
<1>3. PICK x \in T : \A y \in T : ~ (<<y, x>> \in R)
  <2> HIDE DEF T, R
  <2> QED BY <1>1, <1>2, NatLessThanWellFounded, WFMin DEF R
<1>4. PICK i \in I : x = n - i
  OBVIOUS
<1>5. ASSUME NEW j \in I PROVE j <= i
  <2>1. n - j \in T /\ n - j \in Nat /\ x \in Nat
    BY <1>1
  <2>2. <<n - j, x>> \notin R
    BY <1>3, <2>1
  <2>3. ~(n - j < x)
    BY <2>1, <2>2 DEF OpToRel
  <2>4. QED
    BY <1>4, <2>3
<1>6. QED
  BY <1>5

(* The device has been read from an entry with the name of the rule's.     *)
LEMMA InitConfigured == ASSUME Init PROVE Configured
<1> DEFINE loaded == LoadUserConfig(file)
           list == VirtualDevicesOf(file)
           devices == ReadVirtualDevices(list)
<1> SUFFICES ASSUME device # None PROVE Numbered /\ \E e \in Written : LimitsOf(e)
  BY DEF Configured
<1>1. loaded # Raises /\ device = Registered(loaded.virtual_devices)
  BY DEF Init
<1>2. file.kind = "mapping"
  <2>1. Registered(<<>>) = None
    BY DEF Registered
  <2>2. file.kind # "mapping" => loaded.virtual_devices = <<>> \/ loaded = Raises
    BY DEF LoadUserConfig, Empty
  <2>3. QED
    BY <1>1, <2>1, <2>2
<1>3. devices # Raises /\ loaded.virtual_devices = devices
  BY <1>1, <1>2 DEF LoadUserConfig, Fails, VirtualDevicesOf
<1> DEFINE I == {i \in DOMAIN devices : devices[i].name = Name}
<1>4. I # {} /\ device = devices[CHOOSE i \in I : \A j \in I : j <= i]
  BY <1>1, <1>3 DEF Registered
<1>5. I \subseteq 1..Len(list) /\ Len(list) \in Nat
  BY <1>2, <1>3, MadeOfEntries, VirtualDevicesAssumption DEF Init
<1>6. PICK i \in I : device = devices[i]
  BY <1>4, <1>5, LastPosition
<1> DEFINE e == list[i]
<1>7. /\ i \in DOMAIN list /\ e \notin Scalars
      /\ device = Made(e) /\ ~Fails(Made(e)) /\ NameOf(e, "") = Name
  <2>1. i \in DOMAIN devices /\ devices[i].name = Name
    BY <1>6
  <2>2. i \in DOMAIN list /\ e \notin Scalars /\ devices[i] = Made(e) /\ ~Fails(Made(e))
    BY <1>3, <2>1, MadeOfEntries
  <2>3. Made(e).name = NameOf(e, "")
    BY DEF Made
  <2>4. QED
    BY <1>6, <2>1, <2>2, <2>3
<1>8. e \in Written
  BY <1>7 DEF Written, Made
<1> HIDE DEF e
<1> DEFINE range == RangeOf(e)
<1>9. /\ device.base = OrDefault(e, "base_setpoint_default", 21)
      /\ device.type = e.type
      /\ device.min_setpoint = OrDefault(e, "min_setpoint", 16)
      /\ device.max_setpoint = OrDefault(e, "max_setpoint", 24)
      /\ device.min_value = range.min_value
      /\ device.max_value = range.max_value
      /\ device.mapping = MappingOf(e.type, MappingAt(e, "mapping"))
  BY <1>7 DEF Made
<1>10. \A k \in {"mapping", "base", "min_setpoint", "max_setpoint", "min_value", "max_value"} :
         device[k] # Raises
  BY <1>7 DEF Fails, Made
<1>11. /\ device.base \in Int /\ device.min_setpoint \in Int /\ device.max_setpoint \in Int
       /\ "min_setpoint" \in DOMAIN e /\ Truthy(e["min_setpoint"])
            => device.min_setpoint = Number(e["min_setpoint"])
       /\ "max_setpoint" \in DOMAIN e /\ Truthy(e["max_setpoint"])
            => device.max_setpoint = Number(e["max_setpoint"])
  <2>1. /\ device.base # Raises /\ device.min_setpoint # Raises
        /\ device.max_setpoint # Raises
    BY <1>10
  <2>2. QED
    BY <1>9, <2>1, OrDefaultType
<1>12. /\ device.min_value \in Int /\ device.max_value \in Int
       /\ IF e.type = "boiler_proxy"
          THEN /\ "min_temperature" \in DOMAIN e /\ Truthy(e["min_temperature"])
                    => device.min_value = Number(e["min_temperature"])
               /\ "max_temperature" \in DOMAIN e /\ Truthy(e["max_temperature"])
                    => device.max_value = Number(e["max_temperature"])
          ELSE /\ "min_value" \in DOMAIN e /\ Truthy(e["min_value"])
                    => device.min_value = Number(e["min_value"])
               /\ "max_value" \in DOMAIN e /\ Truthy(e["max_value"])
                    => device.max_value = Number(e["max_value"])
  <2>1. device.min_value # Raises /\ device.max_value # Raises
    BY <1>10
  <2>2. CASE e.type = "boiler_proxy"
    <3>1. /\ device.min_value = OrDefault(e, "min_temperature", 45)
          /\ device.max_value = OrDefault(e, "max_temperature", 65)
      BY <1>9, <2>2 DEF RangeOf
    <3>2. QED
      BY <2>1, <2>2, <3>1, OrDefaultType
  <2>3. CASE e.type # "boiler_proxy"
    <3>1. /\ device.min_value = OrDefault(e, "min_value", 0)
          /\ device.max_value = OrDefault(e, "max_value", 100)
      BY <1>9, <2>3 DEF RangeOf
    <3>2. QED
      BY <2>1, <2>3, <3>1, OrDefaultType
  <2>4. QED
    BY <2>2, <2>3
<1>13. Numbered
  <2>1. Low \in Int /\ High \in Int
    BY <1>11, <1>12 DEF Low, High
  <2>2. \A l \in DOMAIN device.mapping :
          /\ device.mapping[l] \in Int
          /\ device.type = "switch_proxy" => device.mapping[l] \in {0, 1}
    <3>1. device.mapping # Raises
      BY <1>10
    <3> QED BY <1>9, <3>1, MappingType
  <2>3. QED
    BY <1>11, <2>1, <2>2 DEF Numbered
<1>14. LimitsOf(e)
  <2> SUFFICES ASSUME NoZero(e), device.type # "switch_proxy"
               PROVE  /\ LowKey \in DOMAIN e => Low = Number(e[LowKey])
                      /\ HighKey \in DOMAIN e => High = Number(e[HighKey])
    BY DEF LimitsOf
  <2>1. /\ LowKey \in DOMAIN e => Truthy(e[LowKey])
        /\ HighKey \in DOMAIN e => Truthy(e[HighKey])
    BY DEF NoZero
  <2>2. CASE device.type = "climate_proxy"
    BY <1>11, <2>1, <2>2 DEF Low, High, LowKey, HighKey
  <2>3. CASE device.type = "boiler_proxy"
    BY <1>9, <1>12, <2>1, <2>3 DEF Low, High, LowKey, HighKey
  <2>4. CASE device.type \notin {"climate_proxy", "boiler_proxy"}
    BY <1>9, <1>12, <2>1, <2>4 DEF Low, High, LowKey, HighKey
  <2>5. QED
    BY <2>2, <2>3, <2>4
<1>15. QED
  BY <1>8, <1>13, <1>14

-----------------------------------------------------------------------------
(* Settings stay in range.                                                 *)

InRange(x) ==
  IF device.type = "switch_proxy" THEN x \in {0, 1}
  ELSE x \in Int /\ (InOrder => Low <= x /\ x <= High)

(* What a proxy sets is in the limits of the device.                       *)
LEMMA SettingInRange ==
  ASSUME Numbered, NEW l \in DOMAIN device.mapping, NEW b \in Int
  PROVE  InRange(Setting(l, b))
<1> DEFINE m == device.mapping[l]
<1>0. ASSUME NEW x \in Int, NEW low \in Int, NEW high \in Int
      PROVE  /\ Clamp(x, low, high) \in Int
             /\ low <= high => low <= Clamp(x, low, high) /\ Clamp(x, low, high) <= high
  BY DEF Clamp
<1>1. m \in Int /\ Low \in Int /\ High \in Int
  BY DEF Numbered
<1>2. CASE device.type = "climate_proxy"
  <2>1. Low = device.min_setpoint /\ High = device.max_setpoint /\ (InOrder => Low <= High)
    BY <1>2 DEF Low, High, InOrder
  <2>4. Setting(l, b) = Clamp(b + m, Low, High)
    BY <1>2, <2>1 DEF Setting
  <2>2. b + m \in Int
    BY <1>1
  <2>3. /\ Clamp(b + m, Low, High) \in Int
        /\ InOrder => Low <= Clamp(b + m, Low, High) /\ Clamp(b + m, Low, High) <= High
    BY <1>0, <1>1, <2>1, <2>2
  <2> HIDE DEF m
  <2> QED BY <1>2, <2>3, <2>4 DEF InRange
<1>3. CASE device.type = "switch_proxy"
  BY <1>3 DEF Setting, InRange, Numbered
<1>4. CASE device.type \notin {"climate_proxy", "switch_proxy"}
  <2>1. Low = device.min_value /\ High = device.max_value /\ (InOrder => Low <= High)
    BY <1>4 DEF Low, High, InOrder
  <2>2. Setting(l, b) = Clamp(m, device.min_value, device.max_value)
    BY <1>4 DEF Setting
  <2>3. /\ Clamp(m, Low, High) \in Int
        /\ Low <= High => Low <= Clamp(m, Low, High) /\ Clamp(m, Low, High) <= High
    BY <1>0, <1>1
  <2>4. QED
    BY <1>4, <2>1, <2>2, <2>3 DEF InRange
<1>5. QED
  BY <1>2, <1>3, <1>4

(* What is awaited is the application of a mapped literal to every target,  *)
(* whose settings are in range, as are those of the calls that are late.   *)
Calls == [value : Literals \cap DOMAIN device.mapping, base : Int, next : Nat \ {0}, ok : Nat]
CallsOK == \A e \in Evaluators : call[e] # None => call[e] \in Calls
InRangeInv ==
  /\ Configured
  /\ call = [e \in Evaluators |-> call[e]]
  /\ late = [s \in Slots |-> late[s]]
  /\ device # None =>
       /\ base \in Int \cup {None}
       /\ CallsOK
       /\ setting = [t \in TargetSet |-> setting[t]]
       /\ \A t \in TargetSet : setting[t] # None => InRange(setting[t])
       /\ \A s \in Slots : late[s] # None =>
            late[s].target \in TargetSet /\ InRange(late[s].setting)

(* No call is None.                                                        *)
LEMMA NoneIsNoCall == None \notin Calls
  BY VirtualDevicesAssumption DEF Calls

(* Nothing is set at first.                                                *)
LEMMA InRangeInit == Init => InRangeInv
<1> SUFFICES ASSUME Init PROVE InRangeInv
  OBVIOUS
<1>1. Configured
  BY InitConfigured
<1>2. call = [e \in Evaluators |-> None] /\ late = [s \in Slots |-> None]
  BY DEF Init
<1>3. ASSUME device # None PROVE base \in Int \cup {None} /\ setting = [t \in TargetSet |-> None]
  BY <1>3, VirtualDevicesAssumption DEF Init
<1>4. QED
  BY <1>1, <1>2, <1>3 DEF InRangeInv, CallsOK

(* The device and what is derived from it do not change.                   *)
LEMMA SameDevice ==
  ASSUME UNCHANGED config
  PROVE  /\ UNCHANGED <<file, device, Low, High, TargetSet, Calls, InOrder, Configured>>
         /\ \A x : InRange(x)' = InRange(x)
         /\ \A l, b : Setting(l, b)' = Setting(l, b)
<1>1. file' = file /\ device' = device
  BY DEF config
<1>2. UNCHANGED <<Low, High, TargetSet, Calls, InOrder>>
  BY <1>1 DEF Low, High, TargetSet, Targets, Calls, InOrder
<1>3. UNCHANGED Configured
  BY <1>1 DEF Configured, Numbered, LimitsOf, Written, NoZero, LowKey, HighKey, Low, High
<1>4. ASSUME NEW x PROVE InRange(x)' = InRange(x)
  BY <1>1, <1>2 DEF InRange
<1>5. ASSUME NEW l, NEW b PROVE Setting(l, b)' = Setting(l, b)
  BY <1>1 DEF Setting
<1>6. QED
  BY <1>1, <1>2, <1>3, <1>4, <1>5

(* The answer of a service call: what it may change, and what it counts.   *)
LEMMA ServiceCall ==
  ASSUME InRangeInv, device # None, NEW e \in Evaluators, CallSucceeds(e) \/ CallFails(e)
  PROVE  /\ call[e] \in Calls /\ CalledTarget(e) \in TargetSet /\ InRange(CalledSetting(e))
         /\ CallFails(e) => setting' = setting
         /\ CallSucceeds(e) =>
              setting' = [t \in TargetSet |-> IF t = CalledTarget(e) THEN CalledSetting(e)
                                                                     ELSE setting[t]]
         /\ call'[e] \in Calls
         /\ call'[e].value = call[e].value /\ call'[e].base = call[e].base
         /\ CallFails(e) => call'[e].ok = call[e].ok
         /\ CallSucceeds(e) => call'[e].ok > 0
         /\ call' = [f \in Evaluators |-> IF f = e THEN call'[e] ELSE call[f]]
<1> DEFINE c == call[e]
           T == CalledTarget(e)
           v == CalledSetting(e)
<1>1. Calling(e)
  BY DEF CallSucceeds, CallFails
<1>2. c \in Calls
  BY <1>1 DEF Calling, InRangeInv, CallsOK
<1>3. T \in TargetSet
  BY <1>1 DEF Calling, CalledTarget, TargetSet
<1>4. InRange(v)
  <2>1. c.value \in DOMAIN device.mapping /\ c.base \in Int
    BY <1>2 DEF Calls
  <2>2. QED
    BY <2>1, SettingInRange DEF CalledSetting, InRangeInv, Configured
<1>5. CallFails(e) => setting' = setting
  BY DEF CallFails
<1>6. setting = [t \in TargetSet |-> setting[t]]
  BY DEF InRangeInv
<1>7. [setting EXCEPT ![T] = v] = [t \in TargetSet |-> IF t = T THEN v ELSE setting[t]]
  BY <1>6
<1>8. CallSucceeds(e) => setting' = [setting EXCEPT ![T] = v]
  BY DEF CallSucceeds
<1>9. call = [f \in Evaluators |-> call[f]]
  BY DEF InRangeInv
<1>10. /\ CallSucceeds(e) => call' = [call EXCEPT ![e] = [c EXCEPT !.next = @ + 1, !.ok = @ + 1]]
       /\ CallFails(e) => call' = [call EXCEPT ![e] = [c EXCEPT !.next = @ + 1]]
  BY <1>2, <1>9 DEF CallSucceeds, CallFails, Calls
<1>11. /\ call'[e] \in Calls
       /\ call'[e].value = c.value /\ call'[e].base = c.base
       /\ CallFails(e) => call'[e].ok = c.ok
       /\ CallSucceeds(e) => call'[e].ok > 0
  <2> DEFINE more == [c EXCEPT !.next = @ + 1]
             both == [c EXCEPT !.next = @ + 1, !.ok = @ + 1]
  <2>1. /\ CallSucceeds(e) => call'[e] = both
        /\ CallFails(e) => call'[e] = more
    <3> HIDE DEF c, more, both
    <3> QED BY <1>9, <1>10 DEF c, more, both
  <2>2. /\ both \in Calls /\ both.value = c.value /\ both.base = c.base /\ both.ok > 0
    <3> HIDE DEF c
    <3>1. c.next + 1 \in Nat \ {0} /\ c.ok + 1 \in Nat /\ c.ok + 1 > 0
      BY <1>2 DEF Calls
    <3>2. both.value = c.value /\ both.base = c.base /\ both.ok = c.ok + 1
      BY <1>2 DEF Calls
    <3>3. both \in Calls
      BY <1>2, <3>1 DEF Calls
    <3>4. QED
      BY <3>1, <3>2, <3>3
  <2>3. /\ more \in Calls /\ more.value = c.value /\ more.base = c.base /\ more.ok = c.ok
    <3> HIDE DEF c
    <3> QED BY <1>2 DEF Calls
  <2>4. QED
    <3> HIDE DEF c, more, both
    <3> QED BY <2>1, <2>2, <2>3 DEF c
<1>12. call' = [f \in Evaluators |-> IF f = e THEN call'[e] ELSE call[f]]
  BY <1>9, <1>10
<1>13. QED
  BY <1>2, <1>3, <1>4, <1>5, <1>7, <1>8, <1>11, <1>12

(* A call that is late when a step ends is one that was, or is new.        *)
LEMMA LateCalls ==
  ASSUME InRangeInv, device # None, [Next]_vars
  PROVE  /\ late' = [s \in Slots |-> late'[s]]
         /\ \A s \in Slots : late'[s] # None =>
              late'[s].target \in TargetSet /\ InRange(late'[s].setting)
<1> USE DEF InRangeInv
<1>1. ASSUME NEW e \in Evaluators, CallFails(e)
      PROVE  /\ late' = [s \in Slots |-> late'[s]]
             /\ \A s \in Slots : late'[s] # None =>
                  late'[s].target \in TargetSet /\ InRange(late'[s].setting)
  <2> DEFINE new == [target |-> CalledTarget(e), setting |-> CalledSetting(e)]
  <2>1. new.target \in TargetSet /\ InRange(new.setting)
    BY <1>1, ServiceCall
  <2>2. late' = late \/ \E s \in Slots : late' = [late EXCEPT ![s] = new]
    BY <1>1 DEF CallFails
  <2> HIDE DEF new
  <2>3. QED
    BY <2>1, <2>2
<1>2. ASSUME NEW s \in Slots, Lands(s)
      PROVE  late' = [u \in Slots |-> IF u = s THEN None ELSE late[u]]
  BY <1>2 DEF Lands
<1>3. ASSUME NEW e \in Evaluators, ~CallFails(e), Evaluate(e)
      PROVE  late' = late
  BY <1>3 DEF Evaluate, AlreadySet, Apply, CallSucceeds, Applied, Believe, AllFailed, vars
<1>4. CASE NoDevice \/ BaseMoves \/ Tick \/ UNCHANGED vars
  BY <1>4 DEF NoDevice, BaseMoves, Tick, vars
<1>5. QED
  BY <1>1, <1>2, <1>3, <1>4 DEF Next

(* Every step keeps the limits.                                            *)
LEMMA InRangeStep == InRangeInv /\ [Next]_vars => InRangeInv'
<1> SUFFICES ASSUME InRangeInv, [Next]_vars PROVE InRangeInv'
  OBVIOUS
<1> DEFINE RestInv == /\ call = [e \in Evaluators |-> call[e]]
                      /\ device # None =>
                           /\ base \in Int \cup {None}
                           /\ CallsOK
                           /\ setting = [t \in TargetSet |-> setting[t]]
                           /\ \A t \in TargetSet : setting[t] # None => InRange(setting[t])
<1>0. UNCHANGED config
  BY DEF Next, vars, config, Evaluate, AlreadySet, Apply, CallSucceeds, CallFails, Applied,
         Believe, AllFailed, Lands, NoDevice, BaseMoves, Tick
<1>r. RestInv
  BY DEF InRangeInv
<1>1. ASSUME NEW e \in Evaluators, NEW l \in Literals, device # None, AlreadySet(e, l)
      PROVE  RestInv'
  BY <1>0, <1>r, <1>1, SameDevice DEF AlreadySet, CallsOK, vars
<1>2. ASSUME NEW e \in Evaluators, NEW l \in Literals, device # None, Apply(e, l)
      PROVE  RestInv'
  <2>1. Base \in Int
    BY <1>2, VirtualDevicesAssumption DEF Base, InRangeInv, Configured, Numbered
  <2>2. QED
    BY <1>0, <1>r, <1>2, <2>1, SameDevice DEF Apply, CallsOK, Calls
<1>3. ASSUME NEW e \in Evaluators, device # None, CallSucceeds(e) \/ CallFails(e)
      PROVE  RestInv'
  <2>1. base' = base
    BY <1>3 DEF CallSucceeds, CallFails
  <2>2. call' = [f \in Evaluators |-> call'[f]] /\ CallsOK'
    BY <1>0, <1>r, <1>3, SameDevice, ServiceCall DEF CallsOK
  <2>3. setting' = [t \in TargetSet |-> setting'[t]]
    BY <1>r, <1>3, ServiceCall
  <2>4. \A t \in TargetSet : setting'[t] # None => InRange(setting'[t])
    BY <1>r, <1>3, ServiceCall
  <2>5. QED
    BY <1>0, <1>r, <2>1, <2>2, <2>3, <2>4, SameDevice
<1>4. ASSUME NEW e \in Evaluators, device # None, Applied(e) \/ AllFailed(e)
      PROVE  RestInv'
  BY <1>0, <1>r, <1>4, SameDevice DEF Applied, Believe, AllFailed, CallsOK
<1>5. ASSUME NEW s \in Slots, Lands(s)
      PROVE  RestInv'
  <2>1. UNCHANGED <<call, base>> /\ setting' = [setting EXCEPT ![late[s].target] = late[s].setting]
    BY <1>5 DEF Lands
  <2>2. device # None => late[s].target \in TargetSet /\ InRange(late[s].setting)
    BY <1>5 DEF Lands, InRangeInv
  <2>3. QED
    BY <1>0, <1>r, <2>1, <2>2, SameDevice DEF CallsOK
<1>6. ASSUME BaseMoves PROVE RestInv'
  BY <1>0, <1>r, <1>6, SameDevice, VirtualDevicesAssumption DEF BaseMoves, CallsOK
<1>7. ASSUME Tick \/ NoDevice \/ UNCHANGED vars PROVE RestInv'
  BY <1>0, <1>r, <1>7, SameDevice DEF Tick, NoDevice, vars, CallsOK
<1>8. RestInv'
  <2> HIDE DEF RestInv
  <2> QED BY <1>1, <1>2, <1>3, <1>4, <1>5, <1>6, <1>7 DEF Next, Evaluate
<1>9. CASE device # None
  <2>1. InRangeInv => Configured
    BY DEF InRangeInv
  <2>2. QED
    BY <1>0, <1>8, <1>9, <2>1, LateCalls, SameDevice DEF InRangeInv
<1>10. CASE device = None
  <2>1. late' = [s \in Slots |-> late'[s]]
    <3>1. \A s \in Slots : Lands(s) => late' = [u \in Slots |-> IF u = s THEN None ELSE late[u]]
      BY DEF Lands, InRangeInv
    <3>2. NoDevice \/ BaseMoves \/ Tick \/ UNCHANGED vars => late' = late
      BY DEF NoDevice, BaseMoves, Tick, vars
    <3>3. QED
      BY <1>10, <3>1, <3>2 DEF Next, Evaluate, InRangeInv
  <2>2. QED
    BY <1>0, <1>8, <1>10, <2>1, SameDevice DEF InRangeInv
<1>11. QED
  BY <1>9, <1>10

(* Whatever file the user writes, whatever the base entity says and however *)
(* service calls fail and evaluations interleave, every target is within   *)
(* the limits the user wrote for its type of device.                       *)
THEOREM SettingsStayInRange == Spec => []SettingsInRange
<1>1. InRangeInv => SettingsInRange
  <2> SUFFICES ASSUME InRangeInv, device # None, InOrder,
                      NEW t \in TargetSet, setting[t] # None
               PROVE  \E e \in Written : NoZero(e) => Respects(setting[t], e)
    BY DEF SettingsInRange
  <2>1. PICK e \in Written : LimitsOf(e)
    BY DEF InRangeInv, Configured
  <2>2. InRange(setting[t])
    BY DEF InRangeInv
  <2>3. NoZero(e) => Respects(setting[t], e)
    BY <2>1, <2>2 DEF Respects, InRange, LimitsOf
  <2>4. QED
    BY <2>3
<1>2. QED
  BY InRangeInit, InRangeStep, <1>1, PTL DEF Spec

-----------------------------------------------------------------------------
(* The belief of the engine, with any number of evaluators.                *)

(* Who answered an application under way has its setting; who answered the *)
(* last one has its setting, until another application gets an answer.     *)
CallIsReal ==
  \A e \in Evaluators : call[e] # None =>
    /\ answered[e] \subseteq TargetSet
    /\ (call[e].ok = 0) = (answered[e] = {})
    /\ \A t \in answered[e] \ contested : setting[t] = CalledSetting(e)
Superseded(t) == \E e \in Evaluators : call[e] # None /\ t \in answered[e]
LastIsReal ==
  applied # None =>
    /\ applied.on # {} /\ applied.on \subseteq TargetSet
    /\ \A t \in applied.on \ contested :
         Superseded(t) \/ setting[t] = Setting(applied.value, applied.base)
AnswerShape ==
  /\ answered = [e \in Evaluators |-> answered[e]]
  /\ \A e \in Evaluators : call[e] = None => answered[e] = {}
  /\ device = None => applied = None
BeliefInv == InRangeInv /\ AnswerShape /\ (device # None => CallIsReal /\ LastIsReal)

(* Every step keeps what is believed real.                                 *)
LEMMA BeliefStep == BeliefInv /\ [Next]_vars => BeliefInv'
<1> DEFINE Goal == AnswerShape' /\ (device # None => CallIsReal' /\ LastIsReal')
<1> SUFFICES ASSUME BeliefInv, [Next]_vars PROVE Goal
  <2>1. BeliefInv /\ [Next]_vars => InRangeInv' /\ UNCHANGED config
    BY InRangeStep DEF BeliefInv, Next, vars, config, Evaluate, AlreadySet, Apply, CallSucceeds,
       CallFails, Applied, Believe, AllFailed, Lands, NoDevice, BaseMoves, Tick
  <2>2. QED
    BY <2>1 DEF BeliefInv, AnswerShape, config
<1> HIDE DEF Goal
<1>0. UNCHANGED config /\ InRangeInv /\ AnswerShape /\ (device # None => CallIsReal /\ LastIsReal)
  BY DEF BeliefInv, AnswerShape, Next, vars, config, Evaluate, AlreadySet, Apply, CallSucceeds,
     CallFails, Applied, Believe, AllFailed, Lands, NoDevice, BaseMoves, Tick
<1>00. device' = device /\ \A l, b : Setting(l, b)' = Setting(l, b)
  BY <1>0, SameDevice
<1>000. call = [e \in Evaluators |-> call[e]] /\ setting = IF device = None THEN setting
                                                     ELSE [t \in TargetSet |-> setting[t]]
  BY <1>0 DEF InRangeInv
<1>1. ASSUME NEW e \in Evaluators, NEW l \in Literals, device # None, AlreadySet(e, l)
      PROVE  Goal
  BY <1>0, <1>00, <1>1, SameDevice
     DEF Goal, AlreadySet, vars, AnswerShape, CallIsReal, LastIsReal, Superseded, CalledSetting
<1>2. ASSUME NEW e \in Evaluators, NEW l \in Literals, device # None, Apply(e, l)
      PROVE  Goal
  <2>1. /\ answered[e] = {} /\ call'[e].ok = 0 /\ call[e] = None
        /\ \A f \in Evaluators : f # e => call'[f] = call[f]
        /\ UNCHANGED <<setting, applied, answered, contested>>
    BY <1>0, <1>000, <1>2 DEF Apply, AnswerShape
  <2>2. \A f \in Evaluators : f # e => CalledSetting(f)' = CalledSetting(f)
    BY <1>00, <2>1 DEF CalledSetting
  <2>3. \A t : Superseded(t) => Superseded(t)'
    BY <2>1 DEF Superseded
  <2>4. AnswerShape'
    BY <1>0, <1>00, <2>1 DEF AnswerShape
  <2>5. CallIsReal'
    BY <1>0, <1>2, <2>1, <2>2, SameDevice DEF CallIsReal
  <2>6. LastIsReal'
    BY <1>0, <1>2, <1>00, <2>1, <2>3, SameDevice DEF LastIsReal
  <2>7. QED
    BY <2>4, <2>5, <2>6 DEF Goal
<1>3. ASSUME NEW e \in Evaluators, device # None, CallSucceeds(e)
      PROVE  Goal
  <2> DEFINE T == CalledTarget(e)
  <2>1. /\ T \in TargetSet /\ call[e] # None /\ call'[e].ok > 0
        /\ call'[e].value = call[e].value /\ call'[e].base = call[e].base
        /\ call' = [f \in Evaluators |-> IF f = e THEN call'[e] ELSE call[f]]
        /\ \A t \in TargetSet : setting'[t] = IF t = T THEN CalledSetting(e) ELSE setting[t]
    <3>1. /\ T \in TargetSet /\ call[e] # None
          /\ setting' = [t \in TargetSet |-> IF t = T THEN CalledSetting(e) ELSE setting[t]]
      BY <1>0, <1>3, ServiceCall DEF CallSucceeds, Calling
    <3>2. /\ call'[e].ok > 0 /\ call'[e].value = call[e].value /\ call'[e].base = call[e].base
          /\ call' = [f \in Evaluators |-> IF f = e THEN call'[e] ELSE call[f]]
      BY <1>0, <1>3, ServiceCall
    <3> HIDE DEF T
    <3>3. QED
      BY <3>1, <3>2
  <2>2. \A f \in Evaluators : CalledSetting(f)' = CalledSetting(f)
    BY <1>00, <2>1 DEF CalledSetting
  <2>3. answered' = [f \in Evaluators |-> IF f = e THEN answered[e] \cup {T} ELSE answered[f]]
    BY <1>0, <1>3 DEF CallSucceeds, AnswerShape
  <2>4. /\ contested' = IF Alone(e) THEN contested \ {T} ELSE contested \cup {T}
        /\ applied' = applied
    BY <1>3 DEF CallSucceeds
  <2>5. call'[e].ok # 0 /\ call'[e] # None
    <3>1. call'[e] \in Calls
      BY <1>0, <1>3, ServiceCall
    <3>2. call'[e].ok \in Nat /\ call'[e] # None
      BY <3>1, NoneIsNoCall DEF Calls
    <3>3. QED
      BY <2>1, <3>2
  <2> HIDE DEF T
  <2>6. AnswerShape'
    BY <1>0, <1>00, <2>1, <2>3, <2>4, <2>5 DEF AnswerShape
  <2>7. ASSUME NEW f \in Evaluators, call'[f] # None
        PROVE  /\ answered'[f] \subseteq TargetSet
               /\ (call'[f].ok = 0) = (answered'[f] = {})
               /\ \A t \in answered'[f] \ contested' : setting'[t] = CalledSetting(f)'
    <3>1. CASE f = e
      BY <1>0, <1>3, <2>1, <2>2, <2>3, <2>4, <2>5, <3>1 DEF CallIsReal
    <3>2. CASE f # e
      <4>1. call[f] # None /\ ~Alone(e) /\ answered'[f] = answered[f] /\ call'[f] = call[f]
        BY <2>1, <2>3, <2>7, <3>2 DEF Alone
      <4>2. contested' = contested \cup {T}
        BY <2>4, <4>1
      <4>3. QED
        BY <1>0, <1>3, <2>1, <2>2, <4>1, <4>2 DEF CallIsReal
    <3>3. QED
      BY <3>1, <3>2
  <2>8. CallIsReal'
    BY <1>0, <2>7, SameDevice DEF CallIsReal
  <2>9. \A t : t = T \/ Superseded(t) => Superseded(t)'
    BY <2>1, <2>3, <2>5 DEF Superseded
  <2>10. LastIsReal'
    BY <1>0, <1>00, <1>3, <2>1, <2>4, <2>9, SameDevice DEF LastIsReal
  <2>11. QED
    BY <2>6, <2>8, <2>10 DEF Goal
<1>4. ASSUME NEW e \in Evaluators, device # None, CallFails(e)
      PROVE  Goal
  <2>1. /\ call[e] # None /\ call'[e].ok = call[e].ok /\ call'[e] # None
        /\ call'[e].value = call[e].value /\ call'[e].base = call[e].base
        /\ call' = [f \in Evaluators |-> IF f = e THEN call'[e] ELSE call[f]]
        /\ UNCHANGED <<setting, answered, applied, contested>>
    BY <1>0, <1>4, ServiceCall, NoneIsNoCall DEF CallFails, Calling
  <2>2. \A f \in Evaluators : CalledSetting(f)' = CalledSetting(f)
    BY <1>00, <2>1 DEF CalledSetting
  <2>3. \A f \in Evaluators : (call'[f] = None) = (call[f] = None) /\ call'[f].ok = call[f].ok
    BY <2>1
  <2>4. AnswerShape'
    BY <1>0, <1>00, <2>1, <2>3 DEF AnswerShape
  <2>5. CallIsReal'
    BY <1>0, <1>4, <2>1, <2>2, <2>3, SameDevice DEF CallIsReal
  <2>6. LastIsReal'
    BY <1>0, <1>00, <1>4, <2>1, <2>3, SameDevice DEF LastIsReal, Superseded
  <2>7. QED
    BY <2>4, <2>5, <2>6 DEF Goal
<1>5. ASSUME NEW e \in Evaluators, device # None, Applied(e)
      PROVE  Goal
  <2>1. /\ call[e] # None /\ call[e].ok > 0
        /\ applied' = [value |-> call[e].value, base |-> call[e].base, on |-> answered[e]]
        /\ UNCHANGED <<setting, contested>>
        /\ call' = [f \in Evaluators |-> IF f = e THEN None ELSE call[f]]
        /\ answered' = [f \in Evaluators |-> IF f = e THEN {} ELSE answered[f]]
    BY <1>0, <1>000, <1>5 DEF Applied, Believe, Returned, AnswerShape
  <2>2. AnswerShape'
    BY <1>0, <1>00, <1>5, <2>1 DEF AnswerShape
  <2>3. \A f \in Evaluators : f # e => CalledSetting(f)' = CalledSetting(f)
    BY <1>00, <2>1 DEF CalledSetting
  <2>4. CallIsReal'
    BY <1>0, <1>5, <2>1, <2>3, SameDevice DEF CallIsReal
  <2>5. answered[e] # {} /\ answered[e] \subseteq TargetSet
        /\ \A t \in answered[e] \ contested : setting[t] = CalledSetting(e)
    BY <1>0, <1>5, <2>1 DEF CallIsReal
  <2>6. LastIsReal'
    BY <1>0, <1>00, <2>1, <2>5, SameDevice DEF LastIsReal, CalledSetting
  <2>7. QED
    BY <2>2, <2>4, <2>6 DEF Goal
<1>6. ASSUME NEW e \in Evaluators, device # None, AllFailed(e)
      PROVE  Goal
  <2>1. /\ call[e] # None /\ call[e].ok = 0
        /\ UNCHANGED <<setting, answered, applied, contested>>
        /\ call' = [f \in Evaluators |-> IF f = e THEN None ELSE call[f]]
    BY <1>000, <1>6 DEF AllFailed, Returned
  <2>2. answered[e] = {}
    BY <1>0, <1>6, <2>1 DEF CallIsReal
  <2>3. AnswerShape'
    BY <1>0, <1>00, <2>1, <2>2 DEF AnswerShape
  <2>4. \A f \in Evaluators : f # e => CalledSetting(f)' = CalledSetting(f)
    BY <1>00, <2>1 DEF CalledSetting
  <2>5. CallIsReal'
    BY <1>0, <1>6, <2>1, <2>4, SameDevice DEF CallIsReal
  <2>6. \A t : Superseded(t) => Superseded(t)'
    BY <2>1, <2>2 DEF Superseded
  <2>7. LastIsReal'
    BY <1>0, <1>00, <1>6, <2>1, <2>6, SameDevice DEF LastIsReal
  <2>8. QED
    BY <2>3, <2>5, <2>7 DEF Goal
<1>7. ASSUME NEW s \in Slots, Lands(s)
      PROVE  Goal
  <2>1. /\ late[s] # None /\ contested' = contested \cup {late[s].target}
        /\ setting' = [setting EXCEPT ![late[s].target] = late[s].setting]
        /\ UNCHANGED <<call, answered, applied>>
    BY <1>7 DEF Lands
  <2>2. device # None => \A t \in TargetSet \ contested' : setting'[t] = setting[t]
    BY <1>000, <2>1
  <2>3. /\ \A f \in Evaluators : CalledSetting(f)' = CalledSetting(f)
        /\ \A t : Superseded(t)' = Superseded(t)
    BY <1>00, <2>1 DEF CalledSetting, Superseded
  <2>4. AnswerShape'
    BY <1>0, <1>00, <2>1 DEF AnswerShape
  <2>5. device # None => CallIsReal'
    BY <1>0, <2>1, <2>2, <2>3, SameDevice DEF CallIsReal
  <2>6. device # None => LastIsReal'
    BY <1>0, <1>00, <2>1, <2>2, <2>3, SameDevice DEF LastIsReal
  <2>7. QED
    BY <2>4, <2>5, <2>6 DEF Goal
<1>8. ASSUME BaseMoves \/ Tick \/ NoDevice \/ UNCHANGED vars
      PROVE  Goal
  <2>1. UNCHANGED <<setting, call, answered, applied, contested>>
    BY <1>8 DEF BaseMoves, Tick, NoDevice, vars
  <2>2. /\ \A f \in Evaluators : CalledSetting(f)' = CalledSetting(f)
        /\ \A t : Superseded(t)' = Superseded(t)
    BY <1>00, <2>1 DEF CalledSetting, Superseded
  <2>3. QED
    BY <1>0, <1>00, <2>1, <2>2, SameDevice DEF Goal, AnswerShape, CallIsReal, LastIsReal
<1>9. QED
  BY <1>1, <1>2, <1>3, <1>4, <1>5, <1>6, <1>7, <1>8 DEF Next, Evaluate

(* What the engine takes as applied was answered by a target, and holds at *)
(* every target that answered unless a late call or another evaluation met *)
(* it there: for every file, any number of evaluations at once, and however *)
(* calls fail and whenever they are carried out.                           *)
THEOREM BeliefStaysReal == Spec => []BeliefIsReal
<1>1. Init => BeliefInv
  <2>1. Init => /\ answered = [e \in Evaluators |-> {}] /\ applied = None
                /\ call = [e \in Evaluators |-> None]
    BY DEF Init
  <2>2. QED
    BY <2>1, InRangeInit DEF BeliefInv, AnswerShape, CallIsReal, LastIsReal
<1>2. BeliefInv => BeliefIsReal
  BY DEF BeliefInv, AnswerShape, LastIsReal, Superseded, BeliefIsReal, Quiet
<1>3. QED
  BY <1>1, <1>2, BeliefStep, PTL DEF Spec
=============================================================================
