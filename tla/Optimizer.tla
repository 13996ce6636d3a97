----------------------------- MODULE Optimizer ------------------------------
(***************************************************************************)
(* The predictive dispatch of optimizer.py and the way its schedule gets   *)
(* to the rules: run_optimizer computes and persists a schedule every half *)
(* hour, evaluate() offers the power of the current hour to the rules.     *)
(*                                                                         *)
(* A day has `Hours' hours; hours are counted from the first midnight.     *)
(* The greedy solver is modelled exactly, the MILP by its constraints: a   *)
(* solution is any feasible plan (its optimality and the battery are left  *)
(* out).  Costs are scaled by 2 * PccImport to stay integers.              *)
(***************************************************************************)
EXTENDS Integers, Sequences, FiniteSets, Functions

CONSTANTS
  None,
  Hours,         \* HOURS
  DeviceList,    \* optimizer.devices
  Levels,        \* the powers a MILP plan may use
  PccImport, PccExport,
  Scipy,         \* is scipy installed?
  Fallback,      \* DEFAULT_FALLBACK_PRICE
  Forecasts,     \* price forecasts: hour -> price, or None
  PvForecasts,   \* PV forecasts: hour -> power
  MaxHour,       \* bound of the clock
  Faults         \* "disk": no file can be written, "nostates": Home Assistant
                 \* returns no states, "restart": the process ends

Slots == 0..(Hours - 1)
Devs == 1..Len(DeviceList)
Device == [min : Nat, max : Nat, must_run : Nat, switchable : BOOLEAN,
           window : {<<>>} \cup (Slots \X Slots)]

ASSUME OptimizerAssumption ==
  /\ Hours \in Nat \ {0} /\ MaxHour \in Nat
  /\ DeviceList \in Seq(Device) /\ \A d \in Devs : DeviceList[d].min <= DeviceList[d].max
  /\ Levels \subseteq Nat /\ PccImport \in Nat \ {0} /\ PccExport \in Nat
  /\ Scipy \in BOOLEAN /\ Fallback \in Nat /\ None \notin Nat
  /\ Forecasts \subseteq [0..(MaxHour + Hours) -> Nat \cup {None}]
  /\ PvForecasts \subseteq [0..(MaxHour + Hours) -> Nat]
  /\ Faults \subseteq {"disk", "nostates", "restart"}

VARIABLES
  now, forecast, pv,   \* the world
  result, disk,        \* SGrOptimizer._last_result, optimizer_schedule.json
  offer,               \* the optimizer's part of the rules' last context
  latest               \* history: the last plan computed

vars == <<now, forecast, pv, result, disk, offer, latest>>

-----------------------------------------------------------------------------
(* Forecasts.                                                              *)

(* hourly_price_series: slot 0 is the current hour; a gap keeps the price  *)
(* of the last known hour.                                                 *)
SeriesFromZero ==                    \* mutant: a gap has the fallback price
  [h \in Slots |-> IF forecast[now + h] = None THEN Fallback ELSE forecast[now + h]]
Series ==
  LET last[h \in Slots] ==
        IF forecast[now + h] # None THEN forecast[now + h]
        ELSE IF h = 0 THEN Fallback ELSE last[h - 1]
  IN  last

PvSeries == [h \in Slots |-> pv[now + h]]

-----------------------------------------------------------------------------
(* The greedy solver.                                                      *)

(* An hour of a preferred window, which may wrap past midnight.            *)
InWindow(window, h) ==
  IF window = <<>> THEN TRUE
  ELSE LET lo == window[1]
           hi == window[2]
       IN  IF lo <= hi THEN lo <= h /\ h <= hi ELSE h >= lo \/ h <= hi

Below(a, b) == IF a < b THEN a ELSE b

(* hour_costs: the price less half of the share PV covers.                 *)
Cost(prices, sun) ==
  [h \in Slots |-> 2 * PccImport * prices[h] - Below(sun[h], PccImport) * prices[h]]

(* The first n hours of S in the stable order of hour_costs.               *)
DearerFirst(S, n, cost) ==          \* mutant: the sort is reversed
  {h \in S : Cardinality({j \in S : cost[j] > cost[h] \/ (cost[j] = cost[h] /\ j < h)}) < n}
Cheapest(S, n, cost) ==
  {h \in S : Cardinality({j \in S : cost[j] < cost[h] \/ (cost[j] = cost[h] /\ j < h)}) < n}

ToFill(d) == IF d.must_run = 0 THEN Hours ELSE d.must_run

InPreferred(d) == {h \in Slots : InWindow(d.window, h)}

(* Both passes: hours of the window first, then any hour below full power. *)
FirstPass(d, cost) == Cheapest(InPreferred(d), ToFill(d), cost)
SecondPassNever(d, cost) == {}      \* mutant: no second pass
SecondPass(d, cost) ==
  LET first == FirstPass(d, cost)
      left == {h \in Slots \ first : d.min < d.max}
  IN  Cheapest(left, ToFill(d) - Cardinality(first), cost)

Greedy(prices, sun) ==
  [d \in Devs |-> LET dev == DeviceList[d]
                      full == FirstPass(dev, Cost(prices, sun)) \cup
                              SecondPass(dev, Cost(prices, sun))
                  IN  [h \in Slots |-> IF h \in full THEN dev.max ELSE dev.min]]

-----------------------------------------------------------------------------
(* The MILP.                                                               *)

Total(f, S) == FoldFunctionOnSet(+, 0, f, S)

Load(power, h) == Total([d \in Devs |-> power[d][h]], Devs)

MustRunOnce(power, d) == Total(power, Slots) >= d.max     \* mutant: hours not counted
MustRun(power, d) == Total(power, Slots) >= d.must_run * d.max

(* The constraints on one device: a switchable one runs inside its window  *)
(* only, any other one always has its least power.                         *)
DevicePlans(d) ==
  {power \in [Slots -> Levels] :
     /\ \A h \in Slots :
          \/ d.switchable /\ power[h] = 0
          \/ (d.switchable => InWindow(d.window, h)) /\ power[h] \in d.min..d.max
     /\ MustRun(power, d)}

(* The connection point: import or export, each within its limit.          *)
WithinPcc(load, sun) == load - sun <= PccImport /\ sun - load <= PccExport

OwnPlans == [d \in Devs |-> DevicePlans(DeviceList[d])]
MilpPlans(sun) ==
  {power \in [Devs -> UNION {OwnPlans[d] : d \in Devs}] :
     /\ Scipy
     /\ \A d \in Devs : power[d] \in OwnPlans[d]
     /\ \A h \in Slots : WithinPcc(Load(power, h), sun[h])}

(* optimize: the greedy fallback also serves an infeasible MILP.           *)
Plans(prices, sun) ==
  LET milp == MilpPlans(sun)
  IN  IF milp # {} THEN [solver : {"milp"}, power : milp]
      ELSE [solver : {"greedy"}, power : {Greedy(prices, sun)}]

-----------------------------------------------------------------------------
(* The actions.                                                            *)

PersistNever(plan) == UNCHANGED disk        \* mutant: _persist is not called
Persist(plan) == IF plan.saved THEN disk' = plan ELSE UNCHANGED disk

(* run_optimizer; without states every price is the fallback, and a file   *)
(* that cannot be written is only logged.                                  *)
Optimize ==
  \E seen, saved \in BOOLEAN :
    LET prices == IF seen THEN Series ELSE [h \in Slots |-> Fallback] IN
    /\ seen \/ "nostates" \in Faults
    /\ saved \/ "disk" \in Faults
    /\ \E choice \in Plans(prices, PvSeries) :
         result' = [from |-> now, solver |-> choice.solver, power |-> choice.power,
                    prices |-> prices, sun |-> PvSeries, seen |-> seen, saved |-> saved]
    /\ latest' = result' /\ Persist(result')
    /\ UNCHANGED <<now, forecast, pv, offer>>

(* get_last_result: in RAM, else from the file.                            *)
LastResult == IF result # None THEN result ELSE disk

(* current_hour_power indexes the schedule with the hour of the day.       *)
CurrentHourPower(plan, d) == plan.power[d][now % Hours]

(* _build_optimizer_context.                                               *)
Offer ==
  /\ LastResult # None
  /\ result' = LastResult
  /\ offer' = [at |-> now, plan |-> LastResult,
               power |-> [d \in Devs |-> CurrentHourPower(LastResult, d)]]
  /\ UNCHANGED <<now, forecast, pv, disk, latest>>

Restart ==
  /\ "restart" \in Faults
  /\ result' = None /\ offer' = None
  /\ UNCHANGED <<now, forecast, pv, disk, latest>>

Tick == now < MaxHour /\ now' = now + 1
        /\ UNCHANGED <<forecast, pv, result, disk, offer, latest>>

Init ==
  /\ now = 0 /\ forecast \in Forecasts /\ pv \in PvForecasts
  /\ result = None /\ disk = None /\ offer = None /\ latest = None

Next == Optimize \/ Offer \/ Restart \/ Tick

Spec == Init /\ [][Next]_vars

-----------------------------------------------------------------------------
(* Properties.                                                             *)

Full(d) == {h \in Slots : latest.power[d][h] = DeviceList[d].max}

(* A plan gives every device its must_run_hours, whichever solver made it. *)
MustRunIsMet ==
  latest # None =>
    \A d \in Devs :
      Total(latest.power[d], Slots) >=
        Below(DeviceList[d].must_run, Hours) * DeviceList[d].max

(* The greedy solver runs a device in the cheapest hours its window has:   *)
(* no other choice of as many hours of the window costs less.              *)
NoCheaperChoice ==
  latest # None /\ latest.solver = "greedy" =>
    \A d \in Devs :
      LET cost == Cost(latest.prices, latest.sun)
          used == Full(d) \cap InPreferred(DeviceList[d])
      IN  DeviceList[d].min < DeviceList[d].max =>
            \A other \in SUBSET InPreferred(DeviceList[d]) :
              Cardinality(other) = Cardinality(used) =>
                Total(cost, used) <= Total(cost, other)

(* A plan sees the price of every hour the forecast knows, and no price    *)
(* from before the current hour.                                           *)
PricesAreKnown ==
  latest # None /\ latest.seen => \A h \in Slots :
    \/ \E j \in 0..h : /\ latest.prices[h] = forecast[latest.from + j]
                       /\ \A k \in (j + 1)..h : forecast[latest.from + k] = None
    \/ /\ latest.prices[h] = Fallback
       /\ \A j \in 0..h : forecast[latest.from + j] = None

(* Once computed and saved, the newest plan is the one the rules get,      *)
(* across restarts and until a newer one, saved or not, replaces it.       *)
LatestSurvives == latest # None /\ latest.saved => LastResult = latest

(* The claim of current_hour_power and hourly_price_series: the power      *)
(* offered is the power planned for this very hour.                        *)
PowerIsForThisHour ==
  offer # None /\ offer.at - offer.plan.from \in Slots =>
    \A d \in Devs : offer.power[d] = offer.plan.power[d][offer.at - offer.plan.from]

(* The claim of the docs: the fallback respects preferred_window.          *)
WindowIsRespected ==
  latest # None => \A d \in Devs :
    DeviceList[d].min < DeviceList[d].max => Full(d) \subseteq InPreferred(DeviceList[d])

(* The claim of the docs: must_run_hours 0 asks for no energy at all, so a *)
(* plan that minimises cost leaves the device at its least power.          *)
NoNeedNoRun ==
  latest # None => \A d \in Devs :
    DeviceList[d].must_run = 0 /\ DeviceList[d].min < DeviceList[d].max => Full(d) = {}

(* The claim of the docs: no plan exceeds the import limit.                *)
PccIsRespected ==
  latest # None => \A h \in Slots :
    Load(latest.power, h) - latest.sun[h] <= PccImport
=============================================================================
