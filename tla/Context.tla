------------------------------ MODULE Context -------------------------------
(***************************************************************************)
(* _build_context of rules_engine.py: what the rules see of the states of  *)
(* Home Assistant, the price and PV forecasts, the optimizer's schedule    *)
(* and the cars.                                                           *)
(*                                                                         *)
(* A context is a function from names to values.  Booleans are 0 and 1, as *)
(* float() and bool() see them; numbers count tenths of their unit, shares *)
(* of a capacity tenths of a percent of it; texts are model values.  An    *)
(* entity is named by the sensor it is mapped to, a forecast price has the *)
(* hour it starts in, counted from the last midnight.  The clock outside   *)
(* the context, and the windows, count whole hours and minutes.            *)
(***************************************************************************)
EXTENDS Integers, Sequences, FiniteSets, FiniteSetsExt

CONSTANTS
  None,
  On, Off, Unavailable,    \* states that are no numbers
  Sensor, OpenMeteo, NoSource,  \* values of pv_forecast_source
  PvArrays,                \* has pv_arrays: an enabled array?
  Extra,                   \* names of sensors: beyond the known ones
  PccLimit, Capacity,      \* grid_connection_limit_w, battery_capacity_kwh
  Loads,                   \* optimizer.devices: slug and volts times phases
  Vehicles                 \* vehicles, in order

Texts == {On, Off, Unavailable, Sensor, OpenMeteo, NoSource}

ASSUME ContextAssumption ==
  /\ Texts \cap Int = {} /\ None \notin Int \cup Texts
  /\ PvArrays \in BOOLEAN /\ PccLimit \in Nat /\ Capacity \in Nat
  /\ Loads \in Seq([slug : STRING, volts : Nat \ {0}])
  /\ Vehicles \in Seq([slug : STRING, enabled : BOOLEAN, min_soc : Nat, capacity : Nat,
                       require_plugged : BOOLEAN, window : {<<>>} \cup (0..24) \X (0..24)])

-----------------------------------------------------------------------------
(* States of Home Assistant.                                               *)

Bit(b) == IF b THEN 1 ELSE 0
Above(x, y) == IF x > y THEN x - y ELSE 0          \* max(0, x - y)

(* A part of the context goes before the parts set earlier.                *)
f ++ g == [k \in DOMAIN f \cup DOMAIN g |-> IF k \in DOMAIN f THEN f[k] ELSE g[k]]

UnknownReadsAsFull(states, e) ==                   \* mutant
  IF e \in DOMAIN states /\ states[e] \notin Texts THEN states[e] ELSE 1000
Number(states, e) == IF e \in DOMAIN states /\ states[e] \notin Texts THEN states[e] ELSE 0
Is(states, e, text) == e \in DOMAIN states /\ states[e] = text

(* The first of some candidate entities that satisfies a test.             *)
FirstOf(candidates, Good(_)) ==
  LET I == {i \in DOMAIN candidates : Good(candidates[i])}
  IN  IF I = {} THEN None ELSE candidates[Min(I)]

-----------------------------------------------------------------------------
(* The parts of the context.                                               *)

Clock(t) ==
  [hour |-> 10 * t.hour, minute |-> 10 * t.minute, minute_in_quarter |-> 10 * (t.minute % 15),
   weekday |-> 10 * t.weekday, is_weekend |-> Bit(t.weekday >= 5)]

TimeOfDay(hour) ==
  [is_peak |-> Bit(hour \in 70..90 \cup 170..200),
   is_offpeak |-> Bit(hour < 60 \/ hour >= 220),
   is_solar_window |-> Bit(hour \in 100..160)]

Measured == {"spot_price", "pv_power", "house_consumption", "battery_soc", "grid_export",
             "grid_import", "temperature_outdoor", "pv_forecast_kwh",
             "pv_forecast_today_remaining_kwh", "pv_current_hour_kwh",
             "pv_forecast_today_kwh"}
Numbers(states) == [k \in Measured \cup Extra |-> Number(states, k)]

(* The self-computed PV forecast stands in for a sensor that reads 0.  In  *)
(* the other case a sensor of extra: may have its names.                   *)
WithPvForecast(number, summary) ==
  LET forecast == number["pv_forecast_kwh"]
  IN  IF forecast # 0 \/ ~PvArrays
      THEN number ++ [pv_forecast_next_4h_kwh |-> 0,
                      pv_forecast_source |-> IF forecast # 0 THEN Sensor ELSE NoSource]
      ELSE IF summary = None
      THEN [pv_forecast_next_4h_kwh |-> 0, pv_forecast_source |-> NoSource] ++ number
      ELSE [pv_forecast_kwh |-> summary.tomorrow, pv_forecast_today_kwh |-> summary.today,
            pv_forecast_next_4h_kwh |-> summary.next, pv_forecast_source |-> OpenMeteo] ++ number

Energy(number, tomorrow) ==
  LET surplus == Above(number["pv_power"], number["house_consumption"])
  IN  [surplus_pv |-> surplus, has_surplus |-> Bit(surplus > 5000),
       home_deficit_w |-> Above(number["house_consumption"], number["pv_power"]),
       expect_high_pv_tomorrow |-> Bit(tomorrow > 200),
       expect_low_pv_tomorrow |-> Bit(0 < tomorrow /\ tomorrow < 80)]

Presence(states) ==
  LET away == Is(states, "away_mode", On)
  IN  [away_mode |-> Bit(away), at_home |-> Bit(~away), away_effective |-> Bit(away)]

(* resolve_grid_co2, in g/kWh: intensity, else the share of fossil fuels.  *)
GridCo2(states) ==
  LET Positive(e) == Number(states, e) > 0
      Share(e) == e \in DOMAIN states /\ states[e] \notin Texts /\ states[e] \in 0..1000
      intensity == FirstOf(<<"co2_intensity", "co2_signal_intensity">>, Positive)
      fossil == FirstOf(<<"fossil_percentage", "co2_signal_fossil">>, Share)
  IN  [grid_co2_kg_per_kwh |->
         IF intensity # None THEN states[intensity]
         ELSE IF fossil # None THEN 500 + 5 * states[fossil] ELSE 1280]

Pcc(number) ==
  [pcc_power_w |-> number["grid_import"] - number["grid_export"], pcc_limit_w |-> PccLimit,
   pcc_headroom_w |-> IF PccLimit = 0 THEN 0
                      ELSE Above(PccLimit, Above(number["grid_import"], 0)),
   pcc_overload |-> Bit(PccLimit > 0 /\ number["grid_import"] > PccLimit)]

Battery(soc) ==
  [battery_full |-> Bit(soc > 950), battery_low |-> Bit(0 < soc /\ soc < 200),
   battery_capacity_kwh |-> Capacity, battery_available_kwh |-> Capacity * soc,
   battery_room_kwh |-> Capacity * Above(1000, soc)]

(* A mapped entity, else the first candidate Home Assistant has.           *)
Dso(states) ==
  LET Present(e) == e \in DOMAIN states
      active == FirstOf(<<"dso_curtailment_active", "grid_curtailment_active">>, Present)
      factor == FirstOf(<<"dso_curtailment_factor", "grid_curtailment_factor">>, Present)
  IN  [dso_curtailment_active |-> Bit(Is(states, active, On)),
       dso_curtailment_factor |-> Number(states, factor)]

(* prices: the forecast attribute of the spot price, in any order.  An     *)
(* hour that has begun is no longer one of the next three.                 *)
NextThree(t, prices) ==
  LET from == IF t.minute = 0 THEN t.hour ELSE t.hour + 1
  IN  {i \in DOMAIN prices : prices[i].hour \in from..(from + 2)}

QuartileAfter(n) == (n \div 4) + 1                  \* mutant: sorted_prices[n // 4]
Quartile(n) == IF n < 8 THEN 1 ELSE n \div 4        \* sorted_prices[max(0, n // 4 - 1)]

(* Where sorted() puts the i-th price: equal ones stay in their order.     *)
Rank(prices, I, i) ==
  Cardinality({j \in I : \/ prices[j].price < prices[i].price
                        \/ /\ prices[j].price = prices[i].price
                           /\ j <= i})

TodaysPrices(prices) == {i \in DOMAIN prices : prices[i].hour \in 0..23}
InLowestQuartile(current, prices) ==
  LET today == TodaysPrices(prices)
  IN  /\ today # {} /\ current \in Int
      /\ \E i \in today : /\ Rank(prices, today, i) = Quartile(Cardinality(today))
                          /\ current <= prices[i].price

Tariff(t, states, prices) ==
  LET next == NextThree(t, prices)
      values == {prices[i].price : i \in next}
      known == "spot_price" \in DOMAIN states /\ next # {}
  IN  [tariff_next_3h_min |-> IF known THEN Min(values) ELSE 0,
       tariff_next_3h_max |-> IF known THEN Max(values) ELSE 0,
       tariff_next_3h_avg |->
         IF known THEN SumFunction([i \in next |-> prices[i].price]) \div Cardinality(next)
         ELSE 0,
       tariff_in_lowest_quartile_today |->
         Bit("spot_price" \in DOMAIN states /\ InLowestQuartile(states["spot_price"], prices))]

-----------------------------------------------------------------------------
(* The cars.                                                               *)

Cars == DOMAIN Vehicles
Margin == 50                        \* V2H_SOC_SAFETY_MARGIN

InWindowUnwrapped(w, h) == w = <<>> \/ (10 * w[1] <= h /\ h < 10 * w[2])      \* mutant
InWindow(w, h) ==
  IF w = <<>> THEN TRUE
  ELSE IF w[1] <= w[2] THEN 10 * w[1] <= h /\ h < 10 * w[2]
  ELSE h >= 10 * w[1] \/ h < 10 * w[2]

Car(k, h, states) ==
  LET v == Vehicles[k]
      soc == Number(states, "soc_" \o v.slug)
      plugged == Is(states, "plugged_" \o v.slug, On)
      reserve == v.capacity * Above(soc, v.min_soc)
  IN  [soc |-> soc, plugged |-> Bit(plugged),
       charging_power |-> Number(states, "power_" \o v.slug),
       v2h_available |-> Bit(/\ v.enabled /\ (v.require_plugged => plugged)
                             /\ soc > v.min_soc + Margin /\ InWindow(v.window, h)
                             /\ reserve > 0),
       v2h_reserve_kwh |-> reserve]

CarKeys == {"soc", "plugged", "charging_power", "v2h_available", "v2h_reserve_kwh"}

(* Cars whose names have one slug share its names: the last one has them.  *)
LastNamed(slug) == Max({k \in Cars : Vehicles[k].slug = slug})

CarKey(slug, short) == "ev_" \o slug \o "_" \o short
FirstCarKey(short) == "ev_" \o short

CarContext(h, states) ==
  LET Named(slug) == Car(LastNamed(slug), h, states)
      slugs == {Vehicles[k].slug : k \in Cars}
      able == {k \in Cars : Car(k, h, states).v2h_available = 1}
      named == [key \in {CarKey(p[1], p[2]) : p \in slugs \X CarKeys} |->
                  LET p == CHOOSE q \in slugs \X CarKeys : key = CarKey(q[1], q[2])
                  IN  Named(p[1])[p[2]]]
      first == [key \in {FirstCarKey(x) : x \in CarKeys} |->
                  Named(Vehicles[1].slug)[CHOOSE x \in CarKeys : key = FirstCarKey(x)]]
      total == [v2h_available |-> Bit(able # {}),
                v2h_reserve_kwh_total |->
                  SumFunction([k \in able |-> Car(k, h, states).v2h_reserve_kwh])]
  IN  IF Vehicles = <<>> THEN total ELSE total ++ first ++ named

-----------------------------------------------------------------------------
(* _build_optimizer_context; plan: the last result, or None: the power of  *)
(* each load in this hour, the savings and the self-consumption.  Of loads *)
(* with one slug the last has the names.                                   *)
LoadKeys == {"power_w", "on", "current_a"}
LoadKey(slug, short) == "optimizer_" \o slug \o "_" \o short

LoadContext(plan) ==
  LET Load(i) == [power_w |-> plan.power[i], on |-> Bit(plan.power[i] > 0),
                  current_a |-> plan.power[i] \div Loads[i].volts]
      named == [key \in {LoadKey(Loads[p[1]].slug, p[2]) : p \in (DOMAIN Loads) \X LoadKeys} |->
                  LET Made(i, x) == key = LoadKey(Loads[i].slug, x)
                      last == Max({i \in DOMAIN Loads : \E x \in LoadKeys : Made(i, x)})
                  IN  Load(last)[CHOOSE x \in LoadKeys : Made(last, x)]]
      total == [optimizer_enabled |-> Bit(Loads # <<>>),
                optimizer_savings_chf |-> IF plan = None THEN 0 ELSE plan.savings,
                optimizer_self_consumption_pct |-> IF plan = None THEN 0 ELSE plan.self]
  IN  IF plan = None THEN total ELSE total ++ named

(* A name made of a slug is none of those the properties speak of.         *)
ASSUME NamesApart ==
  \A name \in {"v2h_available", "tariff_in_lowest_quartile_today"} :
    /\ \A i \in DOMAIN Loads, x \in LoadKeys : LoadKey(Loads[i].slug, x) # name
    /\ \A k \in Cars, x \in CarKeys : CarKey(Vehicles[k].slug, x) # name /\ FirstCarKey(x) # name

(* t: the local time; home: what Home Assistant answered, states and the   *)
(* price forecast; summary, plan: PvForecastService and SGrOptimizer.  A   *)
(* sensor of extra: goes before the clock, so it may even be the hour the  *)
(* rules and the cars' windows see.                                        *)
ContextOf(t, home, summary, plan) ==
  LET number == Numbers(home.states)
      hour == (number ++ Clock(t))["hour"]
      forecast == WithPvForecast(number, summary)
      measured == Energy(number, forecast["pv_forecast_kwh"]) ++ TimeOfDay(hour)
                  ++ forecast ++ Clock(t)
      house == Dso(home.states) ++ Battery(number["battery_soc"]) ++ Pcc(number)
               ++ GridCo2(home.states) ++ Presence(home.states)
  IN  LoadContext(plan) ++ CarContext(hour, home.states)
      ++ Tariff(t, home.states, home.prices) ++ house ++ measured
=============================================================================
