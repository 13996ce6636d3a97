-------------------------- MODULE MCRuleConditions --------------------------
(* Instances of RuleConditions for TLC.                                    *)
EXTENDS RuleConditions

Name(k) == [form |-> "name", key |-> k]
Compare(k, op, v) == [form |-> "compare", key |-> k, op |-> op, rhs |-> v]
When(e, v) == [default |-> FALSE, when |-> e, value |-> [plain |-> v]]
Default(v) == [default |-> TRUE, when |-> <<>>, value |-> [plain |-> v]]
Template(e, k) == [default |-> FALSE, when |-> e, value |-> [template |-> k]]

Cheap == Compare("spot_price", "<", 10)
Sunny == Name("has_surplus")
Known == Compare("pv_forecast_source", "==", Sensor)
Solar == [form |-> "range", low |-> 10, from |-> "<=", to |-> "<", high |-> 16]

\* Every expression of up to three words with their NOTs.
Terms == {<<w>> : w \in {Cheap, Sunny, Solar}} \cup {<<Not, Known>>, <<Not, Not, Sunny>>}
Twos == {a \o <<op>> \o b : a \in Terms, op \in {Or, And}, b \in Terms}
Threes == {a \o <<op>> \o b : a \in Twos, op \in {Or, And}, b \in Terms}

Expressions == Terms \cup Twos \cup Threes
OneOfEach == {<<When(e, 40), When(<<Sunny>>, 20), Default(10)>> :
                e \in Expressions}
NoDefault == {<<When(e, 40)>> : e \in Twos}

\* Rules about prices and about cars.
CheapRule == <<When(<<Name("tariff_in_lowest_quartile_today")>>, 40),
               Template(<<Compare("tariff_next_3h_min", "<", 30)>>, "tariff_next_3h_min")>>
CarRule == <<Template(<<Name("v2h_available")>>, "v2h_reserve_kwh_total"),
             When(<<Compare("ev_soc", "<", 500)>>, 60)>>
AllRules == OneOfEach \cup NoDefault \cup {CheapRule, CarRule}

DefaultFirst == {<<Default(20), When(<<Sunny>>, 40)>>}
CheapOnly == {<<When(<<Cheap>>, 40)>>}
Unmapped == {<<When(<<Compare("heat_demand", "<", 10)>>, 40)>>}

TwoCars == <<[slug |-> "a", enabled |-> TRUE, min_soc |-> 500, capacity |-> 60,
              require_plugged |-> TRUE, window |-> <<22, 6>>],
             [slug |-> "b", enabled |-> TRUE, min_soc |-> 300, capacity |-> 40,
              require_plugged |-> FALSE, window |-> <<10, 16>>]>>
OneSlug == <<TwoCars[1], [TwoCars[2] EXCEPT !.slug = "a"]>>
Heater == <<[slug |-> "heater", volts |-> 230]>>

World(h, m, states, prices) ==
  [t |-> [hour |-> h, minute |-> m, weekday |-> 5],
   home |-> [states |-> states, prices |-> prices],
   summary |-> [today |-> 90, tomorrow |-> 210, next |-> 40], plan |-> [power |-> <<2000>>, savings |-> 3, self |-> 700]]

State(price, pv, forecast, toggle) ==
  [spot_price |-> price, pv_power |-> pv, house_consumption |-> 3000,
   pv_forecast_kwh |-> forecast, away_mode |-> Off, enable_toggle |-> toggle]
Houses == {State(5, 10000, 120, On), State(25, 10000, 0, On), State(Unavailable, 4000, 120, On),
           State(25, 0, 0, On), State(25, 10000, 0, Off)}
HouseWorlds == {World(h, 0, s, <<>>) : h \in {8, 10, 16}, s \in Houses}

\* Prices of a day of up to nine known hours, one more of tomorrow.
Hours(ps) == [i \in DOMAIN ps |-> [hour |-> 10 + i, price |-> ps[i]]]
Lists == {<<>>} \cup {Hours(ps) : ps \in [1..4 -> {10, 25, 39}]}
           \cup {Hours(SubSeq(<<30, x, 10, 20, 5, 39, 10, 40, 7>>, 1, n)) :
                   x \in {5, 10, 25}, n \in 1..9}
Forecasts == Lists \cup {l \o <<[hour |-> 30, price |-> 1]>> : l \in Lists}
PriceWorlds == {World(t[1], t[2], [spot_price |-> p], l) :
                  t \in {<<11, 0>>, <<13, 10>>}, p \in {5, 10, 25, 39, Unavailable}, l \in Forecasts}

\* Each car around its reserve and its margin, plugged or not, or unknown.
Charges == {500, 550, 551}
CarStates == {[soc_a |-> s, plugged_a |-> p, soc_b |-> r, plugged_b |-> Off] :
                s \in Charges \cup {Unavailable}, p \in {On, Off}, r \in {300, 350, 360, Unavailable}}
             \cup {[soc_a |-> 551, soc_b |-> 350], [plugged_a |-> On]}
CarWorlds == {World(h, 0, s, <<>>) : h \in {0, 5, 6, 10, 15, 16, 21, 22}, s \in CarStates}

AllWorlds(r) == IF r = CheapRule THEN PriceWorlds ELSE IF r = CarRule THEN CarWorlds ELSE HouseWorlds
=============================================================================
