--------------------------- MODULE RuleConditions ---------------------------
(***************************************************************************)
(* The condition language of rules_engine.py: from what Home Assistant     *)
(* answers to the value a rule yields in one evaluation, kill switch       *)
(* included.  The context it is evaluated in is that of Context.           *)
(*                                                                         *)
(* An expression is a sequence of words: Or, And, Not and comparisons.     *)
(* Only expressions of the documented grammar are considered.  The value   *)
(* of a condition is written out or a template with one placeholder.       *)
(***************************************************************************)
EXTENDS Context

CONSTANTS
  Or, And, Not,            \* words
  Rules,                   \* the conditions of a rule, in order
  Worlds(_),               \* what an evaluation of a rule may find: the local
                           \* time, Home Assistant, the summary, the plan
  Faults                   \* "ha": the REST API does not answer

(* The grammar: terms between operators, a term is a comparison behind any *)
(* number of NOTs.                                                         *)
Operators == {Or, And}
IsComparison(w) == w \notin Operators \cup {Not}
Grammatical(expr) ==
  /\ expr \in Seq(Range(expr)) /\ expr # <<>> /\ IsComparison(expr[Len(expr)])
  /\ expr[1] \notin Operators
  /\ \A i \in 1..(Len(expr) - 1) : expr[i + 1] \in Operators <=> IsComparison(expr[i])

IsCondition(c) ==
  /\ DOMAIN c = {"default", "when", "value"}
  /\ c.default \in BOOLEAN /\ (c.default \/ Grammatical(c.when))
  /\ IF "template" \in DOMAIN c.value THEN c.value.template \in STRING
     ELSE c.value.plain # None

(* t, summary and plan as in ContextOf; a state is a number or a text.     *)
IsHome(home) ==
  /\ DOMAIN home = {"states", "prices"}
  /\ \A e \in DOMAIN home.states : home.states[e] \in Int \cup Texts
  /\ home.prices \in Seq([hour : Int, price : Int])

IsWorld(w) ==
  /\ DOMAIN w = {"t", "home", "summary", "plan"}
  /\ w.t \in [hour : 0..23, minute : 0..59, weekday : 0..6]
  /\ IsHome(w.home)
  /\ w.summary \in {None} \cup [today : Int, tomorrow : Int, next : Int]
  /\ w.plan \in {None} \cup [power : [DOMAIN Loads -> Nat], savings : Int, self : Int]
  /\ Loads = <<>> => w.plan = None

ASSUME RuleConditionsAssumption ==
  /\ Or # And /\ Not \notin Operators /\ None \notin STRING
  /\ \A r \in Rules : r \in Seq(Range(r)) /\ \A i \in DOMAIN r : IsCondition(r[i])
  /\ \A r \in Rules : \A w \in Worlds(r) : IsWorld(w)
  /\ Faults \subseteq {"ha"}

VARIABLES
  rule,          \* rule.conditions
  world,         \* the clock, Home Assistant and the services, see Worlds
  outcome        \* the last evaluate() of the rule: what it saw and yielded

vars == <<rule, world, outcome>>

-----------------------------------------------------------------------------
(* _eval_expression.                                                       *)

Compared(op, a, b) ==
  CASE op = ">=" -> a >= b
    [] op = "<=" -> a <= b
    [] op = "!=" -> a # b
    [] op = ">"  -> a > b
    [] op = "<"  -> a < b
    [] op = "==" -> a = b

(* One comparison: a text takes part in == and != only, an unknown name is *)
(* 0 beside a number.                                                      *)
Comparison(c, ctx) ==
  LET left == IF c.key \in DOMAIN ctx THEN ctx[c.key]
              ELSE IF c.rhs \in Texts THEN None ELSE 0
      textual == {left, c.rhs} \cap (Texts \cup {None}) # {}
  IN  IF textual /\ c.op \notin {"==", "!="} THEN FALSE ELSE Compared(c.op, left, c.rhs)

(* int() and the casts of templates cut a number to an integer.            *)
Cut(x) == IF x >= 0 THEN 10 * (x \div 10) ELSE -(10 * ((-x) \div 10))

TimeRange(c, ctx) ==
  LET hour == Cut(ctx["hour"])
  IN  /\ IF c.from = "<=" THEN hour >= 10 * c.low ELSE hour > 10 * c.low
      /\ IF c.to = "<=" THEN hour <= 10 * c.high ELSE hour < 10 * c.high

Word(c, ctx) ==
  CASE c.form = "range" -> TimeRange(c, ctx)
    [] c.form = "compare" -> Comparison(c, ctx)
    [] c.form = "name" -> c.key \in DOMAIN ctx /\ ctx[c.key] # 0

(* str.split at one of the operators.                                      *)
Split(expr, op) ==
  LET cuts == {0, Len(expr) + 1} \cup {i \in 1..Len(expr) : expr[i] = op}
  IN  {SubSeq(expr, p[1] + 1, p[2] - 1) :
         p \in {q \in cuts \X cuts : q[1] < q[2] /\ cuts \cap (q[1] + 1)..(q[2] - 1) = {}}}

(* A word behind its NOTs.                                                 *)
Negated(expr, ctx) ==
  IF Word(expr[Len(expr)], ctx) THEN Len(expr) % 2 = 1 ELSE Len(expr) % 2 = 0

EvalAndFirst(expr, ctx) ==          \* mutant: the precedence before 0.2
  \A p \in Split(expr, And) : \E q \in Split(p, Or) : Negated(q, ctx)
Eval(expr, ctx) ==
  \E p \in Split(expr, Or) : \A q \in Split(p, And) : Negated(q, ctx)

(* _evaluate_conditions.                                                   *)
NeverByDefault(c, ctx) ==           \* mutant: the default is an empty `when'
  ~c.default /\ Eval(c.when, ctx)
Matches(c, ctx) == c.default \/ Eval(c.when, ctx)

(* int(float(rendered)) cuts every number to an integer; a text stays, and *)
(* so does a name that is not in the context, as it is written.            *)
Resolved(value, ctx) ==
  IF "template" \notin DOMAIN value THEN value.plain
  ELSE IF value.template \notin DOMAIN ctx THEN value.template
  ELSE IF ctx[value.template] \in Texts THEN ctx[value.template]
  ELSE Cut(ctx[value.template])

FirstMatch(conds, ctx) ==
  LET I == {i \in DOMAIN conds : Matches(conds[i], ctx)}
  IN  IF I = {} THEN None ELSE Resolved(conds[CHOOSE i \in I : \A j \in I : i <= j].value, ctx)

-----------------------------------------------------------------------------
(* The actions.                                                            *)

(* get_states yields an empty list when the request fails.                 *)
Answers == {world.home} \cup
           (IF "ha" \in Faults THEN {[states |-> <<>>, prices |-> <<>>]} ELSE {})

(* evaluate(): the kill switch, then the rule.                             *)
Evaluated(answer) ==
  LET ctx == ContextOf(world.t, answer, world.summary, world.plan)
  IN  [seen |-> answer, ctx |-> ctx,
       value |-> IF Is(answer.states, "enable_toggle", Off) THEN None ELSE FirstMatch(rule, ctx)]

Evaluate ==
  /\ \E answer \in Answers : outcome' = Evaluated(answer)
  /\ UNCHANGED <<rule, world>>

WorldChanges ==
  /\ world' \in Worlds(rule) /\ outcome' = None
  /\ UNCHANGED rule

Init == rule \in Rules /\ world \in Worlds(rule) /\ outcome = None

Next == Evaluate \/ WorldChanges

Spec == Init /\ [][Next]_vars

-----------------------------------------------------------------------------
(* Properties.                                                             *)

(* The documented meaning, as a machine that reads an expression from left *)
(* to right: `any' holds the finished disjuncts, `all' the current one,    *)
(* `pos' whether an even number of NOTs was read since the last word.      *)
Read(m, w, ctx) ==
  IF w = Or THEN [any |-> m.any \/ m.all, all |-> TRUE, pos |-> TRUE]
  ELSE IF w = And THEN [m EXCEPT !.pos = TRUE]
  ELSE IF w = Not THEN [m EXCEPT !.pos = ~@]
  ELSE [m EXCEPT !.all = @ /\ (Word(w, ctx) <=> m.pos)]

Meaning(expr, ctx) ==
  LET read[n \in 0..Len(expr)] ==
        IF n = 0 THEN [any |-> FALSE, all |-> TRUE, pos |-> TRUE]
        ELSE Read(read[n - 1], expr[n], ctx)
  IN  read[Len(expr)].any \/ read[Len(expr)].all

Now == outcome.ctx
Yields(i) == Resolved(rule[i].value, Now)

(* AND binds tighter than OR, NOT tighter than AND, and the first condition *)
(* that holds in the states it was given, or is a default, decides.        *)
FirstMatchWins ==
  outcome # None /\ outcome.value # None =>
    \E i \in DOMAIN rule :
      /\ Yields(i) = outcome.value
      /\ rule[i].default \/ Meaning(rule[i].when, Now)
      /\ \A j \in 1..(i - 1) : ~rule[j].default /\ ~Meaning(rule[j].when, Now)

(* A rule yields nothing only when no condition holds, or it is paused.    *)
NothingIsMissed ==
  outcome # None /\ outcome.value = None =>
    \/ Is(outcome.seen.states, "enable_toggle", Off)
    \/ \A i \in DOMAIN rule : ~rule[i].default /\ ~Meaning(rule[i].when, Now)

(* The flag for the lowest quartile, against a count instead of a sort: it *)
(* is set when nothing today is cheaper than now, or so few hours are that *)
(* they and the present one make up no more than a quarter of the day.     *)
QuartileIsCheapest ==
  outcome # None /\ "spot_price" \in DOMAIN outcome.seen.states =>
    LET prices == outcome.seen.prices
        today == TodaysPrices(prices)
        price == outcome.seen.states["spot_price"]
        cheaper == Cardinality({i \in today : prices[i].price < price})
    IN  (Now["tariff_in_lowest_quartile_today"] = 1) <=>
          /\ today # {} /\ price \notin Texts
          /\ cheaper = 0 \/ 4 * (cheaper + 1) <= Cardinality(today)

(* Whatever Home Assistant answers, the house is offered the energy of a   *)
(* car only when a car really is able to: enabled, above its reserve by    *)
(* the margin, plugged where that is required, at an hour on the arc of    *)
(* the clock from the start of its window to the end.  When Home Assistant *)
(* answers, a car that is able to is offered.  That is so as long as no    *)
(* sensor of extra: is named hour.                                         *)
Arc(w) ==
  IF w = <<>> THEN 0..23
  ELSE LET hours == IF w[2] >= w[1] THEN w[2] - w[1] ELSE w[2] - w[1] + 24
       IN  {(w[1] + i) % 24 : i \in 0..(hours - 1)}

IsAble(v) ==
  LET states == world.home.states
      soc == "soc_" \o v.slug
      plugged == "plugged_" \o v.slug
  IN  /\ v.enabled /\ v.capacity > 0 /\ world.t.hour \in Arc(v.window)
      /\ soc \in DOMAIN states /\ states[soc] \notin Texts
      /\ states[soc] > v.min_soc + Margin
      /\ v.require_plugged => plugged \in DOMAIN states /\ states[plugged] = On

OfferIsReal ==
  outcome # None =>
    LET able == \E k \in Cars : IsAble(Vehicles[k])
    IN  /\ Now["v2h_available"] = 1 => able /\ outcome.seen = world.home
        /\ able /\ outcome.seen = world.home => Now["v2h_available"] = 1

(* The claim of the docs: the default, anywhere, is the fallback when      *)
(* nothing matched.                                                        *)
DefaultIsFallback ==
  outcome # None =>
    \A i \in DOMAIN rule :
      rule[i].default /\ outcome.value = Yields(i) =>
        \A j \in DOMAIN rule : rule[j].default \/ ~Meaning(rule[j].when, Now)

(* The claim of rules-dsl.md: a comparison whose left side is no name of   *)
(* the context is false.                                                   *)
UnknownIsFalse ==
  outcome # None /\ outcome.value # None =>
    \A i \in DOMAIN rule :
      Yields(i) = outcome.value /\ Len(rule[i].when) = 1 =>
        rule[i].when[1].key \in DOMAIN Now

(* The claim of README.md: the engine idles while Home Assistant's REST    *)
(* API cannot be reached.                                                  *)
IdlesWithoutHa == outcome # None /\ outcome.seen.states = <<>> => outcome.value = None

(* The claim of the docs: enable_toggle pauses the engine when off.        *)
PausedWhenOff ==
  outcome # None /\ Is(world.home.states, "enable_toggle", Off) => outcome.value = None

(* The claim of the docs: numeric results of a template are cast to int or *)
(* float.  A fraction does not survive.                                    *)
TemplateKeepsValue ==
  outcome # None /\ outcome.value # None =>
    \A i \in DOMAIN rule :
      "template" \in DOMAIN rule[i].value /\ Yields(i) = outcome.value =>
        outcome.value = Now[rule[i].value.template]

(* The claim of a comment: ev_soc and its like speak of the first vehicle. *)
AliasesAreFirst ==
  outcome # None /\ Vehicles # <<>> =>
    Now["ev_v2h_available"] = Car(1, Now["hour"], outcome.seen.states).v2h_available

(* The claim of the docs: the minimum of the next three hours.  What is    *)
(* left of the present hour does not count.                                *)
ThisHourCounts ==
  outcome # None /\ "spot_price" \in DOMAIN outcome.seen.states =>
    \A i \in DOMAIN outcome.seen.prices :
      outcome.seen.prices[i].hour = world.t.hour =>
        Now["tariff_next_3h_min"] <= outcome.seen.prices[i].price
=============================================================================
