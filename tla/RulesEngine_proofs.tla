------------------------- MODULE RulesEngine_proofs -------------------------
(***************************************************************************)
(* Proofs about RulesEngine, for every value of its constants.             *)
(***************************************************************************)
EXTENDS RulesEngine, FiniteSetTheorems, WellFoundedInduction, TLAPS

-----------------------------------------------------------------------------
(* The ledger operators.                                                   *)

OneOpen(periods) == \A q, r \in OpenPeriods(periods) : q = r

(* Recording a write keeps a well-formed list well-formed and leaves a     *)
(* period open exactly if the value written is a lock.                     *)
LEMMA RecordKeeps ==
  ASSUME NEW periods \in SUBSET Period, OneOpen(periods), NEW t \in Nat,
         NEW isLock \in BOOLEAN, None \notin Nat
  PROVE  /\ Record(periods, t, isLock) \in SUBSET Period
         /\ OneOpen(Record(periods, t, isLock))
         /\ (OpenPeriods(Record(periods, t, isLock)) # {}) = isLock
<1>1. CASE isLock = (OpenPeriods(periods) # {})
  BY <1>1 DEF Record, OneOpen
<1>2. CASE isLock /\ OpenPeriods(periods) = {}
  <2> DEFINE new == [start |-> t, end |-> None]
  <2>1. Record(periods, t, isLock) = periods \cup {new}
    BY <1>2 DEF Record
  <2>2. new \in Period /\ new.end = None
    BY DEF Period
  <2> HIDE DEF new
  <2>3. \A q : q \in periods => q.end # None
    BY <1>2 DEF OpenPeriods
  <2>4. OpenPeriods(periods \cup {new}) = {new}
    BY <2>2, <2>3 DEF OpenPeriods
  <2>5. OpenPeriods(Record(periods, t, isLock)) = {new}
    BY <2>1, <2>4
  <2> QED BY <1>2, <2>1, <2>2, <2>5 DEF OneOpen
<1>3. CASE ~isLock /\ OpenPeriods(periods) # {}
  <2>1. PICK q \in OpenPeriods(periods) : OpenPeriods(periods) = {q}
    BY <1>3 DEF OneOpen
  <2>2. q \in Period /\ q.start \in Nat
    BY <2>1 DEF OpenPeriods, Period
  <2>3. LastOpen(periods) = q
    BY <2>1, <2>2 DEF LastOpen
  <2>4. Record(periods, t, isLock) = (periods \ {q}) \cup {[start |-> q.start, end |-> t]}
    BY <1>3, <2>3 DEF Record
  <2>5. [start |-> q.start, end |-> t] \in Period /\ t # None
    BY <2>2 DEF Period
  <2>6. OpenPeriods(Record(periods, t, isLock)) = {}
    BY <2>1, <2>4 DEF OpenPeriods
  <2> QED BY <1>3, <2>4, <2>5, <2>6 DEF OneOpen
<1> QED BY <1>1, <1>2, <1>3

(* Pruning never drops an open period.                                     *)
LEMMA PruneKeeps ==
  ASSUME NEW periods \in SUBSET Period, OneOpen(periods), NEW t \in Nat,
         Window \in Nat \ {0}
  PROVE  /\ Prune(periods, t) \in SUBSET Period
         /\ OneOpen(Prune(periods, t))
         /\ OpenPeriods(Prune(periods, t)) = OpenPeriods(periods)
<1>1. OpenPeriods(Prune(periods, t)) = OpenPeriods(periods)
  BY DEF Prune, OpenPeriods, EndOf
<1> QED BY <1>1 DEF Prune, OneOpen


-----------------------------------------------------------------------------
(* Typing.  TypeOK alone is not inductive: an evaluator between rules or   *)
(* at a write must be at a configured rule, a write carries a value, and a *)
(* list of periods has one open period at most (LastOpen needs it).        *)

AtRule == \A e \in Evaluators :
  /\ pc[e] \in {"rule", "ramp", "write"} => at[e] \in RuleIds
  /\ pc[e] = "idle" => at[e] = 1
  /\ Writing(e) => pend[e].value \in Values
LedgersOK == \A p \in Points : OneOpen(ledger[p]) /\ OneOpen(diskLedger[p])
TypeInv == TypeOK /\ AtRule /\ LedgersOK

(* The rule an evaluator is at is a rule, and its point a point.           *)
LEMMA RuleType ==
  ASSUME TypeInv, NEW e \in Evaluators, pc[e] \in {"rule", "ramp", "write"}
  PROVE  /\ RuleOf(e) \in Rule
         /\ PointOf(e) \in Points
         /\ RuleOf(e).point = PointOf(e)
<1>1. at[e] \in 1..Len(Rules)
  BY DEF TypeInv, AtRule, RuleIds
<1>2. Rules \in Seq(Rule)
  BY EngineAssumption
<1>3. RuleOf(e) \in Rule
  BY <1>1, <1>2 DEF RuleOf
<1>4. \A r \in Rule : r.point \in Points
  BY DEF Rule
<1> QED BY <1>3, <1>4 DEF PointOf

(* A vehicle's count of today is a number.                                  *)
LEMMA CountTodayType == ASSUME TypeOK, NEW k \in Cars PROVE CountToday(k) \in Nat
<1>1. v2hCount[k] \in Nat
  BY DEF TypeOK
<1> QED BY <1>1 DEF CountToday

(* A day is a number.                                                      *)
LEMMA TodayType == ASSUME TypeOK PROVE Today \in Nat
<1>1. now \in 0..MaxTime
  BY DEF TypeOK
<1> QED BY <1>1, EngineAssumption DEF Today

(* The empty write is a write record.                                      *)
LEMMA NoWriteType == NoWrite \in Pending
BY DEF NoWrite, Pending

(* A coroutine outside evaluate() has the empty context.                    *)
LEMMA NoContextType == NoContext \in Context
BY EngineAssumption DEF NoContext, Context

(* The vehicle of a charger, if there is one, is one of the fleet.          *)
LEMMA CarForType == ASSUME NEW p, CarFor(p) # None PROVE CarFor(p) \in Cars
<1>1. ASSUME NEW S \in SUBSET Cars, S # {} PROVE Least(S) \in S
  <2> DEFINE R == OpToRel(<, Nat)
  <2>1. Cars \subseteq Nat
    BY EngineAssumption DEF Cars
  <2>2. PICK k \in S : \A j \in S : ~(<<j, k>> \in R)
    BY <1>1, <2>1, NatLessThanWellFounded, WFMin
  <2>3. \A j \in S : k <= j
    <3> SUFFICES ASSUME NEW j \in S PROVE ~(j < k)
      BY <2>1
    <3> QED BY <2>1, <2>2 DEF OpToRel
  <2> QED BY <2>3 DEF Least
<1> DEFINE bound == {k \in Cars : p \in Vehicles[k].charger}
           able == {k \in Cars : Vehicles[k].enabled}
<1>2. CarFor(p) = IF bound # {} THEN Least(bound) ELSE IF able # {} THEN Least(able) ELSE None
  BY DEF CarFor
<1>3. bound \in SUBSET Cars /\ able \in SUBSET Cars
  OBVIOUS
<1> HIDE DEF bound, able
<1> QED BY <1>1, <1>2, <1>3

(* A value an authorised discharge is clamped to is one of the values.      *)
LEMMA ClampType ==
  ASSUME NEW p, NEW v \in Values, v \in Negative => CarFor(p) # None
  PROVE  AfterClamp(p, v) \in Values
<1>1. CASE v \in Negative
  <2>1. CarFor(p) \in Cars
    BY <1>1, CarForType
  <2>2. Vehicles[CarFor(p)] \in Vehicle
    BY <2>1, EngineAssumption DEF Cars
  <2> QED BY <1>1, <2>2 DEF AfterClamp, Vehicle
<1> QED BY <1>1 DEF AfterClamp

(* The first state is well typed.                                          *)
LEMMA InitType == ASSUME Init PROVE TypeInv
<1>1. TypeOK
  BY EngineAssumption, NoWriteType, NoContextType DEF Init, TypeOK, InitialDelays, Phase
<1>2. AtRule
  BY DEF Init, AtRule, Writing
<1>3. LedgersOK
  BY DEF Init, LedgersOK, OneOpen, OpenPeriods
<1> QED BY <1>1, <1>2, <1>3 DEF TypeInv

(* What NextRule and Return do to the coroutines, whatever the handler     *)
(* around them does to the rest.                                           *)
CoroType ==
  /\ holder \in Evaluators \cup {None} /\ due \in Nat
  /\ pc \in [Evaluators -> Phase] /\ at \in [Evaluators -> Nat \ {0}]
  /\ context \in [Evaluators -> Context] /\ pend \in [Evaluators -> Pending]

(* Going on with the next rule keeps the types.                            *)
LEMMA NextRuleType ==
  ASSUME TypeInv, NEW e \in Evaluators, NextRule(e), at[e] \in RuleIds
  PROVE  CoroType' /\ AtRule'
<1>1. /\ holder' \in Evaluators \cup {None} /\ due' \in Nat
      /\ context' \in [Evaluators -> Context]
  BY DEF NextRule, TypeInv, TypeOK
<1>2. pend' \in [Evaluators -> Pending]
  BY NoWriteType DEF NextRule, TypeInv, TypeOK
<1>3. pc' \in [Evaluators -> Phase]
  BY DEF NextRule, TypeInv, TypeOK, Phase
<1>4. at' \in [Evaluators -> Nat \ {0}]
  <2>1. at \in [Evaluators -> Nat \ {0}] /\ at[e] + 1 \in Nat \ {0}
    BY DEF TypeInv, TypeOK
  <2>2. at' = at \/ at' = [at EXCEPT ![e] = at[e] + 1]
    BY DEF NextRule
  <2> QED BY <2>1, <2>2
<1>5. AtRule'
  BY EngineAssumption DEF NextRule, TypeInv, TypeOK, AtRule, RuleIds, Writing
<1> QED BY <1>1, <1>2, <1>3, <1>4, <1>5 DEF CoroType

(* Returning from evaluate() keeps the coroutines well typed.              *)
LEMMA ReturnType ==
  ASSUME TypeInv, NEW e \in Evaluators, Return(e)
  PROVE  CoroType' /\ AtRule'
<1>1. CoroType'
  BY EngineAssumption, NoContextType DEF Return, TypeInv, TypeOK, CoroType, Phase
<1>2. AtRule'
  BY DEF Return, TypeInv, TypeOK, AtRule, Writing
<1> QED BY <1>1, <1>2

(* The decision on a rule keeps the types: the longest handler.            *)
LEMMA DecideType ==
  ASSUME TypeInv, NEW e \in Evaluators, NEW want \in Values, Decide(e, want)
  PROVE  TypeInv'
<1> USE EngineAssumption
<1> DEFINE p == PointOf(e)
           value == AfterClamp(p, AfterCap(p, want))
<1>1. pc[e] = "rule" /\ at[e] \in RuleIds /\ p \in Points
  BY RuleType DEF Decide, TypeInv, AtRule
<1>2. ~NextRule(e) => value \in Values
  <2>1. AfterCap(p, want) \in Values
    BY DEF AfterCap
  <2>2. ~NextRule(e) /\ AfterCap(p, want) \in Negative => CarFor(p) # None
    BY DEF Decide, V2hAllowed, V2hConsidered
  <2> QED BY <2>1, <2>2, ClampType
<1>3. ledger' \in [Points -> SUBSET Period] /\ LedgersOK'
  <2>1. CASE ledger' = ledger
    BY <2>1 DEF Decide, TypeInv, TypeOK, LedgersOK, disk
  <2>2. CASE ledger' = [ledger EXCEPT ![p] = Prune(@, now)]
    <3>1. now \in Nat /\ ledger[p] \in SUBSET Period /\ OneOpen(ledger[p])
      BY <1>1 DEF TypeInv, TypeOK, LedgersOK
    <3>2. Prune(ledger[p], now) \in SUBSET Period /\ OneOpen(Prune(ledger[p], now))
      BY <3>1, PruneKeeps
    <3> QED BY <2>2, <3>2, <1>1 DEF Decide, TypeInv, TypeOK, LedgersOK, disk
  <2> QED BY <2>1, <2>2 DEF Decide
<1>4. v2hDay' \in Nat \cup {None} /\ v2hCount' \in [Cars -> Nat]
  <2>1. \/ v2hDay' = Today /\ v2hCount' = [k \in Cars |-> 0]
        \/ UNCHANGED <<v2hDay, v2hCount>>
    BY DEF Decide
  <2>2. Today \in Nat
    BY TodayType DEF TypeInv
  <2>3. v2hDay \in Nat \cup {None} /\ v2hCount \in [Cars -> Nat]
    BY DEF TypeInv, TypeOK
  <2> HIDE DEF p, value
  <2> QED BY <2>1, <2>2, <2>3
<1>5. CoroType' /\ AtRule'
  <2>1. CASE NextRule(e)
    BY <1>1, <2>1, NextRuleType
  <2>2. CASE ~NextRule(e)
    <3> DEFINE w == [value |-> value, prev |-> lastValues[p], tries |-> 1,
                     sent |-> TRUE, landed |-> FALSE]
    <3>1. /\ holder' = None /\ UNCHANGED <<at, context, due>>
          /\ pc' = [pc EXCEPT ![e] = IF RuleOf(e).smooth /\ p \notin Virtual
                                     THEN "ramp" ELSE "write"]
          /\ pend' = [pend EXCEPT ![e] = w]
      BY <2>2 DEF Decide
    <3>2. w \in Pending /\ w.value = value
      BY <1>1, <1>2, <2>2 DEF Pending, TypeInv, TypeOK
    <3> HIDE DEF w, value, p
    <3> QED BY <1>1, <1>2, <2>2, <3>1, <3>2 DEF TypeInv, TypeOK, CoroType, AtRule, Writing, Phase
  <2> QED BY <2>1, <2>2
<1> QED
  BY <1>3, <1>4, <1>5 DEF Decide, TypeInv, TypeOK, CoroType, world, disk, hist

(* What evaluate() records after a write keeps the types.                  *)
LEMMA AcknowledgeType ==
  ASSUME TypeInv, NEW e \in Evaluators, Acknowledge(e)
  PROVE  /\ TypeInv'
         /\ (OpenPeriods(ledger'[PointOf(e)]) # {}) = IsLock(PointOf(e), pend[e].value)
<1> USE EngineAssumption
<1> DEFINE p == PointOf(e)
           v == pend[e].value
<1>1. pc[e] = "write" /\ at[e] \in RuleIds /\ p \in Points /\ v \in Values
  BY RuleType DEF Acknowledge, TypeInv, AtRule, Writing
<1>2. now \in Nat /\ ledger[p] \in SUBSET Period /\ OneOpen(ledger[p])
  BY <1>1 DEF TypeInv, TypeOK, LedgersOK
<1>3. IsLock(p, v) \in BOOLEAN
  BY DEF IsLock
<1>4. /\ Record(ledger[p], now, IsLock(p, v)) \in SUBSET Period
      /\ OneOpen(Record(ledger[p], now, IsLock(p, v)))
      /\ (OpenPeriods(Record(ledger[p], now, IsLock(p, v))) # {}) = IsLock(p, v)
  BY <1>2, <1>3, RecordKeeps
<1>5. ledger' = [ledger EXCEPT ![p] = Record(@, now, IsLock(p, v))]
  BY DEF Acknowledge
<1>6. ledger' \in [Points -> SUBSET Period] /\ LedgersOK'
  BY <1>1, <1>4, <1>5 DEF Acknowledge, TypeInv, TypeOK, LedgersOK, disk
<1>7. v2hDay' \in Nat \cup {None} /\ v2hCount' \in [Cars -> Nat]
  <2>1. CASE TrackDischarge(p)
    BY <2>1, TodayType, CountTodayType DEF TrackDischarge, TypeInv
  <2>2. CASE UNCHANGED <<v2hDay, v2hCount>>
    BY <2>2 DEF TypeInv, TypeOK
  <2> QED BY <2>1, <2>2 DEF Acknowledge
<1>8. CoroType' /\ AtRule'
  BY <1>1, NextRuleType DEF Acknowledge
<1>9. TypeInv'
  BY <1>1, <1>2, <1>6, <1>7, <1>8
  DEF Acknowledge, TypeInv, TypeOK, CoroType, world, disk, hist
<1> QED BY <1>1, <1>4, <1>5, <1>9 DEF TypeInv, TypeOK

(* Every step keeps the types: one proof step per action of Next.          *)
LEMMA NextType == ASSUME TypeInv, [Next]_vars PROVE TypeInv'
<1> USE EngineAssumption
<1>1. ASSUME NEW e \in Evaluators, Begin(e) PROVE TypeInv'
  <2>1. [cars |-> CarsAvailable, minute |-> now] \in Context
    BY DEF TypeInv, TypeOK, CarsAvailable, Context
  <2>4. TypeOK'
    BY <1>1, <2>1 DEF Begin, TypeInv, TypeOK, world, ram, disk, hist, Phase
  <2>2. LedgersOK'
    BY <1>1 DEF Begin, TypeInv, LedgersOK, ram, disk
  <2>3. AtRule'
    <3>1. pc' = [pc EXCEPT ![e] = IF Len(Rules) > 0 THEN "rule" ELSE "persist"]
      BY <1>1 DEF Begin
    <3>2. Len(Rules) > 0 => at[e] \in RuleIds
      BY <1>1 DEF Begin, Idle, TypeInv, AtRule, RuleIds
    <3> QED BY <1>1, <3>1, <3>2 DEF Begin, TypeInv, TypeOK, AtRule, Writing
  <2> QED BY <2>2, <2>3, <2>4 DEF TypeInv
<1>2. ASSUME NEW e \in Evaluators, Disabled(e) PROVE TypeInv'
  BY <1>2, ReturnType DEF Disabled, TypeInv, TypeOK, CoroType, LedgersOK, world, ram, disk, hist
<1>3. ASSUME NEW e \in Evaluators, NoMatch(e) PROVE TypeInv'
  <2>1. at[e] \in RuleIds
    BY <1>3 DEF NoMatch, TypeInv, AtRule
  <2> QED BY <1>3, <2>1, NextRuleType
          DEF NoMatch, TypeInv, TypeOK, CoroType, LedgersOK, world, ram, disk, hist
<1>4. ASSUME NEW e \in Evaluators, NEW want \in Values, Decide(e, want) PROVE TypeInv'
  BY <1>4, DecideType
<1>5. ASSUME NEW e \in Evaluators, Ramped(e) PROVE TypeInv'
  BY <1>5 DEF Ramped, Phase, TypeInv, TypeOK, AtRule, LedgersOK, Writing, world, ram, disk, hist
<1>6. ASSUME NEW e \in Evaluators, Land(e) PROVE TypeInv'
  <2>1. PointOf(e) \in Points /\ pend[e].value \in Values
    BY <1>6, RuleType DEF Land, TypeInv, AtRule, Writing
  <2>2. pend' \in [Evaluators -> Pending] /\ \A f \in Evaluators : pend'[f].value = pend[f].value
    <3> DEFINE w == [pend[e] EXCEPT !.sent = FALSE, !.landed = TRUE]
    <3>1. pend[e] \in Pending
      BY DEF TypeInv, TypeOK
    <3>2. w \in Pending /\ w.value = pend[e].value
      BY <3>1 DEF Pending
    <3>3. pend' = [pend EXCEPT ![e] = w]
      BY <1>6 DEF Land
    <3> HIDE DEF w
    <3> QED BY <3>2, <3>3 DEF TypeInv, TypeOK
  <2>3. sessions' \in [Cars -> Nat]
    BY <1>6, SMTT(30) DEF Land, TypeInv, TypeOK
  <2>4. TypeOK'
    <3>1. device' \in [Points -> Values]
      BY <1>6, <2>1 DEF Land, TypeInv, TypeOK
    <3>2. changedAt' \in [Points -> Nat \cup {None}]
      BY <1>6, <2>1 DEF Land, TypeInv, TypeOK
    <3>3. UNCHANGED <<now, vehicleOk, up, ram, disk, holder, pc, at, context, due, lockedFor>>
      BY <1>6 DEF Land
    <3> QED BY <2>2, <2>3, <3>1, <3>2, <3>3 DEF TypeInv, TypeOK, ram, disk
  <2>5. AtRule' /\ LedgersOK'
    BY <1>6, <2>2, SMTT(30) DEF Land, TypeInv, AtRule, LedgersOK, Writing, ram, disk
  <2> QED BY <2>4, <2>5 DEF TypeInv
<1>7. ASSUME NEW e \in Evaluators, Retry(e) PROVE TypeInv'
  <2> DEFINE w == [pend[e] EXCEPT !.tries = @ + 1, !.sent = TRUE]
  <2>1. pend[e] \in Pending
    BY DEF TypeInv, TypeOK
  <2>2. w \in Pending /\ w.value = pend[e].value
    <3>1. pend[e].tries + 1 \in Nat
      BY <2>1 DEF Pending
    <3> QED BY <2>1, <3>1 DEF Pending
  <2>3. pend' = [pend EXCEPT ![e] = w]
    BY <1>7 DEF Retry
  <2> HIDE DEF w
  <2>4. pend' \in [Evaluators -> Pending] /\ \A f \in Evaluators : pend'[f].value = pend[f].value
    BY <2>2, <2>3 DEF TypeInv, TypeOK
  <2>5. TypeOK'
    BY <1>7, <2>4 DEF Retry, TypeInv, TypeOK, world, ram, disk, hist
  <2>6. AtRule' /\ LedgersOK'
    BY <1>7, <2>4 DEF Retry, TypeInv, AtRule, LedgersOK, Writing, ram, disk
  <2> QED BY <2>5, <2>6 DEF TypeInv
<1>8. ASSUME NEW e \in Evaluators, GiveUp(e) PROVE TypeInv'
  <2>1. at[e] \in RuleIds
    BY <1>8 DEF GiveUp, TypeInv, AtRule
  <2> QED BY <1>8, <2>1, NextRuleType
          DEF GiveUp, TypeInv, TypeOK, CoroType, LedgersOK, world, ram, disk, hist
<1>9. ASSUME NEW e \in Evaluators, Acknowledge(e) PROVE TypeInv'
  BY <1>9, AcknowledgeType
<1>10. ASSUME NEW e \in Evaluators, PersistHysteresis(e) PROVE TypeInv'
  BY <1>10 DEF PersistHysteresis, Saved, Phase, TypeInv, TypeOK, AtRule, LedgersOK, Writing, world, ram, hist
<1>11. ASSUME NEW e \in Evaluators, PersistLedger(e) PROVE TypeInv'
  BY <1>11, ReturnType DEF PersistLedger, TypeInv, TypeOK, CoroType, LedgersOK, world, ram, hist
<1>12. ASSUME NEW p \in Points, NEW v \in Values, MqttCommand(p, v) PROVE TypeInv'
  BY <1>12 DEF MqttCommand, TypeInv, TypeOK, AtRule, LedgersOK, Writing, ram, disk, coros, hist
<1>13. ASSUME NEW k \in Cars, VehicleChanges(k) PROVE TypeInv'
  BY <1>13 DEF VehicleChanges, TypeInv, TypeOK, AtRule, LedgersOK, Writing, ram, disk, coros, hist
<1>14. CASE Stop
  <2>1. TypeOK'
    <3>1. /\ lastValues' \in [Points -> Values \cup {None}]
          /\ lastChange' \in [Points -> Nat \cup {None}]
          /\ ledger' \in [Points -> SUBSET Period]
          /\ v2hDay' \in Nat \cup {None} /\ v2hCount' \in [Cars -> Nat]
      BY <1>14 DEF Stop, EmptyRam
    <3>2. CoroType'
      BY <1>14, NoWriteType, NoContextType DEF Stop, CoroType, TypeInv, TypeOK, Phase
    <3> QED BY <1>14, <3>1, <3>2 DEF Stop, CoroType, TypeInv, TypeOK, disk, hist
  <2>2. AtRule' /\ LedgersOK'
    BY <1>14 DEF Stop, EmptyRam, TypeInv, AtRule, LedgersOK, Writing, OneOpen, OpenPeriods, disk
  <2> QED BY <2>1, <2>2 DEF TypeInv
<1>15. CASE Start
  <2>1. TypeOK'
    BY <1>15 DEF Start, Restored, InitialDelays, TypeInv, TypeOK, disk, hist
  <2>2. AtRule' /\ LedgersOK'
    BY <1>15 DEF Start, TypeInv, AtRule, LedgersOK, Writing, disk
  <2> QED BY <2>1, <2>2 DEF TypeInv
<1>16. CASE Tick
  <2>1. now' \in 0..MaxTime /\ now \in Nat
    BY <1>16 DEF Tick, TypeInv, TypeOK
  <2>2. lockedFor' \in [Points -> SUBSET Nat] /\ sessions' \in [Cars -> Nat]
    BY <1>16, <2>1 DEF Tick, TypeInv, TypeOK
  <2>3. TypeOK'
    BY <1>16, <2>1, <2>2 DEF Tick, TypeInv, TypeOK, ram, disk, coros
  <2>4. AtRule' /\ LedgersOK'
    BY <1>16 DEF Tick, TypeInv, AtRule, LedgersOK, Writing, ram, disk, coros
  <2> QED BY <2>3, <2>4 DEF TypeInv
<1>17. CASE UNCHANGED vars
  BY <1>17 DEF vars, TypeInv, TypeOK, AtRule, LedgersOK, Writing, world, ram, disk, coros, hist
<1> QED
  BY <1>1, <1>2, <1>3, <1>4, <1>5, <1>6, <1>7, <1>8, <1>9, <1>10, <1>11, <1>12, <1>13,
     <1>14, <1>15, <1>16, <1>17 DEF Next, Evaluate, Horizon

(* Every state has the declared types, whatever the faults.                *)
THEOREM TypeCorrect == Spec => []TypeOK
<1>1. Spec => []TypeInv
  BY InitType, NextType, PTL DEF Spec
<1>2. TypeInv => TypeOK
  BY DEF TypeInv
<1> QED BY <1>1, <1>2, PTL

-----------------------------------------------------------------------------
(* The ledger and the engine's belief.                                     *)

(* A stopped process has no evaluation and believes nothing.               *)
Down == ~up => /\ \A e \in Evaluators : Idle(e)
               /\ \A p \in Points : lastValues[p] = None
LedgerInv == TypeInv /\ Down /\ LedgerFollowsBelief

(* Every step keeps Down.                                                  *)
LEMMA DownNext == ASSUME TypeInv, Down, [Next]_vars PROVE Down'
<1>1. ASSUME NEW e \in Evaluators, Begin(e) \/ Disabled(e) PROVE Down'
  BY <1>1 DEF Begin, Disabled, Down, world
<1>2. ASSUME NEW e \in Evaluators, ~Idle(e), UNCHANGED up PROVE Down'
  BY <1>2 DEF Down
<1>3. ASSUME UNCHANGED <<up, pc, lastValues>> PROVE Down'
  BY <1>3 DEF Down, Idle
<1>4. CASE Stop
  BY <1>4 DEF Stop, EmptyRam, Down, Idle, TypeInv, TypeOK
<1>5. CASE Start
  BY <1>5 DEF Start, Down
<1>6. ASSUME NEW e \in Evaluators, Evaluate(e), ~(Begin(e) \/ Disabled(e)) PROVE Down'
  <2>1. ~Idle(e) /\ UNCHANGED up
    BY <1>6 DEF Evaluate, NoMatch, Decide, Ramped, Land, Retry, GiveUp, Acknowledge,
                PersistHysteresis, PersistLedger, Idle, world
  <2> QED BY <2>1, <1>2
<1>7. ASSUME ~\E e \in Evaluators : Evaluate(e), ~Stop, ~Start PROVE UNCHANGED <<up, pc, lastValues>>
  BY <1>7 DEF Next, MqttCommand, VehicleChanges, Tick, Horizon, vars, world, ram, coros
<1> QED BY <1>1, <1>3, <1>4, <1>5, <1>6, <1>7

(* Every step keeps an open period and the belief together.               *)
LEMMA LedgerNext == ASSUME LedgerInv, [Next]_vars PROVE LedgerInv'
<1> USE EngineAssumption
<1>1. TypeInv' /\ Down'
  BY NextType, DownNext DEF LedgerInv
<1>2. LedgerFollowsBelief'
  <2> SUFFICES ASSUME NEW p \in Points, lastValues'[p] # None
               PROVE  (OpenPeriods(ledger'[p]) # {}) = IsLock(p, lastValues'[p])
    BY <1>1 DEF LedgerFollowsBelief, TypeInv, LedgersOK, OneOpen
  <2>1. CASE UNCHANGED <<lastValues, ledger>>
    BY <2>1 DEF LedgerInv, LedgerFollowsBelief
  <2>2. ASSUME NEW e \in Evaluators, NEW want \in Values, Decide(e, want)
        PROVE  (OpenPeriods(ledger'[p]) # {}) = IsLock(p, lastValues'[p])
    <3>1. lastValues' = lastValues
      BY <2>2 DEF Decide
    <3>2. CASE ledger' = ledger
      BY <2>1, <3>1, <3>2
    <3>3. CASE ledger' = [ledger EXCEPT ![PointOf(e)] = Prune(@, now)]
      <4>1. ledger[p] \in SUBSET Period /\ OneOpen(ledger[p]) /\ now \in Nat
        BY DEF LedgerInv, TypeInv, TypeOK, LedgersOK
      <4>2. OpenPeriods(Prune(ledger[p], now)) = OpenPeriods(ledger[p])
        BY <4>1, PruneKeeps
      <4>3. OpenPeriods(ledger'[p]) = OpenPeriods(ledger[p])
        BY <3>3, <4>2 DEF LedgerInv, TypeInv, TypeOK
      <4> QED BY <3>1, <4>3 DEF LedgerInv, LedgerFollowsBelief
    <3> QED BY <2>2, <3>2, <3>3 DEF Decide
  <2>3. ASSUME NEW e \in Evaluators, Acknowledge(e)
        PROVE  (OpenPeriods(ledger'[p]) # {}) = IsLock(p, lastValues'[p])
    <3>1. /\ (OpenPeriods(ledger'[PointOf(e)]) # {}) = IsLock(PointOf(e), pend[e].value)
          /\ ledger' = [ledger EXCEPT ![PointOf(e)] =
                          Record(@, now, IsLock(PointOf(e), pend[e].value))]
          /\ lastValues' = [lastValues EXCEPT ![PointOf(e)] = pend[e].value]
      BY <2>3, AcknowledgeType DEF LedgerInv, Acknowledge
    <3>2. CASE p = PointOf(e)
      BY <3>1, <3>2 DEF LedgerInv, TypeInv, TypeOK
    <3>3. CASE p # PointOf(e)
      BY <3>1, <3>3 DEF LedgerInv, LedgerFollowsBelief, TypeInv, TypeOK
    <3> QED BY <3>2, <3>3
  <2>4. CASE Stop
    BY <2>4 DEF Stop, EmptyRam
  <2>5. CASE Start
    BY <2>5 DEF Start, LedgerInv, Down
  <2>6. ASSUME NEW e \in Evaluators, Evaluate(e), ~Acknowledge(e),
               ~\E want \in Values : Decide(e, want)
        PROVE  UNCHANGED <<lastValues, ledger>>
    BY <2>6 DEF Evaluate, Begin, Disabled, NoMatch, Ramped, Land, Retry, GiveUp,
                PersistHysteresis, PersistLedger, ram
  <2>7. ASSUME ~\E e \in Evaluators : Evaluate(e), ~Stop, ~Start
        PROVE  UNCHANGED <<lastValues, ledger>>
    BY <2>7 DEF Next, MqttCommand, VehicleChanges, Tick, Horizon, vars, ram
  <2> QED BY <2>1, <2>2, <2>3, <2>4, <2>5, <2>6, <2>7
<1> QED BY <1>1, <1>2 DEF LedgerInv

(* With any number of evaluators, any fault and any MQTT command: a lock   *)
(* period is open exactly while the engine's last write was a lock, so the *)
(* cap is never computed from a period the engine forgot to close.         *)
THEOREM LedgerCorrect == Spec => []LedgerFollowsBelief
<1>1. Init => LedgerInv
  <2> SUFFICES ASSUME Init PROVE LedgerInv
    OBVIOUS
  <2>1. TypeInv
    BY InitType
  <2>2. Down /\ LedgerFollowsBelief
    BY DEF Init, Down, LedgerFollowsBelief, OpenPeriods
  <2> QED BY <2>1, <2>2 DEF LedgerInv
<1>2. LedgerInv /\ [Next]_vars => LedgerInv'
  BY LedgerNext
<1>3. LedgerInv => LedgerFollowsBelief
  BY DEF LedgerInv
<1> QED BY <1>1, <1>2, <1>3, PTL DEF Spec

-----------------------------------------------------------------------------
(* The spacing of writes.  What the code guarantees needs one evaluator at *)
(* a time, no stop inside an evaluation, no write that lands unnoticed, a  *)
(* disk that works, no foreign writer, and intervals below the age at      *)
(* which hysteresis.json forgets.                                          *)

Calm == /\ \A e, f \in Evaluators : e = f
        /\ Faults \cap {"stop", "unacked", "disk"} = {}
        /\ Commands = {}
        /\ \A i \in RuleIds : Interval(Rules[i]) <= MaxAge

(* The engine's record of p bounds the true time of its last change, or    *)
(* that change is older than any interval.                                 *)
Covers(change, p) ==
  \/ changedAt[p] = None
  \/ now - changedAt[p] >= MaxAge
  \/ change[p] # None /\ changedAt[p] <= change[p]

LandedOn(p) == \E e \in Evaluators : pc[e] = "write" /\ pend[e].landed /\ PointOf(e) = p

PastInv == \A p \in Points : changedAt[p] # None => changedAt[p] <= now
RamCovers == up => \A p \in Points : Covers(lastChange, p) \/ LandedOn(p)
DiskCovers ==
  (~up \/ \E e \in Evaluators : pc[e] \in {"idle", "persistLedger"})
    => \A p \in Points : Covers(diskChange, p)
WriteInv == \A e \in Evaluators : Writing(e) =>
  /\ pc[e] = "ramp" => ~pend[e].landed
  /\ pend[e].landed => device[PointOf(e)] = pend[e].value
  /\ ~pend[e].landed => \/ changedAt[PointOf(e)] = None
                        \/ now - changedAt[PointOf(e)] >= Interval(RuleOf(e))

SpacingInv == TypeInv /\ Down /\ PastInv /\ RamCovers /\ DiskCovers /\ WriteInv

(* The first state meets the bookkeeping of the spacing.                  *)
LEMMA SpacingInit == ASSUME Init PROVE SpacingInv
<1>1. TypeInv
  BY InitType
<1>2. Down /\ PastInv /\ RamCovers /\ DiskCovers /\ WriteInv
  BY DEF Init, Down, PastInv, RamCovers, DiskCovers, Covers, WriteInv, Writing, Idle
<1> QED BY <1>1, <1>2 DEF SpacingInv

(* The interval of a rule is a number.                                    *)
LEMMA IntervalType == ASSUME NEW i \in RuleIds PROVE Interval(Rules[i]) \in Nat
<1>1. Rules[i] \in Rule
  BY EngineAssumption DEF RuleIds
<1>2. Rules[i].min_interval \in Nat
  BY <1>1 DEF Rule
<1> QED BY <1>2, EngineAssumption DEF Interval

(* Every step keeps the bookkeeping: one proof step per action of Next.     *)
LEMMA SpacingNext == ASSUME Calm, SpacingInv, [Next]_vars PROVE SpacingInv'
<1> USE EngineAssumption
<1> TypeInv /\ Down /\ PastInv /\ RamCovers /\ DiskCovers /\ WriteInv
  BY DEF SpacingInv
<1>0. TypeInv' /\ Down'
  BY NextType, DownNext
<1> SUFFICES PastInv' /\ RamCovers' /\ DiskCovers' /\ WriteInv'
  BY <1>0 DEF SpacingInv
<1>1. ASSUME NEW e \in Evaluators, Begin(e)
      PROVE  PastInv' /\ RamCovers' /\ DiskCovers' /\ WriteInv'
  BY <1>1 DEF Begin, Calm, TypeInv, TypeOK, PastInv, RamCovers, DiskCovers, Covers, LandedOn,
              PointOf, RuleOf, WriteInv, Writing, Idle, world, ram, disk, hist
<1>2. ASSUME NEW e \in Evaluators, Disabled(e)
      PROVE  PastInv' /\ RamCovers' /\ DiskCovers' /\ WriteInv'
  BY <1>2 DEF Disabled, Return, Calm, TypeInv, TypeOK, PastInv, RamCovers, DiskCovers, Covers,
              LandedOn, PointOf, RuleOf, WriteInv, Writing, Idle, world, ram, disk, hist
<1>3. ASSUME NEW e \in Evaluators, NoMatch(e)
      PROVE  PastInv' /\ RamCovers' /\ DiskCovers' /\ WriteInv'
  BY <1>3 DEF NoMatch, NextRule, Calm, TypeInv, TypeOK, PastInv, RamCovers, DiskCovers, Covers,
              LandedOn, PointOf, RuleOf, WriteInv, Writing, Down, Idle, world, ram, disk, hist
<1>4. ASSUME NEW e \in Evaluators, NEW want \in Values, Decide(e, want)
      PROVE  PastInv' /\ RamCovers' /\ DiskCovers' /\ WriteInv'
  <2> DEFINE p == PointOf(e)
  <2>1. /\ pc[e] = "rule" /\ up /\ p \in Points /\ at[e] \in RuleIds
        /\ Interval(RuleOf(e)) \in Nat /\ Interval(RuleOf(e)) <= MaxAge
        /\ RuleOf(e).point = p /\ now \in Nat
    <3>1. pc[e] = "rule" /\ at[e] \in RuleIds
      BY <1>4 DEF Decide, TypeInv, AtRule
    <3>2. p \in Points /\ RuleOf(e).point = p
      BY <3>1, RuleType DEF PointOf
    <3>3. now \in Nat
      BY DEF TypeInv, TypeOK
    <3>4. Interval(RuleOf(e)) \in Nat
      BY <3>1, IntervalType DEF RuleOf
    <3>5. Interval(RuleOf(e)) <= MaxAge
      BY <3>1 DEF Calm, RuleOf
    <3>6. up
      BY <3>1 DEF Down, Idle
    <3> QED BY <3>1, <3>2, <3>3, <3>4, <3>5, <3>6
  <2>2. Covers(lastChange, p)
    BY <1>4, <2>1 DEF Decide, Calm, RamCovers, LandedOn
  <2>3. \/ NextRule(e)
        \/ /\ HysteresisOpen(RuleOf(e))
           /\ pc' = [pc EXCEPT ![e] = IF RuleOf(e).smooth /\ p \notin Virtual
                                      THEN "ramp" ELSE "write"]
           /\ pend'[e].landed = FALSE /\ UNCHANGED <<at, context, due>>
    BY <1>4 DEF Decide, TypeInv, TypeOK
  <2>4. UNCHANGED <<now, up, device, changedAt, lastChange, diskChange>>
    BY <1>4 DEF Decide, world, disk, hist
  <2>5. CASE NextRule(e)
    BY <2>1, <2>4, <2>5 DEF NextRule, Calm, TypeInv, TypeOK, PastInv, RamCovers, DiskCovers,
       Covers, LandedOn, PointOf, RuleOf, WriteInv, Writing
  <2>6. CASE /\ HysteresisOpen(RuleOf(e))
             /\ pc' = [pc EXCEPT ![e] = IF RuleOf(e).smooth /\ p \notin Virtual
                                        THEN "ramp" ELSE "write"]
             /\ pend'[e].landed = FALSE /\ UNCHANGED <<at, context, due>>
    <3>1. changedAt[p] = None \/ now - changedAt[p] >= Interval(RuleOf(e))
      BY <2>1, <2>2, <2>6 DEF HysteresisOpen, Covers, TypeInv, TypeOK
    <3>2. WriteInv'
      BY <2>4, <2>6, <3>1 DEF WriteInv, Calm, PointOf, RuleOf
    <3>3. PastInv' /\ RamCovers' /\ DiskCovers'
      BY <2>1, <2>4, <2>6 DEF Calm, TypeInv, TypeOK, PastInv, RamCovers, DiskCovers, Covers, LandedOn
    <3> QED BY <3>2, <3>3
  <2> QED BY <2>3, <2>5, <2>6
<1>5. ASSUME NEW e \in Evaluators, Ramped(e)
      PROVE  PastInv' /\ RamCovers' /\ DiskCovers' /\ WriteInv'
  BY <1>5 DEF Ramped, Calm, TypeInv, TypeOK, PastInv, RamCovers, DiskCovers, Covers,
              LandedOn, PointOf, RuleOf, WriteInv, Writing, Down, Idle, world, ram, disk, hist
<1>6. ASSUME NEW e \in Evaluators, Land(e)
      PROVE  PastInv' /\ RamCovers' /\ DiskCovers' /\ WriteInv'
  <2> DEFINE p == PointOf(e)
  <2>1. /\ pc[e] = "write" /\ p \in Points /\ up /\ now \in Nat
        /\ pend'[e].value = pend[e].value /\ pend'[e].landed = TRUE
        /\ device' = [device EXCEPT ![p] = pend[e].value]
    <3>1. pc[e] = "write" /\ pend[e] \in Pending /\ now \in Nat
      BY <1>6 DEF Land, TypeInv, TypeOK
    <3>2. p \in Points /\ up
      BY <3>1, RuleType DEF Down, Idle
    <3>3. pend'[e] = [pend[e] EXCEPT !.sent = FALSE, !.landed = TRUE]
      BY <1>6 DEF Land, TypeInv, TypeOK
    <3> QED BY <1>6, <3>1, <3>2, <3>3 DEF Land, Pending
  <2>2. UNCHANGED <<now, up, pc, at, lastChange, diskChange>>
    BY <1>6 DEF Land, ram, disk
  <2>3. changedAt' = changedAt \/ changedAt' = [changedAt EXCEPT ![p] = now]
    BY <1>6 DEF Land
  <2>4. PastInv'
    <3>1. \A q \in Points : changedAt'[q] = changedAt[q] \/ changedAt'[q] = now
      BY <2>1, <2>3 DEF TypeInv, TypeOK
    <3>2. now <= now
      BY <2>1
    <3>3. now' = now
      BY <2>2
    <3> QED BY <3>1, <3>2, <3>3 DEF PastInv
  <2>5. RamCovers'
    <3>1. ASSUME NEW q \in Points, q = p PROVE LandedOn(q)'
      BY <2>1, <2>2, <3>1 DEF LandedOn, PointOf, RuleOf
    <3>2. \A q \in Points : q # p => changedAt'[q] = changedAt[q] /\ ~LandedOn(q)
      BY <2>1, <2>3 DEF LandedOn, Calm, TypeInv, TypeOK
    <3>3. ASSUME up', NEW q \in Points, q # p PROVE Covers(lastChange, q)'
      <4>1. Covers(lastChange, q)
        BY <2>2, <3>2, <3>3 DEF RamCovers
      <4>2. /\ lastChange'[q] = lastChange[q] /\ changedAt'[q] = changedAt[q] /\ now' = now
        BY <2>2, <3>2, <3>3
      <4> QED BY <4>1, <4>2 DEF Covers
    <3> QED BY <3>1, <3>3 DEF RamCovers
  <2>6. DiskCovers'
    BY <2>1, <2>2 DEF DiskCovers, Calm
  <2>7. WriteInv'
    BY <2>1, <2>2 DEF WriteInv, Writing, Calm, PointOf, RuleOf, TypeInv, TypeOK
  <2> QED BY <2>4, <2>5, <2>6, <2>7
<1>7. ASSUME NEW e \in Evaluators, Retry(e)
      PROVE  PastInv' /\ RamCovers' /\ DiskCovers' /\ WriteInv'
  <2>1. /\ pend[e] \in Pending /\ pc[e] = "write"
        /\ UNCHANGED <<now, up, device, changedAt, lastChange, diskChange, pc, at>>
    BY <1>7 DEF Retry, TypeInv, TypeOK, world, ram, disk, hist
  <2>2. pend'[e].landed = pend[e].landed /\ pend'[e].value = pend[e].value
    BY <1>7, <2>1 DEF Retry, TypeInv, TypeOK, Pending
  <2> QED
    BY <2>1, <2>2 DEF Calm, PastInv, RamCovers, DiskCovers, Covers, LandedOn, PointOf, RuleOf,
       WriteInv, Writing
<1>8. ASSUME NEW e \in Evaluators, GiveUp(e)
      PROVE  PastInv' /\ RamCovers' /\ DiskCovers' /\ WriteInv'
  BY <1>8, SMTT(30) DEF GiveUp, NextRule, Calm, TypeInv, TypeOK, PastInv, RamCovers, DiskCovers, Covers,
              LandedOn, PointOf, RuleOf, WriteInv, Writing, Down, Idle, world, ram, disk, hist
<1>9. ASSUME NEW e \in Evaluators, Acknowledge(e)
      PROVE  PastInv' /\ RamCovers' /\ DiskCovers' /\ WriteInv'
  <2>1. /\ pc[e] = "write" /\ PointOf(e) \in Points /\ up
        /\ lastChange' = [lastChange EXCEPT ![PointOf(e)] = now]
        /\ UNCHANGED <<now, up, device, changedAt, diskChange>> /\ now \in Nat
    BY <1>9, RuleType DEF Acknowledge, TypeInv, TypeOK, Down, Idle, world, disk, hist
  <2>2. /\ pc'[e] \in {"rule", "persist"} /\ \A f \in Evaluators : f = e
    BY <1>9 DEF Acknowledge, NextRule, Calm, TypeInv, TypeOK
  <2>3. PastInv' /\ DiskCovers' /\ WriteInv'
    BY <2>1, <2>2 DEF PastInv, DiskCovers, WriteInv, Writing
  <2>4. RamCovers'
    <3> SUFFICES ASSUME NEW q \in Points PROVE Covers(lastChange, q)'
      BY DEF RamCovers
    <3>1. CASE q = PointOf(e)
      BY <2>1, <3>1 DEF PastInv, Covers, TypeInv, TypeOK
    <3>2. CASE q # PointOf(e)
      BY <2>1, <2>2, <3>2 DEF RamCovers, LandedOn, Covers, TypeInv, TypeOK
    <3> QED BY <3>1, <3>2
  <2> QED BY <2>3, <2>4
<1>10. ASSUME NEW e \in Evaluators, PersistHysteresis(e)
      PROVE  PastInv' /\ RamCovers' /\ DiskCovers' /\ WriteInv'
  BY <1>10 DEF PersistHysteresis, Saved, Calm, TypeInv, TypeOK, PastInv, RamCovers, DiskCovers,
               Covers, LandedOn, PointOf, RuleOf, WriteInv, Writing, Down, Idle, world, ram, hist
<1>11. ASSUME NEW e \in Evaluators, PersistLedger(e)
      PROVE  PastInv' /\ RamCovers' /\ DiskCovers' /\ WriteInv'
  BY <1>11 DEF PersistLedger, Return, Calm, TypeInv, TypeOK, PastInv, RamCovers, DiskCovers,
               Covers, LandedOn, PointOf, RuleOf, WriteInv, Writing, Down, Idle, world, ram, hist
<1>12. ASSUME NEW p \in Points, NEW v \in Values, MqttCommand(p, v) PROVE FALSE
  BY <1>12 DEF MqttCommand, Calm
<1>13. ASSUME NEW k \in Cars, VehicleChanges(k)
      PROVE  PastInv' /\ RamCovers' /\ DiskCovers' /\ WriteInv'
  BY <1>13 DEF VehicleChanges, PastInv, RamCovers, DiskCovers, Covers, LandedOn, PointOf, RuleOf,
               WriteInv, Writing, ram, disk, coros, hist
<1>14. CASE Stop
  BY <1>14 DEF Stop, Calm, TypeInv, TypeOK, PastInv, RamCovers, DiskCovers, Covers,
               WriteInv, Writing, Idle, disk, hist
<1>15. CASE Start
  <2>1. /\ ~up /\ UNCHANGED <<now, changedAt, diskChange, pc, pend, at, device>>
        /\ lastChange' = [p \in Points |-> Restored(p)]
    BY <1>15 DEF Start, disk, hist
  <2>2. \A p \in Points : Covers(diskChange, p)
    BY <2>1 DEF DiskCovers
  <2>3. RamCovers'
    BY <2>1, <2>2 DEF RamCovers, Covers, Restored, TypeInv, TypeOK
  <2>4. DiskCovers'
    BY <2>1, <2>2 DEF DiskCovers, Covers
  <2>5. PastInv' /\ WriteInv'
    BY <2>1 DEF PastInv, WriteInv, Writing, PointOf, RuleOf
  <2> QED BY <2>3, <2>4, <2>5
<1>16. CASE Tick
  <2>1. /\ now' = now + 1 /\ now \in Nat
        /\ UNCHANGED <<up, device, changedAt, lastChange, diskChange, pc, at, pend>>
    BY <1>16 DEF Tick, TypeInv, TypeOK, ram, disk, coros
  <2>2. \A p \in Points : changedAt[p] \in Nat \cup {None}
    BY DEF TypeInv, TypeOK
  <2>3. \A p \in Points : Covers(lastChange, p) => Covers(lastChange, p)'
    BY <2>1, <2>2 DEF Covers
  <2>4. \A p \in Points : Covers(diskChange, p) => Covers(diskChange, p)'
    BY <2>1, <2>2 DEF Covers
  <2>5. PastInv' /\ RamCovers' /\ DiskCovers'
    BY <2>1, <2>2, <2>3, <2>4 DEF PastInv, RamCovers, DiskCovers, LandedOn, PointOf, RuleOf
  <2>6. WriteInv'
    <3>1. ASSUME NEW e \in Evaluators, Writing(e)
          PROVE  /\ pc[e] = "ramp" => ~pend[e].landed
                 /\ pend[e].landed => device[PointOf(e)] = pend[e].value
                 /\ ~pend[e].landed => \/ changedAt[PointOf(e)] = None
                                       \/ now' - changedAt[PointOf(e)] >= Interval(RuleOf(e))
      <4>1. pc[e] \in {"rule", "ramp", "write"} /\ at[e] \in RuleIds
        BY <3>1 DEF Writing, TypeInv, AtRule
      <4>2. PointOf(e) \in Points /\ Interval(RuleOf(e)) \in Nat
        BY <4>1, RuleType, IntervalType DEF RuleOf
      <4> QED BY <2>1, <2>2, <3>1, <4>2 DEF WriteInv
    <3>2. \A e \in Evaluators : PointOf(e)' = PointOf(e) /\ RuleOf(e)' = RuleOf(e)
      BY <2>1 DEF PointOf, RuleOf
    <3>3. \A e \in Evaluators : Interval(RuleOf(e)') = Interval(RuleOf(e))
      BY <3>2
    <3> QED BY <2>1, <3>1, <3>2, <3>3 DEF WriteInv, Writing
  <2> QED BY <2>5, <2>6
<1>17. CASE UNCHANGED vars
  BY <1>17 DEF vars, PastInv, RamCovers, DiskCovers, Covers, LandedOn, PointOf, RuleOf,
               WriteInv, Writing, world, ram, disk, coros, hist
<1> QED
  BY <1>1, <1>2, <1>3, <1>4, <1>5, <1>6, <1>7, <1>8, <1>9, <1>10, <1>11, <1>12, <1>13,
     <1>14, <1>15, <1>16, <1>17 DEF Next, Evaluate, Horizon

(* min_interval holds across failing writes, retries, slow writes, clock   *)
(* and restarts between evaluations, for any rules, points and intervals:  *)
(* no write that would change a device is on its way earlier.              *)
THEOREM SpacingCorrect == ASSUME Calm PROVE Spec => []WritesAreSpaced
<1>1. Init => SpacingInv
  BY SpacingInit
<1>2. SpacingInv /\ [Next]_vars => SpacingInv'
  BY SpacingNext
<1>3. SpacingInv => WritesAreSpaced
  BY DEF SpacingInv, WriteInv, WritesAreSpaced
<1> QED BY <1>1, <1>2, <1>3, PTL DEF Spec

(* The engine implements the abstract rate limit: each of its steps is a   *)
(* change the limit allows, the passing of a minute, or a stutter.         *)
THEOREM RateLimitImplemented == ASSUME Calm PROVE Spec => ImplementsRateLimit
<1>1. Init => SpacingInv /\ Limit!Init
  BY SpacingInit DEF Init, Limit!Init
<1>2. SpacingInv /\ [Next]_vars => SpacingInv'
  BY SpacingNext
<1>3. SpacingInv /\ [Next]_vars => [Limit!Next]_<<now, device, changedAt>>
  <2> SUFFICES ASSUME SpacingInv, [Next]_vars
               PROVE  Limit!Next \/ UNCHANGED <<now, device, changedAt>>
    OBVIOUS
  <2>1. ASSUME NEW e \in Evaluators, Land(e)
        PROVE  Limit!Next \/ UNCHANGED <<now, device, changedAt>>
    <3> DEFINE p == PointOf(e)
               v == pend[e].value
    <3>1. /\ Writing(e) /\ p \in Points /\ v \in Values /\ at[e] \in RuleIds
          /\ RuleOf(e).point = p
      BY <2>1, RuleType DEF Land, Writing, SpacingInv, TypeInv, AtRule
    <3>2. CASE device[p] = v
      BY <2>1, <3>1, <3>2 DEF Land, SpacingInv, TypeInv, TypeOK
    <3>3. CASE device[p] # v
      <4>1. \/ changedAt[p] = None \/ now - changedAt[p] >= Interval(RuleOf(e))
        BY <3>1, <3>3 DEF SpacingInv, WriteInv
      <4>2. Interval(RuleOf(e)) \in Spacings[p]
        BY <3>1 DEF Spacings, RuleOf
      <4>3. Limit!Change(p, v)
        BY <2>1, <3>3, <4>1, <4>2 DEF Land, Limit!Change
      <4> QED BY <3>1, <4>3 DEF Limit!Next
    <3> QED BY <3>2, <3>3
  <2>2. CASE Tick
    BY <2>2 DEF Tick, Limit!Next, Limit!Pass
  <2>3. ASSUME NEW p \in Points, NEW v \in Values, MqttCommand(p, v) PROVE FALSE
    BY <2>3 DEF MqttCommand, Calm
  <2>4. ASSUME ~Tick, ~\E e \in Evaluators : Land(e),
               ~\E p \in Points, v \in Values : MqttCommand(p, v)
        PROVE  UNCHANGED <<now, device, changedAt>>
    BY <2>4 DEF Next, Evaluate, Begin, Disabled, NoMatch, Decide, Ramped, Retry, GiveUp,
       Acknowledge, PersistHysteresis, PersistLedger, VehicleChanges, Stop, Start, Horizon,
       vars, world, hist
  <2> QED BY <2>1, <2>2, <2>3, <2>4
<1> QED BY <1>1, <1>2, <1>3, PTL DEF Spec, ImplementsRateLimit, Limit!Spec

-----------------------------------------------------------------------------
(* The state files.                                                        *)

(* hysteresis.json is up to date as soon as every evaluator is past writing *)
(* it: one that is not writes it still.                                    *)
HysteresisSaved ==
  up /\ (\A e \in Evaluators : pc[e] \in {"idle", "persistLedger"}) =>
    \A p \in Points : lastChange[p] # None => diskChange[p] = lastChange[p]
LedgerSaved == up /\ AllIdle => diskLedger = ledger
SavedInv == TypeInv /\ HysteresisSaved /\ LedgerSaved

(* Every step leaves the files as good: what changes the RAM is at a rule. *)
LEMMA SavedNext ==
  ASSUME "disk" \notin Faults, SavedInv, [Next]_vars PROVE SavedInv'
<1> TypeInv /\ HysteresisSaved /\ LedgerSaved
  BY DEF SavedInv
<1>0. TypeInv'
  BY NextType
<1> SUFFICES HysteresisSaved' /\ LedgerSaved'
  BY <1>0 DEF SavedInv
<1> USE DEF HysteresisSaved, LedgerSaved, AllIdle, Idle
<1>1. ASSUME NEW e \in Evaluators, pc'[e] \notin {"idle", "persistLedger"}
      PROVE  HysteresisSaved' /\ LedgerSaved'
  BY <1>1
<1>2. ASSUME UNCHANGED <<up, pc, ram, disk>> PROVE HysteresisSaved' /\ LedgerSaved'
  BY <1>2 DEF ram, disk
<1>3. ASSUME NEW e \in Evaluators,
             \/ NoMatch(e) \/ (\E want \in Values : Decide(e, want))
             \/ GiveUp(e) \/ Acknowledge(e) \/ Begin(e) \/ Ramped(e) \/ Land(e) \/ Retry(e)
      PROVE  pc'[e] \notin {"idle", "persistLedger"}
  BY <1>3 DEF NoMatch, Decide, GiveUp, Acknowledge, NextRule, Begin, Ramped, Land, Retry,
              TypeInv, TypeOK
<1>4. ASSUME NEW e \in Evaluators, Disabled(e) PROVE HysteresisSaved' /\ LedgerSaved'
  BY <1>4 DEF Disabled, Return, TypeInv, TypeOK, world, ram, disk
<1>5. ASSUME NEW e \in Evaluators, PersistHysteresis(e) PROVE HysteresisSaved' /\ LedgerSaved'
  BY <1>5 DEF PersistHysteresis, Saved, TypeInv, TypeOK, ram
<1>6. ASSUME NEW e \in Evaluators, PersistLedger(e) PROVE HysteresisSaved' /\ LedgerSaved'
  <2>1. /\ diskLedger' = ledger' /\ UNCHANGED <<up, lastChange, diskChange>>
        /\ pc[e] = "persistLedger" /\ pc' = [pc EXCEPT ![e] = "idle"]
    BY <1>6 DEF PersistLedger, Return, world, ram
  <2> QED BY <2>1 DEF TypeInv, TypeOK
<1>7. CASE Stop
  BY <1>7 DEF Stop
<1>8. CASE Start
  BY <1>8 DEF Start, Restored, disk
<1>9. CASE Tick \/ Horizon \/ UNCHANGED vars
  BY <1>2, <1>9 DEF Tick, Horizon, vars, world, coros
<1>10. CASE \/ \E p \in Points, v \in Values : MqttCommand(p, v)
            \/ \E k \in Cars : VehicleChanges(k)
  BY <1>2, <1>10 DEF MqttCommand, VehicleChanges, coros
<1> QED
  BY <1>1, <1>3, <1>4, <1>5, <1>6, <1>7, <1>8, <1>9, <1>10 DEF Next, Evaluate

(* With any number of evaluators, MQTT commands and every fault but that    *)
(* of the disk: between evaluations a restart loses neither the times of   *)
(* the last changes nor the lock ledger.                                   *)
THEOREM SavedCorrect == ASSUME "disk" \notin Faults PROVE Spec => []StateIsSaved
<1>1. Init => SavedInv
  BY InitType DEF Init, SavedInv, HysteresisSaved, LedgerSaved
<1>2. SavedInv /\ [Next]_vars => SavedInv'
  BY SavedNext
<1>3. SavedInv => StateIsSaved
  BY DEF SavedInv, HysteresisSaved, LedgerSaved, StateIsSaved, AllIdle, Idle
<1> QED BY <1>1, <1>2, <1>3, PTL DEF Spec

-----------------------------------------------------------------------------
(* Discharges.                                                             *)

(* A value below zero that is dispatched has passed the authorisation.     *)
LEMMA DecideGrants ==
  ASSUME TypeInv, NEW e \in Evaluators, NEW want \in Values, Decide(e, want), ~NextRule(e),
         pend'[e].value \in Negative
  PROVE  /\ V2hAllowed(PointOf(e), context[e].cars)
         /\ AfterCap(PointOf(e), want) \in Negative
<1> DEFINE p == PointOf(e)
           capped == AfterCap(p, want)
<1>1. /\ ~(capped \in Negative /\ ~V2hAllowed(p, context[e].cars))
      /\ pend'[e].value = AfterClamp(p, capped)
  BY DEF Decide, TypeInv, TypeOK
<1>2. capped \in Negative
  BY <1>1 DEF AfterClamp
<1> QED BY <1>1, <1>2

-----------------------------------------------------------------------------
(* The belief of the engine.  It is true with one evaluator, no foreign    *)
(* writer and no write that lands and is taken for failed.                 *)

OneWriter == /\ \A e, f \in Evaluators : e = f
             /\ "unacked" \notin Faults /\ Commands = {}

(* A value believed set is set unless a write to that point has landed; a  *)
(* write that has landed shows, and one whose answer is due has landed.    *)
BeliefHolds ==
  \A p \in Points : lastValues[p] # None /\ ~LandedOn(p) => device[p] = lastValues[p]
WriteShows == \A e \in Evaluators : Writing(e) =>
  /\ pc[e] = "ramp" => pend[e].sent /\ ~pend[e].landed
  /\ ~pend[e].sent => pend[e].landed
  /\ pend[e].landed => device[PointOf(e)] = pend[e].value
BeliefInv == TypeInv /\ BeliefHolds /\ WriteShows

(* What an attempt that reaches the device changes.                        *)
LEMMA LandStep ==
  ASSUME TypeInv, NEW e \in Evaluators, Land(e)
  PROVE  /\ pc[e] = "write" /\ PointOf(e) \in Points
         /\ device' = [device EXCEPT ![PointOf(e)] = pend[e].value]
         /\ UNCHANGED <<pc, at, lastValues>>
         /\ pend' = [pend EXCEPT ![e] = pend'[e]]
         /\ pend'[e].value = pend[e].value /\ pend'[e].prev = pend[e].prev
         /\ ~pend'[e].sent /\ pend'[e].landed
<1>1. pc[e] = "write" /\ pend[e] \in Pending
  BY DEF Land, TypeInv, TypeOK
<1>2. pend' = [pend EXCEPT ![e] = [pend[e] EXCEPT !.sent = FALSE, !.landed = TRUE]]
  BY DEF Land
<1>3. pend'[e] = [pend[e] EXCEPT !.sent = FALSE, !.landed = TRUE]
  BY <1>2 DEF TypeInv, TypeOK
<1> QED BY <1>1, <1>2, <1>3, RuleType DEF Land, ram, Pending

(* A retry keeps what the write is and whether it has landed.              *)
LEMMA RetryStep ==
  ASSUME TypeInv, NEW e \in Evaluators, Retry(e)
  PROVE  /\ pc[e] = "write"
         /\ UNCHANGED <<world, ram, disk, pc, at, hist>>
         /\ pend' = [pend EXCEPT ![e] = pend'[e]]
         /\ pend'[e].value = pend[e].value /\ pend'[e].prev = pend[e].prev
         /\ pend'[e].sent /\ pend'[e].landed = pend[e].landed
<1>1. pend[e] \in Pending
  BY DEF TypeInv, TypeOK
<1>2. pend' = [pend EXCEPT ![e] = [pend[e] EXCEPT !.tries = @ + 1, !.sent = TRUE]]
  BY DEF Retry
<1>3. pend'[e] = [pend[e] EXCEPT !.tries = @ + 1, !.sent = TRUE]
  BY <1>2 DEF TypeInv, TypeOK
<1> QED BY <1>1, <1>2, <1>3 DEF Retry, Pending

(* Every step keeps the belief true.                                       *)
LEMMA BeliefNext == ASSUME OneWriter, BeliefInv, [Next]_vars PROVE BeliefInv'
<1> TypeInv /\ BeliefHolds /\ WriteShows
  BY DEF BeliefInv
<1>0. TypeInv'
  BY NextType
<1> SUFFICES BeliefHolds' /\ WriteShows'
  BY <1>0 DEF BeliefInv
<1> HIDE DEF BeliefInv
<1>1. ASSUME UNCHANGED <<lastValues, device>>,
             \A e \in Evaluators : ~(Writing(e) /\ pend[e].landed) /\ ~Writing(e)'
      PROVE  BeliefHolds' /\ WriteShows'
  BY <1>1 DEF BeliefHolds, WriteShows, LandedOn, Writing
<1>2. ASSUME UNCHANGED <<lastValues, device, pc, at, pend>> PROVE BeliefHolds' /\ WriteShows'
  BY <1>2 DEF BeliefHolds, WriteShows, LandedOn, Writing, PointOf, RuleOf
<1>3. ASSUME NEW e \in Evaluators,
             Begin(e) \/ Disabled(e) \/ NoMatch(e) \/ PersistHysteresis(e) \/ PersistLedger(e)
      PROVE  BeliefHolds' /\ WriteShows'
  <2>1. UNCHANGED <<lastValues, device>> /\ ~Writing(e) /\ ~Writing(e)'
    BY <1>3 DEF Begin, Disabled, NoMatch, NextRule, PersistHysteresis, PersistLedger, Return,
                Writing, Idle, TypeInv, TypeOK, world, ram
  <2> QED BY <1>1, <2>1 DEF OneWriter
<1>4. ASSUME NEW e \in Evaluators, NEW want \in Values, Decide(e, want)
      PROVE  BeliefHolds' /\ WriteShows'
  <2>1. UNCHANGED <<lastValues, device>> /\ ~Writing(e) /\ pc[e] = "rule"
    BY <1>4 DEF Decide, Writing, world
  <2>2. CASE NextRule(e)
    <3>1. ~Writing(e)'
      BY <2>2 DEF NextRule, Writing, TypeInv, TypeOK
    <3> QED BY <1>1, <2>1, <3>1 DEF OneWriter
  <2>3. CASE ~NextRule(e)
    <3>1. pend'[e].sent /\ ~pend'[e].landed
      BY <1>4, <2>3 DEF Decide, TypeInv, TypeOK
    <3>2. WriteShows'
      BY <3>1 DEF WriteShows, OneWriter
    <3>3. BeliefHolds'
      BY <2>1, <3>1 DEF BeliefHolds, LandedOn, OneWriter
    <3> QED BY <3>2, <3>3
  <2> QED BY <2>2, <2>3
<1>5. ASSUME NEW e \in Evaluators, Ramped(e) PROVE BeliefHolds' /\ WriteShows'
  <2>1. /\ UNCHANGED <<lastValues, device, at, pend>> /\ Writing(e)
        /\ pc[e] = "ramp" /\ pend[e].sent /\ ~pend[e].landed
    BY <1>5 DEF Ramped, Writing, WriteShows, world, ram
  <2> QED BY <2>1 DEF BeliefHolds, WriteShows, LandedOn, OneWriter
<1>6. ASSUME NEW e \in Evaluators, Land(e) PROVE BeliefHolds' /\ WriteShows'
  <2> DEFINE p == PointOf(e)
  <2>1. /\ pc'[e] = "write" /\ p \in Points /\ PointOf(e)' = p /\ pend'[e].landed
        /\ device'[p] = pend'[e].value /\ UNCHANGED lastValues
        /\ \A q \in Points : q # p => device'[q] = device[q]
    BY <1>6, LandStep DEF PointOf, RuleOf, TypeInv, TypeOK
  <2>2. WriteShows'
    BY <2>1 DEF WriteShows, OneWriter
  <2>3. BeliefHolds'
    <3> SUFFICES ASSUME NEW q \in Points, lastValues'[q] # None, ~LandedOn(q)'
                 PROVE  device'[q] = lastValues'[q]
      BY DEF BeliefHolds
    <3>1. q # p
      BY <2>1 DEF LandedOn
    <3>2. ~LandedOn(q)
      BY <3>1 DEF LandedOn, OneWriter
    <3> QED BY <2>1, <3>1, <3>2 DEF BeliefHolds
  <2> QED BY <2>2, <2>3
<1>7. ASSUME NEW e \in Evaluators, Retry(e) PROVE BeliefHolds' /\ WriteShows'
  <2>1. /\ UNCHANGED <<lastValues, device, pc, at>> /\ pc[e] = "write"
        /\ pend'[e].value = pend[e].value /\ pend'[e].sent /\ pend'[e].landed = pend[e].landed
    BY <1>7, RetryStep DEF world, ram
  <2> QED BY <2>1 DEF BeliefHolds, WriteShows, LandedOn, PointOf, RuleOf, OneWriter, Writing
<1>8. ASSUME NEW e \in Evaluators, GiveUp(e) PROVE BeliefHolds' /\ WriteShows'
  <2>1. UNCHANGED <<lastValues, device>> /\ ~pend[e].landed
    BY <1>8 DEF GiveUp, OneWriter, world, ram
  <2>2. ~Writing(e)'
    BY <1>8 DEF GiveUp, NextRule, Writing, TypeInv, TypeOK
  <2> QED BY <1>1, <2>1, <2>2 DEF OneWriter
<1>9. ASSUME NEW e \in Evaluators, Acknowledge(e) PROVE BeliefHolds' /\ WriteShows'
  <2> DEFINE p == PointOf(e)
  <2>1. /\ Writing(e) /\ ~pend[e].sent /\ p \in Points /\ UNCHANGED device
        /\ lastValues' = [lastValues EXCEPT ![p] = pend[e].value]
    BY <1>9, RuleType DEF Acknowledge, Writing, world
  <2>2. ~Writing(e)'
    BY <1>9 DEF Acknowledge, NextRule, Writing, TypeInv, TypeOK
  <2>3. device[p] = pend[e].value
    BY <2>1 DEF WriteShows
  <2>4. \A q \in Points : q # p => ~LandedOn(q)
    BY DEF LandedOn, OneWriter
  <2> QED BY <2>1, <2>2, <2>3, <2>4 DEF BeliefHolds, WriteShows, OneWriter, TypeInv, TypeOK
<1>10. CASE Stop
  BY <1>10 DEF Stop, EmptyRam, BeliefHolds, WriteShows, Writing
<1>11. CASE Start \/ Tick \/ Horizon \/ UNCHANGED vars
  BY <1>2, <1>11 DEF Start, Tick, Horizon, vars, world, ram, coros
<1>12. ASSUME NEW p \in Points, NEW v \in Values, MqttCommand(p, v) PROVE FALSE
  BY <1>12 DEF MqttCommand, OneWriter
<1>13. ASSUME NEW k \in Cars, VehicleChanges(k) PROVE BeliefHolds' /\ WriteShows'
  BY <1>2, <1>13 DEF VehicleChanges, ram, coros
<1> QED
  BY <1>3, <1>4, <1>5, <1>6, <1>7, <1>8, <1>9, <1>10, <1>11, <1>12, <1>13 DEF Next, Evaluate

(* With one evaluator, no MQTT command and no unnoticed success, and however *)
(* writes fail, are slow or the process stops, even inside an evaluation:  *)
(* a write is skipped as redundant only if the device has the value.       *)
THEOREM BeliefCorrect == ASSUME OneWriter PROVE Spec => []BeliefMatchesDevice
<1>1. Init => BeliefInv
  BY InitType DEF Init, BeliefInv, BeliefHolds, WriteShows, Writing
<1>2. BeliefInv /\ [Next]_vars => BeliefInv'
  BY BeliefNext
<1>3. BeliefInv => BeliefMatchesDevice
  BY DEF BeliefInv, BeliefHolds, LandedOn, BeliefMatchesDevice, Writing
<1> QED BY <1>1, <1>2, <1>3, PTL DEF Spec

-----------------------------------------------------------------------------
(* The daily cycles.  They bound what the car sees while the add-on runs:  *)
(* the count is in RAM only.                                               *)

OneRun == OneWriter /\ Faults \cap {"restart", "stop"} = {}

CountsInLimit == \A k \in Cars : v2hCount[k] <= Vehicles[k].cycles
WriteInLimit == \A e \in Evaluators : Writing(e) =>
  /\ pend[e].prev = lastValues[PointOf(e)]
  /\ CountsSession(e) =>
       \A k \in Cars : CarFor(PointOf(e)) = k => v2hCount[k] < Vehicles[k].cycles
SessionsCounted ==
  \A k \in Cars : sessions[k] <= CountToday(k) + IF Unanswered(k) THEN 1 ELSE 0
CycleInv == BeliefInv /\ up /\ CountsInLimit /\ WriteInLimit /\ SessionsCounted

(* The limit of a vehicle is a number.                                     *)
LEMMA CyclesType == ASSUME NEW k \in Cars PROVE Vehicles[k].cycles \in Nat
<1>1. Vehicles[k] \in Vehicle
  BY EngineAssumption DEF Cars
<1> QED BY <1>1 DEF Vehicle

(* Nobody at a write: nothing is uncounted and no write needs the limit.   *)
LEMMA NobodyWrites ==
  ASSUME \A e \in Evaluators : ~Writing(e)
  PROVE  WriteInLimit /\ \A k : ~Unanswered(k)
BY DEF WriteInLimit, Unanswered, Writing

(* Every step keeps the count.                                             *)
LEMMA CycleNext == ASSUME OneRun, CycleInv, [Next]_vars PROVE CycleInv'
<1> /\ TypeInv /\ BeliefHolds /\ WriteShows /\ up
    /\ CountsInLimit /\ WriteInLimit /\ SessionsCounted /\ OneWriter
  BY DEF CycleInv, BeliefInv, OneRun
<1>0. BeliefInv' /\ TypeInv'
  BY BeliefNext, NextType DEF CycleInv
<1> DEFINE Inv == up /\ CountsInLimit /\ WriteInLimit /\ SessionsCounted
<1> SUFFICES Inv'
  BY <1>0 DEF CycleInv
<1> HIDE DEF CycleInv
<1>1. ASSUME UNCHANGED <<up, v2hDay, v2hCount, now, sessions>>,
             \A e \in Evaluators : ~(Writing(e) /\ pend[e].landed) /\ ~Writing(e)'
      PROVE  Inv'
  <2>1. \A k : ~Unanswered(k) /\ ~Unanswered(k)'
    BY <1>1 DEF Unanswered, Writing
  <2>2. WriteInLimit'
    BY <1>1 DEF WriteInLimit
  <2> QED BY <1>1, <2>1, <2>2 DEF CountsInLimit, SessionsCounted, CountToday, Today
<1>2. ASSUME UNCHANGED <<up, v2hDay, v2hCount, now, sessions, lastValues, pc, at>>,
             \A e \in Evaluators :
               /\ pend'[e].value = pend[e].value /\ pend'[e].prev = pend[e].prev
               /\ pend'[e].landed = pend[e].landed
      PROVE  Inv'
  <2>1. \A e \in Evaluators : /\ Writing(e)' = Writing(e) /\ PointOf(e)' = PointOf(e)
                              /\ CountsSession(e)' = CountsSession(e)
    BY <1>2 DEF Writing, PointOf, RuleOf, CountsSession
  <2>2. \A k : Unanswered(k)' = Unanswered(k)
    BY <1>2, <2>1 DEF Unanswered
  <2>3. WriteInLimit'
    BY <1>2, <2>1 DEF WriteInLimit
  <2> QED BY <1>2, <2>2, <2>3 DEF CountsInLimit, SessionsCounted, CountToday, Today
<1>3. ASSUME NEW e \in Evaluators,
             Begin(e) \/ Disabled(e) \/ NoMatch(e) \/ PersistHysteresis(e) \/ PersistLedger(e)
      PROVE  Inv'
  <2>1. UNCHANGED <<up, v2hDay, v2hCount, now, sessions>> /\ ~Writing(e) /\ ~Writing(e)'
    BY <1>3 DEF Begin, Disabled, NoMatch, NextRule, PersistHysteresis, PersistLedger, Return,
                Writing, Idle, TypeInv, TypeOK, world, ram, hist
  <2> QED BY <1>1, <2>1 DEF OneWriter
<1>4. ASSUME NEW e \in Evaluators, NEW want \in Values, Decide(e, want) PROVE Inv'
  <2> DEFINE p == PointOf(e)
  <2>1. /\ UNCHANGED <<up, now, sessions, lastValues>> /\ pc[e] = "rule" /\ ~Writing(e)
        /\ \/ v2hDay' = Today /\ v2hDay # Today /\ v2hCount' = [k \in Cars |-> 0]
           \/ UNCHANGED <<v2hDay, v2hCount>>
    BY <1>4 DEF Decide, Writing, world, hist
  <2>2. \A k \in Cars : /\ CountToday(k)' = CountToday(k)
                        /\ v2hCount'[k] = 0 \/ v2hCount'[k] = v2hCount[k]
    BY <2>1 DEF CountToday, Today
  <2>3. CountsInLimit'
    BY <2>2, CyclesType DEF CountsInLimit
  <2>4. \A k : ~Unanswered(k) /\ ~Unanswered(k)'
    <3>1. pc'[e] # "write" \/ ~pend'[e].landed
      BY <1>4 DEF Decide, NextRule, TypeInv, TypeOK
    <3> QED BY <2>1, <3>1 DEF Unanswered, OneWriter
  <2>5. SessionsCounted'
    BY <2>1, <2>2, <2>4, CountTodayType, <1>0 DEF SessionsCounted, TypeInv, TypeOK
  <2>6. CASE NextRule(e)
    <3>1. ~Writing(e)'
      BY <2>6 DEF NextRule, Writing, TypeInv, TypeOK
    <3>2. WriteInLimit'
      BY <3>1 DEF WriteInLimit, OneWriter
    <3> QED BY <2>1, <2>3, <2>5, <3>2
  <2>7. CASE ~NextRule(e)
    <3>1. pend'[e].prev = lastValues[p] /\ at' = at
      BY <1>4, <2>7 DEF Decide, TypeInv, TypeOK
    <3>2. ASSUME CountsSession(e)', NEW k \in Cars, CarFor(p) = k
          PROVE  v2hCount'[k] < Vehicles[k].cycles
      <4>1. pend'[e].value \in Negative
        BY <3>2 DEF CountsSession
      <4>2. V2hAllowed(p, context[e].cars) /\ AfterCap(p, want) \in Negative
        BY <1>4, <2>7, <4>1, DecideGrants
      <4>3. V2hConsidered(p, context[e].cars) /\ CountToday(k) < Vehicles[k].cycles
        BY <3>2, <4>2 DEF V2hAllowed
      <4>4. v2hDay' = Today /\ v2hCount'[k] = CountToday(k)
        BY <1>4, <4>2, <4>3 DEF Decide, CountToday
      <4> QED BY <4>3, <4>4
    <3>3. WriteInLimit'
      BY <2>1, <3>1, <3>2 DEF WriteInLimit, OneWriter, PointOf, RuleOf
    <3> QED BY <2>1, <2>3, <2>5, <3>3
  <2> QED BY <2>6, <2>7
<1>5. ASSUME NEW e \in Evaluators, Ramped(e) PROVE Inv'
  <2>1. /\ UNCHANGED <<up, v2hDay, v2hCount, now, sessions, lastValues, at, pend>>
        /\ Writing(e) /\ pc[e] = "ramp" /\ ~pend[e].landed
    BY <1>5 DEF Ramped, Writing, WriteShows, world, ram, hist
  <2>2. \A k : ~Unanswered(k) /\ ~Unanswered(k)'
    BY <2>1 DEF Unanswered, OneWriter
  <2>3. WriteInLimit'
    BY <2>1 DEF WriteInLimit, OneWriter, CountsSession, PointOf, RuleOf
  <2> QED BY <2>1, <2>2, <2>3 DEF CountsInLimit, SessionsCounted, CountToday, Today
<1>6. ASSUME NEW e \in Evaluators, Land(e) PROVE Inv'
  <2> DEFINE p == PointOf(e)
             v == pend[e].value
  <2>1. /\ UNCHANGED <<up, v2hDay, v2hCount, now, lastValues, pc, at>>
        /\ sessions' = [k \in Cars |-> sessions[k] + IF NewSession(p, v, k) THEN 1 ELSE 0]
    BY <1>6 DEF Land, ram
  <2>2. /\ Writing(e) /\ Writing(e)' /\ p \in Points /\ PointOf(e)' = p /\ pc[e] = "write"
        /\ pend'[e].value = v /\ pend'[e].prev = pend[e].prev /\ pend'[e].landed
        /\ CountsSession(e)' = CountsSession(e)
    BY <1>6, LandStep DEF Writing, PointOf, RuleOf, CountsSession
  <2>3. ASSUME NEW k \in Cars, NewSession(p, v, k)
        PROVE  ~Unanswered(k) /\ Unanswered(k)'
    <3>1. ~pend[e].landed
      BY <2>2, <2>3 DEF NewSession, WriteShows
    <3>2. ~LandedOn(p)
      BY <3>1 DEF LandedOn, OneWriter
    <3>3. pend[e].prev \notin Negative
      <4>1. pend[e].prev = lastValues[p]
        BY <2>2 DEF WriteInLimit
      <4>2. lastValues[p] # None => device[p] = lastValues[p]
        BY <2>2, <3>2 DEF BeliefHolds
      <4>3. None \notin Negative
        BY EngineAssumption
      <4> QED BY <2>3, <4>1, <4>2, <4>3 DEF NewSession
    <3>4. CountsSession(e) /\ CarFor(p) = k
      BY <2>3, <3>3 DEF CountsSession, NewSession
    <3> QED BY <2>1, <2>2, <3>1, <3>4 DEF Unanswered, OneWriter
  <2>4. ASSUME NEW k \in Cars, Unanswered(k) PROVE Unanswered(k)'
    BY <2>1, <2>2, <2>4 DEF Unanswered, OneWriter
  <2>5. \A k \in Cars : CountToday(k)' = CountToday(k) /\ CountToday(k) \in Nat
                        /\ sessions[k] \in Nat
    BY <2>1, CountTodayType DEF CountToday, Today, TypeInv, TypeOK
  <2>6. SessionsCounted'
    <3> SUFFICES ASSUME NEW k \in Cars
                 PROVE  sessions'[k] <= CountToday(k)' + IF Unanswered(k)' THEN 1 ELSE 0
      BY DEF SessionsCounted
    <3>1. sessions[k] <= CountToday(k) + IF Unanswered(k) THEN 1 ELSE 0
      BY DEF SessionsCounted
    <3>2. CASE NewSession(p, v, k)
      BY <2>1, <2>3, <2>5, <3>1, <3>2
    <3>3. CASE ~NewSession(p, v, k)
      <4>1. sessions'[k] = sessions[k]
        BY <2>1, <2>5, <3>3
      <4> QED BY <2>4, <2>5, <3>1, <4>1
    <3> QED BY <3>2, <3>3
  <2>7. WriteInLimit'
    BY <2>1, <2>2 DEF WriteInLimit, OneWriter
  <2> QED BY <2>1, <2>6, <2>7 DEF CountsInLimit
<1>7. ASSUME NEW e \in Evaluators, Retry(e) PROVE Inv'
  BY <1>2, <1>7, RetryStep DEF world, ram, hist, OneWriter
<1>8. ASSUME NEW e \in Evaluators, GiveUp(e) PROVE Inv'
  <2>1. UNCHANGED <<up, v2hDay, v2hCount, now, sessions>> /\ ~pend[e].landed
    BY <1>8 DEF GiveUp, OneWriter, world, ram, hist
  <2>2. ~Writing(e)'
    BY <1>8 DEF GiveUp, NextRule, Writing, TypeInv, TypeOK
  <2> QED BY <1>1, <2>1, <2>2 DEF OneWriter
<1>9. ASSUME NEW e \in Evaluators, Acknowledge(e) PROVE Inv'
  <2> DEFINE p == PointOf(e)
  <2>1. Writing(e) /\ pc[e] = "write" /\ pend[e].landed /\ UNCHANGED <<up, now, sessions>>
    BY <1>9 DEF Acknowledge, Writing, WriteShows, world, hist
  <2>2. ~Writing(e)'
    BY <1>9 DEF Acknowledge, NextRule, Writing, TypeInv, TypeOK
  <2>3. WriteInLimit' /\ \A k : ~Unanswered(k)'
    BY <2>2 DEF WriteInLimit, Unanswered, Writing, OneWriter
  <2>4. \A k \in Cars : Unanswered(k) <=> CountsSession(e) /\ CarFor(p) = k
    BY <2>1 DEF Unanswered, OneWriter
  <2>5. \A k \in Cars : /\ CountToday(k) \in Nat /\ CountToday(k) <= v2hCount[k]
                        /\ v2hCount[k] \in Nat
    BY CountTodayType DEF CountToday, TypeInv, TypeOK
  <2>6. CASE CountsSession(e) /\ CarFor(p) # None
    <3>1. \A k \in Cars : /\ v2hCount'[k] = CountToday(k) + IF k = CarFor(p) THEN 1 ELSE 0
                          /\ CountToday(k)' = v2hCount'[k]
      BY <1>9, <2>1, <2>6 DEF Acknowledge, TrackDischarge, CountToday, Today
    <3>2. CountsInLimit'
      BY <2>1, <2>5, <2>6, <3>1, CyclesType DEF WriteInLimit, CountsInLimit
    <3>3. SessionsCounted'
      BY <2>1, <2>3, <2>4, <2>5, <2>6, <3>1, SMTT(30) DEF SessionsCounted
    <3> QED BY <2>1, <2>3, <3>2, <3>3
  <2>7. CASE ~(CountsSession(e) /\ CarFor(p) # None)
    <3>1. UNCHANGED <<v2hDay, v2hCount>>
      BY <1>9, <2>7 DEF Acknowledge
    <3>2. \A k \in Cars : k # None
      BY EngineAssumption DEF Cars
    <3>3. \A k \in Cars : ~Unanswered(k) /\ CountToday(k)' = CountToday(k)
      BY <2>1, <2>4, <2>7, <3>1, <3>2 DEF CountToday, Today
    <3> QED BY <2>1, <2>3, <3>1, <3>3 DEF CountsInLimit, SessionsCounted
  <2> QED BY <2>6, <2>7
<1>10. CASE Tick
  <2>1. /\ UNCHANGED <<up, v2hDay, v2hCount, lastValues, pc, at, pend>> /\ now' = now + 1
        /\ sessions' = [k \in Cars |-> IF DayOf[now + 1] = Today THEN sessions[k]
                                        ELSE IF Unanswered(k) THEN 1 ELSE 0]
    BY <1>10 DEF Tick, ram, coros
  <2>2. \A e \in Evaluators : /\ Writing(e)' = Writing(e) /\ PointOf(e)' = PointOf(e)
                              /\ CountsSession(e)' = CountsSession(e)
    BY <2>1 DEF Writing, PointOf, RuleOf, CountsSession
  <2>3. \A k : Unanswered(k)' = Unanswered(k)
    BY <2>1, <2>2 DEF Unanswered
  <2>4. WriteInLimit' /\ CountsInLimit'
    BY <2>1, <2>2 DEF WriteInLimit, CountsInLimit
  <2>5. \A k \in Cars : CountToday(k)' \in Nat
    BY <1>0 DEF TypeInv, CountToday, TypeOK
  <2>6. CASE DayOf[now + 1] # Today
    <3>1. \A k \in Cars : sessions'[k] = IF Unanswered(k)' THEN 1 ELSE 0
      BY <2>1, <2>3, <2>6
    <3>2. SessionsCounted'
      BY <2>5, <3>1 DEF SessionsCounted
    <3> QED BY <2>1, <2>4, <3>2
  <2>7. CASE DayOf[now + 1] = Today
    <3>1. \A k \in Cars : CountToday(k)' = CountToday(k)
      BY <2>1, <2>7 DEF CountToday, Today
    <3> QED BY <2>1, <2>3, <2>4, <2>7, <3>1 DEF SessionsCounted
  <2> QED BY <2>6, <2>7
<1>11. CASE Stop
  BY <1>11 DEF Stop, OneRun
<1>12. CASE Start \/ Horizon \/ UNCHANGED vars
  BY <1>2, <1>12 DEF Start, Horizon, vars, world, ram, coros, hist
<1>13. ASSUME NEW p \in Points, NEW v \in Values, MqttCommand(p, v) PROVE FALSE
  BY <1>13 DEF MqttCommand, OneWriter
<1>14. ASSUME NEW k \in Cars, VehicleChanges(k) PROVE Inv'
  BY <1>2, <1>14 DEF VehicleChanges, ram, coros, hist
<1> QED
  BY <1>3, <1>4, <1>5, <1>6, <1>7, <1>8, <1>9, <1>10, <1>11, <1>12, <1>13, <1>14
  DEF Next, Evaluate

(* At first nothing is counted and nothing has begun.                       *)
LEMMA CycleInit == ASSUME Init PROVE CycleInv
<1>1. BeliefInv
  BY InitType DEF Init, BeliefInv, BeliefHolds, WriteShows, Writing
<1>2. CountsInLimit /\ WriteInLimit /\ SessionsCounted
  BY CyclesType DEF Init, CountsInLimit, WriteInLimit, SessionsCounted, Unanswered, CountToday, Writing
<1> QED BY <1>1, <1>2 DEF Init, CycleInv

(* For any rules and vehicles, within one run of the add-on and with one    *)
(* evaluator: failing and slow writes and the change of the day included,  *)
(* no car sees more discharges begin in a day than its limit.              *)
THEOREM CyclesCorrect == ASSUME OneRun PROVE Spec => []CyclesBounded
<1>1. Init => CycleInv
  BY CycleInit
<1>2. CycleInv /\ [Next]_vars => CycleInv'
  BY CycleNext
<1>3. CycleInv => CyclesBounded
  <2> SUFFICES ASSUME CycleInv, NEW k \in Cars PROVE sessions[k] <= Vehicles[k].cycles
    BY DEF CyclesBounded
  <2>1. /\ v2hCount[k] \in Nat /\ CountToday(k) \in Nat /\ CountToday(k) <= v2hCount[k]
        /\ sessions[k] \in Nat /\ Vehicles[k].cycles \in Nat
    BY CountTodayType, CyclesType DEF CycleInv, BeliefInv, TypeInv, TypeOK, CountToday
  <2>2. Unanswered(k) => v2hCount[k] < Vehicles[k].cycles
    BY DEF CycleInv, Unanswered, WriteInLimit, Writing
  <2>3. /\ v2hCount[k] <= Vehicles[k].cycles
        /\ sessions[k] <= CountToday(k) + IF Unanswered(k) THEN 1 ELSE 0
    BY DEF CycleInv, CountsInLimit, SessionsCounted
  <2> QED BY <2>1, <2>2, <2>3
<1> QED BY <1>1, <1>2, <1>3, PTL DEF Spec

(* The other way round: no discharge is counted that did not begin today.   *)
DaysPass == \A t, u \in 0..MaxTime : t <= u => DayOf[t] <= DayOf[u]
Fresh == /\ OneRun /\ DaysPass
         /\ \A d \in InitDevices, p \in Points : d[p] \notin Negative

(* A point nothing is known of is not discharging: nobody but the engine    *)
(* takes it below zero.                                                    *)
NeverBelow ==
  \A p \in Points : lastValues[p] = None /\ ~LandedOn(p) => device[p] \notin Negative
DayKnown == v2hDay # None => v2hDay <= Today
CountsBegan ==
  \A k \in Cars : CountToday(k) + (IF Unanswered(k) THEN 1 ELSE 0) <= sessions[k]
CountInv == CycleInv /\ NeverBelow /\ DayKnown /\ CountsBegan

(* Every step keeps the count from running ahead.                           *)
LEMMA CountNext == ASSUME Fresh, CountInv, [Next]_vars PROVE CountInv'
<1> /\ TypeInv /\ BeliefHolds /\ WriteShows /\ WriteInLimit /\ up
    /\ NeverBelow /\ DayKnown /\ CountsBegan /\ OneRun /\ OneWriter
  BY DEF CountInv, CycleInv, BeliefInv, Fresh, OneRun
<1>0. CycleInv' /\ TypeInv'
  BY CycleNext, NextType DEF CountInv
<1> DEFINE Inv == NeverBelow /\ DayKnown /\ CountsBegan
<1> SUFFICES Inv'
  BY <1>0 DEF CountInv
<1> HIDE DEF CountInv
<1>1. ASSUME UNCHANGED <<v2hDay, v2hCount, now, sessions, lastValues, device>>,
             \A e \in Evaluators : ~(Writing(e) /\ pend[e].landed)
                                  /\ (pc'[e] # "write" \/ ~pend'[e].landed)
      PROVE  Inv'
  <2>1. \A k : ~Unanswered(k) /\ ~Unanswered(k)'
    BY <1>1 DEF Unanswered, Writing
  <2>2. NeverBelow'
    BY <1>1 DEF NeverBelow, LandedOn, Writing
  <2> QED BY <1>1, <2>1, <2>2 DEF CountsBegan, CountToday, DayKnown, Today
<1>2. ASSUME UNCHANGED <<v2hDay, v2hCount, now, sessions, lastValues, device, pc, at>>,
             \A e \in Evaluators :
               /\ pend'[e].value = pend[e].value /\ pend'[e].prev = pend[e].prev
               /\ pend'[e].landed = pend[e].landed
      PROVE  Inv'
  <2>1. \A e \in Evaluators : PointOf(e)' = PointOf(e) /\ CountsSession(e)' = CountsSession(e)
    BY <1>2 DEF PointOf, RuleOf, CountsSession
  <2>2. \A k : Unanswered(k)' = Unanswered(k)
    BY <1>2, <2>1 DEF Unanswered
  <2>3. NeverBelow'
    BY <1>2, <2>1 DEF NeverBelow, LandedOn
  <2> QED BY <1>2, <2>2, <2>3 DEF CountsBegan, CountToday, DayKnown, Today
<1>3. ASSUME NEW e \in Evaluators,
             Begin(e) \/ Disabled(e) \/ NoMatch(e) \/ PersistHysteresis(e) \/ PersistLedger(e)
      PROVE  Inv'
  <2>1. /\ UNCHANGED <<v2hDay, v2hCount, now, sessions, lastValues, device>>
        /\ ~Writing(e) /\ pc'[e] # "write"
    BY <1>3 DEF Begin, Disabled, NoMatch, NextRule, PersistHysteresis, PersistLedger, Return,
                Writing, Idle, TypeInv, TypeOK, world, ram, hist
  <2> QED BY <1>1, <2>1 DEF OneWriter
<1>4. ASSUME NEW e \in Evaluators, NEW want \in Values, Decide(e, want) PROVE Inv'
  <2>1. /\ UNCHANGED <<now, sessions, lastValues, device>> /\ pc[e] = "rule" /\ ~Writing(e)
        /\ \/ v2hDay' = Today /\ v2hDay # Today /\ v2hCount' = [k \in Cars |-> 0]
           \/ UNCHANGED <<v2hDay, v2hCount>>
    BY <1>4 DEF Decide, Writing, world, hist
  <2>2. pc'[e] # "write" \/ ~pend'[e].landed
    BY <1>4 DEF Decide, NextRule, TypeInv, TypeOK
  <2>3. \A k : ~Unanswered(k) /\ ~Unanswered(k)'
    BY <2>1, <2>2 DEF Unanswered, OneWriter
  <2>4. \A k \in Cars : CountToday(k)' = CountToday(k)
    BY <2>1 DEF CountToday, Today
  <2>5. DayKnown'
    BY <2>1, TodayType DEF DayKnown, Today, TypeInv
  <2>6. NeverBelow'
    BY <2>1, <2>2 DEF NeverBelow, LandedOn, OneWriter
  <2> QED BY <2>1, <2>3, <2>4, <2>5, <2>6 DEF CountsBegan
<1>5. ASSUME NEW e \in Evaluators, Ramped(e) PROVE Inv'
  <2>1. /\ UNCHANGED <<v2hDay, v2hCount, now, sessions, lastValues, device, pend>>
        /\ ~pend[e].landed
    BY <1>5 DEF Ramped, Writing, WriteShows, world, ram, hist
  <2> QED BY <1>1, <2>1 DEF OneWriter
<1>6. ASSUME NEW e \in Evaluators, Land(e) PROVE Inv'
  <2> DEFINE p == PointOf(e)
             v == pend[e].value
  <2>1. /\ UNCHANGED <<v2hDay, v2hCount, now, lastValues, pc, at>>
        /\ sessions' = [k \in Cars |-> sessions[k] + IF NewSession(p, v, k) THEN 1 ELSE 0]
    BY <1>6 DEF Land, ram
  <2>2. /\ Writing(e) /\ p \in Points /\ PointOf(e)' = p /\ pc[e] = "write"
        /\ pend'[e].value = v /\ pend'[e].prev = pend[e].prev /\ pend'[e].landed
        /\ CountsSession(e)' = CountsSession(e)
        /\ device' = [device EXCEPT ![p] = v]
    BY <1>6, LandStep DEF Writing, PointOf, RuleOf, CountsSession
  <2>3. NeverBelow'
    <3> SUFFICES ASSUME NEW q \in Points, lastValues'[q] = None, ~LandedOn(q)'
                 PROVE  device'[q] \notin Negative
      BY DEF NeverBelow
    <3>1. q # p
      BY <2>1, <2>2 DEF LandedOn
    <3>2. ~LandedOn(q)
      BY <3>1 DEF LandedOn, OneWriter
    <3>3. device'[q] = device[q]
      BY <2>2, <3>1 DEF TypeInv, TypeOK
    <3> QED BY <2>1, <3>2, <3>3 DEF NeverBelow
  <2>4. ASSUME NEW k \in Cars, Unanswered(k)', ~Unanswered(k) PROVE NewSession(p, v, k)
    <3>1. CountsSession(e) /\ CarFor(p) = k /\ ~pend[e].landed
      BY <2>1, <2>2, <2>4 DEF Unanswered, OneWriter
    <3>2. ~LandedOn(p)
      BY <3>1 DEF LandedOn, OneWriter
    <3>3. lastValues[p] = pend[e].prev
      BY <2>2 DEF WriteInLimit
    <3>4. device[p] \notin Negative
      BY <2>2, <3>1, <3>2, <3>3 DEF BeliefHolds, NeverBelow, CountsSession
    <3> QED BY <3>1, <3>4 DEF NewSession, CountsSession
  <2>5. \A k \in Cars : CountToday(k)' = CountToday(k) /\ CountToday(k) \in Nat
                        /\ sessions[k] \in Nat
    BY <2>1, CountTodayType DEF CountToday, Today, TypeInv, TypeOK
  <2>6. CountsBegan'
    <3> SUFFICES ASSUME NEW k \in Cars
                 PROVE  CountToday(k)' + (IF Unanswered(k)' THEN 1 ELSE 0) <= sessions'[k]
      BY DEF CountsBegan
    <3>1. CountToday(k) + (IF Unanswered(k) THEN 1 ELSE 0) <= sessions[k]
      BY DEF CountsBegan
    <3>2. CASE NewSession(p, v, k)
      BY <2>1, <2>5, <3>1, <3>2
    <3>3. CASE ~NewSession(p, v, k)
      <4>1. sessions'[k] = sessions[k]
        BY <2>1, <2>5, <3>3
      <4> QED BY <2>4, <2>5, <3>1, <3>3, <4>1
    <3> QED BY <3>2, <3>3
  <2> QED BY <2>1, <2>3, <2>6 DEF DayKnown, Today
<1>7. ASSUME NEW e \in Evaluators, Retry(e) PROVE Inv'
  BY <1>2, <1>7, RetryStep DEF world, ram, hist, OneWriter
<1>8. ASSUME NEW e \in Evaluators, GiveUp(e) PROVE Inv'
  <2>1. /\ UNCHANGED <<v2hDay, v2hCount, now, sessions, lastValues, device>>
        /\ ~pend[e].landed
    BY <1>8 DEF GiveUp, OneWriter, world, ram, hist
  <2>2. pc'[e] # "write"
    BY <1>8 DEF GiveUp, NextRule, TypeInv, TypeOK
  <2> QED BY <1>1, <2>1, <2>2 DEF OneWriter
<1>9. ASSUME NEW e \in Evaluators, Acknowledge(e) PROVE Inv'
  <2> DEFINE p == PointOf(e)
  <2>1. /\ Writing(e) /\ pc[e] = "write" /\ pend[e].landed /\ UNCHANGED <<now, sessions, device>>
        /\ lastValues' = [lastValues EXCEPT ![p] = pend[e].value] /\ pend[e].value \in Values
    BY <1>9 DEF Acknowledge, Writing, WriteShows, world, hist, TypeInv, AtRule
  <2>2. pc'[e] # "write"
    BY <1>9 DEF Acknowledge, NextRule, TypeInv, TypeOK
  <2>3. \A k : ~Unanswered(k)'
    BY <2>2 DEF Unanswered, OneWriter
  <2>4. NeverBelow'
    <3> SUFFICES ASSUME NEW q \in Points, lastValues'[q] = None PROVE device'[q] \notin Negative
      BY DEF NeverBelow
    <3>1. q # p /\ lastValues[q] = None
      BY <2>1, EngineAssumption DEF TypeInv, TypeOK
    <3>2. ~LandedOn(q)
      BY <3>1 DEF LandedOn, OneWriter
    <3> QED BY <2>1, <3>1, <3>2 DEF NeverBelow
  <2>5. \A k \in Cars : CountToday(k) \in Nat /\ sessions[k] \in Nat
    BY CountTodayType DEF TypeInv, TypeOK
  <2>6. CASE CountsSession(e) /\ CarFor(p) # None
    <3>1. /\ v2hDay' = Today
          /\ \A k \in Cars : CountToday(k)' = CountToday(k) + IF k = CarFor(p) THEN 1 ELSE 0
      BY <1>9, <2>1, <2>6 DEF Acknowledge, TrackDischarge, CountToday, Today
    <3>2. \A k \in Cars : k = CarFor(p) => Unanswered(k)
      BY <2>1, <2>6 DEF Unanswered
    <3>3. CountsBegan'
      BY <2>1, <2>3, <2>5, <3>1, <3>2, SMTT(30) DEF CountsBegan
    <3>4. DayKnown'
      BY <2>1, <3>1, TodayType DEF DayKnown, Today, TypeInv
    <3> QED BY <2>4, <3>3, <3>4
  <2>7. CASE ~(CountsSession(e) /\ CarFor(p) # None)
    <3>1. UNCHANGED <<v2hDay, v2hCount>>
      BY <1>9, <2>7 DEF Acknowledge
    <3>2. \A k \in Cars : CountToday(k)' = CountToday(k)
      BY <2>1, <3>1 DEF CountToday, Today
    <3>3. CountsBegan'
      BY <2>1, <2>3, <2>5, <3>2, SMTT(30) DEF CountsBegan
    <3> QED BY <2>1, <2>4, <3>1, <3>3 DEF DayKnown, Today
  <2> QED BY <2>6, <2>7
<1>10. CASE Tick
  <2>1. /\ UNCHANGED <<v2hDay, v2hCount, lastValues, device, pc, at, pend>> /\ now' = now + 1
        /\ sessions' = [k \in Cars |-> IF DayOf[now + 1] = Today THEN sessions[k]
                                        ELSE IF Unanswered(k) THEN 1 ELSE 0]
        /\ now \in 0..MaxTime /\ now + 1 \in 0..MaxTime
    BY <1>10, EngineAssumption DEF Tick, ram, coros, TypeInv, TypeOK
  <2>2. \A e \in Evaluators : PointOf(e)' = PointOf(e) /\ CountsSession(e)' = CountsSession(e)
    BY <2>1 DEF PointOf, RuleOf, CountsSession
  <2>3. \A k : Unanswered(k)' = Unanswered(k)
    BY <2>1, <2>2 DEF Unanswered
  <2>4. NeverBelow'
    BY <2>1, <2>2 DEF NeverBelow, LandedOn
  <2>5. Today <= DayOf[now + 1] /\ Today \in Nat /\ DayOf[now + 1] \in Nat
    BY <2>1, EngineAssumption DEF Fresh, DaysPass, Today
  <2>6. v2hDay \in Nat \cup {None} /\ None \notin Nat
    BY EngineAssumption DEF TypeInv, TypeOK
  <2>7. DayKnown'
    BY <2>1, <2>5, <2>6 DEF DayKnown, Today
  <2>8. CASE DayOf[now + 1] # Today
    <3>1. v2hDay # DayOf[now + 1]
      BY <2>5, <2>6, <2>8 DEF DayKnown
    <3>2. \A k \in Cars : CountToday(k)' = 0
      BY <2>1, <3>1 DEF CountToday, Today
    <3>3. CountsBegan'
      BY <2>1, <2>3, <2>8, <3>2 DEF CountsBegan
    <3> QED BY <2>4, <2>7, <3>3
  <2>9. CASE DayOf[now + 1] = Today
    <3>1. \A k \in Cars : CountToday(k)' = CountToday(k)
      BY <2>1, <2>9 DEF CountToday, Today
    <3> QED BY <2>1, <2>3, <2>4, <2>7, <2>9, <3>1 DEF CountsBegan
  <2> QED BY <2>8, <2>9
<1>11. CASE Stop
  BY <1>11 DEF Stop, OneRun
<1>12. CASE Start \/ Horizon \/ UNCHANGED vars
  BY <1>2, <1>12 DEF Start, Horizon, vars, world, ram, coros, hist
<1>13. ASSUME NEW p \in Points, NEW v \in Values, MqttCommand(p, v) PROVE FALSE
  BY <1>13 DEF MqttCommand, OneWriter
<1>14. ASSUME NEW k \in Cars, VehicleChanges(k) PROVE Inv'
  BY <1>2, <1>14 DEF VehicleChanges, ram, coros, hist
<1> QED
  BY <1>3, <1>4, <1>5, <1>6, <1>7, <1>8, <1>9, <1>10, <1>11, <1>12, <1>13, <1>14
  DEF Next, Evaluate

(* For any fleet, any chargers a car is charged at and any rules, within    *)
(* one run of the add-on that begins with no discharge: between two         *)
(* evaluations the engine has counted exactly the discharges that began,    *)
(* failing and slow writes and midnight included.                          *)
THEOREM CountsCorrect == ASSUME Fresh PROVE Spec => []CyclesAreCounted
<1>1. Init => CountInv
  <2> SUFFICES ASSUME Init PROVE CountInv
    OBVIOUS
  <2>1. CycleInv
    BY CycleInit DEF Fresh
  <2>2. NeverBelow
    BY DEF Init, Fresh, NeverBelow
  <2>3. DayKnown /\ CountsBegan
    BY DEF Init, DayKnown, CountsBegan, CountToday, Unanswered
  <2> QED BY <2>1, <2>2, <2>3 DEF CountInv
<1>2. CountInv /\ [Next]_vars => CountInv'
  BY CountNext
<1>3. CountInv => CyclesAreCounted
  <2> SUFFICES ASSUME CountInv, AllIdle, NEW k \in Cars PROVE CountToday(k) = sessions[k]
    BY DEF CyclesAreCounted
  <2>1. CountToday(k) \in Nat /\ sessions[k] \in Nat
    BY CountTodayType DEF CountInv, CycleInv, BeliefInv, TypeInv, TypeOK
  <2>2. ~Unanswered(k)
    BY DEF AllIdle, Idle, Unanswered
  <2>3. sessions[k] <= CountToday(k) /\ CountToday(k) <= sessions[k]
    BY <2>1, <2>2 DEF CountInv, CycleInv, SessionsCounted, CountsBegan
  <2> QED BY <2>1, <2>3
<1> QED BY <1>1, <1>2, <1>3, PTL DEF Spec

-----------------------------------------------------------------------------
(* The minutes of the ledger.                                              *)

(* The minutes of a period inside the window, one by one.                  *)
MinutesOf(q, t) == {m \in Nat : m >= t - Window /\ q.start <= m /\ m < EndOf(q, t)}

(* Their number is what the code adds for the period.                      *)
LEMMA MinutesCounted ==
  ASSUME NEW q \in Period, NEW t \in Nat, Window \in Nat, None \notin Nat
  PROVE  IsFiniteSet(MinutesOf(q, t)) /\ Cardinality(MinutesOf(q, t)) = Minutes(q, t)
<1> DEFINE from == IF q.start > t - Window THEN q.start ELSE t - Window
           end == EndOf(q, t)
<1>1. q.start \in Nat /\ end \in Nat /\ from \in Nat
  BY DEF Period, EndOf
<1> HIDE DEF from, end
<1>2. MinutesOf(q, t) = from..(end - 1)
  BY <1>1 DEF MinutesOf, from, end
<1>3. /\ IsFiniteSet(from..(end - 1))
      /\ Cardinality(from..(end - 1)) = IF from > end - 1 THEN 0 ELSE (end - 1) - from + 1
  BY <1>1, FS_Interval
<1>4. Minutes(q, t) = IF end > from THEN end - from ELSE 0
  BY DEF Minutes, from, end
<1> QED BY <1>1, <1>2, <1>3, <1>4

(* The sum of the minutes of periods that do not overlap is the number of  *)
(* the minutes they cover: by the smallest set of periods of which not.    *)
LEMMA SumOfDisjoint ==
  ASSUME NEW S, IsFiniteSet(S), S \subseteq Period, NEW t \in Nat,
         Window \in Nat, None \notin Nat,
         \A q \in S : EndOf(q, t) <= t,
         \A q, r \in S : q # r => MinutesOf(q, t) \cap MinutesOf(r, t) = {}
  PROVE  MapThenSumSet(LAMBDA q : Minutes(q, t), S)
           = Cardinality(UNION {MinutesOf(q, t) : q \in S})
<1> DEFINE Un(s) == UNION {MinutesOf(q, t) : q \in s}
           size == [s \in SUBSET S |-> Cardinality(Un(s))]
           Sums(f) == f = [s \in SUBSET S |->
             IF s = {} THEN 0
             ELSE Minutes((CHOOSE x \in s : TRUE), t) + f[s \ {CHOOSE x \in s : TRUE}]]
           iter == CHOOSE f : Sums(f)
<1>1. ASSUME NEW s \in SUBSET S PROVE IsFiniteSet(Un(s)) /\ Cardinality(Un(s)) \in Nat
  <2>1. IsFiniteSet(0..t)
    BY FS_Interval
  <2>2. Un(s) \subseteq 0..t
    <3> SUFFICES ASSUME NEW q \in s, NEW m \in MinutesOf(q, t) PROVE m \in 0..t
      OBVIOUS
    <3>1. m \in Nat /\ m < EndOf(q, t) /\ EndOf(q, t) <= t
      BY DEF MinutesOf
    <3>2. EndOf(q, t) \in Nat
      BY DEF Period, EndOf
    <3> QED BY <3>1, <3>2
  <2>3. IsFiniteSet(Un(s))
    <3> HIDE DEF Un
    <3> QED BY <2>1, <2>2, FS_Subset
  <2> HIDE DEF Un
  <2> QED BY <2>3, FS_CardinalityType
<1>2. ASSUME NEW s \in SUBSET S, NEW x \in s
      PROVE  Cardinality(Un(s)) = Minutes(x, t) + Cardinality(Un(s \ {x}))
  <2>1. Un(s) = MinutesOf(x, t) \cup Un(s \ {x})
    OBVIOUS
  <2>2. MinutesOf(x, t) \cap Un(s \ {x}) = {}
    OBVIOUS
  <2>3. /\ IsFiniteSet(MinutesOf(x, t)) /\ Cardinality(MinutesOf(x, t)) = Minutes(x, t)
    BY MinutesCounted
  <2>4. IsFiniteSet(Un(s \ {x})) /\ Cardinality(Un(s \ {x})) \in Nat
    <3>1. s \ {x} \in SUBSET S
      OBVIOUS
    <3> HIDE DEF Un
    <3> QED BY <1>1, <3>1
  <2>5. Cardinality(MinutesOf(x, t)) \in Nat
    BY <2>3, FS_CardinalityType
  <2> HIDE DEF Un
  <2>6. ASSUME NEW A, NEW B, IsFiniteSet(A), IsFiniteSet(B), A \cap B = {}
        PROVE  Cardinality(A \cup B) = Cardinality(A) + Cardinality(B)
    <3> DEFINE common == Cardinality(A \cap B)
    <3>1. Cardinality(A \cup B) = Cardinality(A) + Cardinality(B) - common
      BY <2>6, FS_Union
    <3>2. common = 0
      BY <2>6, FS_EmptySet, Zenon
    <3>3. Cardinality(A) \in Nat /\ Cardinality(B) \in Nat
      BY <2>6, FS_CardinalityType
    <3> HIDE DEF common
    <3> QED BY <3>1, <3>2, <3>3
  <2> QED BY <2>1, <2>2, <2>3, <2>4, <2>5, <2>6
<1>3. Un({}) = {} /\ Cardinality(Un({})) = 0
  BY FS_EmptySet
<1>4. Sums(size)
  <2> DEFINE next == [s \in SUBSET S |->
               IF s = {} THEN 0
               ELSE Minutes((CHOOSE x \in s : TRUE), t) + size[s \ {CHOOSE x \in s : TRUE}]]
  <2>1. ASSUME NEW s \in SUBSET S PROVE size[s] = next[s]
    <3>1. CASE s = {}
      BY <1>3, <3>1
    <3>2. CASE s # {}
      <4> DEFINE x == CHOOSE x \in s : TRUE
      <4>1. x \in s
        BY <3>2
      <4>2. size[s \ {x}] = Cardinality(Un(s \ {x})) /\ size[s] = Cardinality(Un(s))
        <5> HIDE DEF x, Un
        <5> QED OBVIOUS
      <4>3. next[s] = Minutes(x, t) + size[s \ {x}]
        <5> HIDE DEF size, Un
        <5> QED BY <3>2
      <4> HIDE DEF x, Un, size, next
      <4> QED BY <1>2, <4>1, <4>2, <4>3
    <3> QED BY <3>1, <3>2
  <2>2. size = next
    <3>1. DOMAIN size = SUBSET S /\ DOMAIN next = SUBSET S
      OBVIOUS
    <3>2. size = [s \in SUBSET S |-> size[s]] /\ next = [s \in SUBSET S |-> next[s]]
      OBVIOUS
    <3> HIDE DEF size, next
    <3> QED BY <2>1, <3>1, <3>2
  <2> HIDE DEF size
  <2> QED BY <2>2
<1>5. Sums(iter)
  <2> HIDE DEF Sums, size
  <2> QED BY <1>4
<1>6. MapThenSumSet(LAMBDA q : Minutes(q, t), S) = iter[S]
  BY DEF MapThenSumSet, MapThenFoldSet
<1>7. \A s \in SUBSET S : iter[s] = Cardinality(Un(s))
  <2> DEFINE Wrong == {n \in Nat : \E s \in SUBSET S :
                         Cardinality(s) = n /\ iter[s] # Cardinality(Un(s))}
             R == OpToRel(<, Nat)
  <2>1. \A s \in SUBSET S : IsFiniteSet(s) /\ Cardinality(s) \in Nat
    BY FS_Subset, FS_CardinalityType
  <2>2. SUFFICES ASSUME Wrong # {} PROVE FALSE
    <3> HIDE DEF iter, Un
    <3> QED BY <2>1
  <2>3. PICK n \in Wrong : \A k \in Wrong : ~(<<k, n>> \in R)
    <3> HIDE DEF Wrong, R
    <3>1. Wrong \subseteq Nat
      BY DEF Wrong
    <3> QED BY <2>2, <3>1, NatLessThanWellFounded, WFMin DEF R
  <2>4. PICK s \in SUBSET S : Cardinality(s) = n /\ iter[s] # Cardinality(Un(s))
    <3> HIDE DEF iter, Un
    <3> QED OBVIOUS
  <2> DEFINE x == CHOOSE x \in s : TRUE
  <2>5. iter[s] = IF s = {} THEN 0 ELSE Minutes(x, t) + iter[s \ {x}]
    <3> HIDE DEF iter
    <3> QED BY <1>5
  <2>6. s # {} /\ x \in s
    <3> HIDE DEF iter, Un
    <3> QED BY <1>3, <2>4, <2>5
  <2>7. /\ s \ {x} \in SUBSET S /\ Cardinality(s \ {x}) = n - 1
        /\ n - 1 \in Nat /\ n \in Nat
    <3> HIDE DEF x
    <3>1. s # {} /\ IsFiniteSet(s) /\ n \in Nat /\ Cardinality(s) = n
      BY <2>1, <2>4, <2>6
    <3>2. n # 0
      BY <3>1, FS_EmptySet
    <3>3. Cardinality(s \ {x}) = IF x \in s THEN Cardinality(s) - 1 ELSE Cardinality(s)
      BY <3>1, FS_RemoveElement
    <3> QED BY <2>6, <3>1, <3>2, <3>3
  <2>8. iter[s \ {x}] = Cardinality(Un(s \ {x}))
    <3>1. n - 1 \notin Wrong
      <4>1. n - 1 \in Wrong => ~(<<n - 1, n>> \in R)
        BY <2>3
      <4>2. <<n - 1, n>> \in R
        BY <2>7 DEF OpToRel
      <4> QED BY <4>1, <4>2
    <3> HIDE DEF iter, Un, x
    <3>2. s \ {x} \in SUBSET S /\ Cardinality(s \ {x}) = n - 1 /\ n - 1 \in Nat
      BY <2>7
    <3> QED BY <3>1, <3>2
  <2> HIDE DEF iter, Un, x
  <2> QED BY <1>2, <2>4, <2>5, <2>6, <2>8
<1> QED
  <2> HIDE DEF iter, Un
  <2> QED BY <1>6, <1>7 DEF Un

(* The periods of a ledger are over or run until now, do not overlap, and  *)
(* nothing follows an open one.                                            *)
Tiles(L, t) ==
  /\ IsFiniteSet(L)
  /\ \A q \in L : q.start <= t /\ EndOf(q, t) <= t
  /\ \A q, r \in L : q # r => EndOf(q, t) <= r.start \/ EndOf(r, t) <= q.start
  /\ \A q \in OpenPeriods(L), r \in L : r # q => EndOf(r, t) <= q.start

Locks(L, t, m) == \E q \in L : q.start <= m /\ m < EndOf(q, t)

(* A period and its end are numbers.                                       *)
LEMMA EndType ==
  ASSUME NEW q \in Period, NEW t \in Nat, None \notin Nat
  PROVE  q.start \in Nat /\ EndOf(q, t) \in Nat /\ (q.end # None => EndOf(q, t) = q.end)
BY DEF Period, EndOf

(* Pruning loses no minute of the window.                                  *)
LEMMA PruneTiles ==
  ASSUME NEW L \in SUBSET Period, NEW t \in Nat, Window \in Nat \ {0}, None \notin Nat,
         Tiles(L, t)
  PROVE  /\ Tiles(Prune(L, t), t)
         /\ \A m \in Nat : m >= t - Window => (Locks(Prune(L, t), t, m) <=> Locks(L, t, m))
<1>1. Prune(L, t) \subseteq L /\ OpenPeriods(Prune(L, t)) \subseteq OpenPeriods(L)
  BY DEF Prune, OpenPeriods
<1>2. IsFiniteSet(Prune(L, t))
  BY <1>1, FS_Subset DEF Tiles
<1>3. Tiles(Prune(L, t), t)
  BY <1>1, <1>2 DEF Tiles
<1>4. ASSUME NEW m \in Nat, m >= t - Window, NEW q \in L, m < EndOf(q, t)
      PROVE  q \in Prune(L, t)
  BY <1>4, EndType DEF Prune
<1> QED BY <1>1, <1>3, <1>4 DEF Locks

(* Recording a write changes no minute that has passed.                    *)
LEMMA RecordTiles ==
  ASSUME NEW L \in SUBSET Period, NEW t \in Nat, OneOpen(L), None \notin Nat,
         NEW isLock \in BOOLEAN, Tiles(L, t)
  PROVE  /\ Tiles(Record(L, t, isLock), t)
         /\ \A m \in Nat : Locks(Record(L, t, isLock), t, m) <=> Locks(L, t, m)
<1>1. CASE isLock = (OpenPeriods(L) # {})
  BY <1>1 DEF Record
<1>2. CASE isLock /\ OpenPeriods(L) = {}
  <2> DEFINE new == [start |-> t, end |-> None]
             M == Record(L, t, isLock)
  <2>1. M = L \cup {new}
    BY <1>2 DEF Record
  <2>2. new.start = t /\ new.end = None /\ EndOf(new, t) = t
    BY DEF EndOf
  <2>3. OpenPeriods(M) = {new}
    BY <1>2, <2>1, <2>2 DEF OpenPeriods
  <2>4. IsFiniteSet(M)
    <3> HIDE DEF new, M
    <3>1. IsFiniteSet(L)
      BY DEF Tiles
    <3> QED BY <2>1, <3>1, FS_AddElement
  <2> HIDE DEF new, M
  <2>5. \A q \in M : q # new => q \in L
    BY <2>1
  <2>6. /\ \A q \in M : q.start <= t /\ EndOf(q, t) <= t
        /\ \A q, r \in M : q # r => EndOf(q, t) <= r.start \/ EndOf(r, t) <= q.start
        /\ \A q \in OpenPeriods(M), r \in M : r # q => EndOf(r, t) <= q.start
    BY <2>2, <2>3, <2>5 DEF Tiles
  <2>7. \A m \in Nat : Locks(M, t, m) <=> Locks(L, t, m)
    BY <2>1, <2>2 DEF Locks
  <2> QED BY <2>4, <2>6, <2>7 DEF Tiles, M
<1>3. CASE ~isLock /\ OpenPeriods(L) # {}
  <2>1. PICK o \in OpenPeriods(L) : OpenPeriods(L) = {o}
    BY <1>3 DEF OneOpen
  <2> DEFINE new == [start |-> o.start, end |-> t]
             M == Record(L, t, isLock)
  <2>2. o \in L /\ o.end = None /\ o.start \in Nat /\ LastOpen(L) = o
    BY <2>1 DEF OpenPeriods, Period, LastOpen
  <2>3. M = (L \ {o}) \cup {new}
    BY <1>3, <2>2 DEF Record
  <2>4. new.start = o.start /\ EndOf(new, t) = t /\ EndOf(o, t) = t /\ new.end # None
    BY <2>2 DEF EndOf
  <2>5. OpenPeriods(M) = {}
    BY <2>1, <2>3, <2>4 DEF OpenPeriods
  <2>6. IsFiniteSet(M)
    <3> HIDE DEF new, M
    <3>1. IsFiniteSet(L)
      BY DEF Tiles
    <3>2. IsFiniteSet(L \ {o})
      BY <3>1, FS_RemoveElement
    <3> QED BY <2>3, <3>2, FS_AddElement
  <2> HIDE DEF new, M
  <2>7. \A q \in M : q # new => q \in L /\ q # o
    BY <2>3
  <2>8. /\ \A q \in M : q.start <= t /\ EndOf(q, t) <= t
        /\ \A q, r \in M : q # r => EndOf(q, t) <= r.start \/ EndOf(r, t) <= q.start
    BY <2>2, <2>4, <2>7 DEF Tiles
  <2>9. \A m \in Nat : Locks(M, t, m) <=> Locks(L, t, m)
    BY <2>2, <2>3, <2>4 DEF Locks
  <2> QED BY <2>5, <2>6, <2>8, <2>9 DEF Tiles, M
<1> QED BY <1>1, <1>2, <1>3

(* A minute passes: it is one of the ledger if a period is open.           *)
LEMMA TickTiles ==
  ASSUME NEW L \in SUBSET Period, NEW t \in Nat, OneOpen(L), None \notin Nat, Tiles(L, t)
  PROVE  /\ Tiles(L, t + 1)
         /\ \A m \in Nat :
              Locks(L, t + 1, m) <=> Locks(L, t, m) \/ (m = t /\ OpenPeriods(L) # {})
<1>1. \A q \in L : /\ q.start \in Nat /\ EndOf(q, t) \in Nat
                   /\ q \in OpenPeriods(L) => EndOf(q, t) = t /\ EndOf(q, t + 1) = t + 1
                   /\ q \notin OpenPeriods(L) => EndOf(q, t + 1) = EndOf(q, t)
  BY EndType DEF EndOf, OpenPeriods
<1>2. /\ \A q \in L : q.start <= t + 1 /\ EndOf(q, t + 1) <= t + 1
      /\ \A q \in OpenPeriods(L), r \in L : r # q => EndOf(r, t + 1) <= q.start
  BY <1>1 DEF Tiles, OneOpen
<1>3. \A q, r \in L : q # r => EndOf(q, t + 1) <= r.start \/ EndOf(r, t + 1) <= q.start
  BY <1>1, <1>2 DEF Tiles
<1>4. Tiles(L, t + 1)
  BY <1>2, <1>3 DEF Tiles
<1>5. \A m \in Nat : Locks(L, t + 1, m) <=> Locks(L, t, m) \/ (m = t /\ OpenPeriods(L) # {})
  <2> SUFFICES ASSUME NEW m \in Nat
               PROVE  Locks(L, t + 1, m) <=> Locks(L, t, m) \/ (m = t /\ OpenPeriods(L) # {})
    OBVIOUS
  <2>1. ASSUME NEW q \in L
        PROVE  (q.start <= m /\ m < EndOf(q, t + 1))
                 <=> (q.start <= m /\ m < EndOf(q, t)) \/ (m = t /\ q \in OpenPeriods(L))
    BY <1>1 DEF Tiles
  <2>2. OpenPeriods(L) \subseteq L
    BY DEF OpenPeriods
  <2> QED BY <2>1, <2>2 DEF Locks
<1> QED BY <1>4, <1>5

-----------------------------------------------------------------------------
(* The ledger is exact when a write takes no minute of the clock, and what  *)
(* an evaluation records reaches the file before the add-on ends.  A pump  *)
(* that is locked at the very first start is no lock of the engine.        *)

Timely == /\ OneWriter /\ Faults \cap {"stop", "slow"} = {}
          /\ ~({"disk", "restart"} \subseteq Faults)
          /\ \A d \in InitDevices, p \in SgReady : d[p] # Locked

(* The ledger, while the add-on is down that of the file, has the minutes   *)
(* the pump was locked in, and an open period while it is.                 *)
Kept(p) == IF up THEN ledger[p] ELSE diskLedger[p]
Exact(p) ==
  /\ Tiles(Kept(p), now)
  /\ \A m \in Nat : m >= now - Window => (m \in lockedFor[p] <=> Locks(Kept(p), now, m))
  /\ \A m \in lockedFor[p] : m < now
  /\ ~LandedOn(p) => (device[p] = Locked <=> OpenPeriods(Kept(p)) # {})
ExactInv == /\ BeliefInv /\ Down /\ \A p \in SgReady : Exact(p)
            /\ "disk" \notin Faults => SavedInv

(* No lock at first, and none recorded.                                    *)
LEMMA ExactInit == ASSUME Timely, Init PROVE ExactInv
<1>1. BeliefInv /\ SavedInv /\ Down
  BY InitType DEF Init, BeliefInv, BeliefHolds, WriteShows, Writing, SavedInv, HysteresisSaved,
     LedgerSaved, Down
<1>2. ASSUME NEW p \in SgReady PROVE Exact(p)
  <2>1. Kept(p) = {} /\ now = 0 /\ lockedFor[p] = {} /\ device[p] # Locked
    BY EngineAssumption DEF Init, Kept, Timely
  <2>2. Tiles({}, 0)
    BY FS_EmptySet DEF Tiles, OpenPeriods
  <2> QED BY <2>1, <2>2 DEF Exact, Locks, OpenPeriods
<1> QED BY <1>1, <1>2 DEF ExactInv

(* The list of a point is well formed, in the engine and in the file.      *)
LEMMA KeptType ==
  ASSUME TypeInv, NEW p \in Points
  PROVE  /\ now \in Nat /\ Kept(p) \in SUBSET Period /\ OneOpen(Kept(p))
         /\ ledger[p] \in SUBSET Period /\ OneOpen(ledger[p])
BY DEF TypeInv, TypeOK, LedgersOK, Kept

(* Every step keeps the ledger exact.                                      *)
LEMMA ExactNext == ASSUME Timely, ExactInv, [Next]_vars PROVE ExactInv'
<1> USE EngineAssumption
<1>0. /\ OneWriter /\ BeliefInv /\ TypeInv /\ Down /\ WriteShows
      /\ "disk" \notin Faults => SavedInv /\ LedgerSaved
  BY DEF Timely, ExactInv, BeliefInv, SavedInv
<1>1. BeliefInv' /\ Down' /\ ("disk" \notin Faults => SavedInv')
  BY <1>0, BeliefNext, SavedNext, DownNext
<1> SUFFICES ASSUME NEW p \in SgReady PROVE Exact(p)'
  BY <1>1 DEF ExactInv
<1>2. p \in Points /\ Exact(p)
  BY DEF ExactInv
<1> HIDE DEF ExactInv
<1>3. ASSUME Kept(p)' = Kept(p), UNCHANGED <<now, lockedFor, device>>, LandedOn(p) => LandedOn(p)'
      PROVE  Exact(p)'
  BY <1>2, <1>3 DEF Exact
<1>4. ASSUME UNCHANGED <<up, ledger, diskLedger>> PROVE Kept(p)' = Kept(p)
  BY <1>4 DEF Kept
<1>5. ASSUME NEW e \in Evaluators, ~(Writing(e) /\ pend[e].landed) PROVE ~LandedOn(p)
  BY <1>0, <1>5 DEF LandedOn, OneWriter, Writing
<1>6. ASSUME NEW e \in Evaluators, Begin(e) \/ Disabled(e) \/ NoMatch(e) \/ PersistHysteresis(e)
      PROVE  Exact(p)'
  <2>1. UNCHANGED <<up, ledger, diskLedger, now, lockedFor, device>> /\ ~Writing(e)
    BY <1>6 DEF Begin, Disabled, NoMatch, PersistHysteresis, Writing, Idle, world, ram, disk, hist
  <2> QED BY <1>3, <1>4, <1>5, <2>1
<1>7. ASSUME NEW e \in Evaluators, PersistLedger(e) PROVE Exact(p)'
  <2>1. UNCHANGED <<up, ledger, now, lockedFor, device>> /\ ~Writing(e) /\ up
    BY <1>0, <1>7 DEF PersistLedger, Writing, Down, Idle, world, ram, hist
  <2>2. Kept(p)' = Kept(p)
    BY <2>1 DEF Kept
  <2> QED BY <1>3, <1>5, <2>1, <2>2
<1>8. ASSUME NEW e \in Evaluators, NEW want \in Values, Decide(e, want) PROVE Exact(p)'
  <2>1. /\ UNCHANGED <<up, now, lockedFor, device>> /\ ~Writing(e) /\ up
        /\ \/ ledger' = ledger
           \/ ledger' = [ledger EXCEPT ![PointOf(e)] = Prune(@, now)]
    BY <1>0, <1>8 DEF Decide, Writing, Down, Idle, world, hist
  <2>2. Kept(p) = ledger[p] /\ Kept(p)' = ledger'[p]
    BY <2>1 DEF Kept
  <2>3. ledger'[p] = ledger[p] \/ ledger'[p] = Prune(ledger[p], now)
    BY <1>0, <1>2, <2>1 DEF TypeInv, TypeOK
  <2>4. CASE ledger'[p] = ledger[p]
    BY <1>3, <1>5, <2>1, <2>2, <2>4
  <2>5. CASE ledger'[p] = Prune(ledger[p], now)
    <3>1. Tiles(ledger[p], now) /\ ledger[p] \in SUBSET Period /\ OneOpen(ledger[p]) /\ now \in Nat
      BY <1>0, <1>2, <2>2, KeptType DEF Exact
    <3>2. /\ Tiles(ledger'[p], now) /\ OpenPeriods(ledger'[p]) = OpenPeriods(ledger[p])
          /\ \A m \in Nat : m >= now - Window =>
               (Locks(ledger'[p], now, m) <=> Locks(ledger[p], now, m))
      BY <2>5, <3>1, PruneTiles, PruneKeeps
    <3>3. ~LandedOn(p)
      BY <1>5, <2>1
    <3> QED BY <1>2, <2>1, <2>2, <3>2, <3>3 DEF Exact
  <2> QED BY <2>3, <2>4, <2>5
<1>9. ASSUME NEW e \in Evaluators, Ramped(e) PROVE Exact(p)'
  <2>1. UNCHANGED <<up, ledger, diskLedger, now, lockedFor, device>> /\ ~pend[e].landed
    BY <1>0, <1>9 DEF Ramped, WriteShows, Writing, world, ram, disk, hist
  <2> QED BY <1>3, <1>4, <1>5, <2>1
<1>10. ASSUME NEW e \in Evaluators, Land(e) PROVE Exact(p)'
  <2>1. UNCHANGED <<up, ledger, diskLedger, now, lockedFor>>
    BY <1>10 DEF Land, ram, disk
  <2>2. /\ pc[e] = "write" /\ UNCHANGED <<pc, at>> /\ pend'[e].landed
        /\ p # PointOf(e) => device'[p] = device[p]
    BY <1>0, <1>2, <1>10, LandStep DEF TypeInv, TypeOK
  <2>4. ASSUME p = PointOf(e) PROVE LandedOn(p)'
    <3>1. (pc[e] = "write")' /\ (pend[e].landed)' /\ (PointOf(e))' = PointOf(e)
      BY <2>2 DEF PointOf, RuleOf
    <3> QED BY <2>4, <3>1 DEF LandedOn
  <2>5. p # PointOf(e) => ~LandedOn(p)
    BY <1>0 DEF LandedOn, OneWriter
  <2>3. Kept(p)' = Kept(p)
    BY <1>4, <2>1
  <2> QED BY <1>2, <2>1, <2>2, <2>3, <2>4, <2>5 DEF Exact
<1>11. ASSUME NEW e \in Evaluators, Retry(e) PROVE Exact(p)'
  <2>1. UNCHANGED <<up, ledger, diskLedger, now, lockedFor, device, pc, at>>
        /\ pend'[e].landed = pend[e].landed
    BY <1>0, <1>11, RetryStep DEF world, ram, disk, hist
  <2>2. LandedOn(p) => LandedOn(p)'
    BY <1>0, <2>1 DEF LandedOn, PointOf, RuleOf, OneWriter
  <2> QED BY <1>3, <1>4, <2>1, <2>2
<1>12. ASSUME NEW e \in Evaluators, GiveUp(e) PROVE Exact(p)'
  <2>1. UNCHANGED <<up, ledger, diskLedger, now, lockedFor, device>> /\ ~pend[e].landed
    BY <1>0, <1>12 DEF GiveUp, OneWriter, world, ram, disk, hist
  <2> QED BY <1>3, <1>4, <1>5, <2>1
<1>13. ASSUME NEW e \in Evaluators, Acknowledge(e) PROVE Exact(p)'
  <2> DEFINE b == IsLock(PointOf(e), pend[e].value)
  <2>1. /\ UNCHANGED <<up, now, lockedFor, device>> /\ up /\ pc[e] = "write"
        /\ ledger' = [ledger EXCEPT ![PointOf(e)] = Record(@, now, b)] /\ b \in BOOLEAN
        /\ device[PointOf(e)] = pend[e].value
    BY <1>0, <1>13 DEF Acknowledge, WriteShows, Writing, Down, Idle, IsLock, world, hist
  <2>2. Kept(p) = ledger[p] /\ Kept(p)' = ledger'[p]
    BY <2>1 DEF Kept
  <2>3. CASE p # PointOf(e)
    <3>1. ~LandedOn(p) /\ ledger'[p] = ledger[p]
      BY <1>0, <1>2, <2>1, <2>3 DEF LandedOn, OneWriter, TypeInv, TypeOK
    <3> QED BY <1>3, <2>1, <2>2, <3>1
  <2>4. CASE p = PointOf(e)
    <3>1. Tiles(ledger[p], now) /\ ledger[p] \in SUBSET Period /\ OneOpen(ledger[p]) /\ now \in Nat
      BY <1>0, <1>2, <2>2, KeptType DEF Exact
    <3>2. ledger'[p] = Record(ledger[p], now, b)
      BY <1>0, <1>2, <2>1, <2>4 DEF TypeInv, TypeOK
    <3>5. b \in BOOLEAN /\ None \notin Nat
      BY <2>1
    <3> HIDE DEF b
    <3>6. /\ Tiles(Record(ledger[p], now, b), now)
          /\ \A m \in Nat : Locks(Record(ledger[p], now, b), now, m) <=> Locks(ledger[p], now, m)
      BY <3>1, <3>5, RecordTiles
    <3>7. (OpenPeriods(Record(ledger[p], now, b)) # {}) = b
      BY <3>1, <3>5, RecordKeeps
    <3>3. /\ Tiles(ledger'[p], now)
          /\ \A m \in Nat : Locks(ledger'[p], now, m) <=> Locks(ledger[p], now, m)
          /\ (OpenPeriods(ledger'[p]) # {}) = b
      BY <3>2, <3>6, <3>7
    <3>4. b <=> device[p] = Locked
      BY <2>1, <2>4 DEF b, IsLock
    <3> QED BY <1>2, <2>1, <2>2, <3>3, <3>4 DEF Exact
  <2> QED BY <2>3, <2>4
<1>14. CASE Tick
  <2>1. /\ UNCHANGED <<up, ledger, diskLedger, device, pc, pend, at>> /\ now' = now + 1
        /\ lockedFor'[p] = lockedFor[p] \cup IF device[p] = Locked THEN {now} ELSE {}
        /\ \A e \in Evaluators : Idle(e)
    BY <1>2, <1>14 DEF Tick, Timely, ram, disk, coros
  <2>2. ~LandedOn(p)
    BY <2>1 DEF LandedOn, Idle
  <2>3. Kept(p)' = Kept(p) /\ Kept(p) \in SUBSET Period /\ OneOpen(Kept(p)) /\ now \in Nat
    BY <1>0, <1>2, <1>4, <2>1, KeptType
  <2>4. /\ Tiles(Kept(p), now + 1)
        /\ \A m \in Nat : Locks(Kept(p), now + 1, m)
                             <=> Locks(Kept(p), now, m) \/ (m = now /\ OpenPeriods(Kept(p)) # {})
    BY <1>2, <2>3, TickTiles DEF Exact
  <2>5. ASSUME NEW m \in Nat, m >= now + 1 - Window
        PROVE  m \in lockedFor'[p] <=> Locks(Kept(p), now + 1, m)
    <3>1. m \in lockedFor[p] <=> Locks(Kept(p), now, m)
      BY <1>2, <2>3, <2>5 DEF Exact
    <3>2. device[p] = Locked <=> OpenPeriods(Kept(p)) # {}
      BY <1>2, <2>2 DEF Exact
    <3> QED BY <2>1, <2>4, <3>1, <3>2
  <2>6. \A m \in lockedFor'[p] : m < now + 1
    BY <1>0, <1>2, <2>1, <2>3 DEF Exact, TypeInv, TypeOK
  <2> QED BY <1>2, <2>1, <2>2, <2>3, <2>4, <2>5, <2>6 DEF Exact
<1>15. CASE Stop
  <2>1. /\ up /\ ~up' /\ UNCHANGED <<diskLedger, now, lockedFor, device>> /\ AllIdle
        /\ "disk" \notin Faults
    BY <1>15 DEF Stop, Timely, AllIdle, disk, hist
  <2>2. Kept(p)' = Kept(p)
    BY <1>0, <2>1 DEF Kept, LedgerSaved
  <2>3. ~LandedOn(p)
    BY <2>1 DEF LandedOn, AllIdle, Idle
  <2> QED BY <1>3, <2>1, <2>2, <2>3
<1>16. CASE Start
  <2>1. /\ ~up /\ up' /\ ledger' = diskLedger /\ UNCHANGED <<now, lockedFor, device, pc, at, pend>>
    BY <1>16 DEF Start, hist
  <2>2. Kept(p)' = Kept(p) /\ LandedOn(p)' = LandedOn(p)
    BY <2>1 DEF Kept, LandedOn, PointOf, RuleOf
  <2> QED BY <1>3, <2>1, <2>2
<1>17. CASE Horizon \/ UNCHANGED vars \/ \E k \in Cars : VehicleChanges(k)
  <2>1. UNCHANGED <<up, ledger, diskLedger, now, lockedFor, device, pc, at, pend>>
    BY <1>17 DEF Horizon, VehicleChanges, vars, world, ram, disk, coros, hist
  <2>2. LandedOn(p)' = LandedOn(p)
    BY <2>1 DEF LandedOn, PointOf, RuleOf
  <2> QED BY <1>3, <1>4, <2>1, <2>2
<1>18. ASSUME NEW q \in Points, NEW v \in Values, MqttCommand(q, v) PROVE FALSE
  BY <1>0, <1>18 DEF MqttCommand, OneWriter
<1> QED
  BY <1>6, <1>7, <1>8, <1>9, <1>10, <1>11, <1>12, <1>13, <1>14, <1>15, <1>16, <1>17, <1>18
  DEF Next, Evaluate

(* What the cap is compared with, whatever the evaluator is at, is the      *)
(* number of minutes the pump was locked in the window.                    *)
LEMMA UsedIsLocked ==
  ASSUME ExactInv, NEW p \in SgReady, up PROVE Used(ledger[p], now) = LockedMinutes(p)
<1> DEFINE L == ledger[p]
           S == Prune(L, now)
           minutes == {m \in lockedFor[p] : m >= now - Window}
<1>1. /\ p \in Points /\ TypeInv /\ Exact(p) /\ Kept(p) = L
  BY EngineAssumption DEF ExactInv, BeliefInv, Kept
<1>2. /\ now \in Nat /\ L \in SUBSET Period /\ Window \in Nat \ {0} /\ None \notin Nat
      /\ lockedFor[p] \subseteq Nat
  BY <1>1, KeptType, EngineAssumption DEF TypeInv, TypeOK
<1>3. Tiles(L, now) /\ \A m \in Nat : m >= now - Window =>
                          (m \in lockedFor[p] <=> Locks(L, now, m))
  BY <1>1 DEF Exact
<1>4. /\ Tiles(S, now) /\ S \in SUBSET Period
      /\ \A m \in Nat : m >= now - Window => (Locks(S, now, m) <=> Locks(L, now, m))
  <2> HIDE DEF L
  <2> QED BY <1>2, <1>3, PruneTiles DEF Prune
<1> HIDE DEF L, S
<1>5. minutes = UNION {MinutesOf(q, now) : q \in S}
  <2>1. ASSUME NEW m PROVE m \in minutes <=> \E q \in S : m \in MinutesOf(q, now)
    BY <1>2, <1>3, <1>4 DEF Locks, MinutesOf
  <2> HIDE DEF minutes
  <2> QED BY <2>1
<1>6. /\ IsFiniteSet(S) /\ \A q \in S : EndOf(q, now) <= now
      /\ \A q, r \in S : q # r => MinutesOf(q, now) \cap MinutesOf(r, now) = {}
  <2>1. IsFiniteSet(S) /\ \A q \in S : EndOf(q, now) <= now
    BY <1>4 DEF Tiles
  <2>2. ASSUME NEW q \in S, NEW r \in S, q # r, NEW m \in Nat,
               m \in MinutesOf(q, now), m \in MinutesOf(r, now)
        PROVE  FALSE
    <3>1. EndOf(q, now) <= r.start \/ EndOf(r, now) <= q.start
      BY <1>4, <2>2 DEF Tiles
    <3>2. q.start <= m /\ m < EndOf(q, now) /\ r.start <= m /\ m < EndOf(r, now)
      BY <2>2 DEF MinutesOf
    <3>3. /\ q.start \in Nat /\ r.start \in Nat
          /\ EndOf(q, now) \in Nat /\ EndOf(r, now) \in Nat
      BY <1>2, <1>4, EndType
    <3> QED BY <3>1, <3>2, <3>3
  <2>3. \A q \in S : MinutesOf(q, now) \subseteq Nat
    BY DEF MinutesOf
  <2> QED BY <2>1, <2>2, <2>3
<1>7. Used(L, now) = Cardinality(UNION {MinutesOf(q, now) : q \in S})
  <2>1. Used(L, now) = MapThenSumSet(LAMBDA q : Minutes(q, now), S)
    BY DEF Used, S
  <2> QED BY <1>2, <1>4, <1>6, <2>1, SumOfDisjoint
<1> QED BY <1>5, <1>7 DEF LockedMinutes, L

(* With one evaluator, writes that take no time and restarts between two    *)
(* evaluations: what the cap is compared with is the number of minutes the *)
(* pump was really locked in the window, to the minute, for every window,  *)
(* cap, rule, failing write, late loop and restart.                        *)
THEOREM LedgerIsExactCorrect == ASSUME Timely PROVE Spec => []LedgerIsExact
<1>1. Init => ExactInv
  BY ExactInit
<1>2. ExactInv /\ [Next]_vars => ExactInv'
  BY ExactNext
<1>3. ExactInv => LedgerIsExact
  BY UsedIsLocked DEF LedgerIsExact
<1> QED BY <1>1, <1>2, <1>3, PTL DEF Spec
-----------------------------------------------------------------------------
(* The bound of the lock time.                                             *)

(* The rule of a pump decides at every evaluation, alone, and its value is *)
(* never one the vehicle check may refuse; the engine is not switched off, *)
(* every write is answered, and the add-on runs on.                        *)
Steady ==
  /\ Timely /\ Faults \subseteq {"disk"} /\ ~KillSwitch /\ Cap > 0
  /\ Evaluators = {BackgroundLoop}
  /\ \A i, j \in RuleIds : Rules[i].point \in SgReady /\ Rules[j].point = Rules[i].point => i = j
  /\ \A i \in RuleIds, t \in 0..MaxTime : Rules[i].point \in SgReady =>
       Rules[i].targets[t] \cap ({None} \cup Negative) = {}

(* The minute of the last decision on rule i: of the evaluation under way  *)
(* once it is past the rule, else of the one before.                       *)
Decided(i) ==
  \/ pc[BackgroundLoop] \in {"persist", "persistLedger"}
  \/ pc[BackgroundLoop] \in {"rule", "ramp", "write"} /\ at[BackgroundLoop] > i
DecidedAt(i) == IF Decided(i) THEN now ELSE due - EvalInterval

(* A pump the last decision left locked was below the cap then, or was     *)
(* locked below the cap less than min_interval before.                     *)
LeftLocked(i) ==
  LET p == Rules[i].point
      x == DecidedAt(i)
  IN  \/ LockedMinutes(p) < Cap + (now - x)
      \/ /\ lastChange[p] # None /\ x < lastChange[p] + Interval(Rules[i])
         /\ LockedMinutes(p) < Cap + (now - lastChange[p])
Bounded(i) ==
  LET p == Rules[i].point IN
  /\ lastChange[p] # None => lastChange[p] <= DecidedAt(i)
  /\ device[p] = Locked => LeftLocked(i)
  /\ Writing(BackgroundLoop) /\ at[BackgroundLoop] = i /\ pend[BackgroundLoop].value = Locked
       => LockedMinutes(p) < Cap
  /\ LockedMinutes(p) < Cap + Interval(Rules[i]) + EvalInterval - 1
Clock == /\ up /\ now <= due /\ due <= now + EvalInterval
         /\ ~Idle(BackgroundLoop) => due = now
BoundInv == Clock /\ \A i \in RuleIds : Rules[i].point \in SgReady => Bounded(i)

(* The interval of a rule is at least a minute.                            *)
LEMMA IntervalPositive ==
  ASSUME NEW i \in RuleIds PROVE Interval(Rules[i]) \in Nat \ {0} /\ Rules[i].point \in Points
<1>1. Rules[i] \in Rule
  BY EngineAssumption DEF RuleIds
<1>2. \A r \in Rule : r.min_interval \in Nat /\ r.point \in Points
  BY DEF Rule
<1> QED BY <1>1, <1>2, EngineAssumption DEF Interval

(* The locked minutes of the window are finitely many.                     *)
LEMMA MinutesType ==
  ASSUME TypeInv, NEW p \in Points, Exact(p)
  PROVE  IsFiniteSet(lockedFor[p]) /\ LockedMinutes(p) \in Nat
<1>1. now \in Nat /\ lockedFor[p] \subseteq Nat /\ \A m \in lockedFor[p] : m < now
  BY DEF TypeInv, TypeOK, Exact
<1>2. lockedFor[p] \subseteq 0..now
  BY <1>1
<1>3. IsFiniteSet(lockedFor[p])
  <2>1. now \in Int /\ 0 \in Int
    BY <1>1
  <2>2. IsFiniteSet(0..now)
    BY <2>1, FS_Interval
  <2> QED BY <1>2, <2>2, FS_Subset
<1>4. IsFiniteSet({m \in lockedFor[p] : m >= now - Window})
  BY <1>3, FS_Subset
<1> QED BY <1>3, <1>4, FS_CardinalityType DEF LockedMinutes

(* A minute adds one to them at most, none to those of a pump not locked.  *)
LEMMA MinutesTick ==
  ASSUME TypeInv, NEW p \in Points, Exact(p), Tick
  PROVE  /\ LockedMinutes(p)' \in Nat /\ LockedMinutes(p)' <= LockedMinutes(p) + 1
         /\ device[p] # Locked => LockedMinutes(p)' <= LockedMinutes(p)
<1> DEFINE S == {m \in lockedFor[p] : m >= now - Window}
           T == {m \in lockedFor'[p] : m >= now' - Window}
<1>1. /\ now' = now + 1 /\ now \in Nat /\ lockedFor[p] \subseteq Nat
      /\ lockedFor'[p] = lockedFor[p] \cup IF device[p] = Locked THEN {now} ELSE {}
  BY DEF Tick, TypeInv, TypeOK
<1>2. T \subseteq S \cup {now} /\ (device[p] # Locked => T \subseteq S)
  BY <1>1, EngineAssumption
<1>3. IsFiniteSet(S) /\ Cardinality(S) = LockedMinutes(p) /\ Cardinality(T) = LockedMinutes(p)'
  BY MinutesType, FS_Subset DEF LockedMinutes
<1> HIDE DEF S, T
<1>4. /\ IsFiniteSet(S \cup {now}) /\ Cardinality(S \cup {now}) <= Cardinality(S) + 1
      /\ Cardinality(S) \in Nat
  BY <1>3, FS_AddElement, FS_CardinalityType
<1>5. IsFiniteSet(T) /\ Cardinality(T) \in Nat /\ Cardinality(T) <= Cardinality(S \cup {now})
  BY <1>2, <1>4, FS_Subset, FS_CardinalityType
<1>6. device[p] # Locked => Cardinality(T) <= Cardinality(S)
  BY <1>2, <1>3, FS_Subset
<1>7. Cardinality(S \cup {now}) \in Nat
  BY <1>4, FS_CardinalityType
<1> QED BY <1>3, <1>4, <1>5, <1>6, <1>7

(* Nothing is locked at first, and the first evaluation is near.           *)
LEMMA BoundInit == ASSUME Steady, Init PROVE BoundInv
<1>1. Clock
  BY EngineAssumption DEF Init, Clock, InitialDelays, Idle
<1>2. ASSUME NEW i \in RuleIds, Rules[i].point \in SgReady PROVE Bounded(i)
  <2> DEFINE p == Rules[i].point
  <2>1. /\ lastChange[p] = None /\ device[p] # Locked /\ lockedFor[p] = {}
        /\ ~Writing(BackgroundLoop)
    BY <1>2, IntervalPositive, EngineAssumption DEF Init, Steady, Timely, Writing
  <2>2. LockedMinutes(p) = 0
    <3>1. {m \in lockedFor[p] : m >= now - Window} = {}
      BY <2>1
    <3> QED BY <3>1, FS_EmptySet DEF LockedMinutes
  <2>3. Interval(Rules[i]) \in Nat \ {0} /\ EvalInterval \in Nat \ {0} /\ Cap \in Nat \ {0}
    BY IntervalPositive, EngineAssumption DEF Steady
  <2> HIDE DEF p
  <2>4. LockedMinutes(p) < Cap + Interval(Rules[i]) + EvalInterval - 1
    BY <2>2, <2>3
  <2> QED BY <2>1, <2>4 DEF Bounded, p
<1> QED BY <1>1, <1>2 DEF BoundInv

(* The clock waits for the loop, and the loop for its interval.            *)
LEMMA ClockNext == ASSUME Steady, TypeInv, Clock, [Next]_vars PROVE Clock'
<1> USE EngineAssumption
<1>1. /\ up /\ now <= due /\ due <= now + EvalInterval /\ now \in Nat /\ due \in Nat
      /\ ~Idle(BackgroundLoop) => due = now
      /\ \A e \in Evaluators : e = BackgroundLoop
      /\ Faults \cap {"stop", "restart", "late", "slow"} = {}
  BY DEF Clock, TypeInv, TypeOK, Steady
<1>2. ASSUME NEW e \in Evaluators, Begin(e) PROVE Clock'
  BY <1>1, <1>2 DEF Begin, Clock, world, Idle
<1>3. ASSUME NEW e \in Evaluators, Disabled(e) PROVE Clock'
  BY <1>3 DEF Disabled, Steady
<1>4. ASSUME UNCHANGED <<now, up, due>>, ~Idle(BackgroundLoop) \/ UNCHANGED pc PROVE Clock'
  BY <1>1, <1>4 DEF Clock, Idle
<1>5. ASSUME NEW e \in Evaluators, NoMatch(e) \/ GiveUp(e) \/ Acknowledge(e) PROVE Clock'
  BY <1>1, <1>4, <1>5 DEF NoMatch, GiveUp, Acknowledge, NextRule, Idle, world
<1>6. ASSUME NEW e \in Evaluators, NEW want \in Values, Decide(e, want) PROVE Clock'
  BY <1>1, <1>4, <1>6 DEF Decide, NextRule, Idle, world
<1>7. ASSUME NEW e \in Evaluators, Ramped(e) \/ Land(e) \/ Retry(e) \/ PersistHysteresis(e)
      PROVE  Clock'
  BY <1>1, <1>4, <1>7 DEF Ramped, Land, Retry, PersistHysteresis, Idle, world
<1>8. ASSUME NEW e \in Evaluators, PersistLedger(e) PROVE Clock'
  BY <1>1, <1>8 DEF PersistLedger, Return, Clock, Idle, world, TypeInv, TypeOK
<1>9. ASSUME NEW p \in Points, NEW v \in Values, MqttCommand(p, v) PROVE Clock'
  BY <1>4, <1>9 DEF MqttCommand, coros
<1>10. CASE \/ Horizon \/ UNCHANGED vars \/ \E k \in Cars : VehicleChanges(k)
  BY <1>4, <1>10 DEF Horizon, VehicleChanges, vars, coros, world
<1>11. CASE Stop
  BY <1>1, <1>11 DEF Stop
<1>12. CASE Start
  BY <1>1, <1>12 DEF Start
<1>13. CASE Tick
  BY <1>1, <1>13 DEF Tick, Clock, Idle, coros
<1> QED
  BY <1>2, <1>3, <1>5, <1>6, <1>7, <1>8, <1>9, <1>10, <1>11, <1>12, <1>13 DEF Next, Evaluate

(* Every step keeps the bound: a lock is written below the cap only, and a *)
(* decision that leaves one in place past the cap is within min_interval.  *)
LEMMA BoundNext ==
  ASSUME Steady, ExactInv, BoundInv, [Next]_vars PROVE BoundInv'
<1> USE EngineAssumption
<1> DEFINE b == BackgroundLoop
<1>0. /\ Timely /\ OneWriter /\ TypeInv /\ BeliefHolds /\ WriteShows /\ Clock /\ up
      /\ Faults \subseteq {"disk"} /\ ~KillSwitch /\ \A e \in Evaluators : e = b
      /\ \A q \in SgReady : Exact(q)
  BY DEF Steady, Timely, ExactInv, BeliefInv, BoundInv, Clock
<1>1. Clock' /\ TypeInv'
  BY <1>0, ClockNext, NextType
<1> SUFFICES ASSUME NEW i \in RuleIds, Rules[i].point \in SgReady PROVE Bounded(i)'
  BY <1>1 DEF BoundInv
<1> DEFINE p == Rules[i].point
           L == LockedMinutes(p)
           I == Interval(Rules[i])
           x == DecidedAt(i)
           s == lastChange[p]
           asked == Writing(b) /\ at[b] = i /\ pend[b].value = Locked
<1>2. /\ p \in SgReady /\ p \in Points /\ I \in Nat \ {0} /\ L \in Nat /\ now \in Nat /\ due \in Nat
      /\ s \in Nat \cup {None} /\ Cap \in Nat \ {0} /\ EvalInterval \in Nat \ {0} /\ None \notin Nat
  <2>1. p \in SgReady /\ p \in Points /\ I \in Nat \ {0}
    BY IntervalPositive
  <2>2. L \in Nat
    BY <1>0, <2>1, MinutesType
  <2>3. now \in Nat /\ due \in Nat /\ s \in Nat \cup {None}
    BY <1>0, <2>1 DEF TypeInv, TypeOK
  <2>4. Cap \in Nat \ {0} /\ EvalInterval \in Nat \ {0} /\ None \notin Nat
    BY <1>0 DEF Steady
  <2> QED BY <2>1, <2>2, <2>3, <2>4
<1>3. /\ s # None => s <= x
      /\ device[p] = Locked => LeftLocked(i)
      /\ asked => L < Cap
      /\ L < Cap + I + EvalInterval - 1
  BY DEF BoundInv, Bounded
<1>4. /\ now <= due /\ due <= now + EvalInterval /\ (~Idle(b) => due = now)
      /\ x \in Int /\ x <= now /\ now - x <= EvalInterval
  BY <1>0, <1>2 DEF Clock, DecidedAt, Decided, Idle
<1>5. /\ \A j \in RuleIds : Rules[j].point = p => j = i
      /\ \A t \in 0..MaxTime : Rules[i].targets[t] \cap ({None} \cup Negative) = {}
  BY DEF Steady
<1>6. ASSUME UNCHANGED <<now, lockedFor>> PROVE L' = L
  BY <1>6 DEF LockedMinutes
<1> HIDE DEF BoundInv
\* Nothing the bound is about changes.
<1>7. ASSUME UNCHANGED <<now, lockedFor>>, device'[p] = device[p], lastChange'[p] = s, x' = x,
             asked' => asked
      PROVE  Bounded(i)'
  BY <1>3, <1>6, <1>7 DEF Bounded, LeftLocked
\* The rule is left: the decision is of this minute.
<1>8. ASSUME UNCHANGED <<now, lockedFor>>, x' = now, ~asked',
             lastChange'[p] = s \/ lastChange'[p] = now,
             device'[p] = Locked =>
               L < Cap \/ (s # None /\ lastChange'[p] = s /\ now < s + I /\ L < Cap + (now - s))
      PROVE  Bounded(i)'
  <2>1. L' = L /\ x' = now' /\ now' = now
    BY <1>6, <1>8
  <2>2. s # None => s <= now
    BY <1>2, <1>3, <1>4, SMTT(30)
  <2>3. device'[p] = Locked => LeftLocked(i)'
    BY <1>2, <1>8, <2>1 DEF LeftLocked
  <2>4. lastChange'[p] # None => lastChange'[p] <= x'
    BY <1>2, <1>8, <2>2
  <2> QED BY <1>3, <1>8, <2>1, <2>3, <2>4 DEF Bounded
<1>9. ASSUME NextRule(b), pc[b] \in {"rule", "write"}, UNCHANGED now
      PROVE  ~asked' /\ (at[b] # i => x' = x) /\ (at[b] = i => x' = now)
  <2>1. /\ ~Writing(b)' /\ UNCHANGED due /\ at[b] \in RuleIds
        /\ \/ at[b] < Len(Rules) /\ at'[b] = at[b] + 1 /\ pc'[b] = "rule"
           \/ at[b] = Len(Rules) /\ pc'[b] = "persist"
    BY <1>0, <1>9 DEF NextRule, Writing, TypeInv, TypeOK, AtRule, RuleIds
  <2>2. /\ Decided(i) <=> at[b] > i
        /\ Decided(i)' <=> pc'[b] = "persist" \/ at'[b] > i
    BY <1>9, <2>1 DEF Decided
  <2>3. Decided(i)' <=> at[b] >= i
    BY <2>1, <2>2 DEF RuleIds
  <2> QED BY <1>9, <2>1, <2>2, <2>3 DEF DecidedAt, RuleIds
<1>10. ASSUME NEW e \in Evaluators, Begin(e) PROVE Bounded(i)'
  <2>1. /\ UNCHANGED <<now, lockedFor, device, lastChange, due, at>> /\ pc[b] = "idle" /\ pc'[b] = "rule"
        /\ at[b] = 1
    BY <1>0, <1>10 DEF Begin, Idle, TypeInv, TypeOK, AtRule, RuleIds, world, ram, hist
  <2>2. ~Decided(i) /\ ~Decided(i)' /\ ~asked'
    BY <2>1 DEF Decided, Writing, RuleIds
  <2> QED BY <1>7, <2>1, <2>2 DEF DecidedAt
<1>11. ASSUME NEW e \in Evaluators, Disabled(e) PROVE FALSE
  BY <1>0, <1>11 DEF Disabled
<1>12. ASSUME NEW e \in Evaluators, NoMatch(e) PROVE Bounded(i)'
  <2>1. /\ UNCHANGED <<now, lockedFor, device, lastChange>> /\ NextRule(b) /\ pc[b] = "rule"
        /\ None \in Rules[at[b]].targets[context[b].minute]
    BY <1>0, <1>12 DEF NoMatch, RuleOf, world, ram, hist
  <2>2. at[b] # i
    BY <1>0, <1>5, <2>1 DEF TypeInv, TypeOK, Context
  <2> QED BY <1>7, <1>9, <2>1, <2>2
<1>13. ASSUME NEW e \in Evaluators, NEW want \in Values, Decide(e, want) PROVE Bounded(i)'
  <2>1. /\ UNCHANGED <<now, lockedFor, device, lastChange>> /\ pc[b] = "rule" /\ at[b] \in RuleIds
        /\ Decide(b, want) /\ ~asked
    BY <1>0, <1>13 DEF Decide, TypeInv, AtRule, Writing, world, hist
  <2>2. CASE at[b] # i
    <3>1. CASE NextRule(b)
      BY <1>7, <1>9, <2>1, <2>2, <3>1
    <3>2. CASE ~NextRule(b)
      <4>1. UNCHANGED <<at, due>> /\ pc'[b] \in {"ramp", "write"}
        BY <1>0, <2>1, <3>2 DEF Decide, TypeInv, TypeOK
      <4>2. ~asked' /\ x' = x
        BY <2>1, <2>2, <4>1 DEF DecidedAt, Decided
      <4> QED BY <1>7, <2>1, <4>2
    <3> QED BY <3>1, <3>2
  <2>3. CASE at[b] = i
    <3> DEFINE v == AfterCap(p, want)
    <3>1. /\ RuleOf(b) = Rules[i] /\ PointOf(b) = p /\ want \in Rules[i].targets[context[b].minute]
      BY <2>1, <2>3 DEF Decide, RuleOf, PointOf
    <3>2. want \notin Negative /\ v \in Values \ Negative /\ AfterClamp(p, v) = v
      <4>1. context[b].minute \in 0..MaxTime
        BY <1>0 DEF TypeInv, TypeOK, Context
      <4> QED BY <1>5, <3>1, <4>1 DEF AfterCap, AfterClamp
    <3>3. v = Locked => L < Cap
      <4>1. Used(ledger[p], now) = L
        BY <1>0, <1>2, UsedIsLocked
      <4> QED BY <1>2, <4>1 DEF AfterCap, IsLock, CapReached
    <3>4. ~Decided(i) /\ x = now - EvalInterval
      BY <1>2, <1>4, <2>1, <2>3 DEF Decided, DecidedAt, Idle, RuleIds
    <3> HIDE DEF v
    <3>5. CASE NextRule(b)
      <4>1. ~asked' /\ x' = now
        BY <1>9, <2>1, <2>3, <3>5
      <4>2. lastValues[p] = v \/ ~HysteresisOpen(Rules[i]) \/ ~NextRule(b)
        BY <2>1, <3>1, <3>2, <3>5 DEF Decide, NextRule, v
      <4>3. CASE lastValues[p] = v
        <5>1. ~LandedOn(p)
          BY <1>0, <2>1 DEF LandedOn
        <5>2. device[p] = v
          BY <1>0, <1>2, <3>2, <4>3, <5>1 DEF BeliefHolds
        <5> QED BY <1>8, <2>1, <3>3, <4>1, <5>2
      <4>4. CASE ~HysteresisOpen(Rules[i])
        <5>1. s # None /\ now - s < I
          BY <1>2, <4>4 DEF HysteresisOpen
        <5>2. device[p] = Locked => L < Cap + (now - s)
          <6>1. device[p] = Locked => L < Cap + (now - x) \/ L < Cap + (now - s)
            BY <1>3 DEF LeftLocked
          <6>2. s \in Nat /\ s <= x
            BY <1>2, <1>3, <5>1
          <6> HIDE DEF L, s, x
          <6> QED BY <1>2, <1>4, <6>1, <6>2
        <5> QED BY <1>2, <1>8, <2>1, <4>1, <5>1, <5>2
      <4> QED BY <3>5, <4>2, <4>3, <4>4
    <3>6. CASE ~NextRule(b)
      <4>1. UNCHANGED <<at, due>> /\ pc'[b] \in {"ramp", "write"} /\ pend'[b].value = v
        BY <1>0, <2>1, <3>1, <3>2, <3>6 DEF Decide, TypeInv, TypeOK, v
      <4>2. x' = x
        BY <2>1, <2>3, <4>1 DEF DecidedAt, Decided
      <4>3. (asked => L < Cap)'
        BY <1>6, <2>1, <3>3, <4>1
      <4> QED BY <1>3, <1>6, <2>1, <4>2, <4>3 DEF Bounded, LeftLocked
    <3> QED BY <3>5, <3>6
  <2> QED BY <2>2, <2>3
<1>14. ASSUME NEW e \in Evaluators, Ramped(e) PROVE Bounded(i)'
  <2>1. /\ UNCHANGED <<now, lockedFor, device, lastChange, due, at, pend>>
        /\ pc[b] = "ramp" /\ pc'[b] = "write"
    BY <1>0, <1>14 DEF Ramped, TypeInv, TypeOK, world, ram, hist
  <2> QED BY <1>7, <2>1 DEF DecidedAt, Decided, Writing
<1>15. ASSUME NEW e \in Evaluators, Land(e) PROVE Bounded(i)'
  <2>1. /\ UNCHANGED <<now, lockedFor, lastChange, due, at, pc>> /\ pc[b] = "write"
        /\ pend'[b].value = pend[b].value /\ PointOf(b) \in Points /\ at[b] \in RuleIds
        /\ device' = [device EXCEPT ![PointOf(b)] = pend[b].value]
    BY <1>0, <1>15, LandStep DEF Land, ram, TypeInv, AtRule
  <2>2. x' = x /\ asked' = asked
    BY <2>1 DEF DecidedAt, Decided, Writing
  <2>3. CASE at[b] # i
    <3>1. device'[p] = device[p]
      BY <1>0, <1>2, <1>5, <2>1, <2>3 DEF PointOf, RuleOf, TypeInv, TypeOK
    <3> QED BY <1>7, <2>1, <2>2, <3>1
  <2>4. CASE at[b] = i
    <3>1. device'[p] = pend[b].value
      BY <1>0, <1>2, <2>1, <2>4 DEF PointOf, RuleOf, TypeInv, TypeOK
    <3>2. device'[p] = Locked => L < Cap
      BY <1>3, <2>1, <2>4, <3>1 DEF Writing
    <3>3. device'[p] = Locked => LeftLocked(i)'
      BY <1>2, <1>4, <1>6, <2>1, <2>2, <3>2 DEF LeftLocked
    <3> QED BY <1>3, <1>6, <2>1, <2>2, <3>3 DEF Bounded
  <2> QED BY <2>3, <2>4
<1>16. ASSUME NEW e \in Evaluators, Retry(e) PROVE Bounded(i)'
  <2>1. /\ UNCHANGED <<now, lockedFor, device, lastChange, due, at, pc>>
        /\ pend'[b].value = pend[b].value
    BY <1>0, <1>16, RetryStep DEF Retry, world, ram, hist
  <2> QED BY <1>7, <2>1 DEF DecidedAt, Decided, Writing
<1>17. ASSUME NEW e \in Evaluators, GiveUp(e) PROVE FALSE
  BY <1>0, <1>17 DEF GiveUp
<1>18. ASSUME NEW e \in Evaluators, Acknowledge(e) PROVE Bounded(i)'
  <2>1. /\ UNCHANGED <<now, lockedFor, device>> /\ NextRule(b) /\ pc[b] = "write" /\ ~pend[b].sent
        /\ lastChange' = [lastChange EXCEPT ![PointOf(b)] = now] /\ at[b] \in RuleIds
        /\ device[PointOf(b)] = pend[b].value
    BY <1>0, <1>18 DEF Acknowledge, TypeInv, AtRule, WriteShows, Writing, world, hist
  <2>2. CASE at[b] # i
    <3>1. lastChange'[p] = s
      BY <1>0, <1>2, <1>5, <2>1, <2>2 DEF PointOf, RuleOf, TypeInv, TypeOK
    <3> QED BY <1>7, <1>9, <2>1, <2>2, <3>1
  <2>3. CASE at[b] = i
    <3>1. lastChange'[p] = now /\ device[p] = pend[b].value
      BY <1>0, <1>2, <2>1, <2>3 DEF PointOf, RuleOf, TypeInv, TypeOK
    <3>2. device'[p] = Locked => L < Cap
      BY <1>3, <2>1, <2>3, <3>1 DEF Writing
    <3> QED BY <1>8, <1>9, <2>1, <2>3, <3>1, <3>2
  <2> QED BY <2>2, <2>3
<1>19. ASSUME NEW e \in Evaluators, PersistHysteresis(e) PROVE Bounded(i)'
  <2>1. /\ UNCHANGED <<now, lockedFor, device, lastChange, due>>
        /\ pc[b] = "persist" /\ pc'[b] = "persistLedger"
    BY <1>0, <1>19 DEF PersistHysteresis, TypeInv, TypeOK, world, ram, hist
  <2> QED BY <1>7, <2>1 DEF DecidedAt, Decided, Writing
<1>20. ASSUME NEW e \in Evaluators, PersistLedger(e) PROVE Bounded(i)'
  <2>1. /\ UNCHANGED <<now, lockedFor, device, lastChange>> /\ due' = now + EvalInterval
        /\ pc[b] = "persistLedger" /\ pc'[b] = "idle"
    BY <1>0, <1>20 DEF PersistLedger, Return, TypeInv, TypeOK, world, ram, hist
  <2>2. x' = x /\ ~asked'
    BY <1>2, <2>1 DEF DecidedAt, Decided, Writing
  <2> QED BY <1>7, <2>1, <2>2
<1>21. ASSUME NEW q \in Points, NEW v \in Values, MqttCommand(q, v) PROVE FALSE
  BY <1>0, <1>21 DEF MqttCommand, OneWriter
<1>22. CASE Stop
  BY <1>0, <1>22 DEF Stop
<1>23. CASE Start
  BY <1>0, <1>23 DEF Start
<1>24. CASE Horizon \/ UNCHANGED vars \/ \E k \in Cars : VehicleChanges(k)
  <2>1. UNCHANGED <<now, lockedFor, device, lastChange, due, at, pc, pend>>
    BY <1>24 DEF Horizon, VehicleChanges, vars, world, ram, coros, hist
  <2> QED BY <1>7, <2>1 DEF DecidedAt, Decided, Writing
<1>25. CASE Tick
  <2>1. /\ UNCHANGED <<device, lastChange, due, at, pc, pend>> /\ pc[b] = "idle" /\ now' = now + 1
        /\ now < due
    BY <1>0, <1>25 DEF Tick, Idle, ram, coros
  <2>2. x' = x /\ ~asked' /\ x = due - EvalInterval
    BY <2>1 DEF DecidedAt, Decided, Writing
  <2>3. L' \in Nat /\ L' <= L + 1 /\ (device[p] # Locked => L' <= L)
    BY <1>0, <1>2, <1>25, MinutesTick
  <2>6. /\ s # None => s \in Nat
        /\ L \in Nat /\ x \in Int /\ I \in Nat \ {0} /\ now \in Nat /\ due \in Nat
    BY <1>2, <1>4
  <2> HIDE DEF L, x, I, s
  <2>4. device[p] = Locked => /\ LeftLocked(i)'
                              /\ L' < Cap + I + EvalInterval - 1
    <3>1. device[p] = Locked =>
            \/ L < Cap + (now - x)
            \/ s # None /\ x < s + I /\ L < Cap + (now - s)
      BY <1>3 DEF LeftLocked, L, x, I, s
    <3>2. device[p] = Locked =>
            \/ L' < Cap + (now' - x')
            \/ s # None /\ x' < s + I /\ L' < Cap + (now' - s)
      BY <1>2, <2>1, <2>2, <2>3, <2>6, <3>1
    <3>3. device[p] = Locked => L' < Cap + I + EvalInterval - 1
      BY <1>2, <2>1, <2>2, <2>3, <2>6, <3>2
    <3> QED BY <2>1, <3>2, <3>3 DEF LeftLocked, L, x, I, s
  <2>5. L' < Cap + I + EvalInterval - 1
    BY <1>2, <1>3, <2>3, <2>4
  <2> QED BY <1>3, <2>1, <2>2, <2>4, <2>5 DEF Bounded, L, x, I, s
<1> QED
  BY <1>10, <1>11, <1>12, <1>13, <1>14, <1>15, <1>16, <1>17, <1>18, <1>19, <1>20, <1>21, <1>22,
     <1>23, <1>24, <1>25
  DEF Next, Evaluate

(* Without faults but a full disk, with one evaluator and a rule that      *)
(* always matches: a pump is locked in no window for longer than the cap,  *)
(* its min_interval and the evaluation interval together, less two, for    *)
(* every window, cap, interval and other rule.                             *)
THEOREM LockTimeCorrect == ASSUME Steady PROVE Spec => []LockTimeBounded
<1>1. Init => ExactInv /\ BoundInv
  BY ExactInit, BoundInit DEF Steady
<1>2. ExactInv /\ BoundInv /\ [Next]_vars => (ExactInv /\ BoundInv)'
  BY ExactNext, BoundNext DEF Steady
<1>3. BoundInv => LockTimeBounded
  BY DEF BoundInv, Bounded, LockTimeBounded
<1> QED BY <1>1, <1>2, <1>3, PTL DEF Spec
=============================================================================
