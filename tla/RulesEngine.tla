---------------------------- MODULE RulesEngine -----------------------------
(***************************************************************************)
(* RulesEngine.evaluate of rules_engine.py, as it runs on the add-on's one *)
(* asyncio event loop.  Evaluators are the coroutines that may be inside   *)
(* evaluate(): the background loop of main.py and one per POST             *)
(* /api/evaluate of webui.py.  Between two awaits a coroutine holds the    *)
(* event loop (`holder'); while a write is awaited the others may run.     *)
(*                                                                         *)
(* The device side of a write is part of the model: an attempt may reach   *)
(* the device and its answer be lost, and SGrService retries it.           *)
(***************************************************************************)
EXTENDS SgLock, Sequences

CONSTANTS
  Points,        \* rule ids: device/profile/data_point
  Values,        \* what a rule may command
  Locked,        \* SG-Ready mode 1, HP_LOCKED
  Normal,        \* HP_NORMAL
  Negative,      \* the values below zero: a V2H discharge
  SgReady,       \* points whose profile is SG-Ready
  Virtual,       \* points of virtual devices (no retry, no smooth transition)
  Rules,         \* user_config.rules, in order
  Vehicles,      \* user_config.vehicles, in order
  Attempts,      \* attempts SGrService._retry makes of one write
  DefaultInterval, \* DEFAULT_MIN_INTERVAL
  MaxAge,        \* HYSTERESIS_MAX_AGE_DAYS
  EvalInterval,       \* the evaluation interval
  DayOf,         \* the local day a minute belongs to
  MaxTime,       \* bound of the clock
  Evaluators, BackgroundLoop,
  KillSwitch,    \* is an enable_toggle configured?
  Commands,      \* <<point, value>> pairs an MQTT user may send
  Faults,        \* which faults the environment may show, see FaultKinds
  InitDevices    \* the values the data points may have at first start

FaultKinds ==
  {"restart", \* the process ends between two evaluations
   "stop",    \* the process ends while an evaluation is under way
   "fail",    \* every attempt of a write fails
   "unacked", \* every answer of a write is lost although it reached the device
   "disk",    \* a state file cannot be written
   "slow",    \* a write is awaited across a minute boundary
   "late"}    \* the background loop starts later than its interval says

Rule == [point : Points, min_interval : Nat, smooth : BOOLEAN,
         targets : [0..MaxTime -> SUBSET (Values \cup {None}) \ {{}}]]
(* `clamp' is max(-abs(max_discharge_a), value), which is 0 for a limit of 0. *)
Vehicle == [charger : SUBSET Points, enabled : BOOLEAN, grd : BOOLEAN, cycles : Nat,
            clamp : [Negative -> Values \ {Locked}]]

ASSUME EngineAssumption ==
  /\ None \notin Values /\ None \notin Nat /\ None \notin Evaluators
  /\ Locked \in Values \ Negative /\ Normal \in Values \ Negative /\ Locked # Normal
  /\ Negative \subseteq Values
  /\ SgReady \subseteq Points /\ Virtual \subseteq Points
  /\ Rules \in Seq(Rule) /\ Vehicles \in Seq(Vehicle)
  /\ Attempts \in Nat \ {0} /\ DefaultInterval \in Nat \ {0} /\ MaxAge \in Nat
  /\ EvalInterval \in Nat \ {0} /\ MaxTime \in Nat /\ DayOf \in [0..MaxTime -> Nat]
  /\ Window \in Nat \ {0} /\ Cap \in Nat
  /\ BackgroundLoop \in Evaluators /\ KillSwitch \in BOOLEAN
  /\ Commands \subseteq Points \X Values /\ Faults \subseteq FaultKinds
  /\ InitDevices \subseteq [Points -> Values]

VARIABLES
  now, device, vehicleOk,                 \* the world
  up,                                     \* is the add-on running?
  lastValues, lastChange, ledger, v2hDay, v2hCount,  \* RulesEngine, in RAM
  diskChange, diskLedger,                 \* hysteresis.json, sg_ready_lock.json
  holder, pc, at, context, pend, due,       \* the coroutines
  changedAt, lockedFor, sessions          \* history: read by no action

world  == <<now, device, vehicleOk, up>>
ram    == <<lastValues, lastChange, ledger, v2hDay, v2hCount>>
disk   == <<diskChange, diskLedger>>
coros  == <<holder, pc, at, context, pend, due>>
hist   == <<changedAt, lockedFor, sessions>>
vars   == <<world, ram, disk, coros, hist>>

-----------------------------------------------------------------------------
(* Helpers of the handlers.                                                *)

RuleIds == 1..Len(Rules)
Cars == 1..Len(Vehicles)
RuleOf(e) == Rules[at[e]]
PointOf(e) == RuleOf(e).point
Today == DayOf[now]

Interval(r) == IF r.min_interval = 0 THEN DefaultInterval ELSE r.min_interval

IsLock(p, v) == p \in SgReady /\ v = Locked

Least(S) == CHOOSE k \in S : \A j \in S : k <= j

(* The vehicle a charger's rule is checked against: the one bound to the   *)
(* device, else the first with V2H enabled.                                *)
CarFor(p) ==
  LET bound == {k \in Cars : p \in Vehicles[k].charger}
      able  == {k \in Cars : Vehicles[k].enabled}
  IN  IF bound # {} THEN Least(bound) ELSE IF able # {} THEN Least(able) ELSE None

(* The vehicles _build_vehicle_context finds able to discharge; the check   *)
(* of a discharge only asks context["v2h_available"]: is there any?        *)
CarsAvailable == {k \in Cars : Vehicles[k].enabled /\ vehicleOk[k]}

CountToday(k) == IF v2hDay = Today THEN v2hCount[k] ELSE 0

(* The checks of _check_v2h_authorization up to the day reset, then all.   *)
V2hConsidered(p, cars) ==
  CarFor(p) # None /\ Vehicles[CarFor(p)].enabled /\ cars # {}
V2hAllowedOnceMore(p, cars) ==      \* mutant: <= for <
  /\ V2hConsidered(p, cars)
  /\ CountToday(CarFor(p)) <= Vehicles[CarFor(p)].cycles
  /\ Vehicles[CarFor(p)].grd
V2hAllowed(p, cars) ==
  /\ V2hConsidered(p, cars)
  /\ CountToday(CarFor(p)) < Vehicles[CarFor(p)].cycles
  /\ Vehicles[CarFor(p)].grd

(* The value after the lock cap and the clamp of a discharge.              *)
AfterCap(p, want) == IF IsLock(p, want) /\ CapReached(ledger[p], now) THEN Normal ELSE want
AfterClamp(p, v) == IF v \in Negative THEN Vehicles[CarFor(p)].clamp[v] ELSE v

HysteresisOpenEarly(r) ==           \* mutant: off by one minute
  lastChange[r.point] = None \/ now + 1 - lastChange[r.point] >= Interval(r)
HysteresisOpen(r) ==
  lastChange[r.point] = None \/ now - lastChange[r.point] >= Interval(r)

TriesOf(p) == IF p \in Virtual THEN 1 ELSE Attempts

(* What _build_context freezes for the rules of one evaluation.            *)
Context == [cars : SUBSET Cars, minute : 0..MaxTime]
NoContext == [cars |-> {}, minute |-> 0]

(* The write an evaluator awaits; `sent' while an attempt is under way,    *)
(* `landed' once some attempt has reached the device.                      *)
Pending == [value : Values \cup {None}, prev : Values \cup {None},
            tries : Nat, sent : BOOLEAN, landed : BOOLEAN]
NoWrite == [value |-> None, prev |-> None, tries |-> 0, sent |-> FALSE, landed |-> FALSE]

Phase == {"idle", "rule", "ramp", "write", "persist", "persistLedger"}
Idle(e) == pc[e] = "idle"

(* e goes on with the next rule, or with the persistence after the last.   *)
NextRule(e) ==
  /\ holder' = e
  /\ IF at[e] < Len(Rules)
     THEN at' = [at EXCEPT ![e] = @ + 1] /\ pc' = [pc EXCEPT ![e] = "rule"]
     ELSE at' = at /\ pc' = [pc EXCEPT ![e] = "persist"]
  /\ pend' = [pend EXCEPT ![e] = NoWrite]
  /\ UNCHANGED <<context, due>>

(* e returns from evaluate(); the background loop then waits its interval. *)
ReturnToZero(e) ==                  \* mutant: the rule index restarts at 0
  /\ holder' = None
  /\ pc' = [pc EXCEPT ![e] = "idle"]
  /\ at' = [at EXCEPT ![e] = 0]
  /\ context' = [context EXCEPT ![e] = NoContext]
  /\ pend' = pend
  /\ due' = IF e = BackgroundLoop THEN now + EvalInterval ELSE due
Return(e) ==
  /\ holder' = None
  /\ pc' = [pc EXCEPT ![e] = "idle"]
  /\ at' = [at EXCEPT ![e] = 1]
  /\ context' = [context EXCEPT ![e] = NoContext]
  /\ pend' = pend
  /\ due' = IF e = BackgroundLoop THEN now + EvalInterval ELSE due

-----------------------------------------------------------------------------
(* evaluate(), one action per stretch between two awaits or per branch.    *)

(* get_states, the kill switch and _build_context, all before any await.   *)
Begin(e) ==
  /\ up /\ holder = None /\ Idle(e)
  /\ e = BackgroundLoop => now >= due
  /\ context' = [context EXCEPT ![e] = [cars |-> CarsAvailable, minute |-> now]]
  /\ pc' = [pc EXCEPT ![e] = IF Len(Rules) > 0 THEN "rule" ELSE "persist"]
  /\ holder' = e
  /\ UNCHANGED <<at, pend, due, world, ram, disk, hist>>

(* The toggle is off: evaluate returns at once and persists nothing.       *)
Disabled(e) ==
  /\ KillSwitch
  /\ up /\ holder = None /\ Idle(e)
  /\ e = BackgroundLoop => now >= due
  /\ Return(e)
  /\ UNCHANGED <<world, ram, disk, hist>>

(* No condition of the rule matches: nothing is written.                   *)
NoMatch(e) ==
  /\ holder = e /\ pc[e] = "rule"
  /\ None \in RuleOf(e).targets[context[e].minute]
  /\ NextRule(e)
  /\ UNCHANGED <<world, ram, disk, hist>>

(* A condition yields `want': lock cap, V2H check, redundancy, hysteresis, *)
(* and, past all of them, the dispatch of the write.                       *)
Decide(e, want) ==
  LET p == PointOf(e)
      capped == AfterCap(p, want)
      value == AfterClamp(p, capped)
      discharge == capped \in Negative
  IN
  /\ holder = e /\ pc[e] = "rule"
  /\ want \in RuleOf(e).targets[context[e].minute] \ {None}
  /\ ledger' = IF IsLock(p, want) /\ Cap > 0
               THEN [ledger EXCEPT ![p] = Prune(@, now)] ELSE ledger
  /\ IF discharge /\ V2hConsidered(p, context[e].cars) /\ v2hDay # Today
     THEN v2hDay' = Today /\ v2hCount' = [k \in Cars |-> 0]
     ELSE UNCHANGED <<v2hDay, v2hCount>>
  /\ IF \/ discharge /\ ~V2hAllowed(p, context[e].cars)
        \/ lastValues[p] = value
        \/ ~HysteresisOpen(RuleOf(e))
     THEN NextRule(e)
     ELSE /\ holder' = None
          /\ pc' = [pc EXCEPT ![e] = IF RuleOf(e).smooth /\ p \notin Virtual
                                     THEN "ramp" ELSE "write"]
          /\ pend' = [pend EXCEPT ![e] = [value |-> value, prev |-> lastValues[p],
                        tries |-> 1, sent |-> TRUE, landed |-> FALSE]]
          /\ UNCHANGED <<at, context, due>>
  /\ UNCHANGED <<world, lastValues, lastChange, disk, hist>>

(* _apply_smooth_transition: awaited, best effort, never fails.            *)
Ramped(e) ==
  /\ pc[e] = "ramp" /\ holder = None
  /\ pc' = [pc EXCEPT ![e] = "write"]
  /\ UNCHANGED <<world, ram, disk, holder, at, context, pend, due, hist>>

(* A discharge begins when the engine takes a point below zero.            *)
NewSession(p, v, k) == v \in Negative /\ device[p] \notin Negative /\ k = CarFor(p)

(* The attempt under way reaches the device.                               *)
Land(e) ==
  LET p == PointOf(e)
      v == pend[e].value
  IN
  /\ pc[e] = "write" /\ pend[e].sent
  /\ device' = [device EXCEPT ![p] = v]
  /\ pend' = [pend EXCEPT ![e].sent = FALSE, ![e].landed = TRUE]
  /\ changedAt' = IF device[p] # v THEN [changedAt EXCEPT ![p] = now] ELSE changedAt
  /\ sessions' = [k \in Cars |-> sessions[k] + IF NewSession(p, v, k) THEN 1 ELSE 0]
  /\ UNCHANGED <<now, vehicleOk, up, ram, disk, holder, pc, at, context, due, lockedFor>>

(* The attempt fails, with or without having reached the device: retry.    *)
RetryForever(e) ==                  \* mutant: attempts are not counted
  /\ pc[e] = "write" /\ holder = None
  /\ pend[e].tries < TriesOf(PointOf(e))
  /\ pend' = [pend EXCEPT ![e].sent = TRUE]
  /\ UNCHANGED <<world, ram, disk, holder, pc, at, context, due, hist>>
Retry(e) ==
  /\ pc[e] = "write" /\ holder = None
  /\ pend[e].tries < TriesOf(PointOf(e))
  /\ pend' = [pend EXCEPT ![e].tries = @ + 1, ![e].sent = TRUE]
  /\ UNCHANGED <<world, ram, disk, holder, pc, at, context, due, hist>>

(* The last attempt fails: `except Exception' logs it and skips the rule.  *)
GiveUpRecorded(e) ==                \* mutant: the value is recorded before the await
  /\ pc[e] = "write" /\ holder = None
  /\ pend[e].tries = TriesOf(PointOf(e))
  /\ (IF pend[e].landed THEN "unacked" ELSE "fail") \in Faults
  /\ lastValues' = [lastValues EXCEPT ![PointOf(e)] = pend[e].value]
  /\ NextRule(e)
  /\ UNCHANGED <<world, lastChange, ledger, v2hDay, v2hCount, disk, hist>>
GiveUp(e) ==
  /\ pc[e] = "write" /\ holder = None
  /\ pend[e].tries = TriesOf(PointOf(e))
  /\ (IF pend[e].landed THEN "unacked" ELSE "fail") \in Faults
  /\ NextRule(e)
  /\ UNCHANGED <<world, ram, disk, hist>>

(* _track_v2h_discharge: only a transition counts, judged by the value     *)
(* read before the await.                                                  *)
CountsSession(e) == pend[e].value \in Negative /\ pend[e].prev \notin Negative
TrackDischargeStale(p) ==           \* mutant: yesterday's counts are not cleared
  /\ v2hDay' = Today
  /\ v2hCount' = [k \in Cars |-> v2hCount[k] + IF k = CarFor(p) THEN 1 ELSE 0]
TrackDischarge(p) ==
  /\ v2hDay' = Today
  /\ v2hCount' = [k \in Cars |-> CountToday(k) + IF k = CarFor(p) THEN 1 ELSE 0]

(* A discharge of k has begun by a write whose answer is still to come.    *)
Unanswered(k) ==
  \E e \in Evaluators :
    pc[e] = "write" /\ CountsSession(e) /\ pend[e].landed /\ CarFor(PointOf(e)) = k

(* The write returns: everything evaluate records, up to the next await.   *)
Acknowledge(e) ==
  LET p == PointOf(e)
      v == pend[e].value
  IN
  /\ pc[e] = "write" /\ holder = None /\ ~pend[e].sent
  /\ lastChange' = [lastChange EXCEPT ![p] = now]
  /\ IF CountsSession(e) /\ CarFor(p) # None
     THEN TrackDischarge(p) ELSE UNCHANGED <<v2hDay, v2hCount>>
  /\ lastValues' = [lastValues EXCEPT ![p] = v]
  /\ ledger' = [ledger EXCEPT ![p] = Record(@, now, IsLock(p, v))]
  /\ NextRule(e)
  /\ UNCHANGED <<world, disk, hist>>

(* _persist_hysteresis, which writes no empty file, or its failure, which   *)
(* evaluate swallows.                                                      *)
Saved == IF \E p \in Points : lastChange[p] # None THEN lastChange ELSE diskChange
PersistHysteresis(e) ==
  /\ holder = e /\ pc[e] = "persist"
  /\ \/ diskChange' = Saved
     \/ "disk" \in Faults /\ UNCHANGED diskChange
  /\ pc' = [pc EXCEPT ![e] = "persistLedger"]
  /\ UNCHANGED <<world, ram, diskLedger, holder, at, context, pend, due, hist>>

PersistLedgerNever(e) ==            \* mutant: the ledger stays in RAM
  /\ holder = e /\ pc[e] = "persistLedger"
  /\ Return(e)
  /\ UNCHANGED <<world, ram, disk, hist>>
PersistLedger(e) ==
  /\ holder = e /\ pc[e] = "persistLedger"
  /\ \/ diskLedger' = ledger
     \/ "disk" \in Faults /\ UNCHANGED diskLedger
  /\ Return(e)
  /\ UNCHANGED <<world, ram, diskChange, hist>>

-----------------------------------------------------------------------------
(* The rest of the add-on and the world.                                   *)

(* BridgeDevice._handle_command writes past the engine, which never knows. *)
MqttCommand(p, v) ==
  /\ up /\ holder = None
  /\ <<p, v>> \in Commands /\ device[p] # v
  /\ device' = [device EXCEPT ![p] = v]
  /\ UNCHANGED <<now, vehicleOk, up, ram, disk, coros, hist>>

VehicleChanges(k) ==
  /\ vehicleOk' = [vehicleOk EXCEPT ![k] = ~@]
  /\ UNCHANGED <<now, device, up, ram, disk, coros, hist>>

(* The process ends.  An evaluation under way is cancelled or killed: it   *)
(* persists nothing, and what was only in RAM is gone.                     *)
EmptyRam ==
  /\ lastValues' = [p \in Points |-> None]
  /\ lastChange' = [p \in Points |-> None]
  /\ ledger' = [p \in Points |-> {}]
  /\ v2hDay' = None
  /\ v2hCount' = [k \in Cars |-> 0]
Stop ==
  /\ up
  /\ (IF \A e \in Evaluators : Idle(e) THEN "restart" ELSE "stop") \in Faults
  /\ up' = FALSE
  /\ EmptyRam
  /\ holder' = None
  /\ pc' = [e \in Evaluators |-> "idle"]
  /\ at' = [e \in Evaluators |-> 1]
  /\ context' = [e \in Evaluators |-> NoContext]
  /\ pend' = [e \in Evaluators |-> NoWrite]
  /\ UNCHANGED <<now, device, vehicleOk, disk, due, hist>>

(* evaluation_loop first waits up to a minute, or for the quarter-hour, but *)
(* never longer than its interval.                                         *)
InitialDelays == 1..EvalInterval

(* RulesEngine.__init__ loads both files; old hysteresis entries are left. *)
RestoredNothing(p) == None          \* mutant: hysteresis.json is not loaded
Restored(p) ==
  IF diskChange[p] # None /\ now - diskChange[p] < MaxAge THEN diskChange[p] ELSE None
Start ==
  /\ ~up
  /\ up' = TRUE
  /\ lastChange' = [p \in Points |-> Restored(p)]
  /\ ledger' = diskLedger
  /\ \E d \in InitialDelays : due' = now + d
  /\ UNCHANGED <<now, device, vehicleOk, lastValues, v2hDay, v2hCount, disk,
                 holder, pc, at, context, pend, hist>>

(* A minute passes.  A stretch without await takes no modelled time, nor   *)
(* does a write or the wake-up of the loop unless the fault says so.       *)
Tick ==
  /\ now < MaxTime /\ holder = None
  /\ "slow" \notin Faults => \A e \in Evaluators : Idle(e)
  /\ "late" \notin Faults => up /\ (Idle(BackgroundLoop) => now < due)
  /\ now' = now + 1
  /\ lockedFor' = [p \in Points |-> lockedFor[p] \cup IF device[p] = Locked THEN {now} ELSE {}]
  /\ sessions' = [k \in Cars |-> IF DayOf[now + 1] = Today THEN sessions[k]
                                  ELSE IF Unanswered(k) THEN 1 ELSE 0]
  /\ UNCHANGED <<device, vehicleOk, up, ram, disk, coros, changedAt>>

(* The modelled time is over and nobody is at work: not a deadlock.        *)
Horizon ==
  /\ now = MaxTime /\ due > now
  /\ \A e \in Evaluators : Idle(e)
  /\ UNCHANGED vars

-----------------------------------------------------------------------------
Init ==
  /\ now = 0 /\ up = TRUE
  /\ device \in InitDevices
  /\ vehicleOk = [k \in Cars |-> TRUE]
  /\ lastValues = [p \in Points |-> None]
  /\ lastChange = [p \in Points |-> None]
  /\ ledger = [p \in Points |-> {}]
  /\ v2hDay = None /\ v2hCount = [k \in Cars |-> 0]
  /\ diskChange = lastChange /\ diskLedger = ledger
  /\ holder = None /\ due \in InitialDelays
  /\ pc = [e \in Evaluators |-> "idle"]
  /\ at = [e \in Evaluators |-> 1]
  /\ context = [e \in Evaluators |-> NoContext]
  /\ pend = [e \in Evaluators |-> NoWrite]
  /\ changedAt = [p \in Points |-> None]
  /\ lockedFor = [p \in Points |-> {}]
  /\ sessions = [k \in Cars |-> 0]

Evaluate(e) ==
  \/ Begin(e) \/ Disabled(e) \/ NoMatch(e)
  \/ \E want \in Values : Decide(e, want)
  \/ Ramped(e) \/ Land(e) \/ Retry(e) \/ GiveUp(e) \/ Acknowledge(e)
  \/ PersistHysteresis(e) \/ PersistLedger(e)

Next ==
  \/ \E e \in Evaluators : Evaluate(e)
  \/ \E p \in Points, v \in Values : MqttCommand(p, v)
  \/ \E k \in Cars : VehicleChanges(k)
  \/ Stop \/ Start \/ Tick \/ Horizon

Spec == Init /\ [][Next]_vars

-----------------------------------------------------------------------------
(* Properties.                                                             *)

AllIdle == \A e \in Evaluators : Idle(e)
Writing(e) == pc[e] \in {"ramp", "write"}

(* The types of the variables.                                             *)
TypeOK ==
  /\ now \in 0..MaxTime /\ due \in Nat /\ up \in BOOLEAN
  /\ device \in [Points -> Values] /\ vehicleOk \in [Cars -> BOOLEAN]
  /\ lastValues \in [Points -> Values \cup {None}]
  /\ lastChange \in [Points -> Nat \cup {None}] /\ diskChange \in [Points -> Nat \cup {None}]
  /\ ledger \in [Points -> SUBSET Period] /\ diskLedger \in [Points -> SUBSET Period]
  /\ v2hDay \in Nat \cup {None} /\ v2hCount \in [Cars -> Nat]
  /\ holder \in Evaluators \cup {None}
  /\ pc \in [Evaluators -> Phase] /\ at \in [Evaluators -> Nat \ {0}]
  /\ context \in [Evaluators -> Context] /\ pend \in [Evaluators -> Pending]
  /\ changedAt \in [Points -> Nat \cup {None}]
  /\ lockedFor \in [Points -> SUBSET Nat] /\ sessions \in [Cars -> Nat]

(* min_interval: a write on its way that will change a device comes at     *)
(* least the rule's interval after the engine's last change of that device,*)
(* whichever evaluation, and whichever run of the add-on, made that change.*)
WritesAreSpaced ==
  \A e \in Evaluators :
    Writing(e) /\ pend[e].sent /\ device[PointOf(e)] # pend[e].value =>
      \/ changedAt[PointOf(e)] = None
      \/ now - changedAt[PointOf(e)] >= Interval(RuleOf(e))

(* What the engine skips a write for is true: a value it believes set is   *)
(* the value the device has, unless a write to that device is under way.   *)
BeliefMatchesDevice ==
  \A p \in Points :
    lastValues[p] # None /\ (\A e \in Evaluators : Writing(e) => PointOf(e) # p)
      => device[p] = lastValues[p]

(* Between evaluations the two files agree with memory on what they are     *)
(* for: the lock ledger, and the time of the last change of every point the *)
(* engine has changed.  (The counter of discharges is never saved, and an   *)
(* evaluation cut short saves nothing.)                                     *)
StateIsSaved ==
  up /\ AllIdle =>
    /\ diskLedger = ledger
    /\ \A p \in Points : lastChange[p] # None => diskChange[p] = lastChange[p]

LockedMinutes(p) == Cardinality({m \in lockedFor[p] : m >= now - Window})

(* The ledger counts exactly the minutes the pump really was locked in the *)
(* window, through pruning, restarts and unmatched rules.                  *)
LedgerIsExact ==
  \A p \in SgReady : up /\ AllIdle => Used(ledger[p], now) = LockedMinutes(p)

(* An open lock period and the engine's belief agree: a period is open     *)
(* exactly while the last value written, if any was in this run, is a lock.*)
LedgerFollowsBelief ==
  \A p \in Points :
    /\ \A q, r \in OpenPeriods(ledger[p]) : q = r
    /\ lastValues[p] # None =>
         (OpenPeriods(ledger[p]) # {}) = IsLock(p, lastValues[p])

(* What the cap does guarantee for a rule that always matches: a lock      *)
(* begins below the cap, and the first evaluation that finds the cap       *)
(* reached and min_interval over releases it.                              *)
LockTimeBounded ==
  \A i \in RuleIds : Rules[i].point \in SgReady =>
    LockedMinutes(Rules[i].point) < Cap + Interval(Rules[i]) + EvalInterval - 1

(* The claim of the docs: never more than the cap within the window.       *)
LockTimeCapped == \A p \in SgReady : LockedMinutes(p) <= Cap

(* The claim of the changelog: an evaluation that finds the cap reached    *)
(* (and hysteresis open) does not leave the pump locked.                   *)
LockIsReleased ==
  \A e \in Evaluators, i \in RuleIds :
    LET p == Rules[i].point IN
    pc[e] = "persist" /\ IsLock(p, device[p]) /\ CapReached(ledger[p], now)
      => ~HysteresisOpen(Rules[i])

(* The claim of the header: a discharge is only ever written for a vehicle *)
(* that was itself able to discharge when the evaluation read the states.  *)
DischargesAreGranted ==
  \A e \in Evaluators : Writing(e) /\ pend[e].value \in Negative =>
    CarFor(PointOf(e)) \in context[e].cars

(* An evaluation that found a vehicle unable to discharge does not leave   *)
(* its charger discharging.                                                *)
DischargesAreStopped ==
  \A e \in Evaluators, p \in Points :
    pc[e] = "persist" /\ lastValues[p] \in Negative /\ device[p] \in Negative
      => CarFor(p) \in context[e].cars

(* One continuous discharge counts as one cycle: the daily limit never     *)
(* refuses a value to a discharge that is under way and was counted.       *)
OngoingDischargeIsAllowed ==
  \A p \in Points : lastValues[p] \in Negative /\ CarFor(p) \in CarsAvailable
    => V2hAllowed(p, CarsAvailable)

(* Between evaluations the counter of every car is the number of discharges *)
(* that really began today at all the points that are charged to it (one    *)
(* whose write was answered after midnight counts for the new day): a retry *)
(* that lands twice, another current or a write that failed is not counted, *)
(* nor is a discharge lost or charged to another car.  So no car is refused *)
(* a cycle it still has.                                                    *)
CyclesAreCounted == up /\ AllIdle => \A k \in Cars : CountToday(k) = sessions[k]

(* max_cycles_per_day bounds the discharges the car really sees in a day.  *)
CyclesBounded == \A k \in Cars : sessions[k] <= Vehicles[k].cycles

(* The abstract promise of min_interval, see RateLimit.                    *)
Spacings == [p \in Points |->
               {Interval(Rules[i]) : i \in {j \in RuleIds : Rules[j].point = p}}]
Limit == INSTANCE RateLimit WITH clock <- now, value <- device
ImplementsRateLimit == Limit!Spec

(* Every evaluation comes to its end: the retries are bounded, a failing   *)
(* write only skips its rule, and no evaluation starves the others.        *)
EvaluationEnds == \A e \in Evaluators : ~Idle(e) ~> Idle(e)

(* asyncio runs every coroutine whose await is over, in order of arrival,  *)
(* so one that keeps becoming ready does run; a driver call ends.          *)
Resume(e) == Ramped(e) \/ Retry(e) \/ GiveUp(e) \/ Acknowledge(e)
Straight(e) ==
  \/ NoMatch(e) \/ \E want \in Values : Decide(e, want)
  \/ PersistHysteresis(e) \/ PersistLedger(e)
FairSpec ==
  /\ Spec
  /\ \A e \in Evaluators :
       WF_vars(Straight(e)) /\ WF_vars(Land(e)) /\ SF_vars(Resume(e))
=============================================================================
