# SmartGridready add-on: a verification project

TLA+ modules, TLC configurations and TLAPS proofs for the Home Assistant add-on
in `smartgridready/src`, an energy manager that reads sensors from Home
Assistant, decides every few minutes what each SmartGridready device should
do, and writes it.

Everything runs in one Python process on one asyncio event loop. There is no
preemption: a coroutine owns the loop from one `await` to the next. All the
concurrency of the system is therefore *between* awaits, and every module here
that has concurrent actors takes its atomic steps to be those stretches.

## 1. Inventory

| Component | State | Operations | Talks to |
|---|---|---|---|
| `RulesEngine.evaluate` (`rules_engine.py`) | `_last_values`, `_last_change_times`, `_sg_lock_ledger`, `_v2h_count_today`, `_v2h_day`; `hysteresis.json`, `sg_ready_lock.json` | evaluate, persist, load | HA client (sensors), SGrService and VirtualDeviceManager (writes); called by the evaluation loop and by `POST /api/evaluate` |
| SG-Ready lock ledger (`rules_engine.py:490-608`) | list of `[start, end]` per rule | record, prune, sum, cap | the engine |
| V2H authorisation (`rules_engine.py:874-1008`) | daily counter | check, track, day reset | vehicle context, the engine |
| Condition DSL and context (`rules_engine.py:614-940, 1014-1172`) | none | build context, evaluate conditions | the engine |
| Virtual devices (`virtual_devices.py`) | configuration only | apply: one HA service call per target | HA client |
| SGrService (`sgr_service.py`) | connections, the EID `cache/` | connect, resolve EID, read, write, retry, disconnect, EVSE watchdog set-up | device drivers, the SGr library |
| MQTT bridge (`mqtt_discovery.py`) | client, `_dp_lookup`, retained topics at the broker | connect, announce, publish states, availability, command loop, conversions both ways | SGrService; *writes to devices past the engine* |
| Optimizer (`optimizer.py`, `run_optimizer`) | `_last_result`, `optimizer_schedule.json` | optimise (MILP or greedy), offer the power of the hour | price and PV forecasts; the engine's context |
| PV forecast (`pv_forecast.py`) | `pv_forecast.json`, `ha_location.json` | resolve the location, update, summary, hourly series | Open-Meteo, HA client; read by the engine and the optimizer |
| Process (`main.py`) | tasks, `shutdown_event` | start, loops, drain, disconnect | everything |
| Web UI (`webui.py`) | none | pages, `POST /api/evaluate` | the engine |
| HA client (`ha_client.py`) | none | get states, call service | Home Assistant |
| Configuration (`config_loader.py`, `options.py`) | none | read the YAML file section by section, with defaults | main, which hands the sections to everything else |

What is hard in this code, and where the properties are aimed:

* **Interleaving at awaits.** Two evaluations can be inside `evaluate()` at
  once; the MQTT command loop writes to the same devices; state read before an
  awaited write is used after it.
* **Unreliable writes.** A write may reach the device and its answer be lost,
  `_retry` repeats it, a service call may time out and still be carried out.
* **Restart.** Hysteresis and lock ledger live in RAM and are written at the end
  of a cycle; values and V2H counters are RAM only.
* **Sliding windows, intervals and days** at their boundaries, with a loop whose
  wake-up drifts.
* **Shutdown order** with requests, retries and publications under way.
* **Partial failure**: one target of several, one file of two, one of two
  configuration writes, an infeasible solver, an empty answer of Home Assistant.
* **What is retained elsewhere** outlives the session that made it: files, the
  broker's retained topics, a charger's registers.
* **Readings of zero and of nothing** (`value or default`, an unknown sensor as 0).

`PROJECT.json` lists each hazard at its line with the properties that watch it.

## 2. Modules

| Module | Models | Correspondence |
|---|---|---|
| `SgLock` | the lock ledger as operators | a period is `[start, end]`, `end = None` while open; the list is a set (the code uses positions only to find the last open period) |
| `RulesEngine` | `evaluate()`, its callers, devices, files, restarts | `holder` is the coroutine owning the event loop, `pc[e]` where evaluator `e` is, `context[e]` what `_build_context` froze for it (the minute and the vehicles able to discharge), `pend[e]` the write it awaits. One action per stretch or branch: `Begin`, `Disabled`, `NoMatch`, `Decide` (cap, V2H check, clamp, redundancy, hysteresis, dispatch), `Ramped`, `Land`/`Retry`/`GiveUp`/`Acknowledge` (a write and its outcomes), `PersistHysteresis`, `PersistLedger`, `Stop`, `Start` |
| `RateLimit` | abstract: a register that changes at most once per interval | refined by `RulesEngine` |
| `Lifecycle` | `run()` of `main.py`, its tasks, MQTT bridge and device connections | `main` walks through the statements of `run()`; each task has its own phase; `using[t]` is the device whose driver a task awaits. Requests are accepted until uvicorn leaves (`WebExits`), the last ones answered after it was asked to (`WebAnswers`); `MainAnnounceRaises` is a `dp.unit()` that raises outside the `try` of `announce_all` and ends the start |
| `Availability` | abstract: what the retained availability topic tells | refined by `Lifecycle` |
| `Optimizer` | series, greedy solver, MILP constraints, schedule on its way to the rules | `result`, `disk`, `offer` are `_last_result`, the JSON file, the context of the last evaluation |
| `EidCache` | `_resolve_eid` over days, kills, a library that publishes | `file` is the cached XML, `phase` where start-up is |
| `DeviceService` | `_connect_device` and `_configure_evse_watchdog` on top of `EidCache`, the charger | `step` and `left` walk the two loops over candidate profiles, kept as places in the order of the description (0 is the default), the least of which is tried next; `charger` is what was written to it, `setting` the current it applies, `last` the one the engine believes |
| `ConfigLoader` | `load_user_config` as operators | one operator per section; `Raises` is an exception nobody catches, also of a scalar where a list (`ListAt`) or a mapping (`MappingAt`) belongs |
| `VirtualDevices` | `apply()` of the four proxies, of the device `ConfigLoader` makes of a file | `call[e]` is the `_call_all` an evaluator awaits, `late` the timed-out calls Home Assistant may still carry out, at any time (`Lands`) |
| `Context` | `_build_context` as operators | one operator per block of the method; `ContextOf` merges them in its order: an extra sensor overrides the clock, every other block overrides both |
| `RuleConditions` | the DSL over a `Context` | an expression is a sequence of words; `Eval` splits like the code, `Meaning` is the independent reading it is compared with |
| `PvForecast` | `PvForecastService` under `pv_forecast_loop` | `phase` where `update()` awaits, `job` its locals, `forecast` and `location` the two files; an estimate is abstracted to the hour it is for |
| `MqttEntities` | a data point, its entity and back, over sessions | `todo`, `job` are the loops of `announce_all` and `publish_states`, `discovery` and `shown` what the broker retains, `inbox` and `cmd` a command before and after its conversion |
| `RulesEngine_proofs`, `Lifecycle_proofs`, `Optimizer_proofs`, `VirtualDevices_proofs`, `DeviceService_proofs`, `RuleConditions_proofs`, `PvForecast_proofs`, `MqttEntities_proofs` | theorems | see section 4 |
| `MC*` | instances for TLC | |

How they fit: `RulesEngine` takes a rule as the set of values it may yield in a
minute, which `RuleConditions` makes precise for one rule and `Context` for the
sensors it reads; the summary of `Context` is that of `PvForecast`, its plan that
of `Optimizer`. `VirtualDevices` opens up the single write of a virtual point in
`RulesEngine` and composes it with `ConfigLoader`; `DeviceService` composes the
connection of a charger with `EidCache`, the charger and the engine's
suppression of redundant writes. `Lifecycle` opens up who may call `evaluate()`
and when, and takes `evaluate()` as a series of awaited writes; `MqttEntities`
opens up its publication and its command tasks.

History variables (read by no action): `changedAt`, `lockedFor`, `sessions` in
`RulesEngine`, `reached` in `Lifecycle`, `latest` in `Optimizer`, `cached` in
`EidCache`, `clean` in `DeviceService`, `answered`, `applied`, `contested` in
`VirtualDevices`, `left`, `fetched`, `trouble` in `PvForecast`, `recent` in
`MqttEntities` (its `fresh` doubles as the count of `publish_states`). They record what
really happened at the device, so that the code's own bookkeeping can be compared
with it. The same holds for parts of records that are only there to be compared,
such as `at`/`online` of `xml` and `seen`/`saved` of a plan.

### Faults

Each module has a constant `Faults` naming what the environment may do, so a run
says exactly under which circumstances its properties hold. In `RulesEngine`:
`restart` (the process ends between evaluations), `stop` (inside one), `fail`
(all attempts of a write fail), `unacked` (all answers are lost although the
write landed), `disk` (files cannot be written), `slow` (a write spans minutes),
`late` (down time and late wake-ups).

## 3. Runs

| Run | Asks | Bounds and why they suffice |
|---|---|---|
| `pump` | min_interval across retries, failures, restarts; beliefs true; ledger exact; refinement of `RateLimit` | two points (one SG-Ready, one virtual), window 5, cap 2, intervals 2, clock 11: the window slides over more than twice its length, the cap is reached, released and reached again, with a restart and down time anywhere |
| `lock` | how far a lock really exceeds the cap | window 9, cap 4, interval 2, clock 13: locks fall out of the window; a full disk (no restart) |
| `v2h` | daily limit of discharges; the counter is the number of discharges that really began | two cars; three data points, one of no car (it is charged to the first) and one of a car clamped to 0 A; limits 2 and 1, days of 3 minutes, clock 6: a limit is reached by two points together, across midnight, during a slow write, and one car is able while the other is not |
| `web` | files have the ledger and times of RAM when idle, ledger and belief agree, every evaluation ends | two evaluators, MQTT commands, all faults except `disk` and `late`; clock 2: every pair of awaits interleaves, with a stop at each. Fair specification |
| `lifecycle` | shutdown order, availability, termination | two devices, every step of the start that can raise, one side loop, two attempts per write, unlimited crashes and restarts. Fair specification |
| `optimizer` | must_run_hours by either solver, cheapest hours, known prices, survival | days of 4 hours; a window past midnight and one too small; three price forecasts, one with a gap at its start; a sun that makes the MILP feasible and one that makes it infeasible |
| `device` | watchdog armed as described, never a timeout without a safe current; corrections flow in, a stored description keeps the device starting | time to live 2 days, 6 days, 3 versions: every age of a file at every age of a version; all three EVSE profiles, a meter whose point has the name of one of the two, versions that move a point to another profile; a power cut anywhere |
| `vd` | settings in range, belief real | a file for each of the four types, one with entries of every section wrong in some way, three that yield nothing, six with a scalar in the place of a section, a list or a mapping; two evaluators and two targets, so that calls cross; one timed-out call outstanding at a time, which lands at any later moment; an offset that leaves the limits, a literal that is not mapped, a base that moves or is unreadable |
| `match` | DSL agrees with its documented reading; first match decides; the lowest quartile is one; V2H only above the reserve and in the window | all expressions of up to three words over 5 terms, 5 states of Home Assistant, 3 hours, no answer; all lists of four of three prices and one or more lists of every other length up to nine, each with and without an hour of tomorrow; two cars around reserve, margin and both ends of their windows |
| `pv` | a forecast is never blanked; daylight is planned; its location is recent | days of 6 hours, 3 of them with sun, an interval of 2, clock 9: an update at every hour of the day, across midnight, with an outage of any length; time to live 2, two homes |
| `mqtt` | what a user asks is what is written and what the description allows; a published state is one the device has had since it was read | two points, a range that ends at 0 and has negative numbers, a description that makes the limit read-only and the mode a switch, one command at a time; every await interleaves with every other |
| `hour` | *violated*: the schedule is indexed by the hour of the day | see section 5 |

`Horizon` in `RulesEngine` is a self-loop at the end of modelled time when
nobody is at work; everything else that stops the model is reported as deadlock.

Every property of a passing run has a mutant of the code (marked `\* mutant` next
to the definition it replaces) that violates it under the same configuration.

### Fairness

asyncio resumes ready coroutines in FIFO order. A coroutine in a straight stretch
is the only one that can act (`holder`), so weak fairness on it is the event loop
running at all. A coroutine waiting for the loop is ready again and again but may
find the loop held, so its resumption (`Ramped`, `Retry`, `GiveUp`,
`Acknowledge`) gets strong fairness, which FIFO order justifies. A driver call
ends because drivers have timeouts (`Land` weakly fair stands for it). Nothing
obliges a new evaluation to begin, a fault to happen or stop happening. In
`Lifecycle` a sleeping loop, a publication and a command end likewise; a user, a
signal, a crash and a request are never obliged. That a web request ends
(`WebAnswers`, weakly fair) is what `EvaluationEnds` shows of the engine; that uvicorn
leaves after `should_exit` (`WebExits`, weakly fair) is its tick, however many requests
still arrive before it. Uvicorn is assumed to leave its exit to `should_exit`, as `main.py` sets it,
and to see it at one of its ticks.

## 4. Proofs

`RulesEngine_proofs`, for all constants satisfying `EngineAssumption`:

* `TypeCorrect`: `Spec => []TypeOK`. The induction needs `TypeInv`: the types,
  that an evaluator inside a rule is at an existing rule with a value of the
  right kind (`AtRule`), and that no ledger in RAM or on disk has two open
  periods (`LedgersOK`), without which `LastOpen` would be an arbitrary choice.
* `LedgerCorrect`: `Spec => []LedgerFollowsBelief`, with any number of evaluators,
  every fault and MQTT commands. Needs `Down`: a stopped process has no evaluation
  and believes nothing, so that loading a ledger with an open period is harmless.
* `SpacingCorrect`: `Calm => (Spec => []WritesAreSpaced)`. The inductive
  invariant relates four records of the last change: the true one (`changedAt`),
  the one in RAM (`RamCovers`), the one on disk (`DiskCovers`, whenever a restart
  could read it) and the write under way (`WriteInv`: if it has landed the device
  has its value, if not the interval was over when it was dispatched).
* `RateLimitImplemented`: `Calm => (Spec => ImplementsRateLimit)`, step by step
  from the same invariant.

`Calm` names exactly what the guarantee needs and what the code does not ensure
by itself: at most one evaluation at a time, no stop inside one, no write that
lands unnoticed, a disk that works, no MQTT command, and no
interval above `HYSTERESIS_MAX_AGE_DAYS`. Dropping one of them is not a matter of
proof: the table in section 5 has counterexamples.

* `SavedCorrect`: `"disk" \notin Faults => (Spec => []StateIsSaved)`, with any number
  of evaluators and MQTT commands. `SavedInv` adds that `hysteresis.json` is
  up to date as soon as every evaluator is past writing it.
* `BeliefCorrect`: `OneWriter => (Spec => []BeliefMatchesDevice)`. `BeliefInv` excepts a
  point exactly from the moment a write lands on it until its answer is recorded.
* `CyclesCorrect`: `OneRun => (Spec => []CyclesBounded)`. `CycleInv` compares the
  sessions the car has seen with the engine's count, which lags behind by one
  while a write that began a discharge is not answered (`Unanswered`).
* `CountsCorrect`: `Fresh => (Spec => []CyclesAreCounted)`. `CountInv` makes that lag exact,
  for every car and any number of chargers, also over midnight (`DaysPass`: the days do
  not run backwards); it needs that a point the engine knows nothing of is not
  discharging (`NeverBelow`).
* `LedgerIsExactCorrect`: `Timely => (Spec => []LedgerIsExact)`. `ExactInv` says of the
  ledger (of the file, while the add-on is down) that its periods do not overlap
  and end by now, that together they have exactly the minutes the pump was locked
  in the window, and that one is open while it is locked (`Tiles`, `Locks`). That the
  sum of the lengths is then the number of those minutes (`SumOfDisjoint`) goes by the
  smallest counterexample through the definition of `MapThenSumSet`.
* `LockTimeCorrect`: `Steady => (Spec => []LockTimeBounded)`. From `ExactInv` the cap is
  compared with the minutes really locked (`UsedIsLocked`); `Clock` says that an evaluation
  comes at the minute it is due; `Bounded` that a pump the last decision left locked
  was below the cap at that decision, or was locked below the cap less than
  `min_interval` before it (`LeftLocked`). Since the next decision is at most an
  evaluation interval later, the bound is `Cap + min_interval + interval - 2` minutes,
  which is the one the run reaches.

`OneWriter` is one evaluator, no MQTT command and no write that lands and is taken
for failed; `OneRun` adds that the add-on does not end, `Fresh` that no charger
discharges when it starts, `Timely` that it ends only
between evaluations, that a write takes no minute of the clock, that the disk works
(if the add-on may restart at all) and that the pump is not locked at the very first
start (such a lock is none of the engine's). `Steady` adds that nothing restarts or
fails but the disk, that no toggle switches the engine off, and that the rule of a
pump always matches, is the only one of its data point and commands no negative value:
otherwise nothing in the code releases the pump at the cap.

`Optimizer_proofs`, for every day, price, sun, list of devices and fault:

* `MustRunCorrect` (`Spec => []MustRunIsMet`): for the MILP from its constraint, for the
  greedy solver from a count. `CheapestCount`: the first `n` hours of a set in the stable
  order are `n`, or all of them, by taking the last hour away; `PassesFill`: the two
  passes are disjoint, the second adds nothing inside the window, and together they
  have `min(n, Hours)` hours.
* `CheapestCorrect` (`Spec => []NoCheaperChoice`): no hour left out is cheaper than one taken
  (`CheapestIsCheap`), so exchanging some for as many others saves nothing
  (`ExchangeCosts`).
* `PricesCorrect` (`Spec => []PricesAreKnown`): `Series` is a recursive function; that its
  equation has a solution is shown by giving one (`SeriesExists`), what it has at every
  hour by the first hour where it would not (`SeriesIsKnown`).
* `LatestCorrect` (`Spec => []LatestSurvives`), from `KeptInv`: a saved latest plan is on disk,
  and in RAM there is it or nothing.

Sums are those of `FoldFunctionOnSet`. `SetInduct` is induction on finite sets in a form
without an operator parameter (the family of sets for which a fact holds is a set);
from it come that the recursion has a solution (`SumsExist`), that its value does not
depend on the order (`TotalStep`), splits (`TotalSplit`) and is bounded (`TotalBounds`).

`VirtualDevices_proofs`, for every file, base and failing call: `SettingsStayInRange`
(`Spec => []SettingsInRange`) from `InRangeInv`, which follows the limits from the entry
of the file through the device and the pending calls to the targets, and
`BeliefStaysReal` (`Spec => []BeliefIsReal`), with any number of evaluators and of timed-out
calls. Its invariant follows every answer: a target that has answered has what was asked of
it unless it is `contested`, which a late call or a call of two evaluations under way at
once makes it, and only an answer to an evaluation alone ends.

`DeviceService_proofs`: `ServiceKeepsCache` (`DeviceSpec => Spec` of `EidCache`, so its
theorems carry over), `DeviceTypes`, `WatchdogCorrect` (`DeviceSpec => []WatchdogIsArmed`) and
`TimeoutCorrect` (`SafeWithTimeout => (DeviceSpec => []TimeoutHasSafeCurrent)`).
`LoopInv` says how far each of the two loops is and which points it has set,
`VersionInv` that the description is one the library has published.
`SafeWithTimeout` is about the descriptions, not the code: one that has a timeout has a
safe current.

About the cache alone, in the same module: `CorrectionsCorrect`
(`Spec => [](TypeOK /\ CorrectionsFlowIn)`) for every time to live and history.
`CacheInv` adds that a file's version was not
superseded before the day in its modification time (`FileInv`), the same for the
XML in use and about to be used (`XmlInv`), and that a file being written exists.
`BootsOffline`: `Spec => []StillBoots`, from the same and `BootInv`: what was stored
has a file, torn or not, until it is deleted.

`RuleConditions_proofs`, for every rule, grammatical expression of any length, state of
Home Assistant, forecast and fleet of cars. The machine has little state, so the
invariant is short: `RuleInv` says that the last outcome is that of an evaluation of
what is there now. The work is in the operators:

* `FirstMatchCorrect` (`Spec => []FirstMatchWins`) rests on `EvalIsMeaning`: cutting an
  expression at its ORs, then at its ANDs, and counting the words left over decides the
  same as reading it from left to right. `ReadInv` says what the reader knows after `n`
  words: whether a disjunct that ended held, whether the comparisons of the present one
  did so far, and the parity of the NOTs since the last operator. It is kept by an OR
  (`ReadOr`), an AND or a NOT (`ReadAndNot`) and a comparison (`ReadComparison`), and so
  holds of every prefix (`ReadAll`, by `UpTo`, from the least place where it would
  not). On the other side `SplitIs` says which pieces the cuts leave, and
  `StretchIsTerm`, `TermIsStretch` that the pieces of pieces are exactly the
  comparisons with their NOTs. That the recursive function has a value at all is
  `ReadingThere`.
* `NothingMissedCorrect` (`Spec => []NothingIsMissed`) needs that no template is resolved
  to nothing, hence that every name of the context is a number or a text: `ContextTyped`,
  from one lemma for each part of the context, with `Extremes` and `SumType` for the
  minimum, maximum and sum over a finite set of prices or reserves.
* `QuartileCorrect` (`Spec => []QuartileIsCheapest`) is a counting argument. Two prices
  have two ranks in the sorted list, so each rank up to their number is taken
  (`EveryRank`, by the pigeonhole of `FS_Injection`), and a price is not above the one
  with rank `q` exactly when fewer than `q` are below it (`RankCounts`).
* `OfferCorrect` (`Spec => []OfferIsReal`): the hours `InWindow` accepts, also across
  midnight and with an end of 24, are those on the arc of the clock (`WindowIsArc`),
  and the flag of one car is what the property says (`AbleIs`). It assumes that no extra
  sensor is called `hour`: such a sensor overrides the clock, and a car's window is then
  compared with it, in the code as in the model.

The assumptions are that expressions are `Grammatical`, states are numbers or texts, and
`NamesApart`: a name made by joining `ev_` or `optimizer_` with a slug is neither
`v2h_available` nor the flag of the quartile. This is a fact about letters,
which the provers do not know; TLC evaluates it for the instance.

`Lifecycle_proofs`, for any devices, data points, loops, attempts and faults:

* `TypeCorrect` and `ShutdownOrder` (`Spec => []LoopsStopBeforeDevices`) from
  `OrderInv`: nothing runs before `start` (`EarlyInv`); from `web` on the evaluation
  loop has ended (`DrainedInv`), from `goodbye` on the web server has closed
  (`ClosedInv`); a task awaits a driver only in the phases that call one
  (`IdleInv`), and what `publish_states` has still to read is of connected devices
  (`TodoInv`). That `_dp_lookup` holds points needs that a finite set of positions
  has a last one (`LastExists`).
* `AvailabilityImplemented`: `Spec => ImplementsAvailability`, step by step. The
  mapping needs `ReachInv`: the broker counts as reached exactly while the client
  is connected, until `disconnect`; after it the topic says offline.

`PvForecast_proofs`, for every interval, time to live, set of places and gaps, and
every fault: `TypeCorrect`, `NeverBlank` (`Spec => []ForecastNeverBlanks`) and
`LocationRecent` (`Spec => []LocationIsRecent`) from `PvInv`, which follows the job
under way: a cached location was the home's when it was read (`LocationInv`), and
one used for a request is no older than its time to live (`FetchInv`).
`DaylightPlanned`: `Days >= 2 /\ LateSunrise => (Spec => []DaylightIsPlanned)`.
`AlarmInv` says that since the alarm of the loop was set there was trouble or a
forecast was stored when it was set, `DaysInv` which hours a forecast has; the rest
is arithmetic of days (`Remainder`, `MidnightBefore`, `DaylightInDays`).
`Days >= 2` is what the code asks for. `LateSunrise` is a real reservation: with
`PV_FORECAST_INTERVAL_SECONDS` of six hours it fails in midsummer.

`MqttEntities_proofs`: `StatesAreRecent` (`Spec => []ShownIsRecent`), for all points,
descriptions and faults. Its invariant keeps, for every point, that its present
value is among those since it was read (`ValueInv`), that what is about to be
published is (`JobInv`), and that what this cycle has published so far fits
(`FreshInv`), which becomes `RecentInv` when the cycle ends.

`TypeCorrect`, `AskedIsWrittenCorrect` (`Spec => []AskedIsWritten`) and
`WrittenIsDeclaredCorrect` (`Spec => []WrittenIsDeclared`) come from `EntityInv`, which
adds to it what is retained and on its way: an entity announced in this session is that
of the description (`TopicsInv`), a message in the inbox or being converted is one a user
can make with the entity shown (`InboxInv`, `CmdInv`). Both properties are stated for
whole steps and limits, where truncation to an integer loses nothing (`WholeSteps`,
`WholeLimits`); without that `FractionsAreWritten` in section 5 refutes them.

Only model-checked are the two liveness properties, `EvaluationEnds` and
`ShutdownCompletes`, which are out of the prover's reach, and the claims of section 5,
which the runs refute. Every invariant of a passing run is also the subject of a theorem.

## 5. What the checks show

The bookkeeping of the engine is right in normal operation: intervals hold across
retries and restarts, the ledger is exact to the minute, a lock exceeds the cap by
less than min_interval plus the evaluation interval, discharges are bounded by
day, the solvers meet must_run_hours, the DSL has the documented precedence. The
watchdog of a charger is armed in the right order through kills and corrections,
a forecast survives every failure of its update, the limits of a configuration
file reach the devices, and what a user enters in Home Assistant is what is
written.

A finding with a run of its own, `hour`: slot 0 of a schedule is the hour it was
computed in, but `current_hour_power` (`optimizer.py:129`) indexes it with the
hour of the day.

The modules also state these claims of docs and comments. Each is refuted by TLC
when it is put into the named configuration with the named change:

| Claim | Configuration and change | What happens |
|---|---|---|
| `LockTimeCapped` (`rules_engine.py:227-229`) | `RulesEngine_lock.cfg` | hysteresis refuses the release after the cap |
| `LockIsReleased` (`CHANGELOG.md:90-91`) | `RulesEngine_pump.cfg`, `Faults = {}` | a rule that matches nothing leaves the pump locked |
| `WritesAreSpaced` with two evaluators (`docs/configuration.md:329`) | `RulesEngine_web.cfg`, `Commands = {}`, `Faults = {"slow"}` | `POST /api/evaluate` during a background evaluation writes another value without any interval (`rules_engine.py:258`) |
| `DischargesAreStopped` (`docs/configuration.md:354`) | `RulesEngine_v2h.cfg`, `Rules <- DischargeRules`, `Faults = {}`, `MaxTime = 5` | a refused value only skips the rule (`rules_engine.py:247`): the discharge goes on |
| `WritesAreSpaced` with a stop (`CHANGELOG.md:118-121`) | `RulesEngine_pump.cfg`, `"stop"` for `"restart"` | a write of a cancelled evaluation is forgotten |
| `DischargesAreGranted` (`rules_engine.py:10`) | `RulesEngine_v2h.cfg` | another car's availability counts |
| `CyclesBounded` with restarts (`docs/configuration.md:369`) | `RulesEngine_v2h.cfg`, `Faults = {"restart"}` | the counter is in RAM only |
| `OngoingDischargeIsAllowed` (`CHANGELOG.md:72-74`) | `RulesEngine_v2h.cfg`, `Rules <- TrimRules`, `Vehicles <- OneCycle` | a counted discharge may not change its current |
| `NoCallAfterDisconnect` (`sgr_service.py:106`) | `Lifecycle.cfg` | the command loop outlives the devices |
| `CommandsAreServed` (`README.md:154`) | `Lifecycle.cfg` | nothing restarts the command loop |
| `EveryPointIsExposed` (`README.md:35`) | `Lifecycle.cfg` with `Devices = {"pump"}`, `MeterPoints`, `OneMeter`, `OneSlug` | points of one name share a topic |
| `WindowIsRespected` (`docs/configuration.md:494-495`) | `Optimizer.cfg` | the second pass leaves the window |
| `NoNeedNoRun` (`docs/configuration.md:434`) | `Optimizer.cfg`, `DeviceList <- FreeLoad`, `Scipy = FALSE` | `must_run_hours: 0` reads as 24 |
| `PccIsRespected` (`docs/scope-and-gaps.md:156-158`) | `Optimizer.cfg` | the greedy fallback knows no limit |
| `AlwaysBoots` (`CHANGELOG.md:115`) | `DeviceService.cfg` | a torn file is used, being young |
| `OfflineOnceCached` (`docs/configuration.md:156-157`) | `DeviceService.cfg`, as a PROPERTY | an old file is fetched again |
| `DoneMeansArmed` (`sgr_service.py:250-251`) | `DeviceService.cfg` | both writes are best effort and nothing reports them |
| `ChargerFollows` (`sgr_service.py:443-445`) | `DeviceService.cfg` | a satisfied engine is silent to the charger, which falls back and is believed to have its current |
| `OneProfile` (the two points belong together) | `DeviceService.cfg` | each point goes to the first profile that takes it |
| `ZeroIsALimit` (`config_loader.py:613`) | `VirtualDevices.cfg`, `Files <- ZeroMaximum` | a maximum of 0 reads as the default 100 |
| `MaximumHolds` (`config_loader.py:608-611`) | `VirtualDevices.cfg`, `Files <- LowMaximum` | a maximum below the default of the minimum yields to it |
| `DeviceIsThere` (`tests/test_config_loader.py:46`) | `VirtualDevices.cfg` | a malformed number in another section ends the start |
| `AllTargetsFollow` (`virtual_devices.py:9`) | `VirtualDevices.cfg` | one answer of two counts as applied |
| `BaseIsLive` (`docs/configuration.md:206`) | `VirtualDevices.cfg` | a moving base is not followed while the literal stays |
| `DefaultIsFallback` (`docs/configuration.md:323`) | `RuleConditions.cfg`, `Rules <- DefaultFirst` | a default hides what follows |
| `UnknownIsFalse` (`docs/rules-dsl.md:23-31`) | `RuleConditions.cfg`, `Rules <- Unmapped` | an unknown name compares as 0 |
| `IdlesWithoutHa`, `PausedWhenOff` (`README.md:161`, `README.md:472`) | `RuleConditions.cfg`, `Rules <- CheapOnly` | without an answer sensors are 0 and the toggle is not seen |
| `TemplateKeepsValue` (`docs/rules-dsl.md:235-236`) | `RuleConditions.cfg` | a number from a template is cut to an integer |
| `AliasesAreFirst` (`rules_engine.py:918`) | `RuleConditions.cfg`, `Vehicles <- OneSlug` | cars of one slug share their keys, the last one has them |
| `ThisHourCounts` (`docs/rules-dsl.md:152`) | `RuleConditions.cfg` | the price of an hour that has begun is not one of the next three |
| `DaylightIsPlanned` with an early sun (`docs/configuration.md:424`) | `PvForecast.cfg`, `Daylight <- EarlySun` | an update late in the evening knows two days from the day that ends: until the next one, the early hours of the following day read 0 W |
| `AnsweredTargetsFollow` with late calls (`rules_engine.py:249`) | `VirtualDevices.cfg`, `Evaluators = {"loop"}` | a call that timed out is carried out after a later value was answered: the engine believes the later value and skips the write that would repair it |
| `AnsweredTargetsFollow` with two evaluators (`rules_engine.py:249`) | `VirtualDevices.cfg`, `Faults = {}` | the call carried out last may be answered first, with the same effect |
| `BeliefMatchesDevice` with lost answers (`rules_engine.py:249`) | `RulesEngine_pump.cfg`, `Faults = {"unacked"}` | a write that lands and is taken for failed changes the device past the belief |
| `TomorrowIsTomorrow` (`docs/configuration.md:43`) | `PvForecast.cfg` | after midnight the sum of tomorrow is that of today until the next update |
| `TomorrowIsWhole` (`docs/configuration.md:43`) | `PvForecast.cfg` | a request across midnight has no hour of tomorrow |
| `ServedForEightHours` (`pv_forecast.py:48`) | `PvForecast.cfg` | `CACHE_TTL_HOURS` is never used, a forecast is served for ever and not flagged |
| `AllAreRecent` (`mqtt_discovery.py:15`) | `MqttEntities.cfg` | a point that cannot be read keeps its retained state under an availability of the whole add-on |
| `OnlyWritableIsWritten`, `EntitiesAreDeclared` (`mqtt_discovery.py:5`) | `MqttEntities.cfg`, also with `Faults = {}` | the retained entity of an earlier description still commands the point |
| `FractionsAreWritten` (`mqtt_discovery.py:176`) | `MqttEntities.cfg`, `Declares <- Halves` | half steps of an integer are truncated |

## 6. Abstractions

* Time is in whole minutes (hours, days). A stretch without await takes no time,
  nor does a write unless `slow` is among the faults; the clock never goes back.
* A rule yields any of the values its `targets` allow in that minute; an
  abstract vehicle is able to discharge or not.
* The number of attempts of a write is `Attempts` for each failure; a device that
  is not connected fails at once in the code and costs the model attempts that
  change nothing.
* The audit log, decision records, log messages and the content of topics, pages
  and XML are left out. The MQTT client is external: it raises when the
  connection drops and does not reconnect.
* `Optimizer` fixes the battery to none and the base load to zero, and takes a
  MILP solution to be any feasible plan; it uses the forecast attribute or the
  fallback price, not the single current price repeated for every hour
  (`rules_engine.py:384-387`). Costs are scaled to integers; planned powers are not
  rounded to whole watts (`optimizer.py:369`), so a shortfall of less than a watt for each
  hour is not seen.
* `RuleConditions` covers expressions of the documented grammar and values with at
  most one template. In `Context` numbers count tenths, an entity is named by the
  sensor it is mapped to, and `v2h` holds numbers.
* `EidCache` leaves out EIDs given as a path; resolving takes less than a day.
* `DeviceService` has one device; the time without writes after which the charger
  falls back is left open, which covers every timeout.
* `ConfigLoader` takes a YAML scalar as an integer, null, a boolean or one of two
  texts; a mapping is a function from the keys it has. A scalar may stand where a list or
  a mapping belongs, a list in the place of a mapping and the reverse may not; `properties`
  of a device and `smooth_transition` of a rule are copied and not modelled.
* `VirtualDevices` has settings in whole units: the rounding of a climate setting to a
  tenth (`virtual_devices.py:111`) is the identity there.
* `PvForecast`: the clock is in hours, the add-on and Open-Meteo have one time
  zone, an update is over within the next hour, and the arrays are fixed and
  enabled. An estimate is the hour it is for, a sum its hours.
* `MqttEntities` has one command at a time and a broker that is there (`Lifecycle`
  has its loss); the spellings of a true payload (`TRUE`, `1`, `YES`) are one value.
  Home Assistant limits a number without bounds to 1 and 100.

### Not modelled

* The solar geometry and the irradiance of a tilted plane (`pv_forecast.py:56-135`):
  trigonometry on reals.
* The objective of the MILP: any feasible plan is allowed instead.
* The pages and read-only endpoints of the web UI, the audit log, and the text of
  messages, topics and pages: rendering.
* `options.py` and the sensor map of the configuration: fields copied by name.
* The SmartGridready library, device drivers, scipy, aiomqtt, uvicorn, Home
  Assistant and Open-Meteo: external, modelled by how the code uses them.

## 7. Plan

Done, in this order: `RulesEngine` and `SgLock` with their proofs, `Lifecycle`,
`Optimizer`, `EidCache` with its proofs, `VirtualDevices`, `RuleConditions`; then
`PvForecast`, `Context`, `DeviceService`, `ConfigLoader` and `MqttEntities`, and the
proofs about `Lifecycle`, `PvForecast`, `MqttEntities` and `StillBoots`; then the proofs
of the remaining safety properties of `RulesEngine`, `MqttEntities`, `DeviceService`,
`VirtualDevices` and `Optimizer`; last those of `RuleConditions`.

Left: a composition of `Lifecycle` with `RulesEngine`'s persistence, for what a shutdown
in the middle of an evaluation loses.
