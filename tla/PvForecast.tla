----------------------------- MODULE PvForecast -----------------------------
(***************************************************************************)
(* PvForecastService of pv_forecast.py under pv_forecast_loop of main.py:  *)
(* where the home is, what Open-Meteo says of the next days, the file that *)
(* keeps it, and what the rules and the optimizer read from that file over *)
(* nights, outages, a full disk, stops and kills.                          *)
(*                                                                         *)
(* Hours are counted from a midnight; a production estimate is abstracted  *)
(* to the hour it is for and a sum to the set of its hours.  The clock of  *)
(* the add-on and of Open-Meteo's answer are in one time zone.             *)
(***************************************************************************)
EXTENDS Integers, FiniteSets

CONSTANTS
  None,
  Day,            \* hours of a day
  Days,           \* forecast_days
  Ahead,          \* the hours of next_4h_kwh
  Interval,       \* PV_FORECAST_INTERVAL_SECONDS
  Horizon,        \* the hours get_hourly_forecast_w is asked for
  LocationTtl,    \* LOCATION_CACHE_TTL_DAYS
  OptionsPlace,   \* latitude and longitude of the add-on options, or None
  Places,         \* locations Home Assistant may have
  Gaps,           \* hours of a forecast Open-Meteo leaves empty
  Daylight,       \* hours of the day with any sun
  MaxHour,        \* bound of the clock
  Faults          \* which faults the environment may show, see FaultKinds

FaultKinds ==
  {"ha",     \* Home Assistant does not answer, or knows no location
   "meteo",  \* Open-Meteo does not answer, or with an unexpected shape
   "disk",   \* a file cannot be written
   "kill"}   \* the process dies anywhere

(* What update() computes, and what it has before Open-Meteo answers.      *)
Forecast == [at : Nat, place : Places, slots : SUBSET Nat, today : SUBSET Nat,
             tomorrow : SUBSET Nat, next : SUBSET Nat, gap : SUBSET Nat]
Job == [since : Nat, asked : Nat, place : Places \cup {None}]

ASSUME PvForecastAssumption ==
  /\ {Day, Days, Ahead, Interval, Horizon} \subseteq Nat \ {0} /\ Horizon <= Day
  /\ LocationTtl \in Nat /\ MaxHour \in Nat
  /\ None \notin Places \cup Nat /\ OptionsPlace \in Places \cup {None}
  /\ None \notin Forecast \cup [today : SUBSET Nat, tomorrow : SUBSET Nat, next : SUBSET Nat]
  /\ Gaps \subseteq SUBSET (0..(Day * Days - 1))
  /\ Daylight \subseteq 0..(Day - 1) /\ Faults \subseteq FaultKinds

VARIABLES
  now, home,            \* the clock, the location Home Assistant has
  phase, due, job,      \* pv_forecast_loop: where it is, its alarm, its update()
  forecast, location,   \* pv_forecast.json, ha_location.json
  left,                 \* history: place -> when Home Assistant last left it
  fetched,              \* history: a forecast was stored
  trouble               \* history: the last hour something failed or was down

vars == <<now, home, phase, due, job, forecast, location, left, fetched, trouble>>
files == <<forecast, location>>

Midnight(h) == h - (h % Day)
HoursFrom(h, n) == h..(h + n - 1)

-----------------------------------------------------------------------------
(* The loop: 30 s after the start, then Interval after the last update.    *)

SleepOn == phase' = "sleep" /\ due' = now + Interval /\ UNCHANGED job  \* mutant
Sleep == phase' = "sleep" /\ due' = now + Interval /\ job' = None
Failed == Sleep /\ trouble' = now

Locate(place, since) ==
  phase' = "fetch" /\ job' = [since |-> since, asked |-> now, place |-> place]

Wake ==
  /\ phase = "sleep" /\ now >= due
  /\ IF OptionsPlace # None
     THEN Locate(OptionsPlace, now)
     ELSE phase' = "ask" /\ job' = [since |-> now, asked |-> now, place |-> None]
  /\ UNCHANGED <<now, home, due, files, left, fetched, trouble>>

(* _resolve_location: Home Assistant's answer is cached ...                *)
HaAnswers ==
  /\ phase = "ask" /\ Locate(home, job.since)
  /\ \/ location' = [place |-> home, at |-> now] /\ UNCHANGED trouble
     \/ "disk" \in Faults /\ UNCHANGED location /\ trouble' = now
  /\ UNCHANGED <<now, home, due, forecast, left, fetched>>

(* ... and the cache, while it is young, stands in for an answer.          *)
FreshAlways == location # None                        \* mutant: no time to live
FreshLocation == location # None /\ now - location.at <= LocationTtl

HaFails ==
  /\ phase = "ask" /\ "ha" \in Faults
  /\ IF FreshLocation THEN Locate(location.place, job.since) /\ UNCHANGED due ELSE Sleep
  /\ trouble' = now
  /\ UNCHANGED <<now, home, files, left, fetched>>

(* update(): the answer has whole days, from midnight when Open-Meteo gave *)
(* it; the sums are those of the day and the hour it is processed in.      *)
Answer(from, gap) == HoursFrom(from, Days * Day) \ {from + g : g \in gap}

Payload(slots, gap) ==
  [at |-> now, place |-> job.place, slots |-> slots,
   today |-> slots \cap HoursFrom(Midnight(now), Day),
   tomorrow |-> slots \cap HoursFrom(Midnight(now) + Day, Day),
   next |-> slots \cap HoursFrom(now + 1, Ahead),
   gap |-> gap]

MeteoAnswers ==
  /\ phase = "fetch"
  /\ \E given \in job.asked..now, gap \in Gaps :
       job' = Payload(Answer(Midnight(given), gap), {Midnight(given) + g : g \in gap})
  /\ phase' = "write"
  /\ UNCHANGED <<now, home, due, files, left, fetched, trouble>>

MeteoFails ==
  /\ phase = "fetch" /\ "meteo" \in Faults /\ Failed
  /\ UNCHANGED <<now, home, files, left, fetched>>

(* The payload goes to a temporary file, which then replaces the cache.    *)
WriteInPlace ==                     \* mutant: no temporary file
  /\ phase = "write" /\ phase' = "replace" /\ forecast' = None
  /\ UNCHANGED <<now, home, due, job, location, left, fetched, trouble>>
WriteTmp ==
  /\ phase = "write" /\ phase' = "replace"
  /\ UNCHANGED <<now, home, due, job, files, left, fetched, trouble>>

WriteFails ==
  /\ phase = "write" /\ "disk" \in Faults /\ Failed
  /\ UNCHANGED <<now, home, files, left, fetched>>

Replace ==
  /\ phase = "replace" /\ forecast' = job /\ fetched' = TRUE /\ Sleep
  /\ UNCHANGED <<now, home, location, left, trouble>>

-----------------------------------------------------------------------------
(* Start, shutdown (which interrupts the loop where it awaits), death.     *)
Boot ==
  /\ phase = "down" /\ phase' = "sleep" /\ due' = now /\ job' = None
  /\ UNCHANGED <<now, home, files, left, fetched, trouble>>

Down ==
  /\ \/ phase \in {"sleep", "ask", "fetch"}
     \/ "kill" \in Faults /\ phase \in {"write", "replace"}
  /\ phase' = "down" /\ job' = None /\ due' = now /\ trouble' = now
  /\ UNCHANGED <<now, home, files, left, fetched>>

HomeMoves ==
  /\ \E p \in Places \ {home} : home' = p
  /\ left' = [left EXCEPT ![home] = now]
  /\ UNCHANGED <<now, phase, due, job, files, fetched, trouble>>

(* The loop wakes on time; an update is over within the next hour and      *)
(* awaits nothing after the answer.                                        *)
Tick ==
  /\ now < MaxHour
  /\ \/ phase = "down"
     \/ phase = "sleep" /\ now < due
     \/ phase \in {"ask", "fetch"} /\ now = job.since
  /\ now' = now + 1
  /\ trouble' = IF phase = "down" THEN now + 1 ELSE trouble
  /\ UNCHANGED <<home, phase, due, job, files, left, fetched>>

Init ==
  /\ now = 0 /\ home \in Places /\ phase = "down" /\ due = 0 /\ job = None
  /\ forecast = None /\ location = None
  /\ left = [p \in Places |-> None] /\ fetched = FALSE /\ trouble = 0

Next ==
  \/ Wake \/ HaAnswers \/ HaFails \/ MeteoAnswers \/ MeteoFails
  \/ WriteTmp \/ WriteFails \/ Replace
  \/ Boot \/ Down \/ HomeMoves \/ Tick

Spec == Init /\ [][Next]_vars

-----------------------------------------------------------------------------
(* What is read: get_summary, None without a file, and for each coming     *)
(* hour the slot get_hourly_forecast_w takes; None counts as 0 W.          *)
Summary ==
  IF forecast = None THEN None
  ELSE [today |-> forecast.today, tomorrow |-> forecast.tomorrow, next |-> forecast.next]

HourlyByIndex ==                    \* mutant: the slots in the order of the file
  [h \in 0..(Horizon - 1) |->
     IF forecast = None \/ Midnight(forecast.at) + h \notin forecast.slots
     THEN None ELSE Midnight(forecast.at) + h]
Hourly ==
  [h \in 0..(Horizon - 1) |->
     IF forecast = None \/ now + h \notin forecast.slots THEN None ELSE now + h]

-----------------------------------------------------------------------------
(* Properties.                                                             *)

(* Types.                                                                  *)
TypeOK ==
  /\ now \in 0..MaxHour /\ due \in Nat /\ home \in Places
  /\ phase \in {"down", "sleep", "ask", "fetch", "write", "replace"}
  /\ phase \in {"down", "sleep"} => job = None
  /\ phase \in {"ask", "fetch"} => job \in Job
  /\ phase = "fetch" => job.place # None
  /\ phase \in {"write", "replace"} => job \in Forecast
  /\ forecast \in Forecast \cup {None}
  /\ location \in [place : Places, at : Nat] \cup {None}
  /\ left \in [Places -> Nat \cup {None}] /\ fetched \in BOOLEAN /\ trouble \in 0..MaxHour

(* "A restart or a transient network failure does not blank the forecast": *)
(* once one was stored there is always one to read, wherever an update was *)
(* killed or failed since.                                                 *)
ForecastNeverBlanks == fetched => Summary # None

(* The sun rises later than the first update after midnight.               *)
LateSunrise == Daylight \subseteq (Interval + 1)..(Day - 1)

(* While nothing fails, the interval of the loop and the days asked for    *)
(* cover the optimizer's horizon, when the sun rises late enough: every    *)
(* coming hour with sun has the estimate for that very hour, unless        *)
(* Open-Meteo had none.                                                    *)
DaylightIsPlanned ==
  now - trouble > Interval + 1 =>
    \A h \in 0..(Horizon - 1) :
      (now + h) % Day \in Daylight =>
        \/ Hourly[h] = now + h
        \/ forecast # None /\ now + h \in forecast.gap

(* The place a forecast is for is the home's, or one Home Assistant had    *)
(* given up no longer than the time to live before the update.             *)
LocationIsRecent ==
  OptionsPlace = None =>
    \A f \in {forecast, IF phase \in {"write", "replace"} THEN job ELSE None} \ {None} :
      f.place = home \/ (left[f.place] # None /\ f.at - left[f.place] <= LocationTtl + 1)

(* The claim of configuration.md: pv_forecast_kwh is the production        *)
(* expected tomorrow, so no hour of today or before is part of it ...      *)
TomorrowIsTomorrow ==
  Summary # None => Summary.tomorrow \subseteq HoursFrom(Midnight(now) + Day, Day)

(* ... and all hours of tomorrow are, in a forecast of today.              *)
TomorrowIsWhole ==
  Summary # None /\ Midnight(forecast.at) = Midnight(now) =>
    HoursFrom(Midnight(now) + Day, Day) \subseteq Summary.tomorrow \cup forecast.gap

(* The claim of pv_forecast.py: the file serves for up to CACHE_TTL_HOURS. *)
ServedForCacheTtl(ttl) == Summary # None => now - forecast.at <= ttl
=============================================================================
