------------------------- MODULE PvForecast_proofs --------------------------
(* Theorems about PvForecast, for every interval, time to live, set of     *)
(* places and of gaps, and every fault.                                    *)
EXTENDS PvForecast, TLAPS

(* An update takes less than an hour, and what is stored is of the past.   *)
TimeInv ==
  /\ phase \in {"ask", "fetch"} =>
       job.since <= job.asked /\ job.asked <= now /\ now <= job.since + 1
  /\ forecast # None => forecast.at <= now
  /\ phase \in {"write", "replace"} => job.at <= now

(* Once a forecast was stored there is one.                                *)
StoredInv == fetched => forecast # None

(* The home is there, or was left no more than `slack' before `at'.        *)
Recent(place, at, slack) ==
  place = home \/ (left[place] # None /\ at - left[place] <= slack)

(* The cached location was that of the home when it was read; one that is  *)
(* used for an update was no longer than its time to live before.          *)
LocationInv ==
  location # None => location.at <= now /\ Recent(location.place, location.at, 0)
FetchInv ==
  OptionsPlace = None /\ phase = "fetch" => Recent(job.place, job.asked, LocationTtl)

PvInv == TypeOK /\ TimeInv /\ StoredInv /\ LocationInv /\ FetchInv /\ LocationIsRecent

(* Nothing is stored at first.                                             *)
LEMMA InitPv == Init => PvInv
<1> SUFFICES ASSUME Init PROVE PvInv
  OBVIOUS
<1>1. TypeOK
  <2>1. fetched \in BOOLEAN
    BY Zenon DEF Init
  <2>2. QED
    BY <2>1, PvForecastAssumption DEF Init, TypeOK
<1>2. TimeInv /\ StoredInv /\ LocationInv /\ FetchInv /\ LocationIsRecent
  BY DEF Init, TimeInv, StoredInv, LocationInv, FetchInv, LocationIsRecent
<1>3. QED
  BY <1>1, <1>2 DEF PvInv

(* What is computed from an answer has the type of a forecast.             *)
LEMMA PayloadType ==
  ASSUME TypeOK, job \in Job, job.place # None, NEW given \in job.asked..now, NEW gap \in Gaps
  PROVE  /\ Payload(Answer(Midnight(given), gap), {Midnight(given) + g : g \in gap}) \in Forecast
         /\ Payload(Answer(Midnight(given), gap), {Midnight(given) + g : g \in gap}).at = now
         /\ Payload(Answer(Midnight(given), gap), {Midnight(given) + g : g \in gap}).place = job.place
<1> DEFINE from == Midnight(given)
           slots == Answer(from, gap)
           missing == {from + g : g \in gap}
<1>1. now \in Nat /\ given \in Nat /\ Day \in Nat \ {0} /\ Days \in Nat /\ job.place \in Places
  BY PvForecastAssumption DEF TypeOK, Job
<1>2. from \in Nat
  BY <1>1 DEF Midnight
<1>3. Day * Days \in Nat /\ gap \subseteq Nat
  BY <1>1, PvForecastAssumption
<1>4. missing \in SUBSET Nat
  BY <1>2, <1>3
<1>5. slots \in SUBSET Nat
  BY <1>1, <1>2 DEF Answer, HoursFrom
<1> HIDE DEF slots, missing
<1>6. QED
  BY <1>1, <1>4, <1>5 DEF Payload, Forecast, slots, missing

(* Every step keeps the invariant.                                         *)
LEMMA StepPv == PvInv /\ [Next]_vars => PvInv'
<1> SUFFICES ASSUME PvInv, [Next]_vars PROVE PvInv'
  OBVIOUS
<1> USE PvForecastAssumption
    DEF PvInv, TimeInv, StoredInv, LocationInv, FetchInv, LocationIsRecent, Recent,
        Job, files
<1>1. CASE Wake
  BY <1>1 DEF Wake, Locate, TypeOK
<1>2. CASE HaAnswers
  BY <1>2 DEF HaAnswers, Locate, TypeOK
<1>3. CASE HaFails
  BY <1>3 DEF HaFails, FreshLocation, Locate, Sleep, TypeOK
<1>4. CASE MeteoAnswers
  <2>1. job \in Job /\ job.place # None /\ job.place \in Places
    BY <1>4 DEF MeteoAnswers, TypeOK
  <2>2. job' \in Forecast /\ job'.at = now /\ job'.place = job.place
    BY <1>4, <2>1, PayloadType DEF MeteoAnswers
  <2>3. phase = "fetch" /\ phase' = "write"
        /\ UNCHANGED <<now, home, due, files, left, fetched, trouble>>
    BY <1>4 DEF MeteoAnswers
  <2>4. QED
    BY <2>1, <2>2, <2>3 DEF TypeOK
<1>5. CASE MeteoFails
  BY <1>5 DEF MeteoFails, Failed, Sleep, TypeOK
<1>6. CASE WriteTmp
  BY <1>6 DEF WriteTmp, TypeOK
<1>7. CASE WriteFails
  BY <1>7 DEF WriteFails, Failed, Sleep, TypeOK
<1>8. CASE Replace
  BY <1>8 DEF Replace, Sleep, TypeOK
<1>9. CASE Boot
  BY <1>9 DEF Boot, TypeOK
<1>10. CASE Down
  BY <1>10 DEF Down, TypeOK
<1>11. CASE HomeMoves
  BY <1>11 DEF HomeMoves, TypeOK, Forecast
<1>12. CASE Tick
  BY <1>12 DEF Tick, TypeOK, Forecast
<1>13. CASE UNCHANGED vars
  BY <1>13 DEF vars, TypeOK
<1>14. QED
  BY <1>1, <1>2, <1>3, <1>4, <1>5, <1>6, <1>7, <1>8, <1>9, <1>10, <1>11, <1>12, <1>13
     DEF Next

(* Types, for every configuration.                                         *)
THEOREM TypeCorrect == Spec => []TypeOK
<1>1. PvInv => TypeOK
  BY DEF PvInv
<1>2. QED
  BY <1>1, InitPv, StepPv, PTL DEF Spec

(* Whatever fails and wherever the process is killed, a stored forecast is *)
(* followed by another or stays.                                           *)
THEOREM NeverBlank == Spec => []ForecastNeverBlanks
<1>1. PvInv => ForecastNeverBlanks
  <2> SUFFICES ASSUME PvInv, forecast # None PROVE Summary # None
    BY DEF PvInv, StoredInv, ForecastNeverBlanks
  <2>1. forecast \in Forecast
    BY DEF PvInv, TypeOK
  <2>2. Summary \in [today : SUBSET Nat, tomorrow : SUBSET Nat, next : SUBSET Nat]
    BY <2>1 DEF Summary, Forecast
  <2>3. QED
    BY <2>2, PvForecastAssumption
<1>2. QED
  BY <1>1, InitPv, StepPv, PTL DEF Spec

(* A forecast is for the home, or for a place that Home Assistant had left *)
(* no longer than the time to live before.                                 *)
THEOREM LocationRecent == Spec => []LocationIsRecent
<1>1. PvInv => LocationIsRecent
  BY DEF PvInv
<1>2. QED
  BY <1>1, InitPv, StepPv, PTL DEF Spec

-----------------------------------------------------------------------------
(* The hours of the optimizer.                                             *)

(* A loop that is up is at most an hour behind its alarm; since the alarm  *)
(* was set there was trouble, or a forecast was stored when it was set.    *)
AlarmInv ==
  /\ trouble <= now
  /\ phase = "down" => trouble = now
  /\ phase = "sleep" => now <= due
  /\ phase \in {"ask", "fetch"} => job.since = due
  /\ phase \in {"write", "replace"} => job.at = now
  /\ phase # "down" =>
       /\ now <= due + 1
       /\ \/ trouble >= due - Interval
          \/ forecast # None /\ forecast.at >= due - Interval

(* A forecast has the whole days from that in which Open-Meteo was asked,  *)
(* at most an hour before, but for the hours Open-Meteo had nothing for.   *)
Whole(f) ==
  \E given \in Nat :
    /\ given <= f.at /\ f.at <= given + 1
    /\ f.slots = HoursFrom(Midnight(given), Days * Day) \ f.gap
DaysInv ==
  /\ forecast # None => Whole(forecast)
  /\ phase \in {"write", "replace"} => Whole(job)

HoursInv == AlarmInv /\ DaysInv

(* The remainder of r hours after a midnight is r.                         *)
LEMMA Remainder ==
  ASSUME NEW d \in Nat \ {0}, NEW q \in Nat, NEW r \in 0..(d - 1)
  PROVE  (q * d + r) % d = r
<1> DEFINE n == q * d + r
           m == n \div d
<1>1. q * d \in Nat /\ n \in Nat
  OBVIOUS
<1>2. n = d * m + (n % d) /\ n % d \in 0..(d - 1) /\ m \in Int
  BY <1>1
<1>3. d * (m - q) = r - (n % d)
  BY <1>2
<1>4. ~(m - q >= 1) /\ ~(m - q <= -1)
  <2>1. m - q >= 1 => d * (m - q) >= d
    BY <1>2
  <2>2. m - q <= -1 => d * (m - q) <= -d
    BY <1>2
  <2>3. QED
    BY <1>2, <1>3, <2>1, <2>2
<1>5. m - q = 0
  BY <1>2, <1>4
<1>6. QED
  BY <1>2, <1>3, <1>5

(* Midnights are multiples of the day, at most a day ago.                  *)
LEMMA MidnightBefore ==
  ASSUME NEW h \in Nat
  PROVE  \E q \in Nat : Midnight(h) = q * Day /\ q * Day <= h /\ h <= q * Day + Day - 1
<1>1. Day \in Nat \ {0}
  BY PvForecastAssumption
<1>2. /\ h = Day * (h \div Day) + (h % Day) /\ h % Day \in 0..(Day - 1)
      /\ h \div Day \in Nat
  BY <1>1
<1>3. Midnight(h) = (h \div Day) * Day
  BY <1>1, <1>2 DEF Midnight
<1>4. (h \div Day) * Day = Day * (h \div Day)
  BY <1>1, <1>2
<1>5. (h \div Day) * Day <= h /\ h <= (h \div Day) * Day + Day - 1
  BY <1>1, <1>2, <1>4
<1>6. ASSUME NEW q \in Nat, q = h \div Day
      PROVE  Midnight(h) = q * Day /\ q * Day <= h /\ h <= q * Day + Day - 1
  BY <1>3, <1>5, <1>6
<1>7. QED
  BY <1>2, <1>6

(* A forecast of an hour is about the days it says.                        *)
LEMMA PayloadWhole ==
  ASSUME TypeOK, job \in Job, job.asked <= now, now <= job.asked + 1,
         NEW given \in job.asked..now, NEW gap \in Gaps
  PROVE  Whole(Payload(Answer(Midnight(given), gap), {Midnight(given) + g : g \in gap}))
<1>1. given \in Nat /\ now \in Nat
  BY DEF TypeOK, Job
<1>2. given <= now /\ now <= given + 1
  BY <1>1 DEF TypeOK, Job
<1>3. QED
  BY <1>1, <1>2 DEF Whole, Payload, Answer

(* The process is down at first.                                           *)
LEMMA InitHours == Init => HoursInv
  BY DEF Init, HoursInv, AlarmInv, DaysInv

(* Every step keeps the alarm and the days of a forecast.                  *)
LEMMA StepHours == PvInv /\ HoursInv /\ [Next]_vars => HoursInv'
<1> SUFFICES ASSUME PvInv, HoursInv, [Next]_vars PROVE HoursInv'
  OBVIOUS
<1> USE PvForecastAssumption
    DEF PvInv, HoursInv, AlarmInv, DaysInv, TypeOK, TimeInv, files
<1>1. CASE Wake
  BY <1>1 DEF Wake, Locate
<1>2. CASE HaAnswers
  BY <1>2 DEF HaAnswers, Locate, Job
<1>3. CASE HaFails
  BY <1>3 DEF HaFails, Locate, Sleep, Job
<1>4. CASE MeteoAnswers
  <2>1. job \in Job /\ job.asked <= now /\ now <= job.since + 1
        /\ job.since <= job.asked /\ job.since = due
    BY <1>4 DEF MeteoAnswers
  <2>2. now <= job.asked + 1
    BY <2>1 DEF Job
  <2>3. Whole(job') /\ job'.at = now
    BY <1>4, <2>1, <2>2, PayloadWhole, PayloadType DEF MeteoAnswers
  <2>4. phase = "fetch" /\ phase' = "write"
        /\ UNCHANGED <<now, home, due, files, left, fetched, trouble>>
    BY <1>4 DEF MeteoAnswers
  <2>5. QED
    BY <2>1, <2>3, <2>4
<1>5. CASE MeteoFails
  BY <1>5 DEF MeteoFails, Failed, Sleep
<1>6. CASE WriteTmp
  BY <1>6 DEF WriteTmp
<1>7. CASE WriteFails
  BY <1>7 DEF WriteFails, Failed, Sleep
<1>8. CASE Replace
  BY <1>8 DEF Replace, Sleep
<1>9. CASE Boot
  BY <1>9 DEF Boot
<1>10. CASE Down
  BY <1>10 DEF Down
<1>11. CASE HomeMoves
  BY <1>11 DEF HomeMoves
<1>12. CASE Tick
  BY <1>12 DEF Tick
<1>13. CASE UNCHANGED vars
  BY <1>13 DEF vars
<1>14. QED
  BY <1>1, <1>2, <1>3, <1>4, <1>5, <1>6, <1>7, <1>8, <1>9, <1>10, <1>11, <1>12, <1>13
     DEF Next

(* Two days from a midnight, asked for at most Interval + 2 hours ago,     *)
(* have the daylight of every hour of a horizon of a day.                  *)
LEMMA DaylightInDays ==
  ASSUME Days >= 2, LateSunrise, NEW given \in Nat, NEW n \in Nat, NEW h \in 0..(Horizon - 1),
         given <= n, n <= given + Interval + 2, (n + h) % Day \in Daylight
  PROVE  n + h \in HoursFrom(Midnight(given), Days * Day)
<1>1. /\ Day \in Nat \ {0} /\ Interval \in Nat \ {0} /\ Horizon \in Nat /\ Horizon <= Day
      /\ Days \in Nat /\ Daylight \subseteq (Interval + 1)..(Day - 1)
  BY PvForecastAssumption DEF LateSunrise
<1>2. PICK q \in Nat : Midnight(given) = q * Day /\ q * Day <= given /\ given <= q * Day + Day - 1
  BY MidnightBefore
<1>3. q * Day \in Nat /\ q * Day <= n + h /\ n + h <= q * Day + 2 * Day + Interval
  BY <1>1, <1>2
<1>4. ASSUME n + h >= q * Day + 2 * Day PROVE FALSE
  <2> DEFINE r == n + h - (q * Day + 2 * Day)
  <2>1. r \in 0..Interval /\ r \in 0..(Day - 1)
    BY <1>1, <1>3, <1>4
  <2>2. n + h = (q + 2) * Day + r
    BY <1>1, <1>3
  <2>3. (n + h) % Day = r
    <3> HIDE DEF r
    <3>1. ((q + 2) * Day + r) % Day = r
      BY <1>1, <2>1, Remainder
    <3>2. QED
      BY <2>2, <3>1
  <2>4. QED
    BY <1>1, <2>1, <2>3
<1>5. 2 * Day <= Days * Day /\ Days * Day \in Nat
  BY <1>1
<1>6. QED
  BY <1>1, <1>2, <1>3, <1>4, <1>5 DEF HoursFrom

(* With the two days the add-on asks for, or more, and a sun that rises    *)
(* later than Interval hours after midnight: as long as nothing fails,     *)
(* every hour with sun of a horizon of up to a day has the estimate for    *)
(* that very hour, unless Open-Meteo had none.                             *)
THEOREM DaylightPlanned == Days >= 2 /\ LateSunrise => (Spec => []DaylightIsPlanned)
<1>1. ASSUME Days >= 2, LateSunrise PROVE PvInv /\ HoursInv => DaylightIsPlanned
  <2> SUFFICES ASSUME PvInv, HoursInv, now - trouble > Interval + 1,
                      NEW h \in 0..(Horizon - 1), (now + h) % Day \in Daylight
               PROVE  \/ Hourly[h] = now + h
                      \/ forecast # None /\ now + h \in forecast.gap
    BY DEF DaylightIsPlanned
  <2>1. /\ now \in Nat /\ trouble \in Nat /\ due \in Nat /\ Interval \in Nat
        /\ forecast \in Forecast \cup {None}
    BY PvForecastAssumption DEF PvInv, TypeOK
  <2>2. phase # "down"
    BY <2>1 DEF HoursInv, AlarmInv
  <2>3. forecast # None /\ forecast.at >= due - Interval /\ now <= due + 1
    BY <2>1, <2>2 DEF HoursInv, AlarmInv
  <2>4. forecast.at \in Nat /\ forecast.at <= now
    BY <2>1, <2>3 DEF PvInv, TimeInv, Forecast
  <2>5. PICK given \in Nat :
          /\ given <= forecast.at /\ forecast.at <= given + 1
          /\ forecast.slots = HoursFrom(Midnight(given), Days * Day) \ forecast.gap
    BY <2>3 DEF HoursInv, DaysInv, Whole
  <2>6. given <= now /\ now <= given + Interval + 2
    BY <2>1, <2>3, <2>4, <2>5
  <2>7. now + h \in HoursFrom(Midnight(given), Days * Day)
    BY <1>1, <2>1, <2>6, DaylightInDays
  <2>8. QED
    BY <2>3, <2>5, <2>7 DEF Hourly
<1>2. CASE Days >= 2 /\ LateSunrise
  BY <1>1, <1>2, InitPv, StepPv, InitHours, StepHours, PTL DEF Spec
<1>3. QED
  BY <1>2
=============================================================================
