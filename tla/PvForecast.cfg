SPECIFICATION Spec
CONSTANTS
  None = None
  Day = 6
  Days = 2
  Ahead = 2
  Interval = 2
  Horizon = 6
  LocationTtl = 2
  OptionsPlace = None
  Places = {"town", "lake"}
  Gaps <- Hole
  Daylight <- MorningToEvening
  MaxHour = 9
  Faults = {"ha", "meteo", "disk", "kill"}
INVARIANTS TypeOK ForecastNeverBlanks DaylightIsPlanned LocationIsRecent

