SPECIFICATION Spec
CONSTANTS
  None = None
  Or = Or
  And = And
  Not = Not
  On = On
  Off = Off
  Unavailable = Unavailable
  Sensor = Sensor
  OpenMeteo = OpenMeteo
  NoSource = NoSource
  PvArrays = TRUE
  Extra = {"room"}
  PccLimit = 90000
  Capacity = 10
  Loads <- Heater
  Vehicles <- TwoCars
  Rules <- AllRules
  Worlds <- AllWorlds
  Faults = {"ha"}
INVARIANTS FirstMatchWins NothingIsMissed QuartileIsCheapest OfferIsReal
