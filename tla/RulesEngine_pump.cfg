SPECIFICATION Spec
CONSTANTS
  None = None
  Window = 5
  Cap = 2
  Points = {"hp", "q"}
  Values = {"HP_LOCKED", "HP_NORMAL", "on", "off"}
  Locked = "HP_LOCKED"
  Normal = "HP_NORMAL"
  Negative = {}
  SgReady = {"hp"}
  Virtual = {"q"}
  Rules <- PumpRules
  Vehicles <- NoVehicles
  Attempts = 2
  DefaultInterval = 2
  MaxAge = 5
  EvalInterval = 1
  DayOf <- OneDay
  MaxTime = 11
  Evaluators = {loop}
  BackgroundLoop = loop
  KillSwitch = TRUE
  Commands = {}
  Faults = {"restart", "fail", "late"}
  InitDevices <- TwoInit
INVARIANTS TypeOK WritesAreSpaced BeliefMatchesDevice LedgerIsExact
PROPERTIES ImplementsRateLimit
