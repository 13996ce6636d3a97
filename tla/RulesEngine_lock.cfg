SPECIFICATION Spec
CONSTANTS
  None = None
  Window = 9
  Cap = 4
  Points = {"hp"}
  Values = {"HP_LOCKED", "HP_NORMAL"}
  Locked = "HP_LOCKED"
  Normal = "HP_NORMAL"
  Negative = {}
  SgReady = {"hp"}
  Virtual = {}
  Rules <- LockRules
  Vehicles <- NoVehicles
  Attempts = 2
  DefaultInterval = 2
  MaxAge = 9
  EvalInterval = 1
  DayOf <- OneDay
  MaxTime = 13
  Evaluators = {loop}
  BackgroundLoop = loop
  KillSwitch = FALSE
  Commands = {}
  Faults = {"disk"}
  InitDevices <- PumpInit
INVARIANTS LockTimeBounded
