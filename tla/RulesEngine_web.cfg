SPECIFICATION FairSpec
CONSTANTS
  None = None
  Window = 3
  Cap = 1
  Points = {"hp"}
  Values = {"HP_LOCKED", "HP_NORMAL"}
  Locked = "HP_LOCKED"
  Normal = "HP_NORMAL"
  Negative = {}
  SgReady = {"hp"}
  Virtual = {}
  Rules <- WebRules
  Vehicles <- NoVehicles
  Attempts = 2
  DefaultInterval = 1
  MaxAge = 3
  EvalInterval = 1
  DayOf <- OneDay
  MaxTime = 2
  Evaluators = {loop, api}
  BackgroundLoop = loop
  KillSwitch = TRUE
  Commands <- MqttCommands
  Faults = {"restart", "stop", "fail", "unacked", "slow"}
  InitDevices <- PumpInit
INVARIANTS StateIsSaved LedgerFollowsBelief
PROPERTIES EvaluationEnds
