SPECIFICATION Spec
CONSTANTS
  None = None
  Window = 4
  Cap = 0
  Points = {"c1", "c2", "c3"}
  Values = {"-20", "-6", "0", "HP_LOCKED", "HP_NORMAL"}
  Locked = "HP_LOCKED"
  Normal = "HP_NORMAL"
  Negative = {"-20", "-6"}
  SgReady = {}
  Virtual = {}
  Rules <- CarRules
  Vehicles <- Fleet
  Attempts = 2
  DefaultInterval = 2
  MaxAge = 4
  EvalInterval = 1
  DayOf <- ShortDays
  MaxTime = 6
  Evaluators = {loop}
  BackgroundLoop = loop
  KillSwitch = FALSE
  Commands = {}
  Faults = {"fail", "slow"}
  InitDevices <- CarInit
INVARIANTS CyclesBounded CyclesAreCounted
