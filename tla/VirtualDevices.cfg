SPECIFICATION Spec
CONSTANTS
  None = None
  Null = Null
  Yes = Yes
  No = No
  OnText = OnText
  OtherText = OtherText
  Raises = Raises
  Evaluators = {"loop", "web"}
  Files <- AllFiles
  Name = "d"
  Literals <- States
  Bases <- BaseValues
  MinInterval = 2
  MaxTime = 2
  Slots = {1}
  Faults = {"call", "late"}
INVARIANTS SettingsInRange BeliefIsReal
