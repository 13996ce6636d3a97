SPECIFICATION Spec
CONSTANTS
  None = None
  Yes = Yes
  No = No
  OnText = OnText
  OffText = OffText
  Empty = Empty
  Eco = Eco
  Boost = Boost
  Literals <- Texts
  Numbers <- Entered
  Points <- Two
  SlugOf <- OwnSlugs
  Declares <- Corrected
  Values <- Returned
  Scripted <- Emptied
  Faults = {"direction", "unit", "read", "write", "publish", "kill"}
INVARIANTS TypeOK AskedIsWritten WrittenIsDeclared ShownIsRecent
