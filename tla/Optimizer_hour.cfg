SPECIFICATION Spec
CONSTANTS
  None = None
  Hours = 4
  DeviceList <- OneLoad
  Levels = {0, 1, 2}
  PccImport = 4
  PccExport = 3
  Scipy = FALSE
  Fallback = 5
  Forecasts <- AllPrices
  PvForecasts <- NoonOnly
  MaxHour = 5
  Faults = {}
INVARIANTS PowerIsForThisHour
