SPECIFICATION Spec
CONSTANTS
  None = None
  Hours = 4
  DeviceList <- BoilerAndHeater
  Levels = {0, 2}
  PccImport = 2
  PccExport = 3
  Scipy = TRUE
  Fallback = 5
  Forecasts <- AllPrices
  PvForecasts <- NoonOrGlare
  MaxHour = 1
  Faults = {"nostates", "disk", "restart"}
INVARIANTS NoCheaperChoice PricesAreKnown MustRunIsMet LatestSurvives
