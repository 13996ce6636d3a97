SPECIFICATION FairSpec
CONSTANTS
  None = None
  Devices = {"pump", "charger"}
  Points <- TwoPoints
  DeviceOf <- TwoDevices
  SlugOf <- TwoSlugs
  SideLoops = {"optimizer"}
  Attempts = 2
  Faults = {"refused", "driver", "unit", "nobroker", "link", "crash", "command"}
INVARIANTS TypeOK LoopsStopBeforeDevices
PROPERTIES ImplementsAvailability ShutdownCompletes
