SPECIFICATION DeviceSpec
CONSTANTS
  None = None
  Ttl = 2
  MaxDay = 5
  MaxVersion = 3
  Faults = {"kill", "disk"}
  Profiles <- Four
  Declares <- Corrected
  Configured = {"SafeCurrent", "MaxReceiveTimeSec"}
  Currents = {6, 16}
  Fallback = Fallback
  DeviceFaults = {"refused", "describe", "write", "unacked"}
INVARIANTS DeviceTypeOK WatchdogIsArmed TimeoutHasSafeCurrent CorrectionsFlowIn StillBoots

