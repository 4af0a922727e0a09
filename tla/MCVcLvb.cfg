SPECIFICATION Spec
CONSTANTS
  IntMax = 7
  MaxTarget = 3
  MaxRawDac = 3
  MaxRetryHistory = 1
  UptimeMod = 3
  StepMax = 2
  IntervalMax = 1
  DefaultConfig <- LvbConfig
  DefaultCal <- UnitCal
  NoSample = NoSample
  Channels = {0, 1}
  CapabilitiesOf <- LvbPair
  OffByDefault = {1}
  DefaultMode = "AUTOMATIC"
  WatchdogTicks = 2
  NoRecord = NoRecord
  Commissioned <- SavedFixedRetry
  HostModes <- RunModes
  HostOutputActions = {"DISABLE_GRACEFUL", "DISABLE_FORCE", "INVALID"}
  HostFaultCommands = {"CLEAR_ACTIVE", "CLEAR_HISTORY", "INVALID"}
  HostWrites <- CapabilityWrites
  HostCalWrites = {}
  HostRawDacs = {}
  HostPolicies = {}
  SystemParamActions = {}
  ChannelParamActions = {"SAVE", "LOAD"}
  TickLengths = {1}
  RawVoltages = {}
  RawCurrents = {0, 2}
  DriverFaults = {}
  StorageMayFail = FALSE
PROPERTIES LockedStaysOn
