SPECIFICATION LogSpec
CONSTANTS
  IntMax = 4
  MaxTarget = 3
  MaxRawDac = 3
  MaxRetryHistory = 1
  LongestWindow = 2
  UptimeMod = 5
  StepMax = 9
  IntervalMax = 2
  DefaultConfig <- HvbConfig
  DefaultCal <- UnitCal
  NoSample = NoSample
  Channels = {0}
  CapabilitiesOf <- OneDac
  OffByDefault = {}
  DefaultMode = "NORMAL"
  WatchdogTicks = 2
  NoRecord = NoRecord
  Commissioned <- SavedRetry
  HostModes <- RunModes
  HostOutputActions = {"ENABLE", "DISABLE_GRACEFUL", "DISABLE_IMMEDIATE", "DISABLE_FORCE"}
  HostFaultCommands = {"CLEAR_ACTIVE"}
  HostWrites <- ProtectionWrites
  HostCalWrites = {}
  HostRawDacs = {}
  HostPolicies = {}
  SystemParamActions = {}
  ChannelParamActions = {}
  TickLengths = {1}
  RawVoltages = {}
  RawCurrents = {0, 2}
  DriverFaults = {"HARDWARE"}
  StorageMayFail = FALSE
INVARIANTS HardFaultHoldsZero
PROPERTIES NoRiseWhileFaulted TargetKeepsRange RetryBudget
