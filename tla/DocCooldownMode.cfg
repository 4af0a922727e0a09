SPECIFICATION Spec
CONSTANTS
  IntMax = 7
  MaxTarget = 3
  MaxRawDac = 3
  MaxRetryHistory = 2
  UptimeMod = 4
  StepMax = 2
  IntervalMax = 2
  DefaultConfig <- HvbConfig
  DefaultCal <- UnitCal
  NoSample = NoSample
  Channels = {0}
  CapabilitiesOf <- OneDac
  OffByDefault = {}
  DefaultMode = "NORMAL"
  WatchdogTicks = 2
  NoRecord = NoRecord
  Commissioned <- SavedRetry
  HostModes <- RunModes
  HostOutputActions = {"ENABLE"}
  HostFaultCommands = {}
  HostWrites = {}
  HostCalWrites = {}
  HostRawDacs = {}
  HostPolicies = {}
  SystemParamActions = {"SAVE", "LOAD"}
  ChannelParamActions = {}
  TickLengths = {1}
  RawVoltages = {}
  RawCurrents = {0, 2}
  DriverFaults = {}
  StorageMayFail = FALSE
INVARIANTS CooldownOnlyInAutomatic
