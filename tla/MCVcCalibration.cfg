SPECIFICATION Spec
CONSTANTS
  IntMax = 7
  MaxTarget = 3
  MaxRawDac = 3
  MaxRetryHistory = 2
  UptimeMod = 4
  StepMax = 2
  IntervalMax = 2
  DefaultConfig <- HvbConfig
  DefaultCal <- UnitCal
  NoSample = NoSample
  Channels = {0, 1}
  CapabilitiesOf <- TwoDac
  OffByDefault = {}
  DefaultMode = "NORMAL"
  WatchdogTicks = 2
  NoRecord = NoRecord
  Commissioned <- SavedTarget
  HostModes <- AllModes
  HostOutputActions = {"ENABLE", "DISABLE_IMMEDIATE"}
  HostFaultCommands = {}
  HostWrites = {}
  HostCalWrites = {}
  HostRawDacs = {0, 3, 4}
  HostPolicies = {0}
  SystemParamActions = {"FACTORY_RESET"}
  ChannelParamActions = {}
  TickLengths = {1}
  RawVoltages = {1}
  RawCurrents = {}
  DriverFaults = {"INTERLOCK"}
  StorageMayFail = FALSE
INVARIANTS HwDriveFresh CalExclusive
PROPERTIES EnterAutomaticEnables
