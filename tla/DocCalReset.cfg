SPECIFICATION Spec
CONSTANTS
  IntMax = 7
  MaxTarget = 3
  MaxRawDac = 3
  MaxRetryHistory = 2
  UptimeMod = 4
  StepMax = 2
  IntervalMax = 2
  DefaultConfig <- HvbConfig
  DefaultCal <- UnitCal
  NoSample = NoSample
  Channels = {0}
  CapabilitiesOf <- OneDac
  OffByDefault = {}
  DefaultMode = "NORMAL"
  WatchdogTicks = 2
  NoRecord = NoRecord
  Commissioned <- Blank
  HostModes <- AllModes
  HostOutputActions = {}
  HostFaultCommands = {}
  HostWrites = {}
  HostCalWrites = {}
  HostRawDacs = {}
  HostPolicies = {}
  SystemParamActions = {"FACTORY_RESET"}
  ChannelParamActions = {}
  TickLengths = {1}
  RawVoltages = {}
  RawCurrents = {}
  DriverFaults = {}
  StorageMayFail = FALSE
INVARIANTS CalOutputOnlyInCalibration
