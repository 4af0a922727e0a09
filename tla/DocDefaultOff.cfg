SPECIFICATION Spec
CONSTANTS
  IntMax = 7
  MaxTarget = 3
  MaxRawDac = 3
  MaxRetryHistory = 2
  UptimeMod = 4
  StepMax = 2
  IntervalMax = 2
  DefaultConfig <- LvbConfig
  DefaultCal <- UnitCal
  NoSample = NoSample
  Channels = {0, 1}
  CapabilitiesOf <- LvbPair
  OffByDefault = {1}
  DefaultMode = "NORMAL"
  WatchdogTicks = 2
  NoRecord = NoRecord
  Commissioned <- Blank
  HostModes <- RunModes
  HostOutputActions = {}
  HostFaultCommands = {}
  HostWrites = {}
  HostCalWrites = {}
  HostRawDacs = {}
  HostPolicies = {}
  SystemParamActions = {}
  ChannelParamActions = {"FACTORY_RESET"}
  TickLengths = {1}
  RawVoltages = {}
  RawCurrents = {}
  DriverFaults = {}
  StorageMayFail = FALSE
PROPERTIES FactoryDefaultOff
