SPECIFICATION Spec
CONSTANTS
  IntMax = 7
  MaxTarget = 3
  MaxRawDac = 3
  MaxRetryHistory = 2
  UptimeMod = 4
  StepMax = 2
  IntervalMax = 2
  DefaultConfig <- HvbConfig
  DefaultCal <- UnitCal
  NoSample = NoSample
  Channels = {0}
  CapabilitiesOf <- OneDac
  OffByDefault = {}
  DefaultMode = "NORMAL"
  WatchdogTicks = 1
  NoRecord = NoRecord
  Commissioned <- Blank
  HostModes = {"NORMAL", "AUTOMATIC", "CALIBRATION"}
  HostOutputActions = {}
  HostFaultCommands = {}
  HostWrites <- DacWrites
  HostCalWrites <- CalWrites
  HostRawDacs = {}
  HostPolicies = {0, 1}
  SystemParamActions = {"SAVE", "LOAD", "FACTORY_RESET"}
  ChannelParamActions = {"SAVE", "LOAD", "FACTORY_RESET"}
  TickLengths = {1}
  RawVoltages = {}
  RawCurrents = {}
  DriverFaults = {}
  StorageMayFail = TRUE
INVARIANTS TypeOK SavedConfigLoads
