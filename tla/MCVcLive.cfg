SPECIFICATION FairSpec
CONSTANTS
  IntMax = 7
  MaxTarget = 3
  MaxRawDac = 3
  MaxRetryHistory = 1
  UptimeMod = 4
  StepMax = 2
  IntervalMax = 2
  DefaultConfig <- HvbConfig
  DefaultCal <- UnitCal
  NoSample = NoSample
  Channels = {0}
  CapabilitiesOf <- OneDac
  OffByDefault = {}
  DefaultMode = "NORMAL"
  WatchdogTicks = 2
  NoRecord = NoRecord
  Commissioned <- SavedGracefulRetry
  HostModes = {"NORMAL", "AUTOMATIC", "CALIBRATION"}
  HostOutputActions = {"ENABLE", "DISABLE_GRACEFUL"}
  HostFaultCommands = {}
  HostWrites <- RampDownWrites
  HostCalWrites = {}
  HostRawDacs = {}
  HostPolicies = {}
  SystemParamActions = {}
  ChannelParamActions = {}
  TickLengths = {0, 1}
  RawVoltages = {}
  RawCurrents = {0, 2}
  DriverFaults = {}
  StorageMayFail = FALSE
PROPERTIES GracefulDisableEnds CalSessionEnds RecoveryHappens
