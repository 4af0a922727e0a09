---------------------------- MODULE VcController ----------------------------
(***************************************************************************)
(* The voltage controller, lib/voltage_control/vc_controller.c, with the   *)
(* channels it aggregates (VcChannel), the settings storage behind it      *)
(* (vc_storage_settings.c) and the boot sequence that fills it             *)
(* (vc_runtime_auto_load in vc_runtime.c).                                 *)
(*                                                                         *)
(* All mutations run on one worker thread, so every command and every tick *)
(* is one action.  struct vc_controller is the record ctrl; functions that *)
(* other functions call are operators from record to [st, ctrl] and the    *)
(* actions at the end apply them.  nvs holds the persisted keys vc/sys,    *)
(* vc/chN/cfg and vc/chN/cal and survives a reboot.                        *)
(***************************************************************************)
EXTENDS VcChannel

CONSTANTS
    Channels,          \* the channel indices of the board
    CapabilitiesOf,    \* channel -> its devicetree capabilities
    OffByDefault,      \* the channels marked default-output-disabled in the devicetree
    DefaultMode,       \* CONFIG_VC_DEFAULT_OPERATING_MODE
    WatchdogTicks,     \* CONFIG_VC_CAL_WATCHDOG_TIMEOUT_S, in ticks
    NoRecord,          \* a settings key that is absent
    Commissioned,      \* the contents the settings may have at the first boot
    \* What the host asks and what the hardware does:
    HostModes,            \* modes it selects
    HostOutputActions,    \* output actions it sends
    HostFaultCommands,    \* fault commands it sends
    HostWrites,           \* [field, value] channel config writes
    HostCalWrites,        \* [field, value] calibration writes
    HostRawDacs,          \* raw DAC codes it writes in calibration
    HostPolicies,         \* startup_channel_policy values it writes
    SystemParamActions,   \* parameter actions it sends to the system block
    ChannelParamActions,  \* parameter actions it sends to a channel
    TickLengths,          \* the dt a tick may see: the worker also wakes early,
                          \* on commands and samples, and late, after a long command
    RawVoltages,          \* raw samples the ADC may deliver
    RawCurrents,
    DriverFaults,         \* causes given to vc_channel_consume_fault
    StorageMayFail        \* whether settings reads, writes and deletes may fail

VARIABLES ctrl, nvs

vars == <<ctrl, nvs>>

Modes        == {"NORMAL", "AUTOMATIC", "CALIBRATION"}
ConfigFields == DOMAIN DefaultConfig
CalFields    == DOMAIN DefaultCal

VcSystemConfig ==
    [operating_mode : {"NORMAL", "AUTOMATIC"}, startup_channel_policy : {0, 1}]

VcControllerState ==
    [channels        : [Channels -> VcChannel],
     operating_mode  : Modes,
     pre_cal_mode    : {"NORMAL", "AUTOMATIC"},
     cal_watchdog    : 0 .. WatchdogTicks,
     cal_unlock_step : {0, 1},
     cal_unlocked    : BOOLEAN,
     sys_cfg         : VcSystemConfig]

Settings ==
    [sys : VcSystemConfig \cup {NoRecord},
     cfg : [Channels -> VcChannelConfig \cup {NoRecord}],
     cal : [Channels -> VcChannelCalConfig \cup {NoRecord}]]

ASSUME ControllerAssumption ==
    /\ CapabilitiesOf \in [Channels -> SUBSET Capabilities]
    /\ OffByDefault \subseteq Channels
    /\ DefaultMode \in {"NORMAL", "AUTOMATIC"}
    /\ WatchdogTicks \in Nat \ {0}
    /\ HostPolicies \subseteq {0, 1}
    /\ HostRawDacs \subseteq Nat
    /\ \A w \in HostWrites :
          /\ w.field \in ConfigFields
          /\ field_valid(w.field, w.value) =>
                 [DefaultConfig EXCEPT ![w.field] = w.value] \in VcChannelConfig
    /\ \A w \in HostCalWrites :
          /\ w.field \in CalFields
          /\ \/ w.field \in CalExpFields /\ w.value \notin CalExp
             \/ [DefaultCal EXCEPT ![w.field] = w.value] \in VcChannelCalConfig
    /\ TickLengths \subseteq Nat
    /\ RawVoltages \subseteq Int
    /\ RawCurrents \subseteq Int
    /\ DriverFaults \subseteq FaultCauses \ {"CURRENT", "RETRY_EXHAUST"}
    /\ StorageMayFail \in BOOLEAN
    /\ Commissioned \subseteq Settings
    /\ NoRecord \notin VcSystemConfig \cup VcChannelConfig \cup VcChannelCalConfig

Answer(st, k) == [st |-> st, ctrl |-> k]

default_system_config == [operating_mode |-> DefaultMode, startup_channel_policy |-> 0]

\* A call that touches one channel only.
OnChannel(k, i, reply) == Answer(reply.st, [k EXCEPT !.channels[i] = reply.ch])

(***************************************************************************)
(* Operating mode                                                          *)
(***************************************************************************)
cal_watchdog_reset(k) == [k EXCEPT !.cal_watchdog = WatchdogTicks]

wants_output(c) ==
    IF channel_has_cap(c, "RAW_OUTPUT_DRIVE")
    THEN c.config.configured_target_voltage # 0
    ELSE c.config.configured_output_enabled

\* The channels after a change of mode, in the order of the code: leaving
\* calibration resets, AUTOMATIC to NORMAL disables, entering AUTOMATIC
\* enables, entering calibration resets.
leave_cal(from, c) ==
    IF from = "CALIBRATION" THEN vc_channel_reset_calibration(c, FALSE) ELSE c
retreat(from, mode, c) ==
    IF from = "AUTOMATIC" /\ mode = "NORMAL"
    THEN vc_channel_output_action(c, "DISABLE_GRACEFUL").ch ELSE c
auto_enable(mode, c) ==
    IF mode = "AUTOMATIC" /\ wants_output(c) /\ c.active_fault_cause = {}
    THEN vc_channel_output_action(c, "ENABLE").ch ELSE c
enter_cal(mode, c) ==
    IF mode = "CALIBRATION" THEN vc_channel_reset_calibration(c, TRUE) ELSE c

\* Mutant: the enable pass comes before the reset of the session that is left.
switch_channel_resets_last(from, mode, c) ==
    leave_cal(from, enter_cal(mode, auto_enable(mode, retreat(from, mode, c))))

switch_channel(from, mode, c) ==
    enter_cal(mode, auto_enable(mode, retreat(from, mode, leave_cal(from, c))))

\* Mutant: calibration is recorded in the system config like any other mode.
switch_mode_persists(k, mode) ==
    [k EXCEPT !.channels = [i \in Channels |->
                              switch_channel(k.operating_mode, mode, k.channels[i])],
              !.operating_mode = mode, !.sys_cfg.operating_mode = mode]

switch_mode(k, mode) ==
    LET from     == k.operating_mode
        switched == [k EXCEPT !.channels = [i \in Channels |->
                                              switch_channel(from, mode, k.channels[i])],
                              !.operating_mode = mode]
    IN  IF mode = "CALIBRATION"
        THEN cal_watchdog_reset([switched EXCEPT !.pre_cal_mode = from,
                                                 !.cal_unlock_step = 0,
                                                 !.cal_unlocked = FALSE])
        ELSE [switched EXCEPT !.sys_cfg.operating_mode = mode]

vc_controller_set_operating_mode(k, mode) ==
    IF mode \notin Modes THEN Answer("INVALID_VALUE", k)
    ELSE IF /\ k.operating_mode # "CALIBRATION"
            /\ mode = "CALIBRATION"
            /\ ~k.cal_unlocked
    THEN Answer("INVALID_COMMAND", k)
    ELSE IF mode = k.operating_mode
    THEN Answer("OK", IF mode = "CALIBRATION" THEN cal_watchdog_reset(k) ELSE k)
    ELSE IF /\ mode = "AUTOMATIC"
            /\ k.operating_mode = "NORMAL"
            /\ \E i \in Channels : k.channels[i].active_fault_cause # {}
    THEN Answer("UNSAFE_STATE", k)
    ELSE Answer("OK", switch_mode(k, mode))

vc_controller_calibration_unlock(k, value) ==
    IF value = "CAL_UNLOCK_STEP1"
    THEN Answer("OK", [k EXCEPT !.cal_unlock_step = 1, !.cal_unlocked = FALSE])
    ELSE IF value = "CAL_UNLOCK_STEP2" /\ k.cal_unlock_step = 1
    THEN Answer("OK", [k EXCEPT !.cal_unlock_step = 0, !.cal_unlocked = TRUE])
    ELSE Answer("INVALID_COMMAND", [k EXCEPT !.cal_unlock_step = 0, !.cal_unlocked = FALSE])

vc_controller_cal_exit(k) ==
    IF k.operating_mode # "CALIBRATION" THEN Answer("INVALID_COMMAND", k)
    ELSE vc_controller_set_operating_mode(k, k.pre_cal_mode)

\* sys_cfg is replaced before the mode change is attempted, and keeps the new
\* value when the change is refused.
vc_controller_set_system_config(k, cfg) ==
    LET stored == [k EXCEPT !.sys_cfg =
                      IF cfg.operating_mode = "CALIBRATION"
                      THEN [cfg EXCEPT !.operating_mode = k.sys_cfg.operating_mode]
                      ELSE cfg]
    IN  IF cfg.operating_mode # k.operating_mode
        THEN vc_controller_set_operating_mode(stored, cfg.operating_mode)
        ELSE Answer("OK", stored)

\* Mutant: the calibration watchdog does not run down.
vc_controller_tick_frozen(k, dt, v, c) ==
    IF k.operating_mode = "CALIBRATION"
    THEN IF dt >= k.cal_watchdog THEN vc_controller_cal_exit(k).ctrl ELSE k
    ELSE k

vc_controller_tick(k, dt, v, c) ==
    IF k.operating_mode = "CALIBRATION"
    THEN IF dt >= k.cal_watchdog THEN vc_controller_cal_exit(k).ctrl
         ELSE [k EXCEPT !.cal_watchdog = @ - dt]
    ELSE [k EXCEPT !.channels = [i \in Channels |->
             vc_channel_run(k.channels[i], dt, v[i], c[i], k.sys_cfg.operating_mode)]]

(***************************************************************************)
(* Channel commands                                                        *)
(***************************************************************************)
vc_controller_channel_output_action(k, i, action) ==
    IF k.operating_mode = "CALIBRATION" THEN Answer("INVALID_COMMAND", k)
    ELSE OnChannel(k, i, vc_channel_output_action(k.channels[i], action))

vc_controller_channel_set_field(k, i, field, value) ==
    LET set == vc_channel_set_field(k.channels[i], field, value)
    IN  IF /\ set.st = "OK"
           /\ field = "configured_target_voltage"
           /\ k.operating_mode = "AUTOMATIC"
           /\ value # 0
           /\ set.ch.active_fault_cause = {}
        THEN OnChannel(k, i, vc_channel_output_action(set.ch, "ENABLE"))
        ELSE OnChannel(k, i, set)

\* The guard and the watchdog reset shared by the calibration commands.
cal_command(k, i, reply) ==
    IF k.operating_mode # "CALIBRATION" THEN Answer("INVALID_COMMAND", k)
    ELSE IF reply.st = "OK"
    THEN OnChannel(cal_watchdog_reset(k), i, reply)
    ELSE OnChannel(k, i, reply)

\* Mutant: only a nonzero code counts as busy.
cal_busy_by_code(k, i) == \E j \in Channels \ {i} : k.channels[j].raw_dac_readback # 0

\* Another channel that is driven by the calibration session.
cal_busy_elsewhere(k, i) ==
    \E j \in Channels \ {i} : \/ k.channels[j].cal_output_enabled
                              \/ k.channels[j].raw_dac_readback # 0

vc_controller_channel_cal_output_enable(k, i, enable) ==
    IF k.operating_mode = "CALIBRATION" /\ enable /\ cal_busy_elsewhere(k, i)
    THEN Answer("UNSAFE_STATE", k)
    ELSE cal_command(k, i, vc_channel_cal_set_output_enable(k.channels[i], enable))

(***************************************************************************)
(* Storage                                                                 *)
(***************************************************************************)
\* Load the calibration of channel i when its key can be read.
load_cal(k, i, record) ==
    IF record = NoRecord THEN k
    ELSE [k EXCEPT !.channels[i] = vc_channel_load_cal(@, record)]

\* VC_PARAM_ACTION_LOAD: a refused config leaves the calibration unloaded.
load_channel(k, i, cfg, cal) ==
    LET set == vc_channel_set_config(k.channels[i], cfg)
    IN  IF cfg = NoRecord THEN Answer("OK", load_cal(k, i, cal))
        ELSE IF set.st # "OK" THEN Answer(set.st, k)
        ELSE Answer("OK", load_cal(OnChannel(k, i, set).ctrl, i, cal))

\* VC_PARAM_ACTION_FACTORY_RESET of a channel: the defaults of the build, without
\* those of the devicetree, then the calibration.
reset_channel(k, i, cal) ==
    LET set == vc_channel_set_config(k.channels[i], DefaultConfig)
    IN  IF set.st # "OK" THEN Answer(set.st, k)
        ELSE Answer("OK", load_cal(OnChannel(k, i, set).ctrl, i, cal))

reset_system(k) ==
    [k EXCEPT !.sys_cfg = default_system_config, !.operating_mode = "NORMAL"]

\* The defaults of channel i, with the driver's get_dt_defaults applied.
boot_config(i) ==
    IF i \in OffByDefault
    THEN [DefaultConfig EXCEPT !.configured_output_enabled = FALSE]
    ELSE DefaultConfig

boot_channel(i) == vc_channel_init(CapabilitiesOf[i], boot_config(i))

vc_controller_init ==
    [channels |-> [i \in Channels |-> boot_channel(i)],
     operating_mode |-> "NORMAL", pre_cal_mode |-> "NORMAL",
     cal_watchdog |-> 0, cal_unlock_step |-> 0, cal_unlocked |-> FALSE,
     sys_cfg |-> default_system_config]

\* vc_runtime_auto_load: the startup policy comes from the stored system config
\* (phase 1), every channel is loaded or reset (phase 2), the stored mode is
\* applied last (phase 3).  s is what the storage returned.
auto_load(s) ==
    LET k   == vc_controller_init
        sys == IF s.sys = NoRecord THEN k.sys_cfg ELSE s.sys
        loaded_channel(i) ==
            IF sys.startup_channel_policy = 0
            THEN load_channel(k, i, s.cfg[i], s.cal[i]).ctrl.channels[i]
            ELSE reset_channel(k, i, s.cal[i]).ctrl.channels[i]
    IN  vc_controller_set_system_config(
            [k EXCEPT !.channels = [i \in Channels |-> loaded_channel(i)]], sys).ctrl

\* The outcomes of reading a key that holds r.
ReadKey(r) == IF StorageMayFail THEN {r, NoRecord} ELSE {r}

\* What the storage may return for s as a whole.  The boot sequence ignores a
\* read that fails, like an absent key; a channel config that cannot be read
\* takes the calibration of its channel with it.
ReadAll(s) ==
    {r \in [sys : ReadKey(s.sys),
            cfg : [Channels -> {s.cfg[i] : i \in Channels} \cup {NoRecord}],
            cal : [Channels -> {s.cal[i] : i \in Channels} \cup {NoRecord}]] :
        \A i \in Channels :
            /\ r.cfg[i] \in ReadKey(s.cfg[i])
            /\ r.cal[i] \in ReadKey(s.cal[i])
            /\ r.cfg[i] # s.cfg[i] => r.cal[i] = NoRecord}

NoSettings ==
    [sys |-> NoRecord,
     cfg |-> [i \in Channels |-> NoRecord], cal |-> [i \in Channels |-> NoRecord]]

(***************************************************************************)
(* Actions: the commands of vc_runtime_dispatch_command, the tick, the     *)
(* driver's fault report, and a reset of the board.                        *)
(***************************************************************************)
Init ==
    /\ nvs \in Commissioned
    /\ ctrl = auto_load(nvs)

SetOperatingMode(mode) ==
    /\ ctrl' = vc_controller_set_operating_mode(ctrl, mode).ctrl
    /\ UNCHANGED nvs

OutputAction(i, action) ==
    /\ ctrl' = vc_controller_channel_output_action(ctrl, i, action).ctrl
    /\ UNCHANGED nvs

FaultCommand(i, cmd) ==
    /\ ctrl' = OnChannel(ctrl, i, vc_channel_fault_command(ctrl.channels[i], cmd)).ctrl
    /\ UNCHANGED nvs

SetChannelField(i, w) ==
    /\ ctrl' = vc_controller_channel_set_field(ctrl, i, w.field, w.value).ctrl
    /\ UNCHANGED nvs

SetStartupPolicy(policy) ==
    /\ ctrl' = vc_controller_set_system_config(ctrl,
                  [ctrl.sys_cfg EXCEPT !.startup_channel_policy = policy]).ctrl
    /\ UNCHANGED nvs

CalibrationUnlock(value) ==
    /\ ctrl' = vc_controller_calibration_unlock(ctrl, value).ctrl
    /\ UNCHANGED nvs

CalOutputEnable(i, enable) ==
    /\ ctrl' = vc_controller_channel_cal_output_enable(ctrl, i, enable).ctrl
    /\ UNCHANGED nvs

CalRawDac(i, code) ==
    /\ ctrl' = cal_command(ctrl, i, vc_channel_cal_set_raw_dac(ctrl.channels[i], code)).ctrl
    /\ UNCHANGED nvs

CalSample(i) ==
    /\ ctrl' = cal_command(ctrl, i, vc_channel_cal_sample(ctrl.channels[i])).ctrl
    /\ UNCHANGED nvs

SetCalField(i, w) ==
    /\ ctrl' = cal_command(ctrl, i,
                  vc_channel_set_cal_field(ctrl.channels[i], w.field, w.value)).ctrl
    /\ UNCHANGED nvs

\* The watchdog is reset even when the save that follows fails.
CalCommit(i) ==
    LET a == cal_command(ctrl, i, vc_channel_cal_commit(ctrl.channels[i]))
    IN  /\ ctrl' = a.ctrl
        /\ \/ /\ a.st = "OK"
              /\ nvs' = [nvs EXCEPT !.cal[i] = ctrl.channels[i].cal_config]
           \/ /\ a.st # "OK" \/ StorageMayFail
              /\ UNCHANGED nvs

CalExit ==
    /\ ctrl' = vc_controller_cal_exit(ctrl).ctrl
    /\ UNCHANGED nvs

SystemSave ==
    /\ "SAVE" \in SystemParamActions
    /\ UNCHANGED ctrl
    /\ \/ nvs' = [nvs EXCEPT !.sys = ctrl.sys_cfg]
       \/ StorageMayFail /\ UNCHANGED nvs

\* An absent key and a failed read both leave the controller as it is.
SystemLoad ==
    /\ "LOAD" \in SystemParamActions
    /\ \E r \in ReadKey(nvs.sys) :
          ctrl' = IF r = NoRecord THEN ctrl
                  ELSE vc_controller_set_system_config(ctrl, r).ctrl
    /\ UNCHANGED nvs

\* Deleting a key may fail on its own, and the failure is ignored.
SystemFactoryReset ==
    /\ "FACTORY_RESET" \in SystemParamActions
    /\ ctrl' = reset_system(ctrl)
    /\ \E kept \in IF StorageMayFail THEN [sys : BOOLEAN, cfg : SUBSET Channels,
                                           cal : SUBSET Channels]
                   ELSE {[sys |-> FALSE, cfg |-> {}, cal |-> {}]} :
          nvs' = [sys |-> IF kept.sys THEN nvs.sys ELSE NoRecord,
                  cfg |-> [i \in Channels |-> IF i \in kept.cfg THEN nvs.cfg[i] ELSE NoRecord],
                  cal |-> [i \in Channels |-> IF i \in kept.cal THEN nvs.cal[i] ELSE NoRecord]]

ChannelSave(i) ==
    /\ "SAVE" \in ChannelParamActions
    /\ UNCHANGED ctrl
    /\ \/ nvs' = [nvs EXCEPT !.cfg[i] = ctrl.channels[i].config]
       \/ StorageMayFail /\ UNCHANGED nvs

\* A failed read of the config key aborts the load; of the cal key, only the
\* calibration is kept.
ChannelLoad(i) ==
    /\ "LOAD" \in ChannelParamActions
    /\ \/ \E cal \in ReadKey(nvs.cal[i]) :
             ctrl' = load_channel(ctrl, i, nvs.cfg[i], cal).ctrl
       \/ StorageMayFail /\ UNCHANGED ctrl
    /\ UNCHANGED nvs

ChannelFactoryReset(i) ==
    /\ "FACTORY_RESET" \in ChannelParamActions
    /\ \E cal \in ReadKey(nvs.cal[i]) : ctrl' = reset_channel(ctrl, i, cal).ctrl
    /\ UNCHANGED nvs

\* A tick with whatever fresh samples the drivers have published by then.
Tick(dt) ==
    /\ \E v \in [Channels -> RawVoltages \cup {NoSample}],
          c \in [Channels -> RawCurrents \cup {NoSample}] :
          /\ \A i \in Channels :
                /\ v[i] # NoSample => "VOLTAGE_MEASUREMENT" \in CapabilitiesOf[i]
                /\ c[i] # NoSample => "CURRENT_MEASUREMENT" \in CapabilitiesOf[i]
          /\ ctrl' = vc_controller_tick(ctrl, dt, v, c)
    /\ UNCHANGED nvs

\* The channel API's fault input.  No driver of this tree calls it yet.
ConsumeFault(i, cause) ==
    /\ ctrl' = [ctrl EXCEPT !.channels[i] = vc_channel_consume_fault(@, cause)]
    /\ UNCHANGED nvs

\* A power cycle or a software reset, at any point.
Reboot ==
    /\ \E s \in ReadAll(nvs) : ctrl' = auto_load(s)
    /\ UNCHANGED nvs

\* The commands the frontends submit.
OutputCommand ==
    \E i \in Channels, action \in HostOutputActions : OutputAction(i, action)

OtherCommand ==
    \/ \E mode \in HostModes : SetOperatingMode(mode)
    \/ \E policy \in HostPolicies : SetStartupPolicy(policy)
    \/ \E value \in {"CAL_UNLOCK_STEP1", "CAL_UNLOCK_STEP2", "OTHER"} : CalibrationUnlock(value)
    \/ CalExit
    \/ SystemSave
    \/ SystemLoad
    \/ SystemFactoryReset
    \/ \E i \in Channels :
          \/ \E cmd \in HostFaultCommands : FaultCommand(i, cmd)
          \/ \E w \in HostWrites : SetChannelField(i, w)
          \/ \E w \in HostCalWrites : SetCalField(i, w)
          \/ \E enable \in BOOLEAN : CalOutputEnable(i, enable)
          \/ \E code \in HostRawDacs : CalRawDac(i, code)
          \/ CalSample(i)
          \/ CalCommit(i)
          \/ ChannelSave(i)
          \/ ChannelLoad(i)
          \/ ChannelFactoryReset(i)

DriverFault == \E i \in Channels, cause \in DriverFaults : ConsumeFault(i, cause)

Next ==
    \/ OutputCommand
    \/ OtherCommand
    \/ \E dt \in TickLengths : Tick(dt)
    \/ DriverFault
    \/ Reboot

Spec == Init /\ [][Next]_vars

(***************************************************************************)
(* Properties                                                              *)
(***************************************************************************)

\* Every field keeps its type: the operational target and the measurements
\* stay int16_t, the retry history never outgrows its array
\* (record_retry_attempt), and neither the live system config nor the stored
\* one ever holds CALIBRATION, so that a calibration session cannot survive a
\* reboot (vc_controller_set_operating_mode, vc_controller_set_system_config).
TypeOK ==
    /\ ctrl \in VcControllerState
    /\ nvs \in Settings
    /\ \A i \in Channels : Len(ctrl.channels[i].retry_ages) <= MaxRetryHistory

\* The drive code last sent to the hardware is the one the channel's present
\* state calls for, and a channel that should be enabled is: no handler changes
\* what apply_hw reads and returns without calling it (only a missed switch-off
\* of the enable line is possible).
HwDriveFresh ==
    \A i \in Channels :
        LET c == ctrl.channels[i]
        IN  /\ c.hw.code = hw_command(c).code
            /\ hw_command(c).enable => c.hw.enable

\* Whatever targets and steps are written during a ramp, and however
\* a retry derates, the target the hardware is driven with moves out of
\* 0 .. MaxTarget, or farther out, only by the arithmetic of vc_channel_tick_ramp
\* on an int16_t: above the range on the way down with a step whose cast is
\* negative, below it on the way up with a step whose cast is negative or whose
\* sum wraps.  What a retry aims at is never out of it.
TargetKeepsRange ==
    [][\A i \in Channels :
          LET c == ctrl.channels[i]
              d == ctrl'.channels[i]
              from == c.operational_target_voltage
              to   == d.operational_target_voltage
          IN  /\ d.recovery_target \in 0 .. MaxTarget
              /\ to > MaxTarget /\ to > from => c.config.ramp_down_step > IntMax
              /\ to < 0 /\ to < from => c.config.ramp_up_step > IntMax - MaxTarget]_vars

\* What a channel has saved it can load after a reboot: the checks of
\* vc_channel_set_field, made field by field against the running configuration,
\* never admit a configuration that vc_channel_set_config, which compares the
\* whole record with the defaults of the boot, then refuses.
SavedConfigLoads ==
    \A i \in Channels :
        nvs.cfg[i] # NoRecord =>
            vc_channel_set_config(boot_channel(i), nvs.cfg[i]).st = "OK"

CalDriven(c) == c.cal_output_enabled \/ c.raw_dac_readback # 0

\* At most one channel is driven by the calibration session
\* (vc_controller_channel_cal_output_enable), through mode changes, watchdog
\* expiry, factory resets and reboots.
CalExclusive ==
    \A i, j \in Channels :
        CalDriven(ctrl.channels[i]) /\ CalDriven(ctrl.channels[j]) => i = j

\* While a hardware or interlock fault is active the operational target is
\* zero and the calibration output is off, whatever the host, the mode
\* switches and the recovery policy do afterwards (force_safe_state and the
\* fault checks of the commands).
HardFaultHoldsZero ==
    \A i \in Channels :
        LET c == ctrl.channels[i]
        IN  has_hard_safety_fault(c) =>
                c.operational_target_voltage = 0 /\ ~CalDriven(c)

\* While a fault stays active no step raises the target the hardware is driven
\* with, whatever commands, writes and mode switches come (the fault check of
\* vc_channel_tick_ramp and of ENABLE).  A disable may ramp up to zero a target
\* that a wrapped sum left below it; what rises is the ramp down of a disable
\* with a step whose cast to int16_t is negative.
NoRiseWhileFaulted ==
    [][\A i \in Channels :
          LET c == ctrl.channels[i]
              d == ctrl'.channels[i]
              from == c.operational_target_voltage
              to   == d.operational_target_voltage
          IN  c.active_fault_cause # {} /\ d.active_fault_cause # {} /\ to > from =>
                  \/ to <= 0
                  \/ from > 0 /\ c.config.ramp_down_step > IntMax]_vars

\* After every switch into AUTOMATIC, from NORMAL, from calibration or at boot,
\* each fault-free channel that wants output has it: the enable pass is not
\* undone by the reset of a calibration session that is left
\* (vc_controller_set_operating_mode).
EnterAutomaticEnables ==
    [][ctrl.operating_mode # "AUTOMATIC" /\ ctrl'.operating_mode = "AUTOMATIC" =>
          \A i \in Channels :
              LET c == ctrl'.channels[i]
              IN  wants_output(c) /\ c.active_fault_cause = {} =>
                      c.output_enabled /\ c.hw.enable]_vars

\* A channel that is built always on, without the output-enable capability,
\* goes dark only for a fault, for a calibration session or at a reset: no
\* output action, no mode retreat and no configuration write or load switches
\* it off (vc_channel_output_action, vc_channel_set_field).
LockedStaysOn ==
    [][\A i \in Channels :
          /\ "OUTPUT_ENABLE" \notin CapabilitiesOf[i]
          /\ ctrl.channels[i].hw.enable
          /\ ~ctrl'.channels[i].hw.enable
          => \/ ctrl'.channels[i].active_fault_cause # {}
             \/ "CALIBRATION" \in {ctrl.operating_mode, ctrl'.operating_mode}
             \/ Reboot]_vars
=============================================================================
