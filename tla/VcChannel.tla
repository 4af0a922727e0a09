----------------------------- MODULE VcChannel -----------------------------
(***************************************************************************)
(* One channel of the voltage-control domain:                              *)
(* lib/voltage_control/vc_channel.c.  struct vc_channel is a record, and   *)
(* every function of the file that changes it is an operator from the      *)
(* record before the call to the record after it; functions that return an *)
(* enum vc_status return [st, ch].  VcController holds one record per      *)
(* channel and calls these operators from its actions.                     *)
(*                                                                         *)
(* Time is counted in units of one abstract quantum (milliseconds in the   *)
(* code): the dt of a tick, the ramp intervals, the retry delay, window    *)
(* and cooldown.  uint32_t time counters wrap at UptimeMod.                *)
(* Fault causes are sets.  "hw" is what apply_hw last commanded the driver *)
(* to do.  A retry time stamp is kept as its age, uptime_ref - stamp, an   *)
(* unsigned difference that wraps at UptimeMod (2^32 ms in the code).      *)
(* Left out, since no control reads them: last_fault_timestamp,            *)
(* last_protection_output_action, the raw ADC read-backs.  The field       *)
(* graceful_ramp_dest is only ever assigned 0 and is written 0 here.       *)
(***************************************************************************)
EXTENDS VcRamp, Sequences, FiniteSets

CONSTANTS
    MaxTarget,        \* CONFIG_VC_MAX_TARGET_VOLTAGE
    MaxRawDac,        \* CONFIG_VC_CAL_MAX_RAW_DAC
    MaxRetryHistory,  \* CONFIG_VC_MAX_RETRY_HISTORY
    UptimeMod,        \* the modulus of the uint32_t millisecond counters
    StepMax,          \* largest ramp step the host writes
    IntervalMax,      \* largest ramp interval the host writes
    DefaultConfig,    \* vc_channel_default_config()
    DefaultCal,       \* default_cal_config()
    NoSample          \* the measurement buffer's time stamp has not moved

Capabilities == {"OUTPUT_ENABLE", "RAW_OUTPUT_DRIVE",
                 "VOLTAGE_MEASUREMENT", "CURRENT_MEASUREMENT"}
FaultCauses  == {"CURRENT", "MEASUREMENT", "HARDWARE", "INTERLOCK", "RETRY_EXHAUST"}
SmfStates    == {"DISABLED_SAFE", "DISABLED_HV_ON", "ENABLED_HOLDING", "RAMPING",
                 "FAULT_LATCHED", "RETRY_COOLDOWN", "CALIBRATION_OUTPUT"}
StatusBits   == {"ENABLED", "OUTPUT_ACTIVE", "RAMPING", "FAULTED", "HISTORY", "COOLDOWN"}

ProtectionModes   == {"DISABLED", "FLAG_ONLY", "APPLY_OUTPUT_ACTION"}
ProtectionActions == {"NONE", "DISABLE_GRACEFUL", "DISABLE_IMMEDIATE", "DISABLE_FORCE"}
OutputActions     == ProtectionActions \cup {"ENABLE"}
FaultCommands     == {"NONE", "CLEAR_ACTIVE", "CLEAR_HISTORY"}
\* recovery_policy_mode is written unvalidated: a number outside the enum acts
\* like NEVER_RETRY.
RecoveryPolicies  == {"MANUAL_LATCH", "AUTO_RETRY", "AUTO_DERATE_RETRY", "NEVER_RETRY"}

VcChannelConfig ==
    [configured_target_voltage        : Int16,
     configured_output_enabled        : BOOLEAN,
     ramp_up_step                     : 0 .. StepMax,
     ramp_up_interval                 : 0 .. IntervalMax,
     ramp_down_step                   : 0 .. StepMax,
     ramp_down_interval               : 0 .. IntervalMax,
     recovery_policy_mode             : RecoveryPolicies,
     auto_retry_delay                 : Nat,
     auto_retry_max_count             : Nat,
     auto_retry_window                : Nat,
     current_safe_band_pct            : Nat,
     current_protection_mode          : ProtectionModes,
     current_protection_output_action : ProtectionActions,
     current_limit_threshold          : Int,
     auto_derate_step                 : Nat]

CalGain   == Nat
CalOffset == Int
CalExp    == -9 .. 4
VcChannelCalConfig ==
    [output_calib_k : CalGain, output_calib_b : CalOffset, output_calib_k_exp : CalExp,
     measured_voltage_calib_k : CalGain, measured_voltage_calib_b : CalOffset,
     measured_voltage_calib_k_exp : CalExp,
     measured_current_calib_k : CalGain, measured_current_calib_b : CalOffset,
     measured_current_calib_k_exp : CalExp]

VcChannel ==
    [capabilities               : SUBSET Capabilities,
     config                     : VcChannelConfig,
     cal_config                 : VcChannelCalConfig,
     smf                        : SmfStates,
     output_enabled             : BOOLEAN,
     ramping                    : BOOLEAN,
     ramp_to_disable            : BOOLEAN,
     recovering                 : BOOLEAN,
     recovery_target            : Int16,
     operational_target_voltage : Int16,
     ramp_accum                 : 0 .. UptimeMod - 1,
     cooldown_remaining         : Nat,
     retry_ages                 : Seq(0 .. UptimeMod - 1),
     active_fault_cause         : SUBSET FaultCauses,
     fault_history_cause        : SUBSET FaultCauses,
     measured_voltage           : Int16,
     measured_current           : Int16,
     cal_output_enabled         : BOOLEAN,
     raw_dac_readback           : Word,
     status_bits                : SUBSET StatusBits,
     hw                         : [enable : BOOLEAN, code : Word]]

ASSUME ChannelAssumption ==
    /\ MaxTarget \in 1 .. IntMax
    /\ MaxRawDac \in Word
    /\ MaxRetryHistory \in Nat \ {0}
    /\ UptimeMod \in Nat \ {0}
    /\ IntervalMax < UptimeMod
    /\ StepMax \in Word
    /\ IntervalMax \in Nat \ {0}
    /\ DefaultConfig \in VcChannelConfig
    /\ DefaultConfig.configured_target_voltage = 0
    /\ DefaultConfig.current_protection_mode = "DISABLED"
    /\ DefaultConfig.current_limit_threshold >= 0
    /\ DefaultCal \in VcChannelCalConfig
    /\ NoSample \notin Int

(***************************************************************************)
(* Helpers                                                                 *)
(***************************************************************************)
Reply(st, c) == [st |-> st, ch |-> c]

channel_has_cap(c, cap) == cap \in c.capabilities

has_hard_safety_fault(c) == c.active_fault_cause \cap {"HARDWARE", "INTERLOCK"} # {}

raw_drive_from_target(c, target) ==
    LET raw == apply_gain(target, c.cal_config.output_calib_k,
                          c.cal_config.output_calib_k_exp) + c.cal_config.output_calib_b
    IN  IF raw <= 0 THEN 0 ELSE IF raw > WordMax THEN WordMax ELSE raw

\* What apply_hw asks of the driver: the calibration output first, then the
\* operational output, then the zero drive of the HV-on disabled state.
hw_command(c) ==
    IF c.cal_output_enabled
    THEN [enable |-> TRUE, code |-> c.raw_dac_readback]
    ELSE IF c.output_enabled
    THEN [enable |-> TRUE, code |-> raw_drive_from_target(c, c.operational_target_voltage)]
    ELSE [enable |-> c.smf = "DISABLED_HV_ON", code |-> 0]

apply_hw(c) == [c EXCEPT !.hw = hw_command(c)]

status_of(c) ==
    {b \in StatusBits :
        CASE b = "ENABLED"       -> \/ c.smf \in {"ENABLED_HOLDING", "RAMPING"}
                                    \/ c.operational_target_voltage # 0
                                    \/ c.measured_voltage # 0
          [] b = "OUTPUT_ACTIVE" -> c.output_enabled
          [] b = "RAMPING"       -> c.smf = "RAMPING"
          [] b = "FAULTED"       -> c.smf \in {"FAULT_LATCHED", "RETRY_COOLDOWN"}
          [] b = "HISTORY"       -> c.fault_history_cause # {}
          [] b = "COOLDOWN"      -> c.smf = "RETRY_COOLDOWN"}

update_status_bits(c) == [c EXCEPT !.status_bits = status_of(c)]

\* apply_hw followed by update_status_bits, the usual end of a handler.
refresh(c) == update_status_bits(apply_hw(c))

(***************************************************************************)
(* Output actions, shared by the host command and by current protection    *)
(***************************************************************************)
start_graceful(c) ==
    [c EXCEPT !.ramp_to_disable = TRUE, !.output_enabled = TRUE,
              !.ramping = TRUE, !.smf = "RAMPING"]

cut_output(c, state) ==
    [c EXCEPT !.output_enabled = FALSE, !.ramping = FALSE, !.ramp_to_disable = FALSE,
              !.operational_target_voltage = 0, !.smf = state]

\* A fixed-voltage channel has nothing to ramp: every disable is a force.
apply_protection_action(c, action) ==
    LET a == IF channel_has_cap(c, "RAW_OUTPUT_DRIVE") THEN action ELSE "DISABLE_FORCE"
    IN  apply_hw(CASE a = "DISABLE_GRACEFUL"  -> start_graceful(c)
                   [] a = "DISABLE_IMMEDIATE" -> cut_output(c, "DISABLED_HV_ON")
                   [] a = "DISABLE_FORCE"     -> cut_output(c, "DISABLED_SAFE")
                   [] OTHER                   -> c)

\* Mutant: the capability of a disable is not checked.
output_action_unchecked(c, a) == TRUE

output_action_supported(c, a) ==
    a \in {"DISABLE_GRACEFUL", "DISABLE_IMMEDIATE", "DISABLE_FORCE"} =>
        channel_has_cap(c, "OUTPUT_ENABLE")

vc_channel_output_action(c, action) ==
    LET a == IF /\ ~channel_has_cap(c, "RAW_OUTPUT_DRIVE")
                /\ action \in {"DISABLE_GRACEFUL", "DISABLE_IMMEDIATE"}
             THEN "DISABLE_FORCE" ELSE action
    IN  IF a \notin OutputActions THEN Reply("INVALID_COMMAND", c)
        ELSE IF ~output_action_supported(c, a) THEN Reply("UNSUPPORTED_CAPABILITY", c)
        ELSE CASE a = "ENABLE" ->
                    IF c.active_fault_cause # {} THEN Reply("UNSAFE_STATE", c)
                    ELSE Reply("OK", refresh(
                           [c EXCEPT !.output_enabled = TRUE, !.ramping = TRUE,
                                     !.ramp_to_disable = FALSE, !.smf = "RAMPING"]))
               [] a = "DISABLE_GRACEFUL" ->
                    Reply("OK", refresh(start_graceful([c EXCEPT !.cooldown_remaining = 0])))
               [] a = "DISABLE_IMMEDIATE" ->
                    Reply("OK", refresh(cut_output(c, "DISABLED_HV_ON")))
               [] a = "DISABLE_FORCE" ->
                    Reply("OK", refresh(cut_output(c, "DISABLED_SAFE")))
               [] a = "NONE" -> Reply("OK", c)

(***************************************************************************)
(* Faults                                                                  *)
(***************************************************************************)
tick_current_protection(c) ==
    LET seen    == [c EXCEPT !.fault_history_cause = @ \cup {"CURRENT"}]
        tripped == [seen EXCEPT !.active_fault_cause = @ \cup {"CURRENT"}]
    IN  IF \/ c.active_fault_cause # {}
           \/ c.ramping
           \/ c.config.current_protection_mode = "DISABLED"
           \/ c.measured_current <= c.config.current_limit_threshold
        THEN c
        ELSE IF c.config.current_protection_mode # "APPLY_OUTPUT_ACTION" THEN seen
        ELSE [apply_protection_action(tripped, c.config.current_protection_output_action)
                EXCEPT !.smf = "FAULT_LATCHED"]

\* Mutant: the operational target survives the shutdown.
force_safe_state_keeps_target(c) ==
    apply_hw([c EXCEPT !.output_enabled = FALSE, !.ramping = FALSE, !.recovering = FALSE,
                       !.cooldown_remaining = 0, !.cal_output_enabled = FALSE,
                       !.raw_dac_readback = 0, !.smf = "DISABLED_SAFE"])

force_safe_state(c) ==
    apply_hw([c EXCEPT !.output_enabled = FALSE, !.ramping = FALSE, !.recovering = FALSE,
                       !.cooldown_remaining = 0, !.cal_output_enabled = FALSE,
                       !.raw_dac_readback = 0, !.operational_target_voltage = 0,
                       !.smf = "DISABLED_SAFE"])

is_safe_to_clear_active(c) ==
    "CURRENT" \in c.active_fault_cause =>
        c.measured_current <= CDiv(c.config.current_limit_threshold *
                                   (100 - c.config.current_safe_band_pct), 100)

vc_channel_fault_command(c, cmd) ==
    IF cmd \notin FaultCommands THEN Reply("INVALID_COMMAND", c)
    ELSE IF cmd = "CLEAR_ACTIVE" /\ c.active_fault_cause # {}
    THEN IF ~is_safe_to_clear_active(c) THEN Reply("UNSAFE_STATE", c)
         ELSE Reply("OK", update_status_bits([c EXCEPT !.active_fault_cause = {},
                                                       !.smf = "DISABLED_SAFE"]))
    ELSE IF cmd = "CLEAR_HISTORY"
    THEN Reply("OK", update_status_bits([c EXCEPT !.fault_history_cause = {}]))
    ELSE Reply("OK", update_status_bits(c))

vc_channel_consume_fault(c, cause) ==
    update_status_bits(force_safe_state(
        [c EXCEPT !.active_fault_cause = @ \cup {cause},
                  !.fault_history_cause = @ \cup {cause}]))

(***************************************************************************)
(* The periodic step                                                       *)
(***************************************************************************)
vc_channel_consume_voltage(c, raw) ==
    update_status_bits([c EXCEPT !.measured_voltage =
        clamp_int16(apply_gain(raw, c.cal_config.measured_voltage_calib_k,
                               c.cal_config.measured_voltage_calib_k_exp)
                    + c.cal_config.measured_voltage_calib_b)])

vc_channel_consume_current(c, raw) ==
    LET m == [c EXCEPT !.measured_current =
                 clamp_int16(apply_gain(raw, c.cal_config.measured_current_calib_k,
                                        c.cal_config.measured_current_calib_k_exp)
                             + c.cal_config.measured_current_calib_b)]
    IN  update_status_bits(tick_current_protection(m))

ramp_target(c) ==
    IF c.ramp_to_disable THEN 0
    ELSE IF c.recovering THEN c.recovery_target
    ELSE c.config.configured_target_voltage

\* Mutant: the end of a ramp forgets that it was a disable.
ramp_done_holds(c) ==
    [c EXCEPT !.ramping = FALSE, !.recovering = FALSE, !.smf = "ENABLED_HOLDING"]

ramp_done(c) ==
    IF c.ramp_to_disable
    THEN [c EXCEPT !.ramping = FALSE, !.ramp_to_disable = FALSE,
                   !.output_enabled = FALSE, !.smf = "DISABLED_SAFE"]
    ELSE [c EXCEPT !.ramping = FALSE, !.recovering = FALSE, !.smf = "ENABLED_HOLDING"]

\* Mutant: a fault does not hold the ramp.
ramp_never_blocked(c) == FALSE

\* Only the ramp down of a graceful disable goes on under a fault.
ramp_blocked(c) == c.active_fault_cause # {} /\ ~c.ramp_to_disable

\* Reaching the target without a step (the first branch) refreshes neither the
\* hardware nor the status bits unless the ramp was a disable.
vc_channel_tick_ramp(c, dt) ==
    LET target   == ramp_target(c)
        current  == c.operational_target_voltage
        step     == IF current < target THEN c.config.ramp_up_step
                                        ELSE c.config.ramp_down_step
        interval == IF current < target THEN c.config.ramp_up_interval
                                        ELSE c.config.ramp_down_interval
        walked   == ramp_walk(current, target, step, interval,
                              (c.ramp_accum + dt) % UptimeMod)
        moved    == [c EXCEPT !.ramping = TRUE, !.ramp_accum = walked.accum,
                              !.operational_target_voltage = walked.current]
    IN  IF \/ ~c.output_enabled
           \/ ramp_blocked(c)
           \/ current = target /\ ~c.ramping
        THEN c
        ELSE IF current = target
        THEN IF c.ramp_to_disable THEN refresh(ramp_done(c)) ELSE ramp_done(c)
        ELSE IF step = 0 \/ interval = 0
        THEN refresh(ramp_done([c EXCEPT !.operational_target_voltage = target]))
        ELSE refresh(IF walked.current = target THEN ramp_done(moved) ELSE moved)

count_active_retries(c) ==
    Cardinality({k \in 1 .. Len(c.retry_ages) :
                    c.retry_ages[k] <= c.config.auto_retry_window})

\* Mutant: a full history keeps its oldest entries.
record_retry_keeps_oldest(c) ==
    [c EXCEPT !.retry_ages = IF Len(@) < MaxRetryHistory THEN Append(@, 0) ELSE @]

record_retry_attempt(c) ==
    [c EXCEPT !.retry_ages =
        Append(IF Len(@) < MaxRetryHistory THEN @ ELSE Tail(@), 0)]

retry_exhausted(c) ==
    update_status_bits([c EXCEPT !.active_fault_cause = @ \cup {"RETRY_EXHAUST"},
                                 !.smf = "FAULT_LATCHED"])

retry_target(c) ==
    IF c.config.recovery_policy_mode = "AUTO_DERATE_RETRY"
    THEN c.config.configured_target_voltage
           - (count_active_retries(c) + 1) * c.config.auto_derate_step
    ELSE c.config.configured_target_voltage

\* The state machine stays in RETRY_COOLDOWN: the ramp that follows leaves it.
start_retry(c) ==
    refresh([record_retry_attempt(c) EXCEPT
                !.active_fault_cause = {}, !.recovering = TRUE,
                !.recovery_target = retry_target(c), !.output_enabled = TRUE])

retry_eligible(c, sys_mode) ==
    /\ sys_mode = "AUTOMATIC"
    /\ c.active_fault_cause = {"CURRENT"}
    /\ c.config.recovery_policy_mode \in {"AUTO_RETRY", "AUTO_DERATE_RETRY"}
    /\ ~c.ramping

\* Mutant: every tick starts the cooldown afresh.
restart_cooldown(c) ==
    update_status_bits([c EXCEPT !.cooldown_remaining = c.config.auto_retry_delay,
                                 !.smf = "RETRY_COOLDOWN"])

enter_cooldown(c) ==
    IF c.smf = "RETRY_COOLDOWN" THEN c
    ELSE update_status_bits([c EXCEPT !.cooldown_remaining = c.config.auto_retry_delay,
                                      !.smf = "RETRY_COOLDOWN"])

tick_recovery(c, dt, sys_mode) ==
    LET cooling == enter_cooldown(c)
        cooled  == [cooling EXCEPT !.cooldown_remaining = 0]
    IN  IF ~retry_eligible(c, sys_mode) THEN c
        ELSE IF cooling.cooldown_remaining > dt
        THEN [cooling EXCEPT !.cooldown_remaining = @ - dt]
        ELSE IF ~is_safe_to_clear_active(cooled) THEN cooled
        ELSE IF \/ count_active_retries(cooled) >= cooled.config.auto_retry_max_count
                \/ /\ cooled.config.recovery_policy_mode = "AUTO_DERATE_RETRY"
                   /\ retry_target(cooled) <= 0
        THEN retry_exhausted(cooled)
        ELSE start_retry(cooled)

\* vc_channel_run: the clock, the fresh samples, the ramp, the recovery.  A sample is raw counts, or NoSample.
vc_channel_run(c, dt, raw_voltage, raw_current, sys_mode) ==
    LET aged == [c EXCEPT !.retry_ages =
                    [k \in DOMAIN @ |-> (@[k] + dt) % UptimeMod]]
        v    == IF raw_voltage = NoSample THEN aged
                ELSE vc_channel_consume_voltage(aged, raw_voltage)
        i    == IF raw_current = NoSample THEN v
                ELSE vc_channel_consume_current(v, raw_current)
    IN  tick_recovery(vc_channel_tick_ramp(i, dt), dt, sys_mode)

(***************************************************************************)
(* Configuration                                                           *)
(***************************************************************************)
DriveFields   == {"configured_target_voltage", "ramp_up_step", "ramp_up_interval",
                  "ramp_down_step", "ramp_down_interval"}
CurrentFields == {"current_protection_mode", "current_protection_output_action",
                  "current_limit_threshold"}

\* Mutants: configured_output_enabled is accepted everywhere; the target has no
\* upper bound.
field_supported_enable(c, field) ==
    field \in DriveFields => channel_has_cap(c, "RAW_OUTPUT_DRIVE")
field_valid_unbounded(field, value) ==
    IF field = "configured_target_voltage" THEN value >= 0 ELSE TRUE

\* Values are those the code compares, after its cast to int16_t or to bool.
field_supported(c, field) ==
    /\ field \in DriveFields => channel_has_cap(c, "RAW_OUTPUT_DRIVE")
    /\ field = "configured_output_enabled" => /\ ~channel_has_cap(c, "RAW_OUTPUT_DRIVE")
                                              /\ channel_has_cap(c, "OUTPUT_ENABLE")
    /\ field \in CurrentFields => channel_has_cap(c, "CURRENT_MEASUREMENT")
    /\ field = "auto_derate_step" => /\ channel_has_cap(c, "RAW_OUTPUT_DRIVE")
                                     /\ channel_has_cap(c, "VOLTAGE_MEASUREMENT")

field_valid(field, value) ==
    CASE field = "configured_target_voltage" -> value \in 0 .. MaxTarget
      [] field = "auto_retry_max_count"      -> value <= MaxRetryHistory
      [] field = "current_limit_threshold"   -> value >= 0
      [] field = "current_protection_mode"   -> value \in ProtectionModes
      [] field = "current_protection_output_action" -> value \in ProtectionActions
      [] OTHER -> TRUE

vc_channel_set_field(c, field, value) ==
    IF ~field_supported(c, field) THEN Reply("UNSUPPORTED_CAPABILITY", c)
    ELSE IF ~field_valid(field, value) THEN Reply("INVALID_VALUE", c)
    ELSE Reply("OK", refresh([c EXCEPT !.config[field] = value]))

validate_capability_config(c, new) ==
    LET same(fields) == \A f \in fields : new[f] = c.config[f]
    IN  /\ IF channel_has_cap(c, "RAW_OUTPUT_DRIVE")
           THEN same({"configured_output_enabled"})
           ELSE /\ new.configured_target_voltage = 0
                /\ same(DriveFields \ {"configured_target_voltage"})
        /\ ~channel_has_cap(c, "OUTPUT_ENABLE") => same({"configured_output_enabled"})
        /\ ~channel_has_cap(c, "CURRENT_MEASUREMENT") =>
               /\ new.current_protection_mode = "DISABLED"
               /\ same(CurrentFields \ {"current_protection_mode"})
        /\ ~({"RAW_OUTPUT_DRIVE", "VOLTAGE_MEASUREMENT"} \subseteq c.capabilities) =>
               same({"auto_derate_step"})

vc_channel_set_config(c, new) ==
    IF ~validate_capability_config(c, new) THEN Reply("UNSUPPORTED_CAPABILITY", c)
    ELSE IF \/ new.configured_target_voltage \notin 0 .. MaxTarget
            \/ new.current_limit_threshold < 0
            \/ new.current_protection_mode \notin ProtectionModes
            \/ new.current_protection_output_action \notin ProtectionActions
    THEN Reply("INVALID_VALUE", c)
    ELSE Reply("OK", refresh([c EXCEPT !.config = new]))

(***************************************************************************)
(* Calibration session                                                     *)
(***************************************************************************)
vc_channel_reset_calibration(c, entering) ==
    refresh([c EXCEPT !.output_enabled = FALSE, !.ramping = FALSE, !.ramp_accum = 0,
                      !.cooldown_remaining = 0, !.operational_target_voltage = 0,
                      !.measured_voltage = 0, !.measured_current = 0,
                      !.raw_dac_readback = 0, !.cal_output_enabled = FALSE,
                      !.smf = IF entering THEN "CALIBRATION_OUTPUT" ELSE "DISABLED_SAFE"])

vc_channel_cal_set_output_enable(c, enable) ==
    IF ~channel_has_cap(c, "RAW_OUTPUT_DRIVE") THEN Reply("UNSUPPORTED_CAPABILITY", c)
    ELSE IF enable
    THEN IF has_hard_safety_fault(c) THEN Reply("UNSAFE_STATE", c)
         ELSE Reply("OK", apply_hw([c EXCEPT !.cal_output_enabled = TRUE]))
    ELSE Reply("OK", apply_hw([c EXCEPT !.cal_output_enabled = FALSE,
                                        !.raw_dac_readback = 0]))

\* Mutant: the new code is only remembered.
cal_set_raw_dac_deferred(c, code) ==
    IF \/ ~channel_has_cap(c, "RAW_OUTPUT_DRIVE")
       \/ code > MaxRawDac
       \/ code # 0 /\ (has_hard_safety_fault(c) \/ ~c.cal_output_enabled)
    THEN Reply("INVALID_VALUE", c)
    ELSE Reply("OK", [c EXCEPT !.raw_dac_readback = code])

vc_channel_cal_set_raw_dac(c, code) ==
    IF ~channel_has_cap(c, "RAW_OUTPUT_DRIVE") THEN Reply("UNSUPPORTED_CAPABILITY", c)
    ELSE IF code > MaxRawDac THEN Reply("INVALID_VALUE", c)
    ELSE IF code # 0 /\ (has_hard_safety_fault(c) \/ ~c.cal_output_enabled)
    THEN Reply("UNSAFE_STATE", c)
    ELSE Reply("OK", apply_hw([c EXCEPT !.raw_dac_readback = code]))

\* Only the status matters to the controller: the raw ADC latches are left out.
vc_channel_cal_sample(c) ==
    IF c.capabilities \cap {"VOLTAGE_MEASUREMENT", "CURRENT_MEASUREMENT"} = {}
    THEN Reply("UNSUPPORTED_CAPABILITY", c) ELSE Reply("OK", c)

vc_channel_cal_commit(c) ==
    IF c.cal_output_enabled \/ c.raw_dac_readback # 0 \/ has_hard_safety_fault(c)
    THEN Reply("UNSAFE_STATE", c) ELSE Reply("OK", c)

CalExpFields == {"output_calib_k_exp", "measured_voltage_calib_k_exp",
                 "measured_current_calib_k_exp"}

vc_channel_set_cal_field(c, field, value) ==
    IF field \in CalExpFields /\ value \notin CalExp THEN Reply("INVALID_VALUE", c)
    ELSE Reply("OK", apply_hw([c EXCEPT !.cal_config[field] = value]))

vc_channel_load_cal(c, cal) == apply_hw([c EXCEPT !.cal_config = cal])

\* vc_channel_init: everything zero, the defaults, the initial state.  config is
\* the default configuration after the driver's get_dt_defaults, which may also
\* set a current offset (data, and left out of DefaultCal).  The
\* driver's own initialisation leaves the output off.
vc_channel_init(caps, config) ==
    [capabilities |-> caps, config |-> config, cal_config |-> DefaultCal,
     smf |-> "DISABLED_SAFE",
     output_enabled |-> FALSE, ramping |-> FALSE, ramp_to_disable |-> FALSE,
     recovering |-> FALSE, recovery_target |-> 0,
     operational_target_voltage |-> 0, ramp_accum |-> 0,
     cooldown_remaining |-> 0, retry_ages |-> << >>,
     active_fault_cause |-> {}, fault_history_cause |-> {},
     measured_voltage |-> 0, measured_current |-> 0,
     cal_output_enabled |-> FALSE, raw_dac_readback |-> 0,
     status_bits |-> {}, hw |-> [enable |-> FALSE, code |-> 0]]
=============================================================================
