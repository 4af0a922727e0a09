--------------------------- MODULE MCVcController ---------------------------
(***************************************************************************)
(* Instances of VcController for TLC: the channels of the two boards in    *)
(* small numbers, and the host inputs of each run.                         *)
(***************************************************************************)
EXTENDS VcDocumented

Dac   == {"OUTPUT_ENABLE", "RAW_OUTPUT_DRIVE", "VOLTAGE_MEASUREMENT", "CURRENT_MEASUREMENT"}
Fixed == {"OUTPUT_ENABLE", "VOLTAGE_MEASUREMENT", "CURRENT_MEASUREMENT"}
Locked == {"VOLTAGE_MEASUREMENT", "CURRENT_MEASUREMENT"}

OneDac        == [i \in {0} |-> Dac]
TwoDac        == [i \in {0, 1} |-> Dac]
LvbPair       == [i \in {0, 1} |-> IF i = 0 THEN Locked ELSE Fixed]

Config(enabled) ==
    [configured_target_voltage |-> 0, configured_output_enabled |-> enabled,
     ramp_up_step |-> 1, ramp_up_interval |-> 1,
     ramp_down_step |-> 1, ramp_down_interval |-> 1,
     recovery_policy_mode |-> "MANUAL_LATCH",
     auto_retry_delay |-> 1, auto_retry_max_count |-> 0, auto_retry_window |-> 2,
     current_safe_band_pct |-> 10,
     current_protection_mode |-> "DISABLED",
     current_protection_output_action |-> "DISABLE_IMMEDIATE",
     current_limit_threshold |-> 1, auto_derate_step |-> 1]

HvbConfig == Config(FALSE)
LvbConfig == Config(TRUE)

\* A board set up for graceful trips and derated retries.
RetryConfig ==
    [HvbConfig EXCEPT !.configured_target_voltage = 3,
                      !.current_protection_mode = "APPLY_OUTPUT_ACTION",
                      !.recovery_policy_mode = "AUTO_DERATE_RETRY",
                      !.auto_retry_max_count = 1, !.auto_retry_delay = 1,
                      !.auto_retry_window = 2,
                      !.current_protection_output_action = "DISABLE_GRACEFUL"]
\* The same for a channel without a DAC, which cannot derate.
FixedRetryConfig ==
    [LvbConfig EXCEPT !.current_protection_mode = "APPLY_OUTPUT_ACTION",
                      !.recovery_policy_mode = "AUTO_RETRY",
                      !.auto_retry_max_count = 1]
\* The same with retries at the full target.
GracefulRetryConfig ==
    [RetryConfig EXCEPT !.recovery_policy_mode = "AUTO_RETRY",
                        !.configured_target_voltage = 2, !.ramp_down_interval = 2,
                        !.auto_retry_delay = 2, !.auto_retry_window = 3]
TargetConfig == [HvbConfig EXCEPT !.configured_target_voltage = 1]

UnitCal ==
    [output_calib_k |-> 1, output_calib_b |-> 0, output_calib_k_exp |-> 0,
     measured_voltage_calib_k |-> 1, measured_voltage_calib_b |-> 0,
     measured_voltage_calib_k_exp |-> 0,
     measured_current_calib_k |-> 1, measured_current_calib_b |-> 0,
     measured_current_calib_k_exp |-> 0]

\* A board whose channels were saved with the given configuration.
Saved(config) == [NoSettings EXCEPT !.cfg = [i \in Channels |-> config]]

Blank              == {NoSettings}
SavedRetry         == {Saved(RetryConfig)}
SavedFixedRetry    == {Saved(FixedRetryConfig)}
SavedGracefulRetry == {Saved(GracefulRetryConfig)}
SavedTarget        == {Saved(TargetConfig)}

Write(field, values) == {[field |-> field, value |-> v] : v \in values}

\* Targets, steps and the window rewritten at any moment, and the graceful trip
\* switched off.  One target is too large; one step wraps a sum, one is
\* negative after its cast.
ProtectionWrites ==
    Write("configured_target_voltage", {0, 3, 4})
      \cup Write("ramp_up_step", {4}) \cup Write("ramp_down_step", {WordMax})
      \cup Write("current_protection_output_action", {"NONE"})
      \cup Write("auto_retry_window", {1, 2})
\* The ramp of a graceful trip slowed down, or cut short.
RampDownWrites == Write("ramp_down_interval", {0, 2})
\* Fields of every capability, written to channels that may lack it.
CapabilityWrites ==
    Write("configured_target_voltage", {1})
      \cup Write("ramp_up_step", {2})
      \cup Write("configured_output_enabled", BOOLEAN)
      \cup Write("auto_derate_step", {2})
DacWrites ==
    Write("configured_target_voltage", {1})
      \cup Write("configured_output_enabled", {TRUE})
      \cup Write("current_protection_mode", {"INVALID"})
CalWrites ==
    Write("output_calib_k", {2}) \cup Write("output_calib_k_exp", {-10, 0})

RunModes     == {"NORMAL", "AUTOMATIC"}
AllModes     == Modes \cup {"INVALID"}
AllActions   == OutputActions \cup {"INVALID"}
=============================================================================
