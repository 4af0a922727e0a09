---------------------------- MODULE VcDocumented ----------------------------
(***************************************************************************)
(* What the guides, the behaviour specification and comments of the        *)
(* repository say of the voltage controller, where the code does           *)
(* otherwise.  Each formula is a claim of a document; its run exhibits a   *)
(* behaviour of the code that contradicts it.                              *)
(***************************************************************************)
EXTENDS VcController

\* docs/superpowers/specs/2026-06-15-voltage-control-domain-behavior.md:111: an
\* Enable ramps toward the Configured Target Voltage.  An interrupted retry
\* leaves recovering and recovery_target behind for the next Enable.
EnableAimsAtConfigured ==
    \A i \in Channels :
        LET c == ctrl.channels[i]
        IN  c.smf = "RAMPING" /\ ~c.ramp_to_disable =>
                ramp_target(c) = c.config.configured_target_voltage

\* docs/guide/operating-mode-guide.md:144: RetryCooldown is reachable in
\* Automatic mode only.  A refused system LOAD has replaced sys_cfg already.
CooldownOnlyInAutomatic ==
    \A i \in Channels :
        ctrl.channels[i].smf = "RETRY_COOLDOWN" => ctrl.operating_mode = "AUTOMATIC"

\* docs/guide/vc-runtime-execution.md:409: leaving calibration resets every
\* channel.  The system factory reset leaves it by assigning the mode.
CalOutputOnlyInCalibration ==
    \A i \in Channels :
        ctrl.channels[i].cal_output_enabled => ctrl.operating_mode = "CALIBRATION"

\* dts/bindings/voltage_control/jianwei,lvb-vc-channel.yaml:57: the factory
\* default of a channel marked default-output-disabled is off.  A channel
\* factory reset gives it the default of the build.
FactoryDefaultOff ==
    [][\A i \in OffByDefault :
          ChannelFactoryReset(i) => ~ctrl'.channels[i].config.configured_output_enabled]_vars

\* docs/guide/parameter-reference.md:316: a ramp whose step exceeds the full-scale
\* range reaches its target in a single tick.  The step and the sum are int16_t.
LargeStepIsInstant ==
    [][\A i \in Channels, dt \in TickLengths :
          LET c == ctrl.channels[i]
              d == ctrl'.channels[i]
          IN  /\ Tick(dt)
              /\ c.output_enabled
              /\ c.active_fault_cause = {} /\ d.active_fault_cause = {}
              /\ c.operational_target_voltage < ramp_target(c)
              /\ c.config.ramp_up_step > MaxTarget
              /\ c.ramp_accum + dt >= c.config.ramp_up_interval
              => d.operational_target_voltage = ramp_target(c)]_vars
=============================================================================
