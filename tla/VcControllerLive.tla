-------------------------- MODULE VcControllerLive --------------------------
(***************************************************************************)
(* What the ticks of the worker bring about.  Two history variables record *)
(* what VcController's state does not show: clock changes whenever the     *)
(* worker's last_tick does, and by says whether the last step was an       *)
(* output action of the host.                                              *)
(***************************************************************************)
EXTENDS VcController

VARIABLES clock, by

liveVars == <<ctrl, nvs, clock, by>>

LiveInit == Init /\ clock = 0 /\ by = "other"

TimePasses ==
    /\ \E dt \in TickLengths \ {0} : Tick(dt)
    /\ clock' = 1 - clock
    /\ by' = "other"

OutputStep ==
    /\ OutputCommand
    /\ by' = "output_action"
    /\ UNCHANGED clock

OtherStep ==
    /\ OtherCommand \/ DriverFault \/ Reboot \/ \E dt \in TickLengths \cap {0} : Tick(dt)
    /\ by' = "other"
    /\ UNCHANGED clock

LiveNext == TimePasses \/ OutputStep \/ OtherStep

\* The worker takes its semaphore with a timeout of one tick interval and every
\* pass ends with a tick, so time goes on in ticks whatever the host does.  A
\* tick is never disabled; fairness is stated of the clock it advances.
FairSpec == LiveInit /\ [][LiveNext]_liveVars /\ WF_clock(clock' = 1 - clock)

\* A graceful disable, asked for by the host, by a mode switch or by current
\* protection, is finished by the ticks: the output goes off, unless it is
\* enabled again (vc_channel_tick_ramp).
GracefulDisableEnds ==
    \A i \in Channels :
        /\ ctrl.channels[i].ramp_to_disable
        /\ ctrl.channels[i].ramping
        ~> \/ ~ctrl.channels[i].output_enabled
           \/ ~ctrl.channels[i].ramp_to_disable

\* A calibration session that nobody keeps alive ends: once no command resets
\* the watchdog any more, calibration mode is left again and again
\* (vc_controller_tick).
CalSessionEnds ==
    <>[][ctrl'.cal_watchdog <= ctrl.cal_watchdog]_vars =>
        []<>(ctrl.operating_mode # "CALIBRATION")

\* The automatic recovery is due: the mode, the policy, the fault and the
\* measured current all allow it.
RecoveryDue(i) ==
    LET c == ctrl.channels[i]
    IN  /\ ctrl.operating_mode # "CALIBRATION"
        /\ ctrl.sys_cfg.operating_mode = "AUTOMATIC"
        /\ c.active_fault_cause = {"CURRENT"}
        /\ c.config.recovery_policy_mode \in {"AUTO_RETRY", "AUTO_DERATE_RETRY"}
        /\ is_safe_to_clear_active(c)

\* A recovery that stays due is not forgotten: unless the host keeps sending
\* output actions, the channel is retried or latched as exhausted
\* (tick_recovery).
RecoveryHappens ==
    \A i \in Channels : <>[](by # "output_action") => ~<>[]RecoveryDue(i)
=============================================================================
