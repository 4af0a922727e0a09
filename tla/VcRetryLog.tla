----------------------------- MODULE VcRetryLog -----------------------------
(***************************************************************************)
(* The automatic retries as an observer with an unbounded clock sees them: *)
(* a history variable beside VcController that keeps, for every channel,   *)
(* the true age of each retry, oldest first.                               *)
(***************************************************************************)
EXTENDS VcController

CONSTANT LongestWindow    \* of auto_retry_window: 65535 s

VARIABLE retries

ASSUME LongestWindowAssumption == LongestWindow \in Nat

logVars == <<ctrl, nvs, retries>>

\* A tick that takes a channel out of its current fault is a retry: nothing
\* else in a tick clears a fault, and the current that trips a channel in a tick
\* is not safe to clear the fault in the same one.
Retried(i) ==
    /\ ctrl.channels[i].active_fault_cause = {"CURRENT"}
    /\ ctrl'.channels[i].active_fault_cause = {}

Older(ages, dt) == [k \in DOMAIN ages |-> ages[k] + dt]

\* A retry older than every window is forgotten.  One for each tick is enough, since
\* a tick adds at most one.
Remembered(ages) == IF ages # << >> /\ ages[1] > LongestWindow THEN Tail(ages) ELSE ages

LogInit == Init /\ retries = [i \in Channels |-> << >>]

LogTick(dt) ==
    /\ Tick(dt)
    /\ retries' = [i \in Channels |->
                      LET older == Remembered(Older(retries[i], dt))
                      IN  IF Retried(i) THEN Append(older, 0) ELSE older]

\* The history lives in RAM: a reset forgets it.
LogReboot == Reboot /\ retries' = [i \in Channels |-> << >>]

LogNext ==
    \/ \E dt \in TickLengths : LogTick(dt)
    \/ LogReboot
    \/ (OutputCommand \/ OtherCommand \/ DriverFault) /\ UNCHANGED retries

LogSpec == LogInit /\ [][LogNext]_logVars

\* The retries of channel i within its window.
Spent(i) == {k \in DOMAIN retries[i] : retries[i][k] <= ctrl.channels[i].config.auto_retry_window}

\* Between two resets a retry is started only if with it no more than
\* auto_retry_max_count lie within auto_retry_window, however these two are
\* rewritten, although the code keeps only the last CONFIG_VC_MAX_RETRY_HISTORY
\* time stamps, although their clock wraps and although it stands still during
\* calibration (count_active_retries, record_retry_attempt).
RetryBudget ==
    [][\A i \in Channels :
          Retried(i) /\ (\E dt \in TickLengths : LogTick(dt)) =>
              Cardinality(Spent(i)') <= ctrl'.channels[i].config.auto_retry_max_count]_logVars
=============================================================================
