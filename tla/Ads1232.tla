------------------------------- MODULE Ads1232 -------------------------------
(***************************************************************************)
(* The ADC driver in interrupt-driven mode (ads1232.c) and the converter   *)
(* it drives.  A read selects an input, throws away a result that waits    *)
(* already, arms the edge interrupt and looks at the pin once more; the    *)
(* interrupt hands the read-out to the system work queue.                  *)
(*                                                                         *)
(* The converter runs freely.  It holds the data-ready pin from the end of *)
(* a conversion to the read-out; the result belongs to the input selected  *)
(* and to the output as it was when the conversion began.                  *)
(***************************************************************************)
EXTENDS Naturals

VARIABLES
    drdy, data,     \* the pin is active, and the result behind it
    conv,           \* the output when the conversion under way began
    a0,             \* the selected input
    armed,          \* the edge interrupt is enabled
    seq,            \* async_seq: a read is pending
    work,           \* async_work: "idle", "queued", "running", "requeued"
    lock,           \* data->lock is held by a read_async: its step, or "free"
    caller,         \* the thread in read_async: "boot" or "workq"
    signal,         \* the result of the read has been signalled
    buf             \* the buffer of the sequence

adsVars == <<drdy, data, conv, a0, armed, seq, work, lock, caller, signal, buf>>

Inputs == {"voltage", "current"}
Garbage == [of |-> "garbage", out |-> 0]

AdsInit ==
    /\ drdy = FALSE /\ data = Garbage /\ conv = 0
    /\ a0 = "current"
    /\ armed = FALSE /\ seq = FALSE
    /\ work = "idle"
    /\ lock = "free" /\ caller = "boot"
    /\ signal = FALSE
    /\ buf = Garbage

-----------------------------------------------------------------------------
(* k_work_submit: work that is queued stays so, work that runs is queued
   to run again. *)
Submitted == CASE work = "idle" -> "queued"
               [] work = "running" -> "requeued"
               [] OTHER -> work

(* A conversion ends; the edge, if there is one, fires ads1232_drdy_isr. *)
ConversionEnds(out) ==
    /\ data' = [of |-> a0, out |-> conv]
    /\ conv' = out
    /\ drdy' = TRUE
    /\ IF ~drdy /\ armed
       THEN armed' = FALSE /\ work' = Submitted
       ELSE UNCHANGED <<armed, work>>
    /\ UNCHANGED <<a0, seq, lock, caller, signal, buf>>

(* ads1232_bitbang_read: clocked without a result the pins are garbage. *)
BitbangValue == IF drdy THEN data ELSE Garbage

(* ads1232_read_async refuses while a read is pending, before it selects the
   input; otherwise it goes on under the lock.  Another input starts a new
   conversion. *)
ReadAsync(input, out) ==
    \/ /\ seq
       /\ signal' = FALSE          \* k_poll_signal_reset in hvb_vc_submit_read
       /\ lock' = "done"
       /\ UNCHANGED <<drdy, data, conv, a0, armed, seq, work, buf>>
    \/ /\ ~seq
       /\ a0' = input
       /\ conv' = IF input = a0 THEN conv ELSE out
       /\ seq' = TRUE
       /\ signal' = FALSE
       /\ drdy' = FALSE            \* a stale result is read and thrown away
       /\ data' = Garbage
       /\ lock' = "arm"
       /\ UNCHANGED <<armed, work, buf>>

ReadAsyncArm ==
    /\ lock = "arm"
    /\ armed' = TRUE
    /\ lock' = "guard"
    /\ UNCHANGED <<drdy, data, conv, a0, seq, work, caller, signal, buf>>

\* Mutant: the pin is not looked at again.
ReadAsyncGuard_none ==
    /\ lock = "guard"
    /\ lock' = "done"
    /\ UNCHANGED <<drdy, data, conv, a0, armed, work, seq, caller, signal, buf>>

ReadAsyncGuard ==
    /\ lock = "guard"
    /\ lock' = "done"
    /\ IF drdy THEN armed' = FALSE /\ work' = Submitted ELSE UNCHANGED <<armed, work>>
    /\ UNCHANGED <<drdy, data, conv, a0, seq, caller, signal, buf>>

-----------------------------------------------------------------------------
(* The system work queue takes up the read-out; the cooperative queue of the
   channel driver keeps it waiting, the boot thread does not. *)
WorkStarts ==
    /\ work = "queued"
    /\ lock # "free" => caller = "boot"
    /\ work' = "running"
    /\ UNCHANGED <<drdy, data, conv, a0, armed, seq, lock, caller, signal, buf>>

Unlocked == lock \in {"free", "done"}
WorkQueueReady == work = "queued" \/ (work # "idle" /\ Unlocked)

(* ads1232_async_work_handler, once it has the mutex. *)
ads1232_async_work_handler(out) ==
    /\ work \in {"running", "requeued"} /\ Unlocked
    /\ work' = IF work = "requeued" THEN "queued" ELSE "idle"
    /\ IF seq
       THEN /\ buf' = BitbangValue
            /\ drdy' = FALSE
            /\ data' = Garbage
            /\ conv' = IF drdy THEN conv ELSE out
            /\ seq' = FALSE
            /\ signal' = TRUE
       ELSE UNCHANGED <<buf, drdy, data, conv, seq, signal>>
    /\ UNCHANGED <<a0, armed, lock, caller>>
=============================================================================
