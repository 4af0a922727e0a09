----------------------------- MODULE VcSampling -----------------------------
(***************************************************************************)
(* How measurements reach the voltage controller: the sampling loop of a   *)
(* high-voltage channel over the ADS1232 (hvb_vc_channel.c), the averaging *)
(* of a low-voltage channel (lvb_vc_channel.c), the buffer both publish    *)
(* to, and the calibration sample that waits for the buffer to advance     *)
(* (vc_runtime.c), in the order write the DAC, then sample.                *)
(*                                                                         *)
(* The threads: boot starts the sampling and may be preempted; the work    *)
(* queues of the drivers and of the system are cooperative; the worker of  *)
(* the runtime runs the calibration commands below them.                   *)
(***************************************************************************)
EXTENDS Ads1232, FiniteSets

CONSTANTS
    Boards,         \* the channels to consider
    Oversample,     \* oversample_count
    MaxOvertaken,   \* bound: DRDY time-outs and stops in a behaviour
    MaxWrites       \* bound: writes of the DAC

ASSUME SamplingAssumption ==
    /\ Boards \subseteq {"hvb", "hvb_voltage", "hvb_current", "lvb"}
    /\ Oversample \in Nat \ {0}
    /\ MaxOvertaken \in Nat /\ MaxWrites \in Nat

VARIABLES
    board,
    active,         \* sampling_active
    phase, poll,    \* adc_phase; poll_work: idle, waiting, ready, timeout
    lvb,            \* accumulators, sample_count and pending work
    meas,           \* the measurement buffer: the last reading of each kind
    dac,            \* the output, as the number of DAC writes it took
    cmd,            \* the calibration sample under way
    latched,        \* the older of raw_adc_voltage and raw_adc_current
    beat, mixed, overtaken, base    \* ghosts

hvbVars == <<phase, poll>>
ghosts == <<beat, mixed, overtaken, base>>
vars == <<drdy, data, conv, a0, armed, seq, work, lock, caller, signal, buf, board, active,
          phase, poll, lvb, meas, dac, cmd, latched, beat, mixed, overtaken, base>>

Hvb == board # "lvb"
Kinds == CASE board = "hvb_voltage" -> {"voltage"}
           [] board = "hvb_current" -> {"current"}
           [] OTHER -> Inputs
First == IF "voltage" \in Kinds THEN "voltage" ELSE "current"

NoMeas == [of |-> "none", out |-> 0]
NoCmd == [at |-> "none", want |-> {}, fresh |-> {}, out |-> 0]
NoSample == [out |-> 0, fresh |-> FALSE]
Reading == [of : Inputs \cup {"average", "garbage", "none"}, out : 0..MaxWrites]

Init ==
    /\ AdsInit
    /\ board \in Boards
    /\ active = FALSE
    /\ phase = "voltage" /\ poll = "idle"
    /\ lvb = [accum |-> 0, count |-> 0, failed |-> 0, pending |-> FALSE,
             sum |-> Oversample, lost |-> 0]
    /\ meas = [k \in Inputs |-> NoMeas]
    /\ dac = 0
    /\ cmd = NoCmd
    /\ latched = NoSample
    /\ beat = FALSE /\ mixed = 0 /\ overtaken = 0
    /\ base = [prev |-> 0, last |-> 0]

-----------------------------------------------------------------------------
(* Publication: the buffer takes the reading and its time, a sample that
   waits is told.                                                          *)

Publish(kinds, r) ==
    /\ meas' = [k \in Inputs |-> IF k \in kinds THEN r ELSE meas[k]]
    /\ cmd' = IF cmd.at = "wait" THEN [cmd EXCEPT !.fresh = @ \cup kinds] ELSE cmd
    /\ beat' = ~beat

-----------------------------------------------------------------------------
(* hvb_vc_channel.c                                                        *)

\* Mutant: a new cycle keeps the phase of the last.
NextCycle_phase(by) ==
    /\ UNCHANGED phase
    /\ caller' = by
    /\ ReadAsync(First, dac)

(* hvb_vc_start_next_cycle, up to the first step of read_async. *)
NextCycle(by) ==
    /\ phase' = First
    /\ caller' = by
    /\ ReadAsync(First, dac)

hvb_vc_start_sampling ==
    /\ Hvb /\ ~active /\ lock = "free" /\ poll = "idle"
    /\ active' = TRUE
    /\ NextCycle("boot")
    /\ UNCHANGED <<board, poll, lvb, meas, dac, cmd, latched, beat, mixed, overtaken, base>>

(* The rest of read_async, and k_work_poll_submit after it.  The boot thread
   waits for the system work queue whenever that can run. *)
Runs == caller = "boot" => ~WorkQueueReady

Armed == Runs /\ ReadAsyncArm
Guarded == Runs /\ ReadAsyncGuard

hvb_vc_submit_read ==
    /\ lock = "done" /\ Runs
    /\ lock' = "free"
    /\ caller' = "boot"
    /\ poll' = IF signal THEN "ready" ELSE "waiting"
    /\ UNCHANGED <<drdy, data, conv, a0, armed, seq, work, signal, buf, phase>>

(* The time-out of the poll, while the answer is still out. *)
DrdyTimeout ==
    /\ poll = "waiting" /\ overtaken < MaxOvertaken
    /\ poll' = "timeout"
    /\ overtaken' = overtaken + 1
    /\ UNCHANGED <<adsVars, phase, board, active, lvb, meas, dac, cmd, latched, beat, mixed,
                   base>>

(* hvb_vc_poll_handler *)
CanHandle == lock = "free" /\ work \notin {"running", "requeued"}

PollTimedOut ==
    /\ poll = "timeout" /\ CanHandle
    /\ poll' = "idle"
    /\ IF active THEN NextCycle("workq")
       ELSE UNCHANGED <<adsVars, phase>>
    /\ UNCHANGED <<board, active, lvb, meas, dac, cmd, latched, ghosts>>

PollResult ==
    /\ poll = "ready" /\ CanHandle
    /\ poll' = "idle"
    /\ Publish({phase}, buf)
    /\ mixed' = mixed + (IF buf.of \in Inputs \ {phase} THEN 1 ELSE 0)
    /\ \/ /\ phase = "voltage" /\ "current" \in Kinds
          /\ phase' = "current"
          /\ caller' = "workq"
          /\ ReadAsync("current", dac)
       \/ /\ ~(phase = "voltage" /\ "current" \in Kinds)
          /\ IF active THEN NextCycle("workq") ELSE UNCHANGED <<adsVars, phase>>
    /\ UNCHANGED <<board, active, lvb, dac, latched, overtaken, base>>

(* The interrupt, the read-out and the signal that ends the poll. *)
Converts ==
    /\ Hvb
    /\ ConversionEnds(dac)
    /\ UNCHANGED <<board, active, phase, poll, lvb, meas, dac, cmd, latched, ghosts>>

ReadOut ==
    /\ \/ WorkStarts /\ UNCHANGED poll
       \/ /\ ads1232_async_work_handler(dac)
          /\ poll' = IF signal' /\ poll = "waiting" THEN "ready" ELSE poll
    /\ UNCHANGED <<board, active, phase, lvb, meas, dac, cmd, latched, ghosts>>

SubmitSteps ==
    /\ \/ (Armed \/ Guarded) /\ UNCHANGED hvbVars
       \/ hvb_vc_submit_read
    /\ UNCHANGED <<board, active, lvb, meas, dac, cmd, latched, ghosts>>

(* The poll is cancelled, a read may stay pending. *)
hvb_vc_stop_sampling ==
    /\ Hvb /\ active /\ lock = "free" /\ overtaken < MaxOvertaken
    /\ active' = FALSE
    /\ poll' = IF poll = "waiting" THEN "idle" ELSE poll
    /\ overtaken' = overtaken + 1
    /\ UNCHANGED <<adsVars, board, phase, lvb, meas, dac, cmd, latched, beat, mixed, base>>

-----------------------------------------------------------------------------
(* lvb_vc_channel.c.  Every read adds One; the average that is published is
   kept as its sum, next to the number of reads of its window that failed. *)

One == 1

lvb_vc_start_sampling ==
    /\ board = "lvb" /\ ~active
    /\ active' = TRUE
    /\ lvb' = [lvb EXCEPT !.accum = 0, !.count = 0, !.failed = 0]
    /\ UNCHANGED <<adsVars, hvbVars, board, meas, dac, cmd, latched, ghosts>>

lvb_vc_timer_cb ==
    /\ board = "lvb" /\ active
    /\ lvb' = [lvb EXCEPT !.pending = TRUE]
    /\ UNCHANGED <<adsVars, hvbVars, board, active, meas, dac, cmd, latched, ghosts>>

\* Mutant: a window is published without its last read.
LvbPublished_late(l) ==
    [l EXCEPT !.sum = l.accum, !.lost = l.failed, !.accum = 0, !.count = 1, !.failed = 0]

(* The average is published and a new window begins. *)
LvbPublished(l) ==
    [l EXCEPT !.sum = l.accum, !.lost = l.failed, !.accum = 0, !.count = 0, !.failed = 0]

lvb_vc_sample_work_fn ==
    /\ board = "lvb" /\ lvb.pending
    /\ \/ /\ ~active
          /\ lvb' = [lvb EXCEPT !.pending = FALSE]
          /\ UNCHANGED <<meas, cmd, beat>>
       \/ /\ active
          /\ \E ok \in BOOLEAN :
               LET l == [lvb EXCEPT !.pending = FALSE,
                                    !.accum = IF ok THEN @ + One ELSE @,
                                    !.failed = IF ok THEN @ ELSE @ + 1,
                                    !.count = @ + 1]
               IN  IF l.count >= Oversample
                   THEN /\ lvb' = LvbPublished(l)
                        /\ Publish(Inputs, [of |-> "average", out |-> dac])
                   ELSE /\ lvb' = l
                        /\ UNCHANGED <<meas, cmd, beat>>
    /\ UNCHANGED <<adsVars, hvbVars, board, active, dac, latched, mixed, overtaken, base>>

lvb_vc_stop_sampling ==
    /\ board = "lvb" /\ active
    /\ active' = FALSE
    /\ UNCHANGED <<adsVars, hvbVars, board, lvb, meas, dac, cmd, latched, ghosts>>

-----------------------------------------------------------------------------
(* The worker: a DAC code, then a sample.  A command is taken up when the
   work queues and the boot thread have nothing to do.                     *)

WorkerRuns == work = "idle" /\ poll \in {"idle", "waiting"} /\ lock = "free" /\ ~lvb.pending

hvb_vc_set_output ==
    /\ WorkerRuns /\ Hvb /\ cmd = NoCmd /\ dac < MaxWrites
    /\ dac' = dac + 1
    /\ UNCHANGED <<adsVars, hvbVars, board, active, lvb, meas, cmd, latched, ghosts>>

(* vc_runtime_cal_sample_fresh: what was never published is not waited for. *)
CalSampleStart ==
    /\ WorkerRuns /\ cmd = NoCmd
    /\ cmd' = [at |-> "wait", want |-> {k \in Kinds : meas[k] # NoMeas}, fresh |-> {},
               out |-> dac]
    /\ UNCHANGED <<adsVars, hvbVars, board, active, lvb, meas, dac, latched, ghosts>>

\* Mutant: one fresh kind is enough.
Fresh_any == cmd.want = {} \/ cmd.fresh # {}

Fresh == cmd.want \subseteq cmd.fresh

(* The sample is latched when the wait ends, by a fresh reading of every kind
   or by its time-out. *)
CalSampleLatch ==
    /\ cmd.at = "wait"
    /\ latched' = [out |-> CHOOSE o \in {meas[k].out : k \in Kinds} :
                               \A k \in Kinds : o <= meas[k].out,
                    fresh |-> Fresh /\ cmd.want = Kinds]
    /\ base' = IF latched'.fresh THEN [prev |-> base.last, last |-> cmd.out] ELSE base
    /\ cmd' = NoCmd
    /\ UNCHANGED <<adsVars, hvbVars, board, active, lvb, meas, dac, beat, mixed, overtaken>>

-----------------------------------------------------------------------------
Next ==
    \/ hvb_vc_start_sampling \/ SubmitSteps \/ DrdyTimeout \/ PollTimedOut \/ PollResult
    \/ Converts \/ ReadOut \/ hvb_vc_stop_sampling
    \/ lvb_vc_start_sampling \/ lvb_vc_timer_cb \/ lvb_vc_sample_work_fn \/ lvb_vc_stop_sampling
    \/ hvb_vc_set_output \/ CalSampleStart \/ CalSampleLatch

(* The converter converts and the work queues run; the timer of the low-voltage
   channel fires, and the wait for a sample ends at its time-out. *)
Spec ==
    /\ Init /\ [][Next]_vars
    /\ WF_vars(Converts)
    /\ WF_vars(SubmitSteps) /\ WF_vars(ReadOut) /\ WF_vars(PollTimedOut) /\ WF_vars(PollResult)
    /\ WF_vars(lvb_vc_timer_cb) /\ WF_vars(lvb_vc_sample_work_fn)
    /\ WF_vars(CalSampleLatch)
-----------------------------------------------------------------------------
(* Properties                                                              *)

(* Type invariant. *)
TypeOK ==
    /\ drdy \in BOOLEAN /\ armed \in BOOLEAN /\ seq \in BOOLEAN /\ signal \in BOOLEAN
    /\ data \in Reading /\ buf \in Reading /\ conv \in 0..MaxWrites
    /\ a0 \in Inputs /\ phase \in Inputs
    /\ work \in {"idle", "queued", "running", "requeued"}
    /\ lock \in {"free", "arm", "guard", "done"}
    /\ poll \in {"idle", "waiting", "ready", "timeout"}
    /\ meas \in [Inputs -> Reading]
    /\ lvb.count \in 0..(Oversample - 1) /\ lvb.accum \in 0..(Oversample - 1)

(* A reading is published as what it is, the voltage or the current: every
   exception is due to a time-out, or a stop, that left the read of the other
   input pending, and each of them causes one at most.  The converter is
   clocked only when it has a result, although an interrupt and the look at the
   pin after arming may both ask for the same read-out. *)
ReadingsOfTheirKind ==
    /\ \A k \in Inputs : meas[k].of # "garbage"
    /\ mixed <= overtaken

(* A calibration sample that did not time out is at most one cycle old: all
   its readings began after the sample before it began. *)
SampleAtMostOneCycleOld ==
    latched.fresh => latched.out >= base.prev

(* The average of a low-voltage channel is made of exactly one window of
   reads: none is dropped, counted twice or left over from an earlier window
   or session.  A failed read counts as a reading of zero. *)
AverageOfOneWindow == lvb.sum + lvb.lost = Oversample

(* The reading of a calibration sample results from the code just written. *)
SampleAfterWrite == latched.fresh => latched.out >= base.last

(* Sampling goes on: no lost edge, time-out or refused read ends it.  A
   calibration sample ends, with fresh readings or at its time-out. *)
SamplingGoesOn ==
    /\ <>[]active => []<>beat /\ []<>~beat
    /\ (cmd.at = "wait") ~> (cmd.at = "none")
=============================================================================
