-------------------------- MODULE VcSampling_proofs --------------------------
(***************************************************************************)
(* What the sampling of a channel guarantees for every oversampling count  *)
(* and every number of time-outs, stops and writes of the DAC: a reading   *)
(* is of its kind, a calibration sample is of its cycle, an average is of  *)
(* its window.                                                             *)
(*                                                                         *)
(* The inductive invariant has four layers.  SamplingTypes types the state *)
(* and holds the window of the averaging.  ReadProtocol says, step by step *)
(* of read_async, who still owes the read its read-out: the armed edge or  *)
(* the work that was submitted, never neither and never a work without a   *)
(* result.  Mixing pays for every reading that will be published as the    *)
(* other kind with a time-out or a stop.  Ages follows the output from the *)
(* conversion over the buffer to the sample.                               *)
(***************************************************************************)
EXTENDS VcSampling, TLAPS

-----------------------------------------------------------------------------
(* The inductive invariant                                                 *)

LvbState == [accum : Nat, count : Nat, failed : Nat, pending : BOOLEAN, sum : Nat, lost : Nat]

Window ==
    /\ lvb \in LvbState
    /\ lvb.accum + lvb.failed = lvb.count
    /\ lvb.count < Oversample
    /\ lvb.sum + lvb.lost = Oversample

Commands == [at : {"none", "wait"}, want : SUBSET Inputs, fresh : SUBSET Inputs,
             out : 0..MaxWrites]

SamplingTypes ==
    /\ drdy \in BOOLEAN /\ armed \in BOOLEAN /\ seq \in BOOLEAN /\ signal \in BOOLEAN
    /\ data \in Reading /\ buf \in Reading
    /\ conv \in 0..MaxWrites /\ dac \in 0..MaxWrites
    /\ a0 \in Inputs /\ phase \in Inputs
    /\ work \in {"idle", "queued", "running", "requeued"}
    /\ lock \in {"free", "arm", "guard", "done"}
    /\ caller \in {"boot", "workq"}
    /\ poll \in {"idle", "waiting", "ready", "timeout"}
    /\ board \in Boards
    /\ meas \in [Inputs -> Reading]
    /\ cmd \in Commands
    /\ latched \in [out : 0..MaxWrites, fresh : BOOLEAN]
    /\ base \in [prev : 0..MaxWrites, last : 0..MaxWrites]
    /\ mixed \in Nat /\ overtaken \in Nat

(* The read-out is owed by the armed edge, or by the work with the result at
   the pin. *)
OwedByEdge == armed /\ ~drdy /\ work = "idle"
OwedByWork == ~armed /\ drdy /\ work # "idle"

ReadProtocol ==
    /\ lock = "free" => \/ ~seq /\ ~armed /\ work = "idle"
                        \/ seq /\ OwedByEdge
                        \/ seq /\ OwedByWork /\ work # "requeued"
    /\ lock = "arm" => seq /\ ~armed /\ work = "idle"
    /\ lock = "guard" => seq /\ \/ armed /\ work = "idle"
                                \/ OwedByWork /\ work # "requeued"
    /\ lock = "done" => \/ ~seq /\ ~armed /\ signal /\ (work # "idle" => caller = "boot")
                        \/ seq /\ (OwedByEdge \/ OwedByWork)
    /\ lock # "free" /\ caller = "workq" => work \in {"idle", "queued"}
    /\ lock # "free" => poll = "idle"
    /\ poll = "ready" => signal
    /\ poll = "waiting" => seq
    /\ signal => ~seq /\ buf.of = a0
    /\ drdy => data.of = a0
    /\ \A k \in Inputs : meas[k].of # "garbage"

(* The read under way will be, or may still be, published as the other kind. *)
Debt ==
    \/ poll = "timeout"
    \/ poll = "idle" /\ lock = "free" /\ seq
    \/ a0 # phase /\ (poll \in {"waiting", "ready"} \/ lock # "free")

Mixing ==
    /\ mixed <= overtaken
    /\ Debt => mixed < overtaken

(* Nothing that could be published was converted before the sample began. *)
NothingOnTheWay ==
    /\ cmd.fresh = {}
    /\ work = "idle" /\ poll # "ready"
    /\ seq => ~drdy
    /\ lock # "free" => ~signal

Ages ==
    /\ conv <= dac /\ base.last <= conv
    /\ board = "lvb" => dac = 0
    /\ cmd.at = "wait" =>
         /\ cmd.out <= dac
         /\ cmd.out <= conv \/ NothingOnTheWay
         /\ seq /\ drdy => base.last <= data.out
         /\ poll = "ready" \/ (lock # "free" /\ signal) => base.last <= buf.out
         /\ \A k \in cmd.fresh : base.last <= meas[k].out
    /\ SampleAtMostOneCycleOld

SamplingInv == SamplingTypes /\ Window /\ ReadProtocol /\ Mixing /\ Ages

-----------------------------------------------------------------------------
(* The operators of the model                                              *)

(* Every result the code can publish is a reading. *)
LEMMA ReadingsTyped ==
    /\ Garbage \in Reading /\ NoMeas \in Reading
    /\ \A o \in 0..MaxWrites :
         /\ \A i \in Inputs : [of |-> i, out |-> o] \in Reading
         /\ [of |-> "average", out |-> o] \in Reading
    /\ \A r \in Reading : r.out \in 0..MaxWrites
BY SamplingAssumption DEF Garbage, NoMeas, Reading

(* A cycle begins with a kind the channel has. *)
LEMMA CycleOfTheBoard ==
    ASSUME board \in Boards
    PROVE  First \in Inputs /\ Kinds \in {{"voltage"}, {"current"}, Inputs}
BY SamplingAssumption DEF First, Kinds, Inputs

(* k_work_submit leaves work that is idle no longer, and runs it again. *)
LEMMA WorkSubmitted ==
    ASSUME work \in {"idle", "queued", "running", "requeued"}
    PROVE  /\ Submitted \in {"queued", "requeued"}
           /\ work \in {"idle", "queued"} => Submitted = "queued"
BY DEF Submitted

(* read_async keeps the driver well typed. *)
LEMMA ReadAsyncTyped ==
    ASSUME SamplingTypes, NEW input \in Inputs, ReadAsync(input, dac)
    PROVE  /\ drdy' \in BOOLEAN /\ seq' \in BOOLEAN /\ signal' \in BOOLEAN
           /\ armed' = armed /\ work' = work /\ buf' = buf
           /\ data' \in Reading /\ conv' \in 0..MaxWrites /\ a0' \in Inputs
           /\ lock' \in {"arm", "done"}
BY ReadingsTyped DEF SamplingTypes, ReadAsync

(* A publication is seen by every reader of the buffer and by the sample that
   waits for it. *)
LEMMA Published ==
    ASSUME SamplingTypes, NEW kinds \in SUBSET Inputs, NEW r \in Reading, Publish(kinds, r)
    PROVE  /\ meas' \in [Inputs -> Reading]
           /\ \A k \in Inputs : meas'[k] = IF k \in kinds THEN r ELSE meas[k]
           /\ cmd' \in Commands /\ cmd'.at = cmd.at /\ cmd'.out = cmd.out
           /\ cmd'.fresh \subseteq cmd.fresh \cup kinds
BY DEF SamplingTypes, Publish, Commands

(* A window stays typed when its fields are assigned. *)
LEMMA LvbStateTyped ==
    ASSUME NEW l \in LvbState, NEW p \in BOOLEAN, NEW a \in Nat, NEW f \in Nat, NEW c \in Nat
    PROVE  [l EXCEPT !.pending = p, !.accum = a, !.failed = f, !.count = c] \in LvbState
BY Zenon DEF LvbState

(* The work that is pending or not is no part of the window. *)
LEMMA WindowKept ==
    ASSUME Window, NEW b \in BOOLEAN, lvb' = [lvb EXCEPT !.pending = b]
    PROVE  Window'
<1>1. lvb' \in LvbState
  BY DEF Window, LvbState
<1>2. /\ lvb'.accum = lvb.accum /\ lvb'.count = lvb.count /\ lvb'.failed = lvb.failed
      /\ lvb'.sum = lvb.sum /\ lvb'.lost = lvb.lost
  BY DEF Window, LvbState
<1>3. QED
  BY <1>1, <1>2 DEF Window

-----------------------------------------------------------------------------
(* The invariant holds at the start and every step keeps it.               *)

LEMMA SamplingBegins == Init => SamplingInv
<1> SUFFICES ASSUME Init PROVE SamplingInv
  OBVIOUS
<1>1. SamplingTypes
  <2>1. 0 \in 0..MaxWrites /\ NoMeas \in Reading /\ Garbage \in Reading
    BY SamplingAssumption, ReadingsTyped
  <2>2. cmd \in Commands /\ meas \in [Inputs -> Reading]
    BY <2>1 DEF Init, NoCmd, Commands
  <2>3. QED
    BY <2>1, <2>2 DEF Init, AdsInit, SamplingTypes, NoSample, Inputs
<1>2. Window
  <2>1. lvb \in LvbState
    BY SamplingAssumption DEF Init, LvbState
  <2>2. QED
    BY <2>1, SamplingAssumption DEF Init, Window
<1>3. ReadProtocol /\ Mixing
  BY DEF Init, AdsInit, ReadProtocol, Mixing, Debt, NoMeas
<1>4. Ages
  BY DEF Init, AdsInit, Ages, SampleAtMostOneCycleOld, NoCmd, NoSample
<1>5. QED
  BY <1>1, <1>2, <1>3, <1>4 DEF SamplingInv

(* The sampling of a high-voltage channel starts, perhaps with a read of an
   earlier session still pending. *)
LEMMA StartKeeps == SamplingInv /\ hvb_vc_start_sampling => SamplingInv'
<1> SUFFICES ASSUME SamplingInv, hvb_vc_start_sampling PROVE SamplingInv'
  OBVIOUS
<1>c. First \in Inputs
  BY CycleOfTheBoard DEF SamplingInv, SamplingTypes
<1>1. SamplingTypes'
  BY <1>c, ReadAsyncTyped DEF SamplingInv, SamplingTypes, hvb_vc_start_sampling,
     NextCycle
<1>2. Window'
  BY DEF SamplingInv, Window, hvb_vc_start_sampling, NextCycle, ReadAsync
<1>3. ReadProtocol'
  BY <1>c DEF SamplingInv, SamplingTypes, ReadProtocol, OwedByEdge, OwedByWork,
     Inputs, hvb_vc_start_sampling, NextCycle, ReadAsync
<1>4. Mixing'
  BY <1>c DEF SamplingInv, SamplingTypes, ReadProtocol, Mixing, Debt, Inputs,
     hvb_vc_start_sampling, NextCycle, ReadAsync
<1>5. Ages'
  BY <1>c DEF SamplingInv, SamplingTypes, ReadProtocol, OwedByEdge, OwedByWork,
     Ages, NothingOnTheWay, SampleAtMostOneCycleOld, Reading, Commands, Inputs,
     hvb_vc_start_sampling, NextCycle, ReadAsync
<1>6. QED
  BY <1>1, <1>2, <1>3, <1>4, <1>5 DEF SamplingInv

(* What the steps of read_async and of the read-out leave alone. *)
SubmitFrame == UNCHANGED <<board, active, lvb, meas, dac, cmd, latched, ghosts>>
ReadOutFrame == UNCHANGED <<board, active, phase, lvb, meas, dac, cmd, latched, ghosts>>

(* The interrupt is armed; a result may be at the pin already. *)
LEMMA ArmKeeps == SamplingInv /\ (Armed /\ UNCHANGED hvbVars /\ SubmitFrame) => SamplingInv'
<1> SUFFICES ASSUME SamplingInv, (Armed /\ UNCHANGED hvbVars /\ SubmitFrame) PROVE SamplingInv'
  OBVIOUS
<1>1. SamplingTypes'
  BY DEF SamplingInv, SamplingTypes, Armed, ReadAsyncArm, hvbVars, SubmitFrame,
     ghosts
<1>2. Window'
  BY DEF SamplingInv, Window, Armed, ReadAsyncArm, hvbVars, SubmitFrame, ghosts
<1>3. ReadProtocol'
  BY DEF SamplingInv, SamplingTypes, ReadProtocol, OwedByEdge, OwedByWork, Inputs,
     Armed, ReadAsyncArm, hvbVars, SubmitFrame, ghosts
<1>4. Mixing'
  BY DEF SamplingInv, SamplingTypes, ReadProtocol, Mixing, Debt, Inputs, Armed,
     ReadAsyncArm, hvbVars, SubmitFrame, ghosts
<1>5. Ages'
  BY DEF SamplingInv, SamplingTypes, ReadProtocol, OwedByEdge, OwedByWork, Ages,
     NothingOnTheWay, SampleAtMostOneCycleOld, Reading, Commands, Inputs, Armed,
     ReadAsyncArm, hvbVars, SubmitFrame, ghosts
<1>6. QED
  BY <1>1, <1>2, <1>3, <1>4, <1>5 DEF SamplingInv

(* The pin is looked at again, while the interrupt may have submitted the
   read-out for the same result. *)
LEMMA GuardKeeps == SamplingInv /\ (Guarded /\ UNCHANGED hvbVars /\ SubmitFrame) => SamplingInv'
<1> SUFFICES ASSUME SamplingInv, (Guarded /\ UNCHANGED hvbVars /\ SubmitFrame) PROVE SamplingInv'
  OBVIOUS
<1>1. SamplingTypes'
  BY WorkSubmitted DEF SamplingInv, SamplingTypes, Guarded, Runs, ReadAsyncGuard,
     WorkQueueReady, Unlocked, hvbVars, SubmitFrame, ghosts
<1>2. Window'
  BY DEF SamplingInv, Window, Guarded, Runs, ReadAsyncGuard, WorkQueueReady,
     Unlocked, hvbVars, SubmitFrame, ghosts
<1>3. ReadProtocol'
  BY WorkSubmitted DEF SamplingInv, SamplingTypes, ReadProtocol, OwedByEdge,
     OwedByWork, Inputs, Guarded, Runs, ReadAsyncGuard, WorkQueueReady, Unlocked,
     hvbVars, SubmitFrame, ghosts
<1>4. Mixing'
  BY WorkSubmitted DEF SamplingInv, SamplingTypes, ReadProtocol, Mixing, Debt,
     Inputs, Guarded, Runs, ReadAsyncGuard, WorkQueueReady, Unlocked, hvbVars,
     SubmitFrame, ghosts
<1>5. Ages'
  BY WorkSubmitted DEF SamplingInv, SamplingTypes, ReadProtocol, OwedByEdge,
     OwedByWork, Ages, NothingOnTheWay, SampleAtMostOneCycleOld, Reading, Commands,
     Inputs, Guarded, Runs, ReadAsyncGuard, WorkQueueReady, Unlocked, hvbVars,
     SubmitFrame, ghosts
<1>6. QED
  BY <1>1, <1>2, <1>3, <1>4, <1>5 DEF SamplingInv

(* The poll begins; the boot thread comes to it only when the read-out is
   done. *)
LEMMA SubmitKeeps == SamplingInv /\ (hvb_vc_submit_read /\ SubmitFrame) => SamplingInv'
<1> SUFFICES ASSUME SamplingInv, (hvb_vc_submit_read /\ SubmitFrame) PROVE SamplingInv'
  OBVIOUS
<1>1. SamplingTypes'
  BY DEF SamplingInv, SamplingTypes, hvb_vc_submit_read, Runs, WorkQueueReady,
     Unlocked, SubmitFrame, ghosts
<1>2. Window'
  BY DEF SamplingInv, Window, hvb_vc_submit_read, Runs, WorkQueueReady, Unlocked,
     SubmitFrame, ghosts
<1>3. ReadProtocol'
  BY DEF SamplingInv, SamplingTypes, ReadProtocol, OwedByEdge, OwedByWork, Inputs,
     hvb_vc_submit_read, Runs, WorkQueueReady, Unlocked, SubmitFrame, ghosts
<1>4. Mixing'
  BY DEF SamplingInv, SamplingTypes, ReadProtocol, Mixing, Debt, Inputs,
     hvb_vc_submit_read, Runs, WorkQueueReady, Unlocked, SubmitFrame, ghosts
<1>5. Ages'
  BY DEF SamplingInv, SamplingTypes, ReadProtocol, OwedByEdge, OwedByWork, Ages,
     NothingOnTheWay, SampleAtMostOneCycleOld, Reading, Commands, Inputs,
     hvb_vc_submit_read, Runs, WorkQueueReady, Unlocked, SubmitFrame, ghosts
<1>6. QED
  BY <1>1, <1>2, <1>3, <1>4, <1>5 DEF SamplingInv

(* The poll times out while its read is pending. *)
LEMMA TimeoutKeeps == SamplingInv /\ DrdyTimeout => SamplingInv'
<1> SUFFICES ASSUME SamplingInv, DrdyTimeout PROVE SamplingInv'
  OBVIOUS
<1>1. SamplingTypes'
  BY DEF SamplingInv, SamplingTypes, DrdyTimeout, adsVars
<1>2. Window'
  BY DEF SamplingInv, Window, DrdyTimeout, adsVars
<1>3. ReadProtocol'
  BY DEF SamplingInv, SamplingTypes, ReadProtocol, OwedByEdge, OwedByWork, Inputs,
     DrdyTimeout, adsVars
<1>4. Mixing'
  BY DEF SamplingInv, SamplingTypes, ReadProtocol, Mixing, Debt, Inputs,
     DrdyTimeout, adsVars
<1>5. Ages'
  BY DEF SamplingInv, SamplingTypes, ReadProtocol, OwedByEdge, OwedByWork, Ages,
     NothingOnTheWay, SampleAtMostOneCycleOld, Reading, Commands, Inputs,
     DrdyTimeout, adsVars
<1>6. QED
  BY <1>1, <1>2, <1>3, <1>4, <1>5 DEF SamplingInv

(* The handler finds that its poll timed out, and begins a new cycle, perhaps
   with the read of the old one still pending. *)
LEMMA TimedOutKeeps == SamplingInv /\ PollTimedOut => SamplingInv'
<1> SUFFICES ASSUME SamplingInv, PollTimedOut PROVE SamplingInv'
  OBVIOUS
<1>c. First \in Inputs
  BY CycleOfTheBoard DEF SamplingInv, SamplingTypes
<1>1. SamplingTypes'
  BY <1>c, ReadAsyncTyped
     DEF SamplingInv, SamplingTypes, PollTimedOut, NextCycle, adsVars, ghosts
<1>2. Window'
  BY DEF SamplingInv, Window, PollTimedOut
<1>3. ReadProtocol'
  BY <1>c DEF SamplingInv, SamplingTypes, ReadProtocol, OwedByEdge, OwedByWork, Inputs,
        PollTimedOut, CanHandle, NextCycle, ReadAsync, adsVars
<1>4. Mixing'
  BY <1>c DEF SamplingInv, SamplingTypes, ReadProtocol, Mixing, Debt, Inputs,
        PollTimedOut, NextCycle, ReadAsync, adsVars, ghosts
<1>5. Ages'
  BY <1>c DEF SamplingInv, SamplingTypes, ReadProtocol, OwedByEdge, OwedByWork, Ages,
        NothingOnTheWay, SampleAtMostOneCycleOld, Reading, Commands, Inputs,
        PollTimedOut, CanHandle, NextCycle, ReadAsync, adsVars, ghosts
<1>6. QED
  BY <1>1, <1>2, <1>3, <1>4, <1>5 DEF SamplingInv

(* The handler publishes a result.  No read is pending then, so that the next
   one is accepted and selects the input of its phase. *)
LEMMA ResultKeeps == SamplingInv /\ PollResult => SamplingInv'
<1> SUFFICES ASSUME SamplingInv, PollResult PROVE SamplingInv'
  OBVIOUS
<1>c. First \in Inputs /\ buf \in Reading /\ {phase} \in SUBSET Inputs
  BY CycleOfTheBoard DEF SamplingInv, SamplingTypes
<1>p. /\ meas' \in [Inputs -> Reading]
      /\ \A k \in Inputs : meas'[k] = IF k = phase THEN buf ELSE meas[k]
      /\ cmd' \in Commands /\ cmd'.at = cmd.at /\ cmd'.out = cmd.out
      /\ cmd'.fresh \subseteq cmd.fresh \cup {phase}
  BY <1>c, Published DEF SamplingInv, PollResult
<1>q. /\ lock = "free" /\ poll = "ready" /\ signal /\ ~seq /\ ~armed /\ work = "idle"
      /\ buf.of = a0
  BY DEF SamplingInv, SamplingTypes, ReadProtocol, PollResult, CanHandle
<1>m. /\ board' = board /\ lvb' = lvb /\ dac' = dac /\ latched' = latched
      /\ overtaken' = overtaken /\ base' = base /\ poll' = "idle"
  BY DEF PollResult
<1>x. (a0 = phase => mixed' = mixed) /\ (a0 # phase => mixed' = mixed + 1)
  <2>1. mixed' = mixed + (IF buf.of \in Inputs \ {phase} THEN 1 ELSE 0)
    BY DEF PollResult
  <2>2. (buf.of \in Inputs \ {phase}) <=> a0 # phase
    BY <1>q DEF SamplingInv, SamplingTypes
  <2>3. mixed \in Nat
    BY DEF SamplingInv, SamplingTypes
  <2>4. QED
    BY <2>1, <2>2, <2>3
<1>n. PICK input \in Inputs :
        \/ phase' = input /\ caller' = "workq" /\ ReadAsync(input, dac)
        \/ UNCHANGED <<adsVars, phase>>
  BY <1>c DEF PollResult, NextCycle, Inputs
<1> DEFINE Begins == /\ a0' = phase' /\ caller' = "workq" /\ lock' = "arm"
                     /\ seq' = TRUE /\ signal' = FALSE /\ drdy' = FALSE
                     /\ data' = Garbage /\ conv' \in {conv, dac}
                     /\ phase' \in Inputs /\ armed' = armed /\ work' = work /\ buf' = buf
           Rests == /\ drdy' = drdy /\ data' = data /\ conv' = conv /\ a0' = a0
                    /\ armed' = armed /\ seq' = seq /\ work' = work /\ lock' = lock
                    /\ caller' = caller /\ signal' = signal /\ buf' = buf
                    /\ phase' = phase
<1>r. Begins \/ Rests
  BY <1>n, <1>q DEF ReadAsync, adsVars
<1>1. SamplingTypes'
  <2>1. CASE Begins
    <3>1. data' \in Reading /\ conv' \in 0..MaxWrites /\ mixed' \in Nat
      BY <1>x, <2>1, ReadingsTyped DEF SamplingInv, SamplingTypes
    <3>2. QED
      BY <1>p, <1>m, <2>1, <3>1 DEF SamplingInv, SamplingTypes
  <2>2. CASE Rests
    BY <1>p, <1>m, <1>x, <2>2 DEF SamplingInv, SamplingTypes
  <2>3. QED
    BY <1>r, <2>1, <2>2
<1>2. Window'
  BY <1>m DEF SamplingInv, Window
<1>3. ReadProtocol'
  <2>1. \A k \in Inputs : meas'[k].of # "garbage"
    BY <1>p, <1>q DEF SamplingInv, SamplingTypes, ReadProtocol, Inputs
  <2>2. CASE Begins
    BY <1>q, <1>m, <2>1, <2>2 DEF ReadProtocol
  <2>3. CASE Rests
    BY <1>q, <1>m, <2>1, <2>3 DEF SamplingInv, ReadProtocol
  <2>4. QED
    BY <1>r, <2>2, <2>3
<1>4. Mixing'
  <2>1. mixed' <= overtaken'
    BY <1>q, <1>m, <1>x DEF SamplingInv, SamplingTypes, Mixing, Debt
  <2>2. CASE Begins
    BY <1>m, <2>1, <2>2 DEF Mixing, Debt
  <2>3. CASE Rests
    BY <1>q, <1>m, <2>1, <2>3 DEF Mixing, Debt
  <2>4. QED
    BY <1>r, <2>2, <2>3
<1>5. Ages'
  <2>1. conv <= conv' /\ conv' <= dac' /\ base'.last <= conv' /\ (board' = "lvb" => dac' = 0)
    BY <1>m, <1>r DEF SamplingInv, SamplingTypes, Ages
  <2>2. ASSUME cmd'.at = "wait"
        PROVE  cmd'.out <= dac' /\ cmd'.out <= conv'
    <3>1. cmd.out <= dac /\ cmd.out <= conv
      BY <1>p, <1>q, <2>2 DEF SamplingInv, Ages, NothingOnTheWay
    <3>2. conv \in Nat /\ conv' \in Nat /\ cmd.out \in Nat
      BY <1>1 DEF SamplingInv, SamplingTypes, Commands
    <3>3. QED
      BY <1>p, <1>m, <2>1, <3>1, <3>2
  <2>3. ASSUME cmd'.at = "wait", NEW k \in cmd'.fresh
        PROVE  base'.last <= meas'[k].out
    BY <1>p, <1>q, <1>m, <2>3 DEF SamplingInv, SamplingTypes, Ages, Commands
  <2>4. (seq' => ~drdy') /\ poll' # "ready" /\ (lock' # "free" => ~signal')
    <3>1. CASE Begins
      BY <1>m, <3>1
    <3>2. CASE Rests
      BY <1>q, <1>m, <3>2
    <3>3. QED
      BY <1>r, <3>1, <3>2
  <2>5. SampleAtMostOneCycleOld'
    BY <1>m DEF SamplingInv, Ages, SampleAtMostOneCycleOld
  <2>6. QED
    BY <2>1, <2>2, <2>3, <2>4, <2>5 DEF Ages
<1>6. QED
  BY <1>1, <1>2, <1>3, <1>4, <1>5 DEF SamplingInv

(* A conversion ends, and may fire the interrupt. *)
LEMMA ConvertsKeeps == SamplingInv /\ Converts => SamplingInv'
<1> SUFFICES ASSUME SamplingInv, Converts PROVE SamplingInv'
  OBVIOUS
<1>w. Submitted \in {"queued", "requeued"} /\ (work \in {"idle", "queued"} => Submitted = "queued")
  BY WorkSubmitted DEF SamplingInv, SamplingTypes
<1>d. data' = [of |-> a0, out |-> conv] /\ data' \in Reading
  BY ReadingsTyped DEF SamplingInv, SamplingTypes, Converts, ConversionEnds
<1>1. SamplingTypes'
  <2>1. /\ armed' \in BOOLEAN /\ work' \in {"idle", "queued", "running", "requeued"}
        /\ drdy' = TRUE /\ conv' = dac
    BY <1>w DEF SamplingInv, SamplingTypes, Converts, ConversionEnds
  <2>2. QED
    BY <1>d, <2>1 DEF SamplingInv, SamplingTypes, Converts, ConversionEnds, ghosts
<1>2. Window'
  BY DEF SamplingInv, Window, Converts, ConversionEnds, Hvb, ghosts
<1>3. ReadProtocol'
  BY <1>d, <1>w DEF SamplingInv, SamplingTypes, ReadProtocol, OwedByEdge,
     OwedByWork, Inputs, Converts, ConversionEnds, Hvb, ghosts
<1>4. Mixing'
  BY <1>d, <1>w DEF SamplingInv, SamplingTypes, ReadProtocol, Mixing, Debt, Inputs,
     Converts, ConversionEnds, Hvb, ghosts
<1>5. Ages'
  BY <1>d, <1>w DEF SamplingInv, SamplingTypes, ReadProtocol, OwedByEdge,
     OwedByWork, Ages, NothingOnTheWay, SampleAtMostOneCycleOld, Reading, Commands,
     Inputs, Converts, ConversionEnds, Hvb, ghosts
<1>6. QED
  BY <1>1, <1>2, <1>3, <1>4, <1>5 DEF SamplingInv

(* The system work queue takes up the read-out. *)
LEMMA WorkStartsKeeps == SamplingInv /\ (WorkStarts /\ UNCHANGED poll /\ ReadOutFrame) => SamplingInv'
<1> SUFFICES ASSUME SamplingInv, (WorkStarts /\ UNCHANGED poll /\ ReadOutFrame) PROVE SamplingInv'
  OBVIOUS
<1>1. SamplingTypes'
  BY DEF SamplingInv, SamplingTypes, WorkStarts, ReadOutFrame, ghosts
<1>2. Window'
  BY DEF SamplingInv, Window, WorkStarts, ReadOutFrame, ghosts
<1>3. ReadProtocol'
  BY DEF SamplingInv, SamplingTypes, ReadProtocol, OwedByEdge, OwedByWork, Inputs,
     WorkStarts, ReadOutFrame, ghosts
<1>4. Mixing'
  BY DEF SamplingInv, SamplingTypes, ReadProtocol, Mixing, Debt, Inputs, WorkStarts,
     ReadOutFrame, ghosts
<1>5. Ages'
  BY DEF SamplingInv, SamplingTypes, ReadProtocol, OwedByEdge, OwedByWork, Ages,
     NothingOnTheWay, SampleAtMostOneCycleOld, Reading, Commands, Inputs,
     WorkStarts, ReadOutFrame, ghosts
<1>6. QED
  BY <1>1, <1>2, <1>3, <1>4, <1>5 DEF SamplingInv

(* The read-out; it ends the poll that waits. *)
ReadOutHandled ==
    /\ ads1232_async_work_handler(dac)
    /\ poll' = IF signal' /\ poll = "waiting" THEN "ready" ELSE poll
    /\ ReadOutFrame

(* The read-out clocks the converter only with a result at the pin. *)
LEMMA HandlerKeeps == SamplingInv /\ ReadOutHandled => SamplingInv'
<1> SUFFICES ASSUME SamplingInv, ReadOutHandled PROVE SamplingInv'
  OBVIOUS
<1>1. SamplingTypes'
  BY ReadingsTyped DEF SamplingInv, SamplingTypes, ReadOutHandled,
     ads1232_async_work_handler, Unlocked, BitbangValue, ReadOutFrame, ghosts
<1>2. Window'
  BY DEF SamplingInv, Window, ReadOutHandled, ads1232_async_work_handler, Unlocked,
     BitbangValue, ReadOutFrame, ghosts
<1>3. ReadProtocol'
  BY DEF SamplingInv, SamplingTypes, ReadProtocol, OwedByEdge, OwedByWork, Inputs,
     ReadOutHandled, ads1232_async_work_handler, Unlocked, BitbangValue,
     ReadOutFrame, ghosts
<1>4. Mixing'
  BY DEF SamplingInv, SamplingTypes, ReadProtocol, Mixing, Debt, Inputs,
     ReadOutHandled, ads1232_async_work_handler, Unlocked, BitbangValue,
     ReadOutFrame, ghosts
<1>5. Ages'
  BY DEF SamplingInv, SamplingTypes, ReadProtocol, OwedByEdge, OwedByWork, Ages,
     NothingOnTheWay, SampleAtMostOneCycleOld, Reading, Commands, Inputs,
     ReadOutHandled, ads1232_async_work_handler, Unlocked, BitbangValue,
     ReadOutFrame, ghosts
<1>6. QED
  BY <1>1, <1>2, <1>3, <1>4, <1>5 DEF SamplingInv

(* The sampling stops; a read may stay pending. *)
LEMMA StopKeeps == SamplingInv /\ hvb_vc_stop_sampling => SamplingInv'
<1> SUFFICES ASSUME SamplingInv, hvb_vc_stop_sampling PROVE SamplingInv'
  OBVIOUS
<1>1. SamplingTypes'
  BY DEF SamplingInv, SamplingTypes, hvb_vc_stop_sampling, adsVars
<1>2. Window'
  BY DEF SamplingInv, Window, hvb_vc_stop_sampling, adsVars
<1>3. ReadProtocol'
  BY DEF SamplingInv, SamplingTypes, ReadProtocol, OwedByEdge, OwedByWork, Inputs,
     hvb_vc_stop_sampling, adsVars
<1>4. Mixing'
  BY DEF SamplingInv, SamplingTypes, ReadProtocol, Mixing, Debt, Inputs,
     hvb_vc_stop_sampling, adsVars
<1>5. Ages'
  BY DEF SamplingInv, SamplingTypes, ReadProtocol, OwedByEdge, OwedByWork, Ages,
     NothingOnTheWay, SampleAtMostOneCycleOld, Reading, Commands, Inputs,
     hvb_vc_stop_sampling, adsVars
<1>6. QED
  BY <1>1, <1>2, <1>3, <1>4, <1>5 DEF SamplingInv

(* The low-voltage channel starts with an empty window. *)
LEMMA LvbStartKeeps == SamplingInv /\ lvb_vc_start_sampling => SamplingInv'
<1> SUFFICES ASSUME SamplingInv, lvb_vc_start_sampling PROVE SamplingInv'
  OBVIOUS
<1>1. Window'
  <2>1. lvb' = [lvb EXCEPT !.accum = 0, !.count = 0, !.failed = 0]
    BY DEF lvb_vc_start_sampling
  <2>2. /\ lvb'.accum = 0 /\ lvb'.count = 0 /\ lvb'.failed = 0
        /\ lvb'.sum = lvb.sum /\ lvb'.lost = lvb.lost
    BY <2>1 DEF SamplingInv, Window
  <2>3. lvb' \in LvbState
    BY <2>1 DEF SamplingInv, Window, LvbState
  <2>4. QED
    BY <2>2, <2>3, SamplingAssumption DEF SamplingInv, Window
<1>2. SamplingTypes' /\ ReadProtocol' /\ Mixing' /\ Ages'
  BY DEF SamplingInv, SamplingTypes, ReadProtocol, OwedByEdge, OwedByWork, Mixing, Debt,
        Ages, NothingOnTheWay, SampleAtMostOneCycleOld, lvb_vc_start_sampling, adsVars,
        hvbVars, ghosts
<1>3. QED
  BY <1>1, <1>2 DEF SamplingInv

(* The timer submits the work of the low-voltage channel. *)
LEMMA LvbTimerKeeps == SamplingInv /\ lvb_vc_timer_cb => SamplingInv'
<1> SUFFICES ASSUME SamplingInv, lvb_vc_timer_cb PROVE SamplingInv'
  OBVIOUS
<1>1. SamplingTypes'
  BY DEF SamplingInv, SamplingTypes, lvb_vc_timer_cb, adsVars, hvbVars, ghosts
<1>2. Window'
  <2>1. lvb' = [lvb EXCEPT !.pending = TRUE]
    BY DEF lvb_vc_timer_cb
  <2>2. QED
    BY <2>1, WindowKept DEF SamplingInv
<1>3. ReadProtocol'
  BY DEF SamplingInv, SamplingTypes, ReadProtocol, OwedByEdge, OwedByWork, Inputs,
     lvb_vc_timer_cb, adsVars, hvbVars, ghosts
<1>4. Mixing'
  BY DEF SamplingInv, SamplingTypes, ReadProtocol, Mixing, Debt, Inputs,
     lvb_vc_timer_cb, adsVars, hvbVars, ghosts
<1>5. Ages'
  BY DEF SamplingInv, SamplingTypes, ReadProtocol, OwedByEdge, OwedByWork, Ages,
     NothingOnTheWay, SampleAtMostOneCycleOld, Reading, Commands, Inputs,
     lvb_vc_timer_cb, adsVars, hvbVars, ghosts
<1>6. QED
  BY <1>1, <1>2, <1>3, <1>4, <1>5 DEF SamplingInv

(* A read is added to the window, and the last one publishes its average. *)
LEMMA LvbWorkKeeps == SamplingInv /\ lvb_vc_sample_work_fn => SamplingInv'
<1> SUFFICES ASSUME SamplingInv, lvb_vc_sample_work_fn PROVE SamplingInv'
  OBVIOUS
<1>f. /\ board = "lvb" /\ dac = 0
      /\ UNCHANGED <<adsVars, hvbVars, board, active, dac, latched, mixed, overtaken, base>>
  BY DEF SamplingInv, Ages, lvb_vc_sample_work_fn
<1>1. CASE ~active
  <2>1. lvb' = [lvb EXCEPT !.pending = FALSE] /\ UNCHANGED <<meas, cmd, beat>>
    BY <1>1 DEF lvb_vc_sample_work_fn
  <2>2. Window'
    BY <2>1, WindowKept DEF SamplingInv
  <2>3. SamplingTypes' /\ ReadProtocol' /\ Mixing' /\ Ages'
    BY <1>f, <2>1 DEF SamplingInv, SamplingTypes, ReadProtocol, OwedByEdge, OwedByWork,
          Mixing, Debt, Ages, NothingOnTheWay, SampleAtMostOneCycleOld, adsVars, hvbVars
  <2>4. QED
    BY <2>2, <2>3 DEF SamplingInv
<1>2. CASE active
  <2> DEFINE l(ok) == [lvb EXCEPT !.pending = FALSE,
                                  !.accum = IF ok THEN @ + One ELSE @,
                                  !.failed = IF ok THEN @ ELSE @ + 1,
                                  !.count = @ + 1]
  <2>1. PICK ok \in BOOLEAN :
          \/ /\ l(ok).count >= Oversample
             /\ lvb' = LvbPublished(l(ok))
             /\ Publish(Inputs, [of |-> "average", out |-> dac])
          \/ /\ ~(l(ok).count >= Oversample)
             /\ lvb' = l(ok)
             /\ UNCHANGED <<meas, cmd, beat>>
    BY <1>2 DEF lvb_vc_sample_work_fn
  <2> DEFINE m == l(ok)
  <2>2. /\ m \in LvbState
        /\ m.accum + m.failed = m.count /\ m.count = lvb.count + 1
        /\ m.sum = lvb.sum /\ m.lost = lvb.lost
    <3>1. /\ lvb \in LvbState /\ lvb.accum + lvb.failed = lvb.count
          /\ lvb.accum \in Nat /\ lvb.failed \in Nat /\ lvb.count \in Nat
      BY DEF SamplingInv, Window, LvbState
    <3>2. CASE ok
      <4>1. m = [lvb EXCEPT !.pending = FALSE, !.accum = lvb.accum + 1,
                            !.failed = lvb.failed, !.count = lvb.count + 1]
        BY <3>2 DEF One
      <4> HIDE DEF m
      <4>2. lvb.accum + 1 \in Nat /\ lvb.count + 1 \in Nat
        BY <3>1
      <4>3. m \in LvbState
        BY <3>1, <4>1, <4>2, LvbStateTyped
      <4>4. /\ m.accum = lvb.accum + 1 /\ m.failed = lvb.failed
            /\ m.count = lvb.count + 1 /\ m.sum = lvb.sum /\ m.lost = lvb.lost
        BY <3>1, <4>1 DEF LvbState
      <4>5. QED
        BY <3>1, <4>3, <4>4
    <3>3. CASE ~ok
      <4>1. m = [lvb EXCEPT !.pending = FALSE, !.accum = lvb.accum,
                            !.failed = lvb.failed + 1, !.count = lvb.count + 1]
        BY <3>3 DEF One
      <4> HIDE DEF m
      <4>2. lvb.failed + 1 \in Nat /\ lvb.count + 1 \in Nat
        BY <3>1
      <4>3. m \in LvbState
        BY <3>1, <4>1, <4>2, LvbStateTyped
      <4>4. /\ m.accum = lvb.accum /\ m.failed = lvb.failed + 1
            /\ m.count = lvb.count + 1 /\ m.sum = lvb.sum /\ m.lost = lvb.lost
        BY <3>1, <4>1 DEF LvbState
      <4>5. QED
        BY <3>1, <4>3, <4>4
    <3>4. QED
      BY <3>2, <3>3
  <2> HIDE DEF m
  <2>3. Window'
    <3>1. CASE m.count >= Oversample /\ lvb' = LvbPublished(m)
      <4>1. lvb' \in LvbState
        BY <2>2, <3>1 DEF LvbPublished, LvbState
      <4>2. /\ lvb'.accum = 0 /\ lvb'.count = 0 /\ lvb'.failed = 0
            /\ lvb'.sum = m.accum /\ lvb'.lost = m.failed
        BY <2>2, <3>1 DEF LvbPublished, LvbState
      <4>3. m.count = Oversample
        BY <2>2, <3>1, SamplingAssumption DEF SamplingInv, Window, LvbState
      <4>4. QED
        BY <2>2, <4>1, <4>2, <4>3, SamplingAssumption DEF Window
    <3>2. CASE ~(m.count >= Oversample) /\ lvb' = m
      BY <2>2, <3>2, SamplingAssumption DEF SamplingInv, Window, LvbState
    <3>3. QED
      BY <2>1, <3>1, <3>2 DEF m
  <2>4. /\ meas' \in [Inputs -> Reading]
        /\ \A k \in Inputs : meas'[k].of # "garbage"
        /\ cmd' \in Commands /\ cmd'.at = cmd.at /\ cmd'.out = cmd.out
    <3>1. CASE UNCHANGED <<meas, cmd, beat>>
      BY <3>1 DEF SamplingInv, SamplingTypes, ReadProtocol
    <3>2. CASE Publish(Inputs, [of |-> "average", out |-> dac])
      <4>1. dac \in 0..MaxWrites
        BY DEF SamplingInv, SamplingTypes
      <4>2. [of |-> "average", out |-> dac] \in Reading
        BY <4>1, ReadingsTyped
      <4>3. QED
        BY <3>2, <4>2, Published DEF SamplingInv
    <3>3. QED
      BY <2>1, <3>1, <3>2
  <2>5. SamplingTypes' /\ ReadProtocol' /\ Mixing'
    BY <1>f, <2>4 DEF SamplingInv, SamplingTypes, ReadProtocol, OwedByEdge, OwedByWork,
          Mixing, Debt, adsVars, hvbVars
  <2>6. Ages'
    <3>1. /\ base.last = 0 /\ base'.last = 0 /\ dac' = 0 /\ conv' = 0
          /\ \A r \in Reading : 0 <= r.out
      BY <1>f, ReadingsTyped DEF SamplingInv, SamplingTypes, Ages, adsVars
    <3>2. cmd'.at = "wait" => cmd'.out <= 0
      BY <1>f, <2>4 DEF SamplingInv, Ages
    <3>3. cmd'.fresh \subseteq Inputs
      BY <2>4 DEF Commands
    <3>4. SampleAtMostOneCycleOld'
      BY <1>f DEF SamplingInv, Ages, SampleAtMostOneCycleOld
    <3>5. 0 <= data'.out /\ 0 <= buf'.out /\ \A k \in cmd'.fresh : 0 <= meas'[k].out
      BY <2>5, <3>1, <3>3 DEF SamplingTypes
    <3>6. QED
      BY <3>1, <3>2, <3>4, <3>5 DEF Ages
  <2>7. QED
    BY <2>3, <2>5, <2>6 DEF SamplingInv
<1>3. QED
  BY <1>1, <1>2

(* The low-voltage channel stops, its window unfinished. *)
LEMMA LvbStopKeeps == SamplingInv /\ lvb_vc_stop_sampling => SamplingInv'
<1> SUFFICES ASSUME SamplingInv, lvb_vc_stop_sampling PROVE SamplingInv'
  OBVIOUS
<1>1. SamplingTypes'
  BY DEF SamplingInv, SamplingTypes, lvb_vc_stop_sampling, adsVars, hvbVars, ghosts
<1>2. Window'
  BY DEF SamplingInv, Window, lvb_vc_stop_sampling, adsVars, hvbVars, ghosts
<1>3. ReadProtocol'
  BY DEF SamplingInv, SamplingTypes, ReadProtocol, OwedByEdge, OwedByWork, Inputs,
     lvb_vc_stop_sampling, adsVars, hvbVars, ghosts
<1>4. Mixing'
  BY DEF SamplingInv, SamplingTypes, ReadProtocol, Mixing, Debt, Inputs,
     lvb_vc_stop_sampling, adsVars, hvbVars, ghosts
<1>5. Ages'
  BY DEF SamplingInv, SamplingTypes, ReadProtocol, OwedByEdge, OwedByWork, Ages,
     NothingOnTheWay, SampleAtMostOneCycleOld, Reading, Commands, Inputs,
     lvb_vc_stop_sampling, adsVars, hvbVars, ghosts
<1>6. QED
  BY <1>1, <1>2, <1>3, <1>4, <1>5 DEF SamplingInv

(* The DAC is written, between two samples. *)
LEMMA OutputKeeps == SamplingInv /\ hvb_vc_set_output => SamplingInv'
<1> SUFFICES ASSUME SamplingInv, hvb_vc_set_output PROVE SamplingInv'
  OBVIOUS
<1>1. SamplingTypes'
  BY SamplingAssumption DEF SamplingInv, SamplingTypes, hvb_vc_set_output,
     WorkerRuns, Hvb, NoCmd, adsVars, hvbVars, ghosts
<1>2. Window'
  BY DEF SamplingInv, Window, hvb_vc_set_output, WorkerRuns, Hvb, NoCmd, adsVars,
     hvbVars, ghosts
<1>3. ReadProtocol'
  BY SamplingAssumption DEF SamplingInv, SamplingTypes, ReadProtocol, OwedByEdge,
     OwedByWork, Inputs, hvb_vc_set_output, WorkerRuns, Hvb, NoCmd, adsVars,
     hvbVars, ghosts
<1>4. Mixing'
  BY SamplingAssumption DEF SamplingInv, SamplingTypes, ReadProtocol, Mixing, Debt,
     Inputs, hvb_vc_set_output, WorkerRuns, Hvb, NoCmd, adsVars, hvbVars, ghosts
<1>5. Ages'
  BY SamplingAssumption DEF SamplingInv, SamplingTypes, ReadProtocol, OwedByEdge,
     OwedByWork, Ages, NothingOnTheWay, SampleAtMostOneCycleOld, Reading, Commands,
     Inputs, hvb_vc_set_output, WorkerRuns, Hvb, NoCmd, adsVars, hvbVars, ghosts
<1>6. QED
  BY <1>1, <1>2, <1>3, <1>4, <1>5 DEF SamplingInv

(* A sample begins, when nothing is on its way to the buffer. *)
LEMMA SampleStartKeeps == SamplingInv /\ CalSampleStart => SamplingInv'
<1> SUFFICES ASSUME SamplingInv, CalSampleStart PROVE SamplingInv'
  OBVIOUS
<1>c. {k \in Kinds : meas[k] # NoMeas} \in SUBSET Inputs
  BY CycleOfTheBoard DEF SamplingInv, SamplingTypes, Inputs
<1>1. SamplingTypes'
  BY <1>c DEF SamplingInv, SamplingTypes, Commands, CalSampleStart, WorkerRuns,
     NoCmd, adsVars, hvbVars, ghosts
<1>2. Window'
  BY DEF SamplingInv, Window, CalSampleStart, WorkerRuns, NoCmd, adsVars, hvbVars,
     ghosts
<1>3. ReadProtocol'
  BY <1>c DEF SamplingInv, SamplingTypes, ReadProtocol, OwedByEdge, OwedByWork,
     Inputs, CalSampleStart, WorkerRuns, NoCmd, adsVars, hvbVars, ghosts
<1>4. Mixing'
  BY <1>c DEF SamplingInv, SamplingTypes, ReadProtocol, Mixing, Debt, Inputs,
     CalSampleStart, WorkerRuns, NoCmd, adsVars, hvbVars, ghosts
<1>5. Ages'
  BY <1>c DEF SamplingInv, SamplingTypes, ReadProtocol, OwedByEdge, OwedByWork,
     Ages, NothingOnTheWay, SampleAtMostOneCycleOld, Reading, Commands, Inputs,
     CalSampleStart, WorkerRuns, NoCmd, adsVars, hvbVars, ghosts
<1>6. QED
  BY <1>1, <1>2, <1>3, <1>4, <1>5 DEF SamplingInv

(* The wait ends.  A sample that is fresh has a reading of every kind that was
   published while it waited. *)
LEMMA LatchKeeps == SamplingInv /\ CalSampleLatch => SamplingInv'
<1> SUFFICES ASSUME SamplingInv, CalSampleLatch PROVE SamplingInv'
  OBVIOUS
<1>k. Kinds \subseteq Inputs /\ Kinds # {}
  BY CycleOfTheBoard DEF SamplingInv, SamplingTypes, Inputs
<1>f. /\ cmd.at = "wait" /\ cmd' = NoCmd
      /\ UNCHANGED <<adsVars, hvbVars, board, active, lvb, meas, dac, beat, mixed, overtaken>>
      /\ base' = IF latched'.fresh THEN [prev |-> base.last, last |-> cmd.out] ELSE base
  BY DEF CalSampleLatch
<1>o. /\ latched' \in [out : 0..MaxWrites, fresh : BOOLEAN]
      /\ \E k \in Kinds : latched'.out = meas[k].out
      /\ latched'.fresh => Kinds \subseteq cmd.fresh
  <2> DEFINE outs == {meas[k].out : k \in Kinds}
  <2>1. \A k \in Inputs : meas[k].out \in 0..MaxWrites
    BY ReadingsTyped DEF SamplingInv, SamplingTypes
  <2>2. \E o \in outs : \A k \in Kinds : o <= meas[k].out
    <3>1. Kinds \in {{"voltage"}, {"current"}, {"voltage", "current"}}
      BY CycleOfTheBoard DEF SamplingInv, SamplingTypes, Inputs
    <3>2. /\ meas["voltage"].out \in Nat /\ meas["current"].out \in Nat
      BY <2>1, SamplingAssumption DEF Inputs
    <3>3. CASE Kinds = {"voltage", "current"}
      <4>1. CASE meas["voltage"].out <= meas["current"].out
        BY <3>2, <3>3, <4>1
      <4>2. CASE meas["current"].out <= meas["voltage"].out
        BY <3>2, <3>3, <4>2
      <4>3. QED
        BY <3>2, <4>1, <4>2
    <3>4. ASSUME NEW k \in {"voltage", "current"}, Kinds = {k}
          PROVE  \E o \in outs : \A j \in Kinds : o <= meas[j].out
      <4>1. meas[k].out \in outs /\ meas[k].out <= meas[k].out
        BY <3>2, <3>4
      <4>2. QED
        BY <3>4, <4>1
    <3>5. QED
      BY <3>1, <3>3, <3>4
  <2>3. (CHOOSE o \in outs : \A k \in Kinds : o <= meas[k].out) \in outs
    BY <2>2
  <2>4. latched' = [out |-> CHOOSE o \in outs : \A k \in Kinds : o <= meas[k].out,
                    fresh |-> Fresh /\ cmd.want = Kinds]
    BY DEF CalSampleLatch
  <2>5. latched'.out \in outs /\ latched'.fresh = (Fresh /\ cmd.want = Kinds)
    BY <2>3, <2>4
  <2>6. QED
    BY <1>k, <2>1, <2>3, <2>4, <2>5 DEF Fresh
<1>1. SamplingTypes'
  BY <1>f, <1>o, SamplingAssumption
     DEF SamplingInv, SamplingTypes, Commands, NoCmd, adsVars, hvbVars
<1>2. Window'
  BY <1>f DEF SamplingInv, Window
<1>3. ReadProtocol' /\ Mixing'
  BY <1>f DEF SamplingInv, ReadProtocol, OwedByEdge, OwedByWork, Mixing, Debt, adsVars,
        hvbVars
<1>4. Ages'
  <2>1. cmd'.at = "none"
    BY <1>f DEF NoCmd
  <2>2. CASE latched'.fresh
    <3>1. PICK k \in Kinds : latched'.out = meas[k].out
      BY <1>o
    <3>2. k \in cmd.fresh
      BY <1>o, <2>2
    <3>3. base.last <= meas[k].out /\ cmd.out <= conv
      BY <1>f, <3>2 DEF SamplingInv, Ages, NothingOnTheWay
    <3>4. base'.prev = base.last /\ base'.last = cmd.out
      BY <1>f, <2>2
    <3>5. QED
      BY <1>f, <2>1, <3>1, <3>3, <3>4
         DEF SamplingInv, Ages, SampleAtMostOneCycleOld, adsVars
  <2>3. CASE ~latched'.fresh
    BY <1>f, <2>1, <2>3 DEF SamplingInv, Ages, SampleAtMostOneCycleOld, adsVars
  <2>4. QED
    BY <2>2, <2>3
<1>5. QED
  BY <1>1, <1>2, <1>3, <1>4 DEF SamplingInv

(* Nothing happens. *)
LEMMA SamplingStutters == SamplingInv /\ UNCHANGED vars => SamplingInv'
<1> SUFFICES ASSUME SamplingInv, UNCHANGED vars PROVE SamplingInv'
  OBVIOUS
<1>1. SamplingTypes'
  BY DEF SamplingInv, SamplingTypes, vars
<1>2. Window'
  BY DEF SamplingInv, Window, vars
<1>3. ReadProtocol'
  BY DEF SamplingInv, SamplingTypes, ReadProtocol, OwedByEdge, OwedByWork, Inputs,
     vars
<1>4. Mixing'
  BY DEF SamplingInv, SamplingTypes, ReadProtocol, Mixing, Debt, Inputs, vars
<1>5. Ages'
  BY DEF SamplingInv, SamplingTypes, ReadProtocol, OwedByEdge, OwedByWork, Ages,
     NothingOnTheWay, SampleAtMostOneCycleOld, Reading, Commands, Inputs, vars
<1>6. QED
  BY <1>1, <1>2, <1>3, <1>4, <1>5 DEF SamplingInv

(* Every step of the specification keeps the invariant. *)
LEMMA SamplingKeeps == SamplingInv /\ [Next]_vars => SamplingInv'
<1> SUFFICES ASSUME SamplingInv, [Next]_vars PROVE SamplingInv'
  OBVIOUS
<1>1. CASE SubmitSteps
  BY <1>1, ArmKeeps, GuardKeeps, SubmitKeeps DEF SubmitSteps, SubmitFrame
<1>2. CASE ReadOut
  BY <1>2, WorkStartsKeeps, HandlerKeeps DEF ReadOut, ReadOutHandled, ReadOutFrame
<1>3. CASE \/ hvb_vc_start_sampling \/ DrdyTimeout \/ PollTimedOut \/ PollResult
           \/ Converts \/ hvb_vc_stop_sampling
  BY <1>3, StartKeeps, TimeoutKeeps, TimedOutKeeps, ResultKeeps, ConvertsKeeps, StopKeeps
<1>4. CASE \/ lvb_vc_start_sampling \/ lvb_vc_timer_cb \/ lvb_vc_sample_work_fn
           \/ lvb_vc_stop_sampling
  BY <1>4, LvbStartKeeps, LvbTimerKeeps, LvbWorkKeeps, LvbStopKeeps
<1>5. CASE hvb_vc_set_output \/ CalSampleStart \/ CalSampleLatch
  BY <1>5, OutputKeeps, SampleStartKeeps, LatchKeeps
<1>6. CASE UNCHANGED vars
  BY <1>6, SamplingStutters
<1>7. QED
  BY <1>1, <1>2, <1>3, <1>4, <1>5, <1>6 DEF Next

-----------------------------------------------------------------------------
(* What follows                                                            *)

(* The inductive invariant holds throughout: read_async and the read-out
   always agree on who owes the result, every reading of the wrong kind is
   paid for, and readings are as new as their sample needs them. *)
THEOREM SamplingInvariance == Spec => []SamplingInv
<1>1. Init => SamplingInv
  BY SamplingBegins
<1>2. SamplingInv /\ [Next]_vars => SamplingInv'
  BY SamplingKeeps
<1>3. QED
  BY <1>1, <1>2, PTL DEF Spec

(* Type correctness; the counters of the window stay below oversample_count. *)
THEOREM SamplingTypeCorrect == Spec => []TypeOK
<1>1. SamplingInv => TypeOK
  <2> SUFFICES ASSUME SamplingInv PROVE TypeOK
    OBVIOUS
  <2>1. lvb.count \in 0..(Oversample - 1) /\ lvb.accum \in 0..(Oversample - 1)
    BY SamplingAssumption DEF SamplingInv, Window, LvbState
  <2>2. QED
    BY <2>1 DEF SamplingInv, SamplingTypes, TypeOK
<1>2. QED
  BY <1>1, SamplingInvariance, PTL

(* For any number of time-outs and stops: what hvb_vc_poll_handler publishes
   is a result of the converter, and it is published as the other kind no more
   often than a time-out or a stop left a read pending. *)
THEOREM KindsAreKept == Spec => []ReadingsOfTheirKind
<1>1. SamplingInv => ReadingsOfTheirKind
  BY DEF SamplingInv, ReadProtocol, Mixing, ReadingsOfTheirKind
<1>2. QED
  BY <1>1, SamplingInvariance, PTL

(* For any number of DAC writes: the readings of a calibration sample that did
   not time out began after the fresh sample before it began. *)
THEOREM SamplesAreRecent == Spec => []SampleAtMostOneCycleOld
<1>1. SamplingInv => SampleAtMostOneCycleOld
  BY DEF SamplingInv, Ages
<1>2. QED
  BY <1>1, SamplingInvariance, PTL

(* For every oversample_count: lvb_vc_sample_work_fn publishes the average of
   exactly one window of reads. *)
THEOREM WindowsAreWhole == Spec => []AverageOfOneWindow
<1>1. SamplingInv => AverageOfOneWindow
  BY DEF SamplingInv, Window, AverageOfOneWindow
<1>2. QED
  BY <1>1, SamplingInvariance, PTL
=============================================================================
