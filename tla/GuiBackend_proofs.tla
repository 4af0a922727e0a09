-------------------------- MODULE GuiBackend_proofs --------------------------
(***************************************************************************)
(* Proofs about the graphical client: for any boards and any number of     *)
(* clicks, whatever is lost and in whatever order connects, disconnects,   *)
(* writes and polls run, what the window shows once both queues are empty  *)
(* is what the worker has, and without a loss what the board has.          *)
(***************************************************************************)
EXTENDS GuiBackend, SequenceTheorems, TLAPS

(***************************************************************************)
(* The inductive invariant                                                 *)
(***************************************************************************)
Ops == {"connect", "disconnect", "write", "command", "poll", "sysInfo", "chInfo", "sysConfig",
        "chConfig"}
JobType == [op : Ops, board : BoardOrNone, value : Values]
SignalType == [sig : {"connected", "disconnected", "sysInfo", "chInfo", "chConfig"}, ok : BOOLEAN,
               board : BoardOrNone, value : Values, offline : BOOLEAN]

\* TypeOK, with the queues it leaves out: a connect names a board.
Types ==
    /\ TypeOK
    /\ jobs \in Seq(JobType)
    /\ \A k \in 1 .. Len(jobs) : jobs[k].op = "connect" => jobs[k].board \in Boards
    /\ signals \in Seq(SignalType)

\* What a signal brings, and what it replaces: the link, the system information,
\* the channel or its configuration.
Kind(s) == IF s.sig \in {"connected", "disconnected"} THEN "link" ELSE s.sig
Link(up) == [board |-> None, value |-> 0, up |-> up]
Of(board, value) == [board |-> board, value |-> value, up |-> FALSE]
Content(s) ==
    IF Kind(s) = "link" THEN Link(s.sig = "connected" /\ s.ok) ELSE Of(s.board, s.value)

\* Once the signals of q are handled the window, which now shows shown, shows what.
EndsUp(q, kind, shown, what) ==
    \/ shown = what /\ \A k \in 1 .. Len(q) : Kind(q[k]) # kind
    \/ \E k \in 1 .. Len(q) :
          /\ Kind(q[k]) = kind /\ Content(q[k]) = what
          /\ \A j \in 1 .. Len(q) : Kind(q[j]) = kind => j <= k

LinkFollows ==
    EndsUp(signals, "link", Link(gui.connected), Link(worker.session # None))

Queued(op) == \E k \in 1 .. Len(jobs) : jobs[k].op = op

\* The timer was stopped by a click whose disconnect is still to come.
TimerRuns ==
    gui.connected /\ ~gui.timer =>
        Queued("disconnect") \/ \E k \in 1 .. Len(signals) : signals[k].sig = "disconnected"

\* A discovery of the system, and with it of the channel, is on its way.
SystemDue ==
    Queued("sysInfo") \/ \E k \in 1 .. Len(signals) : signals[k].sig = "connected" /\ signals[k].ok
ChannelDue ==
    SystemDue \/ \E k \in 1 .. Len(signals) : signals[k].sig = "sysInfo"

\* A read of the configuration is queued that will not be refused for the
\* capabilities of a former board.
ConfigDue ==
    \E k \in 1 .. Len(jobs) :
        /\ jobs[k].op = "chConfig"
        /\ worker.caps = worker.session \/ \E j \in 1 .. Len(jobs) : j < k /\ jobs[j].op = "chInfo"

SystemFollows ==
    /\ worker.sysInfo = worker.session
    /\ EndsUp(signals, "sysInfo", Of(gui.sysInfo, 0), Of(worker.session, 0))
CapsFollow ==
    /\ worker.caps = worker.session
    /\ EndsUp(signals, "chInfo", Of(gui.caps, 0), Of(worker.session, 0))
ConfigFollows ==
    /\ worker.caps = worker.session
    /\ worker.chConfig = [board |-> worker.session, value |-> config[worker.session]]
    /\ EndsUp(signals, "chConfig", Of(gui.chConfig.board, gui.chConfig.value),
              Of(worker.session, config[worker.session]))

\* As long as nothing was lost since the connect, what is not yet on its way to
\* the window is still due.
Live == worker.session # None /\ ~missed
FreshOrDue ==
    Live => /\ SystemDue \/ SystemFollows
            /\ ChannelDue \/ Queued("chInfo") \/ CapsFollow
            /\ ChannelDue \/ ConfigDue \/ ConfigFollows

GuiInv == Types /\ LinkFollows /\ TimerRuns /\ FreshOrDue

(***************************************************************************)
(* The two queues                                                          *)
(***************************************************************************)
\* Append(q, e): what was at k still is, and e is last.
LEMMA Appended ==
    ASSUME NEW S, NEW q \in Seq(S), NEW e \in S
    PROVE  /\ Append(q, e) \in Seq(S)
           /\ Len(Append(q, e)) = Len(q) + 1
           /\ \A k \in 1 .. Len(q) : Append(q, e)[k] = q[k]
           /\ Append(q, e)[Len(q) + 1] = e
BY AppendProperties

\* Tail(q): what was at k is at k - 1.
LEMMA Removed ==
    ASSUME NEW S, NEW q \in Seq(S), q # << >>
    PROVE  /\ Tail(q) \in Seq(S) /\ Len(q) \in Nat \ {0}
           /\ Len(Tail(q)) = Len(q) - 1 /\ Head(q) = q[1] /\ Head(q) \in S
           /\ \A k \in 1 .. Len(Tail(q)) : Tail(q)[k] = q[k + 1]
BY HeadTailProperties, EmptySeq

\* What the worker and the backend append: nothing, one or two.
LEMMA Concatenated ==
    ASSUME NEW S, NEW q \in Seq(S), NEW a \in S, NEW b \in S
    PROVE  /\ q \o << >> = q
           /\ q \o <<a>> = Append(q, a)
           /\ q \o <<a, b>> = Append(Append(q, a), b)
<1>1. q \o << >> = q
  BY ConcatEmptySeq
<1>2. <<a>> \in Seq(S) /\ <<a, b>> \in Seq(S)
  OBVIOUS
<1>3. q \o <<a>> = Append(q, a)
  <2>1. q \o <<a>> \in Seq(S) /\ Len(q \o <<a>>) = Len(q) + 1
    BY <1>2, ConcatProperties
  <2>2. \A k \in 1 .. Len(q) + 1 : (q \o <<a>>)[k] = Append(q, a)[k]
    BY <1>2, ConcatProperties, Appended
  <2> QED BY <2>1, <2>2, Appended, SeqEqual
<1>4. q \o <<a, b>> = Append(Append(q, a), b)
  <2>1. q \o <<a, b>> \in Seq(S) /\ Len(q \o <<a, b>>) = Len(q) + 2
    BY <1>2, ConcatProperties
  <2>2. /\ Append(q, a) \in Seq(S) /\ Append(Append(q, a), b) \in Seq(S)
        /\ Len(Append(Append(q, a), b)) = Len(q) + 2
    BY Appended
  <2>3. \A k \in 1 .. Len(q) + 2 : (q \o <<a, b>>)[k] = Append(Append(q, a), b)[k]
    BY <1>2, ConcatProperties, Appended
  <2> QED BY <2>1, <2>2, <2>3, SeqEqual
<1> QED BY <1>1, <1>3, <1>4

\* A signal of another kind disturbs nothing, one that brings what is awaited
\* settles it.
LEMMA EmitEndsUp ==
    ASSUME NEW q \in Seq(SignalType), NEW s \in SignalType, NEW kind, NEW shown, NEW what,
           IF Kind(s) = kind THEN Content(s) = what ELSE EndsUp(q, kind, shown, what)
    PROVE  EndsUp(Append(q, s), kind, shown, what)
<1>1. /\ Len(q) \in Nat /\ Len(Append(q, s)) = Len(q) + 1
      /\ \A k \in 1 .. Len(q) : Append(q, s)[k] = q[k]
      /\ Append(q, s)[Len(q) + 1] = s
  BY Appended, LenProperties
<1> DEFINE r == Append(q, s)
<1> HIDE DEF r
<1>2. CASE Kind(s) = kind
  <2>1. Len(q) + 1 \in 1 .. Len(r) /\ r[Len(q) + 1] = s /\ \A j \in 1 .. Len(r) : j <= Len(q) + 1
    BY <1>1 DEF r
  <2>2. EndsUp(r, kind, shown, what)
    BY <1>2, <2>1 DEF EndsUp
  <2> QED BY <2>2 DEF r
<1>3. CASE Kind(s) # kind
  <2>1. EndsUp(q, kind, shown, what)
    BY <1>3
  <2>2. \A k \in 1 .. Len(r) : IF k = Len(q) + 1 THEN r[k] = s ELSE k \in 1 .. Len(q) /\ r[k] = q[k]
    BY <1>1 DEF r
  <2>3. \A k \in 1 .. Len(q) : k \in 1 .. Len(r) /\ k # Len(q) + 1
    BY <1>1 DEF r
  <2>4. EndsUp(r, kind, shown, what)
    BY <1>3, <2>1, <2>2, <2>3 DEF EndsUp
  <2> QED BY <2>4 DEF r
<1> QED BY <1>2, <1>3

\* The first signal is handled: its content is shown.
LEMMA HandleEndsUp ==
    ASSUME NEW q \in Seq(SignalType), q # << >>, NEW kind, NEW shown, NEW what,
           EndsUp(q, kind, shown, what)
    PROVE  EndsUp(Tail(q), kind, IF Kind(Head(q)) = kind THEN Content(Head(q)) ELSE shown, what)
<1> DEFINE r == Tail(q)
           now == IF Kind(Head(q)) = kind THEN Content(Head(q)) ELSE shown
<1>1. /\ Len(q) \in Nat \ {0} /\ Len(r) = Len(q) - 1 /\ Head(q) = q[1]
      /\ \A k \in 1 .. Len(r) : r[k] = q[k + 1]
  BY Removed
<1> HIDE DEF r
<1>2. \A k \in 1 .. Len(r) : k + 1 \in 1 .. Len(q) /\ r[k] = q[k + 1]
  BY <1>1
<1>3. CASE shown = what /\ \A k \in 1 .. Len(q) : Kind(q[k]) # kind
  <2>1. now = what
    BY <1>1, <1>3
  <2> QED BY <1>2, <1>3, <2>1 DEF EndsUp, r
<1>4. ASSUME NEW k \in 1 .. Len(q), Kind(q[k]) = kind, Content(q[k]) = what,
             \A j \in 1 .. Len(q) : Kind(q[j]) = kind => j <= k
      PROVE  EndsUp(r, kind, now, what)
  <2>1. CASE k = 1
    <3>1. now = what
      BY <1>1, <1>4, <2>1
    <3>2. \A j \in 1 .. Len(r) : Kind(r[j]) # kind
      BY <1>2, <1>4, <2>1
    <3> QED BY <3>1, <3>2 DEF EndsUp
  <2>2. CASE k # 1
    <3>1. k - 1 \in 1 .. Len(r) /\ r[k - 1] = q[k]
      BY <1>1, <2>2
    <3>2. \A j \in 1 .. Len(r) : Kind(r[j]) = kind => j <= k - 1
      BY <1>2, <1>4
    <3> QED BY <1>4, <3>1, <3>2 DEF EndsUp
  <2> QED BY <2>1, <2>2
<1> QED BY <1>3, <1>4 DEF EndsUp, r

\* Signals that all bring what is awaited, if they bring that kind, disturb nothing;
\* if one of them brings it, they settle it.
Brings(sigs, kind, what) ==
    \A k \in 1 .. Len(sigs) : Kind(sigs[k]) = kind => Content(sigs[k]) = what

LEMMA BatchEndsUp ==
    ASSUME NEW q \in Seq(SignalType), NEW sigs \in Seq(SignalType),
           NEW kind, NEW shown, NEW what, Len(sigs) <= 2, Brings(sigs, kind, what),
           \/ EndsUp(q, kind, shown, what)
           \/ \E k \in 1 .. Len(sigs) : Kind(sigs[k]) = kind
    PROVE  EndsUp(q \o sigs, kind, shown, what)
<1> DEFINE r == q \o sigs
           n == Len(q)
<1>1. /\ n \in Nat /\ Len(sigs) \in Nat /\ Len(r) = n + Len(sigs)
      /\ \A k \in 1 .. n : k \in 1 .. Len(r) /\ r[k] = q[k]
      /\ \A k \in 1 .. Len(sigs) : n + k \in 1 .. Len(r) /\ r[n + k] = sigs[k]
      /\ \A k \in 1 .. Len(r) : k \in 1 .. n \/ (k - n \in 1 .. Len(sigs) /\ r[k] = sigs[k - n])
  BY ConcatProperties, LenProperties
<1> HIDE DEF r, n
<1>2. CASE \A k \in 1 .. Len(sigs) : Kind(sigs[k]) # kind
  <2>1. EndsUp(q, kind, shown, what) /\ n = Len(q)
    BY <1>2 DEF n
  <2>2. \A k \in 1 .. Len(r) : Kind(r[k]) = kind => k \in 1 .. n /\ r[k] = q[k]
    BY <1>1, <1>2
  <2>3. EndsUp(r, kind, shown, what)
    BY <1>1, <2>1, <2>2 DEF EndsUp
  <2> QED BY <2>3 DEF r
<1>3. ASSUME NEW k \in 1 .. Len(sigs), Kind(sigs[k]) = kind
      PROVE  EndsUp(r, kind, shown, what)
  <2>1. PICK m \in 1 .. Len(sigs) :
          Kind(sigs[m]) = kind /\ \A j \in 1 .. Len(sigs) : Kind(sigs[j]) = kind => j <= m
    <3>1. CASE 2 \in 1 .. Len(sigs) /\ Kind(sigs[2]) = kind
      BY <1>1, <3>1
    <3>2. CASE ~(2 \in 1 .. Len(sigs) /\ Kind(sigs[2]) = kind)
      <4>1. k = 1 /\ \A j \in 1 .. Len(sigs) : Kind(sigs[j]) = kind => j = 1
        BY <1>1, <1>3, <3>2
      <4> QED BY <1>3, <4>1
    <3> QED BY <3>1, <3>2
  <2>2. Content(sigs[m]) = what
    BY <2>1 DEF Brings
  <2>3. n + m \in 1 .. Len(r) /\ Kind(r[n + m]) = kind /\ Content(r[n + m]) = what
    BY <1>1, <2>1, <2>2
  <2>4. \A j \in 1 .. Len(r) : Kind(r[j]) = kind => j <= n + m
    BY <1>1, <2>1
  <2> QED BY <2>3, <2>4 DEF EndsUp
<1> QED BY <1>2, <1>3 DEF r

\* Jobs that are appended leave what is due due.
JobsGrow ==
    /\ Len(jobs) <= Len(jobs')
    /\ \A k \in 1 .. Len(jobs) : jobs'[k] = jobs[k]

LEMMA GrowKeepsDue ==
    ASSUME Types, Types', JobsGrow
    PROVE  /\ \A op \in Ops : Queued(op) => Queued(op)'
           /\ worker' = worker => (ConfigDue => ConfigDue')
<1>1. Len(jobs) \in Nat /\ Len(jobs') \in Nat
  BY LenProperties DEF Types
<1>2. \A k \in 1 .. Len(jobs) : k \in 1 .. Len(jobs') /\ jobs'[k] = jobs[k]
  BY <1>1 DEF JobsGrow
<1> QED BY <1>2 DEF Queued, ConfigDue

\* The job that is run is due no more.
LEMMA RunKeepsDue ==
    ASSUME Types, jobs # << >>, jobs' = Tail(jobs)
    PROVE  /\ \A op : Queued(op) /\ Head(jobs).op # op => Queued(op)'
           /\ ConfigDue /\ worker'.session = worker.session
                  /\ (worker.caps = worker.session => worker'.caps = worker'.session) =>
                 IF Head(jobs).op = "chConfig" THEN worker.caps = worker.session \/ ConfigDue'
                 ELSE (Head(jobs).op = "chInfo" => worker'.caps = worker'.session) => ConfigDue'
<1>1. /\ Len(jobs) \in Nat \ {0} /\ Len(jobs') = Len(jobs) - 1 /\ Head(jobs) = jobs[1]
      /\ \A k \in 1 .. Len(jobs') : jobs'[k] = jobs[k + 1]
  BY Removed DEF Types
<1>2. \A k \in 1 .. Len(jobs) : k # 1 => k - 1 \in 1 .. Len(jobs') /\ jobs'[k - 1] = jobs[k]
  BY <1>1
<1>3. ASSUME NEW op, Queued(op), Head(jobs).op # op PROVE Queued(op)'
  BY <1>1, <1>2, <1>3 DEF Queued
<1>4. ASSUME ConfigDue, worker'.session = worker.session,
             worker.caps = worker.session => worker'.caps = worker'.session
      PROVE  IF Head(jobs).op = "chConfig" THEN worker.caps = worker.session \/ ConfigDue'
             ELSE (Head(jobs).op = "chInfo" => worker'.caps = worker'.session) => ConfigDue'
  <2>1. PICK k \in 1 .. Len(jobs) :
          /\ jobs[k].op = "chConfig"
          /\ worker.caps = worker.session \/ \E j \in 1 .. Len(jobs) : j < k /\ jobs[j].op = "chInfo"
    BY <1>4 DEF ConfigDue
  <2>2. CASE k = 1
    <3>1. worker.caps = worker.session /\ Head(jobs).op = "chConfig"
      BY <1>1, <2>1, <2>2
    <3> QED BY <3>1
  <2>3. CASE k # 1
    <3>1. k - 1 \in 1 .. Len(jobs') /\ jobs'[k - 1].op = "chConfig"
      BY <1>2, <2>1, <2>3
    <3>2. CASE worker'.caps = worker'.session
      BY <3>1, <3>2 DEF ConfigDue
    <3>3. CASE worker'.caps # worker'.session
      <4>1. PICK j \in 1 .. Len(jobs) : j < k /\ jobs[j].op = "chInfo"
        BY <1>4, <2>1, <3>3
      <4>2. CASE j = 1
        BY <1>1, <3>3, <4>1, <4>2
      <4>3. CASE j # 1
        <5>1. j - 1 \in 1 .. Len(jobs') /\ jobs'[j - 1].op = "chInfo" /\ j - 1 < k - 1
          BY <1>1, <1>2, <4>1, <4>3
        <5>2. ConfigDue'
          BY <3>1, <5>1 DEF ConfigDue
        <5> QED BY <5>2
      <4> QED BY <4>2, <4>3
    <3> QED BY <3>2, <3>3
  <2> QED BY <2>2, <2>3
<1> QED BY <1>3, <1>4

\* Signals that are appended leave those that wait waiting.
LEMMA BatchWaits ==
    ASSUME Types, NEW sigs \in Seq(SignalType), signals' = signals \o sigs
    PROVE  \A k \in 1 .. Len(signals) : k \in 1 .. Len(signals') /\ signals'[k] = signals[k]
BY ConcatProperties, LenProperties DEF Types

(***************************************************************************)
(* The types                                                               *)
(***************************************************************************)
WorkerType ==
    [session : BoardOrNone, channelCount : {0, 1}, sysInfo : BoardOrNone, caps : BoardOrNone,
     chConfig : ConfigShown, failCount : 0 .. OfflineThreshold, offline : BOOLEAN]

GuiType ==
    [connected : BOOLEAN, timer : BOOLEAN, sysInfo : BoardOrNone, caps : BoardOrNone,
     offline : BOOLEAN, chConfig : ConfigShown]

LEMMA TypesAre ==
    Types <=> /\ config \in [Boards -> Values] /\ worker \in WorkerType /\ gui \in GuiType
              /\ missed \in BOOLEAN
              /\ jobs \in Seq(JobType) /\ signals \in Seq(SignalType)
              /\ \A k \in 1 .. Len(jobs) : jobs[k].op = "connect" => jobs[k].board \in Boards
BY DEF Types, TypeOK, WorkerType, GuiType

\* The signals that the worker makes of its caches.
LEMMA SignalTypes ==
    ASSUME NEW w \in WorkerType
    PROVE  /\ SysInfo(w) \in SignalType /\ ChInfo(w) \in SignalType /\ ChConfig(w) \in SignalType
           /\ Kind(SysInfo(w)) = "sysInfo" /\ Content(SysInfo(w)) = Of(w.sysInfo, 0)
           /\ Kind(ChInfo(w)) = "chInfo" /\ Content(ChInfo(w)) = Of(w.caps, 0)
           /\ Kind(ChConfig(w)) = "chConfig"
           /\ Content(ChConfig(w)) = Of(w.chConfig.board, w.chConfig.value)
           /\ SysInfo(w).sig = "sysInfo" /\ ChInfo(w).sig = "chInfo" /\ ChConfig(w).sig = "chConfig"
BY DEF SysInfo, ChInfo, ChConfig, Emit, WorkerType, ConfigShown, BoardOrNone, Values, SignalType,
       Kind, Content, Of

\* The failures counted stay below the threshold.
LEMMA CountTypes ==
    ASSUME NEW w \in WorkerType
    PROVE  Failure(w) \in WorkerType /\ Success(w) \in WorkerType
<1>1. OfflineThreshold \in Nat \ {0} /\ w.failCount \in 0 .. OfflineThreshold
  BY BoundsAssumption DEF WorkerType
<1>2. (IF w.failCount < OfflineThreshold THEN w.failCount + 1 ELSE w.failCount) \in 0 .. OfflineThreshold
  BY <1>1
<1>3. 0 \in 0 .. OfflineThreshold
  BY <1>1
<1> QED BY <1>2, <1>3 DEF Failure, Success, WorkerType

\* A session is never with no board.
LEMMA SessionTypes ==
    ASSUME Types
    PROVE  /\ worker.session # None <=> worker.session \in Boards
           /\ worker.session # None => config[worker.session] \in Values
           /\ worker.session = None => Answers = {FALSE}
           /\ Answers \subseteq BOOLEAN
BY BoundsAssumption, TypesAre DEF WorkerType, BoardOrNone, Answers

(***************************************************************************)
(* The worker                                                              *)
(***************************************************************************)
\* What RunJob does around the job.
RunFrame ==
    /\ jobs # << >>
    /\ jobs' = Tail(jobs)
    /\ UNCHANGED <<gui, clicks>>

\* A job that asks the board of the session, by what it does to the caches and
\* emits, sigs, as long as nothing is lost: of the system, of the channel, and of
\* its configuration.
AskOps == Ops \ {"connect", "disconnect"}

KeepsSystem(op, sigs) ==
    IF op = "sysInfo" THEN SystemFollows' /\ ChannelDue'
    ELSE worker'.sysInfo = worker.sysInfo /\ Brings(sigs, "sysInfo", Of(worker.sysInfo, 0))
KeepsCaps(op, sigs) ==
    /\ worker.caps = worker.session => worker'.caps = worker.session
    /\ IF op = "chInfo" THEN CapsFollow' ELSE Brings(sigs, "chInfo", Of(worker'.caps, 0))
KeepsConfig(op, sigs) ==
    IF op \in {"chConfig", "write"} THEN worker.caps = worker.session => ConfigFollows'
    ELSE /\ worker'.chConfig = worker.chConfig /\ config' = config
         /\ Brings(sigs, "chConfig", Of(worker.chConfig.board, worker.chConfig.value))

Asks(op, sigs) ==
    /\ GuiInv /\ Types' /\ RunFrame /\ Head(jobs).op = op
    /\ signals' = signals \o sigs /\ Len(sigs) <= 2
    /\ \A k \in 1 .. Len(sigs) : Kind(sigs[k]) # "link"
    /\ worker'.session = worker.session /\ (missed => missed')
    /\ Live' => KeepsSystem(op, sigs) /\ KeepsCaps(op, sigs) /\ KeepsConfig(op, sigs)

LEMMA AskKeeps ==
    ASSUME NEW op \in AskOps, NEW sigs \in Seq(SignalType), Asks(op, sigs)
    PROVE  GuiInv'
<1> USE DEF Asks, KeepsSystem, KeepsCaps, KeepsConfig, RunFrame
<1>1. signals \in Seq(SignalType) /\ Types
  BY DEF GuiInv, Types
<1>2. \A k \in 1 .. Len(signals) : k \in 1 .. Len(signals') /\ signals'[k] = signals[k]
  BY <1>1, BatchWaits
<1>3. \A o : Queued(o) /\ op # o => Queued(o)'
  BY <1>1, RunKeepsDue
<1>4. LinkFollows'
  <2>1. Brings(sigs, "link", Link(worker.session # None))
    BY DEF Brings
  <2> QED BY <1>1, <2>1, BatchEndsUp DEF GuiInv, LinkFollows
<1>5. TimerRuns'
  <2>1. op # "disconnect"
    BY DEF AskOps
  <2> QED BY <1>2, <1>3, <2>1 DEF GuiInv, TimerRuns
<1>6. FreshOrDue'
  <2> SUFFICES ASSUME Live'
               PROVE  /\ (SystemDue \/ SystemFollows)'
                      /\ (ChannelDue \/ Queued("chInfo") \/ CapsFollow)'
                      /\ (ChannelDue \/ ConfigDue \/ ConfigFollows)'
    BY DEF FreshOrDue
  <2>1. /\ SystemDue \/ SystemFollows
        /\ ChannelDue \/ Queued("chInfo") \/ CapsFollow
        /\ ChannelDue \/ ConfigDue \/ ConfigFollows
    BY DEF Live, GuiInv, FreshOrDue
  <2>2. op # "sysInfo" /\ SystemDue => SystemDue'
    BY <1>2, <1>3 DEF SystemDue
  <2>3. (SystemDue \/ SystemFollows)'
    <3>1. CASE op = "sysInfo"
      BY <3>1
    <3>2. CASE op # "sysInfo" /\ SystemFollows
      <4>1. Brings(sigs, "sysInfo", Of(worker.session, 0))
        BY <3>2 DEF SystemFollows
      <4>2. EndsUp(signals', "sysInfo", Of(gui.sysInfo, 0), Of(worker.session, 0))
        BY <1>1, <3>2, <4>1, BatchEndsUp DEF SystemFollows
      <4> QED BY <3>2, <4>2 DEF SystemFollows
    <3> QED BY <2>1, <2>2, <3>1, <3>2
  <2>4. ChannelDue => ChannelDue'
    BY <1>2, <2>2 DEF ChannelDue
  <2>5. (ChannelDue \/ Queued("chInfo") \/ CapsFollow)'
    <3>1. CASE op = "chInfo"
      BY <3>1
    <3>2. CASE op # "chInfo" /\ CapsFollow
      <4>1. worker'.caps = worker.session /\ Brings(sigs, "chInfo", Of(worker.session, 0))
        BY <3>2 DEF CapsFollow
      <4>2. EndsUp(signals', "chInfo", Of(gui.caps, 0), Of(worker.session, 0))
        BY <1>1, <3>2, <4>1, BatchEndsUp DEF CapsFollow
      <4> QED BY <4>1, <4>2 DEF CapsFollow
    <3> QED BY <1>3, <2>1, <2>4, <3>1, <3>2
  <2>6. (ChannelDue \/ ConfigDue \/ ConfigFollows)'
    <3>1. CASE op \in {"chConfig", "write"} /\ worker.caps = worker.session
      BY <3>1
    <3>2. CASE ConfigDue /\ ~(op = "chConfig" /\ worker.caps = worker.session)
      <4>1. op = "chInfo" => worker'.caps = worker'.session
        BY DEF CapsFollow
      <4> QED BY <1>1, <3>2, <4>1, RunKeepsDue
    <3>3. CASE op \notin {"chConfig", "write"} /\ ConfigFollows
      <4>1. /\ worker'.caps = worker.session /\ worker'.chConfig = worker.chConfig /\ config' = config
            /\ Brings(sigs, "chConfig", Of(worker.session, config[worker.session]))
        BY <3>3 DEF ConfigFollows
      <4>2. EndsUp(signals', "chConfig", Of(gui.chConfig.board, gui.chConfig.value),
                   Of(worker.session, config[worker.session]))
        BY <1>1, <3>3, <4>1, BatchEndsUp DEF ConfigFollows
      <4> QED BY <3>3, <4>1, <4>2 DEF ConfigFollows
    <3>4. ConfigFollows => worker.caps = worker.session
      BY DEF ConfigFollows
    <3> QED BY <2>1, <2>4, <3>1, <3>2, <3>3, <3>4
  <2> QED BY <2>3, <2>5, <2>6
<1> QED BY <1>4, <1>5, <1>6 DEF GuiInv

LEMMA QueueTypes ==
    ASSUME Types, RunFrame, signals' \in Seq(SignalType),
           config' \in [Boards -> Values], worker' \in WorkerType, missed' \in BOOLEAN
    PROVE  Types'
<1>1. jobs' \in Seq(JobType) /\ \A k \in 1 .. Len(jobs') : jobs'[k].op = "connect" => jobs'[k].board \in Boards
  <2>1. /\ jobs' \in Seq(JobType) /\ Len(jobs') = Len(jobs) - 1 /\ Len(jobs) \in Nat
        /\ \A k \in 1 .. Len(jobs') : jobs'[k] = jobs[k + 1]
    BY Removed DEF RunFrame, Types
  <2>2. \A k \in 1 .. Len(jobs') : k + 1 \in 1 .. Len(jobs)
    BY <2>1
  <2> QED BY <2>1, <2>2 DEF Types
<1> QED BY <1>1 DEF RunFrame, Types, TypeOK, WorkerType

LEMMA RunTypes ==
    ASSUME Types, RunFrame, NEW sigs \in Seq(SignalType), signals' = signals \o sigs,
           config' \in [Boards -> Values], worker' \in WorkerType, missed' \in BOOLEAN
    PROVE  Types'
<1>1. signals' \in Seq(SignalType)
  BY ConcatProperties DEF Types
<1> QED BY <1>1, QueueTypes

\* What the worker emits in one job.
LEMMA Batches ==
    /\ << >> \in Seq(SignalType) /\ Len(<< >>) = 0
    /\ \A a \in SignalType :
          /\ <<a>> \in Seq(SignalType) /\ Len(<<a>>) = 1
          /\ \A k \in 1 .. 1 : <<a>>[k] = a
    /\ \A a, b \in SignalType :
          /\ <<a, b>> \in Seq(SignalType) /\ Len(<<a, b>>) = 2
          /\ \A k \in 1 .. 2 : <<a, b>>[k] \in {a, b}
OBVIOUS

\* A signal that was emitted waits.
LEMMA BatchHas ==
    ASSUME Types, NEW sigs \in Seq(SignalType), signals' = signals \o sigs,
           NEW k \in 1 .. Len(sigs)
    PROVE  \E m \in 1 .. Len(signals') : signals'[m] = sigs[k]
<1>1. /\ Len(signals') = Len(signals) + Len(sigs)
      /\ signals'[Len(signals) + k] = sigs[k]
      /\ Len(signals) \in Nat /\ Len(sigs) \in Nat
  BY ConcatProperties, LenProperties DEF Types
<1>2. Len(signals) + k \in 1 .. Len(signals')
  BY <1>1
<1> QED BY <1>1, <1>2

\* The end of a job that asked: answered is which of its transactions were.
LEMMA Ended ==
    ASSUME Types, RunFrame, NEW w \in WorkerType, NEW sigs \in Seq(SignalType),
           NEW answered \in SUBSET BOOLEAN, Ends(w, sigs, answered),
           config' \in [Boards -> Values]
    PROVE  /\ Types' /\ worker' = w /\ signals' = signals \o sigs
           /\ missed => missed'
           /\ Live' => ~missed /\ FALSE \notin answered
<1>1. worker' = w /\ signals' = signals \o sigs /\ missed' = (missed \/ FALSE \in answered)
  BY DEF Ends
<1>2. missed \in BOOLEAN
  BY DEF Types, TypeOK
<1>3. Types'
  BY <1>1, <1>2, RunTypes
<1> QED BY <1>1, <1>3 DEF Live

\* A signal that was emitted settles what it brings.
LEMMA Settles ==
    ASSUME Types, NEW sigs \in Seq(SignalType), Len(sigs) <= 2, signals' = signals \o sigs,
           NEW kind, NEW what, Brings(sigs, kind, what),
           NEW k \in 1 .. Len(sigs), Kind(sigs[k]) = kind
    PROVE  \A shown : EndsUp(signals', kind, shown, what)
BY BatchEndsUp DEF Types

\* One signal.
LEMMA OneEmitted ==
    ASSUME Types, NEW s \in SignalType, NEW sigs, sigs = <<s>>
    PROVE  /\ sigs \in Seq(SignalType) /\ Len(sigs) = 1 /\ 1 \in 1 .. Len(sigs)
           /\ \A k \in 1 .. Len(sigs) : sigs[k] = s
           /\ \A kind, what : (Kind(s) = kind => Content(s) = what) => Brings(sigs, kind, what)
<1>1. sigs \in Seq(SignalType) /\ Len(sigs) = 1 /\ sigs[1] = s
  BY Batches
<1> QED BY <1>1 DEF Brings

\* A discovery of the system.
LEMMA SysInfoJob ==
    ASSUME GuiInv, RunFrame, Head(jobs).op = "sysInfo", doRefreshSystemInfo
    PROVE  GuiInv'
<1>1. Types /\ worker \in WorkerType /\ config \in [Boards -> Values]
  BY TypesAre DEF GuiInv
<1>2. PICK ok, w :
         /\ ok \in Answers
         /\ w = IF ok THEN [worker EXCEPT !.sysInfo = worker.session] ELSE worker
         /\ IF w.sysInfo = None
            THEN Ends([w EXCEPT !.channelCount = 0], << >>, {ok})
            ELSE Ends([w EXCEPT !.channelCount = 1], <<SysInfo(w)>>, {ok})
         /\ config' = config
  BY DEF doRefreshSystemInfo
<1>3. ok \in BOOLEAN /\ {ok} \in SUBSET BOOLEAN /\ (FALSE \notin {ok} => ok = TRUE)
  BY <1>1, <1>2, SessionTypes
<1>4. /\ w \in WorkerType /\ w.session = worker.session /\ w.caps = worker.caps
      /\ w.chConfig = worker.chConfig /\ (ok = TRUE => w.sysInfo = worker.session)
  BY <1>1, <1>2, <1>3 DEF WorkerType
<1>5. "sysInfo" \in AskOps /\ config' \in [Boards -> Values]
  BY <1>1, <1>2 DEF AskOps, Ops
<1>6. /\ [w EXCEPT !.channelCount = 0] \in WorkerType
      /\ [w EXCEPT !.channelCount = 1] \in WorkerType
  BY <1>4 DEF WorkerType
<1>7. CASE w.sysInfo = None
  <2>1. PICK sigs \in Seq(SignalType) : sigs = << >> /\ Len(sigs) = 0
    BY Batches
  <2>2. Ends([w EXCEPT !.channelCount = 0], sigs, {ok})
    BY <1>2, <1>7, <2>1
  <2>3. /\ Types' /\ worker' = [w EXCEPT !.channelCount = 0] /\ signals' = signals \o sigs
        /\ missed => missed'
        /\ Live' => FALSE \notin {ok}
    BY <1>1, <1>3, <1>5, <1>6, <2>2, Ended
  <2>4. worker'.session = worker.session
    BY <1>4, <2>3 DEF WorkerType
  <2>5. ~Live'
    BY <1>3, <1>4, <1>7, <2>3, <2>4 DEF Live
  <2>6. Asks("sysInfo", sigs)
    BY <2>1, <2>3, <2>4, <2>5 DEF Asks
  <2> QED BY <1>5, <2>6, AskKeeps
<1>8. CASE w.sysInfo # None
  <2>1. /\ SysInfo(w) \in SignalType /\ Kind(SysInfo(w)) = "sysInfo"
        /\ Content(SysInfo(w)) = Of(w.sysInfo, 0) /\ SysInfo(w).sig = "sysInfo"
    BY <1>4, SignalTypes
  <2>2. PICK sigs \in Seq(SignalType) : sigs = <<SysInfo(w)>>
    BY <2>1, Batches
  <2>3. /\ Len(sigs) = 1 /\ 1 \in 1 .. Len(sigs) /\ \A k \in 1 .. Len(sigs) : sigs[k] = SysInfo(w)
        /\ Brings(sigs, "sysInfo", Of(w.sysInfo, 0))
        /\ Brings(sigs, "chInfo", Of(worker'.caps, 0))
        /\ Brings(sigs, "chConfig", Of(worker.chConfig.board, worker.chConfig.value))
    BY <1>1, <2>1, <2>2, OneEmitted
  <2>4. Ends([w EXCEPT !.channelCount = 1], sigs, {ok})
    BY <1>2, <1>8, <2>2
  <2>5. /\ Types' /\ worker' = [w EXCEPT !.channelCount = 1] /\ signals' = signals \o sigs
        /\ missed => missed'
        /\ Live' => FALSE \notin {ok}
    BY <1>1, <1>3, <1>5, <1>6, <2>4, Ended
  <2>6. /\ worker'.session = worker.session /\ worker'.caps = worker.caps
        /\ worker'.sysInfo = w.sysInfo /\ worker'.chConfig = worker.chConfig
    BY <1>4, <2>5 DEF WorkerType
  <2>7. ChannelDue'
    <3>1. Types /\ signals' = signals \o sigs /\ 1 \in 1 .. Len(sigs) /\ sigs[1] = SysInfo(w)
      BY <1>1, <2>3, <2>5
    <3>2. PICK m \in 1 .. Len(signals') : signals'[m] = sigs[1]
      BY <3>1, BatchHas
    <3> QED BY <2>1, <3>1, <3>2 DEF ChannelDue
  <2>8. Live' => SystemFollows'
    <3>1. Live' => w.sysInfo = worker.session
      BY <1>3, <1>4, <2>5
    <3>2. EndsUp(signals', "sysInfo", Of(gui.sysInfo, 0), Of(w.sysInfo, 0))
      <4>1. Types /\ signals' = signals \o sigs /\ Len(sigs) <= 2
        BY <1>1, <2>3, <2>5
      <4>2. 1 \in 1 .. Len(sigs) /\ Kind(sigs[1]) = "sysInfo"
        BY <2>1, <2>3
      <4>3. Brings(sigs, "sysInfo", Of(w.sysInfo, 0))
        BY <2>3
      <4> QED BY <4>1, <4>2, <4>3, Settles
    <3> QED BY <2>6, <3>1, <3>2 DEF SystemFollows, RunFrame
  <2>9. \A k \in 1 .. Len(sigs) : Kind(sigs[k]) # "link"
    BY <2>1, <2>3
  <2>10. Asks("sysInfo", sigs)
    BY <1>2, <2>3, <2>5, <2>6, <2>7, <2>8, <2>9 DEF Asks, KeepsSystem, KeepsCaps, KeepsConfig
  <2> QED BY <1>5, <2>10, AskKeeps
<1> QED BY <1>7, <1>8

\* One signal.
LEMMA OneEmittedAlone ==
    ASSUME NEW s \in SignalType
    PROVE  <<s>> \in Seq(SignalType) /\ Len(<<s>>) = 1 /\ \A k \in 1 .. Len(<<s>>) : <<s>>[k] = s
OBVIOUS

\* One signal or none.
LEMMA OneOrNone ==
    ASSUME NEW s \in SignalType, NEW silent \in BOOLEAN, NEW sigs,
           sigs = IF silent THEN << >> ELSE <<s>>
    PROVE  /\ sigs \in Seq(SignalType) /\ Len(sigs) <= 1
           /\ \A k \in 1 .. Len(sigs) : sigs[k] = s
           /\ ~silent => Len(sigs) = 1 /\ sigs[1] = s
<1>1. CASE silent
  <2>1. sigs = << >>
    BY <1>1
  <2> QED BY <1>1, <2>1
<1>2. CASE ~silent
  BY <1>2, OneEmittedAlone
<1> QED BY <1>1, <1>2

\* A discovery of the channel: what it read is of the board of the session.
LEMMA ChInfoJob ==
    ASSUME GuiInv, RunFrame, Head(jobs).op = "chInfo", doRefreshChannelInfo
    PROVE  GuiInv'
<1>1. Types /\ worker \in WorkerType /\ config \in [Boards -> Values]
  BY TypesAre DEF GuiInv
<1>2. PICK ok, w :
         /\ ok \in Answers
         /\ w = IF ok THEN [worker EXCEPT !.caps = worker.session] ELSE worker
         /\ Ends(w, IF w.session = None THEN << >> ELSE <<ChInfo(w)>>, {ok})
         /\ config' = config
  BY DEF doRefreshChannelInfo
<1>3. ok \in BOOLEAN /\ {ok} \in SUBSET BOOLEAN /\ (FALSE \notin {ok} => ok = TRUE)
  BY <1>1, <1>2, SessionTypes
<1>4. /\ w \in WorkerType /\ w.session = worker.session /\ w.sysInfo = worker.sysInfo
      /\ w.chConfig = worker.chConfig /\ (ok = TRUE => w.caps = worker.session)
      /\ (worker.caps = worker.session => w.caps = worker.session)
  BY <1>1, <1>2, <1>3 DEF WorkerType
<1>5. "chInfo" \in AskOps /\ config' \in [Boards -> Values]
  BY <1>1, <1>2 DEF AskOps, Ops
<1>6. /\ ChInfo(w) \in SignalType /\ Kind(ChInfo(w)) = "chInfo"
      /\ Content(ChInfo(w)) = Of(w.caps, 0)
  BY <1>4, SignalTypes
<1>7. PICK sigs \in Seq(SignalType) :
        /\ sigs = IF w.session = None THEN << >> ELSE <<ChInfo(w)>>
        /\ Len(sigs) <= 2 /\ \A k \in 1 .. Len(sigs) : sigs[k] = ChInfo(w)
  <2>1. PICK sigs : sigs = IF w.session = None THEN << >> ELSE <<ChInfo(w)>>
    OBVIOUS
  <2>2. /\ sigs \in Seq(SignalType) /\ Len(sigs) <= 1
        /\ \A k \in 1 .. Len(sigs) : sigs[k] = ChInfo(w)
    BY <1>6, <2>1, OneOrNone
  <2>3. Len(sigs) <= 2
    BY <2>2, LenProperties
  <2> QED BY <2>1, <2>2, <2>3
<1>8. /\ Types' /\ worker' = w /\ signals' = signals \o sigs
      /\ missed => missed'
      /\ Live' => FALSE \notin {ok}
  <2>1. Ends(w, sigs, {ok})
    BY <1>2, <1>7
  <2> QED BY <1>1, <1>3, <1>4, <1>5, <2>1, Ended
<1>9. /\ \A k \in 1 .. Len(sigs) : Kind(sigs[k]) # "link"
      /\ Brings(sigs, "sysInfo", Of(worker.sysInfo, 0))
      /\ Brings(sigs, "chInfo", Of(w.caps, 0))
      /\ Brings(sigs, "chConfig", Of(worker.chConfig.board, worker.chConfig.value))
  BY <1>6, <1>7 DEF Brings
<1>10. ASSUME Live' PROVE CapsFollow'
  <2>1. w.caps = worker.session /\ w.session # None
    BY <1>3, <1>4, <1>8, <1>10 DEF Live
  <2>2. Len(sigs) = 1 /\ sigs[1] = ChInfo(w)
    BY <1>6, <1>7, <2>1, Batches
  <2>3. 1 \in 1 .. Len(sigs) /\ Kind(sigs[1]) = "chInfo"
    BY <1>6, <2>2
  <2>4. Types /\ signals' = signals \o sigs /\ Len(sigs) <= 2 /\ Brings(sigs, "chInfo", Of(w.caps, 0))
    BY <1>1, <1>7, <1>8, <1>9
  <2>5. EndsUp(signals', "chInfo", Of(gui.caps, 0), Of(w.caps, 0))
    BY <2>3, <2>4, Settles
  <2> QED BY <1>4, <1>8, <2>1, <2>5 DEF CapsFollow, RunFrame
<1>11. Asks("chInfo", sigs)
  BY <1>2, <1>4, <1>7, <1>8, <1>9, <1>10 DEF Asks, KeepsSystem, KeepsCaps, KeepsConfig
<1> QED BY <1>5, <1>11, AskKeeps

\* A read of the system configuration shows nothing of the channel.
LEMMA SysConfigJob ==
    ASSUME GuiInv, RunFrame, Head(jobs).op = "sysConfig", doReadSystemConfig
    PROVE  GuiInv'
<1>1. Types /\ worker \in WorkerType /\ config \in [Boards -> Values]
  BY TypesAre DEF GuiInv
<1>2. PICK ok \in Answers : Ends(worker, << >>, {ok}) /\ config' = config
  BY DEF doReadSystemConfig
<1>3. {ok} \in SUBSET BOOLEAN
  BY <1>1, <1>2, SessionTypes
<1>4. "sysConfig" \in AskOps /\ config' \in [Boards -> Values]
  BY <1>1, <1>2 DEF AskOps, Ops
<1>5. PICK sigs \in Seq(SignalType) : sigs = << >> /\ Len(sigs) = 0
  BY Batches
<1>6. Ends(worker, sigs, {ok})
  BY <1>2, <1>5
<1>7. /\ Types' /\ worker' = worker /\ signals' = signals \o sigs /\ (missed => missed')
  BY <1>1, <1>3, <1>4, <1>6, Ended
<1>8. Asks("sysConfig", sigs)
  BY <1>2, <1>5, <1>7 DEF Asks, KeepsSystem, KeepsCaps, KeepsConfig, Brings
<1> QED BY <1>4, <1>8, AskKeeps

\* A read of the configuration: it is that of the board if the capabilities known are.
LEMMA ChConfigJob ==
    ASSUME GuiInv, RunFrame, Head(jobs).op = "chConfig", doReadChannelConfig
    PROVE  GuiInv'
<1>1. Types /\ worker \in WorkerType /\ config \in [Boards -> Values]
  BY TypesAre DEF GuiInv
<1>2. PICK ok, w :
         /\ ok \in Answers
         /\ w = ConfigRead(worker, ok /\ worker.caps \in {None, worker.session},
                           IF ok THEN config[worker.session] ELSE 0)
         /\ Ends(w, IF w.session = None THEN << >> ELSE <<ChConfig(w)>>, {ok})
         /\ config' = config
  BY DEF doReadChannelConfig
<1>3. /\ ok \in BOOLEAN /\ {ok} \in SUBSET BOOLEAN /\ (FALSE \notin {ok} => ok = TRUE)
      /\ ok = TRUE => config[worker.session] \in Values
  BY <1>1, <1>2, SessionTypes
<1>4. /\ w \in WorkerType /\ w.session = worker.session /\ w.sysInfo = worker.sysInfo
      /\ w.caps = worker.caps
      /\ ok = TRUE /\ worker.caps = worker.session =>
             w.chConfig = [board |-> worker.session, value |-> config[worker.session]]
  BY <1>1, <1>2, <1>3 DEF WorkerType, ConfigRead, ConfigShown
<1>5. "chConfig" \in AskOps /\ config' \in [Boards -> Values]
  BY <1>1, <1>2 DEF AskOps, Ops
<1>6. /\ ChConfig(w) \in SignalType /\ Kind(ChConfig(w)) = "chConfig"
      /\ Content(ChConfig(w)) = Of(w.chConfig.board, w.chConfig.value)
  BY <1>4, SignalTypes
<1>7. PICK sigs \in Seq(SignalType) :
        /\ sigs = IF w.session = None THEN << >> ELSE <<ChConfig(w)>>
        /\ Len(sigs) <= 2 /\ \A k \in 1 .. Len(sigs) : sigs[k] = ChConfig(w)
  <2>1. PICK sigs : sigs = IF w.session = None THEN << >> ELSE <<ChConfig(w)>>
    OBVIOUS
  <2>2. /\ sigs \in Seq(SignalType) /\ Len(sigs) <= 1
        /\ \A k \in 1 .. Len(sigs) : sigs[k] = ChConfig(w)
    BY <1>6, <2>1, OneOrNone
  <2>3. Len(sigs) <= 2
    BY <2>2, LenProperties
  <2> QED BY <2>1, <2>2, <2>3
<1>8. /\ Types' /\ worker' = w /\ signals' = signals \o sigs
      /\ missed => missed'
      /\ Live' => FALSE \notin {ok}
  <2>1. Ends(w, sigs, {ok})
    BY <1>2, <1>7
  <2> QED BY <1>1, <1>3, <1>4, <1>5, <2>1, Ended
<1>9. /\ \A k \in 1 .. Len(sigs) : Kind(sigs[k]) # "link"
      /\ Brings(sigs, "sysInfo", Of(worker.sysInfo, 0))
      /\ Brings(sigs, "chInfo", Of(w.caps, 0))
      /\ Brings(sigs, "chConfig", Of(w.chConfig.board, w.chConfig.value))
  BY <1>6, <1>7 DEF Brings
<1>10. ASSUME Live', worker.caps = worker.session PROVE ConfigFollows'
  <2>1. /\ w.chConfig = [board |-> worker.session, value |-> config[worker.session]]
        /\ w.session # None
    BY <1>3, <1>4, <1>8, <1>10 DEF Live
  <2>2. Len(sigs) = 1 /\ sigs[1] = ChConfig(w)
    BY <1>6, <1>7, <2>1, Batches
  <2>3. 1 \in 1 .. Len(sigs) /\ Kind(sigs[1]) = "chConfig"
    BY <1>6, <2>2
  <2>4. /\ Types /\ signals' = signals \o sigs /\ Len(sigs) <= 2
        /\ Brings(sigs, "chConfig", Of(worker.session, config[worker.session]))
    BY <1>1, <1>7, <1>8, <1>9, <2>1
  <2>5. EndsUp(signals', "chConfig", Of(gui.chConfig.board, gui.chConfig.value),
               Of(worker.session, config[worker.session]))
    BY <2>3, <2>4, Settles
  <2> QED BY <1>2, <1>4, <1>8, <1>10, <2>1, <2>5 DEF ConfigFollows, RunFrame
<1>11. Asks("chConfig", sigs)
  BY <1>4, <1>7, <1>8, <1>9, <1>10 DEF Asks, KeepsSystem, KeepsCaps, KeepsConfig
<1> QED BY <1>5, <1>11, AskKeeps

\* A command: the status is read back, the capabilities are those of the cache.
LEMMA CommandJob ==
    ASSUME GuiInv, RunFrame, Head(jobs).op = "command", doCommand
    PROVE  GuiInv'
<1>1. Types /\ worker \in WorkerType /\ config \in [Boards -> Values]
  BY TypesAre DEF GuiInv
<1>2. PICK ok \in Answers :
         Ends(worker, IF ok THEN <<ChInfo(worker)>> ELSE << >>, {ok}) /\ config' = config
  BY DEF doCommand
<1>3. ok \in BOOLEAN /\ {ok} \in SUBSET BOOLEAN
  BY <1>1, <1>2, SessionTypes
<1>4. "command" \in AskOps /\ config' \in [Boards -> Values]
  BY <1>1, <1>2 DEF AskOps, Ops
<1>5. /\ ChInfo(worker) \in SignalType /\ Kind(ChInfo(worker)) = "chInfo"
      /\ Content(ChInfo(worker)) = Of(worker.caps, 0)
  BY <1>1, SignalTypes
<1>6. PICK sigs \in Seq(SignalType) :
        /\ sigs = IF ~ok THEN << >> ELSE <<ChInfo(worker)>>
        /\ Len(sigs) <= 2 /\ \A k \in 1 .. Len(sigs) : sigs[k] = ChInfo(worker)
  <2>1. PICK sigs : sigs = IF ~ok THEN << >> ELSE <<ChInfo(worker)>>
    OBVIOUS
  <2>2. /\ sigs \in Seq(SignalType) /\ Len(sigs) <= 1
        /\ \A k \in 1 .. Len(sigs) : sigs[k] = ChInfo(worker)
    BY <1>3, <1>5, <2>1, OneOrNone
  <2>3. Len(sigs) <= 2
    BY <2>2, LenProperties
  <2> QED BY <2>1, <2>2, <2>3
<1>7. /\ Types' /\ worker' = worker /\ signals' = signals \o sigs /\ (missed => missed')
  <2>1. Ends(worker, sigs, {ok})
    BY <1>2, <1>3, <1>6
  <2> QED BY <1>1, <1>3, <1>4, <2>1, Ended
<1>8. /\ \A k \in 1 .. Len(sigs) : Kind(sigs[k]) # "link"
      /\ Brings(sigs, "sysInfo", Of(worker.sysInfo, 0))
      /\ Brings(sigs, "chInfo", Of(worker.caps, 0))
      /\ Brings(sigs, "chConfig", Of(worker.chConfig.board, worker.chConfig.value))
  BY <1>5, <1>6 DEF Brings
<1>9. Asks("command", sigs)
  BY <1>2, <1>6, <1>7, <1>8 DEF Asks, KeepsSystem, KeepsCaps, KeepsConfig
<1> QED BY <1>4, <1>9, AskKeeps

\* Two signals or none.
LEMMA TwoOrNone ==
    ASSUME NEW a \in SignalType, NEW b \in SignalType, NEW silent \in BOOLEAN, NEW sigs,
           sigs = IF silent THEN << >> ELSE <<a, b>>
    PROVE  /\ sigs \in Seq(SignalType) /\ Len(sigs) <= 2
           /\ \A k \in 1 .. Len(sigs) : sigs[k] \in {a, b}
           /\ ~silent => Len(sigs) = 2 /\ sigs[1] = a /\ sigs[2] = b
<1>1. CASE silent
  <2>1. sigs = << >>
    BY <1>1
  <2> QED BY <1>1, <2>1
<1>2. CASE ~silent
  <2>1. sigs = <<a, b>>
    BY <1>2
  <2> QED BY <1>2, <2>1
<1> QED BY <1>1, <1>2

\* A write that is answered is carried out, and what it changed is read back and shown
\* if the capabilities known are those of the board.
LEMMA WriteJob ==
    ASSUME GuiInv, RunFrame, Head(jobs).op = "write", NEW v \in Values, doWrite(v)
    PROVE  GuiInv'
<1>1. Types /\ worker \in WorkerType /\ config \in [Boards -> Values]
  BY TypesAre DEF GuiInv
<1>2. PICK ok, back, w :
         /\ ok \in Answers /\ back \in Answers
         /\ w = ConfigRead(worker, ok /\ BlockRead(back), v)
         /\ Ends(w, IF ok THEN Refreshed(w) ELSE << >>, {ok, back})
         /\ Written(ok, v)
  BY DEF doWrite
<1>3. /\ ok \in BOOLEAN /\ back \in BOOLEAN /\ {ok, back} \in SUBSET BOOLEAN
      /\ FALSE \notin {ok, back} => ok = TRUE /\ back = TRUE
      /\ worker.session # None => worker.session \in Boards
  BY <1>1, <1>2, SessionTypes
<1>4. /\ w \in WorkerType /\ w.session = worker.session /\ w.sysInfo = worker.sysInfo
      /\ w.caps = worker.caps
      /\ ok = TRUE /\ back = TRUE /\ worker.caps = worker.session =>
             w.chConfig = [board |-> worker.session, value |-> v]
  BY <1>1, <1>2, <1>3 DEF WorkerType, ConfigRead, ConfigShown, BlockRead
<1>5. /\ config' \in [Boards -> Values]
      /\ ok = TRUE => config'[worker.session] = v
  BY <1>1, <1>2, <1>3 DEF Written
<1>6. /\ ChInfo(w) \in SignalType /\ Kind(ChInfo(w)) = "chInfo"
      /\ Content(ChInfo(w)) = Of(w.caps, 0)
      /\ ChConfig(w) \in SignalType /\ Kind(ChConfig(w)) = "chConfig"
      /\ Content(ChConfig(w)) = Of(w.chConfig.board, w.chConfig.value)
  BY <1>4, SignalTypes
<1>7. PICK sigs \in Seq(SignalType) :
        /\ sigs = IF ~ok THEN << >> ELSE <<ChInfo(w), ChConfig(w)>>
        /\ Len(sigs) <= 2 /\ \A k \in 1 .. Len(sigs) : sigs[k] \in {ChInfo(w), ChConfig(w)}
        /\ ok => Len(sigs) = 2 /\ sigs[2] = ChConfig(w)
  <2>1. PICK sigs : sigs = IF ~ok THEN << >> ELSE <<ChInfo(w), ChConfig(w)>>
    OBVIOUS
  <2>2. (~ok) \in BOOLEAN /\ ChInfo(w) \in SignalType /\ ChConfig(w) \in SignalType
    BY <1>6
  <2>3. /\ sigs \in Seq(SignalType) /\ Len(sigs) <= 2
        /\ \A k \in 1 .. Len(sigs) : sigs[k] \in {ChInfo(w), ChConfig(w)}
        /\ ok => Len(sigs) = 2 /\ sigs[2] = ChConfig(w)
    BY <1>3, <2>1, <2>2, TwoOrNone
  <2> QED BY <2>1, <2>3
<1>8. /\ Types' /\ worker' = w /\ signals' = signals \o sigs
      /\ missed => missed'
      /\ Live' => FALSE \notin {ok, back}
  <2>1. Ends(w, sigs, {ok, back})
    BY <1>2, <1>3, <1>7 DEF Refreshed
  <2> QED BY <1>1, <1>3, <1>4, <1>5, <2>1, Ended
<1>9. /\ \A k \in 1 .. Len(sigs) : Kind(sigs[k]) # "link"
      /\ Brings(sigs, "sysInfo", Of(worker.sysInfo, 0))
      /\ Brings(sigs, "chInfo", Of(w.caps, 0))
      /\ Brings(sigs, "chConfig", Of(w.chConfig.board, w.chConfig.value))
  BY <1>6, <1>7 DEF Brings
<1>10. ASSUME Live', worker.caps = worker.session PROVE ConfigFollows'
  <2>1. /\ w.chConfig = [board |-> worker.session, value |-> v] /\ ok = TRUE
        /\ w.chConfig.board = worker.session /\ w.chConfig.value = v
        /\ config'[worker.session] = v
    BY <1>3, <1>4, <1>5, <1>8, <1>10
  <2>2. 2 \in 1 .. Len(sigs) /\ Kind(sigs[2]) = "chConfig"
    BY <1>6, <1>7, <2>1
  <2>3. /\ Types /\ signals' = signals \o sigs /\ Len(sigs) <= 2
        /\ Brings(sigs, "chConfig", Of(worker.session, v))
    BY <1>1, <1>7, <1>8, <1>9, <2>1
  <2>4. EndsUp(signals', "chConfig", Of(gui.chConfig.board, gui.chConfig.value),
               Of(worker.session, v))
    BY <2>2, <2>3, Settles
  <2> QED BY <1>4, <1>8, <1>10, <2>1, <2>4 DEF ConfigFollows, RunFrame
<1>11. "write" \in AskOps
  BY DEF AskOps, Ops
<1>12. Asks("write", sigs)
  BY <1>4, <1>7, <1>8, <1>9, <1>10 DEF Asks, KeepsSystem, KeepsCaps, KeepsConfig
<1> QED BY <1>11, <1>12, AskKeeps

\* A poll: the status of the system and of the channel, by the caches.
LEMMA PollJob ==
    ASSUME GuiInv, RunFrame, Head(jobs).op = "poll", doPollStatus
    PROVE  GuiInv'
<1>1. Types /\ worker \in WorkerType /\ config \in [Boards -> Values] /\ config' = config
  BY TypesAre DEF GuiInv, doPollStatus
<1>2. "poll" \in AskOps
  BY DEF AskOps, Ops
<1>3. CASE UNCHANGED <<worker, signals, missed>>
  <2>1. PICK sigs \in Seq(SignalType) : sigs = << >> /\ Len(sigs) = 0
    BY Batches
  <2>2. signals' = signals \o sigs
    BY <1>1, <1>3, <2>1, ConcatEmptySeq DEF Types
  <2>3. missed' \in BOOLEAN
    BY <1>1, <1>3 DEF Types, TypeOK
  <2>4. Types'
    BY <1>1, <1>3, <2>2, <2>3, RunTypes
  <2>5. Asks("poll", sigs)
    BY <1>1, <1>3, <2>1, <2>2, <2>4 DEF Asks, KeepsSystem, KeepsCaps, KeepsConfig, Brings
  <2> QED BY <1>2, <2>5, AskKeeps
<1>4. CASE \E ok \in Answers : \E asked \in IF worker.caps = None THEN Answers ELSE {ok} :
             LET known == IF worker.caps = None /\ asked
                          THEN [worker EXCEPT !.caps = worker.session] ELSE worker
                 w == IF ok THEN Success(known) ELSE Failure(known)
             IN  Ends(w, PollResult(w, ok), {asked, ok})
  <2>1. PICK ok, known, w : \E asked \in IF worker.caps = None THEN Answers ELSE {ok} :
          /\ ok \in Answers
          /\ known = IF worker.caps = None /\ asked
                     THEN [worker EXCEPT !.caps = worker.session] ELSE worker
          /\ w = IF ok THEN Success(known) ELSE Failure(known)
          /\ Ends(w, PollResult(w, ok), {asked, ok})
    BY <1>4
  <2>2. PICK asked \in IF worker.caps = None THEN Answers ELSE {ok} :
          /\ known = IF worker.caps = None /\ asked
                     THEN [worker EXCEPT !.caps = worker.session] ELSE worker
          /\ w = IF ok THEN Success(known) ELSE Failure(known)
          /\ Ends(w, PollResult(w, ok), {asked, ok})
    BY <2>1
  <2>3. {asked, ok} \in SUBSET BOOLEAN
    BY <1>1, <2>1, <2>2, SessionTypes
  <2>4. known \in WorkerType /\ known.session = worker.session /\ known.sysInfo = worker.sysInfo
        /\ known.chConfig = worker.chConfig
        /\ (worker.caps = worker.session => known.caps = worker.session)
    BY <1>1, <2>2 DEF WorkerType
  <2>5. Failure(known) \in WorkerType /\ Success(known) \in WorkerType
    BY <2>4, CountTypes
  <2>6. w \in WorkerType /\ w.session = worker.session /\ w.sysInfo = worker.sysInfo
        /\ w.chConfig = worker.chConfig
        /\ (worker.caps = worker.session => w.caps = worker.session)
    BY <2>2, <2>4, <2>5 DEF Failure, Success, WorkerType
  <2>7. /\ SysInfo(w) \in SignalType /\ Kind(SysInfo(w)) = "sysInfo"
        /\ Content(SysInfo(w)) = Of(w.sysInfo, 0)
        /\ ChInfo(w) \in SignalType /\ Kind(ChInfo(w)) = "chInfo"
        /\ Content(ChInfo(w)) = Of(w.caps, 0)
    BY <2>6, SignalTypes
  <2>8. PICK sigs \in Seq(SignalType) :
          /\ sigs = <<SysInfo(w), ChInfo(w)>> /\ Len(sigs) <= 2
          /\ \A k \in 1 .. Len(sigs) : sigs[k] \in {SysInfo(w), ChInfo(w)}
    <3>1. PICK sigs : sigs = IF FALSE THEN << >> ELSE <<SysInfo(w), ChInfo(w)>>
      OBVIOUS
    <3>2. FALSE \in BOOLEAN /\ SysInfo(w) \in SignalType /\ ChInfo(w) \in SignalType
      BY <2>7
    <3>3. /\ sigs \in Seq(SignalType) /\ Len(sigs) <= 2
          /\ \A k \in 1 .. Len(sigs) : sigs[k] \in {SysInfo(w), ChInfo(w)}
      BY <3>1, <3>2, TwoOrNone
    <3> QED BY <3>1, <3>3
  <2>9. /\ Types' /\ worker' = w /\ signals' = signals \o sigs /\ (missed => missed')
    <3>1. Ends(w, sigs, {asked, ok})
      BY <2>2, <2>8 DEF PollResult, Polled
    <3> QED BY <1>1, <2>3, <2>6, <3>1, Ended
  <2>10. /\ \A k \in 1 .. Len(sigs) : Kind(sigs[k]) # "link"
         /\ Brings(sigs, "sysInfo", Of(worker.sysInfo, 0))
         /\ Brings(sigs, "chInfo", Of(w.caps, 0))
         /\ Brings(sigs, "chConfig", Of(worker.chConfig.board, worker.chConfig.value))
    BY <2>6, <2>7, <2>8 DEF Brings
  <2>11. Asks("poll", sigs)
    BY <1>1, <2>6, <2>8, <2>9, <2>10 DEF Asks, KeepsSystem, KeepsCaps, KeepsConfig
  <2> QED BY <1>2, <2>11, AskKeeps
<1> QED BY <1>3, <1>4 DEF doPollStatus

\* What a connect or a disconnect leaves waiting.
LEMMA AppendWaits ==
    ASSUME Types, NEW s \in SignalType, signals' = Append(signals, s)
    PROVE  /\ signals' \in Seq(SignalType)
           /\ \A k \in 1 .. Len(signals) : k \in 1 .. Len(signals') /\ signals'[k] = signals[k]
           /\ \E k \in 1 .. Len(signals') : signals'[k] = s
<1>1. /\ signals' \in Seq(SignalType) /\ Len(signals') = Len(signals) + 1 /\ Len(signals) \in Nat
      /\ \A k \in 1 .. Len(signals) : signals'[k] = signals[k]
      /\ signals'[Len(signals) + 1] = s
  BY Appended, LenProperties DEF Types
<1>2. Len(signals) + 1 \in 1 .. Len(signals')
  BY <1>1
<1> QED BY <1>1, <1>2

\* A connect: once the window knows, the discovery is queued.
LEMMA ConnectJob ==
    ASSUME GuiInv, RunFrame, Head(jobs).op = "connect", NEW b \in Boards, doConnect(b)
    PROVE  GuiInv'
<1>1. Types /\ worker \in WorkerType /\ config \in [Boards -> Values] /\ missed \in BOOLEAN
  BY TypesAre DEF GuiInv
<1>2. PICK ok \in BOOLEAN :
         /\ worker' = [worker EXCEPT !.session = IF ok THEN b ELSE None]
         /\ signals' = Append(signals, [Emit("connected") EXCEPT !.ok = ok])
         /\ missed' = (missed /\ ~ok)
         /\ config' = config
  BY DEF doConnect
<1> DEFINE s == [Emit("connected") EXCEPT !.ok = ok]
<1>3. /\ s \in SignalType /\ s.sig = "connected" /\ s.ok = ok
      /\ Kind(s) = "link" /\ Content(s) = Link(ok)
  BY <1>2 DEF Emit, SignalType, BoardOrNone, Values, Kind, Content
<1>4. worker' \in WorkerType /\ (worker'.session # None <=> ok)
  BY <1>1, <1>2, BoundsAssumption DEF WorkerType, BoardOrNone
<1>5. /\ signals' \in Seq(SignalType)
      /\ \A k \in 1 .. Len(signals) : k \in 1 .. Len(signals') /\ signals'[k] = signals[k]
      /\ \E k \in 1 .. Len(signals') : signals'[k] = s
  BY <1>1, <1>2, <1>3, AppendWaits
<1>6. Types'
  BY <1>1, <1>2, <1>4, <1>5, QueueTypes
<1>7. LinkFollows'
  <2>1. (worker'.session # None) = ok
    BY <1>4
  <2>2. EndsUp(signals', "link", Link(gui.connected), Link(ok))
    BY <1>1, <1>2, <1>3, EmitEndsUp DEF Types
  <2> QED BY <2>1, <2>2 DEF LinkFollows, RunFrame
<1>8. TimerRuns'
  <2>1. Queued("disconnect") => Queued("disconnect")'
    BY <1>1, RunKeepsDue DEF RunFrame
  <2> QED BY <1>5, <2>1 DEF GuiInv, TimerRuns, RunFrame
<1>9. FreshOrDue'
  <2>1. Live' => ok = TRUE
    BY <1>4 DEF Live
  <2>2. Live' => SystemDue'
    BY <1>3, <1>5, <2>1 DEF SystemDue
  <2> QED BY <2>2 DEF FreshOrDue, ChannelDue
<1> QED BY <1>6, <1>7, <1>8, <1>9 DEF GuiInv

\* A disconnect: the window hears of it.
LEMMA DisconnectJob ==
    ASSUME GuiInv, RunFrame, Head(jobs).op = "disconnect", doDisconnect
    PROVE  GuiInv'
<1>1. Types /\ worker \in WorkerType /\ config \in [Boards -> Values] /\ missed \in BOOLEAN
  BY TypesAre DEF GuiInv
<1>2. PICK s : s = Emit("disconnected") /\ signals' = Append(signals, s)
  BY DEF doDisconnect
<1>3. /\ s \in SignalType /\ s.sig = "disconnected" /\ Kind(s) = "link" /\ Content(s) = Link(FALSE)
  BY <1>2 DEF Emit, SignalType, BoardOrNone, Values, Kind, Content
<1>4. /\ worker' \in WorkerType /\ worker'.session = None /\ config' = config /\ missed' = missed
  BY <1>1 DEF doDisconnect, WorkerType, BoardOrNone
<1>5. /\ signals' \in Seq(SignalType)
      /\ \E k \in 1 .. Len(signals') : signals'[k] = s
  BY <1>1, <1>2, <1>3, AppendWaits
<1>6. Types'
  BY <1>1, <1>4, <1>5, QueueTypes
<1>7. LinkFollows'
  <2>1. EndsUp(signals', "link", Link(gui.connected), Link(FALSE))
    BY <1>1, <1>2, <1>3, EmitEndsUp DEF Types
  <2> QED BY <1>4, <2>1 DEF LinkFollows, RunFrame
<1>8. TimerRuns'
  BY <1>3, <1>5 DEF TimerRuns
<1>9. FreshOrDue'
  BY <1>4 DEF FreshOrDue, Live
<1> QED BY <1>6, <1>7, <1>8, <1>9 DEF GuiInv

(***************************************************************************)
(* The GUI thread                                                          *)
(***************************************************************************)
\* A signal that is handled waits no more, the others do.
LEMMA TailWaits ==
    ASSUME Types, signals # << >>, signals' = Tail(signals)
    PROVE  /\ signals' \in Seq(SignalType) /\ Head(signals) \in SignalType
           /\ \A k \in 1 .. Len(signals) :
                 \/ signals[k] = Head(signals)
                 \/ \E j \in 1 .. Len(signals') : signals'[j] = signals[k]
<1>1. /\ signals' \in Seq(SignalType) /\ Len(signals) \in Nat \ {0}
      /\ Len(signals') = Len(signals) - 1 /\ Head(signals) = signals[1]
      /\ Head(signals) \in SignalType
      /\ \A k \in 1 .. Len(signals') : signals'[k] = signals[k + 1]
  BY Removed DEF Types
<1>2. ASSUME NEW k \in 1 .. Len(signals), k # 1
      PROVE  k - 1 \in 1 .. Len(signals') /\ signals'[k - 1] = signals[k]
  BY <1>1, <1>2
<1> QED BY <1>1, <1>2

\* Jobs that the backend appends.
LEMMA TwoJobs ==
    ASSUME Types, NEW a \in JobType, NEW b \in JobType, a.op # "connect", b.op # "connect",
           jobs' = jobs \o <<a, b>>
    PROVE  /\ jobs' \in Seq(JobType) /\ JobsGrow
           /\ \A k \in 1 .. Len(jobs') : jobs'[k].op = "connect" => jobs'[k].board \in Boards
           /\ \E j, k \in 1 .. Len(jobs') : j < k /\ jobs'[j] = a /\ jobs'[k] = b
<1>1. jobs' = Append(Append(jobs, a), b)
  BY Concatenated DEF Types
<1>2. /\ Append(jobs, a) \in Seq(JobType) /\ Len(Append(jobs, a)) = Len(jobs) + 1
      /\ \A k \in 1 .. Len(jobs) : Append(jobs, a)[k] = jobs[k]
      /\ Append(jobs, a)[Len(jobs) + 1] = a
      /\ Len(jobs) \in Nat
  BY Appended, LenProperties DEF Types
<1>3. /\ jobs' \in Seq(JobType) /\ Len(jobs') = Len(Append(jobs, a)) + 1
      /\ \A k \in 1 .. Len(Append(jobs, a)) : jobs'[k] = Append(jobs, a)[k]
      /\ jobs'[Len(Append(jobs, a)) + 1] = b
  BY <1>1, <1>2, Appended
<1>4. /\ Len(jobs') = Len(jobs) + 2 /\ \A k \in 1 .. Len(jobs) : jobs'[k] = jobs[k]
      /\ jobs'[Len(jobs) + 1] = a /\ jobs'[Len(jobs) + 2] = b
  BY <1>2, <1>3
<1>5. JobsGrow
  BY <1>2, <1>4 DEF JobsGrow
<1>6. \A k \in 1 .. Len(jobs') :
         \/ k \in 1 .. Len(jobs) /\ jobs'[k] = jobs[k]
         \/ jobs'[k] = a
         \/ jobs'[k] = b
  BY <1>2, <1>4
<1>7. \A k \in 1 .. Len(jobs') : jobs'[k].op = "connect" => jobs'[k].board \in Boards
  BY <1>6 DEF Types
<1>8. /\ Len(jobs) + 1 \in 1 .. Len(jobs') /\ Len(jobs) + 2 \in 1 .. Len(jobs')
      /\ Len(jobs) + 1 < Len(jobs) + 2
  BY <1>2, <1>4
<1> QED BY <1>3, <1>4, <1>5, <1>7, <1>8

\* What is shown may be read in another way, as long as it is what it should be.
LEMMA EndsUpAs ==
    ASSUME NEW q, NEW kind, NEW shown, NEW other, NEW what,
           EndsUp(q, kind, shown, what), shown = what => other = what
    PROVE  EndsUp(q, kind, other, what)
BY DEF EndsUp

\* If no discovery is due, the window knows of the session.
LEMMA ConnectedShown ==
    ASSUME GuiInv, worker.session # None, ~SystemDue
    PROVE  gui.connected
<1>1. EndsUp(signals, "link", Link(gui.connected), Link(TRUE))
  <2>1. (worker.session # None) = TRUE
    OBVIOUS
  <2> QED BY <2>1 DEF GuiInv, LinkFollows
<1>2. gui.connected \in BOOLEAN /\ signals \in Seq(SignalType)
  BY DEF GuiInv, Types, TypeOK
<1>3. ASSUME NEW k \in 1 .. Len(signals), Kind(signals[k]) = "link",
             Content(signals[k]) = Link(TRUE)
      PROVE  FALSE
  <2>1. signals[k] \in SignalType
    BY <1>2, <1>3, ElementOfSeq
  <2>2. Link(signals[k].sig = "connected" /\ signals[k].ok) = Link(TRUE)
    BY <1>3 DEF Content
  <2>3. (signals[k].sig = "connected" /\ signals[k].ok) = TRUE
    BY <2>2 DEF Link
  <2> QED BY <2>3 DEF SystemDue
<1>4. Link(gui.connected) = Link(TRUE)
  BY <1>1, <1>3 DEF EndsUp
<1> QED BY <1>2, <1>4 DEF Link

\* What HandleSignal does around the signal, and what follows whatever it is.
HandleFrame ==
    /\ signals # << >>
    /\ signals' = Tail(signals)
    /\ UNCHANGED <<config, worker, clicks, lost, missed>>

LEMMA HandleFollows ==
    ASSUME GuiInv, HandleFrame, NEW s, s = Head(signals),
           s.sig = "sysInfo" => gui'.sysInfo = s.board,
           s.sig = "chInfo" => gui'.caps = s.board,
           s.sig = "chConfig" => gui'.chConfig = [board |-> s.board, value |-> s.value],
           s.sig # "sysInfo" => gui'.sysInfo = gui.sysInfo,
           s.sig # "chInfo" => gui'.caps = gui.caps,
           s.sig # "chConfig" => gui'.chConfig = gui.chConfig
    PROVE  /\ SystemFollows => SystemFollows'
           /\ CapsFollow => CapsFollow'
           /\ ConfigFollows => ConfigFollows'
<1>1. /\ signals \in Seq(SignalType) /\ s \in SignalType
      /\ Kind(s) = IF s.sig \in {"connected", "disconnected"} THEN "link" ELSE s.sig
      /\ Kind(s) # "link" => Content(s) = Of(s.board, s.value)
  BY TailWaits DEF GuiInv, Types, HandleFrame, Kind, Content
<1>2. ASSUME SystemFollows PROVE SystemFollows'
  <2>1. EndsUp(signals', "sysInfo",
               IF Kind(s) = "sysInfo" THEN Content(s) ELSE Of(gui.sysInfo, 0), Of(worker.session, 0))
    BY <1>1, <1>2, HandleEndsUp DEF SystemFollows, HandleFrame
  <2>2. (IF Kind(s) = "sysInfo" THEN Content(s) ELSE Of(gui.sysInfo, 0)) = Of(worker.session, 0)
            => Of(gui'.sysInfo, 0) = Of(worker.session, 0)
    <3>1. CASE Kind(s) = "sysInfo"
      <4>1. Content(s) = Of(s.board, s.value) /\ gui'.sysInfo = s.board
        BY <1>1, <3>1
      <4>2. Of(s.board, s.value) = Of(worker.session, 0) => s.board = worker.session
        BY DEF Of
      <4> QED BY <3>1, <4>1, <4>2
    <3>2. CASE Kind(s) # "sysInfo"
      BY <1>1, <3>2
    <3> QED BY <3>1, <3>2
  <2>3. EndsUp(signals', "sysInfo", Of(gui'.sysInfo, 0), Of(worker.session, 0))
    BY <2>1, <2>2, EndsUpAs
  <2> QED BY <1>2, <2>3 DEF SystemFollows, HandleFrame
<1>3. ASSUME CapsFollow PROVE CapsFollow'
  <2>1. EndsUp(signals', "chInfo",
               IF Kind(s) = "chInfo" THEN Content(s) ELSE Of(gui.caps, 0), Of(worker.session, 0))
    BY <1>1, <1>3, HandleEndsUp DEF CapsFollow, HandleFrame
  <2>2. (IF Kind(s) = "chInfo" THEN Content(s) ELSE Of(gui.caps, 0)) = Of(worker.session, 0)
            => Of(gui'.caps, 0) = Of(worker.session, 0)
    <3>1. CASE Kind(s) = "chInfo"
      <4>1. Content(s) = Of(s.board, s.value) /\ gui'.caps = s.board
        BY <1>1, <3>1
      <4>2. Of(s.board, s.value) = Of(worker.session, 0) => s.board = worker.session
        BY DEF Of
      <4> QED BY <3>1, <4>1, <4>2
    <3>2. CASE Kind(s) # "chInfo"
      BY <1>1, <3>2
    <3> QED BY <3>1, <3>2
  <2>3. EndsUp(signals', "chInfo", Of(gui'.caps, 0), Of(worker.session, 0))
    BY <2>1, <2>2, EndsUpAs
  <2> QED BY <1>3, <2>3 DEF CapsFollow, HandleFrame
<1>4. ASSUME ConfigFollows PROVE ConfigFollows'
  <2> DEFINE is == Of(worker.session, config[worker.session])
             was == Of(gui.chConfig.board, gui.chConfig.value)
             now == Of(gui'.chConfig.board, gui'.chConfig.value)
  <2>1. EndsUp(signals', "chConfig", IF Kind(s) = "chConfig" THEN Content(s) ELSE was, is)
    BY <1>1, <1>4, HandleEndsUp DEF ConfigFollows, HandleFrame
  <2>2. (IF Kind(s) = "chConfig" THEN Content(s) ELSE was) = now
    BY <1>1
  <2>3. EndsUp(signals', "chConfig", now, is)
    BY <2>1, <2>2
  <2> QED BY <1>4, <2>3 DEF ConfigFollows, HandleFrame
<1> QED BY <1>2, <1>3, <1>4

\* What the slots do with a signal: what it brings is shown, and a discovery that
\* must follow is queued.
Handles(s) ==
    /\ HandleFrame /\ s = Head(signals)
    /\ gui' \in GuiType /\ JobsGrow
    /\ jobs' \in Seq(JobType)
    /\ \A k \in 1 .. Len(jobs') : jobs'[k].op = "connect" => jobs'[k].board \in Boards
    /\ gui'.connected = IF Kind(s) = "link" THEN s.sig = "connected" /\ s.ok ELSE gui.connected
    /\ gui'.timer = (gui.timer \/ (s.sig = "connected" /\ s.ok))
    /\ IF s.sig = "sysInfo" THEN gui'.sysInfo = s.board ELSE gui'.sysInfo = gui.sysInfo
    /\ IF s.sig = "chInfo" THEN gui'.caps = s.board ELSE gui'.caps = gui.caps
    /\ IF s.sig = "chConfig" THEN gui'.chConfig = [board |-> s.board, value |-> s.value]
       ELSE gui'.chConfig = gui.chConfig
    /\ s.sig = "connected" /\ s.ok => Queued("sysInfo")'
    /\ s.sig = "sysInfo" /\ gui.connected => Queued("chInfo")' /\ ConfigDue'

LEMMA HandleKeeps ==
    ASSUME GuiInv, NEW s, Handles(s)
    PROVE  GuiInv'
<1>1. /\ Types /\ signals' \in Seq(SignalType) /\ s \in SignalType
      /\ Kind(s) = IF s.sig \in {"connected", "disconnected"} THEN "link" ELSE s.sig
      /\ Kind(s) = "link" => Content(s) = Link(s.sig = "connected" /\ s.ok)
  BY TailWaits DEF GuiInv, Handles, HandleFrame, Kind, Content
<1>2. \A k \in 1 .. Len(signals) :
         signals[k] # s => \E j \in 1 .. Len(signals') : signals'[j] = signals[k]
  BY <1>1, TailWaits DEF Handles, HandleFrame
<1>3. Types'
  BY <1>1 DEF Types, TypeOK, Handles, HandleFrame, GuiType
<1>4. \A op \in Ops : Queued(op) => Queued(op)'
  BY <1>1, <1>3, GrowKeepsDue DEF Handles
<1>5. ConfigDue => ConfigDue'
  BY <1>1, <1>3, GrowKeepsDue DEF Handles, HandleFrame
<1>6. LinkFollows'
  <2>1. EndsUp(signals', "link",
               IF Kind(s) = "link" THEN Content(s) ELSE Link(gui.connected), Link(worker.session # None))
    BY <1>1, HandleEndsUp DEF GuiInv, LinkFollows, Types, Handles, HandleFrame
  <2>2. (IF Kind(s) = "link" THEN Content(s) ELSE Link(gui.connected)) = Link(gui'.connected)
    BY <1>1 DEF Handles
  <2>3. EndsUp(signals', "link", Link(gui'.connected), Link(worker.session # None))
    BY <2>1, <2>2
  <2>4. worker' = worker
    BY DEF Handles, HandleFrame
  <2> QED BY <2>3, <2>4 DEF LinkFollows
<1>7. TimerRuns'
  <2> SUFFICES ASSUME gui'.connected, ~gui'.timer
               PROVE  \/ Queued("disconnect")'
                      \/ \E k \in 1 .. Len(signals') : signals'[k].sig = "disconnected"
    BY DEF TimerRuns
  <2>1. Kind(s) # "link" /\ gui.connected /\ ~gui.timer /\ s.sig # "disconnected"
    BY <1>1 DEF Handles
  <2>2. Queued("disconnect") \/ \E k \in 1 .. Len(signals) : signals[k].sig = "disconnected"
    BY <2>1 DEF GuiInv, TimerRuns
  <2>3. "disconnect" \in Ops
    BY DEF Ops
  <2> QED BY <1>2, <1>4, <2>1, <2>2, <2>3
<1>8. FreshOrDue'
  <2> SUFFICES ASSUME Live'
               PROVE  /\ (SystemDue \/ SystemFollows)'
                      /\ (ChannelDue \/ Queued("chInfo") \/ CapsFollow)'
                      /\ (ChannelDue \/ ConfigDue \/ ConfigFollows)'
    BY DEF FreshOrDue
  <2>1. /\ worker.session # None
        /\ SystemDue \/ SystemFollows
        /\ ChannelDue \/ Queued("chInfo") \/ CapsFollow
        /\ ChannelDue \/ ConfigDue \/ ConfigFollows
    BY DEF Live, GuiInv, FreshOrDue, Handles, HandleFrame
  <2>2. /\ SystemFollows => SystemFollows'
        /\ CapsFollow => CapsFollow'
        /\ ConfigFollows => ConfigFollows'
    BY HandleFollows DEF Handles
  <2>3. "sysInfo" \in Ops /\ "chInfo" \in Ops
    BY DEF Ops
  <2>4. SystemDue => SystemDue'
    <3>1. CASE Queued("sysInfo")
      BY <1>4, <2>3, <3>1 DEF SystemDue
    <3>2. ASSUME NEW k \in 1 .. Len(signals), signals[k].sig = "connected", signals[k].ok
          PROVE  SystemDue'
      <4>1. CASE signals[k] = s
        BY <3>2, <4>1 DEF SystemDue, Handles
      <4>2. CASE signals[k] # s
        BY <1>2, <3>2, <4>2 DEF SystemDue
      <4> QED BY <4>1, <4>2
    <3> QED BY <3>1, <3>2 DEF SystemDue
  <2>5. ASSUME ChannelDue
        PROVE  ChannelDue' \/ (Queued("chInfo")' /\ ConfigDue')
    <3>1. CASE SystemDue
      BY <2>4, <3>1 DEF ChannelDue
    <3>2. ASSUME ~SystemDue, NEW k \in 1 .. Len(signals), signals[k].sig = "sysInfo"
          PROVE  ChannelDue' \/ (Queued("chInfo")' /\ ConfigDue')
      <4>1. CASE signals[k] = s
        <5>1. gui.connected
          BY <2>1, <3>2, ConnectedShown
        <5> QED BY <3>2, <4>1, <5>1 DEF Handles
      <4>2. CASE signals[k] # s
        BY <1>2, <3>2, <4>2 DEF ChannelDue
      <4> QED BY <4>1, <4>2
    <3> QED BY <2>5, <3>1, <3>2 DEF ChannelDue
  <2> QED BY <1>4, <1>5, <2>1, <2>2, <2>3, <2>4, <2>5
<1> QED BY <1>3, <1>6, <1>7, <1>8 DEF GuiInv

LEMMA HandleStep ==
    ASSUME GuiInv, HandleSignal
    PROVE  GuiInv'
<1> DEFINE s == Head(signals)
<1>1. /\ Types /\ gui \in GuiType /\ s \in SignalType /\ HandleFrame
  BY TypesAre, TailWaits DEF GuiInv, HandleSignal, HandleFrame
<1>2. /\ jobs \in Seq(JobType)
      /\ \A k \in 1 .. Len(jobs) : jobs[k].op = "connect" => jobs[k].board \in Boards
      /\ Len(jobs) \in Nat
  BY <1>1, LenProperties DEF Types
<1>3. \A op \in Ops : Do(op) \in JobType /\ Do(op).op = op
  BY DEF Do, Job, JobType, BoardOrNone, Values
<1>4. jobs' = jobs => JobsGrow
  BY <1>2 DEF JobsGrow
<1>5. CASE s.sig = "connected"
  <2>1. /\ gui' = [gui EXCEPT !.connected = s.ok, !.timer = @ \/ s.ok]
        /\ jobs' = IF s.ok THEN jobs \o <<Do("sysInfo"), Do("sysConfig")>> ELSE jobs
    BY <1>5 DEF HandleSignal, onConnected
  <2>2. s.ok \in BOOLEAN
    BY <1>1 DEF SignalType
  <2>3. /\ gui' \in GuiType /\ gui'.connected = s.ok /\ gui'.timer = (gui.timer \/ s.ok)
        /\ gui'.sysInfo = gui.sysInfo /\ gui'.caps = gui.caps /\ gui'.chConfig = gui.chConfig
        /\ (s.sig = "connected" /\ s.ok) = s.ok
    BY <1>1, <1>5, <2>1, <2>2 DEF GuiType
  <2>4. /\ jobs' \in Seq(JobType) /\ JobsGrow
        /\ \A k \in 1 .. Len(jobs') : jobs'[k].op = "connect" => jobs'[k].board \in Boards
        /\ s.ok => Queued("sysInfo")'
    <3>1. CASE s.ok
      <4>1. /\ Do("sysInfo") \in JobType /\ Do("sysConfig") \in JobType
            /\ Do("sysInfo").op = "sysInfo" /\ Do("sysConfig").op = "sysConfig"
        BY <1>3 DEF Ops
      <4>2. jobs' = jobs \o <<Do("sysInfo"), Do("sysConfig")>>
        BY <2>1, <3>1
      <4>3. /\ jobs' \in Seq(JobType) /\ JobsGrow
            /\ \A k \in 1 .. Len(jobs') : jobs'[k].op = "connect" => jobs'[k].board \in Boards
            /\ \E k \in 1 .. Len(jobs') : jobs'[k] = Do("sysInfo")
        BY <1>1, <4>1, <4>2, TwoJobs
      <4> QED BY <4>1, <4>3 DEF Queued
    <3>2. CASE ~s.ok
      BY <1>2, <1>4, <2>1, <3>2
    <3> QED BY <3>1, <3>2
  <2>5. Handles(s)
    BY <1>1, <1>5, <2>3, <2>4 DEF Handles, Kind
  <2> QED BY <2>5, HandleKeeps
<1>6. CASE s.sig = "disconnected"
  <2>1. gui' = [gui EXCEPT !.connected = FALSE] /\ jobs' = jobs
    BY <1>6 DEF HandleSignal, onDisconnected
  <2>2. Handles(s)
    BY <1>1, <1>2, <1>4, <1>6, <2>1 DEF Handles, Kind, GuiType
  <2> QED BY <2>2, HandleKeeps
<1>7. CASE s.sig = "sysInfo"
  <2>1. /\ gui' = [gui EXCEPT !.sysInfo = s.board]
        /\ jobs' = IF gui.connected THEN jobs \o <<Do("chInfo"), Do("chConfig")>> ELSE jobs
    BY <1>7 DEF HandleSignal, onSysInfoReady
  <2>2. s.board \in BoardOrNone
    BY <1>1 DEF SignalType
  <2>3. /\ gui' \in GuiType /\ gui'.connected = gui.connected /\ gui'.timer = gui.timer
        /\ gui'.sysInfo = s.board /\ gui'.caps = gui.caps /\ gui'.chConfig = gui.chConfig
        /\ gui.timer \in BOOLEAN
    BY <1>1, <2>1, <2>2 DEF GuiType
  <2>4. /\ jobs' \in Seq(JobType) /\ JobsGrow
        /\ \A k \in 1 .. Len(jobs') : jobs'[k].op = "connect" => jobs'[k].board \in Boards
        /\ gui.connected => Queued("chInfo")' /\ ConfigDue'
    <3>1. CASE gui.connected
      <4>1. /\ Do("chInfo") \in JobType /\ Do("chConfig") \in JobType
            /\ Do("chInfo").op = "chInfo" /\ Do("chConfig").op = "chConfig"
        BY <1>3 DEF Ops
      <4>2. jobs' = jobs \o <<Do("chInfo"), Do("chConfig")>>
        BY <2>1, <3>1
      <4>3. /\ jobs' \in Seq(JobType) /\ JobsGrow
            /\ \A k \in 1 .. Len(jobs') : jobs'[k].op = "connect" => jobs'[k].board \in Boards
            /\ \E j, k \in 1 .. Len(jobs') :
                  j < k /\ jobs'[j] = Do("chInfo") /\ jobs'[k] = Do("chConfig")
        BY <1>1, <4>1, <4>2, TwoJobs
      <4> QED BY <4>1, <4>3 DEF Queued, ConfigDue
    <3>2. CASE ~gui.connected
      BY <1>2, <1>4, <2>1, <3>2
    <3> QED BY <3>1, <3>2
  <2>5. Handles(s)
    BY <1>1, <1>7, <2>3, <2>4 DEF Handles, Kind
  <2> QED BY <2>5, HandleKeeps
<1>8. CASE s.sig = "chInfo"
  <2>1. gui' = [gui EXCEPT !.caps = s.board, !.offline = s.offline] /\ jobs' = jobs
    BY <1>8 DEF HandleSignal, onChInfoReady
  <2>2. s.board \in BoardOrNone /\ s.offline \in BOOLEAN
    BY <1>1 DEF SignalType
  <2>3. Handles(s)
    BY <1>1, <1>2, <1>4, <1>8, <2>1, <2>2 DEF Handles, Kind, GuiType
  <2> QED BY <2>3, HandleKeeps
<1>9. CASE s.sig = "chConfig"
  <2>1. gui' = [gui EXCEPT !.chConfig = [board |-> s.board, value |-> s.value]] /\ jobs' = jobs
    BY <1>9 DEF HandleSignal, onChConfigReady
  <2>2. [board |-> s.board, value |-> s.value] \in ConfigShown
    BY <1>1 DEF SignalType, ConfigShown
  <2>3. Handles(s)
    BY <1>1, <1>2, <1>4, <1>9, <2>1, <2>2 DEF Handles, Kind, GuiType
  <2> QED BY <2>3, HandleKeeps
<1>10. s.sig \in {"connected", "disconnected", "sysInfo", "chInfo", "chConfig"}
  BY <1>1 DEF SignalType
<1> QED BY <1>5, <1>6, <1>7, <1>8, <1>9, <1>10

\* The clicks and the poll timer queue one job.
LEMMA OneJob ==
    ASSUME GuiInv, NEW job \in JobType, job.op = "connect" => job.board \in Boards,
           jobs' = Append(jobs, job), UNCHANGED <<config, worker, signals, missed>>,
           gui' \in GuiType, gui'.connected = gui.connected,
           gui'.sysInfo = gui.sysInfo, gui'.caps = gui.caps, gui'.chConfig = gui.chConfig,
           gui'.timer = gui.timer \/ job.op = "disconnect"
    PROVE  GuiInv'
<1>1. /\ jobs' \in Seq(JobType) /\ Len(jobs') = Len(jobs) + 1 /\ Len(jobs) \in Nat
      /\ \A k \in 1 .. Len(jobs) : jobs'[k] = jobs[k]
      /\ jobs'[Len(jobs) + 1] = job
  BY Appended, LenProperties DEF GuiInv, Types
<1>2. JobsGrow
  BY <1>1 DEF JobsGrow
<1>3. \A k \in 1 .. Len(jobs') : (k \in 1 .. Len(jobs) /\ jobs'[k] = jobs[k]) \/ jobs'[k] = job
  BY <1>1
<1>4. Types'
  BY <1>1, <1>3 DEF GuiInv, Types, TypeOK, GuiType
<1>5. /\ \A op \in Ops : Queued(op) => Queued(op)'
      /\ ConfigDue => ConfigDue'
  BY <1>2, <1>4, GrowKeepsDue DEF GuiInv
<1>6. LinkFollows'
  BY DEF GuiInv, LinkFollows
<1>7. TimerRuns'
  <2>1. job.op = "disconnect" => Queued("disconnect")'
    <3>1. Len(jobs) + 1 \in 1 .. Len(jobs')
      BY <1>1
    <3> QED BY <1>1, <3>1 DEF Queued
  <2>2. "disconnect" \in Ops
    BY DEF Ops
  <2> QED BY <1>5, <2>1, <2>2 DEF GuiInv, TimerRuns
<1>8. FreshOrDue'
  <2>1. "sysInfo" \in Ops /\ "chInfo" \in Ops
    BY DEF Ops
  <2>2. (SystemDue => SystemDue') /\ (ChannelDue => ChannelDue')
    BY <1>5, <2>1 DEF SystemDue, ChannelDue
  <2>3. /\ SystemFollows => SystemFollows'
        /\ CapsFollow => CapsFollow'
        /\ ConfigFollows => ConfigFollows'
    BY DEF SystemFollows, CapsFollow, ConfigFollows
  <2>4. Live' => Live
    BY DEF Live
  <2> QED BY <1>5, <2>1, <2>2, <2>3, <2>4 DEF GuiInv, FreshOrDue
<1> QED BY <1>4, <1>6, <1>7, <1>8 DEF GuiInv

LEMMA ClickStep ==
    ASSUME GuiInv, connectToDevice \/ disconnectFromDevice \/ sendWrite \/ pollTick
    PROVE  GuiInv'
<1>1. gui \in GuiType
  BY TypesAre DEF GuiInv
<1>2. \A op \in Ops, b \in BoardOrNone, v \in Values :
         /\ Job(op, b, v) \in JobType /\ Job(op, b, v).op = op /\ Job(op, b, v).board = b
         /\ Do(op) \in JobType /\ Do(op).op = op
  BY DEF Do, Job, JobType, BoardOrNone, Values
<1>3. None \in BoardOrNone /\ Boards \subseteq BoardOrNone /\ 0 \in Values
      /\ WrittenValues \subseteq Values
  BY BoundsAssumption DEF BoardOrNone, Values
<1>4. CASE connectToDevice
  <2>1. PICK b \in Boards : Click(Job("connect", b, 0)) /\ UNCHANGED gui
    BY <1>4 DEF connectToDevice
  <2>2. "connect" \in Ops
    BY DEF Ops
  <2>3. Job("connect", b, 0) \in JobType /\ Job("connect", b, 0).board \in Boards
        /\ Job("connect", b, 0).op = "connect"
    BY <1>2, <1>3, <2>2
  <2>4. /\ jobs' = Append(jobs, Job("connect", b, 0)) /\ UNCHANGED <<config, worker, signals, missed>>
        /\ gui' = gui
    BY <2>1 DEF Click
  <2>5. gui'.timer = gui.timer \/ Job("connect", b, 0).op = "disconnect"
    BY <2>4
  <2> QED BY <1>1, <2>3, <2>4, <2>5, OneJob
<1>5. CASE disconnectFromDevice
  <2>1. Do("disconnect") \in JobType /\ Do("disconnect").op = "disconnect"
    BY <1>2, <1>3 DEF Ops
  <2>2. /\ jobs' = Append(jobs, Do("disconnect")) /\ UNCHANGED <<config, worker, signals, missed>>
        /\ gui' = [gui EXCEPT !.timer = FALSE]
    BY <1>5 DEF disconnectFromDevice, Click
  <2>3. /\ gui' \in GuiType /\ gui'.connected = gui.connected /\ gui'.sysInfo = gui.sysInfo
        /\ gui'.caps = gui.caps /\ gui'.chConfig = gui.chConfig
    BY <1>1, <2>2 DEF GuiType
  <2> QED BY <2>1, <2>2, <2>3, OneJob
<1>6. CASE sendWrite
  <2>1. PICK job \in JobType :
           job.op \in {"command", "write"} /\ Click(job) /\ UNCHANGED gui
    <3>1. CASE Click(Do("command")) /\ UNCHANGED gui
      <4>1. Do("command") \in JobType /\ Do("command").op = "command"
        BY <1>2, <1>3 DEF Ops
      <4> QED BY <3>1, <4>1
    <3>2. ASSUME NEW v \in WrittenValues, Click(Job("write", None, v)), UNCHANGED gui
          PROVE  \E job \in JobType : job.op \in {"command", "write"} /\ Click(job) /\ UNCHANGED gui
      <4>1. Job("write", None, v) \in JobType /\ Job("write", None, v).op = "write"
        BY <1>2, <1>3 DEF Ops
      <4> QED BY <3>2, <4>1
    <3> QED BY <1>6, <3>1, <3>2 DEF sendWrite
  <2>2. /\ jobs' = Append(jobs, job) /\ UNCHANGED <<config, worker, signals, missed>> /\ gui' = gui
    BY <2>1 DEF Click
  <2> QED BY <1>1, <2>1, <2>2, OneJob
<1>7. CASE pollTick
  <2>1. Do("poll") \in JobType /\ Do("poll").op = "poll"
    BY <1>2, <1>3 DEF Ops
  <2>2. /\ jobs' = Append(jobs, Do("poll")) /\ UNCHANGED <<config, worker, signals, missed>>
        /\ gui' = gui
    BY <1>7 DEF pollTick
  <2> QED BY <1>1, <2>1, <2>2, OneJob
<1> QED BY <1>4, <1>5, <1>6, <1>7

\* Another client writes: from then on the window may be stale.
LEMMA OtherClientStep ==
    ASSUME GuiInv, OtherClientWrites
    PROVE  GuiInv'
<1>1. /\ config \in [Boards -> Values] /\ (worker.session # None => worker.session \in Boards)
  BY TypesAre, SessionTypes DEF GuiInv
<1>2. config' \in [Boards -> Values] /\ missed' = TRUE
      /\ UNCHANGED <<worker, jobs, signals, gui>>
  BY <1>1 DEF OtherClientWrites, Values
<1>3. Types'
  BY <1>2 DEF GuiInv, Types, TypeOK
<1>4. LinkFollows' /\ TimerRuns'
  BY <1>2 DEF GuiInv, LinkFollows, TimerRuns, Queued
<1>5. FreshOrDue'
  BY <1>2 DEF FreshOrDue, Live
<1> QED BY <1>3, <1>4, <1>5 DEF GuiInv

LEMMA RunStep ==
    ASSUME GuiInv, RunJob
    PROVE  GuiInv'
<1> DEFINE job == Head(jobs)
<1>1. RunFrame
  BY DEF RunJob, RunFrame
<1>2. job \in JobType /\ (job.op = "connect" => job.board \in Boards)
  BY <1>1, Removed DEF GuiInv, Types, RunFrame
<1>3. job.op \in Ops /\ job.value \in Values
  BY <1>2 DEF JobType
<1>4. CASE job.op = "connect"
  <2>1. doConnect(job.board)
    BY <1>4 DEF RunJob
  <2> QED BY <1>1, <1>2, <1>4, <2>1, ConnectJob
<1>5. CASE job.op = "disconnect"
  <2>1. doDisconnect
    BY <1>5 DEF RunJob
  <2> QED BY <1>1, <1>5, <2>1, DisconnectJob
<1>6. CASE job.op = "sysInfo"
  <2>1. doRefreshSystemInfo
    BY <1>6 DEF RunJob
  <2> QED BY <1>1, <1>6, <2>1, SysInfoJob
<1>7. CASE job.op = "chInfo"
  <2>1. doRefreshChannelInfo
    BY <1>7 DEF RunJob
  <2> QED BY <1>1, <1>7, <2>1, ChInfoJob
<1>8. CASE job.op = "sysConfig"
  <2>1. doReadSystemConfig
    BY <1>8 DEF RunJob
  <2> QED BY <1>1, <1>8, <2>1, SysConfigJob
<1>9. CASE job.op = "chConfig"
  <2>1. doReadChannelConfig
    BY <1>9 DEF RunJob
  <2> QED BY <1>1, <1>9, <2>1, ChConfigJob
<1>10. CASE job.op = "command"
  <2>1. doCommand
    BY <1>10 DEF RunJob
  <2> QED BY <1>1, <1>10, <2>1, CommandJob
<1>11. CASE job.op = "write"
  <2>1. doWrite(job.value)
    BY <1>11 DEF RunJob
  <2> QED BY <1>1, <1>3, <1>11, <2>1, WriteJob
<1>12. CASE job.op = "poll"
  <2>1. doPollStatus
    BY <1>12 DEF RunJob
  <2> QED BY <1>1, <1>12, <2>1, PollJob
<1> QED BY <1>3, <1>4, <1>5, <1>6, <1>7, <1>8, <1>9, <1>10, <1>11, <1>12 DEF Ops

(***************************************************************************)
(* The theorems                                                            *)
(***************************************************************************)
\* In every reachable state of the client the types hold, what waits in the queues will
\* bring the window what the worker has, and what it does not bring is still due: the
\* slots, the jobs and the poll timer of modbus_backend.cpp and modbus_worker.cpp, for any
\* boards, any threshold and any number of clicks.
THEOREM GuiInvariance == Spec => []GuiInv
<1>1. Init => GuiInv
  <2> SUFFICES ASSUME Init PROVE GuiInv
    OBVIOUS
  <2>1. config \in [Boards -> Values] /\ worker \in WorkerType /\ gui \in GuiType /\ missed \in BOOLEAN
    <3>1. 0 \in 0 .. OfflineThreshold
      BY BoundsAssumption
    <3> QED BY <3>1 DEF Init, WorkerType, GuiType, BoardOrNone, Values, ConfigShown, NoConfig
  <2>2. jobs \in Seq(JobType) /\ Len(jobs) = 0 /\ signals \in Seq(SignalType) /\ Len(signals) = 0
    BY DEF Init
  <2>3. Types
    BY <2>1, <2>2, TypesAre
  <2>4. LinkFollows
    <3>1. gui.connected = (worker.session # None)
      BY DEF Init
    <3> QED BY <2>2, <3>1 DEF LinkFollows, EndsUp
  <2>5. TimerRuns /\ FreshOrDue
    BY DEF Init, TimerRuns, FreshOrDue, Live
  <2> QED BY <2>3, <2>4, <2>5 DEF GuiInv
<1>2. GuiInv /\ [Next]_vars => GuiInv'
  <2> SUFFICES ASSUME GuiInv, [Next]_vars PROVE GuiInv'
    OBVIOUS
  <2>1. CASE connectToDevice \/ disconnectFromDevice \/ sendWrite \/ pollTick
    BY <2>1, ClickStep
  <2>2. CASE RunJob
    BY <2>2, RunStep
  <2>3. CASE HandleSignal
    BY <2>3, HandleStep
  <2>4. CASE OtherClientWrites
    BY <2>4, OtherClientStep
  <2>5. CASE UNCHANGED vars
    BY <2>5 DEF vars, GuiInv, Types, TypeOK, LinkFollows, TimerRuns, FreshOrDue, Live, SystemDue,
                ChannelDue, ConfigDue, Queued, SystemFollows, CapsFollow, ConfigFollows
  <2> QED BY <2>1, <2>2, <2>3, <2>4, <2>5 DEF Next
<1> QED BY <1>1, <1>2, PTL DEF Spec

\* With empty queues nothing is due and nothing more is brought.
LEMMA QuietEndsUp ==
    ASSUME Quiet, NEW kind, NEW shown, NEW what, EndsUp(signals, kind, shown, what)
    PROVE  shown = what
BY DEF Quiet, EndsUp

\* Once both queues are empty the window says connected exactly if the worker has a
\* session, and then the poll timer runs (onConnected, onDisconnected and
\* disconnectFromDevice of modbus_backend.cpp).
THEOREM LinkIsShown == Spec => []LinkShown
<1>1. GuiInv => LinkShown
  <2> SUFFICES ASSUME GuiInv, Quiet
               PROVE  /\ gui.connected <=> worker.session # None
                      /\ gui.connected => gui.timer
    BY DEF LinkShown
  <2>1. Link(gui.connected) = Link(worker.session # None)
    BY QuietEndsUp DEF GuiInv, LinkFollows
  <2>2. gui.connected \in BOOLEAN
    BY DEF GuiInv, Types, TypeOK
  <2>3. gui.connected = (worker.session # None)
    BY <2>1 DEF Link
  <2>4. ~Queued("disconnect") /\ ~\E k \in 1 .. Len(signals) : signals[k].sig = "disconnected"
    BY DEF Quiet, Queued
  <2> QED BY <2>2, <2>3, <2>4 DEF GuiInv, TimerRuns
<1> QED BY <1>1, GuiInvariance, PTL

\* The window shows another board, or a value the board no longer has, only if since the
\* connect an answer was lost or another client wrote: no order of connects, writes, polls
\* and discoveries leaves it behind (modbus_worker.cpp, modbus_backend.cpp).
THEOREM StaleOnlyIfLost == Spec => []StaleOnlyAfterLoss
<1>1. GuiInv => StaleOnlyAfterLoss
  <2> SUFFICES ASSUME GuiInv, Quiet, gui.connected, ~missed
               PROVE  gui.sysInfo = worker.session /\ ChannelShown
    BY DEF StaleOnlyAfterLoss
  <2>1. Link(gui.connected) = Link(worker.session # None)
    BY QuietEndsUp DEF GuiInv, LinkFollows
  <2>2. worker.session # None
    BY <2>1 DEF Link
  <2>3. worker.session \in Boards
    BY <2>2, SessionTypes DEF GuiInv
  <2>4. ~SystemDue /\ ~ChannelDue /\ ~Queued("chInfo") /\ ~ConfigDue
    BY DEF Quiet, SystemDue, ChannelDue, ConfigDue, Queued
  <2>5. SystemFollows /\ CapsFollow /\ ConfigFollows
    BY <2>2, <2>4 DEF GuiInv, FreshOrDue, Live
  <2>6. /\ Of(gui.sysInfo, 0) = Of(worker.session, 0)
        /\ Of(gui.caps, 0) = Of(worker.session, 0)
        /\ Of(gui.chConfig.board, gui.chConfig.value) = Of(worker.session, config[worker.session])
    BY <2>5, QuietEndsUp DEF SystemFollows, CapsFollow, ConfigFollows
  <2>7. /\ gui.sysInfo = worker.session /\ gui.caps = worker.session
        /\ gui.chConfig.board = worker.session /\ gui.chConfig.value = config[worker.session]
    BY <2>6 DEF Of
  <2>8. gui.chConfig = [board |-> worker.session, value |-> config[worker.session]]
    <3>1. gui.chConfig \in [board : BoardOrNone, value : Values]
      BY DEF GuiInv, Types, TypeOK, ConfigShown
    <3> QED BY <2>7, <3>1
  <2> QED BY <2>3, <2>7, <2>8 DEF ChannelShown
<1> QED BY <1>1, GuiInvariance, PTL

\* Type correctness of the worker, the window and the boards; the failures counted stay at
\* most OfflineThreshold.
THEOREM GuiTypeCorrect == Spec => []TypeOK
<1>1. GuiInv => TypeOK
  BY DEF GuiInv, Types
<1> QED BY <1>1, GuiInvariance, PTL
=============================================================================
