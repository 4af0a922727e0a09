----------------------------- MODULE GuiBackend -----------------------------
(***************************************************************************)
(* The graphical client: the backend on the GUI thread (modbus_backend.cpp)*)
(* and the worker that owns the serial line (modbus_worker.cpp), joined by *)
(* two queues of Qt events.  The backend queues jobs and shows what the    *)
(* signals bring; the worker runs one job at a time and keeps what it read *)
(* in caches that a failed read leaves alone and that outlive a            *)
(* connection.  Boards have one channel; what is shown of it is told apart *)
(* by the board it came from and the value of one configuration field.     *)
(***************************************************************************)
EXTENDS Naturals, Sequences, SequencesExt

CONSTANTS
    Boards,             \* the boards the user may connect to
    None,               \* no board, or nothing read yet
    WrittenValues,      \* bound on the values the user enters
    OfflineThreshold,   \* kChannelOfflineThreshold
    MaxClicks           \* bound on what the user and other clients do

Values == {0, 1}

ASSUME BoundsAssumption ==
    /\ WrittenValues \subseteq Values
    /\ OfflineThreshold \in Nat \ {0}
    /\ MaxClicks \in Nat
    /\ None \notin Boards

VARIABLES
    config,     \* the configuration field of the channel of a board
    worker,     \* ModbusWorker: the session and the caches
    jobs,       \* events queued for the worker
    signals,    \* events queued for the GUI thread
    gui,        \* ModbusBackend: what the window shows
    clicks,     \* what the user and other clients did so far
    lost,       \* ghost: how much of what the last job asked for was lost, if it asked
    missed      \* ghost: an answer was lost, or another client wrote, since the connect

vars == <<config, worker, jobs, signals, gui, clicks, lost, missed>>

NoConfig == [board |-> None, value |-> 0]

Init ==
    /\ config = [b \in Boards |-> 0]
    /\ worker = [session |-> None, channelCount |-> 0, sysInfo |-> None, caps |-> None,
                 chConfig |-> NoConfig, failCount |-> 0, offline |-> FALSE]
    /\ jobs = <<>>
    /\ signals = <<>>
    /\ gui = [connected |-> FALSE, timer |-> FALSE, sysInfo |-> None, caps |-> None,
              offline |-> FALSE, chConfig |-> NoConfig]
    /\ clicks = 0
    /\ lost = "unasked"
    /\ missed = FALSE

-----------------------------------------------------------------------------
(* The GUI thread: clicks and the poll timer queue jobs                    *)

Job(op, board, value) == [op |-> op, board |-> board, value |-> value]
Do(op) == Job(op, None, 0)

Click(job) ==
    /\ clicks < MaxClicks
    /\ clicks' = clicks + 1
    /\ jobs' = Append(jobs, job)
    /\ UNCHANGED <<config, worker, signals, lost, missed>>

connectToDevice == \E b \in Boards : Click(Job("connect", b, 0)) /\ UNCHANGED gui

disconnectFromDevice == Click(Do("disconnect")) /\ gui' = [gui EXCEPT !.timer = FALSE]

(* The writes, by what the worker reads back: the block written or all of the
   channel, or its status.  System writes, calibration coefficients, raw
   accesses and resets show nothing of the channel and are left out. *)
sendWrite ==
    /\ \/ Click(Do("command"))
       \/ \E v \in WrittenValues : Click(Job("write", None, v))
    /\ UNCHANGED gui

(* The event loop delivers the signals that wait before it looks at timers.
   Bound: a tick waits until the poll before it has started. *)
pollTick ==
    /\ gui.timer /\ gui.connected
    /\ signals = <<>>
    /\ Do("poll") \notin ToSet(jobs)
    /\ jobs' = Append(jobs, Do("poll"))
    /\ UNCHANGED <<config, worker, signals, gui, clicks, lost, missed>>

-----------------------------------------------------------------------------
(* The worker                                                              *)

(* Whether a transaction is answered: any may be lost. *)
Answers == IF worker.session = None THEN {FALSE} ELSE BOOLEAN

(* A block of the configuration is chosen by the capabilities known, and left
   out or refused if they are unknown or those of another board. *)
BlockRead(ok) == ok /\ worker.caps = worker.session

(* The signals; those for the status line and the system configuration, which
   is shown as defaults if it could not be read, are left out. *)
Emit(sig) == [sig |-> sig, ok |-> TRUE, board |-> None, value |-> 0, offline |-> FALSE]
SysInfo(w) == [Emit("sysInfo") EXCEPT !.board = w.sysInfo]
ChInfo(w) == [Emit("chInfo") EXCEPT !.board = w.caps, !.offline = w.offline]
ChConfig(w) == [Emit("chConfig") EXCEPT !.board = w.chConfig.board, !.value = w.chConfig.value]

(* The end of a job: its caches, its signals, and which of its transactions
   were answered. *)
Ends(w, sigs, answered) ==
    /\ worker' = w
    /\ signals' = signals \o sigs
    /\ lost' = CASE answered = {TRUE}  -> "no"
                 [] answered = {FALSE} -> "all"
                 [] OTHER              -> "some"
    /\ missed' = (missed \/ FALSE \in answered)

ConfigRead(w, ok, now) ==
    IF ok THEN [w EXCEPT !.chConfig = [board |-> w.session, value |-> now]] ELSE w

\* Mutant: a session that was there survives a connect that fails.
doConnect_keeps(b) ==
    \E ok \in BOOLEAN :
        /\ worker' = IF ok THEN [worker EXCEPT !.session = b] ELSE worker
        /\ signals' = Append(signals, [Emit("connected") EXCEPT !.ok = ok])
        /\ missed' = (missed /\ ~ok)
        /\ lost' = "unasked"
        /\ UNCHANGED config

(* PsbModbusClient::connect drops the session, opens the port and verifies
   the protocol. *)
doConnect(b) ==
    \E ok \in BOOLEAN :
        /\ worker' = [worker EXCEPT !.session = IF ok THEN b ELSE None]
        /\ signals' = Append(signals, [Emit("connected") EXCEPT !.ok = ok])
        /\ missed' = (missed /\ ~ok)
        /\ lost' = "unasked"
        /\ UNCHANGED config

doDisconnect ==
    /\ worker' = [worker EXCEPT !.session = None, !.channelCount = 0]
    /\ signals' = Append(signals, Emit("disconnected"))
    /\ lost' = "unasked"
    /\ UNCHANGED <<config, missed>>

(* The check is of the cache: after a failed read, of what a former board
   answered. *)
doRefreshSystemInfo ==
    \E ok \in Answers :
        LET w == IF ok THEN [worker EXCEPT !.sysInfo = worker.session] ELSE worker
        IN  /\ IF w.sysInfo = None
               THEN Ends([w EXCEPT !.channelCount = 0], <<>>, {ok})
               ELSE Ends([w EXCEPT !.channelCount = 1], <<SysInfo(w)>>, {ok})
            /\ UNCHANGED config

(* Asked for in any case, and up to twice more while the cache has none. *)
doRefreshChannelInfo ==
    \E ok \in Answers :
        LET w == IF ok THEN [worker EXCEPT !.caps = worker.session] ELSE worker
        IN  /\ Ends(w, IF w.session = None THEN <<>> ELSE <<ChInfo(w)>>, {ok})
            /\ UNCHANGED config

doReadSystemConfig == \E ok \in Answers : Ends(worker, <<>>, {ok}) /\ UNCHANGED config

(* readChannelConfig asks for the capabilities if none are known. *)
doReadChannelConfig ==
    \E ok \in Answers :
        LET read == ok /\ worker.caps \in {None, worker.session}
            w == ConfigRead(worker, read, IF ok THEN config[worker.session] ELSE 0)
        IN  /\ Ends(w, IF w.session = None THEN <<>> ELSE <<ChConfig(w)>>, {ok})
            /\ UNCHANGED config

(* refreshChannelStatus; the capabilities stay those of the cache. *)
doCommand ==
    \E ok \in Answers :
        /\ Ends(worker, IF ok THEN <<ChInfo(worker)>> ELSE <<>>, {ok})
        /\ UNCHANGED config

\* Mutant: the block is read back but not shown.
Refreshed_silent(w) == <<ChInfo(w)>>

Refreshed(w) == <<ChInfo(w), ChConfig(w)>>

(* A write whose answer is lost may have been carried out. *)
Written(ok, v) ==
    \/ ~ok /\ UNCHANGED config
    \/ worker.session # None /\ config' = [config EXCEPT ![worker.session] = v]

(* refreshChannelOutput and its like, refreshChannelFull after a parameter
   action: the status and the blocks written are read back. *)
doWrite(v) ==
    \E ok, back \in Answers :
        LET w == ConfigRead(worker, ok /\ BlockRead(back), v)
        IN  /\ Ends(w, IF ok THEN Refreshed(w) ELSE <<>>, {ok, back})
            /\ Written(ok, v)

(* Consecutive failures are counted up to the threshold. *)
Failure(w) ==
    [w EXCEPT !.failCount = IF @ < OfflineThreshold THEN @ + 1 ELSE @,
              !.offline = @ \/ w.failCount + 1 >= OfflineThreshold]
Success(w) == [w EXCEPT !.failCount = 0, !.offline = FALSE]

\* Mutant: a poll brings the realtime registers only.
Polled_realtime(w) == <<ChInfo(w)>>

Polled(w) == <<SysInfo(w), ChInfo(w)>>

\* Mutant: a poll that failed shows nothing.
PollResult_silent(w, ok) == IF ok THEN Polled(w) ELSE <<>>

PollResult(w, ok) == Polled(w)

(* The system status, then the channel: its capabilities if unknown, its
   status with the capabilities known.  What was read is shown, and so is
   what was not. *)
doPollStatus ==
    /\ \/ /\ worker.session = None \/ worker.channelCount = 0
          /\ lost' = "unasked"
          /\ UNCHANGED <<worker, signals, missed>>
       \/ /\ worker.session # None /\ worker.channelCount # 0
          /\ \E ok \in Answers : \E asked \in IF worker.caps = None THEN Answers ELSE {ok} :
               LET known == IF worker.caps = None /\ asked
                            THEN [worker EXCEPT !.caps = worker.session] ELSE worker
                   w == IF ok THEN Success(known) ELSE Failure(known)
               IN  Ends(w, PollResult(w, ok), {asked, ok})
    /\ UNCHANGED config

RunJob ==
    /\ jobs # <<>>
    /\ jobs' = Tail(jobs)
    /\ LET job == Head(jobs)
       IN  CASE job.op = "connect"     -> doConnect(job.board)
             [] job.op = "disconnect"  -> doDisconnect
             [] job.op = "sysInfo"     -> doRefreshSystemInfo
             [] job.op = "chInfo"      -> doRefreshChannelInfo
             [] job.op = "sysConfig"   -> doReadSystemConfig
             [] job.op = "chConfig"    -> doReadChannelConfig
             [] job.op = "command"     -> doCommand
             [] job.op = "write"       -> doWrite(job.value)
             [] job.op = "poll"        -> doPollStatus
    /\ UNCHANGED <<gui, clicks>>

-----------------------------------------------------------------------------
(* The GUI thread: what the signals bring                                  *)

onConnected(ok) ==
    /\ gui' = [gui EXCEPT !.connected = ok, !.timer = @ \/ ok]
    /\ jobs' = IF ok THEN jobs \o <<Do("sysInfo"), Do("sysConfig")>> ELSE jobs

onDisconnected == gui' = [gui EXCEPT !.connected = FALSE] /\ UNCHANGED jobs

(* Whatever read it, the poll too: the channels are read in full. *)
onSysInfoReady(board) ==
    /\ gui' = [gui EXCEPT !.sysInfo = board]
    /\ jobs' = IF gui.connected THEN jobs \o <<Do("chInfo"), Do("chConfig")>> ELSE jobs

onChInfoReady(s) ==
    /\ gui' = [gui EXCEPT !.caps = s.board, !.offline = s.offline]
    /\ UNCHANGED jobs
onChConfigReady(s) ==
    /\ gui' = [gui EXCEPT !.chConfig = [board |-> s.board, value |-> s.value]]
    /\ UNCHANGED jobs

HandleSignal ==
    /\ signals # <<>>
    /\ signals' = Tail(signals)
    /\ LET s == Head(signals)
       IN  CASE s.sig = "connected"    -> onConnected(s.ok)
             [] s.sig = "disconnected" -> onDisconnected
             [] s.sig = "sysInfo"      -> onSysInfoReady(s.board)
             [] s.sig = "chInfo"       -> onChInfoReady(s)
             [] s.sig = "chConfig"     -> onChConfigReady(s)
    /\ UNCHANGED <<config, worker, clicks, lost, missed>>

-----------------------------------------------------------------------------
(* The other clients of the boards                                         *)

(* Bound: they write to the board that the worker is connected to. *)
OtherClientWrites ==
    /\ clicks < MaxClicks
    /\ clicks' = clicks + 1
    /\ worker.session # None
    /\ config' = [config EXCEPT ![worker.session] = 1 - @]
    /\ missed' = TRUE
    /\ UNCHANGED <<worker, jobs, signals, gui, lost>>

Next ==
    \/ connectToDevice \/ disconnectFromDevice \/ sendWrite \/ pollTick
    \/ RunJob \/ HandleSignal
    \/ OtherClientWrites

Spec == Init /\ [][Next]_vars

(* Both event loops go on, and the timer fires while it runs. *)
FairSpec == Spec /\ WF_vars(RunJob) /\ WF_vars(HandleSignal) /\ WF_vars(pollTick)

-----------------------------------------------------------------------------
(* Properties                                                              *)

BoardOrNone == Boards \cup {None}
ConfigShown == [board : BoardOrNone, value : Values]

(* Type invariant. *)
TypeOK ==
    /\ config \in [Boards -> Values]
    /\ worker \in [session : BoardOrNone, channelCount : {0, 1}, sysInfo : BoardOrNone,
                   caps : BoardOrNone, chConfig : ConfigShown,
                   failCount : 0..OfflineThreshold, offline : BOOLEAN]
    /\ gui \in [connected : BOOLEAN, timer : BOOLEAN, sysInfo : BoardOrNone,
                caps : BoardOrNone, offline : BOOLEAN,
                chConfig : ConfigShown]
    /\ missed \in BOOLEAN

Quiet == jobs = <<>> /\ signals = <<>>

(* Once both queues are empty, the window says connected exactly if the
   worker has a session, and then the poll timer runs, in whatever order
   connects and disconnects were clicked and failed. *)
LinkShown ==
    Quiet => /\ gui.connected <=> worker.session # None
             /\ gui.connected => gui.timer

ChannelShown ==
    \E b \in Boards :
        /\ worker.session = b
        /\ gui.caps = b
        /\ gui.chConfig = [board |-> b, value |-> config[b]]

(* The window shows another board, or a value the board no longer has, only
   if since the connect an answer was lost or another client wrote: every
   write of the window's own is followed by what it changed. *)
StaleOnlyAfterLoss ==
    Quiet /\ gui.connected /\ ~missed =>
        gui.sysInfo = worker.session /\ ChannelShown

Discovered == gui.connected /\ worker.session # None /\ worker.channelCount = 1

(* Over a line that works, the window ends up showing the channel and the
   configuration that the board has, whoever wrote it. *)
ShownConverges == <>[](Discovered /\ lost \in {"no", "unasked"}) =>
    <>[](ChannelShown /\ ~gui.offline)

(* A board that stops answering is shown as offline. *)
OfflineShown == <>[](Discovered /\ lost \in {"all", "unasked"}) => <>[]gui.offline
=============================================================================
