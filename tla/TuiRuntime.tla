----------------------------- MODULE TuiRuntime -----------------------------
(***************************************************************************)
(* The threads of psb_demo_tui (tui/main.cpp, tui/board_dashboard.h,       *)
(* tui/board_session.h): one user-interface thread, one worker thread per  *)
(* serial bus, the board sessions both of them hold pointers to, and the   *)
(* work queue through which the first asks the second for Modbus traffic.  *)
(*                                                                         *)
(* The UI thread connects, disconnects, writes to, hot-attaches and        *)
(* removes boards, edits their port fields, and quits.  A bus is known by  *)
(* the port field of its first board.  A removed session is detached by its own    *)
(* worker and destroyed by the UI thread at a later frame; a bus whose     *)
(* last board went is torn down by joining its worker.  The answers of the *)
(* boards and of the serial port are nondeterministic.                     *)
(***************************************************************************)
EXTENDS Integers, Sequences, FiniteSets, SequencesExt

CONSTANTS
    Boards,         \* nicknames; each is attached at most once
    Initial,        \* the boards of the topology at launch
    Ports,
    PortOf,         \* [Boards -> Ports]: the port of its bus in the topology
    NoPort,         \* an empty port field
    Workers,        \* identities for BusWorker objects
    MaxClicks,      \* bound: operations of the user
    MaxQueue,       \* bound: items in one work queue
    None            \* no worker

ASSUME TuiAssumption ==
    /\ Initial \subseteq Boards
    /\ PortOf \in [Boards -> Ports]
    /\ MaxClicks \in Nat
    /\ MaxQueue \in Nat
    /\ None \notin Workers \cup Ports \cup Boards
    /\ NoPort \notin Ports

\* There is a worker's identity for every port: the launch never lacks one.
OnePerPort == {g \in [Ports -> Workers] : \A p, q \in Ports : p # q => g[p] # g[q]}

ASSUME WorkersAssumption == OnePerPort # {}

\* The bus of a port at launch, and the boards of the topology on a bus.
BusOf       == CHOOSE g \in OnePerPort : TRUE
Launched(w) == {b \in Initial : BusOf[PortOf[b]] = w}

VARIABLES
    session,        \* [Boards -> {"absent", "live", "freed"}]: the BoardSession object
    connected, connecting, abortConnect,    \* its three atomic flags
    portVal,        \* [Boards -> Ports \cup {NoPort}]: the port field of a session
    workerOf,       \* [Boards -> Workers \cup {None}]
    worker,         \* [Workers -> {"none", "run", "ended"}]
    attached,       \* [Workers -> SUBSET Boards]: BusWorker::boards
    front,          \* [Workers -> Boards \cup {None}]: its first element
    busPort,        \* [Workers -> Ports \cup {None}]: the port last opened
    busOpen,        \* [Workers -> BOOLEAN]
    workQueue,      \* [Workers -> Seq(item)]
    stopRequested,  \* [Workers -> BOOLEAN]
    pc, item, ok, snapshot,     \* where a worker thread is, and its locals
    pending,        \* Runtime::pendingRemovals
    ui,             \* where the UI thread is
    running, clicks,
    strayed,        \* ghost: workers of which a session was given another port
    freedUse        \* ghost: who has used a session after it was destroyed

flags  == <<connected, connecting, abortConnect>>
fields == <<portVal, strayed>>
bus    == <<workerOf, worker, attached, front, busPort, busOpen, stopRequested>>
thread == <<pc, item, ok, snapshot>>
vars   == <<session, flags, fields, bus, workQueue, thread, pending, ui, running, clicks, freedUse>>

Kinds == {"connect", "disconnect", "write", "reset", "remove", "attach", "sweep"}
Item  == [kind : Kinds, board : Boards]
NoItem == [kind |-> "none"]
Present == {w \in Workers : worker[w] # "none"}

(* Of the order of a list of boards only the first is kept; who follows when
   the first one goes is left open. *)
IsFront(boards, b) == IF boards = {} THEN b = None ELSE b \in boards

-----------------------------------------------------------------------------
(* The UI thread                                                           *)

(* The initial topology: one worker per port with a board on it. *)
Init ==
    /\ session = [b \in Boards |-> IF b \in Initial THEN "live" ELSE "absent"]
    /\ connected = [b \in Boards |-> FALSE]
    /\ connecting = [b \in Boards |-> FALSE]
    /\ abortConnect = [b \in Boards |-> FALSE]
    /\ workerOf = [b \in Boards |-> IF b \in Initial THEN BusOf[PortOf[b]] ELSE None]
    /\ worker = [w \in Workers |-> IF Launched(w) # {} THEN "run" ELSE "none"]
    /\ portVal = [b \in Boards |-> PortOf[b]]
    /\ strayed = {}
    /\ attached = [w \in Workers |-> Launched(w)]
    /\ front = [w \in Workers |-> CHOOSE b \in Boards \cup {None} : IsFront(Launched(w), b)]
    /\ busPort = [w \in Workers |-> None]
    /\ busOpen = [w \in Workers |-> FALSE]
    /\ workQueue = [w \in Workers |-> <<>>]
    /\ stopRequested = [w \in Workers |-> FALSE]
    /\ pc = [w \in Workers |-> "start"]
    /\ item = [w \in Workers |-> NoItem]
    /\ ok = [w \in Workers |-> FALSE]
    /\ snapshot = [w \in Workers |-> {}]
    /\ pending = <<>>
    /\ ui = [at |-> "loop"]
    /\ running = TRUE
    /\ clicks = 0
    /\ freedUse = {}

Click ==
    /\ ui.at = "loop"
    /\ clicks < MaxClicks
    /\ clicks' = clicks + 1

Enqueue(w, kind, b) ==
    /\ Len(workQueue[w]) < MaxQueue
    /\ workQueue' = [workQueue EXCEPT ![w] = Append(@, [kind |-> kind, board |-> b])]

(* The connection dialog: its list and its scan rewrite the port field of the
   session, also when the dialog is then cancelled. *)
SelectPort(b, p) ==
    /\ Click
    /\ session[b] = "live"
    /\ portVal[b] # p
    /\ portVal' = [portVal EXCEPT ![b] = p]
    /\ strayed' = strayed \cup {workerOf[b]}
    /\ UNCHANGED <<session, flags, bus, workQueue, thread, pending, ui, running, freedUse>>

doConnect(b) ==
    /\ Click
    /\ session[b] = "live"
    /\ portVal[b] # NoPort
    /\ ~connecting[b] /\ ~connected[b]
    /\ abortConnect' = [abortConnect EXCEPT ![b] = FALSE]
    /\ connecting' = [connecting EXCEPT ![b] = TRUE]
    /\ Enqueue(workerOf[b], "connect", b)
    /\ UNCHANGED <<session, connected, fields, bus, thread, pending, ui, running, freedUse>>

(* While a connection attempt is under way only the abort flag is set. *)
doDisconnect(b) ==
    /\ Click
    /\ session[b] = "live"
    /\ abortConnect' = [abortConnect EXCEPT ![b] = TRUE]
    /\ \/ /\ connecting[b]
          /\ UNCHANGED <<connected, workQueue>>
       \/ /\ ~connecting[b]
          /\ connected' = [connected EXCEPT ![b] = FALSE]
          /\ Enqueue(workerOf[b], "disconnect", b)
    /\ UNCHANGED <<session, connecting, fields, bus, thread, pending, ui, running,
                   freedUse>>

(* The board leaves the list of its worker. *)
Detach(w, b) ==
    /\ attached' = [attached EXCEPT ![w] = @ \ {b}]
    /\ \E next \in Boards \cup {None} :
         /\ IF front[w] = b THEN IsFront(attached[w] \ {b}, next) ELSE next = front[w]
         /\ front' = [front EXCEPT ![w] = next]

postWrite(b, kind) ==
    /\ Click
    /\ session[b] = "live"
    /\ Enqueue(workerOf[b], kind, b)
    /\ UNCHANGED <<session, flags, fields, bus, thread, pending, ui, running, freedUse>>

\* Mutant: once the launch sweep runs, the UI thread detaches the board itself and
\* reports it done.
removeBoardLive_now(b) ==
    /\ Click
    /\ session[b] = "live"
    /\ pc[workerOf[b]] # "start"
    /\ Cardinality({c \in Boards : session[c] = "live"}) > 1
    /\ b \in attached[workerOf[b]]
    /\ Detach(workerOf[b], b)
    /\ pending' = Append(pending, [board |-> b, worker |-> workerOf[b], done |-> TRUE])
    /\ UNCHANGED <<session, flags, fields, workerOf, worker, busPort, busOpen,
                   stopRequested, workQueue, thread, ui, running, freedUse>>

(* The Remove button, shown while more than one board is live.  A board its
   worker has already detached is not found, and nothing happens. *)
removeBoardLive(b) ==
    /\ Click
    /\ session[b] = "live"
    /\ Cardinality({c \in Boards : session[c] = "live"}) > 1
    /\ b \in attached[workerOf[b]]
    /\ Enqueue(workerOf[b], "remove", b)
    /\ pending' = Append(pending, [board |-> b, worker |-> workerOf[b], done |-> FALSE])
    /\ UNCHANGED <<session, flags, fields, bus, thread, ui, running, freedUse>>

\* Mutant: a worker whose port is closed is not reused.
ExistingBw_open(p) ==
    {w \in Present : attached[w] # {} /\ portVal[front[w]] = p /\ busOpen[w]}

(* The workers whose first board has that port in its field; of several the
   code takes the first, here any may be. *)
ExistingBw(p) == {w \in Present : attached[w] # {} /\ portVal[front[w]] = p}

(* PsbSerialBus::connect; there is no port without a name. *)
OpenBus(w, p) ==
    \E opened \in IF p = NoPort THEN {FALSE} ELSE BOOLEAN :
      /\ busOpen' = [busOpen EXCEPT ![w] = opened]
      /\ busPort' = [busPort EXCEPT ![w] = IF opened THEN p ELSE @]

AttachTo(w, b) ==
    /\ attached' = [attached EXCEPT ![w] = @ \cup {b}]
    /\ front' = [front EXCEPT ![w] = IF attached[w] = {} THEN b ELSE @]
    /\ workerOf' = [workerOf EXCEPT ![b] = w]
    /\ session' = [session EXCEPT ![b] = "live"]
    /\ Enqueue(w, "attach", b)

(* A board of the edited topology that does not run yet is put on the worker
   found for its port, or on a new one whose port the UI thread opens. *)
applyNewBoardsLive(b) ==
    /\ Click
    /\ session[b] = "absent"
    /\ \/ \E w \in ExistingBw(PortOf[b]) :
            /\ AttachTo(w, b)
            /\ UNCHANGED <<worker, busPort, busOpen, pc>>
       \/ \E w \in Workers \ Present :
            /\ ExistingBw(PortOf[b]) = {}
            /\ worker' = [worker EXCEPT ![w] = "run"]
            /\ OpenBus(w, PortOf[b])
            /\ pc' = [pc EXCEPT ![w] = "top"]
            /\ AttachTo(w, b)
    /\ UNCHANGED <<flags, fields, stopRequested, item, ok, snapshot, pending, ui,
                   running, freedUse>>

(* A frame goes through the pending removals in order. *)
drainPendingRemovals ==
    /\ ui.at = "loop"
    /\ \E i \in DOMAIN pending : pending[i].done
    /\ ui' = [at |-> "drain", i |-> 1]
    /\ UNCHANGED <<session, flags, fields, bus, workQueue, thread, pending, running,
                   clicks, freedUse>>

DrainSkip ==
    /\ ui.at = "drain"
    /\ \/ /\ ui.i <= Len(pending) /\ ~pending[ui.i].done
          /\ ui' = [ui EXCEPT !.i = @ + 1]
       \/ /\ ui.i > Len(pending)
          /\ ui' = [at |-> "loop"]
    /\ UNCHANGED <<session, flags, fields, bus, workQueue, thread, pending, running,
                   clicks, freedUse>>

\* Mutant: other removals of the bus are not looked for.
busHasOtherPendingRemoval_never(i) == FALSE

busHasOtherPendingRemoval(i) ==
    \E j \in DOMAIN pending : j # i /\ pending[j].worker = pending[i].worker

(* Detach from the switcher by nickname, destroy the session, and when the bus
   has no board and no other removal left, stop its worker and wait for it. *)
DrainEntry ==
    /\ ui.at = "drain"
    /\ ui.i <= Len(pending)
    /\ pending[ui.i].done
    /\ LET p == pending[ui.i] IN
       /\ freedUse' = IF session[p.board] = "freed" THEN freedUse \cup {"drain"} ELSE freedUse
       /\ session' = [session EXCEPT ![p.board] = "freed"]
       /\ \/ /\ attached[p.worker] = {} /\ ~busHasOtherPendingRemoval(ui.i)
             /\ stopRequested' = [stopRequested EXCEPT ![p.worker] = TRUE]
             /\ ui' = [at |-> "join", i |-> ui.i, worker |-> p.worker]
             /\ UNCHANGED pending
          \/ /\ attached[p.worker] # {} \/ busHasOtherPendingRemoval(ui.i)
             /\ pending' = RemoveAt(pending, ui.i)
             /\ UNCHANGED <<stopRequested, ui>>
    /\ UNCHANGED <<flags, fields, workerOf, worker, busPort, attached, front, busOpen,
                   workQueue, thread, running, clicks>>

(* The join returned: close the port and forget the worker. *)
DrainJoined ==
    /\ ui.at = "join"
    /\ worker[ui.worker] = "ended"
    /\ worker' = [worker EXCEPT ![ui.worker] = "none"]
    /\ strayed' = strayed \ {ui.worker}
    /\ busPort' = [busPort EXCEPT ![ui.worker] = None]
    /\ busOpen' = [busOpen EXCEPT ![ui.worker] = FALSE]
    /\ stopRequested' = [stopRequested EXCEPT ![ui.worker] = FALSE]
    /\ workQueue' = [workQueue EXCEPT ![ui.worker] = <<>>]
    /\ pending' = RemoveAt(pending, ui.i)
    /\ ui' = [at |-> "drain", i |-> ui.i]
    /\ UNCHANGED <<session, flags, portVal, workerOf, attached, front, thread, running,
                   clicks, freedUse>>

Quit ==
    /\ ui.at = "loop"
    /\ running' = FALSE
    /\ ui' = [at |-> "joinAll"]
    /\ UNCHANGED <<session, flags, fields, bus, workQueue, thread, pending, clicks,
                   freedUse>>

joinRuntime ==
    /\ ui.at = "joinAll"
    /\ \A w \in Present : worker[w] = "ended"
    /\ busOpen' = [w \in Workers |-> FALSE]
    /\ ui' = [at |-> "exited"]
    /\ UNCHANGED <<session, flags, fields, workerOf, worker, busPort, attached, front,
                   stopRequested, workQueue, thread, pending, running, clicks, freedUse>>

-----------------------------------------------------------------------------
(* A worker thread                                                         *)

Goto(w, l) == pc' = [pc EXCEPT ![w] = l]

(* The item is done; take the next one. *)
Finish(w) ==
    /\ Goto(w, "drain")
    /\ item' = [item EXCEPT ![w] = NoItem]
    /\ ok' = [ok EXCEPT ![w] = FALSE]

Touch(who, b) ==
    freedUse' = IF session[b] = "freed" THEN freedUse \cup {who} ELSE freedUse

(* The launch sweep of buildRuntime: open the port of the first board once, then
   connect every board that was on the bus when the thread started. *)
SweepStart(w) ==
    /\ pc[w] = "start" /\ worker[w] = "run"
    /\ OpenBus(w, portVal[front[w]])
    /\ snapshot' = [snapshot EXCEPT ![w] = attached[w]]
    /\ Goto(w, "sweep")
    /\ UNCHANGED <<session, flags, fields, workerOf, worker, attached, front,
                   stopRequested, workQueue, item, ok, pending, ui, running, clicks,
                   freedUse>>

SweepNext(w) ==
    /\ pc[w] = "sweep"
    /\ \/ \E b \in snapshot[w] :
            /\ snapshot' = [snapshot EXCEPT ![w] = @ \ {b}]
            /\ connecting' = [connecting EXCEPT ![b] = TRUE]
            /\ item' = [item EXCEPT ![w] = [kind |-> "sweep", board |-> b]]
            /\ Touch("item", b)
            /\ Goto(w, "verify")
       \/ /\ snapshot[w] = {}
          /\ Goto(w, "top")
          /\ UNCHANGED <<snapshot, connecting, item, freedUse>>
    /\ UNCHANGED <<session, connected, abortConnect, fields, bus, workQueue, ok, pending,
                   ui, running, clicks>>

(* runBusWorkerLoop: end, or wait for work or for the poll interval. *)
LoopTop(w) ==
    /\ pc[w] = "top"
    /\ \/ /\ running /\ ~stopRequested[w]
          /\ Goto(w, "drain")
          /\ UNCHANGED worker
       \/ /\ ~running \/ stopRequested[w]
          /\ worker' = [worker EXCEPT ![w] = "ended"]
          /\ Goto(w, "start")
    /\ UNCHANGED <<session, flags, fields, workerOf, busPort, attached, front, busOpen,
                   stopRequested, workQueue, item, ok, snapshot, pending, ui, running,
                   clicks, freedUse>>

(* Take the next item; with none left, poll the boards attached now. *)
PopItem(w) ==
    /\ pc[w] = "drain"
    /\ \/ /\ workQueue[w] # <<>>
          /\ item' = [item EXCEPT ![w] = Head(workQueue[w])]
          /\ workQueue' = [workQueue EXCEPT ![w] = Tail(@)]
          /\ Goto(w, "run")
          /\ UNCHANGED snapshot
       \/ /\ workQueue[w] = <<>>
          /\ snapshot' = [snapshot EXCEPT ![w] = attached[w]]
          /\ Goto(w, "poll")
          /\ UNCHANGED <<item, workQueue>>
    /\ UNCHANGED <<session, flags, fields, bus, ok, pending, ui, running, clicks, freedUse>>

PollNext(w) ==
    /\ pc[w] = "poll"
    /\ \/ \E b \in snapshot[w] :
            /\ running
            /\ snapshot' = [snapshot EXCEPT ![w] = @ \ {b}]
            /\ Touch("poll", b)
            /\ UNCHANGED pc
       \/ /\ snapshot[w] = {} \/ ~running
          /\ snapshot' = [snapshot EXCEPT ![w] = {}]
          /\ Goto(w, "top")
          /\ UNCHANGED freedUse
    /\ UNCHANGED <<session, flags, fields, bus, workQueue, item, ok, pending, ui,
                   running, clicks>>

Current(w, kinds) == pc[w] = "run" /\ item[w].kind \in kinds

(* removeBoardLive's item: detach from the worker's own list, report done. *)
RunRemove(w) ==
    /\ Current(w, {"remove"})
    /\ Detach(w, item[w].board)
    /\ \E i \in DOMAIN pending :
         /\ pending[i].board = item[w].board /\ ~pending[i].done
         /\ \A j \in 1..(i - 1) : pending[j].board # item[w].board \/ pending[j].done
         /\ pending' = [pending EXCEPT ![i].done = TRUE]
    /\ Finish(w)
    /\ UNCHANGED <<session, flags, fields, workerOf, worker, busPort, busOpen,
                   stopRequested, workQueue, snapshot, ui, running, clicks, freedUse>>

\* Mutant: the port is closed whoever else uses it.
RunDisconnect_all(w) ==
    /\ Current(w, {"disconnect"})
    /\ Touch("item", item[w].board)
    /\ busOpen' = [busOpen EXCEPT ![w] = FALSE]
    /\ Finish(w)
    /\ UNCHANGED <<session, flags, fields, workerOf, worker, busPort, attached, front,
                   stopRequested, workQueue, snapshot, pending, ui, running, clicks>>

(* Close the port unless another attached board is connected. *)
RunDisconnect(w) ==
    /\ Current(w, {"disconnect"})
    /\ Touch("item", item[w].board)
    /\ busOpen' = [busOpen EXCEPT ![w] =
                     @ /\ \E b \in attached[w] \ {item[w].board} : connected[b]]
    /\ Finish(w)
    /\ UNCHANGED <<session, flags, fields, workerOf, worker, busPort, attached, front,
                   stopRequested, workQueue, snapshot, pending, ui, running, clicks>>

(* A register write; a software reset that is answered leaves the board
   disconnected, because it reboots. *)
RunWrite(w) ==
    /\ Current(w, {"write", "reset"})
    /\ Touch("item", item[w].board)
    /\ \E answered \in IF busOpen[w] THEN BOOLEAN ELSE {FALSE} :
         connected' = IF answered /\ item[w].kind = "reset"
                        THEN [connected EXCEPT ![item[w].board] = FALSE] ELSE connected
    /\ Finish(w)
    /\ UNCHANGED <<session, connecting, abortConnect, fields, bus, workQueue, snapshot,
                   pending, ui, running, clicks>>

(* Connect: open the port of this board if the bus is closed, then the protocol
   handshake.  A hot attach uses the bus as it finds it. *)
RunConnect(w) ==
    /\ Current(w, {"connect", "attach"})
    /\ Touch("item", item[w].board)
    /\ \/ /\ item[w].kind = "attach" \/ busOpen[w]
          /\ UNCHANGED <<busOpen, busPort>>
       \/ /\ item[w].kind = "connect" /\ ~busOpen[w]
          /\ OpenBus(w, portVal[item[w].board])
    /\ Goto(w, "verify")
    /\ UNCHANGED <<session, flags, fields, workerOf, worker, attached, front,
                   stopRequested, workQueue, item, ok, snapshot, pending, ui, running,
                   clicks>>

Verify(w) ==
    /\ pc[w] = "verify"
    /\ LET b == item[w].board IN
       \E answered \in IF busOpen[w] THEN BOOLEAN ELSE {FALSE} :
         LET good == answered /\ ~abortConnect[b] IN
         \/ /\ item[w].kind = "connect" /\ ~running
            /\ connecting' = [connecting EXCEPT ![b] = FALSE]
            /\ Finish(w)
         \/ /\ item[w].kind # "connect" \/ running
            /\ ok' = [ok EXCEPT ![w] = good]
            /\ Goto(w, IF good THEN "scan" ELSE "publish")
            /\ UNCHANGED <<connecting, item>>
    /\ UNCHANGED <<session, connected, abortConnect, fields, bus, workQueue, snapshot,
                   pending, ui, running, clicks, freedUse>>

(* doFullScan, and whether every channel was found: connected comes from it. *)
FullScan(w) ==
    /\ pc[w] = "scan"
    /\ \E allChannelsLoaded \in BOOLEAN :
         ok' = [ok EXCEPT ![w] = allChannelsLoaded /\ ~abortConnect[item[w].board]]
    /\ Goto(w, "publish")
    /\ UNCHANGED <<session, flags, fields, bus, workQueue, item, snapshot, pending, ui,
                   running, clicks, freedUse>>

Publish(w) ==
    /\ pc[w] = "publish"
    /\ Touch("item", item[w].board)
    /\ connected' = [connected EXCEPT ![item[w].board] = ok[w]]
    /\ Goto(w, "message")
    /\ UNCHANGED <<session, connecting, abortConnect, fields, bus, workQueue, item, ok,
                   snapshot, pending, ui, running, clicks>>

\* Mutant: only a connect that succeeded ends Connecting.
Message_success(w) ==
    /\ pc[w] = "message"
    /\ LET b == item[w].board IN
       connecting' = [connecting EXCEPT ![b] = @ /\ (item[w].kind = "attach" \/ ~ok[w])]
    /\ Goto(w, IF item[w].kind = "sweep" THEN "sweep" ELSE "drain")
    /\ item' = [item EXCEPT ![w] = NoItem]
    /\ ok' = [ok EXCEPT ![w] = FALSE]
    /\ UNCHANGED <<session, connected, abortConnect, fields, bus, workQueue, snapshot,
                   pending, ui, running, clicks, freedUse>>

Message(w) ==
    /\ pc[w] = "message"
    /\ LET b == item[w].board IN
       connecting' = [connecting EXCEPT ![b] = @ /\ item[w].kind = "attach"]
    /\ Goto(w, IF item[w].kind = "sweep" THEN "sweep" ELSE "drain")
    /\ item' = [item EXCEPT ![w] = NoItem]
    /\ ok' = [ok EXCEPT ![w] = FALSE]
    /\ UNCHANGED <<session, connected, abortConnect, fields, bus, workQueue, snapshot,
                   pending, ui, running, clicks, freedUse>>

-----------------------------------------------------------------------------
UserStep ==
    \/ \E b \in Boards, p \in Ports \cup {NoPort} : SelectPort(b, p)
    \/ \E b \in Boards : doConnect(b)
    \/ \E b \in Boards : doDisconnect(b)
    \/ \E b \in Boards, kind \in {"write", "reset"} : postWrite(b, kind)
    \/ \E b \in Boards : removeBoardLive(b)
    \/ \E b \in Boards : applyNewBoardsLive(b)
    \/ Quit

FrameStep == drainPendingRemovals \/ DrainSkip \/ DrainEntry \/ DrainJoined \/ joinRuntime

WorkerStep(w) ==
    \/ SweepStart(w)
    \/ SweepNext(w)
    \/ LoopTop(w)
    \/ PopItem(w)
    \/ PollNext(w)
    \/ RunRemove(w)
    \/ RunDisconnect(w)
    \/ RunWrite(w)
    \/ RunConnect(w)
    \/ Verify(w)
    \/ FullScan(w)
    \/ Publish(w)
    \/ Message(w)

Next == UserStep \/ FrameStep \/ \E w \in Workers : WorkerStep(w)

Spec == Init /\ [][Next]_vars

(* Every worker thread runs, every serial exchange ends (the port has a
   response time-out), and posted events make the screen draw frames. *)
FairSpec ==
    /\ Spec
    /\ WF_vars(FrameStep)
    /\ \A w \in Workers : WF_vars(WorkerStep(w))

-----------------------------------------------------------------------------
(* Properties                                                              *)

(* Type invariant; a worker has an item in hand exactly while it runs one. *)
TypeOK ==
    /\ session \in [Boards -> {"absent", "live", "freed"}]
    /\ {connected, connecting, abortConnect} \subseteq [Boards -> BOOLEAN]
    /\ workerOf \in [Boards -> Workers \cup {None}]
    /\ worker \in [Workers -> {"none", "run", "ended"}]
    /\ portVal \in [Boards -> Ports \cup {NoPort}]
    /\ strayed \subseteq Workers
    /\ attached \in [Workers -> SUBSET Boards]
    /\ front \in [Workers -> Boards \cup {None}]
    /\ busPort \in [Workers -> Ports \cup {None}]
    /\ {busOpen, stopRequested, ok} \subseteq [Workers -> BOOLEAN]
    /\ \A w \in Workers : /\ workQueue[w] \in Seq(Item)
                          /\ IF pc[w] \in {"start", "top", "drain", "poll", "sweep"}
                               THEN item[w] = NoItem
                               ELSE item[w] \in Item
                          /\ snapshot[w] \subseteq Boards
    /\ freedUse \subseteq {"poll", "item", "drain"}

(* The polling loop never uses a session that was destroyed: the list it
   polls is copied after the worker itself has run the removals in its queue,
   and the UI thread destroys a session only when its removal has run. *)
PollUsesLiveSessions == "poll" \notin freedUse

(* A removal in progress names a worker that still exists, although a
   topology edit removes several boards of one bus at once and the first of
   them to be drained finds the bus empty. *)
PendingNamesWorker ==
    \A i \in DOMAIN pending : pending[i].worker \in Present

(* Two workers have the same serial port open (applyNewBoardsLive, doConnect,
   the launch sweep) only while one of them, emptied, waits for the frame that
   tears it down, or after a board of one of them was given another port in the
   connection dialog: not because a bus was found closed, or was left by its
   first board, or lost and got back its boards. *)
OneDriverPerPort ==
    \A v, w \in Present :
        v # w /\ busOpen[v] /\ busOpen[w] /\ busPort[v] = busPort[w] =>
          \E u \in {v, w} :
            \/ u \in strayed
            \/ attached[u] = {} /\ \E i \in DOMAIN pending : pending[i].worker = u

(* A worker that polls finds the boards shown as connected on an open port,
   except one the user has asked to be disconnected: no sibling's
   disconnection, reset or removal closes the port under a connected board. *)
PolledPortIsOpen ==
    \A w \in Present : \A b \in attached[w] :
        pc[w] = "poll" /\ running /\ connected[b] => busOpen[w] \/ abortConnect[b]

(* What the user asks for ends.  A connection attempt: the board stops showing
   Connecting, or its session goes, or the program is quitting.  A removal: the
   worker detaches the board, and the frame that destroys it, and joins the
   worker of an emptied bus, gets through.  The quit: every worker sees it,
   whatever it is doing. *)
RequestsEnd ==
    /\ \A b \in Boards : connecting[b] ~> (~connecting[b] \/ session[b] = "freed" \/ ~running)
    /\ pending # <<>> ~> (pending = <<>> \/ ~running)
    /\ ~running ~> ui.at = "exited"

(* A worker thread in the middle of Modbus traffic. *)
Talking(w) ==
    /\ busOpen[w]
    /\ \/ pc[w] \in {"verify", "scan"}
       \/ pc[w] = "run" /\ item[w].kind \in {"write", "reset"}
       \/ pc[w] = "poll" /\ \E b \in snapshot[w] : session[b] = "live" /\ connected[b]

(* What board_session.h says of BusWorker: one physical bus has one worker
   thread, so that exactly one thread ever drives it. *)
OneThreadPerBus ==
    \A v, w \in Present :
        v # w /\ Talking(v) /\ Talking(w) => busPort[v] # busPort[w]

(* What main.cpp says of PendingRemoval: a session is never touched by more
   than one thread at a time, because it is destroyed only once its worker
   will not touch it again. *)
SessionUsedOnlyWhileLive == freedUse = {}
=============================================================================
