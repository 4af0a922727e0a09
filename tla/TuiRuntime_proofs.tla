-------------------------- MODULE TuiRuntime_proofs --------------------------
(***************************************************************************)
(* Proofs about the threads of psb_demo_tui: who owns a session, a worker  *)
(* and a port, and when a port is open.                                    *)
(***************************************************************************)
EXTENDS TuiRuntime, TLAPS

(***************************************************************************)
(* The inductive invariant, in four layers                                 *)
(***************************************************************************)
Idle == {"start", "top", "drain", "poll", "sweep"}
Busy == {"run", "verify", "scan", "publish", "message"}

PendingRemoval == [board : Boards, worker : Workers, done : BOOLEAN]

UiState == [at : {"loop", "joinAll", "exited"}]
             \cup [at : {"drain"}, i : Nat \ {0}]
             \cup [at : {"join"}, i : Nat \ {0}, worker : Workers]

\* Layer 1: TypeOK, with the variables it leaves out, and where a thread is that
\* has an item in hand, or that does not run.
ItemInHand  == \A w \in Workers : pc[w] \in Idle <=> item[w] = NoItem
ThreadEnded == \A w \in Workers : worker[w] # "run" => pc[w] = "start"

TuiTypes ==
    /\ session \in [Boards -> {"absent", "live", "freed"}]
    /\ connected \in [Boards -> BOOLEAN]
    /\ connecting \in [Boards -> BOOLEAN]
    /\ abortConnect \in [Boards -> BOOLEAN]
    /\ workerOf \in [Boards -> Workers \cup {None}]
    /\ worker \in [Workers -> {"none", "run", "ended"}]
    /\ attached \in [Workers -> SUBSET Boards]
    /\ busOpen \in [Workers -> BOOLEAN]
    /\ stopRequested \in [Workers -> BOOLEAN]
    /\ ok \in [Workers -> BOOLEAN]
    /\ workQueue \in [Workers -> Seq(Item)]
    /\ pc \in [Workers -> Idle \cup Busy]
    /\ item \in [Workers -> Item \cup {NoItem}]
    /\ ItemInHand
    /\ ThreadEnded
    /\ snapshot \in [Workers -> SUBSET Boards]
    /\ pending \in Seq(PendingRemoval)
    /\ ui \in UiState
    /\ running \in BOOLEAN
    /\ clicks \in Nat
    /\ freedUse \subseteq {"poll", "item", "drain"}

\* Layer 2: ownership.  A session that was created belongs to one worker for
\* good, and only that worker's thread has it in its list, its queue or its hand.
Belongs(b, w) == workerOf[b] = w /\ session[b] # "absent"

LiveHasWorker == \A b \in Boards : session[b] = "live" => workerOf[b] \in Workers

AttachedIsLive ==
    \A w \in Workers : \A b \in attached[w] :
        Belongs(b, w) /\ session[b] = "live" /\ worker[w] # "none"

ItemsBelong ==
    \A w \in Workers :
        /\ \A k \in 1 .. Len(workQueue[w]) : Belongs(workQueue[w][k].board, w)
        /\ pc[w] \in Busy => Belongs(item[w].board, w)
        /\ \A b \in snapshot[w] : Belongs(b, w)

\* What a worker polls is still attached: it detaches boards itself.
PolledIsAttached == \A w \in Workers : pc[w] = "poll" => snapshot[w] \subseteq attached[w]

\* A removal that was reported done has been detached.
PendingBelongs ==
    \A i \in 1 .. Len(pending) :
        /\ Belongs(pending[i].board, pending[i].worker)
        /\ pending[i].done => pending[i].board \notin attached[pending[i].worker]

\* While the UI thread joins a worker it is the last to know of it.
JoinedIsEmpty ==
    ui.at = "join" =>
        /\ ui.i \in 1 .. Len(pending)
        /\ pending[ui.i].worker = ui.worker
        /\ \A j \in 1 .. Len(pending) : j # ui.i => pending[j].worker # ui.worker
        /\ attached[ui.worker] = {}

Ownership ==
    /\ LiveHasWorker
    /\ AttachedIsLive
    /\ ItemsBelong
    /\ PolledIsAttached
    /\ PendingBelongs
    /\ PendingNamesWorker
    /\ JoinedIsEmpty
    /\ PollUsesLiveSessions

\* Layer 3: the port.
QuitIsSeen == ui.at \in {"joinAll", "exited"} => ~running

\* A board that was never attached is not connected, nor is one whose worker
\* has not begun its launch sweep.
NotYetConnected ==
    /\ \A b \in Boards : session[b] = "absent" => ~connected[b]
    /\ \A w \in Workers : pc[w] = "start" /\ worker[w] = "run" =>
          \A b \in attached[w] : ~connected[b]

\* A board that answered did so over an open port.
AnsweredIsOpen ==
    \A w \in Workers : pc[w] = "scan" \/ (pc[w] = "publish" /\ ok[w]) => busOpen[w]

Queued(w, kind, b) ==
    \E k \in 1 .. Len(workQueue[w]) : workQueue[w][k] = [kind |-> kind, board |-> b]

\* The worker still has to connect b.
ConnectAhead(w, b) ==
    \/ Queued(w, "connect", b)
    \/ item[w] = [kind |-> "connect", board |-> b] /\ pc[w] \in {"run", "verify", "scan", "publish"}

\* A disconnection that has not run yet is still wanted, or a connection asked
\* for later stands behind it in the queue.
DisconnectIsWanted ==
    \A w \in Workers, b \in Boards :
        /\ \A k \in 1 .. Len(workQueue[w]) :
              workQueue[w][k] = [kind |-> "disconnect", board |-> b] =>
                 \/ abortConnect[b]
                 \/ \E j \in k + 1 .. Len(workQueue[w]) :
                       workQueue[w][j] = [kind |-> "connect", board |-> b]
        /\ pc[w] = "run" /\ item[w] = [kind |-> "disconnect", board |-> b] =>
              abortConnect[b] \/ Queued(w, "connect", b)

\* A board shown as connected on a closed port is one the user does not want,
\* or one the worker is about to connect again.
ClosedIsExplained ==
    \A w \in Workers : \A b \in attached[w] :
        running /\ connected[b] /\ ~busOpen[w] => abortConnect[b] \/ ConnectAhead(w, b)

PortInv ==
    /\ QuitIsSeen
    /\ NotYetConnected
    /\ AnsweredIsOpen
    /\ DisconnectIsWanted
    /\ ClosedIsExplained
    /\ PolledPortIsOpen

\* Layer 4: which port a worker has.
FieldTypes ==
    /\ portVal \in [Boards -> Ports \cup {NoPort}]
    /\ strayed \subseteq Workers
    /\ front \in [Workers -> Boards \cup {None}]
    /\ busPort \in [Workers -> Ports \cup {None}]

BeingRemoved(b) == \E i \in 1 .. Len(pending) : pending[i].board = b
LosesBoard(w)   == \E i \in 1 .. Len(pending) : pending[i].worker = w

\* A live session is in the list of its worker or on its way out, a worker without
\* boards is about to be torn down, and a launched one still has boards to sweep.
LiveIsKept ==
    \A b \in Boards : session[b] = "live" => b \in attached[workerOf[b]] \/ BeingRemoved(b)
JoinedIsFreed    == ui.at = "join" => session[pending[ui.i].board] = "freed"
EmptiedIsPending == \A w \in Present : attached[w] = {} => LosesBoard(w)
FrontIsAttached  == \A w \in Workers : attached[w] # {} => front[w] \in attached[w]
StartHasBoards   == \A w \in Workers : worker[w] = "run" /\ pc[w] = "start" => attached[w] # {}

Kept ==
    /\ LiveIsKept
    /\ JoinedIsFreed
    /\ EmptiedIsPending
    /\ FrontIsAttached
    /\ StartHasBoards

\* The sessions whose port field a worker may still open.
Using(w, b) ==
    \/ session[b] = "live" /\ workerOf[b] = w
    \/ \E k \in 1 .. Len(workQueue[w]) : workQueue[w][k].board = b
    \/ pc[w] = "run" /\ item[w].board = b

FieldOfAbsent  == \A b \in Boards : session[b] = "absent" => portVal[b] = PortOf[b]
AbsentIsUnused == \A w \in Workers \ Present : ~busOpen[w] /\ \A b \in Boards : ~Using(w, b)

\* As long as no field was edited, a worker has one port, and no other has it.
FieldsAgree ==
    \A w \in Workers \ strayed : \A b, c \in Boards :
        Using(w, b) /\ Using(w, c) => portVal[b] = portVal[c]
OpenOnField ==
    \A w \in Workers \ strayed : \A b \in Boards :
        busOpen[w] /\ Using(w, b) => busPort[w] = portVal[b]
PortsDiffer ==
    \A v, w \in Workers \ strayed : v # w =>
        \A b \in attached[v], c \in attached[w] : portVal[b] # portVal[c]

Apart ==
    /\ FieldTypes
    /\ FieldOfAbsent
    /\ AbsentIsUnused
    /\ FieldsAgree
    /\ OpenOnField
    /\ PortsDiffer

(***************************************************************************)
(* Facts about the operators                                               *)
(***************************************************************************)
(* RemoveAt closes the gap: what stays is an element of before. *)
LEMMA RemoveAtElements ==
    ASSUME NEW S, NEW s \in Seq(S), NEW i \in 1 .. Len(s)
    PROVE  /\ RemoveAt(s, i) \in Seq(S)
           /\ Len(RemoveAt(s, i)) = Len(s) - 1
           /\ \A j \in 1 .. Len(s) - 1 :
                 RemoveAt(s, i)[j] = IF j < i THEN s[j] ELSE s[j + 1]
  <1> DEFINE a == SubSeq(s, 1, i - 1)
             b == SubSeq(s, i + 1, Len(s))
  <1>1. /\ a \in Seq(S) /\ Len(a) = i - 1
        /\ \A j \in 1 .. i - 1 : a[j] = s[j]
    OBVIOUS
  <1>2. /\ b \in Seq(S) /\ Len(b) = Len(s) - i
        /\ \A j \in 1 .. Len(s) - i : b[j] = s[i + j]
    OBVIOUS
  <1>3. RemoveAt(s, i) = a \o b
    BY DEF RemoveAt
  <1> HIDE DEF a, b
  <1>4. /\ a \o b \in Seq(S) /\ Len(a \o b) = Len(s) - 1
        /\ \A j \in 1 .. Len(s) - 1 :
              (a \o b)[j] = IF j <= i - 1 THEN a[j] ELSE b[j - (i - 1)]
    BY <1>1, <1>2
  <1>5. \A j \in 1 .. Len(s) - 1 : (a \o b)[j] = IF j < i THEN s[j] ELSE s[j + 1]
    BY <1>1, <1>2, <1>4
  <1> QED
    BY <1>3, <1>4, <1>5

(* The fields the UI thread's state has in each phase. *)
LEMMA UiFields ==
    ASSUME ui \in UiState
    PROVE  /\ ui.at \in {"loop", "joinAll", "exited", "drain", "join"}
           /\ ui.at = "drain" => ui \in [at : {"drain"}, i : Nat \ {0}]
           /\ ui.at = "join" => ui \in [at : {"join"}, i : Nat \ {0}, worker : Workers]
  BY DEF UiState

(* What stands in a queue, in a hand and in the list of removals. *)
LEMMA ElementTypes ==
    ASSUME TuiTypes
    PROVE  /\ \A w \in Workers : \A k \in 1 .. Len(workQueue[w]) :
                 workQueue[w][k] \in Item /\ workQueue[w][k].board \in Boards
           /\ \A w \in Workers : pc[w] \in Busy =>
                 item[w] \in Item /\ item[w].board \in Boards
           /\ DOMAIN pending = 1 .. Len(pending)
           /\ \A i \in 1 .. Len(pending) :
                 /\ pending[i] \in PendingRemoval
                 /\ pending[i].board \in Boards /\ pending[i].worker \in Workers
  <1>1. \A w \in Workers : workQueue[w] \in Seq(Item)
    BY DEF TuiTypes
  <1>2. \A w \in Workers : \A k \in 1 .. Len(workQueue[w]) : workQueue[w][k] \in Item
    BY <1>1
  <1>3. \A i \in 1 .. Len(pending) : pending[i] \in PendingRemoval
    BY DEF TuiTypes
  <1>4. \A x \in Item : x.board \in Boards
    BY DEF Item
  <1>5. \A x \in PendingRemoval : x.board \in Boards /\ x.worker \in Workers
    BY DEF PendingRemoval
  <1>6. \A w \in Workers : pc[w] \in Busy => item[w] \in Item
    BY DEF TuiTypes, ItemInHand, Idle, Busy
  <1>7. DOMAIN pending = 1 .. Len(pending)
    BY DEF TuiTypes
  <1> QED
    BY <1>2, <1>3, <1>4, <1>5, <1>6, <1>7

(* What an item put into a queue leaves behind. *)
LEMMA Enqueued ==
    ASSUME TuiTypes, NEW w, NEW b \in Boards, NEW kind \in Kinds, Enqueue(w, kind, b)
    PROVE  /\ workQueue' \in [Workers -> Seq(Item)]
           /\ \A v \in Workers : v # w => workQueue'[v] = workQueue[v]
           /\ w \in Workers =>
                /\ Len(workQueue[w]) \in Nat
                /\ Len(workQueue'[w]) = Len(workQueue[w]) + 1
                /\ \A k \in 1 .. Len(workQueue[w]) : workQueue'[w][k] = workQueue[w][k]
                /\ workQueue'[w][Len(workQueue[w]) + 1] = [kind |-> kind, board |-> b]
  <1> DEFINE x == [kind |-> kind, board |-> b]
  <1>1. x \in Item
    BY DEF Item
  <1>2. /\ workQueue \in [Workers -> Seq(Item)]
        /\ workQueue' = [workQueue EXCEPT ![w] = Append(@, x)]
    BY DEF TuiTypes, Enqueue
  <1> HIDE DEF x
  <1>3. \A q \in Seq(Item) :
          /\ Append(q, x) \in Seq(Item)
          /\ Len(q) \in Nat /\ Len(Append(q, x)) = Len(q) + 1
          /\ \A k \in 1 .. Len(q) : Append(q, x)[k] = q[k]
          /\ Append(q, x)[Len(q) + 1] = x
    BY <1>1
  <1>4. /\ \A v \in Workers : workQueue'[v] = IF v = w THEN Append(workQueue[v], x)
                                                       ELSE workQueue[v]
        /\ workQueue' = [v \in Workers |-> IF v = w THEN Append(workQueue[v], x)
                                                       ELSE workQueue[v]]
    BY <1>2
  <1>5. workQueue' \in [Workers -> Seq(Item)]
    BY <1>2, <1>3, <1>4
  <1>6. w \in Workers =>
           /\ Len(workQueue[w]) \in Nat
           /\ Len(workQueue'[w]) = Len(workQueue[w]) + 1
           /\ \A k \in 1 .. Len(workQueue[w]) : workQueue'[w][k] = workQueue[w][k]
           /\ workQueue'[w][Len(workQueue[w]) + 1] = x
    BY <1>2, <1>3, <1>4
  <1>7. \A v \in Workers : v # w => workQueue'[v] = workQueue[v]
    BY <1>4
  <1> QED
    BY <1>5, <1>6, <1>7 DEF x

(***************************************************************************)
(* Layer 1: types                                                          *)
(***************************************************************************)
(* What the user does. *)
LEMMA UserTypes ==
    ASSUME TuiTypes, LiveHasWorker, UserStep
    PROVE  TuiTypes'
  <1>0. ui.at = "loop" => clicks + 1 \in Nat
    BY DEF TuiTypes
  <1>1. ASSUME NEW b \in Boards, doConnect(b) PROVE TuiTypes'
    <2>1. workQueue' \in [Workers -> Seq(Item)]
      BY <1>1, Enqueued DEF doConnect, Kinds
    <2> QED
      BY <1>1, <2>1 DEF doConnect, Click, bus, thread, TuiTypes, ItemInHand, ThreadEnded
  <1>2. ASSUME NEW b \in Boards, doDisconnect(b) PROVE TuiTypes'
    <2>1. workQueue' \in [Workers -> Seq(Item)]
      BY <1>2, Enqueued DEF doDisconnect, Kinds, TuiTypes
    <2>2. connected' \in [Boards -> BOOLEAN]
      BY <1>2 DEF doDisconnect, TuiTypes
    <2>3. abortConnect' \in [Boards -> BOOLEAN] /\ clicks' \in Nat
      BY <1>2 DEF doDisconnect, Click, TuiTypes
    <2>4. UNCHANGED <<session, connecting, bus, thread, pending, ui, running, freedUse>>
      BY <1>2 DEF doDisconnect
    <2> QED
      BY <2>1, <2>2, <2>3, <2>4 DEF bus, thread, TuiTypes, ItemInHand, ThreadEnded
  <1>3. ASSUME NEW b \in Boards, NEW kind \in {"write", "reset"}, postWrite(b, kind)
        PROVE  TuiTypes'
    <2>1. workQueue' \in [Workers -> Seq(Item)]
      BY <1>3, Enqueued DEF postWrite, Kinds
    <2> QED
      BY <1>3, <2>1 DEF postWrite, Click, flags, bus, thread, TuiTypes, ItemInHand,
          ThreadEnded
  <1>4. ASSUME NEW b \in Boards, removeBoardLive(b) PROVE TuiTypes'
    <2>1. workQueue' \in [Workers -> Seq(Item)]
      BY <1>4, Enqueued DEF removeBoardLive, Kinds
    <2>2. [board |-> b, worker |-> workerOf[b], done |-> FALSE] \in PendingRemoval
      BY <1>4 DEF removeBoardLive, LiveHasWorker, PendingRemoval
    <2>3. pending' \in Seq(PendingRemoval)
      BY <1>4, <2>2 DEF removeBoardLive, TuiTypes
    <2> QED
      BY <1>4, <2>1, <2>3 DEF removeBoardLive, Click, flags, bus, thread, TuiTypes, ItemInHand,
          ThreadEnded
  <1>5. ASSUME NEW b \in Boards, applyNewBoardsLive(b) PROVE TuiTypes'
    <2>1. PICK w \in Workers :
            /\ AttachTo(w, b)
            /\ \/ UNCHANGED <<worker, busOpen, pc>>
               \/ /\ worker' = [worker EXCEPT ![w] = "run"]
                  /\ \E opened \in BOOLEAN : busOpen' = [busOpen EXCEPT ![w] = opened]
                  /\ w \notin Present
                  /\ pc' = [pc EXCEPT ![w] = "top"]
      BY <1>5 DEF applyNewBoardsLive, OpenBus, ExistingBw, Present
    <2>2. workQueue' \in [Workers -> Seq(Item)]
      BY <2>1, Enqueued DEF AttachTo, Kinds
    <2>3. /\ attached' \in [Workers -> SUBSET Boards]
          /\ workerOf' \in [Boards -> Workers \cup {None}]
          /\ session' \in [Boards -> {"absent", "live", "freed"}]
      BY <2>1 DEF AttachTo, TuiTypes
    <2>4. worker' \in [Workers -> {"none", "run", "ended"}]
      BY <2>1 DEF TuiTypes
    <2>5. busOpen' \in [Workers -> BOOLEAN]
      BY <2>1 DEF TuiTypes
    <2>6. pc' \in [Workers -> Idle \cup Busy] /\ ThreadEnded'
      <3>1. CASE UNCHANGED <<worker, pc>>
        BY <3>1 DEF TuiTypes, ThreadEnded
      <3>2. CASE worker' = [worker EXCEPT ![w] = "run"] /\ pc' = [pc EXCEPT ![w] = "top"]
        <4>1. pc' \in [Workers -> Idle \cup Busy]
          BY <3>2 DEF TuiTypes, Idle
        <4>2. ThreadEnded'
          BY <3>2 DEF TuiTypes, ThreadEnded
        <4> QED
          BY <4>1, <4>2
      <3> QED
        BY <2>1, <3>1, <3>2
    <2>7. ItemInHand'
      <3>1. pc' = pc \/ (w \notin Present /\ pc' = [pc EXCEPT ![w] = "top"])
        BY <2>1
      <3>2. w \notin Present => pc[w] = "start"
        BY DEF TuiTypes, ThreadEnded, Present
      <3>3. item' = item
        BY <1>5 DEF applyNewBoardsLive
      <3> QED
        BY <3>1, <3>2, <3>3 DEF TuiTypes, ItemInHand, Idle
    <2> QED
      BY <1>5, <2>2, <2>3, <2>4, <2>5, <2>6, <2>7
      DEF applyNewBoardsLive, Click, flags, TuiTypes
  <1>6. CASE Quit
    BY <1>6 DEF Quit, flags, bus, thread, TuiTypes, UiState, ItemInHand, ThreadEnded
  <1>7. ASSUME NEW b \in Boards, NEW p \in Ports \cup {NoPort}, SelectPort(b, p)
        PROVE  TuiTypes'
    BY <1>7 DEF SelectPort, Click, flags, bus, thread, TuiTypes, ItemInHand, ThreadEnded
  <1> QED
    BY <1>1, <1>2, <1>3, <1>4, <1>5, <1>6, <1>7 DEF UserStep

(* What a frame of the user interface does. *)
LEMMA FrameTypes ==
    ASSUME TuiTypes, JoinedIsEmpty, FrameStep
    PROVE  TuiTypes'
  <1>1. CASE drainPendingRemovals
    <2>1. ui' \in UiState
      BY <1>1 DEF drainPendingRemovals, UiState
    <2> QED
      BY <1>1, <2>1
      DEF drainPendingRemovals, flags, bus, thread, TuiTypes, ItemInHand, ThreadEnded
  <1>2. CASE DrainSkip
    <2>1. ui' \in UiState
      BY <1>2, UiFields DEF DrainSkip, UiState, TuiTypes
    <2> QED
      BY <1>2, <2>1 DEF DrainSkip, flags, bus, thread, TuiTypes, ItemInHand, ThreadEnded
  <1>3. CASE DrainEntry
    <2>1. /\ ui.i \in 1 .. Len(pending) /\ pending \in Seq(PendingRemoval)
          /\ pending[ui.i] \in PendingRemoval
      BY <1>3, UiFields DEF DrainEntry, TuiTypes
    <2>2. pending' = pending \/ pending' = RemoveAt(pending, ui.i)
      BY <1>3 DEF DrainEntry
    <2>3. pending' \in Seq(PendingRemoval)
      BY <2>1, <2>2, RemoveAtElements
    <2>4. ui' \in UiState
      <3>1. \/ ui' = ui
            \/ ui' = [at |-> "join", i |-> ui.i, worker |-> pending[ui.i].worker]
        BY <1>3 DEF DrainEntry
      <3> QED
        BY <2>1, <3>1 DEF UiState, TuiTypes, PendingRemoval
    <2>5. /\ session' \in [Boards -> {"absent", "live", "freed"}]
          /\ stopRequested' \in [Workers -> BOOLEAN]
          /\ freedUse' \subseteq {"poll", "item", "drain"}
      BY <1>3, <2>1 DEF DrainEntry, TuiTypes
    <2> QED
      BY <1>3, <2>3, <2>4, <2>5 DEF DrainEntry, flags, thread, TuiTypes, ItemInHand, ThreadEnded
  <1>4. CASE DrainJoined
    <2>1. /\ ui \in [at : {"join"}, i : Nat \ {0}, worker : Workers]
          /\ ui.i \in 1 .. Len(pending) /\ pending \in Seq(PendingRemoval)
          /\ worker[ui.worker] = "ended"
      BY <1>4, UiFields DEF DrainJoined, TuiTypes, JoinedIsEmpty
    <2>2. pending' \in Seq(PendingRemoval)
      BY <1>4, <2>1, RemoveAtElements DEF DrainJoined
    <2>3. ui' \in UiState
      BY <1>4, <2>1 DEF DrainJoined, UiState
    <2>4. /\ worker' \in [Workers -> {"none", "run", "ended"}]
          /\ busOpen' \in [Workers -> BOOLEAN]
          /\ stopRequested' \in [Workers -> BOOLEAN]
          /\ workQueue' \in [Workers -> Seq(Item)]
      BY <1>4, <2>1 DEF DrainJoined, TuiTypes
    <2>5. ThreadEnded'
      BY <1>4, <2>1 DEF DrainJoined, TuiTypes, ThreadEnded, thread
    <2> QED
      BY <1>4, <2>2, <2>3, <2>4, <2>5 DEF DrainJoined, flags, thread, TuiTypes, ItemInHand
  <1>5. CASE joinRuntime
    <2>1. ui' \in UiState /\ busOpen' \in [Workers -> BOOLEAN]
      BY <1>5 DEF joinRuntime, UiState
    <2> QED
      BY <1>5, <2>1 DEF joinRuntime, flags, thread, TuiTypes, ItemInHand, ThreadEnded
  <1> QED
    BY <1>1, <1>2, <1>3, <1>4, <1>5 DEF FrameStep

(* The thread that steps is one that runs. *)
LEMMA StepperRuns ==
    ASSUME TuiTypes, NEW w \in Workers, WorkerStep(w)
    PROVE  worker[w] = "run"
  BY DEF WorkerStep, SweepStart, SweepNext, LoopTop, PopItem, PollNext, RunRemove, RunDisconnect,
         RunWrite, RunConnect, Verify, FullScan, Publish, Message, Current, TuiTypes, ThreadEnded

(* The handshake ends the item, or goes on with what the board answered. *)
LEMMA VerifyCases ==
    ASSUME TuiTypes, NEW w \in Workers, Verify(w)
    PROVE  \/ /\ ~running
              /\ connecting' = [connecting EXCEPT ![item[w].board] = FALSE]
              /\ Finish(w)
           \/ \E good \in BOOLEAN :
                /\ good => busOpen[w]
                /\ ok' = [ok EXCEPT ![w] = good]
                /\ Goto(w, IF good THEN "scan" ELSE "publish")
                /\ UNCHANGED <<connecting, item>>
  <1> DEFINE b == item[w].board
  <1>1. PICK answered \in IF busOpen[w] THEN BOOLEAN ELSE {FALSE} :
          \/ /\ ~running
             /\ connecting' = [connecting EXCEPT ![b] = FALSE]
             /\ Finish(w)
          \/ /\ ok' = [ok EXCEPT ![w] = answered /\ ~abortConnect[b]]
             /\ Goto(w, IF answered /\ ~abortConnect[b] THEN "scan" ELSE "publish")
             /\ UNCHANGED <<connecting, item>>
    BY DEF Verify
  <1>2. answered \in BOOLEAN /\ (answered => busOpen[w])
    BY <1>1 DEF TuiTypes
  <1>3. (answered /\ ~abortConnect[b]) \in BOOLEAN
    BY <1>2
  <1> HIDE DEF b
  <1> QED
    BY <1>1, <1>2, <1>3 DEF b

(* What a worker thread does. *)
LEMMA WorkerTypes ==
    ASSUME TuiTypes, NEW w \in Workers, WorkerStep(w)
    PROVE  TuiTypes'
  <1>a. worker[w] = "run"
    BY StepperRuns
  <1>c. \A x \in Item : x # NoItem
    BY DEF Item, Kinds, NoItem
  <1>1. CASE SweepStart(w)
    <2>1. busOpen' \in [Workers -> BOOLEAN]
      BY <1>1 DEF SweepStart, OpenBus, TuiTypes
    <2> QED
      BY <1>1, <1>a, <2>1 DEF SweepStart, Goto, flags, TuiTypes, ItemInHand, ThreadEnded, Idle
  <1>2. CASE SweepNext(w)
    <2>1. ASSUME NEW b \in snapshot[w],
                 snapshot' = [snapshot EXCEPT ![w] = @ \ {b}],
                 connecting' = [connecting EXCEPT ![b] = TRUE],
                 item' = [item EXCEPT ![w] = [kind |-> "sweep", board |-> b]],
                 Touch("item", b),
                 Goto(w, "verify")
          PROVE  TuiTypes'
      <3>1. [kind |-> "sweep", board |-> b] \in Item
        BY <2>1 DEF TuiTypes, Item, Kinds
      <3>2. item' \in [Workers -> Item \cup {NoItem}] /\ ItemInHand'
        BY <1>2, <1>c, <2>1, <3>1 DEF SweepNext, Goto, TuiTypes, ItemInHand, Idle
      <3>3. freedUse' \subseteq {"poll", "item", "drain"}
        BY <2>1 DEF Touch, TuiTypes
      <3>4. pc' \in [Workers -> Idle \cup Busy] /\ ThreadEnded'
        BY <1>2, <1>a, <2>1 DEF SweepNext, bus, Goto, TuiTypes, ThreadEnded, Busy
      <3>5. snapshot' \in [Workers -> SUBSET Boards] /\ connecting' \in [Boards -> BOOLEAN]
        BY <2>1 DEF TuiTypes
      <3> QED
        BY <1>2, <3>2, <3>3, <3>4, <3>5 DEF SweepNext, bus, TuiTypes
    <2>2. CASE snapshot[w] = {} /\ Goto(w, "top") /\ UNCHANGED <<snapshot, connecting, item, freedUse>>
      BY <1>2, <1>a, <2>2
      DEF SweepNext, bus, Goto, TuiTypes, ItemInHand, ThreadEnded, Idle
    <2> QED
      BY <1>2, <2>1, <2>2 DEF SweepNext
  <1>3. CASE LoopTop(w)
    <2>1. \/ Goto(w, "drain") /\ worker' = worker
          \/ Goto(w, "start") /\ worker' = [worker EXCEPT ![w] = "ended"]
      BY <1>3 DEF LoopTop
    <2>2. (pc \in [Workers -> Idle \cup Busy] /\ ThreadEnded /\ ItemInHand)'
      <3>1. PICK l \in {"drain", "start"} : pc' = [pc EXCEPT ![w] = l]
        BY <2>1 DEF Goto
      <3>2. pc' \in [Workers -> Idle \cup Busy]
        BY <3>1 DEF TuiTypes, Idle
      <3>3. ThreadEnded'
        <4>1. CASE Goto(w, "drain") /\ worker' = worker
          BY <1>a, <4>1 DEF Goto, TuiTypes, ThreadEnded
        <4>2. CASE Goto(w, "start") /\ worker' = [worker EXCEPT ![w] = "ended"]
          BY <4>2 DEF Goto, TuiTypes, ThreadEnded
        <4> QED
          BY <2>1, <4>1, <4>2
      <3>4. item' = item /\ item[w] = NoItem
        BY <1>3 DEF LoopTop, TuiTypes, ItemInHand, Idle
      <3>5. ItemInHand'
        BY <3>1, <3>4 DEF TuiTypes, ItemInHand, Idle
      <3> QED
        BY <3>2, <3>3, <3>5
    <2>3. worker' \in [Workers -> {"none", "run", "ended"}]
      BY <2>1 DEF TuiTypes
    <2> QED
      BY <1>3, <2>2, <2>3 DEF LoopTop, flags, TuiTypes
  <1>4. CASE PopItem(w)
    <2>1. CASE workQueue[w] # <<>>
      <3>1. Head(workQueue[w]) \in Item /\ Tail(workQueue[w]) \in Seq(Item)
        BY <2>1 DEF TuiTypes
      <3>2. /\ item' = [item EXCEPT ![w] = Head(workQueue[w])] /\ Goto(w, "run")
            /\ workQueue' = [workQueue EXCEPT ![w] = Tail(@)] /\ snapshot' = snapshot
        BY <1>4, <2>1 DEF PopItem
      <3>3. (pc \in [Workers -> Idle \cup Busy] /\ ThreadEnded)'
        BY <1>4, <1>a, <3>2 DEF PopItem, bus, Goto, TuiTypes, ThreadEnded, Busy
      <3>4. ItemInHand' /\ item' \in [Workers -> Item \cup {NoItem}]
        BY <1>4, <1>c, <3>1, <3>2 DEF PopItem, Goto, TuiTypes, ItemInHand, Idle
      <3>5. workQueue' \in [Workers -> Seq(Item)]
        BY <3>1, <3>2 DEF TuiTypes
      <3> QED
        BY <1>4, <3>2, <3>3, <3>4, <3>5 DEF PopItem, bus, flags, TuiTypes
    <2>2. CASE workQueue[w] = <<>>
      <3>1. /\ snapshot' = [snapshot EXCEPT ![w] = attached[w]] /\ Goto(w, "poll")
            /\ UNCHANGED <<item, workQueue>>
        BY <1>4, <2>2 DEF PopItem
      <3>2. snapshot' \in [Workers -> SUBSET Boards]
        BY <3>1 DEF TuiTypes
      <3>3. (pc \in [Workers -> Idle \cup Busy] /\ ThreadEnded /\ ItemInHand)'
        BY <1>4, <1>a, <3>1 DEF PopItem, bus, Goto, TuiTypes, ItemInHand, ThreadEnded, Idle
      <3> QED
        BY <1>4, <3>1, <3>2, <3>3 DEF PopItem, bus, flags, TuiTypes
    <2> QED
      BY <2>1, <2>2
  <1>5. CASE PollNext(w)
    <2>1. pc' = pc \/ Goto(w, "top")
      BY <1>5 DEF PollNext
    <2>2. (pc \in [Workers -> Idle \cup Busy] /\ ThreadEnded /\ ItemInHand)'
      BY <1>5, <1>a, <2>1 DEF PollNext, bus, Goto, TuiTypes, ItemInHand, ThreadEnded, Idle
    <2>3. snapshot' \in [Workers -> SUBSET Boards]
      <3>1. PICK S \in SUBSET snapshot[w] : snapshot' = [snapshot EXCEPT ![w] = S]
        BY <1>5 DEF PollNext
      <3> QED
        BY <3>1 DEF TuiTypes
    <2>4. freedUse' \subseteq {"poll", "item", "drain"}
      BY <1>5 DEF PollNext, Touch, TuiTypes
    <2> QED
      BY <1>5, <2>2, <2>3, <2>4 DEF PollNext, bus, flags, TuiTypes
  <1>d. ASSUME Finish(w), worker' = worker
        PROVE  /\ (pc \in [Workers -> Idle \cup Busy] /\ ThreadEnded /\ ItemInHand)'
               /\ item' \in [Workers -> Item \cup {NoItem}]
               /\ ok' \in [Workers -> BOOLEAN]
    BY <1>a, <1>d DEF Finish, Goto, TuiTypes, ItemInHand, ThreadEnded, Idle
  <1>e. ASSUME NEW b, Touch("item", b) PROVE freedUse' \subseteq {"poll", "item", "drain"}
    BY <1>e DEF Touch, TuiTypes
  <1>6. CASE RunRemove(w)
    <2>1. PICK i \in DOMAIN pending : pending' = [pending EXCEPT ![i].done = TRUE]
      BY <1>6 DEF RunRemove
    <2>2. pending' \in Seq(PendingRemoval)
      <3>1. [pending[i] EXCEPT !.done = TRUE] \in PendingRemoval
        <4>1. pending[i] \in PendingRemoval
          BY <2>1 DEF TuiTypes
        <4> QED
          BY <4>1 DEF PendingRemoval
      <3>2. pending' = [pending EXCEPT ![i] = [pending[i] EXCEPT !.done = TRUE]]
        BY <2>1
      <3> QED
        BY <3>1, <3>2 DEF TuiTypes
    <2>3. attached' \in [Workers -> SUBSET Boards]
      BY <1>6 DEF RunRemove, Detach, TuiTypes
    <2> QED
      BY <1>6, <1>d, <2>2, <2>3 DEF RunRemove, flags, TuiTypes
  <1>7. CASE RunDisconnect(w)
    <2>1. busOpen' \in [Workers -> BOOLEAN]
      BY <1>7 DEF RunDisconnect, TuiTypes
    <2> QED
      BY <1>7, <1>d, <1>e, <2>1 DEF RunDisconnect, flags, TuiTypes
  <1>8. CASE RunWrite(w)
    <2>1. connected' \in [Boards -> BOOLEAN]
      BY <1>8 DEF RunWrite, TuiTypes
    <2> QED
      BY <1>8, <1>d, <1>e, <2>1 DEF RunWrite, bus, TuiTypes
  <1>f. ASSUME NEW l \in Busy, pc[w] \in Busy, Goto(w, l), item' = item, worker' = worker
        PROVE  (pc \in [Workers -> Idle \cup Busy] /\ ThreadEnded /\ ItemInHand)'
    BY <1>a, <1>f DEF Goto, TuiTypes, ItemInHand, ThreadEnded, Idle, Busy
  <1>9. CASE RunConnect(w)
    <2>1. busOpen' \in [Workers -> BOOLEAN]
      BY <1>9 DEF RunConnect, OpenBus, TuiTypes
    <2> QED
      BY <1>9, <1>e, <1>f, <2>1 DEF RunConnect, Current, flags, Busy, TuiTypes
  <1>10. CASE Verify(w)
    <2> DEFINE b == item[w].board
    <2>1. UNCHANGED <<session, connected, abortConnect, bus, workQueue, snapshot,
                      pending, ui, running, clicks, freedUse>>
      BY <1>10 DEF Verify
    <2>2. \/ connecting' = [connecting EXCEPT ![b] = FALSE] /\ Finish(w)
          \/ \E good \in BOOLEAN :
               /\ ok' = [ok EXCEPT ![w] = good]
               /\ Goto(w, IF good THEN "scan" ELSE "publish")
               /\ UNCHANGED <<connecting, item>>
      BY <1>10, VerifyCases
    <2>3. CASE connecting' = [connecting EXCEPT ![b] = FALSE] /\ Finish(w)
      BY <1>d, <2>1, <2>3 DEF bus, TuiTypes
    <2>4. ASSUME NEW good \in BOOLEAN,
                 ok' = [ok EXCEPT ![w] = good],
                 Goto(w, IF good THEN "scan" ELSE "publish"),
                 UNCHANGED <<connecting, item>>
          PROVE  TuiTypes'
      <3>1. (pc \in [Workers -> Idle \cup Busy] /\ ThreadEnded /\ ItemInHand)'
        BY <1>10, <1>f, <2>1, <2>4 DEF Verify, bus, Busy
      <3> QED
        BY <2>1, <2>4, <3>1 DEF bus, TuiTypes
    <2> QED
      BY <2>2, <2>3, <2>4
  <1>11. CASE FullScan(w)
    <2>1. ok' \in [Workers -> BOOLEAN]
      BY <1>11 DEF FullScan, TuiTypes
    <2> QED
      BY <1>11, <1>f, <2>1 DEF FullScan, bus, flags, Busy, TuiTypes
  <1>12. CASE Publish(w)
    <2>1. connected' \in [Boards -> BOOLEAN]
      BY <1>12 DEF Publish, TuiTypes
    <2> QED
      BY <1>12, <1>e, <1>f, <2>1 DEF Publish, bus, Busy, TuiTypes
  <1>13. CASE Message(w)
    <2>1. /\ Goto(w, "sweep") \/ Goto(w, "drain")
          /\ item' = [item EXCEPT ![w] = NoItem] /\ ok' = [ok EXCEPT ![w] = FALSE]
          /\ UNCHANGED <<session, connected, abortConnect, bus, workQueue, snapshot, pending,
                         ui, running, clicks, freedUse>>
      BY <1>13 DEF Message
    <2>2. connecting' \in [Boards -> BOOLEAN]
      BY <1>13 DEF Message, TuiTypes
    <2>3. (pc \in [Workers -> Idle \cup Busy] /\ ThreadEnded /\ ItemInHand)'
      <3>1. PICK l \in {"sweep", "drain"} : pc' = [pc EXCEPT ![w] = l]
        BY <2>1 DEF Goto
      <3>2. pc' \in [Workers -> Idle \cup Busy]
        BY <3>1 DEF TuiTypes, Idle
      <3>3. ThreadEnded'
        BY <1>a, <2>1, <3>1 DEF bus, TuiTypes, ThreadEnded
      <3>4. ItemInHand'
        BY <2>1, <3>1 DEF TuiTypes, ItemInHand, Idle
      <3> QED
        BY <3>2, <3>3, <3>4
    <2> QED
      BY <2>1, <2>2, <2>3 DEF bus, TuiTypes
  <1> QED
    BY <1>1, <1>2, <1>3, <1>4, <1>5, <1>6, <1>7, <1>8, <1>9, <1>10, <1>11, <1>12, <1>13
    DEF WorkerStep

(***************************************************************************)
(* Layer 2: ownership                                                      *)
(***************************************************************************)
(* The parts of Ownership that do not speak of the pending removals. *)
SessionsOwned ==
    /\ LiveHasWorker
    /\ AttachedIsLive
    /\ ItemsBelong
    /\ PolledIsAttached
    /\ PollUsesLiveSessions

(* An item for a live board goes to the board's own worker. *)
LEMMA EnqueueOwned ==
    ASSUME TuiTypes, SessionsOwned,
           NEW b \in Boards, session[b] = "live", NEW kind \in Kinds,
           Enqueue(workerOf[b], kind, b) \/ workQueue' = workQueue,
           UNCHANGED <<session, bus, thread, freedUse>>
    PROVE  SessionsOwned'
  <1>1. workerOf[b] \in Workers
    BY DEF SessionsOwned, LiveHasWorker
  <1>2. UNCHANGED <<workerOf, worker, attached, busOpen, pc, item, snapshot>>
    BY DEF bus, thread
  <1>3. ItemsBelong'
    <2>1. CASE workQueue' = workQueue
      BY <1>2, <2>1 DEF SessionsOwned, ItemsBelong, Belongs
    <2>2. CASE Enqueue(workerOf[b], kind, b)
      <3> DEFINE w == workerOf[b]
      <3>1. /\ \A v \in Workers : v # w => workQueue'[v] = workQueue[v]
            /\ Len(workQueue[w]) \in Nat
            /\ Len(workQueue'[w]) = Len(workQueue[w]) + 1
            /\ \A k \in 1 .. Len(workQueue[w]) : workQueue'[w][k] = workQueue[w][k]
            /\ workQueue'[w][Len(workQueue[w]) + 1] = [kind |-> kind, board |-> b]
        BY <1>1, <2>2, Enqueued
      <3>2. \A k \in 1 .. Len(workQueue'[w]) : Belongs(workQueue'[w][k].board, w)
        <4> TAKE k \in 1 .. Len(workQueue'[w])
        <4>1. CASE k = Len(workQueue[w]) + 1
          BY <3>1, <4>1 DEF Belongs
        <4>2. CASE k \in 1 .. Len(workQueue[w])
          BY <1>1, <3>1, <4>2 DEF SessionsOwned, ItemsBelong
        <4> QED
          BY <3>1, <4>1, <4>2
      <3> HIDE DEF w
      <3>3. \A v \in Workers : \A k \in 1 .. Len(workQueue'[v]) :
              Belongs(workQueue'[v][k].board, v)
        BY <3>1, <3>2 DEF SessionsOwned, ItemsBelong
      <3>4. \A v \in Workers : /\ pc'[v] \in Busy => Belongs(item'[v].board, v)
                               /\ \A c \in snapshot'[v] : Belongs(c, v)
        BY <1>2 DEF SessionsOwned, ItemsBelong
      <3> QED
        BY <1>2, <3>3, <3>4 DEF ItemsBelong, Belongs
    <2> QED
      BY <2>1, <2>2
  <1> QED
    BY <1>2, <1>3
    DEF SessionsOwned, LiveHasWorker, AttachedIsLive, Belongs, PolledIsAttached, PollUsesLiveSessions, Present

(* Nothing is pending that was not, and nobody is being joined. *)
LEMMA PendingKept ==
    ASSUME Ownership, UNCHANGED <<session, workerOf, worker, attached, pending>>,
           ui'.at # "join"
    PROVE  (PendingBelongs /\ PendingNamesWorker /\ JoinedIsEmpty)'
  BY DEF Ownership, PendingBelongs, PendingNamesWorker, JoinedIsEmpty, Belongs, Present

(* What the user does. *)
LEMMA UserOwns ==
    ASSUME TuiTypes, Ownership, UserStep
    PROVE  Ownership'
  <1>a. SessionsOwned
    BY DEF Ownership, SessionsOwned
  <1>b. SUFFICES (SessionsOwned /\ PendingBelongs /\ PendingNamesWorker /\ JoinedIsEmpty)'
    BY DEF Ownership, SessionsOwned
  <1>1. ASSUME NEW b \in Boards, doConnect(b)
        PROVE  (SessionsOwned /\ PendingBelongs /\ PendingNamesWorker /\ JoinedIsEmpty)'
    <2>1. SessionsOwned'
      BY <1>1, <1>a, EnqueueOwned DEF doConnect, Kinds
    <2> QED
      BY <1>1, <2>1, PendingKept DEF doConnect, Click, bus
  <1>2. ASSUME NEW b \in Boards, doDisconnect(b)
        PROVE  (SessionsOwned /\ PendingBelongs /\ PendingNamesWorker /\ JoinedIsEmpty)'
    <2>1. SessionsOwned'
      BY <1>2, <1>a, EnqueueOwned DEF doDisconnect, Kinds
    <2> QED
      BY <1>2, <2>1, PendingKept DEF doDisconnect, Click, bus
  <1>3. ASSUME NEW b \in Boards, NEW kind \in {"write", "reset"}, postWrite(b, kind)
        PROVE  (SessionsOwned /\ PendingBelongs /\ PendingNamesWorker /\ JoinedIsEmpty)'
    <2>1. SessionsOwned'
      BY <1>3, <1>a, EnqueueOwned DEF postWrite, Kinds
    <2> QED
      BY <1>3, <2>1, PendingKept DEF postWrite, Click, bus
  <1>4. ASSUME NEW b \in Boards, removeBoardLive(b)
        PROVE  (SessionsOwned /\ PendingBelongs /\ PendingNamesWorker /\ JoinedIsEmpty)'
    <2> DEFINE e == [board |-> b, worker |-> workerOf[b], done |-> FALSE]
    <2>1. SessionsOwned'
      BY <1>4, <1>a, EnqueueOwned DEF removeBoardLive, Kinds
    <2>2. /\ pending \in Seq(PendingRemoval) /\ pending' = Append(pending, e)
          /\ UNCHANGED <<session, workerOf, worker, attached, ui>> /\ ui.at = "loop"
      BY <1>4 DEF removeBoardLive, Click, bus, TuiTypes
    <2>3. /\ Len(pending) \in Nat /\ Len(pending') = Len(pending) + 1
          /\ \A i \in 1 .. Len(pending) : pending'[i] = pending[i]
          /\ pending'[Len(pending) + 1] = e
          /\ DOMAIN pending = 1 .. Len(pending) /\ DOMAIN pending' = 1 .. Len(pending')
      BY <2>2
    <2>4. Belongs(b, workerOf[b]) /\ workerOf[b] \in Present
      BY <1>4, <1>a DEF removeBoardLive, Belongs, Present, SessionsOwned, LiveHasWorker,
                        AttachedIsLive
    <2>5. \A i \in 1 .. Len(pending') : i = Len(pending) + 1 \/ i \in 1 .. Len(pending)
      BY <2>3
    <2>6. PendingBelongs'
      BY <2>2, <2>3, <2>4, <2>5 DEF Ownership, PendingBelongs, Belongs
    <2>7. PendingNamesWorker'
      BY <2>2, <2>3, <2>4, <2>5 DEF Ownership, PendingNamesWorker, Present
    <2> QED
      BY <2>1, <2>2, <2>6, <2>7 DEF JoinedIsEmpty
  <1>5. ASSUME NEW b \in Boards, applyNewBoardsLive(b)
        PROVE  (SessionsOwned /\ PendingBelongs /\ PendingNamesWorker /\ JoinedIsEmpty)'
    <2>1. PICK w \in Workers :
            /\ AttachTo(w, b)
            /\ \/ w \in ExistingBw(PortOf[b]) /\ UNCHANGED <<worker, busOpen, pc>>
               \/ /\ worker' = [worker EXCEPT ![w] = "run"]
                  /\ w \notin Present
                  /\ pc' = [pc EXCEPT ![w] = "top"]
      BY <1>5 DEF applyNewBoardsLive, ExistingBw, Present
    <2>2. /\ session[b] = "absent" /\ ui' = ui /\ ui.at = "loop" /\ pending' = pending
          /\ UNCHANGED <<item, snapshot, freedUse>>
      BY <1>5 DEF applyNewBoardsLive, Click
    <2>3. /\ session' = [session EXCEPT ![b] = "live"]
          /\ workerOf' = [workerOf EXCEPT ![b] = w]
          /\ attached' = [attached EXCEPT ![w] = @ \cup {b}]
          /\ Enqueue(w, "attach", b)
      BY <2>1 DEF AttachTo
    <2>4. \A c \in Boards, v \in Workers : Belongs(c, v) => c # b /\ Belongs(c, v)'
      BY <2>2, <2>3 DEF Belongs, TuiTypes
    <2>5. Belongs(b, w)' /\ session'[b] = "live"
      BY <2>3 DEF Belongs, TuiTypes
    <2>6. \A v \in Workers : worker[v] # "none" => worker'[v] # "none"
      BY <2>1 DEF TuiTypes
    <2>7. worker'[w] # "none"
      BY <2>1 DEF ExistingBw, Present, TuiTypes
    <2>8. LiveHasWorker'
      BY <1>a, <2>3 DEF SessionsOwned, LiveHasWorker, TuiTypes
    <2>9. AttachedIsLive'
      <3>1. \A v \in Workers : \A c \in attached'[v] : c \in attached[v] \/ (v = w /\ c = b)
        BY <2>3 DEF TuiTypes
      <3>2. \A v \in Workers : \A c \in attached[v] :
              c \in Boards /\ Belongs(c, v) /\ session[c] = "live" /\ worker[v] # "none"
        BY <1>a DEF SessionsOwned, AttachedIsLive, TuiTypes
      <3>3. \A v \in Workers : \A c \in attached[v] : session'[c] = "live"
        BY <2>3, <3>2 DEF TuiTypes
      <3> QED
        BY <2>4, <2>5, <2>6, <2>7, <3>1, <3>2, <3>3 DEF AttachedIsLive
    <2>10. ItemsBelong'
      <3>1. /\ \A v \in Workers : v # w => workQueue'[v] = workQueue[v]
            /\ Len(workQueue[w]) \in Nat
            /\ Len(workQueue'[w]) = Len(workQueue[w]) + 1
            /\ \A k \in 1 .. Len(workQueue[w]) : workQueue'[w][k] = workQueue[w][k]
            /\ workQueue'[w][Len(workQueue[w]) + 1] = [kind |-> "attach", board |-> b]
        <4>1. "attach" \in Kinds
          BY DEF Kinds
        <4> QED
          BY <2>3, <4>1, Enqueued
      <3>2. \A v \in Workers : \A k \in 1 .. Len(workQueue[v]) :
              workQueue[v][k].board \in Boards /\ Belongs(workQueue[v][k].board, v)
        BY <1>a, ElementTypes DEF SessionsOwned, ItemsBelong
      <3>3. \A v \in Workers : \A k \in 1 .. Len(workQueue'[v]) :
              Belongs(workQueue[v][k].board, v)' 
        <4> TAKE v \in Workers
        <4> TAKE k \in 1 .. Len(workQueue'[v])
        <4>1. CASE v = w /\ k = Len(workQueue[w]) + 1
          BY <2>5, <3>1, <4>1
        <4>2. CASE v # w \/ k # Len(workQueue[w]) + 1
          <5>1. k \in 1 .. Len(workQueue[v]) /\ workQueue'[v][k] = workQueue[v][k]
            BY <3>1, <4>2
          <5> QED
            BY <2>4, <3>2, <5>1
        <4> QED
          BY <4>1, <4>2
      <3>4. \A v \in Workers : pc'[v] \in Busy => Belongs(item[v].board, v)'
        <4>1. \A v \in Workers : pc'[v] \in Busy => pc[v] \in Busy
          BY <2>1 DEF TuiTypes, Busy
        <4>2. \A v \in Workers : pc[v] \in Busy => item[v].board \in Boards
          BY ElementTypes
        <4> QED
          BY <1>a, <2>2, <2>4, <4>1, <4>2 DEF SessionsOwned, ItemsBelong
      <3>5. \A v \in Workers : \A c \in snapshot'[v] : Belongs(c, v)'
        BY <1>a, <2>2, <2>4 DEF SessionsOwned, ItemsBelong, TuiTypes
      <3> QED
        BY <3>3, <3>4, <3>5 DEF ItemsBelong
    <2>11. PolledIsAttached'
      BY <1>a, <2>1, <2>2, <2>3 DEF SessionsOwned, PolledIsAttached, TuiTypes
    <2>12. PollUsesLiveSessions'
      BY <1>a, <2>2 DEF SessionsOwned, PollUsesLiveSessions
    <2>13. PendingBelongs'
      <3>1. \A i \in 1 .. Len(pending) :
              /\ pending[i].board \in Boards /\ pending[i].worker \in Workers
              /\ Belongs(pending[i].board, pending[i].worker)
        BY ElementTypes DEF Ownership, PendingBelongs
      <3> QED
        BY <2>2, <2>3, <2>4, <3>1 DEF Ownership, PendingBelongs, TuiTypes
    <2>14. PendingNamesWorker'
      BY <2>2, <2>6 DEF Ownership, PendingNamesWorker, Present
    <2> QED
      BY <2>2, <2>8, <2>9, <2>10, <2>11, <2>12, <2>13, <2>14
      DEF SessionsOwned, JoinedIsEmpty
  <1>6. CASE Quit
    <2>1. SessionsOwned'
      BY <1>6, <1>a
      DEF Quit, bus, thread, SessionsOwned, LiveHasWorker, AttachedIsLive, ItemsBelong, Belongs,
          PolledIsAttached, PollUsesLiveSessions, Present
    <2> QED
      BY <1>6, <2>1, PendingKept DEF Quit, bus
  <1>7. ASSUME NEW b \in Boards, NEW p \in Ports \cup {NoPort}, SelectPort(b, p)
        PROVE  (SessionsOwned /\ PendingBelongs /\ PendingNamesWorker /\ JoinedIsEmpty)'
    <2>1. SessionsOwned'
      BY <1>7, <1>a
      DEF SelectPort, bus, thread, SessionsOwned, LiveHasWorker, AttachedIsLive, ItemsBelong,
          Belongs, PolledIsAttached, PollUsesLiveSessions, Present
    <2> QED
      BY <1>7, <2>1, PendingKept DEF SelectPort, Click, bus
  <1> QED
    BY <1>1, <1>2, <1>3, <1>4, <1>5, <1>6, <1>7 DEF UserStep

(* A removal that is taken off the list leaves the others as they were. *)
LEMMA OthersPending ==
    ASSUME TuiTypes, NEW i \in 1 .. Len(pending), pending' = RemoveAt(pending, i)
    PROVE  /\ DOMAIN pending' = 1 .. Len(pending')
           /\ \A j \in 1 .. Len(pending') :
                 \E k \in 1 .. Len(pending) : k # i /\ pending'[j] = pending[k]
  <1>1. /\ pending \in Seq(PendingRemoval) /\ pending' \in Seq(PendingRemoval)
        /\ Len(pending) \in Nat /\ Len(pending') = Len(pending) - 1
        /\ \A j \in 1 .. Len(pending) - 1 :
              pending'[j] = IF j < i THEN pending[j] ELSE pending[j + 1]
    BY RemoveAtElements DEF TuiTypes
  <1>2. ASSUME NEW j \in 1 .. Len(pending')
        PROVE  \E k \in 1 .. Len(pending) : k # i /\ pending'[j] = pending[k]
    <2>1. CASE j < i
      BY <1>1, <2>1
    <2>2. CASE ~(j < i)
      <3>1. j + 1 \in 1 .. Len(pending) /\ j + 1 # i /\ pending'[j] = pending[j + 1]
        BY <1>1, <2>2
      <3> QED
        BY <3>1
    <2> QED
      BY <2>1, <2>2
  <1>3. DOMAIN pending' = 1 .. Len(pending')
    BY <1>1
  <1> QED
    BY <1>2, <1>3

(* What a frame of the user interface does. *)
LEMMA FrameOwns ==
    ASSUME TuiTypes, Ownership, FrameStep
    PROVE  Ownership'
  <1>a. SessionsOwned
    BY DEF Ownership, SessionsOwned
  <1>b. SUFFICES (SessionsOwned /\ PendingBelongs /\ PendingNamesWorker /\ JoinedIsEmpty)'
    BY DEF Ownership, SessionsOwned
  <1>c. ASSUME UNCHANGED <<session, workerOf, worker, attached, workQueue, thread, freedUse>>
        PROVE  SessionsOwned'
    BY <1>a, <1>c
    DEF thread, SessionsOwned, LiveHasWorker, AttachedIsLive, ItemsBelong, Belongs,
        PolledIsAttached, PollUsesLiveSessions, Present
  <1>1. CASE drainPendingRemovals
    BY <1>1, <1>c, PendingKept DEF drainPendingRemovals, bus
  <1>2. CASE DrainSkip
    <2>1. ui'.at # "join"
      <3>1. ui \in [at : {"drain"}, i : Nat \ {0}]
        BY <1>2, UiFields DEF DrainSkip, TuiTypes
      <3>2. ui' = [ui EXCEPT !.i = @ + 1] \/ ui' = [at |-> "loop"]
        BY <1>2 DEF DrainSkip
      <3> QED
        BY <3>1, <3>2
    <2> QED
      BY <1>2, <1>c, <2>1, PendingKept DEF DrainSkip, bus
  <1>3. CASE DrainEntry
    <2> DEFINE p == pending[ui.i]
    <2>1. /\ ui.i \in 1 .. Len(pending) /\ p \in PendingRemoval
          /\ p.board \in Boards /\ p.worker \in Workers /\ p.done
      BY <1>3, UiFields, ElementTypes DEF DrainEntry, TuiTypes
    <2>2. /\ session' = [session EXCEPT ![p.board] = "freed"]
          /\ UNCHANGED <<workerOf, worker, attached, workQueue, thread>>
          /\ freedUse' = freedUse \/ freedUse' = freedUse \cup {"drain"}
      BY <1>3 DEF DrainEntry
    <2>3. Belongs(p.board, p.worker) /\ p.board \notin attached[p.worker]
      BY <2>1 DEF Ownership, PendingBelongs
    <2>4. \A w \in Workers : p.board \notin attached[w]
      BY <1>a, <2>3 DEF SessionsOwned, AttachedIsLive, Belongs
    <2>5. \A b \in Boards, w \in Workers : Belongs(b, w) => Belongs(b, w)'
      BY <2>2 DEF Belongs, TuiTypes
    <2>6. SessionsOwned'
      <3>1. LiveHasWorker'
        BY <1>a, <2>2 DEF SessionsOwned, LiveHasWorker, TuiTypes
      <3>2. AttachedIsLive'
        BY <1>a, <2>2, <2>4, <2>5 DEF SessionsOwned, AttachedIsLive, TuiTypes
      <3>3. ItemsBelong'
        BY <1>a, <2>2, <2>5, ElementTypes DEF SessionsOwned, ItemsBelong, thread, TuiTypes
      <3>4. PolledIsAttached'
        BY <1>a, <2>2 DEF SessionsOwned, PolledIsAttached, thread
      <3>5. PollUsesLiveSessions'
        BY <1>a, <2>2 DEF SessionsOwned, PollUsesLiveSessions
      <3> QED
        BY <3>1, <3>2, <3>3, <3>4, <3>5 DEF SessionsOwned
    <2>7. CASE pending' = pending
      <3>1. PendingBelongs'
        BY <2>2, <2>5, <2>7, ElementTypes DEF Ownership, PendingBelongs
      <3>2. PendingNamesWorker'
        BY <2>2, <2>7 DEF Ownership, PendingNamesWorker, Present
      <3>3. \/ /\ attached[p.worker] = {} /\ ~busHasOtherPendingRemoval(ui.i)
               /\ ui' = [at |-> "join", i |-> ui.i, worker |-> p.worker]
            \/ ui' = ui
        BY <1>3 DEF DrainEntry
      <3>4. JoinedIsEmpty'
        <4>1. CASE ui' = ui
          BY <1>3, <4>1 DEF DrainEntry, JoinedIsEmpty
        <4>2. CASE /\ attached[p.worker] = {} /\ ~busHasOtherPendingRemoval(ui.i)
                   /\ ui' = [at |-> "join", i |-> ui.i, worker |-> p.worker]
          BY <2>1, <2>2, <2>7, <4>2, ElementTypes DEF JoinedIsEmpty, busHasOtherPendingRemoval
        <4> QED
          BY <3>3, <4>1, <4>2
      <3> QED
        BY <2>6, <3>1, <3>2, <3>4
    <2>8. CASE pending' = RemoveAt(pending, ui.i) /\ ui' = ui
      <3>1. /\ DOMAIN pending' = 1 .. Len(pending')
            /\ \A j \in 1 .. Len(pending') : \E k \in 1 .. Len(pending) : pending'[j] = pending[k]
        BY <2>1, <2>8, OthersPending
      <3>2. PendingBelongs'
        BY <2>2, <2>5, <3>1, ElementTypes DEF Ownership, PendingBelongs
      <3>3. PendingNamesWorker'
        BY <2>2, <3>1, ElementTypes DEF Ownership, PendingNamesWorker, Present
      <3>4. JoinedIsEmpty'
        BY <1>3, <2>8 DEF DrainEntry, JoinedIsEmpty
      <3> QED
        BY <2>6, <3>2, <3>3, <3>4
    <2> QED
      BY <1>3, <2>7, <2>8 DEF DrainEntry
  <1>4. CASE DrainJoined
    <2> DEFINE w == ui.worker
    <2>1. /\ w \in Workers /\ ui.i \in 1 .. Len(pending) /\ attached[w] = {}
          /\ \A j \in 1 .. Len(pending) : j # ui.i => pending[j].worker # w
          /\ worker[w] = "ended" /\ pc[w] = "start"
      BY <1>4, UiFields DEF DrainJoined, TuiTypes, ThreadEnded, Ownership, JoinedIsEmpty
    <2>2. /\ worker' = [worker EXCEPT ![w] = "none"] 
          /\ workQueue' = [workQueue EXCEPT ![w] = <<>>]
          /\ pending' = RemoveAt(pending, ui.i) /\ ui'.at = "drain"
          /\ UNCHANGED <<session, workerOf, attached, thread, freedUse>>
      BY <1>4 DEF DrainJoined
    <2>3. /\ DOMAIN pending' = 1 .. Len(pending')
          /\ \A j \in 1 .. Len(pending') :
                \E k \in 1 .. Len(pending) : k # ui.i /\ pending'[j] = pending[k]
      BY <2>1, <2>2, OthersPending
    <2>4. \A v \in Workers : v # w => worker'[v] = worker[v]
                                      /\ workQueue'[v] = workQueue[v]
      BY <2>2 DEF TuiTypes
    <2>5. SessionsOwned'
      <3>1. (LiveHasWorker /\ PolledIsAttached /\ PollUsesLiveSessions)'
        BY <1>a, <2>2
        DEF SessionsOwned, LiveHasWorker, PolledIsAttached, PollUsesLiveSessions, thread
      <3>2. AttachedIsLive'
        BY <1>a, <2>1, <2>2, <2>4 DEF SessionsOwned, AttachedIsLive, Belongs
      <3>3. ItemsBelong'
        <4>1. workQueue'[w] = <<>>
          BY <2>1, <2>2 DEF TuiTypes
        <4> QED
          BY <1>a, <2>2, <2>4, <4>1 DEF SessionsOwned, ItemsBelong, Belongs, thread
      <3> QED
        BY <3>1, <3>2, <3>3 DEF SessionsOwned
    <2>6. PendingBelongs'
      BY <2>2, <2>3 DEF Ownership, PendingBelongs, Belongs
    <2>7. PendingNamesWorker'
      BY <2>1, <2>3, <2>4, ElementTypes DEF Ownership, PendingNamesWorker, Present
    <2> QED
      BY <2>2, <2>5, <2>6, <2>7 DEF JoinedIsEmpty
  <1>5. CASE joinRuntime
    BY <1>5, <1>c, PendingKept DEF joinRuntime
  <1> QED
    BY <1>1, <1>2, <1>3, <1>4, <1>5 DEF FrameStep

(* A worker thread leaves sessions, ports and the other threads' locals alone. *)
LEMMA WorkerFrame ==
    ASSUME TuiTypes, NEW w \in Workers, WorkerStep(w)
    PROVE  /\ UNCHANGED <<session, abortConnect, workerOf, stopRequested, ui, running, clicks>>
           /\ \A v \in Workers : v # w =>
                /\ pc'[v] = pc[v] /\ item'[v] = item[v] /\ ok'[v] = ok[v]
                /\ snapshot'[v] = snapshot[v] /\ workQueue'[v] = workQueue[v]
                /\ attached'[v] = attached[v] /\ busOpen'[v] = busOpen[v]
                /\ worker'[v] = worker[v]
           /\ worker'[w] # "none"
           /\ (attached' = attached /\ pending' = pending) \/ RunRemove(w)
  <1>1. UNCHANGED <<session, abortConnect, workerOf, stopRequested, ui, running, clicks>>
    BY DEF WorkerStep, SweepStart, SweepNext, LoopTop, PopItem, PollNext, RunRemove, RunDisconnect,
           RunWrite, RunConnect, Verify, FullScan, Publish, Message,
           Touch, flags, bus
  <1>2. \A v \in Workers : v # w => pc'[v] = pc[v] /\ item'[v] = item[v] /\ ok'[v] = ok[v]
    <2>1. pc' = pc \/ \E l : pc' = [pc EXCEPT ![w] = l]
      BY DEF WorkerStep, SweepStart, SweepNext, LoopTop, PopItem, PollNext, RunRemove,
             RunDisconnect, RunWrite, RunConnect, Verify, FullScan, Publish, Message, Goto, Finish
    <2>2. item' = item \/ \E x : item' = [item EXCEPT ![w] = x]
      BY DEF WorkerStep, SweepStart, SweepNext, LoopTop, PopItem, PollNext, RunRemove,
             RunDisconnect, RunWrite, RunConnect, Verify, FullScan, Publish, Message, Finish
    <2>3. ok' = ok \/ \E x : ok' = [ok EXCEPT ![w] = x]
      BY DEF WorkerStep, SweepStart, SweepNext, LoopTop, PopItem, PollNext, RunRemove,
             RunDisconnect, RunWrite, RunConnect, Verify, FullScan, Publish, Message, Finish
    <2> QED
      BY <2>1, <2>2, <2>3 DEF TuiTypes
  <1>3. \A v \in Workers : v # w => snapshot'[v] = snapshot[v] /\ workQueue'[v] = workQueue[v]
    BY DEF WorkerStep, SweepStart, SweepNext, LoopTop, PopItem, PollNext, RunRemove, RunDisconnect,
           RunWrite, RunConnect, Verify, FullScan, Publish, Message,
           TuiTypes
  <1>4. \A v \in Workers : v # w =>
          attached'[v] = attached[v] /\ busOpen'[v] = busOpen[v] /\ worker'[v] = worker[v]
    BY DEF WorkerStep, SweepStart, SweepNext, LoopTop, PopItem, PollNext, RunRemove, RunDisconnect,
           RunWrite, RunConnect, Verify, FullScan, Publish, Message,
           OpenBus, Detach, bus, TuiTypes
  <1>5. worker'[w] = worker[w] \/ worker'[w] = "ended"
    BY DEF WorkerStep, SweepStart, SweepNext, LoopTop, PopItem, PollNext, RunRemove, RunDisconnect,
           RunWrite, RunConnect, Verify, FullScan, Publish, Message,
           bus, TuiTypes
  <1>6. (attached' = attached /\ pending' = pending) \/ RunRemove(w)
    BY DEF WorkerStep, SweepStart, SweepNext, LoopTop, PopItem, PollNext, RunRemove, RunDisconnect,
           RunWrite, RunConnect, Verify, FullScan, Publish, Message,
           bus
  <1> QED
    BY <1>1, <1>2, <1>3, <1>4, <1>5, <1>6, StepperRuns

(* What it takes into its queue, its hand or its list was its own. *)
LEMMA WorkerItemsBelong ==
    ASSUME TuiTypes, SessionsOwned, NEW w \in Workers, WorkerStep(w)
    PROVE  ItemsBelong'
  <1> DEFINE Own(b) == Belongs(b, w)
  <1>a. /\ \A k \in 1 .. Len(workQueue[w]) : Own(workQueue[w][k].board)
        /\ pc[w] \in Busy => Own(item[w].board)
        /\ \A b \in snapshot[w] : Own(b)
        /\ \A b \in attached[w] : Own(b)
    BY DEF SessionsOwned, ItemsBelong, AttachedIsLive
  <1>b. workQueue[w] \in Seq(Item) /\ pc[w] \in Idle \cup Busy
    BY DEF TuiTypes
  <1>1. SUFFICES /\ \A k \in 1 .. Len(workQueue'[w]) : Own(workQueue'[w][k].board)
                 /\ pc'[w] \in Busy => Own(item'[w].board)
                 /\ \A b \in snapshot'[w] : Own(b)
    BY WorkerFrame DEF SessionsOwned, ItemsBelong, Belongs
  <1> HIDE DEF Own
  <1>2. CASE SweepStart(w)
    BY <1>2, <1>a DEF SweepStart, Goto, TuiTypes, Busy
  <1>3. CASE SweepNext(w)
    <2>1. workQueue' = workQueue
      BY <1>3 DEF SweepNext
    <2>2. ASSUME NEW b \in snapshot[w],
                 snapshot' = [snapshot EXCEPT ![w] = @ \ {b}],
                 item' = [item EXCEPT ![w] = [kind |-> "sweep", board |-> b]]
          PROVE  (\A c \in snapshot'[w] : Own(c)) /\ Own(item'[w].board)
      BY <1>a, <2>2 DEF TuiTypes
    <2>3. CASE snapshot' = snapshot /\ Goto(w, "top")
      BY <1>a, <2>1, <2>3 DEF Goto, TuiTypes, Busy
    <2> QED
      BY <1>3, <1>a, <2>1, <2>2, <2>3 DEF SweepNext
  <1>4. CASE PopItem(w)
    <2>1. CASE workQueue[w] # <<>>
      <3>1. /\ item'[w] = workQueue[w][1] /\ 1 \in 1 .. Len(workQueue[w])
            /\ workQueue'[w] = Tail(workQueue[w]) /\ snapshot' = snapshot
        BY <1>4, <1>b, <2>1 DEF PopItem, TuiTypes
      <3>2. \A k \in 1 .. Len(Tail(workQueue[w])) :
              k + 1 \in 1 .. Len(workQueue[w]) /\ Tail(workQueue[w])[k] = workQueue[w][k + 1]
        BY <1>b, <2>1
      <3> QED
        BY <1>a, <3>1, <3>2
    <2>2. CASE workQueue[w] = <<>>
      BY <1>4, <1>a, <2>2 DEF PopItem, Goto, TuiTypes, Busy
    <2> QED
      BY <2>1, <2>2
  <1>5. CASE PollNext(w)
    <2>1. workQueue' = workQueue /\ pc'[w] \in Idle
      BY <1>5 DEF PollNext, Goto, TuiTypes, Idle
    <2>2. snapshot'[w] \subseteq snapshot[w]
      BY <1>5 DEF PollNext, TuiTypes
    <2> QED
      BY <1>a, <2>1, <2>2 DEF Idle, Busy
  <1>6. CASE /\ workQueue' = workQueue /\ snapshot' = snapshot
             /\ pc'[w] \in Busy => pc[w] \in Busy /\ item'[w] = item[w]
    BY <1>6, <1>a
  <1>7. \/ SweepStart(w) \/ SweepNext(w) \/ PopItem(w) \/ PollNext(w)
        \/ /\ workQueue' = workQueue /\ snapshot' = snapshot
           /\ pc'[w] \in Busy => pc[w] \in Busy /\ item'[w] = item[w]
    <2>1. CASE Verify(w)
      <3>1. pc'[w] = "drain" \/ item' = item
        BY <2>1, VerifyCases DEF Finish, Goto, TuiTypes
      <3> QED
        BY <2>1, <3>1 DEF Verify, Busy
    <2>2. CASE LoopTop(w) \/ RunRemove(w) \/ RunDisconnect(w) \/ RunWrite(w) \/ Message(w)
      <3>1. workQueue' = workQueue /\ snapshot' = snapshot
        BY <2>2 DEF LoopTop, RunRemove, RunDisconnect, RunWrite, Message
      <3>2. \E l \in {"start", "sweep", "drain"} : pc' = [pc EXCEPT ![w] = l]
        BY <2>2 DEF LoopTop, RunRemove, RunDisconnect, RunWrite, Message, Finish, Goto
      <3>3. pc'[w] \notin Busy
        BY <3>2 DEF TuiTypes, Busy
      <3> QED
        BY <3>1, <3>3
    <2>3. CASE RunConnect(w) \/ FullScan(w) \/ Publish(w)
      BY <2>3 DEF RunConnect, FullScan, Publish, Current, Busy
    <2> QED
      BY <2>1, <2>2, <2>3 DEF WorkerStep
  <1> QED
    BY <1>2, <1>3, <1>4, <1>5, <1>6, <1>7

(* What a worker thread does. *)
LEMMA WorkerOwns ==
    ASSUME TuiTypes, Ownership, NEW w \in Workers, WorkerStep(w)
    PROVE  Ownership'
  <1>a. SessionsOwned
    BY DEF Ownership, SessionsOwned
  <1>b. /\ UNCHANGED <<session, workerOf, ui>>
        /\ \A v \in Workers : v # w => attached'[v] = attached[v] /\ worker'[v] = worker[v]
        /\ worker'[w] # "none" /\ worker[w] # "none"
    BY WorkerFrame, StepperRuns
  <1>c. /\ \A v \in Workers : worker'[v] # "none" <=> worker[v] # "none"
        /\ Present' = Present
    BY <1>b DEF Present
  <1>d. \A v \in Workers : attached'[v] \subseteq attached[v]
    <2>1. attached'[w] \subseteq attached[w]
      <3>1. CASE RunRemove(w)
        BY <3>1 DEF RunRemove, Detach, TuiTypes
      <3> QED
        BY <3>1, WorkerFrame
    <2> QED
      BY <1>b, <2>1
  <1>1. LiveHasWorker'
    BY <1>a, <1>b DEF SessionsOwned, LiveHasWorker
  <1>2. AttachedIsLive'
    BY <1>a, <1>b, <1>c, <1>d DEF SessionsOwned, AttachedIsLive, Belongs
  <1>3. ItemsBelong'
    BY <1>a, WorkerItemsBelong
  <1>4. PolledIsAttached'
    <2>1. pc'[w] = "poll" => snapshot'[w] \subseteq attached'[w]
      <3>1. CASE PopItem(w)
        BY <3>1 DEF PopItem, bus, Goto, TuiTypes
      <3>2. CASE PollNext(w)
        <4>1. snapshot'[w] \subseteq snapshot[w] /\ attached' = attached /\ pc[w] = "poll"
          BY <3>2 DEF PollNext, bus, TuiTypes
        <4> QED
          BY <1>a, <4>1 DEF SessionsOwned, PolledIsAttached
      <3>3. CASE ~PopItem(w) /\ ~PollNext(w)
        <4>1. PICK l : pc' = [pc EXCEPT ![w] = l] /\ l # "poll"
          <5>1. CASE Verify(w)
            BY <5>1, VerifyCases DEF Goto, Finish
          <5>2. CASE \/ SweepStart(w) \/ SweepNext(w) \/ LoopTop(w) \/ Message(w)
            BY <5>2 DEF SweepStart, SweepNext, LoopTop, Message, Goto
          <5>3. CASE RunRemove(w) \/ RunDisconnect(w) \/ RunWrite(w)
            BY <5>3 DEF RunRemove, RunDisconnect, RunWrite, Goto, Finish
          <5>4. CASE RunConnect(w) \/ FullScan(w) \/ Publish(w)
            BY <5>4 DEF RunConnect, FullScan, Publish, Goto
          <5> QED
            BY <3>3, <5>1, <5>2, <5>3, <5>4 DEF WorkerStep
        <4> QED
          BY <4>1 DEF TuiTypes
      <3> QED
        BY <3>1, <3>2, <3>3
    <2> QED
      BY <1>a, <1>b, <2>1, WorkerFrame DEF SessionsOwned, PolledIsAttached
  <1>5. PollUsesLiveSessions'
    <2>1. CASE PollNext(w)
      <3>1. \A b \in snapshot[w] : session[b] = "live"
        BY <1>a, <2>1 DEF PollNext, SessionsOwned, PolledIsAttached, AttachedIsLive
      <3> QED
        BY <1>a, <2>1, <3>1 DEF PollNext, Touch, SessionsOwned, PollUsesLiveSessions
    <2>2. CASE ~PollNext(w)
      <3>1. freedUse' = freedUse \/ freedUse' = freedUse \cup {"item"}
        BY <2>2
        DEF WorkerStep, SweepStart, SweepNext, LoopTop, PopItem, RunRemove, RunDisconnect,
            RunWrite, RunConnect, Verify, FullScan, Publish, Message, Touch
      <3> QED
        BY <1>a, <3>1 DEF SessionsOwned, PollUsesLiveSessions
    <2> QED
      BY <2>1, <2>2
  <1>6. (PendingBelongs /\ PendingNamesWorker /\ JoinedIsEmpty)'
    <2>1. CASE attached' = attached /\ pending' = pending
      BY <1>b, <1>c, <2>1
      DEF Ownership, PendingBelongs, PendingNamesWorker, JoinedIsEmpty, Belongs
    <2>2. CASE RunRemove(w)
      <3> DEFINE b == item[w].board
      <3>1. PICK i \in DOMAIN pending :
              pending[i].board = b /\ pending' = [pending EXCEPT ![i].done = TRUE]
        BY <2>2 DEF RunRemove
      <3>2. i \in 1 .. Len(pending) /\ pending[i].worker \in Workers /\ pending[i] \in PendingRemoval
        BY <3>1, ElementTypes
      <3>3. Belongs(b, w) /\ Belongs(b, pending[i].worker)
        BY <1>a, <2>2, <3>1, <3>2
        DEF RunRemove, Current, Busy, SessionsOwned, ItemsBelong, Ownership, PendingBelongs
      <3>4. pending[i].worker = w /\ b \notin attached'[w]
        BY <2>2, <3>3 DEF Belongs, RunRemove, Detach, TuiTypes
      <3>5. /\ DOMAIN pending' = 1 .. Len(pending) /\ Len(pending') = Len(pending)
            /\ \A j \in 1 .. Len(pending) : j # i => pending'[j] = pending[j]
            /\ pending'[i].board = b /\ pending'[i].worker = w
        <4>1. pending \in Seq(PendingRemoval)
          BY DEF TuiTypes
        <4>2. pending' = [pending EXCEPT ![i] = [pending[i] EXCEPT !.done = TRUE]]
          BY <3>1
        <4>3. [pending[i] EXCEPT !.done = TRUE] \in PendingRemoval
          BY <3>2 DEF PendingRemoval
        <4>4. /\ [pending[i] EXCEPT !.done = TRUE].board = b
              /\ [pending[i] EXCEPT !.done = TRUE].worker = w
          BY <3>1, <3>2, <3>4 DEF PendingRemoval
        <4>5. ASSUME NEW x \in PendingRemoval, pending' = [pending EXCEPT ![i] = x]
              PROVE  /\ DOMAIN pending' = 1 .. Len(pending) /\ Len(pending') = Len(pending)
                     /\ \A j \in 1 .. Len(pending) : j # i => pending'[j] = pending[j]
                     /\ pending'[i] = x
          BY <3>2, <4>1, <4>5
        <4> QED
          BY <4>2, <4>3, <4>4, <4>5
      <3>6. PendingBelongs'
        BY <1>b, <1>d, <3>3, <3>4, <3>5, ElementTypes DEF Ownership, PendingBelongs, Belongs
      <3>7. PendingNamesWorker'
        BY <1>c, <3>1, <3>4, <3>5, ElementTypes DEF Ownership, PendingNamesWorker
      <3>8. JoinedIsEmpty'
        <4>1. ui.at = "join" => ui.worker \in Workers
          BY UiFields DEF TuiTypes
        <4>2. \A j \in 1 .. Len(pending) : pending'[j].worker = pending[j].worker
          BY <3>4, <3>5
        <4>3. ui.at = "join" => attached'[ui.worker] \subseteq attached[ui.worker]
          BY <1>d, <4>1
        <4>4. ui' = ui
          BY <1>b
        <4> QED
          BY <3>5, <4>2, <4>3, <4>4 DEF Ownership, JoinedIsEmpty
      <3> QED
        BY <3>6, <3>7, <3>8
    <2> QED
      BY <2>1, <2>2, WorkerFrame
  <1> QED
    BY <1>1, <1>2, <1>3, <1>4, <1>5, <1>6 DEF Ownership

(***************************************************************************)
(* The launch                                                              *)
(***************************************************************************)
(* Different ports have different buses. *)
LEMMA LaunchBuses ==
    /\ BusOf \in [Ports -> Workers]
    /\ \A p, q \in Ports : p # q => BusOf[p] # BusOf[q]
    /\ \A b \in Initial : b \in Boards /\ PortOf[b] \in Ports /\ BusOf[PortOf[b]] \in Workers
    /\ \A w \in Workers : Launched(w) # {} =>
          /\ (CHOOSE p \in Ports : BusOf[p] = w) \in Ports
          /\ BusOf[CHOOSE p \in Ports : BusOf[p] = w] = w
  <1>1. BusOf \in OnePerPort
    BY WorkersAssumption DEF BusOf
  <1>2. /\ BusOf \in [Ports -> Workers]
        /\ \A p, q \in Ports : p # q => BusOf[p] # BusOf[q]
    BY <1>1 DEF OnePerPort
  <1>3. \A b \in Initial : b \in Boards /\ PortOf[b] \in Ports /\ BusOf[PortOf[b]] \in Workers
    BY <1>2, TuiAssumption
  <1>4. \A w \in Workers : Launched(w) # {} => \E p \in Ports : BusOf[p] = w
    BY <1>3 DEF Launched
  <1>5. ASSUME NEW w \in Workers, Launched(w) # {}
        PROVE  /\ (CHOOSE p \in Ports : BusOf[p] = w) \in Ports
               /\ BusOf[CHOOSE p \in Ports : BusOf[p] = w] = w
    BY <1>4, <1>5
  <1> QED
    BY <1>2, <1>3, <1>5

(* The launch gives every variable its type ... *)
LEMMA InitTypes == Init => TuiTypes
  <1> SUFFICES ASSUME Init PROVE TuiTypes
    OBVIOUS
  <1>1. workerOf \in [Boards -> Workers \cup {None}]
    BY LaunchBuses DEF Init
  <1>2. attached \in [Workers -> SUBSET Boards]
    BY LaunchBuses DEF Init, Launched
  <1>3. worker \in [Workers -> {"none", "run", "ended"}]
    BY DEF Init
  <1>4. workQueue \in [Workers -> Seq(Item)] /\ pending \in Seq(PendingRemoval)
    BY DEF Init
  <1>5. (ItemInHand /\ ThreadEnded) /\ item \in [Workers -> Item \cup {NoItem}]
    BY DEF Init, ItemInHand, ThreadEnded, Idle
  <1>6. ui \in UiState /\ clicks \in Nat
    BY DEF Init, UiState
  <1>7. pc \in [Workers -> Idle \cup Busy] /\ snapshot \in [Workers -> SUBSET Boards]
    BY DEF Init, Idle
  <1>8. session \in [Boards -> {"absent", "live", "freed"}]
    BY DEF Init
  <1>9. /\ connected \in [Boards -> BOOLEAN]
         /\ connecting \in [Boards -> BOOLEAN]
         /\ abortConnect \in [Boards -> BOOLEAN]
         /\ busOpen \in [Workers -> BOOLEAN]
         /\ stopRequested \in [Workers -> BOOLEAN]
         /\ ok \in [Workers -> BOOLEAN]
         /\ running \in BOOLEAN
         /\ freedUse \subseteq {"poll", "item", "drain"}
    BY DEF Init
  <1> QED
    BY <1>1, <1>2, <1>3, <1>4, <1>5, <1>6, <1>7, <1>8, <1>9 DEF TuiTypes

(* ... and every session to the worker of its port. *)
LEMMA InitOwns == Init => Ownership
  <1> SUFFICES ASSUME Init PROVE Ownership
    OBVIOUS
  <1>1. LiveHasWorker
    BY LaunchBuses DEF Init, LiveHasWorker
  <1>2. AttachedIsLive
    <2>1. ASSUME NEW w \in Workers, NEW b \in attached[w]
          PROVE  Belongs(b, w) /\ session[b] = "live" /\ worker[w] # "none"
      <3>1. b \in Launched(w) /\ b \in Initial /\ BusOf[PortOf[b]] = w
        BY <2>1 DEF Init, Launched
      <3> QED
        BY <3>1, LaunchBuses DEF Init, Belongs
    <2> QED
      BY <2>1 DEF AttachedIsLive
  <1>3. ItemsBelong /\ PolledIsAttached
    BY DEF Init, ItemsBelong, PolledIsAttached, Busy
  <1>4. PendingBelongs /\ PendingNamesWorker /\ JoinedIsEmpty /\ PollUsesLiveSessions
    BY DEF Init, PendingBelongs, PendingNamesWorker, JoinedIsEmpty, PollUsesLiveSessions
  <1> QED
    BY <1>1, <1>2, <1>3, <1>4 DEF Ownership

(* Layers 1 and 2 hold in every state. *)
THEOREM OwnershipInvariance == Spec => [](TuiTypes /\ Ownership)
  <1>1. Init => TuiTypes /\ Ownership
    BY InitTypes, InitOwns
  <1>2. TuiTypes /\ Ownership /\ [Next]_vars => (TuiTypes /\ Ownership)'
    <2> SUFFICES ASSUME TuiTypes, Ownership, [Next]_vars PROVE (TuiTypes /\ Ownership)'
      OBVIOUS
    <2>1. CASE UserStep
      BY <2>1, UserTypes, UserOwns DEF Ownership
    <2>2. CASE FrameStep
      BY <2>2, FrameTypes, FrameOwns DEF Ownership
    <2>3. ASSUME NEW w \in Workers, WorkerStep(w) PROVE (TuiTypes /\ Ownership)'
      BY <2>3, WorkerTypes, WorkerOwns
    <2>4. CASE UNCHANGED vars
      <3>1. TuiTypes'
        BY <2>4 DEF vars, flags, bus, thread, TuiTypes, ItemInHand, ThreadEnded
      <3>2. Ownership'
        BY <2>4
        DEF vars, bus, thread, Ownership, LiveHasWorker, AttachedIsLive, ItemsBelong,
            Belongs, PolledIsAttached, PendingBelongs, PendingNamesWorker, JoinedIsEmpty, PollUsesLiveSessions, Present
      <3> QED
        BY <3>1, <3>2
    <2> QED
      BY <2>1, <2>2, <2>3, <2>4 DEF Next
  <1> QED
    BY <1>1, <1>2, PTL DEF Spec

(***************************************************************************)
(* Layer 3: the port                                                       *)
(***************************************************************************)
(* At the launch nothing is open, connected or queued. *)
LEMMA InitPort == Init => PortInv
  <1> SUFFICES ASSUME Init PROVE PortInv
    OBVIOUS
  <1>1. QuitIsSeen /\ AnsweredIsOpen
    BY DEF Init, QuitIsSeen, AnsweredIsOpen
  <1>2. \A b \in Boards : ~connected[b]
    BY DEF Init
  <1>3. \A w \in Workers : attached[w] \subseteq Boards
    BY LaunchBuses DEF Init, Launched
  <1>4. NotYetConnected /\ ClosedIsExplained /\ PolledPortIsOpen
    BY <1>2, <1>3 DEF NotYetConnected, ClosedIsExplained, PolledPortIsOpen, Present
  <1>5. DisconnectIsWanted
    BY DEF Init, DisconnectIsWanted
  <1> QED
    BY <1>1, <1>4, <1>5 DEF PortInv

(* The queues in which at most one item was put, at the end of w's. *)
Grown(w, x) ==
    \A v \in Workers :
        /\ Len(workQueue[v]) \in Nat /\ Len(workQueue'[v]) \in Nat
        /\ Len(workQueue[v]) <= Len(workQueue'[v])
        /\ \A k \in 1 .. Len(workQueue[v]) : workQueue'[v][k] = workQueue[v][k]
        /\ \A k \in 1 .. Len(workQueue'[v]) :
              k \in 1 .. Len(workQueue[v]) \/ (v = w /\ workQueue'[v][k] = x)

LEMMA EnqueueGrows ==
    ASSUME TuiTypes, NEW w \in Workers, NEW b \in Boards, NEW kind \in Kinds,
           Enqueue(w, kind, b) \/ workQueue' = workQueue
    PROVE  Grown(w, [kind |-> kind, board |-> b])
  <1> DEFINE x == [kind |-> kind, board |-> b]
  <1>1. \A v \in Workers : workQueue[v] \in Seq(Item) /\ Len(workQueue[v]) \in Nat
    BY DEF TuiTypes
  <1>2. CASE workQueue' = workQueue
    BY <1>1, <1>2 DEF Grown
  <1>3. CASE Enqueue(w, kind, b)
    <2>1. /\ \A v \in Workers : v # w => workQueue'[v] = workQueue[v]
          /\ Len(workQueue'[w]) = Len(workQueue[w]) + 1
          /\ \A k \in 1 .. Len(workQueue[w]) : workQueue'[w][k] = workQueue[w][k]
          /\ workQueue'[w][Len(workQueue[w]) + 1] = x
      BY <1>3, Enqueued
    <2> HIDE DEF x
    <2>2. \A k \in 1 .. Len(workQueue'[w]) :
            k \in 1 .. Len(workQueue[w]) \/ k = Len(workQueue[w]) + 1
      BY <1>1, <2>1
    <2>3. Grown(w, x)
      BY <1>1, <2>1, <2>2 DEF Grown
    <2> QED
      BY <2>3 DEF x
  <1> QED
    BY <1>2, <1>3

(* What stood in a queue still stands there. *)
LEMMA QueuedKept ==
    ASSUME TuiTypes, NEW w, NEW x, Grown(w, x), NEW v \in Workers, NEW kind, NEW b,
           Queued(v, kind, b)
    PROVE  Queued(v, kind, b)'
  <1>1. PICK k \in 1 .. Len(workQueue[v]) : workQueue[v][k] = [kind |-> kind, board |-> b]
    BY DEF Queued
  <1>2. k \in 1 .. Len(workQueue'[v]) /\ workQueue'[v][k] = workQueue[v][k]
    BY <1>1 DEF Grown
  <1> QED
    BY <1>1, <1>2 DEF Queued

(* A click on a live board b: a wish to disconnect is withdrawn only by asking
   for a connection, of a board that is not connected. *)
LEMMA ClickKeepsPort ==
    ASSUME TuiTypes, Ownership, PortInv, ui.at = "loop",
           NEW b \in Boards, session[b] = "live", NEW kind \in Kinds,
           Enqueue(workerOf[b], kind, b) \/ workQueue' = workQueue,
           UNCHANGED <<session, bus, thread, ui, running>>,
           \A c \in Boards : c # b => abortConnect'[c] = abortConnect[c]
                                      /\ connected'[c] = connected[c],
           connected'[b] => connected[b],
           abortConnect[b] /\ ~abortConnect'[b] =>
              ~connected'[b] /\ kind = "connect" /\ Enqueue(workerOf[b], kind, b),
           kind = "disconnect" => abortConnect'[b]
    PROVE  PortInv'
  <1> DEFINE w == workerOf[b]
             x == [kind |-> kind, board |-> b]
  <1>1. w \in Workers
    BY DEF Ownership, LiveHasWorker
  <1>2. UNCHANGED <<workerOf, worker, attached, busOpen, pc, item, ok, snapshot>>
    BY DEF bus, thread
  <1>3. Grown(w, x)
    BY <1>1, EnqueueGrows
  <1>4. abortConnect[b] /\ ~abortConnect'[b] =>
          /\ kind = "connect" /\ Len(workQueue[w]) \in Nat
          /\ Len(workQueue'[w]) = Len(workQueue[w]) + 1
          /\ workQueue'[w][Len(workQueue[w]) + 1] = [kind |-> "connect", board |-> b]
    BY <1>1, Enqueued
  <1>5. \A v \in Workers : attached[v] \subseteq Boards
    BY DEF TuiTypes
  <1> HIDE DEF w
  <1>6. QuitIsSeen' /\ AnsweredIsOpen'
    BY <1>2 DEF PortInv, QuitIsSeen, AnsweredIsOpen
  <1>7. NotYetConnected'
    BY <1>2, <1>5 DEF PortInv, NotYetConnected
  <1>8. PolledPortIsOpen'
    BY <1>2, <1>5 DEF PortInv, PolledPortIsOpen, Present
  <1>9. ClosedIsExplained'
    <2>1. ASSUME NEW v \in Workers, NEW c \in attached[v],
                 running, connected'[c], ~busOpen[v]
          PROVE  abortConnect'[c] \/ ConnectAhead(v, c)'
      <3>1. c \in Boards /\ connected[c]
        BY <1>5, <2>1
      <3>2. abortConnect[c] \/ ConnectAhead(v, c)
        BY <2>1, <3>1 DEF PortInv, ClosedIsExplained
      <3>3. CASE abortConnect[c]
        BY <2>1, <3>1, <3>3
      <3>4. CASE ConnectAhead(v, c)
        BY <1>2, <1>3, <3>4, QueuedKept DEF ConnectAhead
      <3> QED
        BY <3>2, <3>3, <3>4
    <2> QED
      BY <1>2, <2>1 DEF ClosedIsExplained
  <1>10. DisconnectIsWanted'
    <2>1. ASSUME NEW v \in Workers, NEW c \in Boards, NEW k \in 1 .. Len(workQueue'[v]),
                 workQueue'[v][k] = [kind |-> "disconnect", board |-> c]
          PROVE  \/ abortConnect'[c]
                 \/ \E j \in k + 1 .. Len(workQueue'[v]) :
                       workQueue'[v][j] = [kind |-> "connect", board |-> c]
      <3>1. CASE k \notin 1 .. Len(workQueue[v])
        <4>1. x = [kind |-> "disconnect", board |-> c]
          BY <1>3, <2>1, <3>1 DEF Grown
        <4>2. kind = "disconnect" /\ b = c
          BY <4>1
        <4> QED
          BY <4>2
      <3>2. CASE k \in 1 .. Len(workQueue[v])
        <4>1. workQueue[v][k] = [kind |-> "disconnect", board |-> c]
          BY <1>3, <2>1, <3>2 DEF Grown
        <4>2. \/ abortConnect[c]
              \/ \E j \in k + 1 .. Len(workQueue[v]) :
                    workQueue[v][j] = [kind |-> "connect", board |-> c]
          BY <3>2, <4>1 DEF PortInv, DisconnectIsWanted
        <4>3. CASE abortConnect[c] /\ ~abortConnect'[c]
          <5>1. c = b
            BY <4>3
          <5>2. workQueue[v][k].board = c
            BY <4>1
          <5>3. v = w
            BY <3>2, <5>1, <5>2 DEF Ownership, ItemsBelong, Belongs, w
          <5>4. /\ Len(workQueue[w]) \in Nat
                /\ Len(workQueue'[w]) = Len(workQueue[w]) + 1
                /\ workQueue'[w][Len(workQueue[w]) + 1] = [kind |-> "connect", board |-> c]
            BY <1>4, <4>3, <5>1
          <5>5. Len(workQueue[v]) + 1 \in k + 1 .. Len(workQueue'[v])
            BY <3>2, <5>3, <5>4
          <5> QED
            BY <5>3, <5>4, <5>5
        <4>4. CASE \E j \in k + 1 .. Len(workQueue[v]) :
                      workQueue[v][j] = [kind |-> "connect", board |-> c]
          <5>1. PICK j \in k + 1 .. Len(workQueue[v]) :
                       workQueue[v][j] = [kind |-> "connect", board |-> c]
            BY <4>4
          <5>2. /\ j \in 1 .. Len(workQueue[v]) /\ j \in k + 1 .. Len(workQueue'[v])
            BY <1>3, <3>2, <5>1 DEF Grown
          <5>3. workQueue'[v][j] = workQueue[v][j]
            BY <1>3, <5>2 DEF Grown
          <5> QED
            BY <5>1, <5>2, <5>3
        <4> QED
          BY <4>2, <4>3, <4>4
      <3> QED
        BY <3>1, <3>2
    <2>2. ASSUME NEW v \in Workers, NEW c \in Boards,
                 pc[v] = "run", item[v] = [kind |-> "disconnect", board |-> c]
          PROVE  abortConnect'[c] \/ Queued(v, "connect", c)'
      <3>1. abortConnect[c] \/ Queued(v, "connect", c)
        BY <2>2 DEF PortInv, DisconnectIsWanted
      <3>2. CASE Queued(v, "connect", c)
        BY <1>3, <3>2, QueuedKept
      <3>3. CASE abortConnect[c] /\ ~abortConnect'[c]
        <4>1. c = b /\ item[v].board = c
          BY <2>2, <3>3
        <4>2. v = w
          BY <2>2, <4>1 DEF Ownership, ItemsBelong, Belongs, Busy, w
        <4>3. /\ Len(workQueue'[w]) \in Nat /\ Len(workQueue'[w]) > 0
              /\ workQueue'[w][Len(workQueue'[w])] = [kind |-> "connect", board |-> c]
          BY <1>4, <3>3, <4>1
        <4> QED
          BY <4>2, <4>3 DEF Queued
      <3> QED
        BY <3>1, <3>2, <3>3
    <2> QED
      BY <1>2, <2>1, <2>2 DEF DisconnectIsWanted
  <1> QED
    BY <1>6, <1>7, <1>8, <1>9, <1>10 DEF PortInv

(* A hot attach brings a board that is not connected. *)
LEMMA AttachKeepsPort ==
    ASSUME TuiTypes, Ownership, PortInv, NEW b \in Boards, applyNewBoardsLive(b)
    PROVE  PortInv'
  <1>1. PICK w \in Workers :
          /\ AttachTo(w, b)
          /\ \/ UNCHANGED <<worker, busOpen, pc>>
             \/ /\ w \notin Present
                /\ worker' = [worker EXCEPT ![w] = "run"]
                /\ \E opened \in BOOLEAN : busOpen' = [busOpen EXCEPT ![w] = opened]
                /\ pc' = [pc EXCEPT ![w] = "top"]
    BY DEF applyNewBoardsLive, OpenBus, ExistingBw, Present
  <1>2. /\ session[b] = "absent" /\ ~connected[b] /\ ui.at = "loop"
        /\ UNCHANGED <<flags, item, ok, snapshot, ui, running>>
    BY DEF applyNewBoardsLive, Click, PortInv, NotYetConnected
  <1>3. /\ session' = [session EXCEPT ![b] = "live"]
        /\ attached' = [attached EXCEPT ![w] = @ \cup {b}]
        /\ Enqueue(w, "attach", b)
    BY <1>1 DEF AttachTo
  <1> DEFINE x == [kind |-> "attach", board |-> b]
  <1>4. Grown(w, x)
    <2>1. "attach" \in Kinds
      BY DEF Kinds
    <2> QED
      BY <1>3, <2>1, EnqueueGrows
  <1>5. \A v \in Workers : \A c \in attached'[v] : c \in attached[v] \/ (v = w /\ c = b)
    BY <1>3 DEF TuiTypes
  <1>6. \A v \in Workers : attached[v] # {} => v \in Present
    BY DEF Ownership, AttachedIsLive, Present
  <1>7. \A v \in Workers : \A c \in attached'[v] : connected'[c] =>
          /\ c \in attached[v] /\ connected[c] /\ c \in Boards
          /\ busOpen'[v] = busOpen[v] /\ pc'[v] = pc[v] /\ worker'[v] = worker[v]
    <2>1. ASSUME NEW v \in Workers, NEW c \in attached'[v], connected'[c]
          PROVE  c \in attached[v] /\ connected[c] /\ c \in Boards
      BY <1>2, <1>5, <2>1 DEF flags, TuiTypes
    <2>2. \A v \in Workers : v \in Present =>
            busOpen'[v] = busOpen[v] /\ pc'[v] = pc[v] /\ worker'[v] = worker[v]
      BY <1>1 DEF TuiTypes
    <2> QED
      BY <1>6, <2>1, <2>2
  <1>8. \A v \in Workers : pc'[v] \in Busy => pc[v] = pc'[v] /\ busOpen'[v] = busOpen[v]
    BY <1>1 DEF TuiTypes, Busy
  <1>9. QuitIsSeen' /\ AnsweredIsOpen'
    BY <1>2, <1>8 DEF PortInv, QuitIsSeen, AnsweredIsOpen, Busy
  <1>10. NotYetConnected'
    <2>1. \A c \in Boards : session'[c] = "absent" => session[c] = "absent"
      BY <1>3 DEF TuiTypes
    <2> QED
      BY <1>2, <1>7, <2>1 DEF PortInv, NotYetConnected, flags
  <1>11. PolledPortIsOpen'
    <2>1. Present' \subseteq Workers
      BY DEF Present
    <2> QED
      BY <1>2, <1>6, <1>7, <2>1 DEF PortInv, PolledPortIsOpen, flags
  <1>12. ClosedIsExplained'
    <2>1. ASSUME NEW v \in Workers, NEW c \in attached'[v],
                 running', connected'[c], ~busOpen'[v]
          PROVE  abortConnect'[c] \/ ConnectAhead(v, c)'
      <3>1. c \in attached[v] /\ connected[c] /\ busOpen'[v] = busOpen[v] /\ pc'[v] = pc[v]
        BY <1>7, <2>1
      <3>2. abortConnect[c] \/ ConnectAhead(v, c)
        BY <1>2, <2>1, <3>1 DEF PortInv, ClosedIsExplained
      <3>3. Queued(v, "connect", c) => Queued(v, "connect", c)'
        BY <1>4, QueuedKept
      <3> QED
        BY <1>2, <3>1, <3>2, <3>3 DEF ConnectAhead, flags
    <2> QED
      BY <2>1 DEF ClosedIsExplained
  <1>13. DisconnectIsWanted'
    <2>1. ASSUME NEW v \in Workers, NEW c \in Boards, NEW k \in 1 .. Len(workQueue'[v]),
                 workQueue'[v][k] = [kind |-> "disconnect", board |-> c]
          PROVE  \/ abortConnect'[c]
                 \/ \E j \in k + 1 .. Len(workQueue'[v]) :
                       workQueue'[v][j] = [kind |-> "connect", board |-> c]
      <3>1. x.kind = "attach" /\ workQueue'[v][k].kind = "disconnect"
        BY <2>1
      <3>2. k \in 1 .. Len(workQueue[v])
        BY <1>4, <2>1, <3>1 DEF Grown
      <3>3. workQueue[v][k] = [kind |-> "disconnect", board |-> c]
        BY <1>4, <2>1, <3>2 DEF Grown
      <3>4. \/ abortConnect[c]
            \/ \E j \in k + 1 .. Len(workQueue[v]) :
                  workQueue[v][j] = [kind |-> "connect", board |-> c]
        BY <3>2, <3>3 DEF PortInv, DisconnectIsWanted
      <3>5. \A j \in k + 1 .. Len(workQueue[v]) :
              j \in k + 1 .. Len(workQueue'[v]) /\ workQueue'[v][j] = workQueue[v][j]
        BY <1>4, <3>2 DEF Grown
      <3> QED
        BY <1>2, <3>4, <3>5 DEF flags
    <2>2. ASSUME NEW v \in Workers, NEW c \in Boards,
                 pc'[v] = "run", item'[v] = [kind |-> "disconnect", board |-> c]
          PROVE  abortConnect'[c] \/ Queued(v, "connect", c)'
      <3>1. abortConnect[c] \/ Queued(v, "connect", c)
        BY <1>2, <1>8, <2>2 DEF PortInv, DisconnectIsWanted, Busy
      <3> QED
        BY <1>2, <1>4, <3>1, QueuedKept DEF flags
    <2> QED
      BY <2>1, <2>2 DEF DisconnectIsWanted
  <1> QED
    BY <1>9, <1>10, <1>11, <1>12, <1>13 DEF PortInv

(* What the user does. *)
LEMMA UserKeepsPort ==
    ASSUME TuiTypes, Ownership, PortInv, UserStep
    PROVE  PortInv'
  <1>1. ASSUME NEW b \in Boards, doConnect(b) PROVE PortInv'
    <2>1. /\ ui.at = "loop" /\ session[b] = "live" /\ ~connected[b]
          /\ Enqueue(workerOf[b], "connect", b) /\ connected' = connected
          /\ UNCHANGED <<session, bus, thread, ui, running>>
          /\ \A c \in Boards : c # b => abortConnect'[c] = abortConnect[c]
      BY <1>1 DEF doConnect, Click, TuiTypes
    <2> QED
      BY <2>1, ClickKeepsPort DEF Kinds
  <1>2. ASSUME NEW b \in Boards, doDisconnect(b) PROVE PortInv'
    <2>1. /\ ui.at = "loop" /\ session[b] = "live"
          /\ Enqueue(workerOf[b], "disconnect", b) \/ workQueue' = workQueue
          /\ UNCHANGED <<session, bus, thread, ui, running>>
          /\ abortConnect'[b] /\ \A c \in Boards : c # b => abortConnect'[c] = abortConnect[c]
      BY <1>2 DEF doDisconnect, Click, TuiTypes
    <2>2. /\ \A c \in Boards : c # b => connected'[c] = connected[c]
          /\ connected'[b] => connected[b]
      BY <1>2 DEF doDisconnect, TuiTypes
    <2> QED
      BY <2>1, <2>2, ClickKeepsPort DEF Kinds
  <1>3. ASSUME NEW b \in Boards, NEW kind \in {"write", "reset"}, postWrite(b, kind)
        PROVE  PortInv'
    BY <1>3, ClickKeepsPort DEF postWrite, Click, flags, Kinds
  <1>4. ASSUME NEW b \in Boards, removeBoardLive(b) PROVE PortInv'
    BY <1>4, ClickKeepsPort DEF removeBoardLive, Click, flags, Kinds
  <1>5. ASSUME NEW b \in Boards, applyNewBoardsLive(b) PROVE PortInv'
    BY <1>5, AttachKeepsPort
  <1>6. CASE Quit
    BY <1>6
    DEF Quit, flags, bus, thread, PortInv, QuitIsSeen, NotYetConnected, AnsweredIsOpen,
        DisconnectIsWanted, ClosedIsExplained, ConnectAhead, Queued, PolledPortIsOpen, Present
  <1>7. ASSUME NEW b \in Boards, NEW p \in Ports \cup {NoPort}, SelectPort(b, p) PROVE PortInv'
    BY <1>7
    DEF SelectPort, Click, flags, bus, thread, PortInv, QuitIsSeen, NotYetConnected,
        AnsweredIsOpen, DisconnectIsWanted, ClosedIsExplained, ConnectAhead, Queued,
        PolledPortIsOpen, Present
  <1> QED
    BY <1>1, <1>2, <1>3, <1>4, <1>5, <1>6, <1>7 DEF UserStep

(* What a frame of the user interface does: it closes a port only under a
   worker that has no boards, or when the program ends. *)
LEMMA FrameKeepsPort ==
    ASSUME TuiTypes, Ownership, PortInv, FrameStep
    PROVE  PortInv'
  <1>1. CASE drainPendingRemovals \/ DrainSkip \/ DrainEntry
    <2>1. /\ UNCHANGED <<flags, workerOf, worker, attached, busOpen, workQueue, thread, running>>
          /\ ui'.at \notin {"joinAll", "exited"}
      BY <1>1, UiFields DEF drainPendingRemovals, DrainSkip, DrainEntry, bus, TuiTypes
    <2>2. \A b \in Boards : session'[b] = "absent" => session[b] = "absent"
      BY <1>1 DEF drainPendingRemovals, DrainSkip, DrainEntry, TuiTypes
    <2> QED
      BY <2>1, <2>2
      DEF flags, thread, PortInv, QuitIsSeen, NotYetConnected, AnsweredIsOpen,
          DisconnectIsWanted, ClosedIsExplained, ConnectAhead, Queued, PolledPortIsOpen, Present
  <1>2. CASE DrainJoined
    <2> DEFINE w == ui.worker
    <2>1. /\ w \in Workers /\ attached[w] = {} /\ pc[w] = "start" /\ item[w] = NoItem
          /\ worker[w] = "ended"
      BY <1>2, UiFields
      DEF DrainJoined, TuiTypes, ThreadEnded, ItemInHand, Idle, Ownership, JoinedIsEmpty
    <2>2. /\ UNCHANGED <<session, flags, attached, thread, running>> /\ ui'.at = "drain"
          /\ worker' = [worker EXCEPT ![w] = "none"]
          /\ busOpen' = [busOpen EXCEPT ![w] = FALSE]
          /\ workQueue' = [workQueue EXCEPT ![w] = <<>>]
      BY <1>2 DEF DrainJoined
    <2>3. /\ workQueue'[w] = <<>> /\ worker'[w] = "none"
          /\ \A v \in Workers : v # w => /\ worker'[v] = worker[v] /\ busOpen'[v] = busOpen[v]
                                         /\ workQueue'[v] = workQueue[v]
      BY <2>1, <2>2 DEF TuiTypes
    <2>4. (QuitIsSeen /\ NotYetConnected /\ AnsweredIsOpen)'
      BY <2>1, <2>2, <2>3
      DEF flags, thread, PortInv, QuitIsSeen, NotYetConnected, AnsweredIsOpen
    <2>5. DisconnectIsWanted'
      <3> SUFFICES ASSUME NEW v \in Workers, NEW c \in Boards
                   PROVE  /\ \A k \in 1 .. Len(workQueue'[v]) :
                                workQueue'[v][k] = [kind |-> "disconnect", board |-> c] =>
                                   \/ abortConnect'[c]
                                   \/ \E j \in k + 1 .. Len(workQueue'[v]) :
                                         workQueue'[v][j] = [kind |-> "connect", board |-> c]
                          /\ pc'[v] = "run" /\ item'[v] = [kind |-> "disconnect", board |-> c] =>
                                abortConnect'[c] \/ Queued(v, "connect", c)'
        BY DEF DisconnectIsWanted
      <3>1. CASE v = w
        BY <2>1, <2>2, <2>3, <3>1 DEF thread
      <3>2. CASE v # w
        <4>1. workQueue'[v] = workQueue[v] /\ UNCHANGED <<abortConnect, pc, item>>
          BY <2>2, <2>3, <3>2 DEF flags, thread
        <4> QED
          BY <4>1 DEF PortInv, DisconnectIsWanted, Queued
      <3> QED
        BY <3>1, <3>2
    <2>6. (ClosedIsExplained /\ PolledPortIsOpen)'
      BY <2>1, <2>2, <2>3
      DEF flags, thread, PortInv, ClosedIsExplained, ConnectAhead, Queued, PolledPortIsOpen, Present
    <2> QED
      BY <2>4, <2>5, <2>6 DEF PortInv
  <1>3. CASE joinRuntime
    <2>1. ~running /\ UNCHANGED <<session, flags, worker, attached, workQueue, thread, running>>
      BY <1>3 DEF joinRuntime, PortInv, QuitIsSeen
    <2>2. \A w \in Workers : pc[w] = "start"
      BY <1>3 DEF joinRuntime, Present, TuiTypes, ThreadEnded
    <2> QED
      BY <2>1, <2>2
      DEF flags, thread, PortInv, QuitIsSeen, NotYetConnected, AnsweredIsOpen,
          DisconnectIsWanted, ClosedIsExplained, PolledPortIsOpen, Queued
  <1> QED
    BY <1>1, <1>2, <1>3 DEF FrameStep

(* Only a worker's own boards change their connection by its steps. *)
LEMMA WorkerConnects ==
    ASSUME TuiTypes, Ownership, NEW w \in Workers, WorkerStep(w)
    PROVE  \/ connected' = connected
           \/ /\ pc[w] \in Busy /\ item[w].board \in Boards /\ Belongs(item[w].board, w)
              /\ \A c \in Boards : c # item[w].board => connected'[c] = connected[c]
              /\ \/ RunWrite(w) /\ ~connected'[item[w].board]
                 \/ Publish(w) /\ connected'[item[w].board] = ok[w]
  <1>1. CASE Publish(w)
    <2>1. pc[w] \in Busy
      BY <1>1 DEF Publish, Busy
    <2>2. item[w].board \in Boards /\ Belongs(item[w].board, w)
      BY <2>1, ElementTypes DEF Ownership, ItemsBelong
    <2> QED
      BY <1>1, <2>1, <2>2 DEF Publish, TuiTypes
  <1>2. CASE RunWrite(w)
    <2>1. pc[w] \in Busy
      BY <1>2 DEF RunWrite, Current, Busy
    <2>2. item[w].board \in Boards /\ Belongs(item[w].board, w)
      BY <2>1, ElementTypes DEF Ownership, ItemsBelong
    <2>3. connected' = connected \/ connected' = [connected EXCEPT ![item[w].board] = FALSE]
      BY <1>2 DEF RunWrite
    <2> QED
      BY <1>2, <2>1, <2>2, <2>3 DEF TuiTypes
  <1>3. CASE ~Publish(w) /\ ~RunWrite(w)
    BY <1>3
    DEF WorkerStep, SweepStart, SweepNext, LoopTop, PopItem, PollNext, RunRemove, RunDisconnect,
        RunConnect, Verify, FullScan, Message, flags
  <1> QED
    BY <1>1, <1>2, <1>3

(* What the invariant says of one worker. *)
PortOfWorker(w) ==
    /\ pc[w] = "start" /\ worker[w] = "run" => \A b \in attached[w] : ~connected[b]
    /\ pc[w] = "scan" \/ (pc[w] = "publish" /\ ok[w]) => busOpen[w]
    /\ \A b \in Boards :
        /\ \A k \in 1 .. Len(workQueue[w]) :
              workQueue[w][k] = [kind |-> "disconnect", board |-> b] =>
                 \/ abortConnect[b]
                 \/ \E j \in k + 1 .. Len(workQueue[w]) :
                       workQueue[w][j] = [kind |-> "connect", board |-> b]
        /\ pc[w] = "run" /\ item[w] = [kind |-> "disconnect", board |-> b] =>
              abortConnect[b] \/ Queued(w, "connect", b)
    /\ \A b \in attached[w] :
          running /\ connected[b] /\ ~busOpen[w] => abortConnect[b] \/ ConnectAhead(w, b)
    /\ \A b \in attached[w] :
          pc[w] = "poll" /\ running /\ connected[b] => busOpen[w] \/ abortConnect[b]

LEMMA PortByWorker ==
    ASSUME Ownership
    PROVE  PortInv => /\ QuitIsSeen
                      /\ \A b \in Boards : session[b] = "absent" => ~connected[b]
                      /\ \A w \in Workers : PortOfWorker(w)
  <1>1. \A w \in Workers : attached[w] # {} => w \in Present
    BY DEF Ownership, AttachedIsLive, Present
  <1>2. PolledPortIsOpen =>
          \A w \in Workers : \A b \in attached[w] :
             pc[w] = "poll" /\ running /\ connected[b] => busOpen[w] \/ abortConnect[b]
    BY <1>1 DEF PolledPortIsOpen
  <1> QED
    BY <1>2
    DEF PortInv, NotYetConnected, AnsweredIsOpen, DisconnectIsWanted, ClosedIsExplained, PortOfWorker

(* A step that takes nothing from the queue has to explain the closed port only. *)
LEMMA QuietStep ==
    ASSUME NEW w \in Workers, PortOfWorker(w),
           UNCHANGED <<workQueue, abortConnect, running>>,
           pc'[w] # "run", ~(pc'[w] = "start" /\ worker'[w] = "run"),
           attached'[w] \subseteq attached[w],
           pc'[w] = "scan" \/ (pc'[w] = "publish" /\ ok'[w]) => busOpen'[w],
           \A b \in attached'[w] : running /\ connected'[b] /\ ~busOpen'[w] =>
              abortConnect[b] \/ Queued(w, "connect", b) \/ ConnectAhead(w, b)',
           pc'[w] = "poll" => pc[w] = "poll" /\ UNCHANGED <<connected, busOpen>>
    PROVE  PortOfWorker(w)'
  <1>1. \A b : Queued(w, "connect", b)' <=> Queued(w, "connect", b)
    BY DEF Queued
  <1>2. \A b : Queued(w, "connect", b)' => ConnectAhead(w, b)'
    BY DEF ConnectAhead
  <1> QED
    BY <1>1, <1>2 DEF PortOfWorker

(* The worker takes the next item, or the queue is empty and it polls. *)
LEMMA PopKeepsPort ==
    ASSUME TuiTypes, NEW w \in Workers, PopItem(w), PortOfWorker(w)
    PROVE  PortOfWorker(w)'
  <1>1. /\ UNCHANGED <<connected, abortConnect, running, attached, busOpen, worker>>
        /\ pc[w] = "drain" /\ item[w] = NoItem
    BY DEF PopItem, flags, bus, TuiTypes, ItemInHand, Idle
  <1>2. \A b : ConnectAhead(w, b) => Queued(w, "connect", b)
    BY <1>1 DEF ConnectAhead
  <1>3. CASE workQueue[w] = <<>>
    <2>1. pc'[w] = "poll" /\ workQueue' = workQueue
      BY <1>3 DEF PopItem, Goto, TuiTypes
    <2>2. \A b : ~Queued(w, "connect", b)
      BY <1>3 DEF Queued
    <2>3. \A b \in attached[w] : running /\ connected[b] /\ ~busOpen[w] => abortConnect[b]
      BY <1>2, <2>2 DEF PortOfWorker
    <2> QED
      BY <1>1, <1>3, <2>1, <2>3 DEF PortOfWorker
  <1>4. CASE workQueue[w] # <<>>
    <2> DEFINE q == workQueue[w]
               t == Tail(workQueue[w])
    <2>1. workQueue[w] \in Seq(Item)
      BY DEF TuiTypes
    <2>2. pc'[w] = "run" /\ item'[w] = q[1] /\ workQueue'[w] = t
      BY <1>4, <2>1 DEF PopItem, Goto, TuiTypes
    <2>3. /\ Len(q) \in Nat \ {0} /\ Len(t) = Len(q) - 1
          /\ \A k \in 1 .. Len(t) : t[k] = q[k + 1]
      BY <1>4, <2>1
    <2>4. \A k \in 2 .. Len(q) : k - 1 \in 1 .. Len(t) /\ t[k - 1] = q[k]
      BY <2>3
    <2> HIDE DEF q, t
    <2>5. ASSUME NEW b \in Boards, NEW k \in 1 .. Len(t),
                 t[k] = [kind |-> "disconnect", board |-> b]
          PROVE  \/ abortConnect[b]
                 \/ \E j \in k + 1 .. Len(t) : t[j] = [kind |-> "connect", board |-> b]
      <3>1. k + 1 \in 1 .. Len(q) /\ q[k + 1] = [kind |-> "disconnect", board |-> b]
        BY <2>3, <2>5
      <3>2. \/ abortConnect[b]
            \/ \E j \in (k + 1) + 1 .. Len(q) : q[j] = [kind |-> "connect", board |-> b]
        BY <3>1 DEF PortOfWorker, q
      <3>3. ASSUME NEW j \in (k + 1) + 1 .. Len(q), q[j] = [kind |-> "connect", board |-> b]
            PROVE  \E m \in k + 1 .. Len(t) : t[m] = [kind |-> "connect", board |-> b]
        <4>1. j \in 2 .. Len(q) /\ j - 1 \in k + 1 .. Len(t)
          BY <2>3, <3>3
        <4> QED
          BY <2>4, <3>3, <4>1
      <3> QED
        BY <3>2, <3>3
    <2>6. ASSUME NEW b \in Boards, q[1] = [kind |-> "disconnect", board |-> b]
          PROVE  abortConnect[b] \/ Queued(w, "connect", b)'
      <3>1. 1 \in 1 .. Len(q)
        BY <2>3
      <3>2. \/ abortConnect[b]
            \/ \E j \in 1 + 1 .. Len(q) : q[j] = [kind |-> "connect", board |-> b]
        BY <2>6, <3>1 DEF PortOfWorker, q
      <3>3. ASSUME NEW j \in 1 + 1 .. Len(q), q[j] = [kind |-> "connect", board |-> b]
            PROVE  Queued(w, "connect", b)'
        <4>1. j \in 2 .. Len(q)
          BY <2>3, <3>3
        <4> QED
          BY <2>2, <2>4, <3>3, <4>1 DEF Queued
      <3> QED
        BY <3>2, <3>3
    <2>7. ASSUME NEW b \in attached[w], running, connected[b], ~busOpen[w]
          PROVE  abortConnect[b] \/ ConnectAhead(w, b)'
      <3>1. abortConnect[b] \/ Queued(w, "connect", b)
        BY <1>2, <2>7 DEF PortOfWorker
      <3>2. CASE Queued(w, "connect", b)
        <4>1. PICK k \in 1 .. Len(q) : q[k] = [kind |-> "connect", board |-> b]
          BY <3>2 DEF Queued, q
        <4>2. CASE k = 1
          BY <2>2, <4>1, <4>2 DEF ConnectAhead
        <4>3. CASE k # 1
          <5>1. k \in 2 .. Len(q)
            BY <2>3, <4>1, <4>3
          <5> QED
            BY <2>2, <2>4, <4>1, <5>1 DEF ConnectAhead, Queued
        <4> QED
          BY <4>2, <4>3
      <3> QED
        BY <3>1, <3>2
    <2> QED
      BY <1>1, <2>2, <2>5, <2>6, <2>7 DEF PortOfWorker
  <1> QED
    BY <1>3, <1>4

(* The worker disconnects a board: it closes the port only when no other board
   is connected, and that board's disconnection is wanted or its connection
   stands in the queue. *)
LEMMA DisconnectKeepsPort ==
    ASSUME TuiTypes, NEW w \in Workers, RunDisconnect(w), PortOfWorker(w)
    PROVE  PortOfWorker(w)'
  <1> DEFINE d == item[w].board
  <1>1. /\ UNCHANGED <<connected, abortConnect, running, attached, workQueue, worker>>
        /\ pc[w] = "run" /\ pc'[w] = "drain"
      BY DEF RunDisconnect, Current, Finish, Goto, flags, TuiTypes
  <1>2. busOpen'[w] = (busOpen[w] /\ \E b \in attached[w] \ {d} : connected[b])
    BY DEF RunDisconnect, TuiTypes
  <1>3. item[w] = [kind |-> "disconnect", board |-> d] /\ d \in Boards
    BY ElementTypes DEF RunDisconnect, Current, Busy, Item
  <1>4. abortConnect[d] \/ Queued(w, "connect", d)
    BY <1>1, <1>3 DEF PortOfWorker
  <1>5. \A b : ConnectAhead(w, b) => Queued(w, "connect", b)
    BY <1>3 DEF ConnectAhead
  <1>6. ASSUME NEW b \in attached[w], running, connected[b], ~busOpen'[w]
        PROVE  abortConnect[b] \/ Queued(w, "connect", b)
    <2>1. CASE b = d
      BY <1>4, <2>1
    <2>2. CASE b # d
      BY <1>2, <1>5, <1>6, <2>2 DEF PortOfWorker
    <2> QED
      BY <2>1, <2>2
  <1> QED
    BY <1>1, <1>6, QuietStep

(* The worker publishes what it found: a board is connected over an open port. *)
LEMMA PublishKeepsPort ==
    ASSUME TuiTypes, NEW w \in Workers, Publish(w), PortOfWorker(w)
    PROVE  PortOfWorker(w)'
  <1> DEFINE d == item[w].board
  <1>1. /\ UNCHANGED <<abortConnect, running, attached, workQueue, worker, busOpen>>
        /\ pc[w] = "publish" /\ pc'[w] = "message"
    BY DEF Publish, Goto, bus, TuiTypes
  <1>2. d \in Boards /\ item[w] \in Item
    BY <1>1, ElementTypes DEF Busy
  <1>3. connected'[d] = ok[w] /\ \A b \in Boards : b # d => connected'[b] = connected[b]
    BY <1>2 DEF Publish, TuiTypes
  <1>4. \A b : b # d /\ ConnectAhead(w, b) => Queued(w, "connect", b)
    BY DEF ConnectAhead
  <1>5. ok[w] => busOpen[w]
    BY <1>1 DEF PortOfWorker
  <1>6. ASSUME NEW b \in attached[w], running, connected'[b], ~busOpen[w]
        PROVE  abortConnect[b] \/ Queued(w, "connect", b)
    <2>1. b # d /\ b \in Boards
      BY <1>3, <1>5, <1>6 DEF TuiTypes
    <2> QED
      BY <1>3, <1>4, <1>6, <2>1 DEF PortOfWorker
  <1> QED
    BY <1>1, <1>6, QuietStep

(* What a worker thread does to its own port. *)
LEMMA OwnPortKept ==
    ASSUME TuiTypes, Ownership, NEW w \in Workers, WorkerStep(w), PortOfWorker(w)
    PROVE  PortOfWorker(w)'
  <1>a. UNCHANGED <<abortConnect, running>> /\ worker[w] = "run"
    BY WorkerFrame, StepperRuns
  <1>b. \A b \in attached[w] : running /\ connected[b] /\ ~busOpen[w] =>
          abortConnect[b] \/ ConnectAhead(w, b)
    BY DEF PortOfWorker
  <1>c. ASSUME item[w].kind # "connect" \/ pc[w] \in Idle
        PROVE  \A b : ConnectAhead(w, b) => Queued(w, "connect", b)
    BY <1>c DEF ConnectAhead, Idle
  <1>1. CASE PopItem(w)
    BY <1>1, PopKeepsPort
  <1>2. CASE RunDisconnect(w)
    BY <1>2, DisconnectKeepsPort
  <1>3. CASE Publish(w)
    BY <1>3, PublishKeepsPort
  <1>4. CASE SweepStart(w)
    <2>1. /\ pc'[w] = "sweep" /\ UNCHANGED <<connected, attached, workQueue>>
          /\ \A b \in attached[w] : ~connected[b]
      BY <1>4 DEF SweepStart, Goto, flags, TuiTypes, PortOfWorker
    <2> QED
      BY <1>a, <2>1, QuietStep
  <1>5. CASE SweepNext(w)
    <2>1. /\ pc'[w] \in {"verify", "top"} /\ pc[w] \in Idle
          /\ UNCHANGED <<connected, attached, workQueue, busOpen>>
      BY <1>5 DEF SweepNext, Goto, bus, TuiTypes, Idle
    <2> QED
      BY <1>a, <1>b, <1>c, <2>1, QuietStep
  <1>6. CASE LoopTop(w)
    <2>1. /\ pc[w] \in Idle /\ UNCHANGED <<connected, attached, workQueue, busOpen>>
          /\ pc'[w] = "drain" \/ (pc'[w] = "start" /\ worker'[w] = "ended")
      BY <1>6 DEF LoopTop, Goto, flags, TuiTypes, Idle
    <2> QED
      BY <1>a, <1>b, <1>c, <2>1, QuietStep
  <1>7. CASE PollNext(w)
    <2>1. /\ pc[w] = "poll" /\ UNCHANGED <<connected, attached, workQueue, busOpen>>
          /\ pc'[w] \in {"poll", "top"}
      BY <1>7 DEF PollNext, Goto, flags, bus, TuiTypes
    <2> QED
      BY <1>a, <1>b, <1>c, <2>1, QuietStep DEF Idle
  <1>8. CASE RunRemove(w)
    <2>1. /\ pc'[w] = "drain" /\ UNCHANGED <<connected, workQueue, busOpen>>
          /\ attached'[w] \subseteq attached[w] /\ item[w].kind = "remove"
      BY <1>8 DEF RunRemove, Detach, Current, Finish, Goto, flags, TuiTypes
    <2> QED
      BY <1>a, <1>b, <1>c, <2>1, QuietStep
  <1>9. CASE RunWrite(w)
    <2>1. /\ pc'[w] = "drain" /\ UNCHANGED <<attached, workQueue, busOpen>>
          /\ item[w].kind # "connect"
      BY <1>9 DEF RunWrite, Current, Finish, Goto, bus, TuiTypes
    <2>2. \A b \in attached[w] : connected'[b] => connected[b]
      <3>1. connected' = connected \/ connected' = [connected EXCEPT ![item[w].board] = FALSE]
        BY <1>9 DEF RunWrite
      <3> QED
        BY <3>1 DEF TuiTypes
    <2> QED
      BY <1>a, <1>b, <1>c, <2>1, <2>2, QuietStep
  <1>10. CASE RunConnect(w)
    <2>1. /\ pc[w] = "run" /\ pc'[w] = "verify"
          /\ UNCHANGED <<connected, attached, workQueue, item>>
      BY <1>10 DEF RunConnect, Current, Goto, flags, TuiTypes
    <2>2. busOpen[w] => busOpen'[w]
      BY <1>10 DEF RunConnect, TuiTypes
    <2>3. \A b : ConnectAhead(w, b) => Queued(w, "connect", b) \/ ConnectAhead(w, b)'
      BY <2>1 DEF ConnectAhead
    <2> QED
      BY <1>a, <1>b, <2>1, <2>2, <2>3, QuietStep
  <1>11. CASE Verify(w)
    <2>1. pc[w] = "verify" /\ UNCHANGED <<connected, attached, workQueue, busOpen>>
      BY <1>11 DEF Verify, bus
    <2>2. CASE ~running /\ pc'[w] = "drain"
      BY <1>a, <2>1, <2>2, QuietStep
    <2>3. CASE /\ pc'[w] = "scan" \/ pc'[w] = "publish"
               /\ pc'[w] = "scan" \/ ok'[w] => busOpen[w]
               /\ item' = item
      <3>1. \A b : ConnectAhead(w, b) => Queued(w, "connect", b) \/ ConnectAhead(w, b)'
        BY <2>1, <2>3 DEF ConnectAhead
      <3> QED
        BY <1>a, <1>b, <2>1, <2>3, <3>1, QuietStep
    <2> QED
      BY <1>11, <2>2, <2>3, VerifyCases DEF Finish, Goto, TuiTypes
  <1>12. CASE FullScan(w)
    <2>1. /\ pc[w] = "scan" /\ pc'[w] = "publish"
          /\ UNCHANGED <<connected, attached, workQueue, busOpen, item>>
      BY <1>12 DEF FullScan, Goto, flags, bus, TuiTypes
    <2>2. busOpen[w]
      BY <2>1 DEF PortOfWorker
    <2> QED
      BY <1>a, <2>1, <2>2, QuietStep
  <1>13. CASE Message(w)
    <2>1. /\ pc[w] = "message" /\ pc'[w] \in {"sweep", "drain"}
          /\ UNCHANGED <<connected, attached, workQueue, busOpen>>
      BY <1>13 DEF Message, Goto, bus, TuiTypes
    <2>2. \A b : ConnectAhead(w, b) => Queued(w, "connect", b)
      BY <2>1 DEF ConnectAhead
    <2> QED
      BY <1>a, <1>b, <2>1, <2>2, QuietStep
  <1> QED
    BY <1>1, <1>2, <1>3, <1>4, <1>5, <1>6, <1>7, <1>8, <1>9, <1>10, <1>11, <1>12, <1>13
    DEF WorkerStep

(* And it leaves the others' as they are. *)
LEMMA WorkerKeepsPort ==
    ASSUME TuiTypes, Ownership, PortInv, NEW w \in Workers, WorkerStep(w)
    PROVE  PortInv'
  <1>1. /\ QuitIsSeen
        /\ \A b \in Boards : session[b] = "absent" => ~connected[b]
        /\ \A v \in Workers : PortOfWorker(v)
    BY PortByWorker
  <1>2. /\ UNCHANGED <<session, abortConnect, ui, running>>
        /\ \A v \in Workers : v # w =>
             /\ pc'[v] = pc[v] /\ item'[v] = item[v] /\ ok'[v] = ok[v]
             /\ workQueue'[v] = workQueue[v] /\ attached'[v] = attached[v]
             /\ busOpen'[v] = busOpen[v] /\ worker'[v] = worker[v]
    BY WorkerFrame
  <1>3. \A b \in Boards : session[b] = "absent" => ~connected'[b]
    BY <1>1, WorkerConnects DEF Belongs
  <1>4. \A v \in Workers : v # w => \A b \in attached[v] : connected'[b] = connected[b]
    <2>1. \A v \in Workers : \A b \in attached[v] : b \in Boards /\ workerOf[b] = v
      BY DEF Ownership, AttachedIsLive, Belongs, TuiTypes
    <2> QED
      BY <2>1, WorkerConnects DEF Belongs
  <1>5. \A v \in Workers : v # w => PortOfWorker(v)'
    <2> SUFFICES ASSUME NEW v \in Workers, v # w PROVE PortOfWorker(v)'
      OBVIOUS
    <2>1. \A b : (Queued(v, "connect", b)' <=> Queued(v, "connect", b))
                 /\ (ConnectAhead(v, b)' <=> ConnectAhead(v, b))
      BY <1>2 DEF Queued, ConnectAhead
    <2> QED
      BY <1>1, <1>2, <1>4, <2>1 DEF PortOfWorker
  <1>6. PortOfWorker(w)'
    BY <1>1, OwnPortKept
  <1>7. QuitIsSeen'
    BY <1>1, <1>2 DEF QuitIsSeen
  <1>8. (/\ QuitIsSeen
         /\ \A b \in Boards : session[b] = "absent" => ~connected[b]
         /\ \A v \in Workers : PortOfWorker(v))'
    BY <1>2, <1>3, <1>5, <1>6, <1>7
  <1>9. PolledPortIsOpen'
    BY <1>8 DEF PolledPortIsOpen, PortOfWorker, Present
  <1> QED
    BY <1>8, <1>9
    DEF PortInv, NotYetConnected, AnsweredIsOpen, DisconnectIsWanted, ClosedIsExplained, PortOfWorker

(***************************************************************************)
(* Layer 4: which port a worker has                                        *)
(***************************************************************************)
(* A session whose port field a worker may open is one of its own. *)
LEMMA UsingBelongs ==
    ASSUME TuiTypes, Ownership, NEW w \in Workers, NEW b \in Boards, Using(w, b)
    PROVE  workerOf[b] = w /\ session[b] # "absent"
  BY DEF Using, Ownership, ItemsBelong, Belongs, Busy

(* A removal taken off the list leaves the other removals on it. *)
LEMMA OthersStay ==
    ASSUME TuiTypes, NEW i \in 1 .. Len(pending), pending' = RemoveAt(pending, i),
           NEW k \in 1 .. Len(pending), k # i
    PROVE  \E j \in 1 .. Len(pending') : pending'[j] = pending[k]
  <1>1. /\ pending \in Seq(PendingRemoval) /\ pending' \in Seq(PendingRemoval)
        /\ Len(pending) \in Nat /\ Len(pending') = Len(pending) - 1
        /\ \A j \in 1 .. Len(pending) - 1 :
              pending'[j] = IF j < i THEN pending[j] ELSE pending[j + 1]
    <2>1. pending \in Seq(PendingRemoval)
      BY DEF TuiTypes
    <2>2. /\ RemoveAt(pending, i) \in Seq(PendingRemoval)
          /\ Len(RemoveAt(pending, i)) = Len(pending) - 1
          /\ \A j \in 1 .. Len(pending) - 1 :
                RemoveAt(pending, i)[j] = IF j < i THEN pending[j] ELSE pending[j + 1]
      BY <2>1, RemoveAtElements
    <2> QED
      BY <2>1, <2>2
  <1>2. CASE k < i
    <2>1. k \in 1 .. Len(pending) - 1
      BY <1>1, <1>2
    <2> QED
      BY <1>1, <1>2, <2>1
  <1>3. CASE ~(k < i)
    <2>1. /\ k - 1 \in 1 .. Len(pending) - 1
          /\ ~(k - 1 < i)
          /\ (k - 1) + 1 = k
      BY <1>1, <1>3
    <2>2. pending'[k - 1] = pending[k]
      BY <1>1, <2>1
    <2> QED
      BY <1>1, <2>1, <2>2
  <1> QED
    BY <1>2, <1>3

(* Steps that create, destroy and detach nothing. *)
LEMMA KeptQuiet ==
    ASSUME TuiTypes, Kept,
           UNCHANGED <<session, workerOf, attached, front>>,
           \A w \in Workers : worker'[w] # "none" <=> worker[w] # "none",
           \A w \in Workers : worker'[w] = "run" /\ pc'[w] = "start" =>
              worker[w] = "run" /\ pc[w] = "start",
           \A i \in 1 .. Len(pending) : i \in 1 .. Len(pending') /\ pending'[i] = pending[i],
           ui'.at = "join" => ui' = ui /\ pending' = pending
    PROVE  Kept'
  <1>1. LiveIsKept'
    BY DEF Kept, LiveIsKept, BeingRemoved
  <1>2. JoinedIsFreed'
    BY DEF Kept, JoinedIsFreed
  <1>3. EmptiedIsPending'
    BY DEF Kept, EmptiedIsPending, LosesBoard, Present
  <1>4. (FrontIsAttached /\ StartHasBoards)'
    BY DEF Kept, FrontIsAttached, StartHasBoards
  <1> QED
    BY <1>1, <1>2, <1>3, <1>4 DEF Kept

(* Steps that open no port, edit no port field and put no new session to use. *)
LEMMA ApartQuiet ==
    ASSUME TuiTypes, Apart,
           UNCHANGED <<portVal, strayed, busPort>>,
           front' \in [Workers -> Boards \cup {None}],
           \A b \in Boards : session'[b] = "absent" => session[b] = "absent",
           \A w \in Workers : worker'[w] # "none" <=> worker[w] # "none",
           \A w \in Workers : attached'[w] \subseteq attached[w],
           \A w \in Workers : busOpen'[w] => busOpen[w],
           \A w \in Workers, b \in Boards : Using(w, b)' => Using(w, b)
    PROVE  Apart'
  <1>1. FieldTypes' /\ FieldOfAbsent'
    BY DEF Apart, FieldTypes, FieldOfAbsent
  <1>2. AbsentIsUnused'
    BY DEF Apart, AbsentIsUnused, Present
  <1>3. (FieldsAgree /\ OpenOnField /\ PortsDiffer)'
    BY DEF Apart, FieldsAgree, OpenOnField, PortsDiffer
  <1> QED
    BY <1>1, <1>2, <1>3 DEF Apart

(* An item for a live board puts no new session to use. *)
LEMMA EnqueueApart ==
    ASSUME TuiTypes, Ownership, Kept, Apart,
           NEW b \in Boards, session[b] = "live", NEW kind \in Kinds,
           Enqueue(workerOf[b], kind, b) \/ workQueue' = workQueue,
           UNCHANGED <<session, fields, bus, thread>>
    PROVE  Apart'
  <1>1. workerOf[b] \in Workers
    BY DEF Ownership, LiveHasWorker
  <1>2. /\ UNCHANGED <<session, portVal, strayed, busPort, front, workerOf, worker>>
        /\ UNCHANGED <<attached, busOpen, pc, item>>
    BY DEF bus, thread, fields
  <1>3. ASSUME NEW w \in Workers, NEW c \in Boards, Using(w, c)'
        PROVE  Using(w, c)
    <2>1. CASE workQueue' = workQueue
      BY <1>2, <1>3, <2>1 DEF Using
    <2>2. CASE Enqueue(workerOf[b], kind, b)
      <3>1. /\ \A v \in Workers : v # workerOf[b] => workQueue'[v] = workQueue[v]
            /\ Len(workQueue[workerOf[b]]) \in Nat
            /\ Len(workQueue'[workerOf[b]]) = Len(workQueue[workerOf[b]]) + 1
            /\ \A k \in 1 .. Len(workQueue[workerOf[b]]) :
                  workQueue'[workerOf[b]][k] = workQueue[workerOf[b]][k]
            /\ workQueue'[workerOf[b]][Len(workQueue[workerOf[b]]) + 1]
                  = [kind |-> kind, board |-> b]
        BY <1>1, <2>2, Enqueued
      <3>2. CASE session[c] = "live" /\ workerOf[c] = w
        BY <3>2 DEF Using
      <3>3. CASE pc[w] = "run" /\ item[w].board = c
        BY <3>3 DEF Using
      <3>4. CASE \E k \in 1 .. Len(workQueue'[w]) : workQueue'[w][k].board = c
        <4>1. PICK k \in 1 .. Len(workQueue'[w]) : workQueue'[w][k].board = c
          BY <3>4
        <4>2. CASE w # workerOf[b]
          BY <3>1, <4>1, <4>2 DEF Using
        <4>3. CASE w = workerOf[b] /\ k \in 1 .. Len(workQueue[w])
          BY <3>1, <4>1, <4>3 DEF Using
        <4>4. CASE w = workerOf[b] /\ k = Len(workQueue[w]) + 1
          BY <3>1, <4>1, <4>4 DEF Using
        <4> QED
          BY <3>1, <4>1, <4>2, <4>3, <4>4
      <3> QED
        BY <1>2, <1>3, <3>2, <3>3, <3>4 DEF Using
    <2> QED
      BY <2>1, <2>2
  <1>4. front' \in [Workers -> Boards \cup {None}]
    BY <1>2 DEF Apart, FieldTypes
  <1> QED
    BY <1>2, <1>3, <1>4, ApartQuiet

(* ... nor does it end or start anything. *)
LEMMA EnqueueKept ==
    ASSUME TuiTypes, Kept, UNCHANGED <<session, bus, thread>>, ui'.at # "join",
           \A i \in 1 .. Len(pending) : i \in 1 .. Len(pending') /\ pending'[i] = pending[i]
    PROVE  Kept'
  BY KeptQuiet DEF bus, thread

(* What opening a port, or failing to, leaves behind. *)
LEMMA OpenedBus ==
    ASSUME TuiTypes, FieldTypes, NEW w \in Workers, NEW p \in Ports \cup {NoPort}, OpenBus(w, p)
    PROVE  /\ \A v \in Workers : v # w => busOpen'[v] = busOpen[v] /\ busPort'[v] = busPort[v]
           /\ busPort' \in [Workers -> Ports \cup {None}]
           /\ busOpen'[w] => busPort'[w] = p
  <1>1. PICK opened \in IF p = NoPort THEN {FALSE} ELSE BOOLEAN :
          /\ busOpen' = [busOpen EXCEPT ![w] = opened]
          /\ busPort' = [busPort EXCEPT ![w] = IF opened THEN p ELSE @]
    BY DEF OpenBus
  <1>2. busOpen \in [Workers -> BOOLEAN] /\ busPort \in [Workers -> Ports \cup {None}]
    BY DEF TuiTypes, FieldTypes
  <1>3. CASE opened = TRUE
    <2>1. p \in Ports
      BY <1>1, <1>3
    <2>2. busOpen' = [busOpen EXCEPT ![w] = TRUE] /\ busPort' = [busPort EXCEPT ![w] = p]
      BY <1>1, <1>3
    <2> QED
      BY <1>2, <2>1, <2>2
  <1>4. CASE opened = FALSE
    <2>1. /\ busOpen' = [busOpen EXCEPT ![w] = FALSE]
          /\ busPort' = [busPort EXCEPT ![w] = busPort[w]]
      BY <1>1, <1>4
    <2> QED
      BY <1>2, <2>1
  <1> QED
    BY <1>1, <1>3, <1>4

(* The user edits a port field: the worker of that session strays. *)
LEMMA SelectApart ==
    ASSUME TuiTypes, Ownership, Apart,
           NEW b \in Boards, NEW p \in Ports \cup {NoPort}, SelectPort(b, p)
    PROVE  Apart'
  <1>1. /\ session[b] = "live" /\ workerOf[b] \in Workers
        /\ portVal' = [portVal EXCEPT ![b] = p] /\ strayed' = strayed \cup {workerOf[b]}
        /\ UNCHANGED <<session, workerOf, worker, attached, front, busPort, busOpen, pc, item,
                       workQueue>>
    BY DEF SelectPort, bus, thread, Ownership, LiveHasWorker
  <1>2. /\ FieldTypes'
        /\ \A c \in Boards : c # b => portVal'[c] = portVal[c]
    BY <1>1 DEF Apart, FieldTypes
  <1>3. \A w \in Workers, c \in Boards : Using(w, c)' <=> Using(w, c)
    BY <1>1 DEF Using
  <1>4. \A w \in Workers \ strayed' : \A c \in Boards :
          Using(w, c) => c # b
    BY <1>1, UsingBelongs
  <1>5. \A w \in Workers : \A c \in attached[w] : c \in Boards /\ workerOf[c] = w
    BY DEF Ownership, AttachedIsLive, Belongs, TuiTypes
  <1>6. FieldOfAbsent' /\ AbsentIsUnused'
    BY <1>1, <1>2, <1>3 DEF Apart, FieldOfAbsent, AbsentIsUnused, Present
  <1>7. FieldsAgree' /\ OpenOnField'
    BY <1>1, <1>2, <1>3, <1>4 DEF Apart, FieldsAgree, OpenOnField
  <1>8. PortsDiffer'
    BY <1>1, <1>2, <1>5 DEF Apart, PortsDiffer
  <1> QED
    BY <1>2, <1>6, <1>7, <1>8 DEF Apart

(* A board of the edited topology comes with the port field of the bus it is put
   on: the one of the worker that has it, or else one that no worker has. *)
LEMMA AttachApart ==
    ASSUME TuiTypes, Ownership, Kept, Apart, NEW b \in Boards, applyNewBoardsLive(b)
    PROVE  Kept' /\ Apart'
  <1>1. PICK w \in Workers :
          /\ AttachTo(w, b)
          /\ \/ w \in ExistingBw(PortOf[b]) /\ UNCHANGED <<worker, busPort, busOpen, pc>>
             \/ /\ w \notin Present /\ ExistingBw(PortOf[b]) = {}
                /\ worker' = [worker EXCEPT ![w] = "run"]
                /\ OpenBus(w, PortOf[b])
                /\ pc' = [pc EXCEPT ![w] = "top"]
    <2>1. \A w \in ExistingBw(PortOf[b]) : w \in Workers
      BY DEF ExistingBw, Present
    <2> QED
      BY <2>1 DEF applyNewBoardsLive
  <1>2. /\ session[b] = "absent" /\ ui' = ui /\ ui.at = "loop"
        /\ UNCHANGED <<portVal, strayed, item, pending>>
    BY DEF applyNewBoardsLive, Click, fields
  <1>3. /\ session' = [session EXCEPT ![b] = "live"]
        /\ workerOf' = [workerOf EXCEPT ![b] = w]
        /\ attached' = [attached EXCEPT ![w] = @ \cup {b}]
        /\ front' = [front EXCEPT ![w] = IF attached[w] = {} THEN b ELSE @]
        /\ Enqueue(w, "attach", b)
    BY <1>1 DEF AttachTo
  <1>4. /\ session'[b] = "live" /\ workerOf'[b] = w
        /\ \A c \in Boards : c # b => session'[c] = session[c] /\ workerOf'[c] = workerOf[c]
        /\ attached'[w] = attached[w] \cup {b}
        /\ \A v \in Workers : v # w => attached'[v] = attached[v] /\ front'[v] = front[v]
        /\ front'[w] = IF attached[w] = {} THEN b ELSE front[w]
        /\ front' \in [Workers -> Boards \cup {None}]
    BY <1>3 DEF TuiTypes, Apart, FieldTypes
  <1>5. \A v \in Workers : \A c \in attached[v] :
          /\ c \in Boards /\ c # b /\ workerOf[c] = v /\ session[c] = "live"
          /\ v \in Present /\ Using(v, c)
    BY <1>2 DEF Ownership, AttachedIsLive, Belongs, TuiTypes, Present, Using
  <1>6. \A v \in Workers : worker'[v] = worker[v] \/ (v = w /\ w \notin Present /\ worker'[w] = "run")
    BY <1>1 DEF TuiTypes
  <1>7. worker'[w] # "none" /\ (worker'[w] = "run" /\ pc'[w] = "start" =>
                                   worker[w] = "run" /\ pc[w] = "start")
    BY <1>1 DEF ExistingBw, Present, TuiTypes
  <1>8. \A v \in Workers : v # w => pc'[v] = pc[v]
    BY <1>1 DEF TuiTypes
  <1>9. Kept'
    <2>1. LiveIsKept'
      <3> SUFFICES ASSUME NEW c \in Boards, session'[c] = "live"
                   PROVE  c \in attached'[workerOf'[c]] \/ BeingRemoved(c)'
        BY DEF LiveIsKept
      <3>1. CASE c = b
        BY <1>4, <3>1
      <3>2. CASE c # b
        <4>1. session[c] = "live" /\ workerOf'[c] = workerOf[c] /\ workerOf[c] \in Workers
          BY <1>4, <3>2 DEF Ownership, LiveHasWorker
        <4>2. attached[workerOf[c]] \subseteq attached'[workerOf[c]]
          BY <1>4, <4>1
        <4> QED
          BY <1>2, <4>1, <4>2 DEF Kept, LiveIsKept, BeingRemoved
      <3> QED
        BY <3>1, <3>2
    <2>2. JoinedIsFreed'
      BY <1>2 DEF JoinedIsFreed
    <2>3. EmptiedIsPending'
      BY <1>2, <1>4, <1>6 DEF Kept, EmptiedIsPending, LosesBoard, Present
    <2>4. FrontIsAttached'
      BY <1>4 DEF Kept, FrontIsAttached
    <2>5. StartHasBoards'
      BY <1>4, <1>6, <1>8 DEF Kept, StartHasBoards
    <2> QED
      BY <2>1, <2>2, <2>3, <2>4, <2>5 DEF Kept
  <1>10. \A v \in Workers, c \in Boards : Using(v, c)' => Using(v, c) \/ (v = w /\ c = b)
    <2> SUFFICES ASSUME NEW v \in Workers, NEW c \in Boards, Using(v, c)'
                 PROVE  Using(v, c) \/ (v = w /\ c = b)
      OBVIOUS
    <2>1. "attach" \in Kinds
      BY DEF Kinds
    <2>2. Grown(w, [kind |-> "attach", board |-> b])
      BY <1>3, <2>1, EnqueueGrows
    <2>3. CASE session'[c] = "live" /\ workerOf'[c] = v
      BY <1>4, <2>3 DEF Using
    <2>4. CASE \E k \in 1 .. Len(workQueue'[v]) : workQueue'[v][k].board = c
      BY <2>2, <2>4 DEF Grown, Using
    <2>5. CASE pc'[v] = "run" /\ item'[v].board = c
      <3>1. pc[v] = "run"
        BY <1>1, <2>5 DEF TuiTypes
      <3> QED
        BY <1>2, <2>5, <3>1 DEF Using
    <2> QED
      BY <2>3, <2>4, <2>5 DEF Using
  <1>11. portVal[b] = PortOf[b]
    BY <1>2 DEF Apart, FieldOfAbsent
  <1>12. \A v \in Workers \ Present' : v # w /\ v \notin Present
    BY <1>6, <1>7 DEF Present
  <1>13. /\ \A v \in Workers : v # w => busOpen'[v] = busOpen[v] /\ busPort'[v] = busPort[v]
         /\ busPort' \in [Workers -> Ports \cup {None}]
         /\ OpenBus(w, PortOf[b]) => (busOpen'[w] => busPort'[w] = PortOf[b])
    <2>1. PortOf[b] \in Ports \cup {NoPort}
      BY TuiAssumption
    <2> QED
      BY <1>1, <2>1, OpenedBus DEF Apart, FieldTypes
  <1>14. FieldTypes' /\ FieldOfAbsent'
    BY <1>2, <1>4, <1>13 DEF Apart, FieldTypes, FieldOfAbsent
  <1>15. AbsentIsUnused'
    BY <1>10, <1>12, <1>13 DEF Apart, AbsentIsUnused
  <1>16. CASE w \in ExistingBw(PortOf[b]) /\ UNCHANGED <<busPort, busOpen>>
    <2>1. front[w] \in attached[w] /\ portVal[front[w]] = portVal[b]
      BY <1>11, <1>16 DEF ExistingBw, Kept, FrontIsAttached
    <2>2. front[w] \in Boards /\ Using(w, front[w])
      BY <1>5, <2>1
    <2>3. w \notin strayed => \A c \in Boards : Using(w, c)' => portVal[c] = portVal[b]
      BY <1>10, <2>1, <2>2 DEF Apart, FieldsAgree
    <2>4. FieldsAgree'
      BY <1>2, <1>10, <2>3 DEF Apart, FieldsAgree
    <2>5. OpenOnField'
      BY <1>2, <1>10, <1>16, <2>1, <2>2 DEF Apart, OpenOnField
    <2>6. \A v \in Workers \ strayed : v # w /\ w \notin strayed =>
            \A c \in attached[v] : portVal[c] # portVal[b]
      BY <2>1 DEF Apart, PortsDiffer
    <2>7. PortsDiffer'
      BY <1>2, <1>4, <2>6 DEF Apart, PortsDiffer
    <2> QED
      BY <1>9, <1>14, <1>15, <2>4, <2>5, <2>7 DEF Apart
  <1>17. CASE w \notin Present /\ ExistingBw(PortOf[b]) = {} /\ OpenBus(w, PortOf[b])
    <2>1. (\A c \in Boards : ~Using(w, c)) /\ attached[w] = {}
      BY <1>5, <1>17 DEF Apart, AbsentIsUnused
    <2>2. busOpen'[w] => busPort'[w] = portVal[b]
      BY <1>11, <1>13, <1>17
    <2>3. FieldsAgree'
      BY <1>2, <1>10, <2>1 DEF Apart, FieldsAgree
    <2>4. OpenOnField'
      BY <1>2, <1>10, <1>13, <2>1, <2>2 DEF Apart, OpenOnField
    <2>5. \A v \in Workers \ strayed : \A c \in attached[v] : portVal[c] # portVal[b]
      <3> SUFFICES ASSUME NEW v \in Workers \ strayed, NEW c \in attached[v]
                   PROVE  portVal[c] # portVal[b]
        OBVIOUS
      <3>1. v \in Present /\ front[v] \in attached[v]
        BY <1>5 DEF Kept, FrontIsAttached
      <3>2. portVal[front[v]] # PortOf[b]
        BY <1>17, <3>1 DEF ExistingBw
      <3>3. /\ c \in Boards /\ front[v] \in Boards
            /\ Using(v, c) /\ Using(v, front[v])
        BY <1>5, <3>1
      <3>4. portVal[c] = portVal[front[v]]
        BY <3>3 DEF Apart, FieldsAgree
      <3> QED
        BY <1>11, <3>2, <3>4
    <2>6. PortsDiffer'
      BY <1>2, <1>4, <2>1, <2>5 DEF Apart, PortsDiffer
    <2> QED
      BY <1>9, <1>14, <1>15, <2>3, <2>4, <2>6 DEF Apart
  <1> QED
    BY <1>1, <1>16, <1>17

(* What the user does. *)
LEMMA UserKeepsApart ==
    ASSUME TuiTypes, Ownership, Kept, Apart, UserStep
    PROVE  Kept' /\ Apart'
  <1>1. ASSUME NEW b \in Boards, NEW p \in Ports \cup {NoPort}, SelectPort(b, p)
        PROVE  Kept' /\ Apart'
    <2>1. Kept'
      BY <1>1, KeptQuiet DEF SelectPort, Click, bus, thread
    <2> QED
      BY <1>1, <2>1, SelectApart
  <1>2. ASSUME NEW b \in Boards, doConnect(b) PROVE Kept' /\ Apart'
    BY <1>2, EnqueueApart, EnqueueKept DEF doConnect, Click, Kinds
  <1>3. ASSUME NEW b \in Boards, doDisconnect(b) PROVE Kept' /\ Apart'
    <2>1. /\ session[b] = "live" /\ ui' = ui /\ ui.at = "loop" /\ pending' = pending
          /\ Enqueue(workerOf[b], "disconnect", b) \/ workQueue' = workQueue
          /\ UNCHANGED <<session, fields, bus, thread>>
      BY <1>3 DEF doDisconnect, Click
    <2> QED
      BY <2>1, EnqueueApart, EnqueueKept DEF Kinds
  <1>4. ASSUME NEW b \in Boards, NEW kind \in {"write", "reset"}, postWrite(b, kind)
        PROVE  Kept' /\ Apart'
    BY <1>4, EnqueueApart, EnqueueKept DEF postWrite, Click, Kinds
  <1>5. ASSUME NEW b \in Boards, removeBoardLive(b) PROVE Kept' /\ Apart'
    <2> DEFINE e == [board |-> b, worker |-> workerOf[b], done |-> FALSE]
    <2>1. /\ pending \in Seq(PendingRemoval) /\ pending' = Append(pending, e)
          /\ ui'.at # "join"
      BY <1>5 DEF removeBoardLive, Click, TuiTypes
    <2> HIDE DEF e
    <2>2. \A i \in 1 .. Len(pending) : i \in 1 .. Len(pending') /\ pending'[i] = pending[i]
      BY <2>1
    <2>3. Kept'
      BY <1>5, <2>1, <2>2, EnqueueKept DEF removeBoardLive
    <2>4. Apart'
      BY <1>5, EnqueueApart DEF removeBoardLive, Kinds
    <2> QED
      BY <2>3, <2>4
  <1>6. ASSUME NEW b \in Boards, applyNewBoardsLive(b) PROVE Kept' /\ Apart'
    BY <1>6, AttachApart
  <1>7. CASE Quit
    <2>1. /\ UNCHANGED <<session, workerOf, attached, front, worker, pc, pending>>
          /\ UNCHANGED <<portVal, strayed, busPort, busOpen, item, workQueue>>
          /\ ui'.at # "join"
      BY <1>7 DEF Quit, bus, thread, fields
    <2>2. Kept'
      BY <2>1, KeptQuiet
    <2>3. Apart'
      BY <2>1, ApartQuiet DEF Apart, FieldTypes, Using
    <2> QED
      BY <2>2, <2>3
  <1> QED
    BY <1>1, <1>2, <1>3, <1>4, <1>5, <1>6, <1>7 DEF UserStep

(* What a frame of the user interface does. *)
LEMMA FrameKeepsApart ==
    ASSUME TuiTypes, Ownership, Kept, Apart, FrameStep
    PROVE  Kept' /\ Apart'
  <1>1. CASE drainPendingRemovals \/ DrainSkip
    <2>1. /\ UNCHANGED <<session, workerOf, attached, front, worker, pc, pending>>
          /\ UNCHANGED <<portVal, strayed, busPort, busOpen, item, workQueue>>
          /\ ui'.at # "join"
      BY <1>1, UiFields DEF drainPendingRemovals, DrainSkip, bus, thread, fields, TuiTypes
    <2>2. Kept'
      BY <2>1, KeptQuiet
    <2>3. Apart'
      BY <2>1, ApartQuiet DEF Apart, FieldTypes, Using
    <2> QED
      BY <2>2, <2>3
  <1>2. CASE DrainEntry
    <2> DEFINE p == pending[ui.i]
    <2>1. /\ ui.i \in 1 .. Len(pending) /\ p \in PendingRemoval
          /\ p.board \in Boards /\ p.worker \in Workers /\ p.done
      BY <1>2, UiFields, ElementTypes DEF DrainEntry, TuiTypes
    <2>2. /\ session' = [session EXCEPT ![p.board] = "freed"]
          /\ UNCHANGED <<portVal, strayed, workerOf, worker, attached, front, busPort, busOpen>>
          /\ UNCHANGED <<workQueue, pc, item>>
      BY <1>2 DEF DrainEntry, thread, fields
    <2>3. /\ session'[p.board] = "freed"
          /\ \A c \in Boards : c # p.board => session'[c] = session[c]
      BY <2>1, <2>2 DEF TuiTypes
    <2>4. Apart'
      <3>1. \A w \in Workers, c \in Boards : Using(w, c)' => Using(w, c)
        BY <2>2, <2>3 DEF Using
      <3> QED
        BY <2>2, <2>3, <3>1, ApartQuiet DEF Apart, FieldTypes
    <2>5. (FrontIsAttached /\ StartHasBoards)'
      BY <2>2 DEF Kept, FrontIsAttached, StartHasBoards
    <2>6. CASE pending' = pending /\ ui' = [at |-> "join", i |-> ui.i, worker |-> p.worker]
      <3>1. LiveIsKept'
        BY <2>2, <2>3, <2>6 DEF Kept, LiveIsKept, BeingRemoved
      <3>2. JoinedIsFreed'
        BY <2>3, <2>6 DEF JoinedIsFreed
      <3>3. EmptiedIsPending'
        BY <2>2, <2>6 DEF Kept, EmptiedIsPending, LosesBoard, Present
      <3> QED
        BY <2>4, <2>5, <3>1, <3>2, <3>3 DEF Kept
    <2>7. CASE /\ attached[p.worker] # {} \/ busHasOtherPendingRemoval(ui.i)
               /\ pending' = RemoveAt(pending, ui.i) /\ ui' = ui
      <3>1. \A k \in 1 .. Len(pending) : k # ui.i =>
              \E j \in 1 .. Len(pending') : pending'[j] = pending[k]
        BY <2>1, <2>7, OthersStay
      <3>2. LiveIsKept'
        <4> SUFFICES ASSUME NEW c \in Boards, session'[c] = "live"
                     PROVE  c \in attached'[workerOf'[c]] \/ BeingRemoved(c)'
          BY DEF LiveIsKept
        <4>1. c # p.board /\ session[c] = "live"
          BY <2>3
        <4>2. c \in attached[workerOf[c]] \/ \E k \in 1 .. Len(pending) : pending[k].board = c
          BY <4>1 DEF Kept, LiveIsKept, BeingRemoved
        <4> QED
          BY <2>2, <3>1, <4>1, <4>2 DEF BeingRemoved
      <3>3. JoinedIsFreed'
        BY <1>2, <2>7 DEF DrainEntry, JoinedIsFreed
      <3>4. EmptiedIsPending'
        <4> SUFFICES ASSUME NEW w \in Present, attached[w] = {} PROVE LosesBoard(w)'
          BY <2>2 DEF EmptiedIsPending, Present
        <4>1. PICK k \in 1 .. Len(pending) : pending[k].worker = w
          BY DEF Kept, EmptiedIsPending, LosesBoard
        <4>2. CASE k # ui.i
          BY <3>1, <4>1, <4>2 DEF LosesBoard
        <4>3. CASE k = ui.i
          <5>1. PICK j \in 1 .. Len(pending) : j # ui.i /\ pending[j].worker = p.worker
            BY <2>7, <4>1, <4>3, ElementTypes DEF busHasOtherPendingRemoval
          <5> QED
            BY <3>1, <4>1, <4>3, <5>1 DEF LosesBoard
        <4> QED
          BY <4>2, <4>3
      <3> QED
        BY <2>4, <2>5, <3>2, <3>3, <3>4 DEF Kept
    <2> QED
      BY <1>2, <2>6, <2>7 DEF DrainEntry
  <1>3. CASE DrainJoined
    <2>0. PICK w \in Workers : w = ui.worker
      BY <1>3, UiFields DEF DrainJoined, TuiTypes
    <2>1. /\ ui.i \in 1 .. Len(pending) /\ attached[w] = {}
          /\ pending[ui.i].worker = w /\ session[pending[ui.i].board] = "freed"
          /\ \A j \in 1 .. Len(pending) : j # ui.i => pending[j].worker # w
          /\ worker[w] = "ended" /\ pc[w] = "start"
      BY <1>3, <2>0
      DEF DrainJoined, TuiTypes, ThreadEnded, Ownership, JoinedIsEmpty, Kept, JoinedIsFreed
    <2>2. /\ worker' = [worker EXCEPT ![w] = "none"] /\ strayed' = strayed \ {w}
          /\ busPort' = [busPort EXCEPT ![w] = None]
          /\ busOpen' = [busOpen EXCEPT ![w] = FALSE]
          /\ workQueue' = [workQueue EXCEPT ![w] = <<>>]
          /\ pending' = RemoveAt(pending, ui.i) /\ ui'.at = "drain"
          /\ UNCHANGED <<session, portVal, workerOf, attached, front, pc, item>>
      BY <1>3, <2>0 DEF DrainJoined, thread
    <2>3. /\ worker'[w] = "none" /\ ~busOpen'[w] /\ workQueue'[w] = <<>>
          /\ \A v \in Workers : v # w =>
               /\ worker'[v] = worker[v] /\ busOpen'[v] = busOpen[v]
               /\ busPort'[v] = busPort[v] /\ workQueue'[v] = workQueue[v]
      BY <2>1, <2>2 DEF TuiTypes, Apart, FieldTypes
    <2>4. \A k \in 1 .. Len(pending) : k # ui.i =>
            \E j \in 1 .. Len(pending') : pending'[j] = pending[k]
      BY <2>1, <2>2, OthersStay
    <2>5. Kept'
      <3>1. LiveIsKept'
        <4> SUFFICES ASSUME NEW c \in Boards, session[c] = "live"
                     PROVE  c \in attached[workerOf[c]] \/ BeingRemoved(c)'
          BY <2>2 DEF LiveIsKept
        <4>1. c \in attached[workerOf[c]]
              \/ \E k \in 1 .. Len(pending) : pending[k].board = c /\ k # ui.i
          BY <2>1 DEF Kept, LiveIsKept, BeingRemoved
        <4> QED
          BY <2>4, <4>1 DEF BeingRemoved
      <3>2. JoinedIsFreed'
        BY <2>2 DEF JoinedIsFreed
      <3>3. EmptiedIsPending'
        <4> SUFFICES ASSUME NEW v \in Present', attached[v] = {} PROVE LosesBoard(v)'
          BY <2>2 DEF EmptiedIsPending
        <4>1. v \in Workers /\ v # w /\ v \in Present
          BY <2>3 DEF Present
        <4>2. PICK k \in 1 .. Len(pending) : pending[k].worker = v
          BY <4>1 DEF Kept, EmptiedIsPending, LosesBoard
        <4> QED
          BY <2>1, <2>4, <4>1, <4>2 DEF LosesBoard
      <3>4. (FrontIsAttached /\ StartHasBoards)'
        BY <2>1, <2>2, <2>3 DEF Kept, FrontIsAttached, StartHasBoards
      <3> QED
        BY <3>1, <3>2, <3>3, <3>4 DEF Kept
    <2>6. \A c \in Boards : ~Using(w, c)'
      <3> SUFFICES ASSUME NEW c \in Boards, Using(w, c)' PROVE FALSE
        OBVIOUS
      <3>1. session[c] = "live" /\ workerOf[c] = w
        <4>1. Len(workQueue'[w]) = 0
          BY <2>3
        <4>2. pc'[w] = "start"
          BY <2>1, <2>2
        <4> QED
          BY <2>2, <4>1, <4>2 DEF Using
      <3>2. PICK k \in 1 .. Len(pending) : pending[k].board = c
        BY <2>1, <3>1 DEF Kept, LiveIsKept, BeingRemoved
      <3>3. pending[k].worker = w
        BY <3>1, <3>2 DEF Ownership, PendingBelongs, Belongs
      <3> QED
        BY <2>1, <3>1, <3>2, <3>3
    <2>7. \A v \in Workers, c \in Boards : v # w => (Using(v, c)' <=> Using(v, c))
      BY <2>2, <2>3 DEF Using
    <2>8. FieldTypes' /\ FieldOfAbsent'
      BY <2>2 DEF Apart, FieldTypes, FieldOfAbsent
    <2>9. AbsentIsUnused'
      BY <2>3, <2>6, <2>7 DEF Apart, AbsentIsUnused, Present
    <2>10. (FieldsAgree /\ OpenOnField)'
      BY <2>2, <2>3, <2>6, <2>7 DEF Apart, FieldsAgree, OpenOnField
    <2>11. PortsDiffer'
      BY <2>1, <2>2 DEF Apart, PortsDiffer
    <2> QED
      BY <2>5, <2>8, <2>9, <2>10, <2>11 DEF Apart
  <1>4. CASE joinRuntime
    <2>1. /\ UNCHANGED <<session, workerOf, attached, front, worker, pc, pending>>
          /\ UNCHANGED <<portVal, strayed, busPort, item, workQueue>>
          /\ ui'.at # "join" /\ \A w \in Workers : ~busOpen'[w]
      BY <1>4 DEF joinRuntime, thread, fields
    <2>2. Kept'
      BY <2>1, KeptQuiet
    <2>3. Apart'
      BY <2>1, ApartQuiet DEF Apart, FieldTypes, Using
    <2> QED
      BY <2>2, <2>3
  <1> QED
    BY <1>1, <1>2, <1>3, <1>4 DEF FrameStep

(* A worker that opens its port does so on the field of a session it uses. *)
LEMMA OpenKeepsApart ==
    ASSUME TuiTypes, Apart, NEW w \in Workers, NEW b \in Boards, Using(w, b),
           OpenBus(w, portVal[b]),
           UNCHANGED <<session, portVal, strayed, workerOf, worker, attached, front>>,
           UNCHANGED <<workQueue, item>>,
           \A v \in Workers : pc'[v] = "run" => pc[v] = "run",
           w \in Present
    PROVE  Apart'
  <1>1. /\ \A v \in Workers : v # w => busOpen'[v] = busOpen[v] /\ busPort'[v] = busPort[v]
        /\ busPort' \in [Workers -> Ports \cup {None}]
        /\ busOpen'[w] => busPort'[w] = portVal[b]
    <2>1. portVal[b] \in Ports \cup {NoPort}
      BY DEF Apart, FieldTypes
    <2> QED
      BY <2>1, OpenedBus DEF Apart, FieldTypes
  <1>2. \A v \in Workers, c \in Boards : Using(v, c)' => Using(v, c)
    BY DEF Using
  <1>3. FieldTypes' /\ FieldOfAbsent'
    BY <1>1 DEF Apart, FieldTypes, FieldOfAbsent
  <1>4. AbsentIsUnused'
    BY <1>1, <1>2 DEF Apart, AbsentIsUnused, Present
  <1>5. (FieldsAgree /\ PortsDiffer)'
    BY <1>2 DEF Apart, FieldsAgree, PortsDiffer
  <1>6. OpenOnField'
    <2> SUFFICES ASSUME NEW v \in Workers \ strayed, NEW c \in Boards, busOpen'[v], Using(v, c)'
                 PROVE  busPort'[v] = portVal[c]
      BY DEF OpenOnField
    <2>1. CASE v = w
      BY <1>1, <1>2, <2>1 DEF Apart, FieldsAgree
    <2>2. CASE v # w
      BY <1>1, <1>2, <2>2 DEF Apart, OpenOnField
    <2> QED
      BY <2>1, <2>2
  <1> QED
    BY <1>3, <1>4, <1>5, <1>6 DEF Apart

(* Most of what a worker thread does. *)
LEMMA WorkerQuiet ==
    ASSUME TuiTypes, Kept, Apart, NEW w \in Workers, WorkerStep(w),
           UNCHANGED <<attached, front, pending>>
    PROVE  Kept'
  <1>1. /\ UNCHANGED <<session, workerOf, ui>>
        /\ \A v \in Workers : v # w => pc'[v] = pc[v] /\ worker'[v] = worker[v]
        /\ worker'[w] # "none"
    BY WorkerFrame
  <1>2. worker[w] # "none"
    BY StepperRuns
  <1>3. ~(pc'[w] = "start" /\ worker'[w] = "run")
    BY DEF WorkerStep, SweepStart, SweepNext, LoopTop, PopItem, PollNext, RunRemove, RunDisconnect,
           RunWrite, RunConnect, Verify, FullScan, Publish, Message, Goto, Finish, TuiTypes
  <1> QED
    BY <1>1, <1>2, <1>3, KeptQuiet

(* What a worker thread does. *)
LEMMA WorkerKeepsApart ==
    ASSUME TuiTypes, Ownership, Kept, Apart, NEW w \in Workers, WorkerStep(w)
    PROVE  Kept' /\ Apart'
  <1>a. /\ UNCHANGED <<session, workerOf, ui>>
        /\ \A v \in Workers : v # w =>
             /\ pc'[v] = pc[v] /\ item'[v] = item[v] /\ workQueue'[v] = workQueue[v]
             /\ attached'[v] = attached[v] /\ worker'[v] = worker[v]
             /\ busOpen'[v] = busOpen[v]
        /\ worker'[w] # "none" /\ worker[w] # "none"
    BY WorkerFrame, StepperRuns
  <1>b. fields' = fields
    BY DEF WorkerStep, SweepStart, SweepNext, LoopTop, PopItem, PollNext, RunRemove, RunDisconnect,
           RunWrite, RunConnect, Verify, FullScan, Publish, Message
  <1>c. ASSUME UNCHANGED <<attached, front, pending, busPort, workQueue>>,
               busOpen'[w] => busOpen[w], pc'[w] # "run"
        PROVE  Kept' /\ Apart'
    <2>1. Kept'
      BY <1>c, WorkerQuiet
    <2>2. \A v \in Workers, c \in Boards : Using(v, c)' => Using(v, c)
      BY <1>a, <1>c DEF Using
    <2>3. Apart'
      BY <1>a, <1>b, <1>c, <2>2, ApartQuiet DEF fields, Apart, FieldTypes
    <2> QED
      BY <2>1, <2>3
  <1>1. CASE SweepStart(w)
    <2>1. /\ pc[w] = "start" /\ worker[w] = "run" /\ OpenBus(w, portVal[front[w]])
          /\ UNCHANGED <<workerOf, worker, attached, front, pending, workQueue, item>>
          /\ pc'[w] = "sweep"
      BY <1>1 DEF SweepStart, Goto, TuiTypes
    <2>2. front[w] \in attached[w]
      BY <2>1 DEF Kept, StartHasBoards, FrontIsAttached
    <2>3. front[w] \in Boards /\ Using(w, front[w])
      BY <2>2 DEF Ownership, AttachedIsLive, Belongs, Using, TuiTypes
    <2>4. w \in Present
      BY <2>1 DEF Present
    <2>5. \A v \in Workers : pc'[v] = "run" => pc[v] = "run"
      BY <1>a, <2>1
    <2>6. Apart'
      BY <1>a, <1>b, <2>1, <2>3, <2>4, <2>5, OpenKeepsApart DEF fields
    <2> QED
      BY <2>1, <2>6, WorkerQuiet
  <1>2. CASE SweepNext(w)
    BY <1>2, <1>c DEF SweepNext, Goto, bus, TuiTypes
  <1>3. CASE LoopTop(w)
    BY <1>3, <1>c DEF LoopTop, Goto, TuiTypes
  <1>4. CASE PopItem(w)
    <2>1. UNCHANGED <<attached, front, pending, busPort, busOpen, worker>>
      BY <1>4 DEF PopItem, bus
    <2>2. Kept'
      BY <2>1, WorkerQuiet
    <2>3. \A c \in Boards : Using(w, c)' => Using(w, c)
      <3>1. CASE workQueue[w] = <<>>
        <4>1. pc'[w] = "poll" /\ workQueue' = workQueue
          BY <1>4, <3>1 DEF PopItem, Goto, TuiTypes
        <4> QED
          BY <1>a, <4>1 DEF Using
      <3>2. CASE workQueue[w] # <<>>
        <4>1. workQueue[w] \in Seq(Item)
          BY DEF TuiTypes
        <4>2. item'[w] = workQueue[w][1] /\ workQueue'[w] = Tail(workQueue[w])
          BY <1>4, <3>2, <4>1 DEF PopItem, TuiTypes
        <4>3. /\ 1 \in 1 .. Len(workQueue[w])
              /\ \A k \in 1 .. Len(workQueue'[w]) :
                    k + 1 \in 1 .. Len(workQueue[w]) /\ workQueue'[w][k] = workQueue[w][k + 1]
          BY <3>2, <4>1, <4>2
        <4>4. \A c : (\E k \in 1 .. Len(workQueue'[w]) : workQueue'[w][k].board = c) =>
                        \E k \in 1 .. Len(workQueue[w]) : workQueue[w][k].board = c
          BY <4>3
        <4>5. \A c : item'[w].board = c =>
                        \E k \in 1 .. Len(workQueue[w]) : workQueue[w][k].board = c
          BY <4>2, <4>3
        <4> QED
          BY <1>a, <4>4, <4>5 DEF Using
      <3> QED
        BY <3>1, <3>2
    <2>4. \A v \in Workers, c \in Boards : Using(v, c)' => Using(v, c)
      BY <1>a, <2>3 DEF Using
    <2>5. Apart'
      BY <1>a, <1>b, <2>1, <2>4, ApartQuiet DEF fields, Apart, FieldTypes
    <2> QED
      BY <2>2, <2>5
  <1>5. CASE PollNext(w)
    BY <1>5, <1>c DEF PollNext, Goto, bus, TuiTypes
  <1>6. CASE RunRemove(w)
    <2> DEFINE d == item[w].board
    <2>1. /\ pc[w] = "run" /\ pc'[w] = "drain" /\ Detach(w, d)
          /\ UNCHANGED <<worker, busPort, busOpen, workQueue>>
      BY <1>6 DEF RunRemove, Current, Finish, Goto, TuiTypes
    <2>2. PICK i \in 1 .. Len(pending) :
            pending[i].board = d /\ pending' = [pending EXCEPT ![i].done = TRUE]
      BY <1>6, ElementTypes DEF RunRemove
    <2>3. /\ Len(pending') = Len(pending)
          /\ \A k \in 1 .. Len(pending) : pending'[k].board = pending[k].board
                                          /\ pending'[k].worker = pending[k].worker
      <3>1. \A k \in 1 .. Len(pending) : pending[k] \in PendingRemoval
        BY ElementTypes
      <3>2. pending \in Seq(PendingRemoval)
        BY DEF TuiTypes
      <3> QED
        BY <2>2, <3>1, <3>2 DEF PendingRemoval
    <2>4. d \in Boards /\ Belongs(d, w) /\ pending[i].worker = w
      BY <2>1, <2>2, ElementTypes DEF Ownership, ItemsBelong, PendingBelongs, Belongs, Busy
    <2>5. /\ attached' = [attached EXCEPT ![w] = @ \ {d}]
          /\ front' \in [Workers -> Boards \cup {None}]
          /\ \A v \in Workers : v # w => front'[v] = front[v]
          /\ attached'[w] = attached[w] \ {d}
          /\ IF front[w] = d THEN IsFront(attached[w] \ {d}, front'[w]) ELSE front'[w] = front[w]
      BY <2>1 DEF Detach, TuiTypes, Apart, FieldTypes
    <2>6. \A c \in Boards : BeingRemoved(c) => BeingRemoved(c)'
      BY <2>3 DEF BeingRemoved
    <2>7. \A v \in Workers : LosesBoard(v) => LosesBoard(v)'
      BY <2>3 DEF LosesBoard
    <2>8. LiveIsKept'
      <3> SUFFICES ASSUME NEW c \in Boards, session[c] = "live"
                   PROVE  c \in attached'[workerOf[c]] \/ BeingRemoved(c)'
        BY <1>a DEF LiveIsKept
      <3>1. workerOf[c] \in Workers
        BY DEF Ownership, LiveHasWorker
      <3>2. c = d => BeingRemoved(c)
        BY <2>2 DEF BeingRemoved
      <3> QED
        BY <1>a, <2>5, <2>6, <3>1, <3>2 DEF Kept, LiveIsKept
    <2>9. JoinedIsFreed'
      <3> SUFFICES ASSUME ui.at = "join" PROVE session[pending'[ui.i].board] = "freed"
        BY <1>a DEF JoinedIsFreed
      <3> QED
        BY <2>3 DEF Kept, JoinedIsFreed, Ownership, JoinedIsEmpty
    <2>10. EmptiedIsPending'
      <3>1. LosesBoard(w)
        BY <2>2, <2>4 DEF LosesBoard
      <3> QED
        BY <1>a, <2>1, <2>7, <3>1 DEF Kept, EmptiedIsPending, Present
    <2>11. FrontIsAttached'
      BY <1>a, <2>5 DEF Kept, FrontIsAttached, IsFront
    <2>12. StartHasBoards'
      BY <1>a, <2>1 DEF Kept, StartHasBoards
    <2>13. \A v \in Workers, c \in Boards : Using(v, c)' => Using(v, c)
      BY <1>a, <2>1 DEF Using
    <2>14. Apart'
      BY <1>a, <1>b, <2>1, <2>5, <2>13, ApartQuiet DEF fields
    <2> QED
      BY <2>8, <2>9, <2>10, <2>11, <2>12, <2>14 DEF Kept
  <1>7. CASE RunDisconnect(w)
    BY <1>7, <1>c DEF RunDisconnect, Finish, Goto, TuiTypes
  <1>8. CASE RunWrite(w)
    BY <1>8, <1>c DEF RunWrite, Finish, Goto, bus, TuiTypes
  <1>9. CASE RunConnect(w)
    <2> DEFINE d == item[w].board
    <2>1. /\ pc[w] = "run" /\ pc'[w] = "verify"
          /\ UNCHANGED <<workerOf, worker, attached, front, pending, workQueue, item>>
      BY <1>9 DEF RunConnect, Current, Goto, TuiTypes
    <2>2. d \in Boards /\ Using(w, d)
      BY <2>1, ElementTypes DEF Using, Busy
    <2>3. CASE UNCHANGED <<busOpen, busPort>>
      BY <1>c, <2>1, <2>3
    <2>4. CASE OpenBus(w, portVal[d])
      <3>1. w \in Present /\ \A v \in Workers : pc'[v] = "run" => pc[v] = "run"
        BY <1>a, <2>1 DEF Present
      <3>2. Apart'
        BY <1>a, <1>b, <2>1, <2>2, <2>4, <3>1, OpenKeepsApart DEF fields
      <3> QED
        BY <2>1, <3>2, WorkerQuiet
    <2> QED
      BY <1>9, <2>3, <2>4 DEF RunConnect
  <1>10. CASE Verify(w)
    <2>1. pc'[w] # "run"
      BY <1>10 DEF Verify, Finish, Goto, TuiTypes
    <2> QED
      BY <1>10, <1>c, <2>1 DEF Verify, bus
  <1>11. CASE FullScan(w)
    BY <1>11, <1>c DEF FullScan, Goto, bus, TuiTypes
  <1>12. CASE Publish(w)
    BY <1>12, <1>c DEF Publish, Goto, bus, TuiTypes
  <1>13. CASE Message(w)
    BY <1>13, <1>c DEF Message, Goto, bus, TuiTypes
  <1> QED
    BY <1>1, <1>2, <1>3, <1>4, <1>5, <1>6, <1>7, <1>8, <1>9, <1>10, <1>11, <1>12, <1>13
    DEF WorkerStep

(* At the launch every worker has the boards of one port. *)
LEMMA InitApart == Init => Kept /\ Apart
  <1> SUFFICES ASSUME Init PROVE Kept /\ Apart
    OBVIOUS
  <1>1. \A w \in Workers : \A b \in Launched(w) :
          b \in Boards /\ b \in Initial /\ PortOf[b] \in Ports /\ BusOf[PortOf[b]] = w
    BY LaunchBuses DEF Launched
  <1>2. \A w \in Workers : \A b, c \in Launched(w) : PortOf[b] = PortOf[c]
    BY <1>1, LaunchBuses
  <1>3. /\ attached = [w \in Workers |-> Launched(w)] /\ pending = <<>>
        /\ portVal = [b \in Boards |-> PortOf[b]] /\ strayed = {}
        /\ busPort = [w \in Workers |-> None]
        /\ \A w \in Workers : ~busOpen[w] /\ workQueue[w] = <<>> /\ pc[w] = "start"
        /\ \A w \in Workers : worker[w] = IF Launched(w) # {} THEN "run" ELSE "none"
        /\ \A b \in Boards : session[b] = IF b \in Initial THEN "live" ELSE "absent"
        /\ \A b \in Boards : workerOf[b] = IF b \in Initial THEN BusOf[PortOf[b]] ELSE None
    BY DEF Init
  <1>4. /\ front \in [Workers -> Boards \cup {None}]
        /\ \A w \in Workers : IsFront(Launched(w), front[w])
    <2>1. \A w \in Workers : \E b \in Boards \cup {None} : IsFront(Launched(w), b)
      BY <1>1 DEF IsFront
    <2>2. front = [w \in Workers |-> CHOOSE b \in Boards \cup {None} : IsFront(Launched(w), b)]
      BY DEF Init
    <2> QED
      BY <2>1, <2>2
  <1>5. \A w \in Workers, b \in Boards : Using(w, b) => b \in Launched(w)
    BY <1>3, LaunchBuses DEF Using, Launched
  <1>6. LiveIsKept
    BY <1>3, LaunchBuses DEF LiveIsKept, Launched
  <1>7. JoinedIsFreed
    BY DEF Init, JoinedIsFreed
  <1>8. EmptiedIsPending /\ FrontIsAttached /\ StartHasBoards
    BY <1>3, <1>4 DEF EmptiedIsPending, FrontIsAttached, StartHasBoards, Present, IsFront
  <1>9. FieldTypes /\ FieldOfAbsent
    BY <1>3, <1>4, TuiAssumption DEF FieldTypes, FieldOfAbsent
  <1>10. AbsentIsUnused
    BY <1>3, <1>5 DEF AbsentIsUnused, Present
  <1>11. FieldsAgree /\ OpenOnField
    BY <1>2, <1>3, <1>5 DEF FieldsAgree, OpenOnField
  <1>12. PortsDiffer
    BY <1>1, <1>3 DEF PortsDiffer
  <1> QED
    BY <1>6, <1>7, <1>8, <1>9, <1>10, <1>11, <1>12 DEF Kept, Apart

(* Layer 4 holds in every state. *)
THEOREM PortsInvariance == Spec => [](Kept /\ Apart)
  <1>1. Init => Kept /\ Apart
    BY InitApart
  <1>2. TuiTypes /\ Ownership /\ Kept /\ Apart /\ [Next]_vars => (Kept /\ Apart)'
    <2> SUFFICES ASSUME TuiTypes, Ownership, Kept, Apart, [Next]_vars PROVE (Kept /\ Apart)'
      OBVIOUS
    <2>1. CASE UserStep
      BY <2>1, UserKeepsApart
    <2>2. CASE FrameStep
      BY <2>2, FrameKeepsApart
    <2>3. ASSUME NEW w \in Workers, WorkerStep(w) PROVE (Kept /\ Apart)'
      BY <2>3, WorkerKeepsApart
    <2>4. CASE UNCHANGED vars
      <3>1. /\ UNCHANGED <<session, workerOf, attached, front, worker, pc, pending, ui>>
            /\ UNCHANGED <<portVal, strayed, busPort, busOpen, item, workQueue>>
        BY <2>4 DEF vars, bus, thread, fields
      <3>2. Kept'
        BY <3>1, KeptQuiet
      <3>3. Apart'
        BY <3>1, ApartQuiet DEF Apart, FieldTypes, Using
      <3> QED
        BY <3>2, <3>3
    <2> QED
      BY <2>1, <2>2, <2>3, <2>4 DEF Next
  <1> QED
    BY <1>1, <1>2, OwnershipInvariance, PTL DEF Spec

(***************************************************************************)
(* The theorems                                                            *)
(***************************************************************************)
(* Layers 1 to 3 hold in every state, whatever the boards, ports and
   workers, the number of clicks and the length of the queues. *)
THEOREM TuiInvariance == Spec => [](TuiTypes /\ Ownership /\ PortInv)
  <1>1. Init => PortInv
    BY InitPort
  <1>2. /\ TuiTypes /\ Ownership /\ PortInv /\ [Next]_vars
        /\ (TuiTypes /\ Ownership)'
        => PortInv'
    <2> SUFFICES ASSUME TuiTypes, Ownership, PortInv, [Next]_vars, (TuiTypes /\ Ownership)'
                 PROVE  PortInv'
      OBVIOUS
    <2>1. CASE UserStep
      BY <2>1, UserKeepsPort
    <2>2. CASE FrameStep
      BY <2>2, FrameKeepsPort
    <2>3. ASSUME NEW w \in Workers, WorkerStep(w) PROVE PortInv'
      BY <2>3, WorkerKeepsPort
    <2>4. CASE UNCHANGED vars
      <3>1. UNCHANGED <<session, connected, abortConnect, worker, attached, busOpen, workQueue,
                        pc, item, ok, ui, running>>
        BY <2>4 DEF vars, flags, bus, thread
      <3>2. (QuitIsSeen /\ NotYetConnected /\ AnsweredIsOpen /\ PolledPortIsOpen)'
        BY <3>1 DEF PortInv, QuitIsSeen, NotYetConnected, AnsweredIsOpen, PolledPortIsOpen, Present
      <3>3. ClosedIsExplained'
        BY <3>1 DEF PortInv, ClosedIsExplained, ConnectAhead, Queued
      <3>4. DisconnectIsWanted'
        BY <3>1 DEF PortInv, DisconnectIsWanted, Queued
      <3> QED
        BY <3>2, <3>3, <3>4 DEF PortInv
    <2> QED
      BY <2>1, <2>2, <2>3, <2>4 DEF Next
  <1> QED
    BY <1>1, <1>2, OwnershipInvariance, PTL DEF Spec

(* Every variable of the client keeps its type. *)
THEOREM TuiTypeCorrect == Spec => []TypeOK
  <1>1. TuiTypes /\ Apart => TypeOK
    <2> SUFFICES ASSUME TuiTypes, Apart PROVE TypeOK
      OBVIOUS
    <2>1. \A w \in Workers : IF pc[w] \in {"start", "top", "drain", "poll", "sweep"}
                               THEN item[w] = NoItem ELSE item[w] \in Item
      BY DEF TuiTypes, ItemInHand, Idle
    <2>2. \A w \in Workers : workQueue[w] \in Seq(Item) /\ snapshot[w] \subseteq Boards
      BY DEF TuiTypes
    <2> QED
      BY <2>1, <2>2 DEF TuiTypes, TypeOK, Apart, FieldTypes
  <1> QED
    BY <1>1, OwnershipInvariance, PortsInvariance, PTL

(* runBusWorkerLoop never polls a session that drainPendingRemovals has
   destroyed. *)
THEOREM PollsAreLive == Spec => []PollUsesLiveSessions
  <1>1. Ownership => PollUsesLiveSessions
    BY DEF Ownership
  <1> QED
    BY <1>1, OwnershipInvariance, PTL

(* A removal in progress never names a worker that was torn down. *)
THEOREM PendingWorkersExist == Spec => []PendingNamesWorker
  <1>1. Ownership => PendingNamesWorker
    BY DEF Ownership
  <1> QED
    BY <1>1, OwnershipInvariance, PTL

(* No disconnection, reset or removal of a sibling closes the port under a
   board that is polled as connected. *)
THEOREM PolledPortsAreOpen == Spec => []PolledPortIsOpen
  <1>1. PortInv => PolledPortIsOpen
    BY DEF PortInv
  <1> QED
    BY <1>1, TuiInvariance, PTL

(* Two workers have one port open only after a port field was edited, or while one
   of them, emptied, waits for the frame that tears it down. *)
THEOREM PortsHaveOneDriver == Spec => []OneDriverPerPort
  <1>1. TuiTypes /\ Ownership /\ Kept /\ Apart => OneDriverPerPort
    <2> SUFFICES ASSUME TuiTypes, Ownership, Kept, Apart,
                        NEW v \in Present, NEW w \in Present, v # w, busOpen[v], busOpen[w],
                        busPort[v] = busPort[w], v \notin strayed, w \notin strayed
                 PROVE  \E u \in {v, w} :
                           attached[u] = {} /\ \E i \in DOMAIN pending : pending[i].worker = u
      BY DEF OneDriverPerPort
    <2>1. \A u \in Present : u \in Workers
      BY DEF Present
    <2>2. \A u \in Present : \A b \in attached[u] : b \in Boards /\ Using(u, b)
      BY <2>1 DEF Ownership, AttachedIsLive, Belongs, Using, TuiTypes
    <2>3. attached[v] = {} \/ attached[w] = {}
      <3> SUFFICES ASSUME NEW b \in attached[v], NEW c \in attached[w] PROVE FALSE
        OBVIOUS
      <3>1. portVal[b] = busPort[v] /\ portVal[c] = busPort[w]
        BY <2>1, <2>2 DEF Apart, OpenOnField
      <3> QED
        BY <2>1, <3>1 DEF Apart, PortsDiffer
    <2> QED
      BY <2>3, ElementTypes DEF Kept, EmptiedIsPending, LosesBoard
  <1> QED
    BY <1>1, OwnershipInvariance, PortsInvariance, PTL
=============================================================================
