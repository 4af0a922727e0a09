--------------------------- MODULE VcRuntime_proofs ---------------------------
(***************************************************************************)
(* Proofs about the threads of the runtime: every variable keeps its type, *)
(* the worker never holds the result pointers of a client that has gone,   *)
(* and the mutex keeps the readers and the worker apart.                   *)
(***************************************************************************)
EXTENDS VcRuntime, FiniteSetTheorems, TLAPS

(***************************************************************************)
(* The inductive invariant                                                 *)
(***************************************************************************)
\* TypeOK, but for the bounds of the count.
Types ==
    /\ lifecycle \in {"STOPPED", "STARTING", "RUNNING", "STOPPING"}
    /\ catalog_runtime \in BOOLEAN
    /\ quiesced \in {0, 1}
    /\ stop_requested \in BOOLEAN
    /\ wake \in {0, 1}
    /\ command_queue \in Seq(Clients) /\ Len(command_queue) <= QueueDepth
    /\ lock \in Clients \cup {Worker, NoOne}
    /\ serving \in Clients \cup {NoOne}
    /\ result_sem \subseteq Clients
    /\ owner \in OwnerPc
    /\ worker \in WorkerPc
    /\ client \in [Clients -> ClientPc]

\* A client between vc_catalog_acquire's increment and vc_catalog_release's
\* decrement.
Counted == {c \in Clients : client[c] \in {"recheck", "load", "read", "reading", "put",
                                           "signal", "await_result", "release"}}

\* catalog_active_operations counts them.
CountIsExact == active_operations = Cardinality(Counted)

\* Until the runtime is published as running nobody has got past its lifecycle,
\* and the worker is off until its thread is started.
BeforeRunning ==
    /\ owner \in {"create", "reset", "publish", "run"} =>
          /\ lifecycle # "RUNNING"
          /\ \A c \in Clients : client[c] = "idle"
    /\ owner \in {"create", "reset", "publish", "run", "start_thread"} => worker = "off"

\* The worker has taken a command exactly between k_msgq_get and the reply.
ServingInHand == serving # NoOne <=> worker \in {"dispatch", "sampling", "served", "reply"}

\* A result that was given has a client that waits for it, or is about to: the
\* worker may answer before the client has signalled it.
ResultAwaited == \A c \in result_sem : client[c] \in {"signal", "await_result"}

\* The mutex is held by the one thread that is in a critical section.
LockIsHeld ==
    /\ lock = Worker <=> worker \in {"sampling", "served", "ticked"}
    /\ \A c \in Clients : lock = c <=> client[c] = "reading"

RuntimeInv ==
    /\ Types
    /\ CountIsExact
    /\ BeforeRunning
    /\ ServingInHand
    /\ ResultAwaited
    /\ LockIsHeld
    /\ NoDanglingResult

(***************************************************************************)
(* The counting of the operations in progress                              *)
(***************************************************************************)
(* The clients that are counted are finitely many, and no more than there are. *)
LEMMA CountedFinite ==
    /\ IsFiniteSet(Counted)
    /\ Cardinality(Counted) \in 0 .. Cardinality(Clients)
  <1>1. Counted \in SUBSET Clients
    BY DEF Counted
  <1>2. IsFiniteSet(Clients) /\ IsFiniteSet(Counted)
    BY <1>1, ThreadAssumption, FS_Subset
  <1>3. Cardinality(Clients) \in Nat /\ Cardinality(Counted) \in Nat
    BY <1>2, FS_CardinalityType
  <1>4. Cardinality(Counted) <= Cardinality(Clients)
    BY <1>1, <1>2, FS_Subset
  <1> QED
    BY <1>2, <1>3, <1>4

(* The count's bounds follow from its meaning. *)
LEMMA InvGivesTypes == RuntimeInv => TypeOK
  BY CountedFinite DEF RuntimeInv, CountIsExact, Types, TypeOK

(***************************************************************************)
(* One lemma per thread                                                    *)
(***************************************************************************)
(* Before the first create nothing runs. *)
LEMMA InitRuntime == Init => RuntimeInv
  <1> SUFFICES ASSUME Init PROVE RuntimeInv
    OBVIOUS
  <1>1. Types
    <2>1. command_queue \in Seq(Clients) /\ Len(command_queue) <= QueueDepth
      BY RuntimeAssumption DEF Init
    <2> QED
      BY <2>1 DEF Init, Types, OwnerPc, WorkerPc, ClientPc, NoOne
  <1>2. CountIsExact
    <2>1. Counted = {}
      BY DEF Init, Counted
    <2> QED
      BY <2>1, FS_EmptySet DEF Init, CountIsExact
  <1>3. BeforeRunning /\ ServingInHand /\ ResultAwaited
    BY DEF Init, BeforeRunning, ServingInHand, ResultAwaited
  <1>4. LockIsHeld
    BY ThreadAssumption DEF Init, LockIsHeld, Worker, NoOne
  <1>5. NoDanglingResult
    BY ThreadAssumption DEF Init, NoDanglingResult, Queued, NoOne
  <1> QED
    BY <1>1, <1>2, <1>3, <1>4, <1>5 DEF RuntimeInv

(* The owner: only its reset touches what the other threads use, and then
   there are none. *)
LEMMA OwnerKeeps == RuntimeInv /\ OwnerStep => RuntimeInv'
  <1> SUFFICES ASSUME RuntimeInv, OwnerStep PROVE RuntimeInv'
    OBVIOUS
  <1>a. /\ serving' = serving /\ result_sem' = result_sem /\ client' = client
        /\ \/ worker' = worker
           \/ owner = "start_thread" /\ worker = "off" /\ worker' = "top"
    <2>1. serving' = serving /\ result_sem' = result_sem /\ client' = client
      BY DEF OwnerStep, OwnerContinues, Create, Reset, CreateFails, Publish, Run, StartThread,
             Destroy, CheckActive, AwaitQuiesced, Unpublish, Stop, WakeWorker, Join
    <2>2. worker' = worker \/ (owner = "start_thread" /\ worker' = "top")
      BY DEF OwnerStep, OwnerContinues, Create, Reset, CreateFails, Publish, Run, StartThread,
             Destroy, CheckActive, AwaitQuiesced, Unpublish, Stop, WakeWorker, Join, OwnerGoes
    <2> QED
      BY <2>1, <2>2 DEF RuntimeInv, BeforeRunning
  <1>b. CASE Reset
    <2>1. \A c \in Clients : client[c] = "idle"
      BY <1>b DEF Reset, OwnerGoes, RuntimeInv, BeforeRunning
    <2>2. worker = "off"
      BY <1>b DEF Reset, OwnerGoes, RuntimeInv, BeforeRunning
    <2>3. Types'
      <3>1. (command_queue \in Seq(Clients) /\ Len(command_queue) <= QueueDepth)'
        BY <1>b, RuntimeAssumption DEF Reset
      <3> QED
        BY <1>b, <3>1 DEF Reset, OwnerGoes, RuntimeInv, Types, OwnerPc
    <2>4. CountIsExact'
      <3>1. Counted' = {}
        BY <1>a, <2>1 DEF Counted
      <3> QED
        BY <3>1, <1>b, FS_EmptySet DEF Reset, CountIsExact
    <2>5. LockIsHeld'
      BY <1>b, <2>1, <2>2, ThreadAssumption DEF Reset, LockIsHeld, Worker, NoOne
    <2>6. (BeforeRunning /\ ServingInHand /\ ResultAwaited)'
      BY <1>b DEF Reset, OwnerGoes, RuntimeInv, BeforeRunning, ServingInHand, ResultAwaited
    <2>7. NoDanglingResult'
      BY <1>a, <1>b, <2>1 DEF Reset, RuntimeInv, NoDanglingResult, Queued
    <2> QED
      BY <2>3, <2>4, <2>5, <2>6, <2>7 DEF RuntimeInv
  <1>c. CASE ~Reset
    <2>1. /\ active_operations' = active_operations
          /\ command_queue' = command_queue /\ lock' = lock
      BY <1>c
      DEF OwnerStep, OwnerContinues, Create, CreateFails, Publish, Run, StartThread,
          Destroy, CheckActive, AwaitQuiesced, Unpublish, Stop, WakeWorker, Join
    <2>2. Types'
      <3>1. /\ (lifecycle \in {"STOPPED", "STARTING", "RUNNING", "STOPPING"})'
            /\ (catalog_runtime \in BOOLEAN /\ stop_requested \in BOOLEAN)'
            /\ (quiesced \in {0, 1} /\ wake \in {0, 1})'
        BY <1>c
        DEF OwnerStep, OwnerContinues, Create, CreateFails, Publish, Run, StartThread,
            Destroy, CheckActive, AwaitQuiesced, Unpublish, Stop, WakeWorker, Join,
            RuntimeInv, Types
      <3>2. owner' \in OwnerPc
        BY <1>c
        DEF OwnerStep, OwnerContinues, Create, CreateFails, Publish, Run, StartThread,
            Destroy, CheckActive, AwaitQuiesced, Unpublish, Stop, WakeWorker, Join, OwnerGoes,
            OwnerPc
      <3> QED
        BY <1>a, <2>1, <3>1, <3>2 DEF RuntimeInv, Types, WorkerPc
    <2>3. BeforeRunning'
      BY <1>c
      DEF OwnerStep, OwnerContinues, Create, CreateFails, Publish, Run, StartThread,
          Destroy, CheckActive, AwaitQuiesced, Unpublish, Stop, WakeWorker, Join, OwnerGoes,
          RuntimeInv, BeforeRunning
    <2>4. (CountIsExact /\ ServingInHand /\ ResultAwaited)'
      BY <1>a, <2>1
      DEF RuntimeInv, CountIsExact, Counted, ServingInHand, ResultAwaited
    <2>5. (LockIsHeld /\ NoDanglingResult)'
      BY <1>a, <2>1 DEF RuntimeInv, LockIsHeld, NoDanglingResult, Queued
    <2> QED
      BY <2>2, <2>3, <2>4, <2>5 DEF RuntimeInv
  <1> QED
    BY <1>b, <1>c

(* A driver's measurement only gives the semaphore. *)
LEMMA MeasurementKeeps == RuntimeInv /\ Measurement => RuntimeInv'
  BY DEF RuntimeInv, Measurement, Types, CountIsExact, Counted, BeforeRunning, ServingInHand,
         ResultAwaited, LockIsHeld, NoDanglingResult, Queued

(* A step that changes nothing. *)
LEMMA StutterKeeps == RuntimeInv /\ UNCHANGED vars => RuntimeInv'
  BY DEF RuntimeInv, vars, Types, CountIsExact, Counted, BeforeRunning, ServingInHand,
         ResultAwaited, LockIsHeld, NoDanglingResult, Queued

(* The worker: it takes a client's pointers from the queue and lets go of them
   when it gives the result. *)
LEMMA WorkerKeeps == RuntimeInv /\ WorkerStep => RuntimeInv'
  <1> SUFFICES ASSUME RuntimeInv, WorkerStep PROVE RuntimeInv'
    OBVIOUS
  <1>a. /\ client' = client /\ owner' = owner /\ lifecycle' = lifecycle
        /\ active_operations' = active_operations /\ quiesced' = quiesced
        /\ catalog_runtime' = catalog_runtime /\ stop_requested' = stop_requested
        /\ worker # "off" /\ worker' \in WorkerPc
    BY DEF WorkerStep, LoopTest, WakeUp, GetCommand, QueueDrained, Dispatch, SampleWake,
           SampleEnds, Served, GiveResult, TickLock, TickUnlock, WorkerGoes, WorkerPc
  <1>b. CountIsExact'
    BY <1>a DEF RuntimeInv, CountIsExact, Counted
  <1>c. BeforeRunning'
    BY <1>a DEF RuntimeInv, BeforeRunning
  <1>d. LockIsHeld'
    BY <1>a, ThreadAssumption
    DEF WorkerStep, LoopTest, WakeUp, GetCommand, QueueDrained, Dispatch, SampleWake,
        SampleEnds, Served, GiveResult, TickLock, TickUnlock, WorkerGoes,
        RuntimeInv, LockIsHeld, Worker, NoOne
  <1>e. (wake \in {0, 1} /\ lock \in Clients \cup {Worker, NoOne})'
    BY DEF WorkerStep, LoopTest, WakeUp, GetCommand, QueueDrained, Dispatch, SampleWake,
           SampleEnds, Served, GiveResult, TickLock, TickUnlock, RuntimeInv, Types
  <1>1. CASE GetCommand
    <2> DEFINE q == command_queue
    <2>1. q \in Seq(Clients) /\ q # << >> /\ serving' = Head(q) /\ q' = Tail(q)
      BY <1>1 DEF GetCommand, RuntimeInv, Types
    <2>2. /\ Len(q) \in Nat \ {0} /\ Len(q') = Len(q) - 1
          /\ serving' = q[1] /\ \A k \in 1 .. Len(q') : q'[k] = q[k + 1] /\ k + 1 \in 1 .. Len(q)
          /\ \A k \in 1 .. Len(q) : q[k] \in Clients
          /\ q' \in Seq(Clients)
      BY <2>1
    <2>3. serving = NoOne
      BY <1>1 DEF GetCommand, WorkerGoes, RuntimeInv, ServingInHand
    <2>4. Types'
      BY <1>1, <1>a, <1>e, <2>2, RuntimeAssumption DEF GetCommand, RuntimeInv, Types
    <2>5. ServingInHand'
      BY <1>1, <2>2, ThreadAssumption DEF GetCommand, WorkerGoes, ServingInHand
    <2>6. ResultAwaited'
      BY <1>1, <1>a DEF GetCommand, RuntimeInv, ResultAwaited
    <2>7. NoDanglingResult'
      <3>1. \A c \in Clients : (Queued(c) \/ serving = c)' => Queued(c)
        BY <2>2 DEF Queued
      <3>2. result_sem' = result_sem
        BY <1>1 DEF GetCommand
      <3>3. \A c \in Clients : Queued(c) =>
              client[c] \in {"signal", "await_result"} /\ c \notin result_sem
        BY DEF RuntimeInv, NoDanglingResult
      <3>4. \A j, k \in 1 .. Len(q) : q[j] = q[k] => j = k
        BY DEF RuntimeInv, NoDanglingResult
      <3>5. \A j, k \in 1 .. Len(q') : (q'[j] = q'[k] => j = k) /\ q'[j] # serving'
        BY <2>2, <3>4
      <3> QED
        BY <1>a, <3>1, <3>2, <3>3, <3>5 DEF NoDanglingResult
    <2> QED
      BY <1>b, <1>c, <1>d, <2>4, <2>5, <2>6, <2>7 DEF RuntimeInv
  <1>2. CASE GiveResult
    <2>1. /\ serving \in Clients /\ serving' = NoOne /\ command_queue' = command_queue
          /\ result_sem' = result_sem \cup {serving}
      BY <1>2 DEF GiveResult, WorkerGoes, RuntimeInv, ServingInHand, Types
    <2>2. Types'
      BY <1>a, <1>e, <2>1 DEF RuntimeInv, Types
    <2>3. ServingInHand'
      BY <1>2 DEF GiveResult, WorkerGoes, ServingInHand
    <2>4. ResultAwaited'
      BY <1>a, <2>1 DEF RuntimeInv, ResultAwaited, NoDanglingResult
    <2>5. NoDanglingResult'
      <3>1. \A k \in 1 .. Len(command_queue) : command_queue[k] \in Clients
        BY DEF RuntimeInv, Types
      <3>2. \A k \in 1 .. Len(command_queue) : command_queue[k] # NoOne
        BY <3>1, ThreadAssumption
      <3> QED
        BY <1>a, <2>1, <3>1, <3>2, ThreadAssumption DEF RuntimeInv, NoDanglingResult, Queued
    <2> QED
      BY <1>b, <1>c, <1>d, <2>2, <2>3, <2>4, <2>5 DEF RuntimeInv
  <1>3. CASE ~GetCommand /\ ~GiveResult
    <2>1. serving' = serving /\ command_queue' = command_queue /\ result_sem' = result_sem
      BY <1>3
      DEF WorkerStep, LoopTest, WakeUp, QueueDrained, Dispatch, SampleWake, SampleEnds,
          Served, TickLock, TickUnlock
    <2>2. ServingInHand'
      BY <1>3, <2>1
      DEF WorkerStep, LoopTest, WakeUp, QueueDrained, Dispatch, SampleWake, SampleEnds,
          Served, TickLock, TickUnlock, WorkerGoes, RuntimeInv, ServingInHand
    <2>3. Types'
      BY <1>a, <1>e, <2>1 DEF RuntimeInv, Types
    <2>4. (ResultAwaited /\ NoDanglingResult)'
      BY <1>a, <2>1 DEF RuntimeInv, ResultAwaited, NoDanglingResult, Queued
    <2> QED
      BY <1>b, <1>c, <1>d, <2>2, <2>3, <2>4 DEF RuntimeInv
  <1> QED
    BY <1>1, <1>2, <1>3

(* A client counts itself in, counts itself out, or leaves the count alone. *)
LEMMA ClientKeepsCount ==
    ASSUME NEW c \in Clients, RuntimeInv, ClientStep(c)
    PROVE  CountIsExact'
  <1>1. IsFiniteSet(Counted) /\ Cardinality(Counted) \in Nat
    BY CountedFinite
  <1>2. active_operations = Cardinality(Counted)
    BY DEF RuntimeInv, CountIsExact
  <1>3. client \in [Clients -> ClientPc]
    BY DEF RuntimeInv, Types
  <1>4. CASE CountOperation(c)
    <2>1. c \notin Counted /\ Counted' = Counted \cup {c}
      BY <1>3, <1>4 DEF CountOperation, ClientGoes, Counted
    <2> QED
      BY <1>1, <1>2, <1>4, <2>1, FS_AddElement DEF CountOperation, CountIsExact
  <1>5. CASE Release(c)
    <2>1. c \in Counted /\ Counted' = Counted \ {c}
      BY <1>3, <1>5 DEF Release, ClientGoes, Counted
    <2> QED
      BY <1>1, <1>2, <1>5, <2>1, FS_RemoveElement DEF Release, CountIsExact
  <1>6. CASE ~CountOperation(c) /\ ~Release(c)
    <2>1. active_operations' = active_operations
      BY <1>6
      DEF ClientStep, ClientContinues, Acquire, Recheck, Load, ReadLock, ReadUnlock, PutCommand,
          PutTimeout, SignalWorker, AwaitResult, CheckStopping, GiveQuiesced
    <2>2. Counted' = Counted
      BY <1>3, <1>6
      DEF ClientStep, ClientContinues, Acquire, Recheck, Load, ReadLock, ReadUnlock, PutCommand,
          PutTimeout, SignalWorker, AwaitResult, CheckStopping, GiveQuiesced, ClientGoes, Counted
    <2> QED
      BY <1>2, <2>1, <2>2 DEF CountIsExact
  <1> QED
    BY <1>4, <1>5, <1>6

(* A client: it waits from the moment it queues its pointers until the result
   is given. *)
LEMMA ClientKeeps ==
    ASSUME NEW c \in Clients, RuntimeInv, ClientStep(c)
    PROVE  RuntimeInv'
  <1>a. PICK to \in ClientPc \ {client[c]} :
          /\ client[c] \in ClientPc
          /\ client[c] = "idle" => lifecycle = "RUNNING"
          /\ client' = [client EXCEPT ![c] = to]
          /\ client[c] \in {"signal", "await_result"} =>
                to = "await_result" \/ (c \in result_sem /\ result_sem' = result_sem \ {c})
    BY DEF ClientStep, ClientContinues, Acquire, CountOperation, Recheck, Load, ReadLock,
           ReadUnlock, PutCommand, PutTimeout, SignalWorker, AwaitResult, Release,
           CheckStopping, GiveQuiesced, ClientGoes, ClientPc
  <1>b. /\ serving' = serving /\ worker' = worker /\ owner' = owner /\ lifecycle' = lifecycle
        /\ catalog_runtime' = catalog_runtime /\ stop_requested' = stop_requested
    BY DEF ClientStep, ClientContinues, Acquire, CountOperation, Recheck, Load, ReadLock,
           ReadUnlock, PutCommand, PutTimeout, SignalWorker, AwaitResult, Release,
           CheckStopping, GiveQuiesced, ClientGoes
  <1>c. client \in [Clients -> ClientPc] /\ command_queue \in Seq(Clients)
    BY DEF RuntimeInv, Types
  <1>d. (quiesced \in {0, 1} /\ wake \in {0, 1} /\ result_sem \subseteq Clients)'
    BY DEF ClientStep, ClientContinues, Acquire, CountOperation, Recheck, Load, ReadLock,
           ReadUnlock, PutCommand, PutTimeout, SignalWorker, AwaitResult, Release,
           CheckStopping, GiveQuiesced, RuntimeInv, Types
  <1>e. \/ command_queue' = command_queue
        \/ PutCommand(c)
    BY DEF ClientStep, ClientContinues, Acquire, CountOperation, Recheck, Load, ReadLock,
           ReadUnlock, PutTimeout, SignalWorker, AwaitResult, Release,
           CheckStopping, GiveQuiesced
  <1>f. result_sem' = result_sem \/ result_sem' = result_sem \ {c}
    BY DEF ClientStep, ClientContinues, Acquire, CountOperation, Recheck, Load, ReadLock,
           ReadUnlock, PutCommand, PutTimeout, SignalWorker, AwaitResult, Release,
           CheckStopping, GiveQuiesced
  <1>1. CountIsExact'
    BY ClientKeepsCount
  <1>2. BeforeRunning'
    <2>1. owner \notin {"create", "reset", "publish", "run"}
      BY <1>a DEF RuntimeInv, BeforeRunning
    <2> QED
      BY <1>b, <2>1 DEF RuntimeInv, BeforeRunning
  <1>3. ServingInHand'
    BY <1>b DEF RuntimeInv, ServingInHand
  <1>4. ResultAwaited'
    BY <1>a, <1>c, <1>f DEF RuntimeInv, ResultAwaited
  <1>5. LockIsHeld' /\ lock' \in Clients \cup {Worker, NoOne}
    <2>1. CASE ReadLock(c)
      BY <1>b, <1>c, <2>1, ThreadAssumption
      DEF ReadLock, ClientGoes, RuntimeInv, LockIsHeld, Worker, NoOne
    <2>2. CASE ReadUnlock(c)
      BY <1>b, <1>c, <2>2, ThreadAssumption
      DEF ReadUnlock, ClientGoes, RuntimeInv, LockIsHeld, Worker, NoOne
    <2>3. CASE ~ReadLock(c) /\ ~ReadUnlock(c)
      <3>1. lock' = lock
        BY <2>3
        DEF ClientStep, ClientContinues, Acquire, CountOperation, Recheck, Load, PutCommand,
            PutTimeout, SignalWorker, AwaitResult, Release, CheckStopping, GiveQuiesced
      <3>2. client[c] # "reading" /\ client'[c] # "reading"
        BY <1>c, <2>3
        DEF ClientStep, ClientContinues, Acquire, CountOperation, Recheck, Load, PutCommand,
            PutTimeout, SignalWorker, AwaitResult, Release, CheckStopping, GiveQuiesced, ClientGoes
      <3> QED
        BY <1>a, <1>b, <1>c, <3>1, <3>2 DEF RuntimeInv, LockIsHeld, Types
    <2> QED
      BY <2>1, <2>2, <2>3
  <1>6. Types' /\ NoDanglingResult'
    <2>1. CASE PutCommand(c)
      <3> DEFINE q == command_queue
      <3>1. client[c] = "put" /\ client'[c] = "signal" /\ result_sem' = result_sem
        BY <1>c, <2>1 DEF PutCommand, ClientGoes
      <3>2. /\ q' = Append(q, c) /\ Len(q) < QueueDepth /\ Len(q) \in Nat
            /\ Len(q') = Len(q) + 1 /\ q' \in Seq(Clients) /\ q'[Len(q) + 1] = c
            /\ \A k \in 1 .. Len(q) : q'[k] = q[k]
        BY <1>c, <2>1 DEF PutCommand
      <3>3. /\ c \notin result_sem /\ serving # c
            /\ \A k \in 1 .. Len(q) : q[k] # c
        BY <3>1 DEF RuntimeInv, ResultAwaited, NoDanglingResult, Queued
      <3>4. Types'
        BY <1>a, <1>b, <1>c, <1>d, <1>5, <3>2, RuntimeAssumption DEF RuntimeInv, Types
      <3>5. \A d \in Clients : Queued(d)' => Queued(d) \/ d = c
        BY <3>2 DEF Queued
      <3>6. \A d \in Clients : (Queued(d) \/ serving = d)' =>
              client'[d] \in {"signal", "await_result"} /\ d \notin result_sem'
        BY <1>a, <1>b, <1>c, <3>1, <3>3, <3>5 DEF RuntimeInv, NoDanglingResult
      <3>7. \A j, k \in 1 .. Len(q') : (q'[j] = q'[k] => j = k) /\ q'[j] # serving'
        <4>1. \A j, k \in 1 .. Len(q) : (q[j] = q[k] => j = k) /\ q[j] # serving
          BY DEF RuntimeInv, NoDanglingResult
        <4>2. \A k \in 1 .. Len(q') : k \in 1 .. Len(q) \/ k = Len(q) + 1
          BY <3>2
        <4> QED
          BY <1>b, <3>2, <3>3, <4>1, <4>2
      <3> QED
        BY <3>4, <3>6, <3>7 DEF NoDanglingResult
    <2>2. CASE command_queue' = command_queue
      <3>1. Types'
        BY <1>a, <1>b, <1>c, <1>d, <1>5, <2>2 DEF RuntimeInv, Types
      <3>2. NoDanglingResult'
        BY <1>a, <1>b, <1>c, <1>f, <2>2 DEF RuntimeInv, NoDanglingResult, Queued
      <3> QED
        BY <3>1, <3>2
    <2> QED
      BY <1>e, <2>1, <2>2
  <1> QED
    BY <1>1, <1>2, <1>3, <1>4, <1>5, <1>6 DEF RuntimeInv

(***************************************************************************)
(* The theorems                                                            *)
(***************************************************************************)
(* RuntimeInv holds in every state of the runtime, whatever the number of
   frontends and the depth of the queue. *)
THEOREM RuntimeInvariance == Spec => []RuntimeInv
  <1>1. RuntimeInv /\ [Next]_vars => RuntimeInv'
    BY OwnerKeeps, WorkerKeeps, ClientKeeps, MeasurementKeeps, StutterKeeps DEF Next
  <1> QED
    BY InitRuntime, <1>1, PTL DEF Spec

(* Every variable keeps its type, and catalog_active_operations, which
   vc_catalog_acquire and vc_catalog_release change without a lock, stays
   between zero and the number of frontends. *)
THEOREM RuntimeTypes == Spec => []TypeOK
  BY RuntimeInvariance, InvGivesTypes, PTL

(* vc_runtime_worker never writes a result, and never gives a semaphore, in
   the stack frame of a client that has left vc_runtime_submit_command. *)
THEOREM ResultsNeverDangle == Spec => []NoDanglingResult
  <1>1. RuntimeInv => NoDanglingResult
    BY DEF RuntimeInv
  <1> QED
    BY RuntimeInvariance, <1>1, PTL
=============================================================================
