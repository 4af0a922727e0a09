------------------------------ MODULE VcRuntime ------------------------------
(***************************************************************************)
(* The threads around the voltage controller:                              *)
(* lib/voltage_control/vc_runtime.c.  Frontends (the Modbus server, the    *)
(* shell) read and write registers through the catalog; the worker drains  *)
(* the command queue and ticks the controller; the owner creates and       *)
(* destroys the runtime.  Every atomic operation, semaphore operation and  *)
(* critical section is one step, and the program counters are named after  *)
(* the step a thread is about to take.                                     *)
(*                                                                         *)
(* What a command does to the controller is VcController's business: here  *)
(* a dispatch is a critical section under the lock.                        *)
(***************************************************************************)
EXTENDS Integers, Sequences, FiniteSets

CONSTANTS
    Clients,        \* the frontend threads
    QueueDepth      \* CONFIG_VC_RUNTIME_COMMAND_QUEUE_DEPTH

ASSUME RuntimeAssumption == QueueDepth \in Nat \ {0}

Worker == "worker"
NoOne  == "none"

ASSUME ThreadAssumption == IsFiniteSet(Clients) /\ Clients \cap {Worker, NoOne} = {}

VARIABLES
    lifecycle,          \* catalog_lifecycle
    catalog_runtime,    \* whether catalog_runtime points to the runtime
    active_operations,  \* catalog_active_operations
    quiesced,           \* the semaphore catalog_quiesced
    stop_requested,
    wake,               \* the semaphore of the runtime
    command_queue,      \* the clients whose commands are queued
    lock,               \* the thread that holds the runtime's mutex
    serving,            \* the client whose command the worker has taken
    result_sem,         \* the clients whose result semaphore has been given
    owner, worker, client   \* program counters

vars == <<lifecycle, catalog_runtime, active_operations, quiesced, stop_requested, wake,
          command_queue, lock, serving, result_sem, owner, worker, client>>

OwnerPc  == {"create", "reset", "publish", "run", "start_thread", "running",
             "check_active", "await_quiesced", "unpublish", "stop", "wake_worker", "join",
             "destroyed"}
WorkerPc == {"off", "top", "sleep", "drain", "dispatch", "sampling", "served",
             "reply", "tick", "ticked", "exited"}
ClientPc == {"idle", "count", "recheck", "load", "read", "reading",
             "put", "signal", "await_result", "release", "check_stopping", "give_quiesced"}

Init ==
    /\ lifecycle = "STOPPED"
    /\ catalog_runtime = FALSE
    /\ active_operations = 0
    /\ quiesced = 0
    /\ stop_requested = FALSE
    /\ wake = 0
    /\ command_queue = << >>
    /\ lock = NoOne
    /\ serving = NoOne
    /\ result_sem = {}
    /\ owner = "create"
    /\ worker = "off"
    /\ client = [c \in Clients |-> "idle"]

(***************************************************************************)
(* vc_runtime_create_static and vc_runtime_destroy                         *)
(***************************************************************************)
OwnerGoes(from, to) == owner = from /\ owner' = to

\* The compare-and-swap that admits one creator.
Create ==
    /\ OwnerGoes("create", "reset")
    /\ lifecycle = "STOPPED"
    /\ lifecycle' = "STARTING"
    /\ UNCHANGED <<catalog_runtime, active_operations, quiesced, stop_requested, wake,
                   command_queue, lock, serving, result_sem, worker, client>>

Reset ==
    /\ OwnerGoes("reset", "publish")
    /\ stop_requested' = FALSE
    /\ active_operations' = 0
    /\ quiesced' = 0
    /\ wake' = 0
    /\ command_queue' = << >>
    /\ lock' = NoOne
    /\ UNCHANGED <<lifecycle, catalog_runtime, serving, result_sem, worker, client>>

\* The controller cannot be initialised, or the thread not created.
CreateFails ==
    /\ OwnerGoes("publish", "create")
    /\ lifecycle' = "STOPPED"
    /\ UNCHANGED <<catalog_runtime, active_operations, quiesced, stop_requested, wake,
                   command_queue, lock, serving, result_sem, worker, client>>

Publish ==
    /\ OwnerGoes("publish", "run")
    /\ catalog_runtime' = TRUE
    /\ UNCHANGED <<lifecycle, active_operations, quiesced, stop_requested, wake,
                   command_queue, lock, serving, result_sem, worker, client>>

Run ==
    /\ OwnerGoes("run", "start_thread")
    /\ lifecycle' = "RUNNING"
    /\ UNCHANGED <<catalog_runtime, active_operations, quiesced, stop_requested, wake,
                   command_queue, lock, serving, result_sem, worker, client>>

StartThread ==
    /\ OwnerGoes("start_thread", "running")
    /\ worker' = "top"
    /\ UNCHANGED <<lifecycle, catalog_runtime, active_operations, quiesced, stop_requested,
                   wake, command_queue, lock, serving, result_sem, client>>

Destroy ==
    /\ OwnerGoes("running", "check_active")
    /\ lifecycle = "RUNNING"
    /\ lifecycle' = "STOPPING"
    /\ UNCHANGED <<catalog_runtime, active_operations, quiesced, stop_requested, wake,
                   command_queue, lock, serving, result_sem, worker, client>>

CheckActive ==
    /\ OwnerGoes("check_active", IF active_operations # 0 THEN "await_quiesced" ELSE "unpublish")
    /\ UNCHANGED <<lifecycle, catalog_runtime, active_operations, quiesced, stop_requested,
                   wake, command_queue, lock, serving, result_sem, worker, client>>

AwaitQuiesced ==
    /\ OwnerGoes("await_quiesced", "unpublish")
    /\ quiesced = 1
    /\ quiesced' = 0
    /\ UNCHANGED <<lifecycle, catalog_runtime, active_operations, stop_requested, wake,
                   command_queue, lock, serving, result_sem, worker, client>>

Unpublish ==
    /\ OwnerGoes("unpublish", "stop")
    /\ catalog_runtime' = FALSE
    /\ UNCHANGED <<lifecycle, active_operations, quiesced, stop_requested, wake,
                   command_queue, lock, serving, result_sem, worker, client>>

Stop ==
    /\ OwnerGoes("stop", "wake_worker")
    /\ stop_requested' = TRUE
    /\ UNCHANGED <<lifecycle, catalog_runtime, active_operations, quiesced, wake,
                   command_queue, lock, serving, result_sem, worker, client>>

WakeWorker ==
    /\ OwnerGoes("wake_worker", "join")
    /\ wake' = 1
    /\ UNCHANGED <<lifecycle, catalog_runtime, active_operations, quiesced, stop_requested,
                   command_queue, lock, serving, result_sem, worker, client>>

Join ==
    /\ OwnerGoes("join", "destroyed")
    /\ worker = "exited"
    /\ lifecycle' = "STOPPED"
    /\ UNCHANGED <<catalog_runtime, active_operations, quiesced, stop_requested, wake,
                   command_queue, lock, serving, result_sem, worker, client>>

\* Steps the owner has to take once it has begun to create or to destroy.
OwnerContinues ==
    \/ Reset \/ Publish \/ CreateFails \/ Run \/ StartThread
    \/ CheckActive \/ AwaitQuiesced \/ Unpublish \/ Stop \/ WakeWorker \/ Join

OwnerStep == Create \/ Destroy \/ OwnerContinues

(***************************************************************************)
(* vc_runtime_worker                                                       *)
(***************************************************************************)
WorkerGoes(from, to) ==
    /\ worker = from
    /\ worker' = to
    /\ UNCHANGED <<lifecycle, catalog_runtime, active_operations, quiesced, stop_requested,
                   owner, client>>

LoopTest ==
    /\ WorkerGoes("top", IF stop_requested THEN "exited" ELSE "sleep")
    /\ UNCHANGED <<wake, command_queue, lock, serving, result_sem>>

\* k_sem_take(&wake): the semaphore, or the end of the tick interval.
WakeUp ==
    /\ WorkerGoes("sleep", "drain")
    /\ wake' = 0
    /\ UNCHANGED <<command_queue, lock, serving, result_sem>>

GetCommand ==
    /\ command_queue # << >>
    /\ WorkerGoes("drain", "dispatch")
    /\ serving' = Head(command_queue)
    /\ command_queue' = Tail(command_queue)
    /\ UNCHANGED <<wake, lock, result_sem>>

QueueDrained ==
    /\ command_queue = << >>
    /\ WorkerGoes("drain", "tick")
    /\ UNCHANGED <<wake, command_queue, lock, serving, result_sem>>

\* A calibration sample waits, with the lock held, for a new measurement.
Dispatch ==
    /\ lock = NoOne
    /\ lock' = Worker
    /\ \E to \in {"served", "sampling"} : WorkerGoes("dispatch", to)
    /\ UNCHANGED <<wake, command_queue, serving, result_sem>>

\* The wait takes the semaphore of the runtime, whoever gave it.
SampleWake ==
    /\ wake = 1
    /\ WorkerGoes("sampling", "sampling")
    /\ wake' = 0
    /\ UNCHANGED <<command_queue, lock, serving, result_sem>>

\* A new measurement is there, or CONFIG_VC_CAL_SAMPLE_TIMEOUT_MS is over.
SampleEnds ==
    /\ WorkerGoes("sampling", "served")
    /\ UNCHANGED <<wake, command_queue, lock, serving, result_sem>>

Served ==
    /\ WorkerGoes("served", "reply")
    /\ lock' = NoOne
    /\ UNCHANGED <<wake, command_queue, serving, result_sem>>

\* Mutant: a command that was refused is not answered.
GiveResultOfSuccess ==
    /\ WorkerGoes("reply", "drain")
    /\ \E answered \in {{}, {serving}} : result_sem' = result_sem \cup answered
    /\ serving' = NoOne
    /\ UNCHANGED <<wake, command_queue, lock>>

\* *result = ..., k_sem_give(result_sem): both point into the client's stack.
GiveResult ==
    /\ WorkerGoes("reply", "drain")
    /\ result_sem' = result_sem \cup {serving}
    /\ serving' = NoOne
    /\ UNCHANGED <<wake, command_queue, lock>>

TickLock ==
    /\ lock = NoOne
    /\ WorkerGoes("tick", "ticked")
    /\ lock' = Worker
    /\ UNCHANGED <<wake, command_queue, serving, result_sem>>

TickUnlock ==
    /\ WorkerGoes("ticked", "top")
    /\ lock' = NoOne
    /\ UNCHANGED <<wake, command_queue, serving, result_sem>>

WorkerStep ==
    \/ LoopTest \/ WakeUp \/ GetCommand \/ QueueDrained \/ Dispatch \/ SampleWake
    \/ SampleEnds \/ Served \/ GiveResult \/ TickLock \/ TickUnlock

(***************************************************************************)
(* vc_catalog_acquire, vc_catalog_read, vc_catalog_write,                  *)
(* vc_runtime_submit_command and vc_catalog_release                        *)
(***************************************************************************)
ClientGoes(c, from, to) ==
    /\ client[c] = from
    /\ client' = [client EXCEPT ![c] = to]
    /\ UNCHANGED <<lifecycle, catalog_runtime, stop_requested, serving, owner, worker>>

\* A runtime that is not running is answered with REG_BUSY: no step.
Acquire(c) ==
    /\ lifecycle = "RUNNING"
    /\ ClientGoes(c, "idle", "count")
    /\ UNCHANGED <<active_operations, quiesced, wake, command_queue, lock, result_sem>>

CountOperation(c) ==
    /\ ClientGoes(c, "count", "recheck")
    /\ active_operations' = active_operations + 1
    /\ UNCHANGED <<quiesced, wake, command_queue, lock, result_sem>>

Recheck(c) ==
    /\ ClientGoes(c, "recheck", IF lifecycle = "RUNNING" THEN "load" ELSE "release")
    /\ UNCHANGED <<active_operations, quiesced, wake, command_queue, lock, result_sem>>

\* The runtime's pointer is fetched; a register that the channel does not have
\* is refused at once, a read takes the lock, a write submits a command.
Load(c) ==
    /\ \E to \in IF catalog_runtime THEN {"release", "read", "put"} ELSE {"release"} :
          ClientGoes(c, "load", to)
    /\ UNCHANGED <<active_operations, quiesced, wake, command_queue, lock, result_sem>>

ReadLock(c) ==
    /\ lock = NoOne
    /\ ClientGoes(c, "read", "reading")
    /\ lock' = c
    /\ UNCHANGED <<active_operations, quiesced, wake, command_queue, result_sem>>

ReadUnlock(c) ==
    /\ ClientGoes(c, "reading", "release")
    /\ lock' = NoOne
    /\ UNCHANGED <<active_operations, quiesced, wake, command_queue, result_sem>>

PutCommand(c) ==
    /\ Len(command_queue) < QueueDepth
    /\ ClientGoes(c, "put", "signal")
    /\ command_queue' = Append(command_queue, c)
    /\ UNCHANGED <<active_operations, quiesced, wake, lock, result_sem>>

\* The timeout bounds the admission to a full queue only.
PutTimeout(c) ==
    /\ Len(command_queue) = QueueDepth
    /\ ClientGoes(c, "put", "release")
    /\ UNCHANGED <<active_operations, quiesced, wake, command_queue, lock, result_sem>>

SignalWorker(c) ==
    /\ ClientGoes(c, "signal", "await_result")
    /\ wake' = 1
    /\ UNCHANGED <<active_operations, quiesced, command_queue, lock, result_sem>>

\* Mutant: the submitter gives up while the worker holds its pointers.
AwaitResultWithTimeout(c) ==
    /\ ClientGoes(c, "await_result", "release")
    /\ result_sem' = result_sem \ {c}
    /\ UNCHANGED <<active_operations, quiesced, wake, command_queue, lock>>

AwaitResult(c) ==
    /\ c \in result_sem
    /\ ClientGoes(c, "await_result", "release")
    /\ result_sem' = result_sem \ {c}
    /\ UNCHANGED <<active_operations, quiesced, wake, command_queue, lock>>

\* Mutant: the last operation of a runtime that is being stopped tells nobody.
ReleaseSilently(c) ==
    /\ ClientGoes(c, "release", "idle")
    /\ active_operations' = active_operations - 1
    /\ UNCHANGED <<quiesced, wake, command_queue, lock, result_sem>>

\* atomic_dec, whose result was 1 for the last operation ...
Release(c) ==
    /\ ClientGoes(c, "release", IF active_operations = 1 THEN "check_stopping" ELSE "idle")
    /\ active_operations' = active_operations - 1
    /\ UNCHANGED <<quiesced, wake, command_queue, lock, result_sem>>

\* ... then the lifecycle is read ...
CheckStopping(c) ==
    /\ ClientGoes(c, "check_stopping", IF lifecycle = "STOPPING" THEN "give_quiesced" ELSE "idle")
    /\ UNCHANGED <<active_operations, quiesced, wake, command_queue, lock, result_sem>>

\* ... then the semaphore is given.
GiveQuiesced(c) ==
    /\ ClientGoes(c, "give_quiesced", "idle")
    /\ quiesced' = 1
    /\ UNCHANGED <<active_operations, wake, command_queue, lock, result_sem>>

ClientContinues(c) ==
    \/ CountOperation(c) \/ Recheck(c) \/ Load(c) \/ ReadLock(c) \/ ReadUnlock(c)
    \/ PutCommand(c) \/ PutTimeout(c) \/ SignalWorker(c) \/ AwaitResult(c)
    \/ Release(c) \/ CheckStopping(c) \/ GiveQuiesced(c)

ClientStep(c) == Acquire(c) \/ ClientContinues(c)

\* runtime_wake: a driver has published a measurement.
Measurement ==
    /\ worker # "off"
    /\ wake' = 1
    /\ UNCHANGED <<lifecycle, catalog_runtime, active_operations, quiesced, stop_requested,
                   command_queue, lock, serving, result_sem, owner, worker, client>>

Next ==
    \/ OwnerStep
    \/ WorkerStep
    \/ \E c \in Clients : ClientStep(c)
    \/ Measurement

Spec == Init /\ [][Next]_vars

\* Threads run.  A mutex and a message queue hand over to a waiting thread, so
\* that a waiter is not overtaken for ever: strong fairness of the steps that
\* wait for them.  A sample wait ends at its deadline, whatever arrives.
Fairness ==
    /\ WF_vars(OwnerContinues)
    /\ WF_vars(WorkerStep)
    /\ WF_vars(SampleEnds)
    /\ SF_vars(Dispatch)
    /\ SF_vars(TickLock)
    /\ \A c \in Clients : /\ WF_vars(ClientContinues(c))
                          /\ SF_vars(ReadLock(c))
                          /\ SF_vars(PutCommand(c))

FairSpec == Spec /\ Fairness

(***************************************************************************)
(* Properties                                                              *)
(***************************************************************************)
\* Every variable keeps its type; the count of operations in progress, which an
\* acquire that is refused takes back, stays between zero and the number of
\* clients (vc_catalog_acquire, vc_catalog_release).
TypeOK ==
    /\ lifecycle \in {"STOPPED", "STARTING", "RUNNING", "STOPPING"}
    /\ catalog_runtime \in BOOLEAN
    /\ active_operations \in 0 .. Cardinality(Clients)
    /\ quiesced \in {0, 1}
    /\ stop_requested \in BOOLEAN
    /\ wake \in {0, 1}
    /\ command_queue \in Seq(Clients) /\ Len(command_queue) <= QueueDepth
    /\ lock \in Clients \cup {Worker, NoOne}
    /\ serving \in Clients \cup {NoOne}
    /\ result_sem \subseteq Clients
    /\ owner \in OwnerPc
    /\ worker \in WorkerPc
    /\ client \in [Clients -> ClientPc]

Queued(c) == \E k \in 1 .. Len(command_queue) : command_queue[k] = c

\* The worker holds a pointer into a client's stack frame, in the queue or in
\* its hand, only while that client waits inside vc_runtime_submit_command, and
\* never two at a time: a late answer never writes into a frame that is gone.
NoDanglingResult ==
    /\ \A c \in Clients : Queued(c) \/ serving = c =>
          client[c] \in {"signal", "await_result"} /\ c \notin result_sem
    /\ \A j, k \in 1 .. Len(command_queue) :
          /\ command_queue[j] = command_queue[k] => j = k
          /\ command_queue[j] # serving

\* include/voltage_control/vc_runtime.h:63: a submitted command blocks until the
\* worker has processed it, so every register access comes back.
OperationEnds == \A c \in Clients : client[c] # "idle" ~> client[c] = "idle"

\* While the runtime is not destroyed that holds: a command that was queued is
\* answered, although the worker sleeps, samples and ticks in between and other
\* threads take the semaphore and the lock (vc_runtime_submit_command,
\* vc_catalog_read).
ServedUntilDestroyed ==
    \A c \in Clients :
        (client[c] # "idle") ~> (client[c] = "idle" \/ lifecycle # "RUNNING")

\* A destroy that was begun comes to its end: the last operation in progress is
\* never missed, and the worker is woken to see stop_requested
\* (vc_runtime_destroy, vc_catalog_release).
DestroyEnds == owner = "check_active" ~> owner = "destroyed"
=============================================================================
