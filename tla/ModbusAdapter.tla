--------------------------- MODULE ModbusAdapter ---------------------------
(***************************************************************************)
(* The link configuration of the Modbus adapter (modbus_adapter.c): the    *)
(* configuration in use, the one for the next boot, the record of it in    *)
(* the settings storage, and the RTU server started from it.               *)
(*                                                                         *)
(* Two threads change it: the Modbus server, for the host (next-boot       *)
(* registers, system parameter actions, software reset), and the shell     *)
(* (the mb commands).  Every change is made under one mutex; the variable  *)
(* job is the change under way, which power loss or the delayed reset may  *)
(* cut at any step.  Storage and the serial port may fail.                 *)
(***************************************************************************)
EXTENDS Naturals

CONSTANTS
    SlaveValues, BaudValues,    \* what clients write; uint16, not all valid
    Default,                    \* adapter_default_config
    Commissioned,               \* records found in storage at first power-up
    NoRecord,
    Down,                       \* the RTU server does not run
    NoConfig                    \* no configuration is in use

(* adapter_config_valid *)
ValidConfig == [slave_address : 1..247, baud_rate_code : 0..3]

ASSUME LinkAssumption ==
    /\ Default \in ValidConfig
    /\ NoRecord \notin ValidConfig
    /\ Down \notin ValidConfig
    /\ NoConfig \notin ValidConfig
    /\ SlaveValues \subseteq Nat
    /\ BaudValues \subseteq Nat

VARIABLES
    mb,             \* "off", "ready", or "failed": the adapter could not be created
    iface,          \* mb_iface >= 0
    active_cfg, boot_cfg,
    stored,         \* the settings record mb/cfg
    server,         \* the configuration the RTU server runs with, or Down
    job,            \* the change under mb->lock, or NoJob
    delegate,       \* the server thread waits for the voltage controller
    reset,          \* the delayed reset is scheduled
    refused         \* ghost: the serial port refused the last start

vars == <<mb, iface, active_cfg, boot_cfg, stored, server, job, delegate, reset, refused>>

NoJob == [at |-> "none"]
Kinds == {"next_boot", "param_factory", "save", "load", "factory", "set"}
Job(kind, at, cfg) == [kind |-> kind, at |-> at, cfg |-> cfg]

-----------------------------------------------------------------------------
(* Boot and power                                                          *)

Init ==
    /\ mb = "off"
    /\ iface = FALSE
    /\ active_cfg = Default
    /\ boot_cfg = Default
    /\ stored \in Commissioned
    /\ server = Down
    /\ job = NoJob
    /\ delegate = FALSE
    /\ reset = FALSE
    /\ refused = FALSE

\* Mutant: the configuration in use is not taken from the record.
vc_mb_adapter_create_default(readable, writable) ==
    \/ /\ readable /\ stored \in ValidConfig
       /\ boot_cfg' = stored
       /\ active_cfg' = Default
       /\ mb' = "ready"
       /\ UNCHANGED stored
    \/ /\ ~(readable /\ stored \in ValidConfig)
       /\ boot_cfg' = Default
       /\ active_cfg' = Default
       /\ \/ writable /\ stored' = Default /\ mb' = "ready"
          \/ ~writable /\ mb' = "failed" /\ UNCHANGED stored

(* The record loads and is valid, or the defaults replace it; if they cannot
   be saved there is no adapter. *)
vc_mb_adapter_create(readable, writable) ==
    \/ /\ readable /\ stored \in ValidConfig
       /\ boot_cfg' = stored
       /\ active_cfg' = stored
       /\ mb' = "ready"
       /\ UNCHANGED stored
    \/ /\ ~(readable /\ stored \in ValidConfig)
       /\ boot_cfg' = Default
       /\ active_cfg' = Default
       /\ \/ writable /\ stored' = Default /\ mb' = "ready"
          \/ ~writable /\ mb' = "failed" /\ UNCHANGED stored

modbus_adapter_init ==
    /\ mb = "off"
    /\ \E readable, writable, found, started \in BOOLEAN :
         /\ vc_mb_adapter_create(readable, writable)
         /\ iface' = (found /\ mb' = "ready")
         /\ server' = IF iface' /\ started THEN active_cfg' ELSE Down
         /\ refused' = (iface' /\ ~started)
    /\ UNCHANGED <<job, delegate, reset>>

(* Power loss, or the delayed reset: only the record survives. *)
Restart ==
    /\ mb' = "off"
    /\ iface' = FALSE
    /\ active_cfg' = Default
    /\ boot_cfg' = Default
    /\ server' = Down
    /\ job' = NoJob
    /\ delegate' = FALSE
    /\ reset' = FALSE
    /\ refused' = FALSE
    /\ UNCHANGED stored

PowerLoss == mb # "off" /\ Restart
reset_work_handler == reset /\ Restart

-----------------------------------------------------------------------------
(* Requests of the host, handled by the server thread                      *)

Unlocked == mb = "ready" /\ job = NoJob
HostRequest == Unlocked /\ server # Down /\ ~delegate
Locks(kind, at, cfg) ==
    /\ job' = Job(kind, at, cfg)
    /\ UNCHANGED <<mb, iface, active_cfg, boot_cfg, stored, server, delegate, reset, refused>>

adapter_write_next_boot_field ==
    /\ HostRequest
    /\ \E cfg \in {[boot_cfg EXCEPT !.slave_address = v] : v \in SlaveValues}
                    \cup {[boot_cfg EXCEPT !.baud_rate_code = v] : v \in BaudValues} :
         /\ cfg \in ValidConfig
         /\ Locks("next_boot", "save", cfg)

(* A system parameter action: the adapter's part, then the voltage
   controller's, outside the lock.  Its save has no adapter's part. *)
ParamSave ==
    /\ HostRequest
    /\ delegate' = TRUE
    /\ UNCHANGED <<mb, iface, active_cfg, boot_cfg, stored, server, job, reset, refused>>

ParamLoad ==
    /\ HostRequest
    /\ stored \in ValidConfig
    /\ boot_cfg' = stored
    /\ delegate' = TRUE
    /\ UNCHANGED <<mb, iface, active_cfg, stored, server, job, reset, refused>>

ParamFactoryReset ==
    /\ HostRequest
    /\ Locks("param_factory", "save", Default)

(* The answer of the voltage controller, whatever it is, goes to the host;
   the link configuration stays as the adapter's part left it. *)
Delegated ==
    /\ delegate
    /\ delegate' = FALSE
    /\ UNCHANGED <<mb, iface, active_cfg, boot_cfg, stored, server, job, reset, refused>>

sys_status_request_reset ==
    /\ HostRequest
    /\ reset' = TRUE
    /\ UNCHANGED <<mb, iface, active_cfg, boot_cfg, stored, server, job, delegate, refused>>

-----------------------------------------------------------------------------
(* Commands of the shell thread                                            *)

modbus_adapter_set ==
    /\ Unlocked
    /\ \E cfg \in {[active_cfg EXCEPT !.slave_address = v] : v \in SlaveValues}
                    \cup {[active_cfg EXCEPT !.baud_rate_code = v] : v \in BaudValues} :
         /\ cfg \in ValidConfig
         /\ Locks("set", "apply", cfg)

modbus_adapter_config_save ==
    /\ Unlocked
    /\ Locks("save", "save", active_cfg)

modbus_adapter_config_load ==
    /\ Unlocked
    /\ stored \in ValidConfig
    /\ Locks("load", "apply", stored)

modbus_adapter_config_factory ==
    /\ Unlocked
    /\ Locks("factory", "save", Default)

-----------------------------------------------------------------------------
(* The steps of a change                                                   *)

Goto(at) == job' = [job EXCEPT !.at = at]

\* Mutant: the result of the save is ignored.
SaveRecord_ignored ==
    /\ job.at = "save"
    /\ stored' \in {stored, job.cfg}
    /\ Goto("publish")
    /\ UNCHANGED <<mb, iface, active_cfg, boot_cfg, server, delegate, reset, refused>>

(* adapter_save_config: a failure ends the request before anything changed. *)
SaveRecord ==
    /\ job.at = "save"
    /\ \/ stored' = job.cfg /\ Goto("publish")
       \/ job' = NoJob /\ UNCHANGED stored
    /\ UNCHANGED <<mb, iface, active_cfg, boot_cfg, server, delegate, reset, refused>>

(* boot_cfg follows the record; the factory command goes on to apply it, the
   system factory reset to the voltage controller. *)
PublishNextBoot ==
    /\ job.at = "publish"
    /\ boot_cfg' = job.cfg
    /\ IF job.kind = "factory" THEN Goto("apply") ELSE job' = NoJob
    /\ delegate' = (delegate \/ job.kind = "param_factory")
    /\ UNCHANGED <<mb, iface, active_cfg, stored, server, reset, refused>>

(* modbus_adapter_apply_config: without an interface only the record in
   memory changes; otherwise the server stops and starts again. *)
Applied == /\ active_cfg' = job.cfg
           /\ boot_cfg' = IF job.kind = "load" THEN job.cfg ELSE boot_cfg
           /\ job' = NoJob

DisableServer ==
    /\ job.at = "apply"
    /\ \/ /\ ~iface
          /\ Applied
          /\ UNCHANGED server
       \/ /\ iface
          /\ server' = Down
          /\ Goto("start")
          /\ UNCHANGED <<active_cfg, boot_cfg>>
    /\ UNCHANGED <<mb, iface, stored, delegate, reset, refused>>

\* Mutant: the previous configuration is not restored.
StartServer_give_up ==
    /\ job.at = "start"
    /\ \/ /\ server' = job.cfg
          /\ refused' = FALSE
          /\ Applied
       \/ /\ job' = NoJob
          /\ UNCHANGED <<server, refused, active_cfg, boot_cfg>>
    /\ UNCHANGED <<mb, iface, stored, delegate, reset>>

StartServer ==
    /\ job.at = "start"
    /\ \/ /\ server' = job.cfg
          /\ refused' = FALSE
          /\ Applied
       \/ /\ Goto("restore")
          /\ UNCHANGED <<server, refused, active_cfg, boot_cfg>>
    /\ UNCHANGED <<mb, iface, stored, delegate, reset>>

\* Mutant: the previous configuration is tried until the port takes it.
RestoreServer_again ==
    /\ job.at = "restore"
    /\ \/ server' = active_cfg /\ refused' = FALSE /\ job' = NoJob
       \/ server' = Down /\ refused' = ~refused /\ UNCHANGED job
    /\ UNCHANGED <<mb, iface, active_cfg, boot_cfg, stored, delegate, reset>>

RestoreServer ==
    /\ job.at = "restore"
    /\ \E started \in BOOLEAN :
         /\ server' = IF started THEN active_cfg ELSE Down
         /\ refused' = ~started
    /\ job' = NoJob
    /\ UNCHANGED <<mb, iface, active_cfg, boot_cfg, stored, delegate, reset>>

-----------------------------------------------------------------------------
HostStep ==
    \/ adapter_write_next_boot_field
    \/ ParamSave
    \/ ParamLoad
    \/ ParamFactoryReset
    \/ sys_status_request_reset

ShellStep ==
    \/ modbus_adapter_set
    \/ modbus_adapter_config_save
    \/ modbus_adapter_config_load
    \/ modbus_adapter_config_factory

JobStep == SaveRecord \/ PublishNextBoot \/ DisableServer \/ StartServer \/ RestoreServer

Next ==
    \/ modbus_adapter_init
    \/ PowerLoss
    \/ reset_work_handler
    \/ HostStep
    \/ ShellStep
    \/ JobStep
    \/ Delegated

Spec == Init /\ [][Next]_vars

(* Main starts the adapter at every boot, a thread that holds the mutex goes
   on, the voltage controller answers within its time-out, the timer fires. *)
FairSpec ==
    /\ Spec
    /\ WF_vars(modbus_adapter_init)
    /\ WF_vars(JobStep)
    /\ WF_vars(Delegated)
    /\ WF_vars(reset_work_handler)

-----------------------------------------------------------------------------
(* Properties                                                              *)

(* Type invariant. *)
TypeOK ==
    /\ mb \in {"off", "ready", "failed"}
    /\ iface \in BOOLEAN /\ delegate \in BOOLEAN
    /\ reset \in BOOLEAN /\ refused \in BOOLEAN
    /\ active_cfg \in ValidConfig
    /\ boot_cfg \in ValidConfig
    /\ mb = "ready" => stored \in ValidConfig
    /\ server \in ValidConfig \cup {Down}
    /\ job \in {NoJob} \cup [kind : Kinds, cfg : ValidConfig,
                             at : {"save", "publish", "apply", "start", "restore"}]

(* The next-boot registers are true: while no change holds the mutex, they
   show what the storage holds, although the record is written first, either
   may fail, and two threads change them in several ways. *)
NextBootIsStored ==
    mb = "ready" => \/ boot_cfg = stored
                    \/ job.at = "publish" /\ stored = job.cfg

(* The active registers are true: a running server runs with active_cfg. *)
ActiveIsServed == server \in {Down, active_cfg}

(* The host loses its link only to the serial port: outside a change, the
   server is down only after the port refused to start with the new and the
   previous configuration, or at boot. *)
DownOnlyIfRefused ==
    Unlocked /\ iface /\ server = Down => refused

(* The inductive invariant: without an interface there is no server, a job is
   done by a running adapter, and the record does not move under a load. *)
LinkInv ==
    /\ TypeOK
    /\ NextBootIsStored
    /\ ActiveIsServed
    /\ ~iface => server = Down
    /\ mb = "ready" /\ iface /\ server = Down => refused \/ job.at \in {"start", "restore"}
    /\ job.at \in {"start", "restore"} => iface
    /\ job.at = "publish" => stored = job.cfg
    /\ job # NoJob => mb = "ready"
    /\ job # NoJob /\ job.kind = "load" =>
          job.at \in {"apply", "start", "restore"} /\ job.cfg = stored

(* The adapter implements the promise of LinkConfig, losing power at any
   step included: the next start uses the record as it was last written. *)
NextStart == IF stored \in ValidConfig THEN stored ELSE Default
Link == INSTANCE LinkConfig WITH
            Valid <- ValidConfig,
            next <- NextStart,
            active <- IF mb = "ready" THEN active_cfg ELSE NoConfig
LinkSpec == Link!Spec

(* A change ends: the mutex is not held for ever, so that the other thread
   and the host are served again.  A reset the host asked for happens,
   whatever it interrupts. *)
ChangesAndResetsEnd ==
    /\ (job # NoJob) ~> (job = NoJob)
    /\ reset ~> (mb = "off")
=============================================================================
