------------------------ MODULE ModbusAdapter_proofs ------------------------
(***************************************************************************)
(* Proofs about the Modbus adapter's link configuration: the registers are *)
(* true, the host's link goes down only when the port refuses it, and the  *)
(* adapter implements LinkConfig.                                          *)
(***************************************************************************)
EXTENDS ModbusAdapter, TLAPS

JobRecord == [kind : Kinds, cfg : ValidConfig,
              at : {"save", "publish", "apply", "start", "restore"}]

(* A job that is under way is a record with a valid configuration. *)
LEMMA JobUnderWay ==
    ASSUME TypeOK, job.at # "none"
    PROVE  job # NoJob /\ job \in JobRecord
  BY DEF TypeOK, NoJob, JobRecord

(* At first power-up the adapter is off. *)
LEMMA InitLink == Init => LinkInv
  <1>1. NoJob.at = "none"
    BY DEF NoJob
  <1> QED
    BY <1>1, LinkAssumption DEF Init, LinkInv, TypeOK, NextBootIsStored, ActiveIsServed

(* modbus_adapter_init establishes every part, whatever fails. *)
LEMMA BootLink == LinkInv /\ modbus_adapter_init => LinkInv'
  <1> SUFFICES ASSUME LinkInv, modbus_adapter_init PROVE LinkInv'
    OBVIOUS
  <1>1. PICK readable \in BOOLEAN, writable \in BOOLEAN, found \in BOOLEAN,
             started \in BOOLEAN :
          /\ vc_mb_adapter_create(readable, writable)
          /\ iface' = (found /\ mb' = "ready")
          /\ server' = IF iface' /\ started THEN active_cfg' ELSE Down
          /\ refused' = (iface' /\ ~started)
    BY DEF modbus_adapter_init
  <1>2. job = NoJob /\ job' = NoJob /\ delegate' = delegate /\ reset' = reset /\ mb = "off"
    BY DEF modbus_adapter_init, LinkInv
  <1>3. /\ mb' \in {"ready", "failed"}
        /\ active_cfg' \in ValidConfig
        /\ boot_cfg' \in ValidConfig
        /\ mb' = "ready" => stored' \in ValidConfig /\ boot_cfg' = stored'
    BY <1>1, LinkAssumption DEF vc_mb_adapter_create
  <1>4. TypeOK'
    BY <1>1, <1>2, <1>3 DEF TypeOK, LinkInv
  <1>5. NoJob.at = "none"
    BY DEF NoJob
  <1>6. NextBootIsStored' /\ ActiveIsServed'
    BY <1>1, <1>3 DEF NextBootIsStored, ActiveIsServed
  <1>7. ~iface' => server' = Down
    BY <1>1
  <1>8. iface' /\ server' = Down => refused'
    <2>1. CASE started
      <3>1. iface' => server' = active_cfg'
        BY <1>1, <2>1
      <3> QED
        BY <3>1, <1>3, LinkAssumption
    <2>2. CASE ~started
      BY <1>1, <2>2
    <2> QED
      BY <2>1, <2>2
  <1> QED
    BY <1>2, <1>4, <1>5, <1>6, <1>7, <1>8 DEF LinkInv

(* Losing power keeps nothing that the invariant speaks of. *)
LEMMA RestartLink == LinkInv /\ Restart => LinkInv'
  <1> SUFFICES ASSUME LinkInv, Restart PROVE LinkInv'
    OBVIOUS
  <1>1. NoJob.at = "none" /\ job' = NoJob
    BY DEF NoJob, Restart
  <1>2. TypeOK'
    BY LinkAssumption DEF Restart, TypeOK
  <1>3. /\ mb' = "off" /\ iface' = FALSE /\ server' = Down
        /\ NextBootIsStored' /\ ActiveIsServed'
    BY DEF Restart, NextBootIsStored, ActiveIsServed
  <1> QED
    BY <1>1, <1>2, <1>3 DEF LinkInv

(* Taking the mutex changes nothing but the job. *)
LEMMA LocksLink ==
    ASSUME NEW kind \in Kinds, NEW at \in {"save", "apply"}, NEW cfg \in ValidConfig,
           LinkInv, Unlocked, Locks(kind, at, cfg),
           kind = "load" => at = "apply" /\ cfg = stored
    PROVE  LinkInv'
  <1>1. /\ job' = [kind |-> kind, at |-> at, cfg |-> cfg]
        /\ job' \in JobRecord
        /\ job'.at = at /\ job'.kind = kind /\ job'.cfg = cfg
    BY DEF Locks, Job, JobRecord
  <1>2. job = NoJob /\ NoJob.at = "none"
    BY DEF Unlocked, NoJob
  <1>3. TypeOK'
    BY <1>1 DEF TypeOK, LinkInv, Locks, JobRecord
  <1> QED
    BY <1>1, <1>2, <1>3
       DEF LinkInv, Locks, NextBootIsStored, ActiveIsServed, Unlocked

(* Requests of the host. *)
LEMMA HostLink == LinkInv /\ HostStep => LinkInv'
  <1> SUFFICES ASSUME LinkInv, HostStep PROVE LinkInv'
    OBVIOUS
  <1>1. CASE adapter_write_next_boot_field
    <2>1. PICK cfg \in ValidConfig : Locks("next_boot", "save", cfg)
      BY <1>1 DEF adapter_write_next_boot_field
    <2> QED
      BY <1>1, <2>1, LocksLink DEF adapter_write_next_boot_field, HostRequest, Kinds
  <1>2. CASE ParamSave
    BY <1>2 DEF ParamSave, LinkInv, TypeOK, NextBootIsStored, ActiveIsServed
  <1>3. CASE ParamLoad
    BY <1>3 DEF ParamLoad, LinkInv, TypeOK, NextBootIsStored, ActiveIsServed
  <1>4. CASE ParamFactoryReset
    BY <1>4, LocksLink, LinkAssumption DEF ParamFactoryReset, HostRequest, Kinds
  <1>5. CASE sys_status_request_reset
    BY <1>5 DEF sys_status_request_reset, LinkInv, TypeOK, NextBootIsStored, ActiveIsServed
  <1> QED
    BY <1>1, <1>2, <1>3, <1>4, <1>5 DEF HostStep

(* Commands of the shell. *)
LEMMA ShellLink == LinkInv /\ ShellStep => LinkInv'
  <1> SUFFICES ASSUME LinkInv, ShellStep PROVE LinkInv'
    OBVIOUS
  <1>1. CASE modbus_adapter_set
    <2>1. PICK cfg \in ValidConfig : Locks("set", "apply", cfg)
      BY <1>1 DEF modbus_adapter_set
    <2> QED
      BY <1>1, <2>1, LocksLink DEF modbus_adapter_set, Kinds
  <1>2. CASE modbus_adapter_config_save
    <2>1. active_cfg \in ValidConfig
      BY DEF LinkInv, TypeOK
    <2> QED
      BY <1>2, <2>1, LocksLink DEF modbus_adapter_config_save, Kinds
  <1>3. CASE modbus_adapter_config_load
    BY <1>3, LocksLink DEF modbus_adapter_config_load, Kinds
  <1>4. CASE modbus_adapter_config_factory
    BY <1>4, LocksLink, LinkAssumption DEF modbus_adapter_config_factory, Kinds
  <1> QED
    BY <1>1, <1>2, <1>3, <1>4 DEF ShellStep

(* The steps of a change, one by one. *)
LEMMA JobLink == LinkInv /\ JobStep => LinkInv'
  <1> SUFFICES ASSUME LinkInv, JobStep PROVE LinkInv'
    OBVIOUS
  <1>0. /\ job # NoJob /\ job \in JobRecord /\ mb = "ready"
        /\ NoJob.at = "none"
        /\ job.cfg \in ValidConfig /\ job.kind \in Kinds
    <2>1. job.at # "none"
      BY DEF JobStep, SaveRecord, PublishNextBoot, DisableServer, StartServer, RestoreServer
    <2>2. job # NoJob /\ job \in JobRecord
      BY <2>1, JobUnderWay DEF LinkInv
    <2> QED
      BY <2>2 DEF LinkInv, NoJob, JobRecord
  <1>a. ASSUME NEW at \in {"publish", "apply", "start", "restore"}, Goto(at)
        PROVE  /\ job' \in JobRecord /\ job' # NoJob
               /\ job'.at = at /\ job'.kind = job.kind /\ job'.cfg = job.cfg
    BY <1>0, <1>a DEF Goto, JobRecord, NoJob
  <1>1. CASE SaveRecord
    <2>1. CASE stored' = job.cfg /\ Goto("publish")
      <3>1. TypeOK'
        BY <1>0, <1>1, <1>a, <2>1 DEF SaveRecord, TypeOK, LinkInv, JobRecord
      <3> QED
        BY <1>0, <1>1, <1>a, <2>1, <3>1
           DEF SaveRecord, LinkInv, NextBootIsStored, ActiveIsServed
    <2>2. CASE job' = NoJob /\ UNCHANGED stored
      BY <1>0, <1>1, <2>2
         DEF SaveRecord, LinkInv, TypeOK, NextBootIsStored, ActiveIsServed
    <2> QED
      BY <1>1, <2>1, <2>2 DEF SaveRecord
  <1>2. CASE PublishNextBoot
    <2>1. boot_cfg' = stored /\ stored' = stored /\ job.kind # "load"
      BY <1>0, <1>2 DEF PublishNextBoot, LinkInv, NextBootIsStored, TypeOK
    <2>2. \/ job' = NoJob
          \/ job' # NoJob /\ job' \in JobRecord /\ job'.at = "apply" /\ job'.kind = job.kind
      BY <1>2, <1>a DEF PublishNextBoot
    <2>3. TypeOK'
      BY <1>0, <1>2, <2>1, <2>2 DEF PublishNextBoot, TypeOK, LinkInv, JobRecord
    <2> QED
      BY <1>0, <1>2, <2>1, <2>2, <2>3
         DEF PublishNextBoot, LinkInv, NextBootIsStored, ActiveIsServed
  <1>3. CASE DisableServer
    <2>1. CASE ~iface /\ Applied /\ UNCHANGED server
      BY <1>0, <1>3, <2>1
         DEF DisableServer, Applied, LinkInv, TypeOK, NextBootIsStored, ActiveIsServed
    <2>2. CASE iface /\ server' = Down /\ Goto("start") /\ UNCHANGED <<active_cfg, boot_cfg>>
      <3>1. TypeOK'
        BY <1>0, <1>3, <1>a, <2>2 DEF DisableServer, TypeOK, LinkInv, JobRecord
      <3> QED
        BY <1>0, <1>3, <1>a, <2>2, <3>1
           DEF DisableServer, LinkInv, NextBootIsStored, ActiveIsServed
    <2> QED
      BY <1>3, <2>1, <2>2 DEF DisableServer
  <1>4. CASE StartServer
    <2>1. CASE server' = job.cfg /\ refused' = FALSE /\ Applied
      <3>1. TypeOK'
        BY <1>0, <1>4, <2>1 DEF StartServer, Applied, TypeOK, LinkInv
      <3>2. boot_cfg' = stored' /\ server' # Down /\ iface' = iface
        BY <1>0, <1>4, <2>1, LinkAssumption
           DEF StartServer, Applied, LinkInv, NextBootIsStored
      <3>3. iface
        BY <1>0, <1>4, <2>1 DEF LinkInv, StartServer
      <3> QED
        BY <1>0, <1>4, <2>1, <3>1, <3>2, <3>3
           DEF StartServer, Applied, LinkInv, NextBootIsStored, ActiveIsServed
    <2>2. CASE Goto("restore") /\ UNCHANGED <<server, refused, active_cfg, boot_cfg>>
      <3>1. TypeOK'
        BY <1>0, <1>4, <1>a, <2>2 DEF StartServer, TypeOK, LinkInv, JobRecord
      <3> QED
        BY <1>0, <1>4, <1>a, <2>2, <3>1
           DEF StartServer, LinkInv, NextBootIsStored, ActiveIsServed
    <2> QED
      BY <1>4, <2>1, <2>2 DEF StartServer
  <1>5. CASE RestoreServer
    <2>1. PICK started \in BOOLEAN :
            server' = (IF started THEN active_cfg ELSE Down) /\ refused' = ~started
      BY <1>5 DEF RestoreServer
    <2>2. TypeOK'
      BY <1>0, <1>5, <2>1 DEF RestoreServer, TypeOK, LinkInv
    <2>3. iface
      BY <1>0, <1>5 DEF LinkInv, RestoreServer
    <2>4. /\ job' = NoJob /\ iface' = iface /\ mb' = mb /\ stored' = stored
          /\ boot_cfg' = boot_cfg /\ active_cfg' = active_cfg /\ job.at = "restore"
      BY <1>5 DEF RestoreServer
    <2>5. NextBootIsStored' /\ ActiveIsServed'
      BY <1>0, <2>1, <2>4 DEF LinkInv, NextBootIsStored, ActiveIsServed
    <2>6. server' = Down => refused'
      <3>1. CASE started
        <4>1. server' = active_cfg
          BY <2>1, <3>1
        <4> QED
          BY <4>1, LinkAssumption DEF LinkInv, TypeOK
      <3>2. CASE ~started
        BY <2>1, <3>2
      <3> QED
        BY <3>1, <3>2
    <2> QED
      BY <1>0, <2>2, <2>3, <2>4, <2>5, <2>6 DEF LinkInv
  <1> QED
    BY <1>1, <1>2, <1>3, <1>4, <1>5 DEF JobStep

(* Every step keeps the invariant. *)
LEMMA NextLink == LinkInv /\ [Next]_vars => LinkInv'
  <1> SUFFICES ASSUME LinkInv, [Next]_vars PROVE LinkInv'
    OBVIOUS
  <1>1. CASE PowerLoss \/ reset_work_handler
    BY <1>1, RestartLink DEF PowerLoss, reset_work_handler
  <1>2. CASE Delegated
    BY <1>2 DEF Delegated, LinkInv, TypeOK, NextBootIsStored, ActiveIsServed
  <1>3. CASE UNCHANGED vars
    BY <1>3 DEF vars, LinkInv, TypeOK, NextBootIsStored, ActiveIsServed
  <1> QED
    BY <1>1, <1>2, <1>3, BootLink, HostLink, ShellLink, JobLink DEF Next

(* The inductive invariant holds, for every set of values the clients write
   and whatever storage and the serial port answer. *)
THEOREM LinkInvariant == Spec => []LinkInv
  BY InitLink, NextLink, PTL DEF Spec

(* The variables keep their types: an invalid configuration is never in use,
   never the next boot's, and never stored by the adapter. *)
THEOREM LinkTypes == Spec => []TypeOK
  <1>1. LinkInv => TypeOK
    BY DEF LinkInv
  <1> QED
    BY <1>1, LinkInvariant, PTL

(* The next-boot registers show what storage holds. *)
THEOREM NextBootTrue == Spec => []NextBootIsStored
  <1>1. LinkInv => NextBootIsStored
    BY DEF LinkInv
  <1> QED
    BY <1>1, LinkInvariant, PTL

(* The active registers show what the server runs with. *)
THEOREM ActiveTrue == Spec => []ActiveIsServed
  <1>1. LinkInv => ActiveIsServed
    BY DEF LinkInv
  <1> QED
    BY <1>1, LinkInvariant, PTL

(* Outside a change the server is down only after the port refused it. *)
THEOREM LinkLostToPort == Spec => []DownOnlyIfRefused
  <1>1. LinkInv => DownOnlyIfRefused
    <2>1. NoJob.at = "none"
      BY DEF NoJob
    <2> QED
      BY <2>1 DEF LinkInv, DownOnlyIfRefused, Unlocked
  <1> QED
    BY <1>1, LinkInvariant, PTL

-----------------------------------------------------------------------------
(* The refinement of LinkConfig                                            *)

(* Whatever record storage holds, or none, the next start has a valid
   configuration to use. *)
LEMMA InitRefines == Init => Link!Init
  BY LinkAssumption DEF Init, Link!Init, NextStart

(* A boot is a start, a start that could not use the record, or, without an
   adapter, no step of the link. *)
LEMMA BootRefines ==
    LinkInv /\ modbus_adapter_init => [Link!Next]_(Link!vars)
  <1> SUFFICES ASSUME LinkInv, modbus_adapter_init PROVE [Link!Next]_(Link!vars)
    OBVIOUS
  <1>1. PICK readable \in BOOLEAN, writable \in BOOLEAN :
          mb = "off" /\ vc_mb_adapter_create(readable, writable)
    BY DEF modbus_adapter_init
  <1>2. CASE readable /\ stored \in ValidConfig
    BY <1>1, <1>2
       DEF vc_mb_adapter_create, Link!Next, Link!Start, NextStart
  <1>3. CASE ~(readable /\ stored \in ValidConfig) /\ writable
    BY <1>1, <1>3, LinkAssumption
       DEF vc_mb_adapter_create, Link!Next, Link!StartUnreadable, NextStart
  <1>4. CASE ~(readable /\ stored \in ValidConfig) /\ ~writable
    BY <1>1, <1>4 DEF vc_mb_adapter_create, Link!vars, NextStart
  <1> QED
    BY <1>2, <1>3, <1>4

(* The only steps of a change that the promise speaks of are the write of
   the record and the configuration coming into use. *)
LEMMA JobRefines ==
    LinkInv /\ JobStep => [Link!Next]_(Link!vars)
  <1> SUFFICES ASSUME LinkInv, JobStep PROVE [Link!Next]_(Link!vars)
    OBVIOUS
  <1>0. mb = "ready" /\ job.cfg \in ValidConfig /\ active_cfg \in ValidConfig
    <2>1. job.at # "none"
      BY DEF JobStep, SaveRecord, PublishNextBoot, DisableServer, StartServer, RestoreServer
    <2> QED
      BY <2>1, JobUnderWay DEF LinkInv, JobRecord, TypeOK
  <1>1. mb' = "ready"
    BY <1>0 DEF JobStep, SaveRecord, PublishNextBoot, DisableServer, StartServer, RestoreServer
  <1>2. CASE active_cfg' = active_cfg /\ stored' \in {stored, job.cfg}
    BY <1>0, <1>1, <1>2, LinkAssumption
       DEF Link!Next, Link!Store, Link!vars, NextStart
  <1>3. CASE active_cfg' = job.cfg /\ stored' = stored
    BY <1>0, <1>1, <1>3, LinkAssumption
       DEF Link!Next, Link!Apply, NextStart
  <1>4. \/ active_cfg' = active_cfg /\ stored' \in {stored, job.cfg}
        \/ active_cfg' = job.cfg /\ stored' = stored
    BY DEF JobStep, SaveRecord, PublishNextBoot, DisableServer, StartServer,
           RestoreServer, Applied
  <1> QED
    BY <1>2, <1>3, <1>4

(* Every step of the adapter is a step of LinkConfig or leaves the promised
   state alone. *)
LEMMA NextRefines == LinkInv /\ [Next]_vars => [Link!Next]_(Link!vars)
  <1> SUFFICES ASSUME LinkInv, [Next]_vars PROVE [Link!Next]_(Link!vars)
    OBVIOUS
  <1>1. CASE PowerLoss \/ reset_work_handler
    BY <1>1 DEF PowerLoss, reset_work_handler, Restart, Link!Next, Link!Stop, NextStart
  <1>2. CASE HostStep \/ ShellStep \/ Delegated \/ UNCHANGED vars
    <2>1. mb' = mb /\ stored' = stored /\ active_cfg' = active_cfg
      BY <1>2 DEF HostStep, ShellStep, Delegated, vars, adapter_write_next_boot_field,
            ParamSave, ParamLoad, ParamFactoryReset, sys_status_request_reset,
            modbus_adapter_set, modbus_adapter_config_save, modbus_adapter_config_load,
            modbus_adapter_config_factory, Locks
    <2> QED
      BY <2>1 DEF Link!vars, NextStart
  <1> QED
    BY <1>1, <1>2, BootRefines, JobRefines DEF Next

(* The adapter implements LinkConfig: a configuration stored for the next
   start survives power loss at any step and is the one the next start uses. *)
THEOREM AdapterImplementsLink == Spec => LinkSpec
  BY InitRefines, NextRefines, LinkInvariant, PTL DEF Spec, LinkSpec, Link!Spec
=============================================================================
