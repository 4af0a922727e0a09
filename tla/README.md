# A verification project for the power-supply board firmware and its host tools

TLA+ modules for the control core, the drivers, the register interface and the host clients of this repository,
model-checked with TLC on small instances and, where it matters most, proved with TLAPS for every value of the constants.
Source paths below are relative to the repository; `vc_channel.c:882` means line 882 of `lib/voltage_control/vc_channel.c`,
`tui/` and `gui/` are directories of `tools/psb_demo_app`.

## 1. The system

The firmware runs on Zephyr on two boards: `jw_hvb`, high voltage, whose channels have a DAC, an enable line and
measurements, and `jw_lvb`, low voltage, whose channels only switch, the first of them locked always on. A host talks
Modbus over RS-485 to it; C++ tools on the host configure, monitor and calibrate the boards.

| Component | State | Operations | Talks to |
|---|---|---|---|
| `vc_channel.c` | state machine, output, ramp, recovery, fault, measurement and calibration fields of one channel | run (samples, protection, ramp, recovery), output action, fault command, config and calibration writes, calibration session | driver (set_output, set_enable), called by the controller |
| `vc_controller.c` | the channels, operating mode, calibration unlock and watchdog, system config | mode switch, unlock and exit, tick, channel commands, SAVE / LOAD / FACTORY_RESET | channels, storage backend |
| `vc_storage_settings.c` | keys `vc/sys`, `vc/chN/cfg`, `vc/chN/cal` | save, load, erase | Zephyr settings (NVS) |
| `vc_runtime.c` | lifecycle, operation count, command queue, wake semaphore, mutex | create, destroy, register read and write, submit, worker loop, boot load, calibration sample | one worker thread, any number of frontend threads, driver callbacks |
| `hvb_vc_channel.c`, `lvb_vc_channel.c`, `ads1232.c` | sampling phase, pending ADC read, averages | sampling cycle, time-outs, read-out by interrupt and work item | measurement buffers, wake callback |
| `modbus_adapter.c` | active, next-boot and stored link configuration, RTU server | register writes, parameter actions, reconfiguration, `mb` shell commands | settings, Modbus server, voltage controller |
| `modbus_register.c`, `reg_catalog.c` | word latch; descriptor table | register-by-register transactions, access checks | register owners |
| `vc_shell.c` | none | text commands as register accesses | register catalog, past the wire's gates |
| `sys_status`, `sys_reset`, `sys_uptime` | environment readings, a delayed reset | sample, request reset | register catalog |
| `tools/psb_modbus_core` | capabilities a session knows; topology | blocks of transactions; topology rules, load, save | boards over Modbus, files |
| `tui/` | sessions, one worker per bus, work queues, pending removals, topology and its wizards | connect, disconnect, write, hot attach, remove, quit; edits of the topology | boards, files |
| `gui/` | two event queues, caches of the worker, what the window shows | connect, disconnect, writes, polls | one board |
| `cli/main.cpp` | none | one script of blocks per command | one board |
| `tools/factory` | calibration sequence | instruments, fits | one board |

What is hard in it: a channel is several state machines at once (output, ramp, graceful disable, retry, fault,
calibration) whose flags outlive each other; mode switches, factory resets and watchdog expiries cut across them; ticks
come early and late; integers are 16 and 32 bits wide; storage can fail and the board can reset at any point; threads
share a queue, a lock, a count and a semaphore with no lock around the lifecycle; edges and answers get lost or come
late; a Modbus transaction is not atomic on the board; and the host tools share sessions and copies of the topology
between threads and dialogs. `PROJECT.json` lists these hazards one by one with their lines and the properties aimed at
them.

What makes the components correct:

- channel: no rise of the output under a fault, zero under a hard fault, targets in range, the hardware in step with
  the state, graceful disables and due recoveries that end, the retry budget;
- controller: one calibrated channel at a time, calibration sessions that end and do not survive a reset, channels
  enabled on entry to AUTOMATIC, locked channels that stay on;
- storage: what was saved can be loaded again, whatever access failed;
- runtime: no pointer into a dead stack frame, every operation and every destroy ends;
- sampling: a reading is published as what it is, sampling never dies, calibration samples are fresh;
- adapter: the registers tell the truth about the record and the server, the host loses its link only to the port;
- registers: wire, owner, shell and host library agree on what a channel supports; words belong to one value;
- terminal client: no destroyed session is polled, removals and the quit end, one driver per port unless its
  boards' port fields are edited, names stay unique;
- graphical client: the window converges to what the board has, and says so when the board is gone.

## 2. Modules

| Module | Models | How it corresponds to the code |
|---|---|---|
| `VcRamp` | arithmetic of `vc_channel.c` | `ramp_loop` is the while loop of `vc_channel_tick_ramp` as a recursive function; `ramp_walk` is its closed form. Widths are parameters (`IntMax` is `INT16_MAX`). |
| `VcChannel` | `vc_channel.c` | `struct vc_channel` is a record; every function that changes it is an operator of the same name from record to record, or to `[st, ch]` when it returns a status. |
| `VcController` | `vc_controller.c`, `vc_storage_settings.c`, dispatch and boot load of `vc_runtime.c` | `ctrl` is `struct vc_controller`, `nvs` the stored keys. One action per command of `vc_runtime_dispatch_command`, `Tick`, `ConsumeFault`, `Reboot`. |
| `VcControllerLive` | the same under the worker's clock | history variables for time and for the last command; fairness; liveness properties. |
| `VcRetryLog` | the same beside an observer | a history variable with the true age of every retry since the reset, up to the longest window that can be written (`LongestWindow`). |
| `VcDocumented` | claims of the documents | formulas that the guides and specifications state and the code does not keep. |
| `VcRuntime` | the threads of `vc_runtime.c` | one step per atomic operation, semaphore operation and critical section; program counters for the owner, the worker and each client. |
| `Ads1232` | `ads1232.c` and the converter | the steps of an asynchronous read under the driver's lock, the interrupt, the work item; the converter runs freely and is external. |
| `VcSampling` | `hvb_vc_channel.c`, `lvb_vc_channel.c`, the sample wait of `vc_runtime.c` | extends `Ads1232`; one board per behaviour. A reading is the input it was converted from and the DAC write it results from. |
| `LinkConfig` | what the adapter promises | two variables: what the next start uses, what is in use. |
| `ModbusAdapter` | `modbus_adapter.c`, `modbus_adapter_shell.c`, `sys_reset.c` | `job` is the change under `mb->lock`; one action per step of it that can fail or be cut by a power loss. |
| `VcCatalog` | register tables of `vc_regs.def`, `modbus_view.def`, support rules of `vc_runtime.c` and `modbus_register.c` | sets and sequences of register names; two support predicates, the owner's and the wire's. |
| `VcShell`, `PsbCli` | `vc_shell.c`, `cli/main.cpp` | each command as the script of its accesses. |
| `BoardSession` | `psb_board_session.cpp`, `psb_serial_bus.cpp` | each operation as its transactions, given the capabilities the session knows. |
| `RegisterAccess` | the composition of the four with the calibration gates | the host's transactions advance register by register, the shell step by step; answers may be lost. |
| `TuiRuntime` | threads of `tui/main.cpp`, `board_dashboard.h`, `board_session.h` | program counters for the UI thread and each bus worker; sessions are absent, live or freed. Each session has its port field (`portVal`), each worker its first board (`front`, by whose field its bus is found) and the port it opened last (`busPort`). |
| `Topology` | `topology_rules.cpp`, `topology_config.cpp`, both wizards, in-place names, live apply and removal of `tui/main.cpp` | a topology is a record of sets; every rule is an operator of the same name; one action per button. `sessions` counts the live, leaving and detached sessions of each nickname and port; `edited` says that a port field was edited, after which an Apply may find any worker for a bus. |
| `GuiBackend` | `modbus_backend.cpp`, `modbus_worker.cpp` | two queues of events; the worker's caches and the window as records. |
| `*_proofs` | theorems | see section 5. |
| `MC*` | instances for TLC | constants of the runs. |

All mutations of the controller run on the worker thread under the runtime's mutex, so a command or a tick is one
action of `VcController`; `VcRuntime` looks at the threads around it and treats a dispatch as a critical section.
`RegisterAccess` in turn takes a command to the owner as one step (that is what `VcRuntime` shows it to be) and keeps of
the controller only what gates an access: mode, unlock handshake, calibration output. `TuiRuntime` and `Topology` look at
the same removals from two sides: the first at threads and pointers, the second at names.

Abstractions. Time is counted in quanta; delays, intervals and windows are small numbers of them, and the 32-bit
millisecond counters wrap at `UptimeMod`. Fault causes and status bits are sets. A retry time stamp is kept as its age,
the unsigned difference the code computes, reduced modulo `UptimeMod`. `hw` is what `apply_hw` last asked of the driver;
the driver is taken to obey. A sample in a tick is raw counts or none, and calibration gains are applied to it as in the
code. A field write holds the value after the code's casts. What the devicetree gives a channel is its capabilities and
`OffByDefault`, the channels marked `default-output-disabled`; the current offset it may also set is data. Register values are abstract but for those that gate
control and the two words of wide registers. In `Topology` the lists are sets (no property depends on their order),
empty names, which every rule refuses, are left out, and a file holds what was saved or, after a write that failed, nothing
that loads: a file edited by hand, or cut off so that it still parses, is not a state of the model. A session's address is
left out. In `TuiRuntime` a board is attached at most once (after an edit of a port field an Apply may attach it again),
of several workers found for a port any is taken where the code takes the first, and the port field, a string that the UI
thread writes and a worker reads without a lock, is written at once.

Left out of these components: getters and snapshots, the raw ADC latches of the channel, `last_fault_timestamp`,
`last_protection_output_action`, `vc_controller_cal_heartbeat` (no caller in production), invalid channel indices (refused
before any state is touched), a second create after a destroy in `VcRuntime`, the blocking read of `ads1232.c`, the
session's message journal, the scan for boards, group dashboards, the GUI's refresh-all button (it queues the jobs of a
connect again). `vc_channel_consume_fault` has no caller in this tree beyond the tests; it is the channel API's fault
input, and `DriverFaults` says which causes a run feeds it.

## 3. Runs

| Run | Checks | Bounds and why they are enough |
|---|---|---|
| `MCVcRetry` | `TargetKeepsRange`, `HardFaultHoldsZero`, `NoRiseWhileFaulted`, `RetryBudget` | One DAC channel with all output actions and fault commands, hardware faults, and targets, the retry window and the ramp steps rewritten and the graceful trip switched off at any time. Words of -5 to 4 with targets up to 3: of the steps written one wraps a sum (4), one is negative after its cast (9). History and budget of one retry, delay of 1 quantum, windows of 1 and 2 on a clock that wraps at 5: the history is at its limit after one retry, retries follow each other inside and outside the window, and the clock goes round between them. |
| `MCVcCalibration` | `HwDriveFresh`, `CalExclusive`, `EnterAutomaticEnables` | Two DAC channels, all modes, codes at 0, at and above the limit, watchdog of 2 quanta, voltage samples, interlock faults, factory reset, reboot. |
| `MCVcStorage` | `TypeOK`, `SavedConfigLoads` | One DAC channel from blank settings; every save, load, reset and delete may fail; calibration writes and commits; reboot between any two steps. |
| `MCVcLvb` | `LockedStaysOn` | A locked and a switchable fixed-voltage channel, both tripping and retrying; writes of fields they lack. |
| `MCVcLive` | `GracefulDisableEnds`, `CalSessionEnds`, `RecoveryHappens` | One DAC channel; disables from the host and from mode switches, ramp-down steps of 0 and 2 at an interval of 2 quanta, ticks of 0 and 1 quanta, calibration sessions whose commands reset the watchdog, retries with current safe or not at each tick. |
| `MCVcRuntime` | `NoDanglingResult`, `ServedUntilDestroyed`, `DestroyEnds` | Two clients, queue of 1, a destroy at any moment: the queue fills, one client waits for admission while the other is served, and the last operation races the destroy. `ServedUntilDestroyed`: an operation ends unless a destroy begins. |
| `MCVcSampling` | `ReadingsOfTheirKind`, `SampleAtMostOneCycleOld`, `AverageOfOneWindow`, `SamplingGoesOn` | The four kinds of channels; two reads overtaken by a time-out or a stop, DAC written twice after the start, so that a reading can be two writes old; windows of 3. |
| `MCModbusAdapter` | `NextBootIsStored`, `DownOnlyIfRefused`, `LinkSpec`, `ChangesAndResetsEnd` | Two valid and one invalid slave address and baud code; storage that starts empty, valid or bad; every access and every start may fail; power loss and reset at any step. |
| `MCRegisterAccess` | `SystemWordsWhole`, `RequestsServed`, `CalOutputOnlyInCal` | One channel with each of four capability sets (both boards' and two others), every operation of the library and the command line against every shell command; any answer may be lost. |
| `MCTuiRuntime` | `PollUsesLiveSessions`, `PendingNamesWorker`, `OneDriverPerPort`, `PolledPortIsOpen`, `RequestsEnd` | Two boards on a port, a third attached to it later; three clicks (a removal of two and an attach, or a connect, an abort and a removal, or a port field emptied and filled again), queues of 2, one worker torn down and another started. One port and an empty field: a board whose field was emptied is not found when another is attached to its bus, and a second worker opens the port. More ports are left to the proof and to `DocTuiPort.cfg`. |
| `MCTopology` | `EndpointsUnique`, `OneGroupUnlessMerged` | Two nicknames, ports, addresses, groups, aliases and files, one channel per board, eight edits: a board is grouped, removed with an Apply and its nickname taken over by another, the shortest way into the excepted case of `OneGroupUnlessMerged`. |
| `MCGuiBackend` | `LinkShown`, `StaleOnlyAfterLoss`, `ShownConverges`, `OfflineShown` | Two boards, one written value, offline after two failures, three clicks (connect to one, then to the other, and a write), answers lost at will. |

Every property has a mutant of the code that breaks it (`PROJECT.json`, "mutants"). `TypeOK` of the controller is checked
by `MCVcStorage`, where failing storage could break it; the type invariants of the other modules say what the variables
hold, are proved for `ModbusAdapter`, `RegisterAccess`, `Topology`, `VcRuntime`, `TuiRuntime`, `VcSampling` and `GuiBackend`, and
hold on the instances of the runs when `TypeOK` is added to a configuration. `AliasesUnique`, `GroupDraftHasBoards`, `PathFollows` and
`ActiveIsServed` are proved (section 5) and left out of the runs for that reason; `MCTopology.cfg` and
`MCModbusAdapter.cfg` check them when they are added.

`CHECK_DEADLOCK FALSE` is set where the system really may stop: in `VcRuntime` after a destroy, in `TuiRuntime` after the
quit, in `Topology` and `GuiBackend` when the user has used up the bounded edits and clicks and nothing is under way.

Refinement. `LinkSpec` is `LinkConfig`'s specification under the mapping of `ModbusAdapter` (`next` is the record as the
next start will read it, `active` the configuration in use while the adapter is ready). It says that a configuration
written for the next start survives a power loss at any step and is the one used, unless the record cannot be read.

Fairness. In `VcControllerLive`, time goes on in ticks: `vc_runtime_worker` takes its semaphore with a time-out of one
tick interval and ends every pass with a tick. This assumes that the inner loop, which drains the queue, comes to an
end: a frontend submits one command and waits for its answer, over a slow serial line. In `VcRuntime`, every thread that
can run does (weak fairness of the steps of the worker, of the clients inside an operation and of the owner inside a
create or destroy); a mutex and a message queue hand over to a waiting thread, so the steps that wait for them are
strongly fair; a sample wait has a deadline. In `VcSampling`, the converter converts, timers fire, and the work queues
run what is queued. In `ModbusAdapter`, a thread inside a change goes on and the delayed work runs. In `TuiRuntime`, frames are drawn (the animation thread
posts events all the time) and the workers run: their waits have time-outs. In `GuiBackend`, both event loops run and the
poll timer fires. No fairness is assumed of users, hosts, shells, measurements, answers or the start of operations.

## 4. Where the code and its documents disagree

Met while modelling. The configurations named here are not part of the runs above, which all pass; each checks one
statement of a document or comment with TLC and shows the behaviour of the code that contradicts it, for example
`tlc -config DocEnableTarget.cfg MCVcController`.

| Configuration (module) | The document | The code |
|---|---|---|
| `DocEnableTarget` (`MCVcController`) | `docs/superpowers/specs/2026-06-15-voltage-control-domain-behavior.md:111`: "A later `Enable` ramps toward the unchanged Configured Target Voltage unless blocked by safety." | `vc_channel.c:828`: an ENABLE after an interrupted retry ramps to the old recovery target. |
| `DocCooldownMode` (`MCVcController`) | `docs/guide/operating-mode-guide.md:144`: RetryCooldown is "Only reachable in Automatic mode". | `vc_controller.c:314`: a system LOAD refused for a fault has already replaced `sys_cfg`, whose mode the recovery reads. |
| `DocCalReset` (`MCVcController`) | `docs/guide/vc-runtime-execution.md:409`: leaving CALIBRATION resets all channels. | `vc_controller.c:461`: the system factory reset assigns the mode; a calibration output stays on. |
| `DocDefaultOff` (`MCVcController`) | `dts/bindings/voltage_control/jianwei,lvb-vc-channel.yaml:57`: `default-output-disabled` makes the "configured_output_enabled factory default" of a channel false. | `vc_controller.c:521`: a channel FACTORY_RESET takes the defaults of the build and not the driver's, so that the channel starts on at the next AUTOMATIC. |
| `DocRampStep` (`MCVcController`) | `docs/guide/parameter-reference.md:316`: a step of 50000 is "effectively instant". | `vc_channel.c:882`: a step above 32767 is negative after its cast, and one below it may wrap the sum. |
| `DocDestroy` (`VcRuntime`) | `include/voltage_control/vc_runtime.h:63`: "block until the worker thread processes it". | `vc_runtime.c:71`: the three steps of a release let a destroy through while a client that entered in between is counted; its command is never served. The production main never destroys the runtime; the tests do. |
| `DocCalSample` (`MCVcSampling`) | the comment at `vc_runtime.c:660-667`: a sample waits for a reading of the new output. | `vc_runtime.c:719`: it waits for the buffer to advance once; the conversion may have begun before the write, and at the time-out the old reading is latched. |
| `DocWordLatch` (`MCRegisterAccess`) | `docs/superpowers/specs/2026-06-28-typed-canonical-register-catalog-design.md:49-51`: "A normal ascending Modbus read of a 32-bit scalar latches the high-word value for the immediately following low word". | `modbus_register.c:294`: the gates of a channel register read other registers between the words, which drops the latch. |
| `DocTuiRemove` (`MCTuiRuntime`) | the comment at `tui/main.cpp:205-209`: a session is destroyed only after "the owning BusWorker thread has confirmed it will never touch this pointer again". | An item queued behind the removal of its board runs on the destroyed session. |
| `DocTuiPort` (`MCTuiRuntime`) | the comment at `tui/board_session.h:78-84`: a `BusWorker` is "One physical bus — owns exactly one worker thread", because "exactly one thread must ever drive a given bus". | `tui/main.cpp:464`: the worker of a bus is looked up by the port field of its first board, which the connection dialog rewrites (`tui/board_dashboard.h:138-142`, `297-298`); after an edit a second worker is started on an open port, or a board opens a port that another worker drives. |
| `DocTopologyMove` (`MCTopology`) | the comment at `tui/main.cpp:859-861`: of what is gone and what is new "the two sets are always disjoint (a board can't be both removed and newly-added in the same edit)". | `tui/main.cpp:571`, `467`: removed is a board whose nickname is gone, new one that its bus does not have; a board taken from one bus and added to another in one edit gets a second session while the first stays live. |

Smaller disagreements and hazards that the code does not exclude:

- Channel: CLEAR_ACTIVE enters DisabledSafe without `apply_hw`; the enable line may stay on (`vc_channel.c:765`; the drive
  is zero, which is `HwDriveFresh`). The end of a graceful trip's ramp leaves FaultLatched with the fault active
  (`vc_channel.c:895`). DISABLE_GRACEFUL on a faulted dark channel switches its hardware on, at the target it has
  (`vc_channel.c:723`; `NoRiseWhileFaulted` still holds). Left-over time in `ramp_accum` lets a ramp take several steps in
  a tick (`vc_channel.c:877`). A retry with nothing to ramp stays in RetryCooldown (`vc_channel.c:433`).
  `vc_channel_reset_calibration` leaves `ramp_to_disable` set; the next retry stays at zero (`vc_channel.c:912`). Retries
  count again when the 32-bit clock has gone round (`vc_channel.c:357`; `RetryBudget` still holds). `apply_hw` ignores what
  `set_output` and `set_enable` return (`vc_channel.c:141`).
- Controller: NORMAL to CALIBRATION to AUTOMATIC avoids the fault check (`vc_controller.c:196`). The system factory reset
  also leaves running outputs on (`vc_controller.c:461`). Writing STARTUP_CHANNEL_POLICY during calibration ends the
  session.
- Devicetree: `default-output-disabled` "silently has no effect on a locked always-on channel"
  (`jianwei,lvb-vc-channel.yaml:62-64`), but the enable pass of AUTOMATIC reads `configured_output_enabled` of every
  fixed-voltage channel (`vc_controller.c:236`), so that such a channel stays off; and its FACTORY_RESET is refused, because
  the defaults of the build would change the flag (`vc_channel.c:235`).
- Registers: two clients that run the unlock handshake at once can both fail. `readCalibrationSnapshot` is not gated by
  capabilities, so it is refused on channels without drive, voltage or current, and its default values are returned
  (`RequestsServed` excepts it). A lost capability answer makes the command line refuse `channel voltage` and `enable-cfg`
  with a message about the channel. `vc cal sample` prints the live buffer, not what was latched.
- Adapter: a read of the record that fails at boot, even once, overwrites it with the default
  (`modbus_adapter.c:537`; `LinkConfig`'s `StartUnreadable`). `mb set` holds `mb->lock` while the server it disables may
  wait for that lock. Repeated reset requests postpone the reset (`sys_reset.c:29`).
- Terminal client: the UI thread reads `bw.boards` without the lock while a worker erases from it. A second Remove of the
  same board queues a second removal. A hot attach to a bus whose port was closed never opens it. An abort between the
  scan's result and its publication is lost. `stopRequested` is not part of the wait's predicate, so that a join may take
  the rest of a wait. `saveModbusSettings` rejects baud codes above 1.
- Topology: a board renamed to the nickname of a removed board, whose channels the groups still list, puts a channel into
  two groups (`topology_rules.cpp:111`), where the design says "at most one group at a time"
  (`docs/superpowers/specs/2026-07-23-topology-group-channel-naming-design.md:87`). A board added again under its
  nickname before its removal has ended is taken for running and then erased (`tui/main.cpp:250`, against the comment at
  237). A group wizard that is open while a removal ends brings the board back on Exit (`tui/main.cpp:946`). A rename whose
  save fails stays in memory while the session keeps its nickname (`tui/main.cpp:824`). After Save and Cancel in the setup
  wizard an in-place rename overwrites what was saved (`tui/main.cpp:783`). A board whose address
  was edited keeps the session with its former address (`tui/main.cpp:470`). A save whose write fails after the file was
  opened reports success (`topology_config.cpp:141-143`).
- Graphical client: each poll queues two further jobs per channel, so that a slow line lets the queue grow (the comment at
  `modbus_worker.cpp:270` says that only real-time values are polled). Failure counts and offline flags are carried over to
  the next connection, and the identity of the former board stays on display after a lost answer (`StaleOnlyAfterLoss`
  says when). A failed discovery is not retried.

## 5. Proofs

TLAPS proves the following. The name before `!` is the module; the constants (numbers of channels, clients, boards, word
widths, what hosts write) are arbitrary, within the ASSUMEs of the modules listed at the end.

| Theorem | States |
|---|---|
| `VcController_proofs!Invariance`, `TypeCorrect` | `Spec => []Inv`, the inductive invariant; `Spec => []TypeOK` |
| `RampStaysBetween` | for any width, step, interval and accumulated time, the loop of a ramp never passes its target, and moves away from it only with a step that is negative or wraps |
| `HardwareFollows`, `CalibrationIsExclusive`, `HardFaultIsSafe` | `Spec => []HwDriveFresh`, `[]CalExclusive`, `[]HardFaultHoldsZero` |
| `TargetsKeepRange`, `FaultsHoldTarget` | `Spec => TargetKeepsRange`, `Spec => NoRiseWhileFaulted`, action properties, for every step a host may write |
| `AutomaticEnables` | `Spec => EnterAutomaticEnables`, an action property |
| `LockedChannelsStayOn` | `LockedAreFixed => (Spec => LockedStaysOn)`, an action property |
| `RetriesWithinBudget` | `CountsFit => (LogSpec => RetryBudget)`, an action property |
| `BuiltInvariance`, `SavedConfigsLoad` | `Spec => []BuiltInv`; `CommissionedHere => (Spec => []SavedConfigLoads)` |
| `VcRuntime_proofs!RuntimeInvariance`, `RuntimeTypes`, `ResultsNeverDangle` | the inductive invariant, `[]TypeOK` and `[]NoDanglingResult`, for any number of clients and any queue |
| `VcSampling_proofs!SamplingInvariance`, `SamplingTypeCorrect`, `KindsAreKept`, `SamplesAreRecent`, `WindowsAreWhole` | the inductive invariant and the four invariants of the module, for any number of time-outs, DAC writes and samples per window |
| `RegisterAccess_proofs!AccessInvariance`, `AccessTypeCorrect`, `SystemWordsTogether`, `EveryRequestServed` | the inductive invariant and the three invariants of the module, for a channel with any capabilities |
| `CalOutputGuarded` | `Spec => CalOutputOnlyInCal`, an action property |
| `ModbusAdapter_proofs!LinkInvariant`, `LinkTypes`, `NextBootTrue`, `ActiveTrue`, `LinkLostToPort` | the inductive invariant and the four invariants of the module |
| `AdapterImplementsLink` | `Spec => LinkSpec`, the refinement |
| `TuiRuntime_proofs!OwnershipInvariance`, `TuiInvariance`, `PortsInvariance`, `TuiTypeCorrect`, `PollsAreLive`, `PendingWorkersExist`, `PortsHaveOneDriver`, `PolledPortsAreOpen` | the four layers of the inductive invariant and the five invariants of the module, for any boards, ports, workers and clicks |
| `Topology_proofs!TopologyInvariant`, `TopologyTypes`, `BoardsAreUnique`, `MembersAreUnique`, `OneGroupPerChannel`, `GroupWizardKeepsBoards`, `WizardPathFollows` | the inductive invariant and the six invariants of the module |
| `GuiBackend_proofs!GuiInvariance`, `GuiTypeCorrect`, `LinkIsShown`, `StaleOnlyIfLost` | the inductive invariant and the three invariants of the module, for any boards, clicks and writes |

Hypotheses of the conditional ones. `CommissionedHere` says that what the storage
holds at the first boot is accepted by this board; blank storage is. `LockedAreFixed` says that a channel without
OUTPUT_ENABLE has no DAC, as on `jw_lvb`. With a DAC it could go dark without a fault: CLEAR_ACTIVE during a graceful
trip leaves `ramp_to_disable` set, and the ramp switches the channel off. `CountsFit` says that the budgets of the defaults
(zero in `vc_channel_default_config`) and of the storage at the first boot are at most the history's length, which
`vc_channel_set_field` checks of every write but `vc_channel_set_config` does not check of what it loads: a larger one, say
of a build with a longer history, would never be exhausted.

### The controller

`Inv` says that the controller and the settings are typed and that every channel is `Good`: `Sound` (typed, retry history
bounded, a hard-faulted channel at zero with its calibration output off, a calibration code only with the calibration
output on) and `Fresh` (the hardware has the code the state calls for, and is on if it should be). It also says that at most
one channel has its calibration output on. The properties are not inductive one by one: exclusivity counts channels with a
nonzero code as driven, so it needs the implication from code to output, and that a hard fault holds zero needs the shape of
every handler that could set a target. The first part of `VcController_proofs` proves per operator of `VcChannel` that it keeps a channel good
and switches no calibration output on; the second lifts this to the operators of the controller and then to one step per
action. `TargetsKeepRange` and `FaultsHoldTarget` rest on `RampStaysBetween`: a ramp lands between where it was and its
target unless the 16-bit arithmetic of its step wraps, and the targets a ramp aims at are in range (`Sound`).

The channel model steps with the closed form `ramp_walk`; that it is the loop of the code is the lemma `LoopWalks`, for
every width of a word. It needs no induction. `ramp_loop` is a recursive function, so a value chosen to satisfy the loop's
recursion. The closed form satisfies it (`WalkUnrolls`): a step that does not arrive leaves the direction as it was, and the
steps after it lead where those of the whole ramp lead, one number later (`StepsGoOn`, modular arithmetic, since the sums of
the code may wrap), so that the least arrival is one less and the accumulator one interval shorter. No other function
satisfies it: where one differed from the closed form with the least accumulated time, a turn of the loop would lead to less.

The action properties follow from relations between the channel before and after a step, again one lemma per operator of
`VcChannel`. `Follows(c, d)`: the configuration of `d` is one that `c` could have been given, the target is left alone or
set to zero (`Holds`), and a channel built always on (`AlwaysOn`: neither switch nor DAC, nothing under way that would
switch it off) is still such a channel. `Ticks(c, d)` says of the target only what the ramp keeps (`Moves`): its range and,
while a fault stays active, its height. `StaysLit(c, d)`: `d` is dark only if faulted. `Passes` and `Step` in
`VcController_proofs` are the relations of the controller: every channel follows or ticks, stays lit outside calibration,
and a switch into AUTOMATIC has enabled what wants output. Composition is the delicate part. A tick runs protection, ramp
and recovery one after the other; protection and recovery hold the target, so that the ramp alone moves it, and what
protection leaves is an output or a fault, of which the recovery must keep one (`RemainsLit`). A boot is not such a step: `LoadedInv`, `AutoLoadInv` and `AutoLoadBuilt` treat `auto_load` on its own.

`BuiltInv` is what makes saved configurations loadable: at any time the running configuration is one that
`vc_channel_set_config` accepts of a channel just booted (`Built`). `vc_channel_set_field` checks less than
`vc_channel_set_config` and compares with the running configuration rather than with the defaults, so the lemma needed
(`SetFieldFollows`) is that every field which a channel may write is either free for its capabilities or unchanged; what is
saved is then a running configuration.

`RetryBudget` compares two lists of different lengths: the history `h` of a channel, bounded, with ages that wrap and that
stand still in calibration, and the retries `r` that an observer with a true clock saw. The invariant is `Witnesses(h, r)`:
counted from the youngest, no entry of `h` is older than its partner in `r`, and `h` is shorter only if it is full. Time can
only make `h` seem younger (`OlderWitnessed`), recording in place of the oldest keeps the partners (`RecordWitnessed`), and so
would a retry in the tick of its own trip (`UncountedWitnessed`), which the proof therefore need not exclude. A history that
counts fewer retries than it can hold has counted all that the observer counts (`CountsAll`, by an injection of the one set
of indices into the other), so that `retry_count < auto_retry_max_count` in the code bounds the true number. `Calm` says
that no command touches the history and that budgets go on fitting it; `Spends` says what a tick does to it. `RetryBudget` is
about the retry being made: lowering `auto_retry_max_count` does not undo those made before.

### The runtime

`RuntimeInv`: `active_operations` is the number of clients between the increment of `vc_catalog_acquire` and the decrement
of `vc_catalog_release` (`CountIsExact`, a cardinality, so that increments and decrements need
`FS_AddElement` and `FS_RemoveElement`); the worker has a command in hand exactly between the take and the answer
(`ServingInHand`), and a result given has a client that waits for it or is about to (`ResultAwaited`); who holds the mutex
is inside a critical section; before the runtime is published nobody has passed its lifecycle check
(`BeforeRunning`), so that its reset disturbs nobody. `NoDanglingResult` is the last part; the others make it inductive.

### Sampling

`SamplingInv` has five parts. `Window`: the counters of an averaging window account for each other. `ReadProtocol`: while a
read is under way, the read-out is owed either by the armed edge or by the submitted work, never by both or none.
`Mixing`: every reading published as the other kind is paid for by a time-out or stop, one that may still come is paid for
already (`Debt`). `Ages`: how old the readings on their way, at the pin, in the buffer and published may be with respect
to the DAC writes that the calibration sample under way and the one before it began with.

### The registers and their clients

`AccessInv` is about what is still to be done. For the host (`HostOk`): in what is left of a transaction every 32-bit register
comes twice in a row (`Words`), and after a high word was read of a system register, `latch` holds that register; so a low
word never meets a foreign latch. That a block is never cut between two words is a fact about the register tables and the
split points of the library (`Paired`, `PartWords`). Channel registers need no such claim, as their gates drop the latch
(`DocWordLatch.cfg`). `Fits` says that every register left is one the board serves in whatever mode it may be by then: the
session knows either nothing or the capabilities of the channel, and one lemma per operation of the library compares what
it asks for, given these, with what the owner and the wire support. For the shell (`ShellInv`): the steps left read nothing
unsupported and, within the unlock command, the handshake is as far as its next step requires unless the host meddled.
The ghost `params` marks the steps that are system parameter actions; of all ways out of calibration only these may leave
the calibration output on. `CalOutputGuarded` needs only types: it goes through what the owner does with each command, because the wire's check of the
mode may be outdated when the command arrives.

### The link configuration

`LinkInv` adds to the invariants what ties the change under way to the rest: a change is done by a running adapter, at
"publish" the record is already the new one, at "start" and "restore" there is an interface, and the record does not move
under a load. The refinement takes one lemma per action: it is a step of `LinkConfig` or a stutter; only the write of the
record moves `next`, and only the end of a reconfiguration, a boot or a stop moves `active`.

### The terminal client

`TuiTypes` says which program counters have an item in hand. `Ownership` gives every created session one worker for good
(`Belongs`): only that worker's list, queue, snapshot and pending removals name it. From this follow that no destroyed
session is polled (a worker detaches a board itself, before it reports the removal done and the UI thread destroys the
session). `PortInv` explains every closed port: a board shown as connected on it is one
that the user asked to disconnect or one whose connect is already queued; for that a queued disconnect needs to be still
wanted or overtaken by a connect behind it (`DisconnectIsWanted`).

Which port a worker has is the fourth layer. `Kept`: a live session is in its worker's list or on its way out, the first
of a list is in it, and a worker without boards has a removal pending that will tear it down. `Apart` is about the workers
of which no board was given another port (those not in the ghost `strayed`): all sessions such a worker may still use have
one port field, an open bus is open on that port, and no two of them with boards have the same. For that `applyNewBoardsLive`
has to find the worker of a port whenever one has boards, open or closed, and `doConnect` has to open what the first board
names. An edit of a field ends this for the worker it strays from, and only for that one: `OneDriverPerPort` says what is
left. The launch of a worker needs that
a port always has a name for one (`WorkersAssumption`).

### The topology

`Inv` restates the invariants per topology (`Known`), so that each rule needs one lemma: from a sound topology and the
rule's own checks to a sound topology. Renaming is where the checks matter: a nickname is looked for on every bus because
boards of different buses must differ, a group's new name is free and so has no members that could collide (members are in
groups of the topology, which is why that is part of the type), and the alias checked is the one stored. `renameBoard` keeps
channels in one group only if no group lists the new nickname, which is the exception of `OneGroupUnlessMerged`.

### The graphical client

The invariants speak of empty queues, so the inductive invariant says what the queues hold until then. `EndsUp(q, kind,
shown, what)`: once the signals of `q` are handled, the window shows `what` - either the last signal of that kind brings it,
or there is none and it is shown already. `LinkFollows` is this for the link and the worker's session; `TimerRuns` says that
a stopped poll timer of a connected window has its disconnect still to come. `FreshOrDue` holds as long as nothing was lost
since the connect: the system information, the capabilities and the configuration each follow in this sense, or a job or
signal that brings them is still queued. For the configuration, a queued read is enough only if it will not be refused
because of the capabilities of a former board: they are those of the session already, or a channel discovery is queued
before it (`ConfigDue`). One lemma, `AskKeeps`, serves the seven jobs that ask the board, by what each of them does to the
caches and emits. That a discovered board's channels are read at all rests on `LinkFollows` again: `onSysInfoReady` asks
only if the window is connected, and if no "connected" signal is waiting it is (`ConnectedShown`).

### Assumptions, and what is left to TLC

The assumptions are the ASSUMEs of the modules: the types of the constants, default values of the right type, a default
target of zero and current protection off by default (`vc_channel.c`, `vc_channel_default_config`), host writes of the type
of their field when the field check admits them, start topologies that the rules could have built, worker names for every
port.

Only model-checked: liveness (`GracefulDisableEnds`, `CalSessionEnds`, `RecoveryHappens`, `ServedUntilDestroyed`,
`DestroyEnds`, `SamplingGoesOn`, `ChangesAndResetsEnd`, `RequestsEnd`, `ShownConverges`, `OfflineShown`), which is out of
the prover's reach.

## 6. Plan

Done: channel, controller, storage, runtime, sampling, adapter, registers and shell, the host library's transactions, the
terminal, command-line and graphical clients, the topology; their runs; the theorems above. Left:

1. `VcRuntime`: an abstract command service (a request is pending, then answered once) that it implements, and a create
   after a destroy.
2. The factory calibration sequence over `BoardSession`.

## 7. Not modelled

`ad5541` (one SPI transfer per write), `sys_status`'s environment sampling (two atomics fed by a sensor), the demos (bench
programs), the screens and dashboards of the host tools, the factory tools' instruments, fits and reports; the Modbus
server, the settings subsystem and the Qt and FTXUI event loops are external and modelled from how the code uses them.
