--------------------------- MODULE RegisterAccess ---------------------------
(***************************************************************************)
(* Two clients of the register catalog of a board with one channel: the    *)
(* host, whose Modbus transactions the server thread carries out register  *)
(* by register (modbus_register.c), and the shell (vc_shell.c).  Between   *)
(* two registers of a transaction, and between the check the wire makes of *)
(* a write and the command it sends to the owner, the shell may run a      *)
(* command, a 32-bit value may change and the calibration watchdog may     *)
(* expire.  Answers may be lost on the line.                               *)
(***************************************************************************)
EXTENDS VcShell, PsbCli

CONSTANTS Boards    \* the capability sets of the channel to consider

VARIABLES
    caps,           \* the capabilities of the channel, fixed in hardware
    mode,           \* "calibration", or "normal" for the two other modes
    unlock,         \* 0 locked, 1 after the first step, 2 cal_unlocked
    calOut,         \* calibration_output_enabled of the channel
    latch,          \* word_latch: the register whose value it holds, or "none"
    host,           \* the operation the host is in
    shell,          \* the steps left of a shell command
    refused,        \* ghost: the access refused in the last step
    meddled,        \* ghost: the host touched the handshake of the shell
    params          \* ghost: the last step was a system parameter action

owner == <<caps, mode, unlock, calOut>>
vars == <<caps, mode, unlock, calOut, latch, host, shell, refused, meddled, params>>

NoLatch == "none"

(* The blocks and transactions still to do, the name of the present block,
   the capabilities the session knows, whether a high word was received last
   and the register whose two words were just received from two values. *)
Idle(known) ==
    [blocks |-> <<>>, txs |-> <<>>, name |-> "none", at |-> "gate", known |-> known,
     hi |-> FALSE, torn |-> "none"]

Init ==
    /\ caps \in Boards
    /\ mode = "normal"
    /\ unlock = 0
    /\ calOut = FALSE
    /\ latch = NoLatch
    /\ host = Idle({})
    /\ shell = <<>>
    /\ refused = "none"
    /\ meddled = FALSE
    /\ params = FALSE

-----------------------------------------------------------------------------
(* The owner of the registers: the commands of the voltage controller, as
   far as the calibration session goes.  ok is the status returned.         *)

NeedsCalibration == CalCommands \cup CalCoefficients \cup CalExponents

\* Mutant: the end of a session forgets its output.
Leave_keeps_output == mode' = "normal" /\ UNCHANGED <<calOut, unlock>>

(* A mode switch resets the channels of a calibration session it ends; the
   factory reset assigns the mode and leaves them as they are. *)
Leave ==
    mode' = "normal" /\ calOut' = (calOut /\ mode # "calibration") /\ UNCHANGED unlock
FactoryReset == mode' = "normal" /\ UNCHANGED <<calOut, unlock>>
Same == UNCHANGED <<mode, calOut, unlock>>

calibration_unlock(v, ok) ==
    /\ UNCHANGED <<mode, calOut>>
    /\ \/ v = "STEP1" /\ unlock' = 1 /\ ok
       \/ v = "STEP2" /\ unlock = 1 /\ unlock' = 2 /\ ok
       \/ v = "STEP2" /\ unlock # 1 /\ unlock' = 0 /\ ~ok

set_operating_mode(v, ok) ==
    \/ /\ v = "calibration" /\ mode # "calibration"
       /\ \/ unlock = 2 /\ mode' = "calibration" /\ unlock' = 0 /\ calOut' = FALSE /\ ok
          \/ unlock # 2 /\ ~ok /\ Same
    \/ v = "calibration" /\ mode = "calibration" /\ ok /\ Same
    \/ v = "normal" /\ ok /\ Leave
    \/ v = "normal" /\ mode = "normal" /\ ~ok /\ Same

cal_output_enable(v, ok) ==
    \/ mode = "calibration" /\ ok /\ calOut' = (v = "on") /\ UNCHANGED <<mode, unlock>>
    \/ ~ok /\ Same

(* vc_catalog_write: the capability, then the command.  A system field is
   written with the configured mode, and so ends a calibration session; a
   parameter action may do so as well. *)
vc_catalog_write(f, v, ok) ==
    /\ UNCHANGED caps
    /\ params' = (f = "SYS_PARAM_ACTION")
    /\ \/ ~vc_catalog_supported(f, caps) /\ ~ok /\ Same
       \/ /\ vc_catalog_supported(f, caps)
          /\ CASE f = "CAL_UNLOCK" -> calibration_unlock(v, ok)
               [] f = "OPERATING_MODE" -> set_operating_mode(v, ok)
               [] f = "CAL_EXIT" -> \/ mode = "calibration" /\ ok /\ Leave
                                    \/ mode # "calibration" /\ ~ok /\ Same
               [] f = "STARTUP_CHANNEL_POLICY" -> ok /\ Leave
               [] f = "SYS_PARAM_ACTION" -> Same \/ (ok /\ (Leave \/ FactoryReset))
               [] f = "CAL_OUTPUT_ENABLE" -> cal_output_enable(v, ok)
               [] f \in NeedsCalibration \ {"CAL_OUTPUT_ENABLE"} ->
                       (ok => mode = "calibration") /\ Same
               [] OTHER -> Same

vc_controller_tick_watchdog ==
    /\ mode = "calibration"
    /\ Leave
    /\ refused' = "none" /\ params' = FALSE
    /\ UNCHANGED <<caps, latch, host, shell, meddled>>

(* A driver fault cuts the output of its channel in every mode. *)
vc_channel_consume_fault ==
    /\ calOut
    /\ calOut' = FALSE
    /\ refused' = "none" /\ params' = FALSE
    /\ UNCHANGED <<caps, mode, unlock, latch, host, shell, meddled>>

-----------------------------------------------------------------------------
(* The wire                                                                *)

\* Mutant: the low word is always read afresh.
read_wire_fresh(l, f, low) ==
    [fresh |-> TRUE, latch |-> IF f \in Wide /\ ~low THEN f ELSE NoLatch]

(* read_wire, of a register the owner supports: whether the word comes from
   the owner, and the latch after.  The low word comes from the latch when it
   holds the same register; the high word sets it; another register that is
   read clears it.  A register that is reserved or write-only answers zero
   and leaves the latch alone. *)
read_wire(l, f, low) ==
    CASE f \in WriteOnly \cup {"reserved"} -> [fresh |-> FALSE, latch |-> l]
      [] f \in Wide /\ ~low -> [fresh |-> TRUE, latch |-> f]
      [] f \in Wide /\ low -> [fresh |-> l # f, latch |-> NoLatch]
      [] OTHER -> [fresh |-> TRUE, latch |-> NoLatch]

(* A 32-bit value that may change between the reads of its two words. *)
Changing == Wide \ {"FW_VERSION"}

(* A channel access first reads the channel count and the capabilities, and
   so clears the latch. *)
GateLatch(scope) == IF scope = "ch" THEN NoLatch ELSE latch

(* vc_reg_read_ch_input, vc_reg_read_ch_holding, and the owner behind them;
   the raw values are served in calibration mode only. *)
Readable(fn, scope, f) ==
    scope = "ch" /\ f # "reserved" =>
        /\ IF fn = "input"
           THEN /\ ch_input_supported(f, caps)
                /\ is_ch_cal_input_reg(f) => mode = "calibration"
           ELSE ch_holding_supported(f, caps)
        /\ f \notin WriteOnly => vc_catalog_supported(f, caps)

(* vc_reg_write_ch_holding before it calls the owner. *)
Writable(f) ==
    /\ ch_holding_supported(f, caps)
    /\ is_ch_cal_holding_reg(f) => mode = "calibration"

-----------------------------------------------------------------------------
(* The host: blocks of transactions, one register at a time                *)

Tx == Head(host.txs)
Reg == Head(Tx.regs)
Busy == host.txs # <<>>

NextRegs(h, regs) ==
    [h EXCEPT !.txs = IF regs = <<>> THEN Tail(@)
                      ELSE <<[Head(@) EXCEPT !.regs = regs]>> \o Tail(@)]

Failed(h) ==
    [h EXCEPT !.txs = <<>>, !.at = "gate", !.hi = FALSE, !.torn = "none",
              !.blocks = IF EndsCommand(h.name) THEN <<>> ELSE @]

(* A client with a session to the board, or a command of its own process. *)
StartOp ==
    /\ host.name = "none"
    /\ \/ \E op \in ReadOps : host' = [host EXCEPT !.blocks = op, !.name = "read", !.torn = "none"]
       \/ \E op \in WriteOps : host' = [host EXCEPT !.txs = op, !.name = "write", !.torn = "none"]
       \/ \E op \in CliScripts : host' = [Idle({}) EXCEPT !.blocks = op, !.name = "read"]
       \/ \E op \in CliWrites : host' = [Idle({}) EXCEPT !.txs = op, !.name = "write"]
    /\ refused' = "none" /\ params' = FALSE
    /\ UNCHANGED <<caps, mode, unlock, calOut, latch, shell, meddled>>

NextBlock ==
    /\ host.name # "none" /\ ~Busy
    /\ \/ /\ host.blocks # <<>>
          /\ host' = [host EXCEPT !.blocks = Tail(@), !.name = Head(host.blocks),
                                  !.txs = CliBlock(Head(host.blocks), host.known),
                                  !.hi = FALSE, !.torn = "none"]
       \/ host.blocks = <<>> /\ host' = Idle(host.known)
    /\ refused' = "none" /\ params' = FALSE
    /\ UNCHANGED <<caps, mode, unlock, calOut, latch, shell, meddled>>

Learn(h) ==
    IF Reg = "CAPABILITY_FLAGS" /\ Len(Tx.regs) = 1 THEN [h EXCEPT !.known = caps] ELSE h

ReadRegister ==
    /\ Busy /\ Tx.fn # "write"
    /\ Readable(Tx.fn, Tx.scope, Reg)
    /\ LET r == read_wire(GateLatch(Tx.scope), Reg, host.hi)
       IN  /\ latch' = r.latch
           /\ \E changed \in BOOLEAN :
                /\ changed => host.hi /\ r.fresh /\ Reg \in Changing
                /\ host' = Learn(NextRegs([host EXCEPT !.hi = Reg \in Wide /\ ~@,
                                                       !.torn = IF changed THEN Reg ELSE "none"],
                                          Tail(Tx.regs)))
    /\ refused' = "none" /\ params' = FALSE
    /\ UNCHANGED <<caps, mode, unlock, calOut, shell, meddled>>

(* One refused register refuses the transaction. *)
ReadRefused ==
    /\ Busy /\ Tx.fn # "write"
    /\ ~Readable(Tx.fn, Tx.scope, Reg)
    /\ latch' = NoLatch
    /\ host' = Failed(host)
    /\ refused' = host.name /\ params' = FALSE
    /\ UNCHANGED <<caps, mode, unlock, calOut, shell, meddled>>

(* A write to a channel: the checks of the wire, then the owner. *)
WriteGate ==
    /\ Busy /\ Tx.fn = "write" /\ Tx.scope = "ch" /\ host.at = "gate"
    /\ latch' = NoLatch
    /\ host' = IF Writable(Reg) THEN [host EXCEPT !.at = "owner"] ELSE Failed(host)
    /\ refused' = IF Writable(Reg) THEN "none" ELSE host.name
    /\ params' = FALSE
    /\ UNCHANGED <<caps, mode, unlock, calOut, shell, meddled>>

WriteOwner ==
    /\ Busy /\ Tx.fn = "write" /\ (Tx.scope = "ch" => host.at = "owner")
    /\ \E ok \in BOOLEAN :
         /\ vc_catalog_write(Reg, Tx.val, ok)
         /\ host' = IF ok THEN [host EXCEPT !.txs = Tail(@), !.at = "gate"] ELSE Failed(host)
    /\ meddled' = (shell # <<>> /\ (meddled \/ Reg = "CAL_UNLOCK" \/ mode' # mode))
    /\ refused' = IF vc_catalog_supported(Reg, caps) THEN "none" ELSE host.name
    /\ UNCHANGED <<latch, shell>>

(* The answer to the transaction is lost, whether the server carries it out
   to the end or not; the host takes it for a failure and knows no more. *)
LoseAnswer ==
    /\ Busy /\ host.at = "gate"
    /\ host' = Failed(host)
    /\ refused' = "none" /\ params' = FALSE
    /\ UNCHANGED <<caps, mode, unlock, calOut, latch, shell, meddled>>

HostStep == StartOp \/ NextBlock \/ ReadRegister \/ ReadRefused \/ WriteGate \/ WriteOwner
              \/ LoseAnswer

-----------------------------------------------------------------------------
(* The shell: one step of a command is one turn of its thread              *)

(* The commands that the shell has for each board. *)
Commands == [c \in Boards |-> ShellCommands(c)]

Unsupported(reads) == \E f \in reads : ~vc_catalog_supported(f, caps)

(* A step of the unlock command: the last one is the mode switch. *)
OfHandshake(s, rest) ==
    s.field = "CAL_UNLOCK" \/ (s.val = "calibration" /\ rest = <<>> /\ shell # <<>>)

ShellStep(s, rest) ==
    IF Unsupported(s.reads)
    THEN shell' = <<>> /\ refused' = "shell read" /\ params' = FALSE /\ UNCHANGED owner
    ELSE \/ /\ s.field = "none"
            /\ shell' \in IF s.watch THEN {<<s>>, rest} ELSE {rest}
            /\ refused' = "none" /\ params' = FALSE
            /\ UNCHANGED owner
         \/ /\ s.field # "none"
            /\ \E ok \in BOOLEAN :
                 /\ vc_catalog_write(s.field, s.val, ok)
                 /\ shell' = IF ok THEN rest ELSE <<>>
                 /\ refused' = IF ok \/ ~OfHandshake(s, rest) THEN "none" ELSE "shell unlock"

StartCommand ==
    /\ shell = <<>>
    /\ \E cmd \in Commands[caps] : ShellStep(Head(cmd), Tail(cmd))
    /\ meddled' = FALSE
    /\ UNCHANGED <<latch, host>>

GoOnCommand ==
    /\ shell # <<>>
    /\ ShellStep(Head(shell), Tail(shell))
    /\ UNCHANGED <<latch, host, meddled>>

-----------------------------------------------------------------------------
Next == HostStep \/ StartCommand \/ GoOnCommand \/ vc_controller_tick_watchdog
          \/ vc_channel_consume_fault

Spec == Init /\ [][Next]_vars

-----------------------------------------------------------------------------
(* Properties                                                              *)

(* Type invariant. *)
TypeOK ==
    /\ caps \in Boards
    /\ mode \in {"normal", "calibration"}
    /\ unlock \in 0..2
    /\ calOut \in BOOLEAN
    /\ latch \in Wide \cup {"none"}
    /\ host.known \in {{}, caps}
    /\ meddled \in BOOLEAN
    /\ params \in BOOLEAN

(* The words of a 32-bit register received in one transaction belong to one
   value, whenever the value changes: for the system registers. *)
SystemWordsWhole == host.torn \in {"none"} \cup {f \in Wide : f \notin {"UPTIME", "FW_VERSION"}}

(* The same for every register. *)
AllWordsWhole == host.torn = "none"

(* The owner, the wire, the shell and the host library agree on what a board
   has.  What the host library reads, given the capabilities it knows, possibly
   none after a lost answer, is served: one register outside the capabilities
   would lose the whole transaction.  So is what the command line writes after
   it looked at the capabilities, and what a shell command reads.  Refusals are
   left to the snapshot of a calibration session, to writes that nothing gates,
   and to the three writes of the shell's unlock command when the host entered
   or left calibration or wrote to the handshake between them. *)
RequestsServed ==
    \/ refused \in {"none", "snapshot", "write", "disable"}
    \/ refused = "shell unlock" /\ meddled

(* The calibration output is switched on in calibration mode only, although
   the mode that the wire checks may have ended when the command reaches the
   owner.  It stays on past the end of a session only when a system parameter
   action ends it, as the factory reset does; a mode write, a policy write, the
   exit command and the watchdog switch it off. *)
CalOutputOnlyInCal ==
    [][calOut' => \/ mode' = "calibration" /\ (calOut \/ mode = "calibration")
                  \/ calOut /\ (mode = "calibration" => params')]_vars
=============================================================================
