------------------------------- MODULE PsbCli -------------------------------
(***************************************************************************)
(* The commands of the command-line client (psb_demo_app/cli/main.cpp) as  *)
(* scripts of blocks of the host library, for a board with one channel.    *)
(* Each command is a process of its own: it knows no capabilities before   *)
(* it has read them, and goes on past a block that failed.  Some writes    *)
(* are sent only if the capabilities just read allow them.                 *)
(***************************************************************************)
EXTENDS BoardSession

ChannelInfo == <<"chInfo", "infoVI", "statusV", "statusI">>
ChannelConfig == <<"probe", "output", "recovery", "protection", "derate", "enabled">>

-----------------------------------------------------------------------------
(* Commands that read                                                      *)

cmdInfo == <<"sysInfo">>
cmdStatus == <<"sysInfo">> \o ChannelInfo

(* The static part and the first turn of the polling loop; a later turn is a
   status operation of the library with the capabilities known by then. *)
cmdMonitor == <<"sysInfo">> \o ChannelInfo \o <<"sysStatus", "chStatus", "statusV", "statusI">>

cmdSystemConfig == <<"sysConfig">>
cmdChannelInfo == ChannelInfo \o <<"sysInfo">>
cmdChannelConfig == ChannelInfo \o ChannelConfig \o <<"sysInfo">>
cmdChannelCal ==
    <<"probe", "calAll", "calOut", "calOutExp", "calV", "calVExp", "calI", "calIExp">>

-----------------------------------------------------------------------------
(* Commands that write                                                     *)

(* Sent whatever the channel can do: the board refuses what it cannot. *)
SystemCommands ==
    {<<Write1("sys", "OPERATING_MODE", "normal")>>, <<Write1("ext", "CAL_EXIT", "execute")>>}
      \cup {<<Write1("sys", f, "any")>> :
              f \in {"STARTUP_CHANNEL_POLICY", "SLAVE_ADDRESS", "BAUD_RATE_CODE",
                     "SYS_PARAM_ACTION"}}
ChannelCommands ==
    {writeRegs(<<f>>) : f \in {"OUTPUT_ACTION", "FAULT_CMD", "CURRENT_SAFE_BAND_PCT",
                               "AUTO_DERATE_STEP", "PARAM_ACTION"}}
      \cup {writeRegs(<<"RAMP_UP_STEP", "RAMP_UP_INTERVAL">>),
            writeRegs(<<"RAMP_DOWN_STEP", "RAMP_DOWN_INTERVAL">>),
            writeRegs(<<"RECOVERY_POLICY_MODE", "AUTO_RETRY_DELAY", "AUTO_RETRY_MAX_COUNT",
                        "AUTO_RETRY_WINDOW">>),
            writeRegs(<<"CURRENT_PROTECTION_MODE", "CURRENT_PROT_OUT_ACTION",
                        "CURRENT_LIMIT_THRESHOLD">>)}

(* Sent after the capabilities were read.  A disable is sent even to a channel
   that is locked on, with a warning. *)
chOutputDisable == ChannelInfo \o <<"disable">>
chVoltage == ChannelInfo \o <<"voltage">>
chEnableCfg == ChannelInfo \o <<"enable-cfg">>

VoltageWrite(caps) ==
    Only(Haves(caps, "RAW_OUTPUT_DRIVE"), writeRegs(<<"CFG_TARGET_VOLTAGE">>))

\* Mutant: a channel with a DAC is not told apart.
EnableCfgWrite_any(caps) ==
    Only(Haves(caps, "OUTPUT_ENABLE"), writeRegs(<<"CFG_OUTPUT_ENABLED">>))

EnableCfgWrite(caps) ==
    Only(~Haves(caps, "RAW_OUTPUT_DRIVE") /\ Haves(caps, "OUTPUT_ENABLE"),
         writeRegs(<<"CFG_OUTPUT_ENABLED">>))

(* Every command first opens the port and verifies the protocol. *)
CliBlock(name, caps) ==
    CASE name = "connect"    -> verifyProtocol
      [] name = "disable"    -> writeRegs(<<"OUTPUT_ACTION">>)
      [] name = "voltage"    -> VoltageWrite(caps)
      [] name = "enable-cfg" -> EnableCfgWrite(caps)
      [] OTHER               -> Block(name, caps)

(* A command whose connection fails ends there; else only a failed status
   block has a consequence, it ends the poll of the channel. *)
EndsCommand(name) == name \in {"connect", "chStatus"}

CliScripts ==
    {<<"connect">> \o s :
       s \in {cmdInfo, cmdStatus, cmdMonitor, cmdSystemConfig, cmdChannelInfo, cmdChannelConfig,
              cmdChannelCal, chOutputDisable, chVoltage, chEnableCfg}}
CliWrites == SystemCommands \cup ChannelCommands
=============================================================================
