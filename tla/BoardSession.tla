---------------------------- MODULE BoardSession ----------------------------
(***************************************************************************)
(* The operations of the host library on a board (psb_board_session.cpp    *)
(* over psb_serial_bus.cpp): each operation is a sequence of blocks, each  *)
(* block a sequence of Modbus transactions that ends at the first one that *)
(* fails, and the failure of a block does not stop the next.  Which blocks *)
(* are read depends on the capabilities the session knows of.              *)
(***************************************************************************)
EXTENDS VcCatalog

Input(scope, from, to) ==
    [fn |-> "input", scope |-> scope, val |-> "any",
     regs |-> SubSeq(IF scope = "sys" THEN SysInput ELSE ChInput, from + 1, to + 1)]
Holding(scope, from, to) ==
    [fn |-> "holding", scope |-> scope, val |-> "any",
     regs |-> SubSeq(IF scope = "sys" THEN SysHolding ELSE ChHolding, from + 1, to + 1)]

(* writeRegs sends a batch as single writes, one transaction each. *)
Write1(scope, f, v) == [fn |-> "write", scope |-> scope, val |-> v, regs |-> <<f>>]
writeRegs(fields) == [i \in 1..Len(fields) |-> Write1("ch", fields[i], "any")]

Haves(caps, cap) == cap \in caps
Only(cond, txs) == IF cond THEN txs ELSE <<>>

-----------------------------------------------------------------------------
(* Reads                                                                   *)

verifyProtocol == <<Input("sys", 0, 1)>>
readSystemStatus == <<Input("sys", 6, 14)>>
readSystemInfo == <<Input("sys", 0, 16)>>
readSystemConfig == <<Holding("sys", 0, 3)>>
readChannelCapabilities == <<Input("ch", 9, 9)>>

(* The status of a poll: one block when both measurements exist. *)
readChannelStatus(caps) ==
    IF {"VOLTAGE_MEASUREMENT", "CURRENT_MEASUREMENT"} \subseteq caps
    THEN <<Input("ch", 0, 11)>>
    ELSE <<Input("ch", 0, 8)>>

StatusMeasure(caps, cap, off) ==
    Only(Haves(caps, cap) /\ ~({"VOLTAGE_MEASUREMENT", "CURRENT_MEASUREMENT"} \subseteq caps),
         <<Input("ch", off, off)>>)

(* readChannelInfo asks for the capabilities when it knows none. *)
readChannelInfo(caps) == <<Input("ch", 0, IF caps = {} THEN 9 ELSE 8)>>
InfoMeasures(caps) ==
    Only({"VOLTAGE_MEASUREMENT", "CURRENT_MEASUREMENT"} \subseteq caps, <<Input("ch", 10, 11)>>)

CapsProbe(caps) == Only(caps = {}, <<Input("ch", 9, 9)>>)
readChannelOutputBlock(caps) ==
    <<Holding("ch", 0, IF Haves(caps, "RAW_OUTPUT_DRIVE") THEN 7 ELSE 2)>>
readChannelRecoveryBlock == <<Holding("ch", 8, 12)>>
readChannelProtectionBlock(caps) ==
    Only(Haves(caps, "CURRENT_MEASUREMENT"), <<Holding("ch", 13, 15)>>)

readChannelDerateBlock(caps) ==
    Only({"RAW_OUTPUT_DRIVE", "VOLTAGE_MEASUREMENT"} \subseteq caps, <<Holding("ch", 16, 16)>>)
readChannelOutputEnabledBlock(caps) ==
    Only(~Haves(caps, "RAW_OUTPUT_DRIVE") /\ Haves(caps, "OUTPUT_ENABLE"),
         <<Holding("ch", 17, 17)>>)

(* Calibration coefficients: all at once, or the pair and then the exponent
   of each quantity the channel has. *)
CalAll(caps) == {"RAW_OUTPUT_DRIVE", "VOLTAGE_MEASUREMENT", "CURRENT_MEASUREMENT"} \subseteq caps
readChannelCalConfig(caps) == Only(CalAll(caps), <<Holding("ch", 20, 28)>>)
CalPart(caps, cap, from, to) ==
    Only(Haves(caps, cap) /\ ~CalAll(caps), <<Holding("ch", from, to)>>)

(* The snapshot asks for everything whatever the channel has. *)
readCalibrationSnapshot == <<Input("ch", 12, 15), Holding("ch", 30, 33)>>

(* A block by its name, with the capabilities known when it is reached. *)
Block(name, caps) ==
    CASE name = "verify"     -> verifyProtocol
      [] name = "sysStatus"  -> readSystemStatus
      [] name = "sysInfo"    -> readSystemInfo
      [] name = "sysConfig"  -> readSystemConfig
      [] name = "chCaps"     -> readChannelCapabilities
      [] name = "chStatus"   -> readChannelStatus(caps)
      [] name = "statusV"    -> StatusMeasure(caps, "VOLTAGE_MEASUREMENT", 10)
      [] name = "statusI"    -> StatusMeasure(caps, "CURRENT_MEASUREMENT", 11)
      [] name = "chInfo"     -> readChannelInfo(caps)
      [] name = "infoVI"     -> InfoMeasures(caps)
      [] name = "probe"      -> CapsProbe(caps)
      [] name = "output"     -> readChannelOutputBlock(caps)
      [] name = "recovery"   -> readChannelRecoveryBlock
      [] name = "protection" -> readChannelProtectionBlock(caps)
      [] name = "derate"     -> readChannelDerateBlock(caps)
      [] name = "enabled"    -> readChannelOutputEnabledBlock(caps)
      [] name = "calAll"     -> readChannelCalConfig(caps)
      [] name = "calOut"     -> CalPart(caps, "RAW_OUTPUT_DRIVE", 20, 21)
      [] name = "calOutExp"  -> CalPart(caps, "RAW_OUTPUT_DRIVE", 26, 26)
      [] name = "calV"       -> CalPart(caps, "VOLTAGE_MEASUREMENT", 22, 23)
      [] name = "calVExp"    -> CalPart(caps, "VOLTAGE_MEASUREMENT", 27, 27)
      [] name = "calI"       -> CalPart(caps, "CURRENT_MEASUREMENT", 24, 25)
      [] name = "calIExp"    -> CalPart(caps, "CURRENT_MEASUREMENT", 28, 28)
      [] name = "snapshot"   -> readCalibrationSnapshot

ReadOps ==
    {<<"verify">>, <<"sysStatus">>, <<"sysInfo">>, <<"sysConfig">>, <<"chCaps">>,
     <<"chStatus", "statusV", "statusI">>,
     <<"chInfo", "infoVI", "statusV", "statusI">>,
     <<"probe", "output", "recovery", "protection", "derate", "enabled">>,
     <<"probe", "calAll", "calOut", "calOutExp", "calV", "calVExp", "calI", "calIExp">>,
     <<"snapshot">>}

-----------------------------------------------------------------------------
(* Writes; the values of the calibration handshake are told apart          *)

SystemWrites ==
    {<<Write1("sys", "OPERATING_MODE", m)>> : m \in {"normal", "calibration"}}
      \cup {<<Write1("sys", f, "any")>> :
              f \in {"STARTUP_CHANNEL_POLICY", "SLAVE_ADDRESS", "BAUD_RATE_CODE",
                     "SYS_PARAM_ACTION"}}

ChannelWrites ==
    {writeRegs(<<f>>) :
       f \in {"PARAM_ACTION", "CFG_TARGET_VOLTAGE", "CFG_OUTPUT_ENABLED", "OUTPUT_ACTION",
              "FAULT_CMD", "CURRENT_SAFE_BAND_PCT", "AUTO_DERATE_STEP"} \cup CalExponents}
      \cup {writeRegs(<<"RAMP_UP_STEP", "RAMP_UP_INTERVAL">>),
            writeRegs(<<"RAMP_DOWN_STEP", "RAMP_DOWN_INTERVAL">>),
            writeRegs(<<"RECOVERY_POLICY_MODE", "AUTO_RETRY_DELAY", "AUTO_RETRY_MAX_COUNT",
                        "AUTO_RETRY_WINDOW">>),
            writeRegs(<<"CURRENT_PROTECTION_MODE", "CURRENT_PROT_OUT_ACTION",
                        "CURRENT_LIMIT_THRESHOLD">>),
            writeRegs(<<"OUTPUT_CAL_K", "OUTPUT_CAL_B">>),
            writeRegs(<<"MEASURED_V_CAL_K", "MEASURED_V_CAL_B">>),
            writeRegs(<<"MEASURED_I_CAL_K", "MEASURED_I_CAL_B">>)}

CalibrationWrites ==
    {<<Write1("ext", "CAL_UNLOCK", v)>> : v \in {"STEP1", "STEP2"}}
      \cup {<<Write1("ext", "CAL_EXIT", "execute")>>}
      \cup {<<Write1("ch", "CAL_OUTPUT_ENABLE", v)>> : v \in {"off", "on"}}
      \cup {<<Write1("ch", "CAL_DAC_CODE", "any")>>}
      \cup {<<Write1("ch", f, "execute")>> : f \in {"CAL_SAMPLE_CMD", "CAL_COMMIT_CMD"}}

WriteOps == SystemWrites \cup ChannelWrites \cup CalibrationWrites
=============================================================================
