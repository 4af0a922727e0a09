------------------------------- MODULE VcShell -------------------------------
(***************************************************************************)
(* The vc shell commands (vc_shell.c), each as the script of its register  *)
(* accesses.  A step reads some registers and then writes at most one; the *)
(* command ends at the first access that fails.  Every access goes to the  *)
(* catalog by identifier, past the wire and its gates.                     *)
(***************************************************************************)
EXTENDS VcCatalog

Step(reads, f, v) == [reads |-> reads, field |-> f, val |-> v, watch |-> FALSE]
Reads(reads) == Step(reads, "none", "any")
Write(f, v) == Step({}, f, v)
Watch(reads) == [Reads(reads) EXCEPT !.watch = TRUE]

Has(caps, cap, fields) == IF cap \in caps THEN fields ELSE {}

read_system_snapshot ==
    {"PROTOCOL_MAJOR", "PROTOCOL_MINOR", "VARIANT_ID", "SYS_CAPABILITY_FLAGS",
     "SUPPORTED_CHANNELS", "ACTIVE_CHANNEL_MASK", "ACTIVE_OPERATING_MODE", "STATUS",
     "FAULT_CAUSE", "CAL_WATCHDOG_REMAINING_S"}

read_channel_snapshot(caps) ==
    {"CAPABILITY_FLAGS", "OPER_TARGET_VOLTAGE", "STATUS_BITS", "ACTIVE_FAULT_CAUSE",
     "FAULT_HISTORY_CAUSE", "LAST_PROT_OUT_ACTION", "AUTO_RETRY_COUNT",
     "AUTO_COOLDOWN_REMAINING", "LAST_FAULT_TIMESTAMP"}
      \cup Has(caps, "VOLTAGE_MEASUREMENT", {"MEASURED_VOLTAGE", "RAW_ADC_VOLTAGE"})
      \cup Has(caps, "CURRENT_MEASUREMENT", {"MEASURED_CURRENT", "RAW_ADC_CURRENT"})
      \cup Has(caps, "RAW_OUTPUT_DRIVE", {"CAL_DAC_CODE", "CAL_OUTPUT_ENABLE"})

read_system_config == {"OPERATING_MODE", "STARTUP_CHANNEL_POLICY"}

read_channel_config(caps) ==
    {"CAPABILITY_FLAGS", "RECOVERY_POLICY_MODE", "AUTO_RETRY_DELAY",
     "AUTO_RETRY_MAX_COUNT", "AUTO_RETRY_WINDOW", "CURRENT_SAFE_BAND_PCT"}
      \cup (IF "RAW_OUTPUT_DRIVE" \in caps
            THEN {"CFG_TARGET_VOLTAGE", "RAMP_UP_STEP", "RAMP_UP_INTERVAL",
                  "RAMP_DOWN_STEP", "RAMP_DOWN_INTERVAL"}
            ELSE Has(caps, "OUTPUT_ENABLE", {"CFG_OUTPUT_ENABLED"}))
      \cup Has(caps, "CURRENT_MEASUREMENT",
               {"CURRENT_PROTECTION_MODE", "CURRENT_PROT_OUT_ACTION",
                "CURRENT_LIMIT_THRESHOLD"})
      \cup (IF {"RAW_OUTPUT_DRIVE", "VOLTAGE_MEASUREMENT"} \subseteq caps
            THEN {"AUTO_DERATE_STEP"} ELSE {})

read_cal_config(caps) ==
    {"CAPABILITY_FLAGS"}
      \cup Has(caps, "RAW_OUTPUT_DRIVE",
               {"OUTPUT_CAL_K", "OUTPUT_CAL_B", "OUTPUT_CAL_K_EXP"})
      \cup Has(caps, "VOLTAGE_MEASUREMENT",
               {"MEASURED_V_CAL_K", "MEASURED_V_CAL_B", "MEASURED_V_CAL_K_EXP"})
      \cup Has(caps, "CURRENT_MEASUREMENT",
               {"MEASURED_I_CAL_K", "MEASURED_I_CAL_B", "MEASURED_I_CAL_K_EXP"})

(* What the field names of "set" stand for: every field of the kind. *)
channel_config_id == ConfigFields
cal_config_id == CalCoefficients \cup CalExponents

(* parse_channel reads the channel count before every channel command. *)
parse_channel == read_system_snapshot

-----------------------------------------------------------------------------
(* The commands, for a board with one channel.  A value that no property
   tells apart is "any".                                                   *)

cmd_status(caps) == {<<Reads(read_system_snapshot), Reads(read_channel_snapshot(caps))>>}

cmd_mode == {<<Write("OPERATING_MODE", "normal")>>}

(* The system first, then the channel; the first failure ends it. *)
cmd_param ==
    {<<Write("SYS_PARAM_ACTION", "any"), Step(read_system_snapshot, "PARAM_ACTION", "any")>>}

cmd_sys_status == {<<Reads(read_system_snapshot)>>}
cmd_sys_config == {<<Reads(read_system_config)>>}
cmd_sys_param == {<<Write("SYS_PARAM_ACTION", "any")>>}
cmd_sys_set ==
    {<<Write("OPERATING_MODE", m)>> : m \in {"normal", "calibration"}}
      \cup {<<Write("STARTUP_CHANNEL_POLICY", "any")>>}

cmd_ch(caps) ==
    {<<Reads(parse_channel \cup read_channel_snapshot(caps))>>,
     <<Reads(parse_channel \cup read_channel_config(caps))>>}
      \cup {<<Step(parse_channel, f, "any")>> :
              f \in {"OUTPUT_ACTION", "CFG_TARGET_VOLTAGE", "FAULT_CMD", "PARAM_ACTION"}
                      \cup channel_config_id}

(* Commands of the session: unlock runs the whole handshake. *)
cmd_cal_session(caps) ==
    {<<Write("CAL_UNLOCK", "STEP1"), Write("CAL_UNLOCK", "STEP2"),
       Write("OPERATING_MODE", "calibration")>>,
     <<Write("CAL_EXIT", "execute")>>,
     <<Reads(read_system_snapshot), Reads(read_channel_snapshot(caps))>>,
     <<Reads(read_system_snapshot), Watch(read_channel_snapshot(caps))>>}

(* Commands on a channel; a sample is printed from a snapshot taken after. *)
cmd_cal_channel(caps) ==
    {<<Step(parse_channel, "CAL_OUTPUT_ENABLE", v)>> : v \in {"off", "on"}}
      \cup {<<Step(parse_channel, f, "any")>> :
              f \in {"CAL_DAC_CODE", "CAL_COMMIT_CMD"} \cup cal_config_id}
      \cup {<<Step(parse_channel, "CAL_SAMPLE_CMD", "execute"), Reads(read_channel_snapshot(caps))>>,
            <<Reads(parse_channel \cup read_cal_config(caps))>>}

cmd_watch(caps) == {<<Reads(read_system_snapshot), Watch(read_channel_snapshot(caps))>>}

ShellCommands(caps) ==
    cmd_status(caps) \cup cmd_mode \cup cmd_param \cup cmd_sys_status \cup cmd_sys_config
      \cup cmd_sys_param \cup cmd_sys_set \cup cmd_ch(caps) \cup cmd_cal_session(caps)
      \cup cmd_cal_channel(caps) \cup cmd_watch(caps)
=============================================================================
