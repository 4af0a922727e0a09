----------------------------- MODULE VcCatalog -----------------------------
(***************************************************************************)
(* The register catalog of a voltage-control channel and its view on the   *)
(* Modbus wire: which registers exist, which are 32 bits wide, and which   *)
(* of them a channel supports, decided once by the owner of the registers  *)
(* (vc_runtime.c) and a second time by the wire (modbus_register.c).       *)
(***************************************************************************)
EXTENDS Sequences, Naturals

Capabilities == {"OUTPUT_ENABLE", "RAW_OUTPUT_DRIVE", "VOLTAGE_MEASUREMENT",
                 "CURRENT_MEASUREMENT"}

-----------------------------------------------------------------------------
(* Fields                                                                  *)

VoltageFields == {"MEASURED_VOLTAGE", "RAW_ADC_VOLTAGE", "MEASURED_V_CAL_K",
                  "MEASURED_V_CAL_B", "MEASURED_V_CAL_K_EXP"}
CurrentFields == {"MEASURED_CURRENT", "RAW_ADC_CURRENT", "MEASURED_I_CAL_K",
                  "MEASURED_I_CAL_B", "MEASURED_I_CAL_K_EXP", "CURRENT_PROTECTION_MODE",
                  "CURRENT_PROT_OUT_ACTION", "CURRENT_LIMIT_THRESHOLD"}
DriveFields   == {"CFG_TARGET_VOLTAGE", "RAMP_UP_STEP", "RAMP_UP_INTERVAL",
                  "RAMP_DOWN_STEP", "RAMP_DOWN_INTERVAL", "OUTPUT_CAL_K", "OUTPUT_CAL_B",
                  "OUTPUT_CAL_K_EXP", "CAL_OUTPUT_ENABLE", "CAL_DAC_CODE"}
CalCoefficients == {"OUTPUT_CAL_K", "OUTPUT_CAL_B", "MEASURED_V_CAL_K", "MEASURED_V_CAL_B",
                    "MEASURED_I_CAL_K", "MEASURED_I_CAL_B"}
CalExponents    == {"OUTPUT_CAL_K_EXP", "MEASURED_V_CAL_K_EXP", "MEASURED_I_CAL_K_EXP"}
CalCommands     == {"CAL_OUTPUT_ENABLE", "CAL_DAC_CODE", "CAL_SAMPLE_CMD", "CAL_COMMIT_CMD"}
ConfigFields    ==
    {"CFG_TARGET_VOLTAGE", "CFG_OUTPUT_ENABLED", "RAMP_UP_STEP", "RAMP_UP_INTERVAL",
     "RAMP_DOWN_STEP", "RAMP_DOWN_INTERVAL", "RECOVERY_POLICY_MODE", "AUTO_RETRY_DELAY",
     "AUTO_RETRY_MAX_COUNT", "AUTO_RETRY_WINDOW", "CURRENT_SAFE_BAND_PCT",
     "CURRENT_PROTECTION_MODE", "CURRENT_PROT_OUT_ACTION", "CURRENT_LIMIT_THRESHOLD",
     "AUTO_DERATE_STEP"}

(* Descriptors: a command can only be written, and reads as zero on the wire. *)
WriteOnly == {"OUTPUT_ACTION", "FAULT_CMD", "PARAM_ACTION", "CAL_SAMPLE_CMD",
              "CAL_COMMIT_CMD"}
Wide == {"UPTIME", "FW_VERSION", "LAST_FAULT_TIMESTAMP", "RAW_ADC_VOLTAGE",
         "RAW_ADC_CURRENT"}

(* The capability gate of the owner. *)
vc_catalog_supported(f, caps) ==
    LET V == "VOLTAGE_MEASUREMENT" \in caps
        I == "CURRENT_MEASUREMENT" \in caps
        D == "RAW_OUTPUT_DRIVE" \in caps
    IN  /\ f \in VoltageFields => V
        /\ f \in CurrentFields => I
        /\ f \in DriveFields => D
        /\ f = "AUTO_DERATE_STEP" => D /\ V
        /\ f = "CFG_OUTPUT_ENABLED" => ~D /\ "OUTPUT_ENABLE" \in caps
        /\ f = "CAL_SAMPLE_CMD" => V \/ I
        /\ f = "CAL_COMMIT_CMD" => D \/ V \/ I

-----------------------------------------------------------------------------
(* The wire: blocks of registers by offset, a wide field at two offsets    *)

SysInput ==
    <<"PROTOCOL_MAJOR", "PROTOCOL_MINOR", "VARIANT_ID", "SYS_CAPABILITY_FLAGS",
      "SUPPORTED_CHANNELS", "ACTIVE_CHANNEL_MASK", "BOARD_TEMPERATURE", "BOARD_HUMIDITY",
      "UPTIME", "UPTIME", "FW_VERSION", "FW_VERSION", "ACTIVE_OPERATING_MODE", "STATUS",
      "FAULT_CAUSE", "CURRENT_UNIT_EXP", "BOARD_HW_REVISION">>
SysHolding ==
    <<"OPERATING_MODE", "STARTUP_CHANNEL_POLICY", "SLAVE_ADDRESS", "BAUD_RATE_CODE">>
ChInput ==
    <<"STATUS_BITS", "ACTIVE_FAULT_CAUSE", "FAULT_HISTORY_CAUSE", "LAST_PROT_OUT_ACTION",
      "AUTO_RETRY_COUNT", "AUTO_COOLDOWN_REMAINING", "LAST_FAULT_TIMESTAMP",
      "LAST_FAULT_TIMESTAMP", "OPER_TARGET_VOLTAGE", "CAPABILITY_FLAGS",
      "MEASURED_VOLTAGE", "MEASURED_CURRENT", "RAW_ADC_VOLTAGE", "RAW_ADC_VOLTAGE",
      "RAW_ADC_CURRENT", "RAW_ADC_CURRENT">>
ChHolding ==
    <<"OUTPUT_ACTION", "FAULT_CMD", "PARAM_ACTION", "CFG_TARGET_VOLTAGE", "RAMP_UP_STEP",
      "RAMP_UP_INTERVAL", "RAMP_DOWN_STEP", "RAMP_DOWN_INTERVAL", "RECOVERY_POLICY_MODE",
      "AUTO_RETRY_DELAY", "AUTO_RETRY_MAX_COUNT", "AUTO_RETRY_WINDOW",
      "CURRENT_SAFE_BAND_PCT", "CURRENT_PROTECTION_MODE", "CURRENT_PROT_OUT_ACTION",
      "CURRENT_LIMIT_THRESHOLD", "AUTO_DERATE_STEP", "CFG_OUTPUT_ENABLED", "reserved",
      "reserved", "OUTPUT_CAL_K", "OUTPUT_CAL_B", "MEASURED_V_CAL_K", "MEASURED_V_CAL_B",
      "MEASURED_I_CAL_K", "MEASURED_I_CAL_B", "OUTPUT_CAL_K_EXP", "MEASURED_V_CAL_K_EXP",
      "MEASURED_I_CAL_K_EXP", "reserved", "CAL_OUTPUT_ENABLE", "CAL_DAC_CODE",
      "CAL_SAMPLE_CMD", "CAL_COMMIT_CMD">>

(* The gates of the wire, which repeat the owner's for the registers they
   name and leave the others (the exponents, CFG_OUTPUT_ENABLED) to it. *)
ch_input_supported(f, caps) ==
    /\ f \in {"MEASURED_VOLTAGE", "RAW_ADC_VOLTAGE"} => "VOLTAGE_MEASUREMENT" \in caps
    /\ f \in {"MEASURED_CURRENT", "RAW_ADC_CURRENT"} => "CURRENT_MEASUREMENT" \in caps

ch_holding_supported(f, caps) ==
    LET V == "VOLTAGE_MEASUREMENT" \in caps
        I == "CURRENT_MEASUREMENT" \in caps
        D == "RAW_OUTPUT_DRIVE" \in caps
    IN  /\ f \in DriveFields \ CalExponents => D
        /\ f \in {"MEASURED_V_CAL_K", "MEASURED_V_CAL_B"} => V
        /\ f \in {"MEASURED_I_CAL_K", "MEASURED_I_CAL_B", "CURRENT_PROTECTION_MODE",
                  "CURRENT_PROT_OUT_ACTION", "CURRENT_LIMIT_THRESHOLD"} => I
        /\ f = "AUTO_DERATE_STEP" => D /\ V
        /\ f = "CAL_SAMPLE_CMD" => V \/ I
        /\ f = "CAL_COMMIT_CMD" => D \/ V \/ I

is_ch_cal_input_reg(f) == f \in {"RAW_ADC_VOLTAGE", "RAW_ADC_CURRENT"}
is_ch_cal_holding_reg(f) == f \in CalCommands
=============================================================================
