------------------------ MODULE RegisterAccess_proofs ------------------------
(***************************************************************************)
(* Proofs about the two clients of the register catalog, for a channel     *)
(* with any capabilities: what the host library, the command line and the  *)
(* shell ask for is served, the words of a system register belong together *)
(* and the calibration output is switched on in calibration mode only.     *)
(***************************************************************************)
EXTENDS RegisterAccess, SequenceTheorems, TLAPS

(***************************************************************************)
(* The inductive invariant                                                 *)
(***************************************************************************)
BlockNames ==
    {"connect", "disable", "voltage", "enable-cfg",
     "verify", "sysStatus", "sysInfo", "sysConfig", "chCaps", "chStatus", "statusV", "statusI",
     "chInfo", "infoVI", "probe", "output", "recovery", "protection", "derate", "enabled",
     "calAll", "calOut", "calOutExp", "calV", "calVExp", "calI", "calIExp", "snapshot"}

\* Every register that a client names.
Fields ==
    VoltageFields \cup CurrentFields \cup DriveFields \cup CalCommands \cup ConfigFields
      \cup WriteOnly \cup Wide
      \cup {"PROTOCOL_MAJOR", "PROTOCOL_MINOR", "VARIANT_ID", "SYS_CAPABILITY_FLAGS",
            "SUPPORTED_CHANNELS", "ACTIVE_CHANNEL_MASK", "BOARD_TEMPERATURE", "BOARD_HUMIDITY",
            "ACTIVE_OPERATING_MODE", "STATUS", "FAULT_CAUSE", "CURRENT_UNIT_EXP",
            "BOARD_HW_REVISION", "OPERATING_MODE", "STARTUP_CHANNEL_POLICY", "SLAVE_ADDRESS",
            "BAUD_RATE_CODE", "SYS_PARAM_ACTION", "CAL_UNLOCK", "CAL_EXIT",
            "CAL_WATCHDOG_REMAINING_S", "STATUS_BITS", "ACTIVE_FAULT_CAUSE",
            "FAULT_HISTORY_CAUSE", "LAST_PROT_OUT_ACTION", "AUTO_RETRY_COUNT",
            "AUTO_COOLDOWN_REMAINING", "OPER_TARGET_VOLTAGE", "CAPABILITY_FLAGS", "reserved"}
Vals == {"any", "normal", "calibration", "execute", "off", "on", "STEP1", "STEP2"}

TxType == [fn : {"input", "holding", "write"}, scope : {"sys", "ch", "ext"}, val : Vals,
           regs : Seq(Fields)]
HostType(c) == [blocks : Seq(BlockNames), txs : Seq(TxType),
                name : BlockNames \cup {"none", "read", "write"}, at : {"gate", "owner"},
                known : {{}, c}, hi : BOOLEAN, torn : Fields \cup {"none"}]
StepType == [reads : SUBSET Fields, field : Fields \cup {"none"}, val : Vals, watch : BOOLEAN]

\* Each register of 32 bits comes twice in a row; low: the high word of the first is read.
Words(r, low) ==
    /\ \A k \in 1 .. Len(r) : r[k] \in Wide =>
          (k + 1 \in 1 .. Len(r) /\ r[k + 1] = r[k])
            # IF k = 1 THEN low ELSE r[k - 1] = r[k]
    /\ low => r # << >> /\ r[1] \in Wide

SystemWide == {"UPTIME", "FW_VERSION"}

\* Nothing that a board with the capabilities c refuses, whatever its mode.
Serves(fn, f, c) ==
    f # "reserved" =>
        /\ IF fn = "input" THEN ch_input_supported(f, c) /\ ~is_ch_cal_input_reg(f)
           ELSE ch_holding_supported(f, c)
        /\ f \notin WriteOnly => vc_catalog_supported(f, c)
Accepts(f, c) ==
    ch_holding_supported(f, c) /\ vc_catalog_supported(f, c) /\ ~is_ch_cal_holding_reg(f)

\* A transaction of a block, for the part of its registers still to do.
Fits(tx, name, c) ==
    IF tx.fn = "write"
    THEN \/ name \in {"write", "disable"}
         \/ tx.scope = "ch" /\ \A k \in 1 .. Len(tx.regs) : Accepts(tx.regs[k], c)
    ELSE /\ tx.scope = "ch" =>
               \A k \in 1 .. Len(tx.regs) :
                  tx.regs[k] \notin SystemWide /\ (name = "snapshot" \/ Serves(tx.fn, tx.regs[k], c))
         /\ tx.scope # "ext"

\* The host, before a latch of value l: the registers of every transaction still to do.
HostOk(h, l, c) ==
    /\ h \in HostType(c)
    /\ h.name = "none" => h.txs = << >>
    /\ \A k \in 1 .. Len(h.txs) :
          /\ h.txs[k].regs # << >>
          /\ Fits(h.txs[k], h.name, c)
          /\ h.txs[k].fn # "write" => Words(h.txs[k].regs, k = 1 /\ h.hi)
    /\ h.hi => /\ h.txs # << >> /\ h.txs[1].fn # "write"
               /\ h.txs[1].scope = "sys" => l = h.txs[1].regs[1]
    /\ h.torn \in {"none"} \cup {f \in Wide : f \notin SystemWide}

\* The handshake of the shell, and the steps that are no part of it.
Unlocks == <<Write("CAL_UNLOCK", "STEP1"), Write("CAL_UNLOCK", "STEP2"),
             Write("OPERATING_MODE", "calibration")>>
Ordinary(s) == s.field # "CAL_UNLOCK" /\ s.val # "calibration"

\* Steps that read nothing that a channel with the capabilities c refuses.
Kept(steps, c) ==
    /\ steps \in Seq(StepType)
    /\ \A k \in 1 .. Len(steps) : \A f \in steps[k].reads : vc_catalog_supported(f, c)
AllOrdinary(steps) == \A k \in 1 .. Len(steps) : Ordinary(steps[k])

\* The steps of a shell command that are left: nothing the board refuses, and of the
\* handshake only what is left of it, with the unlock state it needs unless meddled with.
ShellInv ==
    /\ Kept(shell, caps)
    /\ \/ AllOrdinary(shell)
       \/ shell = <<Unlocks[2], Unlocks[3]>> /\ (~meddled => unlock = 1)
       \/ shell = <<Unlocks[3]>> /\ (~meddled => unlock = 2)

\* The inductive invariant.
AccessInv == TypeOK /\ HostOk(host, latch, caps) /\ ShellInv /\ RequestsServed

(***************************************************************************)
(* The blocks of registers                                                 *)
(***************************************************************************)
\* A list whose registers of 32 bits are at the indices of P and the ones after them.
Paired(X, P) ==
    /\ X \in Seq(Fields)
    /\ \A k \in 1 .. Len(X) : X[k] \in Wide <=> k \in P \/ k - 1 \in P
    /\ \A p \in P : /\ p \in 1 .. Len(X) /\ p + 1 \in 1 .. Len(X)
                    /\ X[p + 1] = X[p] /\ p + 1 \notin P
                    /\ p + 2 \in P => X[p + 2] # X[p + 1]

\* A part of a list, from a to b.
LEMMA Part ==
    ASSUME NEW X \in Seq(Fields), NEW a \in Nat, NEW b \in Nat, a <= b, b < Len(X),
           NEW r, r = SubSeq(X, a + 1, b + 1)
    PROVE  /\ r \in Seq(Fields) /\ Len(r) = b - a + 1 /\ r # << >>
           /\ \A k \in 1 .. Len(r) : r[k] = X[a + k]
<1>1. /\ r \in Seq(Fields) /\ Len(r) = b - a + 1
      /\ \A k \in 1 .. Len(r) : r[k] = X[a + k]
  <2>1. a + 1 \in 1 .. Len(X) + 1 /\ b + 1 \in a .. Len(X)
    BY LenProperties
  <2>2. /\ SubSeq(X, a + 1, b + 1) \in Seq(Fields)
        /\ Len(SubSeq(X, a + 1, b + 1)) = b - a + 1
        /\ \A k \in 1 .. b - a + 1 : SubSeq(X, a + 1, b + 1)[k] = X[a + k]
    BY <2>1, SubSeqProperties
  <2> QED BY <2>2
<1>2. Len(r) # 0
  BY <1>1
<1> QED BY <1>1, <1>2

\* A part that splits no register of 32 bits.
LEMMA PartWords ==
    ASSUME NEW X, NEW P, Paired(X, P), NEW a \in Nat, NEW b \in Nat, a <= b, b < Len(X),
           a \notin P, b + 1 \notin P, NEW r, r = SubSeq(X, a + 1, b + 1)
    PROVE  /\ r \in Seq(Fields) /\ r # << >> /\ Words(r, FALSE)
           /\ \A k \in 1 .. Len(r) :
                 r[k] = X[a + k] /\ a + k \in 1 .. Len(X) /\ a + k \in a + 1 .. b + 1
<1>1. X \in Seq(Fields) /\ Len(X) \in Nat
  BY LenProperties DEF Paired
<1>2. /\ r \in Seq(Fields) /\ Len(r) = b - a + 1 /\ r # << >>
      /\ \A k \in 1 .. Len(r) : r[k] = X[a + k]
  BY <1>1, Part
<1>3. \A k \in 1 .. Len(r) : a + k \in 1 .. Len(X) /\ a + k \in a + 1 .. b + 1
  BY <1>1, <1>2
<1>4. SUFFICES ASSUME NEW k \in 1 .. Len(r), r[k] \in Wide
               PROVE  (k + 1 \in 1 .. Len(r) /\ r[k + 1] = r[k])
                        # IF k = 1 THEN FALSE ELSE r[k - 1] = r[k]
  BY <1>2, <1>3 DEF Words
<1>5. a + k \in 1 .. Len(X) /\ r[k] = X[a + k]
  BY <1>1, <1>2
<1>6. k # 1 => k - 1 \in 1 .. Len(r) /\ a + k - 1 \in 1 .. Len(X) /\ r[k - 1] = X[a + k - 1]
  <2>1. k # 1 => k - 1 \in 1 .. Len(r)
    BY <1>2
  <2>2. k # 1 => r[k - 1] = X[a + (k - 1)]
    BY <1>2, <2>1
  <2> QED BY <1>1, <1>2, <2>1, <2>2
<1>7. k + 1 \in 1 .. Len(r) => a + k + 1 \in 1 .. Len(X) /\ r[k + 1] = X[a + k + 1]
  <2>1. k + 1 \in 1 .. Len(r) => r[k + 1] = X[a + (k + 1)]
    BY <1>2
  <2> QED BY <1>1, <1>2, <2>1
<1>8. CASE a + k \in P
  <2>1. k + 1 \in 1 .. Len(r) /\ r[k + 1] = r[k]
    <3>1. a + k # b + 1
      BY <1>8
    <3>2. k + 1 \in 1 .. Len(r)
      BY <1>2, <3>1
    <3> QED BY <1>5, <1>7, <1>8, <3>2 DEF Paired
  <2>2. k # 1 => r[k - 1] # r[k]
    <3>1. SUFFICES ASSUME k # 1, X[a + k - 1] \in Wide PROVE X[a + k - 1] # X[a + k]
      BY <1>4, <1>5, <1>6
    <3>2. a + k - 1 \in P \/ a + k - 1 - 1 \in P
      BY <1>6, <3>1 DEF Paired
    <3>3. a + k - 1 \notin P
      <4>1. a + k - 1 \in P => (a + k - 1) + 1 \notin P
        BY DEF Paired
      <4>2. (a + k - 1) + 1 = a + k
        BY <1>2
      <4> QED BY <1>8, <4>1, <4>2
    <3>4. PICK p \in P : p = a + k - 1 - 1
      BY <3>2, <3>3
    <3>5. p + 2 = a + k /\ p + 1 = a + k - 1
      BY <1>2, <3>4
    <3>6. p + 2 \in P => X[p + 2] # X[p + 1]
      BY DEF Paired
    <3> QED BY <1>8, <3>5, <3>6
  <2> QED BY <2>1, <2>2
<1>9. CASE a + k - 1 \in P
  <2>1. PICK p \in P : p = a + k - 1
    BY <1>9
  <2>2. p \in 1 .. Len(X) /\ X[p + 1] = X[p] /\ p + 1 \notin P /\ (p + 2 \in P => X[p + 2] # X[p + 1])
    BY DEF Paired
  <2>3. p + 1 = a + k /\ p + 2 = a + k + 1 /\ (k = 1 => p = a)
    BY <2>1, <1>2
  <2>4. k # 1 /\ r[k - 1] = r[k]
    BY <1>5, <1>6, <2>1, <2>2, <2>3
  <2>5. k + 1 \in 1 .. Len(r) => r[k + 1] # r[k]
    <3>1. SUFFICES ASSUME k + 1 \in 1 .. Len(r), X[p + 2] \in Wide PROVE X[p + 2] # X[p + 1]
      BY <1>4, <1>5, <1>7, <2>3
    <3>2. p + 2 \in 1 .. Len(X)
      BY <1>7, <2>3, <3>1
    <3>3. p + 2 \in P \/ (p + 2) - 1 \in P
      BY <3>1, <3>2 DEF Paired
    <3>4. (p + 2) - 1 = p + 1
      BY <2>2
    <3> QED BY <2>2, <3>3, <3>4
  <2> QED BY <2>4, <2>5
<1>10. a + k \in P \/ a + k - 1 \in P
  BY <1>4, <1>5 DEF Paired
<1> QED BY <1>8, <1>9, <1>10

\* The input registers of the system: two of 32 bits, at 8 and 10.
LEMMA SysInputIs ==
    SysInput \in Seq(Fields) /\ Len(SysInput) = 17 /\ Paired(SysInput, {9, 11})
<1>1. SysInput \in Seq(Fields)
  BY DEF SysInput, Fields, VoltageFields, CurrentFields, DriveFields, CalCommands, ConfigFields,
         WriteOnly, Wide
<1>2. Len(SysInput) = 17
  BY DEF SysInput
<1>3. \A k \in 1 .. 17 : SysInput[k] \in Wide <=> k \in {9, 10, 11, 12}
  BY DEF SysInput, Wide
<1>4. SysInput[9] = SysInput[10] /\ SysInput[11] = SysInput[12] /\ SysInput[10] # SysInput[11]
  BY DEF SysInput
<1> QED BY <1>1, <1>2, <1>3, <1>4 DEF Paired

LEMMA SysHoldingIs ==
    SysHolding \in Seq(Fields) /\ Len(SysHolding) = 4 /\ Paired(SysHolding, {})
<1>1. SysHolding \in Seq(Fields)
  BY DEF SysHolding, Fields, VoltageFields, CurrentFields, DriveFields, CalCommands, ConfigFields,
         WriteOnly, Wide
<1>2. Len(SysHolding) = 4
  BY DEF SysHolding
<1>3. \A k \in 1 .. 4 : SysHolding[k] \notin Wide
  BY DEF SysHolding, Wide
<1> QED BY <1>1, <1>2, <1>3 DEF Paired

\* The input registers of the channel: the time stamp of every channel at 6, the raw
\* values of the measurements at 12 and 14.
LEMMA ChInputIs ==
    /\ ChInput \in Seq(Fields) /\ Len(ChInput) = 16 /\ Paired(ChInput, {7, 13, 15})
    /\ \A k \in 1 .. 16 : ChInput[k] \notin SystemWide
<1>1. ChInput \in Seq(Fields)
  BY DEF ChInput, Fields, VoltageFields, CurrentFields, DriveFields, CalCommands, ConfigFields,
         WriteOnly, Wide
<1>2. Len(ChInput) = 16
  BY DEF ChInput
<1>3. \A k \in 1 .. 16 : ChInput[k] \in Wide <=> k \in {7, 8, 13, 14, 15, 16}
  BY DEF ChInput, Wide
<1>4. /\ ChInput[7] = ChInput[8] /\ ChInput[13] = ChInput[14] /\ ChInput[15] = ChInput[16]
      /\ ChInput[14] # ChInput[15]
  BY DEF ChInput
<1>5. \A k \in 1 .. 16 : ChInput[k] \notin SystemWide
  BY DEF ChInput, SystemWide
<1> QED BY <1>1, <1>2, <1>3, <1>4, <1>5 DEF Paired

LEMMA ChHoldingIs ==
    /\ ChHolding \in Seq(Fields) /\ Len(ChHolding) = 34 /\ Paired(ChHolding, {})
    /\ \A k \in 1 .. 34 : ChHolding[k] \notin SystemWide
<1>1. ChHolding \in Seq(Fields)
  BY DEF ChHolding, Fields, VoltageFields, CurrentFields, DriveFields, CalCommands, ConfigFields,
         WriteOnly, Wide
<1>2. Len(ChHolding) = 34
  BY DEF ChHolding
<1>3. \A k \in 1 .. 34 : ChHolding[k] \notin Wide /\ ChHolding[k] \notin SystemWide
  BY DEF ChHolding, Wide, SystemWide
<1> QED BY <1>1, <1>2, <1>3 DEF Paired

\* What a channel serves of them.
LEMMA ChInputServed ==
    ASSUME NEW c, NEW k \in 1 .. 12,
           k = 11 => "VOLTAGE_MEASUREMENT" \in c, k = 12 => "CURRENT_MEASUREMENT" \in c
    PROVE  Serves("input", ChInput[k], c)
BY DEF ChInput, Serves, ch_input_supported, is_ch_cal_input_reg, vc_catalog_supported, VoltageFields,
       CurrentFields, DriveFields, WriteOnly

LEMMA ChHoldingServed ==
    ASSUME NEW c, NEW k \in 1 .. 30,
           k \in 4 .. 8 \cup {21, 22, 27} => "RAW_OUTPUT_DRIVE" \in c,
           k \in {23, 24, 28} => "VOLTAGE_MEASUREMENT" \in c,
           k \in 14 .. 16 \cup {25, 26, 29} => "CURRENT_MEASUREMENT" \in c,
           k = 17 => "RAW_OUTPUT_DRIVE" \in c /\ "VOLTAGE_MEASUREMENT" \in c,
           k = 18 => "RAW_OUTPUT_DRIVE" \notin c /\ "OUTPUT_ENABLE" \in c
    PROVE  Serves("holding", ChHolding[k], c)
BY DEF ChHolding, Serves, ch_holding_supported, vc_catalog_supported, VoltageFields,
       CurrentFields, DriveFields, WriteOnly, CalExponents

(***************************************************************************)
(* The blocks and the operations of the host                               *)
(***************************************************************************)
FitsTx(tx, name, c) ==
    /\ tx \in TxType /\ tx.regs # << >> /\ Fits(tx, name, c)
    /\ tx.fn # "write" => Words(tx.regs, FALSE)
Fitting(txs, name, c) ==
    txs \in Seq(TxType) /\ \A k \in 1 .. Len(txs) : FitsTx(txs[k], name, c)

LEMMA FittingTxs ==
    ASSUME NEW name, NEW c
    PROVE  /\ Fitting(<< >>, name, c)
           /\ \A t : FitsTx(t, name, c) => Fitting(<<t>>, name, c)
           /\ \A t, u : FitsTx(t, name, c) /\ FitsTx(u, name, c) => Fitting(<<t, u>>, name, c)
           /\ \A cond \in BOOLEAN : \A txs : (cond => Fitting(txs, name, c)) =>
                 Fitting(Only(cond, txs), name, c)
<1>1. Fitting(<< >>, name, c)
  BY DEF Fitting
<1>2. ASSUME NEW t, FitsTx(t, name, c) PROVE Fitting(<<t>>, name, c)
  <2>1. t \in TxType
    BY <1>2 DEF FitsTx
  <2>2. <<t>> \in Seq(TxType) /\ Len(<<t>>) = 1 /\ \A k \in 1 .. 1 : <<t>>[k] = t
    BY <2>1
  <2> QED BY <1>2, <2>2 DEF Fitting
<1>3. ASSUME NEW t, NEW u, FitsTx(t, name, c), FitsTx(u, name, c) PROVE Fitting(<<t, u>>, name, c)
  <2>1. t \in TxType /\ u \in TxType
    BY <1>3 DEF FitsTx
  <2>2. <<t, u>> \in Seq(TxType) /\ Len(<<t, u>>) = 2 /\ \A k \in 1 .. 2 : <<t, u>>[k] \in {t, u}
    BY <2>1
  <2> QED BY <1>3, <2>2 DEF Fitting
<1> QED BY <1>1, <1>2, <1>3 DEF Only

\* A transaction that reads a part of a list.
LEMMA PartFits ==
    ASSUME NEW X, NEW P, Paired(X, P), NEW a \in Nat, NEW b \in Nat, a <= b, b < Len(X),
           a \notin P, b + 1 \notin P, NEW name, NEW c,
           NEW fn \in {"input", "holding"}, NEW scope \in {"sys", "ch"},
           scope = "ch" =>
             /\ \A k \in 1 .. Len(X) : X[k] \notin SystemWide
             /\ name = "snapshot" \/ \A k \in a + 1 .. b + 1 : Serves(fn, X[k], c),
           NEW r, r = SubSeq(X, a + 1, b + 1)
    PROVE  FitsTx([fn |-> fn, scope |-> scope, val |-> "any", regs |-> r], name, c)
<1> DEFINE tx == [fn |-> fn, scope |-> scope, val |-> "any", regs |-> r]
<1>3. /\ r \in Seq(Fields) /\ r # << >> /\ Words(r, FALSE)
      /\ \A k \in 1 .. Len(r) :
            r[k] = X[a + k] /\ a + k \in 1 .. Len(X) /\ a + k \in a + 1 .. b + 1
  BY PartWords
<1>5. tx.fn = fn /\ tx.scope = scope /\ tx.regs = r /\ tx \in TxType
  BY <1>3 DEF TxType, Vals
<1>6. ASSUME scope = "ch", NEW k \in 1 .. Len(r)
      PROVE  r[k] \notin SystemWide /\ (name = "snapshot" \/ Serves(fn, r[k], c))
  <2>1. a + k \in 1 .. Len(X) /\ a + k \in a + 1 .. b + 1 /\ r[k] = X[a + k]
    BY <1>3
  <2> QED BY <1>6, <2>1
<1>7. Fits(tx, name, c)
  BY <1>5, <1>6 DEF Fits
<1> QED BY <1>3, <1>5, <1>7 DEF FitsTx

\* The parts that the blocks read.
LEMMA SysTxs ==
    ASSUME NEW name, NEW c
    PROVE  /\ FitsTx(Input("sys", 0, 1), name, c)
           /\ FitsTx(Input("sys", 6, 14), name, c)
           /\ FitsTx(Input("sys", 0, 16), name, c)
           /\ FitsTx(Holding("sys", 0, 3), name, c)
<1>1. ASSUME NEW a \in Nat, NEW b \in Nat, a <= b, b < 17, a \notin {9, 11}, b + 1 \notin {9, 11}
      PROVE  FitsTx(Input("sys", a, b), name, c)
  <2>1. Input("sys", a, b) =
           [fn |-> "input", scope |-> "sys", val |-> "any", regs |-> SubSeq(SysInput, a + 1, b + 1)]
    BY DEF Input
  <2> QED BY <1>1, <2>1, SysInputIs, PartFits
<1>2. FitsTx(Holding("sys", 0, 3), name, c)
  <2>1. PICK r, P : r = SubSeq(SysHolding, 0 + 1, 3 + 1) /\ P = {}
    OBVIOUS
  <2>2. Paired(SysHolding, P) /\ 0 \notin P /\ 3 + 1 \notin P /\ 3 < Len(SysHolding)
    BY <2>1, SysHoldingIs
  <2>3. FitsTx([fn |-> "holding", scope |-> "sys", val |-> "any", regs |-> r], name, c)
    <3>1. 0 \in Nat /\ 3 \in Nat /\ 0 <= 3
      OBVIOUS
    <3> QED BY ONLY <2>1, <2>2, <3>1, PartFits
  <2>4. Holding("sys", 0, 3) = [fn |-> "holding", scope |-> "sys", val |-> "any", regs |-> r]
    BY <2>1 DEF Holding
  <2> QED BY <2>3, <2>4
<1> QED BY <1>1, <1>2

LEMMA ChInputTx ==
    ASSUME NEW a \in Nat, NEW b \in Nat, a <= b, b < 16,
           a \notin {7, 13, 15}, b + 1 \notin {7, 13, 15}, NEW name, NEW c,
           name = "snapshot" \/ \A k \in a + 1 .. b + 1 : Serves("input", ChInput[k], c)
    PROVE  FitsTx(Input("ch", a, b), name, c)
<1>1. PICK r : r = SubSeq(ChInput, a + 1, b + 1)
  OBVIOUS
<1>2. /\ Paired(ChInput, {7, 13, 15}) /\ b < Len(ChInput)
      /\ \A k \in 1 .. Len(ChInput) : ChInput[k] \notin SystemWide
  BY ChInputIs
<1>3. FitsTx([fn |-> "input", scope |-> "ch", val |-> "any", regs |-> r], name, c)
  BY <1>1, <1>2, PartFits
<1>4. Input("ch", a, b) = [fn |-> "input", scope |-> "ch", val |-> "any", regs |-> r]
  BY <1>1 DEF Input
<1> QED BY <1>3, <1>4

LEMMA ChHoldingTx ==
    ASSUME NEW a \in Nat, NEW b \in Nat, a <= b, b < 34, NEW name, NEW c,
           name = "snapshot" \/ \A k \in a + 1 .. b + 1 : Serves("holding", ChHolding[k], c)
    PROVE  FitsTx(Holding("ch", a, b), name, c)
<1>1. PICK r, P : r = SubSeq(ChHolding, a + 1, b + 1) /\ P = {}
  OBVIOUS
<1>2. /\ Paired(ChHolding, P) /\ b < Len(ChHolding) /\ a \notin P /\ b + 1 \notin P
      /\ \A k \in 1 .. Len(ChHolding) : ChHolding[k] \notin SystemWide
  BY <1>1, ChHoldingIs
<1>3. FitsTx([fn |-> "holding", scope |-> "ch", val |-> "any", regs |-> r], name, c)
  BY <1>1, <1>2, PartFits
<1>4. Holding("ch", a, b) = [fn |-> "holding", scope |-> "ch", val |-> "any", regs |-> r]
  BY <1>1 DEF Holding
<1> QED BY <1>3, <1>4

\* A block of single writes.
LEMMA WritesFit ==
    ASSUME NEW fields \in Seq(Fields), NEW name, NEW c,
           name \in {"write", "disable"} \/ \A k \in 1 .. Len(fields) : Accepts(fields[k], c)
    PROVE  Fitting(writeRegs(fields), name, c)
<1>1. Len(fields) \in Nat
  BY LenProperties
<1>2. ASSUME NEW k \in 1 .. Len(fields)
      PROVE  FitsTx(Write1("ch", fields[k], "any"), name, c)
  <2>1. PICK f \in Fields : f = fields[k] /\ (name \in {"write", "disable"} \/ Accepts(f, c))
    BY <1>1, <1>2
  <2>2. PICK r : r = <<f>>
    OBVIOUS
  <2>3. r \in Seq(Fields) /\ r # << >> /\ \A i \in 1 .. Len(r) : r[i] = f
    BY <2>2
  <2>4. PICK tx : tx = [fn |-> "write", scope |-> "ch", val |-> "any", regs |-> r]
    OBVIOUS
  <2>5. tx \in TxType /\ tx.fn = "write" /\ tx.scope = "ch" /\ tx.regs = r
    BY <2>3, <2>4 DEF TxType, Vals
  <2>6. FitsTx(tx, name, c)
    BY <2>1, <2>3, <2>5 DEF FitsTx, Fits
  <2>7. Write1("ch", fields[k], "any") = tx
    BY <2>1, <2>2, <2>4 DEF Write1
  <2> QED BY <2>6, <2>7
<1>3. PICK txs : txs = writeRegs(fields)
  OBVIOUS
<1>4. txs = [i \in 1 .. Len(fields) |-> Write1("ch", fields[i], "any")]
  BY <1>3 DEF writeRegs
<1>5. \A k \in 1 .. Len(fields) : txs[k] \in TxType /\ FitsTx(txs[k], name, c)
  BY <1>2, <1>4 DEF FitsTx
<1>6. txs \in Seq(TxType) /\ Len(txs) = Len(fields)
  <2>1. txs \in [1 .. Len(fields) -> TxType]
    BY <1>4, <1>5
  <2> QED BY <1>1, <2>1
<1> QED BY <1>3, <1>5, <1>6 DEF Fitting

\* The blocks of the host, with the capabilities it knows: none, or those of the channel.
LEMMA BlockFits ==
    ASSUME NEW name \in BlockNames, NEW c, NEW known \in {{}, c}
    PROVE  Fitting(CliBlock(name, known), name, c)
<1>1. Fitting(<< >>, name, c)
  BY FittingTxs
<1>2. \A t : FitsTx(t, name, c) => Fitting(<<t>>, name, c)
  BY FittingTxs
<1>sys. /\ Fitting(verifyProtocol, name, c) /\ Fitting(readSystemStatus, name, c)
        /\ Fitting(readSystemInfo, name, c) /\ Fitting(readSystemConfig, name, c)
  BY <1>2, SysTxs DEF verifyProtocol, readSystemStatus, readSystemInfo, readSystemConfig
<1>in. ASSUME NEW a \in Nat, NEW b \in Nat, a <= b, b < 12, a # 7, b # 6,
              a <= 10 /\ 10 <= b => "VOLTAGE_MEASUREMENT" \in c,
              b = 11 => "CURRENT_MEASUREMENT" \in c
       PROVE  Fitting(<<Input("ch", a, b)>>, name, c)
  <2>1. ASSUME NEW k \in a + 1 .. b + 1
        PROVE  Serves("input", ChInput[k], c)
    BY <1>in, ChInputServed
  <2>2. FitsTx(Input("ch", a, b), name, c)
    BY <1>in, <2>1, ChInputTx
  <2> QED BY <1>2, <2>2
<1>hold. ASSUME NEW a \in Nat, NEW b \in Nat, a <= b, b < 30,
                \A k \in a + 1 .. b + 1 : Serves("holding", ChHolding[k], c)
         PROVE  Fitting(<<Holding("ch", a, b)>>, name, c)
  <2>1. FitsTx(Holding("ch", a, b), name, c)
    BY <1>hold, ChHoldingTx
  <2> QED BY <1>2, <2>1
<1>caps. Fitting(readChannelCapabilities, name, c) /\ Fitting(CapsProbe(known), name, c)
  BY <1>1, <1>in DEF readChannelCapabilities, CapsProbe, Only
<1>status. Fitting(readChannelStatus(known), name, c)
  BY <1>in DEF readChannelStatus
<1>info. Fitting(readChannelInfo(known), name, c) /\ Fitting(InfoMeasures(known), name, c)
  BY <1>1, <1>in DEF readChannelInfo, InfoMeasures, Only
<1>measure. /\ Fitting(StatusMeasure(known, "VOLTAGE_MEASUREMENT", 10), name, c)
            /\ Fitting(StatusMeasure(known, "CURRENT_MEASUREMENT", 11), name, c)
  BY <1>1, <1>in DEF StatusMeasure, Haves, Only
<1>output. Fitting(readChannelOutputBlock(known), name, c)
  <2>1. ASSUME "RAW_OUTPUT_DRIVE" \in c PROVE Fitting(<<Holding("ch", 0, 7)>>, name, c)
    <3>1. \A k \in 0 + 1 .. 7 + 1 : Serves("holding", ChHolding[k], c)
      BY <2>1, ChHoldingServed
    <3>2. FitsTx(Holding("ch", 0, 7), name, c)
      BY <3>1, ChHoldingTx
    <3> QED BY <1>2, <3>2
  <2>2. Fitting(<<Holding("ch", 0, 2)>>, name, c)
    <3>1. \A k \in 0 + 1 .. 2 + 1 : Serves("holding", ChHolding[k], c)
      BY ChHoldingServed
    <3>2. FitsTx(Holding("ch", 0, 2), name, c)
      BY <3>1, ChHoldingTx
    <3> QED BY <1>2, <3>2
  <2> QED BY <2>1, <2>2 DEF readChannelOutputBlock, Haves
<1>recovery. Fitting(readChannelRecoveryBlock, name, c)
  BY <1>hold, ChHoldingServed DEF readChannelRecoveryBlock
<1>protection. Fitting(readChannelProtectionBlock(known), name, c)
  <2>1. "CURRENT_MEASUREMENT" \in c => Fitting(<<Holding("ch", 13, 15)>>, name, c)
    <3>1. "CURRENT_MEASUREMENT" \in c => \A k \in 14 .. 16 : Serves("holding", ChHolding[k], c)
      BY ChHoldingServed
    <3> QED BY <1>hold, <3>1
  <2> QED BY <1>1, <2>1 DEF readChannelProtectionBlock, Haves, Only
<1>derate. Fitting(readChannelDerateBlock(known), name, c)
  <2>1. "RAW_OUTPUT_DRIVE" \in c /\ "VOLTAGE_MEASUREMENT" \in c =>
           Fitting(<<Holding("ch", 16, 16)>>, name, c)
    BY <1>hold, ChHoldingServed
  <2> QED BY <1>1, <2>1 DEF readChannelDerateBlock, Haves, Only
<1>enabled. Fitting(readChannelOutputEnabledBlock(known), name, c)
  <2>1. "RAW_OUTPUT_DRIVE" \notin c /\ "OUTPUT_ENABLE" \in c =>
           Fitting(<<Holding("ch", 17, 17)>>, name, c)
    BY <1>hold, ChHoldingServed
  <2> QED BY <1>1, <2>1 DEF readChannelOutputEnabledBlock, Haves, Only
<1>part. ASSUME NEW cap, NEW a \in Nat, NEW b \in Nat, a <= b, b < 30,
                cap \in c => \A k \in a + 1 .. b + 1 : Serves("holding", ChHolding[k], c)
         PROVE  Fitting(CalPart(known, cap, a, b), name, c)
  <2>1. cap \in c => FitsTx(Holding("ch", a, b), name, c)
    BY <1>part, ChHoldingTx
  <2>2. cap \in c => Fitting(<<Holding("ch", a, b)>>, name, c)
    BY <1>2, <2>1
  <2> QED BY <1>1, <2>2 DEF CalPart, Haves, Only
<1>parts. /\ Fitting(CalPart(known, "RAW_OUTPUT_DRIVE", 20, 21), name, c)
          /\ Fitting(CalPart(known, "RAW_OUTPUT_DRIVE", 26, 26), name, c)
          /\ Fitting(CalPart(known, "VOLTAGE_MEASUREMENT", 22, 23), name, c)
          /\ Fitting(CalPart(known, "VOLTAGE_MEASUREMENT", 27, 27), name, c)
          /\ Fitting(CalPart(known, "CURRENT_MEASUREMENT", 24, 25), name, c)
          /\ Fitting(CalPart(known, "CURRENT_MEASUREMENT", 28, 28), name, c)
  <2>1. Fitting(CalPart(known, "RAW_OUTPUT_DRIVE", 20, 21), name, c)
    <3>1. "RAW_OUTPUT_DRIVE" \in c => \A k \in 20 + 1 .. 21 + 1 : Serves("holding", ChHolding[k], c)
      BY ChHoldingServed
    <3> QED BY <1>part, <3>1
  <2>2. Fitting(CalPart(known, "RAW_OUTPUT_DRIVE", 26, 26), name, c)
    <3>1. "RAW_OUTPUT_DRIVE" \in c => \A k \in 26 + 1 .. 26 + 1 : Serves("holding", ChHolding[k], c)
      BY ChHoldingServed
    <3> QED BY <1>part, <3>1
  <2>3. Fitting(CalPart(known, "VOLTAGE_MEASUREMENT", 22, 23), name, c)
    <3>1. "VOLTAGE_MEASUREMENT" \in c => \A k \in 22 + 1 .. 23 + 1 : Serves("holding", ChHolding[k], c)
      BY ChHoldingServed
    <3> QED BY <1>part, <3>1
  <2>4. Fitting(CalPart(known, "VOLTAGE_MEASUREMENT", 27, 27), name, c)
    <3>1. "VOLTAGE_MEASUREMENT" \in c => \A k \in 27 + 1 .. 27 + 1 : Serves("holding", ChHolding[k], c)
      BY ChHoldingServed
    <3> QED BY <1>part, <3>1
  <2>5. Fitting(CalPart(known, "CURRENT_MEASUREMENT", 24, 25), name, c)
    <3>1. "CURRENT_MEASUREMENT" \in c => \A k \in 24 + 1 .. 25 + 1 : Serves("holding", ChHolding[k], c)
      BY ChHoldingServed
    <3> QED BY <1>part, <3>1
  <2>6. Fitting(CalPart(known, "CURRENT_MEASUREMENT", 28, 28), name, c)
    <3>1. "CURRENT_MEASUREMENT" \in c => \A k \in 28 + 1 .. 28 + 1 : Serves("holding", ChHolding[k], c)
      BY ChHoldingServed
    <3> QED BY <1>part, <3>1
  <2> QED BY <2>1, <2>2, <2>3, <2>4, <2>5, <2>6
<1>all. Fitting(readChannelCalConfig(known), name, c)
  <2>1. ASSUME CalAll(c) PROVE Fitting(<<Holding("ch", 20, 28)>>, name, c)
    <3>1. \A k \in 20 + 1 .. 28 + 1 : Serves("holding", ChHolding[k], c)
      BY <2>1, ChHoldingServed DEF CalAll
    <3>2. FitsTx(Holding("ch", 20, 28), name, c)
      BY <3>1, ChHoldingTx
    <3> QED BY <1>2, <3>2
  <2> QED BY <1>1, <2>1 DEF readChannelCalConfig, CalAll, Only
<1>snap. name = "snapshot" => Fitting(readCalibrationSnapshot, name, c)
  <2>1. SUFFICES ASSUME name = "snapshot" PROVE Fitting(readCalibrationSnapshot, name, c)
    OBVIOUS
  <2>2. FitsTx(Input("ch", 12, 15), name, c)
    BY <2>1, ChInputTx
  <2>3. FitsTx(Holding("ch", 30, 33), name, c)
    BY <2>1, ChHoldingTx
  <2> QED BY <2>2, <2>3, FittingTxs DEF readCalibrationSnapshot
<1>write. /\ name = "disable" => Fitting(writeRegs(<<"OUTPUT_ACTION">>), name, c)
          /\ Fitting(VoltageWrite(known), name, c)
          /\ Fitting(EnableCfgWrite(known), name, c)
  <2>1. ASSUME NEW f \in Fields, name = "disable" \/ Accepts(f, c)
        PROVE  Fitting(writeRegs(<<f>>), name, c)
    <3>1. PICK fs : fs = <<f>>
      OBVIOUS
    <3>2. fs \in Seq(Fields) /\ \A k \in 1 .. Len(fs) : fs[k] = f
      BY <3>1
    <3> QED BY <2>1, <3>1, <3>2, WritesFit
  <2>2. {"OUTPUT_ACTION", "CFG_TARGET_VOLTAGE", "CFG_OUTPUT_ENABLED"} \subseteq Fields
    BY DEF Fields, WriteOnly, ConfigFields
  <2>3. "RAW_OUTPUT_DRIVE" \in c => Accepts("CFG_TARGET_VOLTAGE", c)
    BY DEF Accepts, ch_holding_supported, vc_catalog_supported, is_ch_cal_holding_reg, CalCommands,
           VoltageFields, CurrentFields, DriveFields, CalExponents
  <2>4. "RAW_OUTPUT_DRIVE" \notin c /\ "OUTPUT_ENABLE" \in c => Accepts("CFG_OUTPUT_ENABLED", c)
    BY DEF Accepts, ch_holding_supported, vc_catalog_supported, is_ch_cal_holding_reg, CalCommands,
           VoltageFields, CurrentFields, DriveFields, CalExponents
  <2> QED BY <1>1, <2>1, <2>2, <2>3, <2>4 DEF VoltageWrite, EnableCfgWrite, Haves, Only
<1>blocks1. name \in {"connect", "verify", "sysStatus", "sysInfo", "sysConfig", "chCaps", "probe",
               "chStatus", "statusV", "statusI", "chInfo", "infoVI"} =>
          Fitting(CliBlock(name, known), name, c)
  BY <1>sys, <1>caps, <1>status, <1>info, <1>measure DEF CliBlock, Block
<1>blocks2. name \in {"output", "recovery", "protection", "derate", "enabled"} =>
          Fitting(CliBlock(name, known), name, c)
  BY <1>output, <1>recovery, <1>protection, <1>derate, <1>enabled DEF CliBlock, Block
<1>blocks3. name \in {"calAll", "calOut", "calOutExp", "calV", "calVExp", "calI", "calIExp"} =>
          Fitting(CliBlock(name, known), name, c)
  BY <1>parts, <1>all DEF CliBlock, Block
<1>blocks4. name \in {"snapshot", "disable", "voltage", "enable-cfg"} =>
          Fitting(CliBlock(name, known), name, c)
  BY <1>snap, <1>write DEF CliBlock, Block
<1> QED BY <1>blocks1, <1>blocks2, <1>blocks3, <1>blocks4 DEF BlockNames

\* What a client writes outside a block of reads.
LEMMA WriteOpsFit ==
    ASSUME NEW c, NEW op \in WriteOps \cup CliWrites
    PROVE  Fitting(op, "write", c)
<1>1. ASSUME NEW scope \in {"sys", "ch", "ext"}, NEW f \in Fields, NEW v \in Vals
      PROVE  Fitting(<<Write1(scope, f, v)>>, "write", c)
  <2>1. PICK r : r = <<f>>
    OBVIOUS
  <2>2. r \in Seq(Fields) /\ r # << >>
    BY <2>1
  <2>3. PICK tx : tx = [fn |-> "write", scope |-> scope, val |-> v, regs |-> r]
    OBVIOUS
  <2>4. tx \in TxType /\ tx.fn = "write" /\ tx.regs = r
    BY <2>2, <2>3 DEF TxType
  <2>5. FitsTx(tx, "write", c)
    BY <2>2, <2>4 DEF FitsTx, Fits
  <2>6. Write1(scope, f, v) = tx
    BY <2>1, <2>3 DEF Write1
  <2> QED BY <2>5, <2>6, FittingTxs
<1>2. ASSUME NEW fields \in Seq(Fields)
      PROVE  Fitting(writeRegs(fields), "write", c)
  BY WritesFit
<1>3. {"STARTUP_CHANNEL_POLICY", "SLAVE_ADDRESS", "BAUD_RATE_CODE", "SYS_PARAM_ACTION",
       "OPERATING_MODE", "CAL_EXIT", "CAL_UNLOCK", "CAL_OUTPUT_ENABLE", "CAL_DAC_CODE",
       "CAL_SAMPLE_CMD", "CAL_COMMIT_CMD"} \subseteq Fields
  BY DEF Fields, CalCommands
<1>4. {"normal", "calibration", "any", "STEP1", "STEP2", "execute", "off", "on"} \subseteq Vals
  BY DEF Vals
<1>5. CASE op \in SystemWrites \cup SystemCommands
  BY <1>1, <1>3, <1>4, <1>5 DEF SystemWrites, SystemCommands
<1>6. CASE op \in CalibrationWrites
  BY <1>1, <1>3, <1>4, <1>6 DEF CalibrationWrites
<1>7. CASE op \in ChannelWrites \cup ChannelCommands
  <2>1. \A f \in {"PARAM_ACTION", "CFG_TARGET_VOLTAGE", "CFG_OUTPUT_ENABLED", "OUTPUT_ACTION",
                  "FAULT_CMD", "CURRENT_SAFE_BAND_PCT", "AUTO_DERATE_STEP"} \cup CalExponents :
           <<f>> \in Seq(Fields)
    BY DEF Fields, WriteOnly, ConfigFields, CalExponents, VoltageFields, CurrentFields, DriveFields
  <2>2. /\ <<"RAMP_UP_STEP", "RAMP_UP_INTERVAL">> \in Seq(Fields)
        /\ <<"RAMP_DOWN_STEP", "RAMP_DOWN_INTERVAL">> \in Seq(Fields)
        /\ <<"RECOVERY_POLICY_MODE", "AUTO_RETRY_DELAY", "AUTO_RETRY_MAX_COUNT",
             "AUTO_RETRY_WINDOW">> \in Seq(Fields)
        /\ <<"CURRENT_PROTECTION_MODE", "CURRENT_PROT_OUT_ACTION",
             "CURRENT_LIMIT_THRESHOLD">> \in Seq(Fields)
    BY DEF Fields, ConfigFields
  <2>3. /\ <<"OUTPUT_CAL_K", "OUTPUT_CAL_B">> \in Seq(Fields)
        /\ <<"MEASURED_V_CAL_K", "MEASURED_V_CAL_B">> \in Seq(Fields)
        /\ <<"MEASURED_I_CAL_K", "MEASURED_I_CAL_B">> \in Seq(Fields)
    BY DEF Fields, VoltageFields, CurrentFields, DriveFields
  <2>4. CASE op \in ChannelWrites
    BY <1>2, <2>1, <2>2, <2>3, <2>4 DEF ChannelWrites
  <2>5. CASE op \in ChannelCommands
    BY <1>2, <2>1, <2>2, <2>5, <1>3 DEF ChannelCommands
  <2> QED BY <1>7, <2>4, <2>5
<1> QED BY <1>5, <1>6, <1>7 DEF WriteOps, CliWrites

\* The operations that read name blocks.
LEMMA ReadOpsNames ==
    ReadOps \cup CliScripts \subseteq Seq(BlockNames)
<1>1. ReadOps \subseteq Seq(BlockNames)
  BY DEF ReadOps, BlockNames
<1>2. /\ ChannelInfo \in Seq(BlockNames) /\ ChannelConfig \in Seq(BlockNames)
      /\ <<"sysInfo">> \in Seq(BlockNames) /\ <<"connect">> \in Seq(BlockNames)
      /\ <<"sysStatus", "chStatus", "statusV", "statusI">> \in Seq(BlockNames)
      /\ <<"disable">> \in Seq(BlockNames) /\ <<"voltage">> \in Seq(BlockNames)
      /\ <<"enable-cfg">> \in Seq(BlockNames) /\ <<"sysConfig">> \in Seq(BlockNames)
  BY DEF ChannelInfo, ChannelConfig, BlockNames
<1>3. cmdChannelCal \in Seq(BlockNames)
  BY DEF cmdChannelCal, BlockNames
<1>4. \A s, t \in Seq(BlockNames) : s \o t \in Seq(BlockNames)
  BY ConcatProperties
<1>5. {cmdInfo, cmdStatus, cmdMonitor, cmdSystemConfig, cmdChannelInfo, cmdChannelConfig,
       cmdChannelCal, chOutputDisable, chVoltage, chEnableCfg} \subseteq Seq(BlockNames)
  BY <1>2, <1>3, <1>4 DEF cmdInfo, cmdStatus, cmdMonitor, cmdSystemConfig, cmdChannelInfo,
     cmdChannelConfig, chOutputDisable, chVoltage, chEnableCfg
<1>6. ASSUME NEW op \in CliScripts PROVE op \in Seq(BlockNames)
  <2>1. PICK s \in {cmdInfo, cmdStatus, cmdMonitor, cmdSystemConfig, cmdChannelInfo, cmdChannelConfig,
                    cmdChannelCal, chOutputDisable, chVoltage, chEnableCfg} : op = <<"connect">> \o s
    BY DEF CliScripts
  <2> QED BY <1>2, <1>4, <1>5, <2>1
<1> QED BY <1>1, <1>6

(***************************************************************************)
(* The commands of the shell                                               *)
(***************************************************************************)
\* A step that the owner of a channel with the capabilities c serves.
ServedReads(R, c) == R \subseteq Fields /\ \A f \in R : vc_catalog_supported(f, c)
ServedStep(s, c) == s \in StepType /\ ServedReads(s.reads, c)

\* A command as it is started: the handshake, or nothing of it after the first step.
ServedCommand(cmd, c) ==
    /\ cmd \in Seq(StepType) /\ cmd # << >>
    /\ \A k \in 1 .. Len(cmd) : ServedStep(cmd[k], c)
    /\ \/ cmd = Unlocks
       \/ /\ cmd[1].field # "CAL_UNLOCK" /\ ~cmd[1].watch
          /\ \A k \in 2 .. Len(cmd) : Ordinary(cmd[k])

LEMMA ServedSnapshots ==
    ASSUME NEW c
    PROVE  /\ ServedReads({}, c) /\ ServedReads(read_system_snapshot, c)
           /\ ServedReads(read_channel_snapshot(c), c) /\ ServedReads(read_system_config, c)
           /\ ServedReads(read_channel_config(c), c) /\ ServedReads(read_cal_config(c), c)
<1> USE DEF ServedReads, vc_catalog_supported, Fields, VoltageFields, CurrentFields, DriveFields,
            CalCommands, ConfigFields, WriteOnly, Wide, Has
<1>1. ServedReads({}, c) /\ ServedReads(read_system_snapshot, c) /\ ServedReads(read_system_config, c)
  BY DEF read_system_snapshot, read_system_config
<1>2. ServedReads(read_channel_snapshot(c), c)
  BY DEF read_channel_snapshot
<1>3. ServedReads(read_channel_config(c), c)
  BY DEF read_channel_config
<1>4. ServedReads(read_cal_config(c), c)
  BY DEF read_cal_config
<1> QED BY <1>1, <1>2, <1>3, <1>4

LEMMA ServedSteps ==
    ASSUME NEW c, NEW R, ServedReads(R, c), NEW f \in Fields \cup {"none"}, NEW v \in Vals
    PROVE  /\ ServedStep(Step(R, f, v), c) /\ ~Step(R, f, v).watch
           /\ Step(R, f, v).field = f /\ Step(R, f, v).val = v
           /\ ServedStep(Watch(R), c) /\ Ordinary(Watch(R))
<1>1. /\ ServedStep(Step(R, f, v), c) /\ ~Step(R, f, v).watch
      /\ Step(R, f, v).field = f /\ Step(R, f, v).val = v
  BY DEF ServedStep, ServedReads, Step, StepType
<1>2. ASSUME NEW s \in StepType
      PROVE  LET w == [s EXCEPT !.watch = TRUE]
             IN  w \in StepType /\ w.reads = s.reads /\ w.field = s.field /\ w.val = s.val
  BY DEF StepType
<1>3. ServedStep(Watch(R), c) /\ Ordinary(Watch(R))
  <2>1. PICK s : s = Reads(R)
    OBVIOUS
  <2>2. s \in StepType /\ s.reads = R /\ s.field = "none" /\ s.val = "any"
    BY <2>1 DEF ServedReads, Reads, Step, StepType, Vals
  <2>3. Watch(R) = [s EXCEPT !.watch = TRUE]
    BY <2>1 DEF Watch
  <2>4. /\ Watch(R) \in StepType /\ Watch(R).reads = R
        /\ Watch(R).field = "none" /\ Watch(R).val = "any"
    BY <1>2, <2>2, <2>3
  <2> QED BY <2>4 DEF ServedStep, Ordinary
<1> QED BY <1>1, <1>3

\* Commands of one step and of two.
LEMMA ServedTuples ==
    ASSUME NEW c, NEW s, ServedStep(s, c), s.field # "CAL_UNLOCK", ~s.watch
    PROVE  /\ ServedCommand(<<s>>, c)
           /\ \A t : ServedStep(t, c) /\ Ordinary(t) => ServedCommand(<<s, t>>, c)
<1>1. s \in StepType
  BY DEF ServedStep
<1>2. ServedCommand(<<s>>, c)
  <2>1. <<s>> \in Seq(StepType) /\ Len(<<s>>) = 1 /\ <<s>>[1] = s /\ <<s>> # << >>
    BY <1>1
  <2> QED BY <2>1 DEF ServedCommand
<1>3. ASSUME NEW t, ServedStep(t, c), Ordinary(t) PROVE ServedCommand(<<s, t>>, c)
  <2>1. t \in StepType
    BY <1>3 DEF ServedStep
  <2>2. /\ <<s, t>> \in Seq(StepType) /\ Len(<<s, t>>) = 2 /\ <<s, t>>[1] = s /\ <<s, t>>[2] = t
        /\ <<s, t>> # << >>
    BY <1>1, <2>1
  <2> QED BY <1>3, <2>2 DEF ServedCommand
<1> QED BY <1>2, <1>3

LEMMA CommandsServed ==
    ASSUME NEW c, NEW cmd \in ShellCommands(c)
    PROVE  ServedCommand(cmd, c)
<1>1. ASSUME NEW R, ServedReads(R, c)
      PROVE  ServedCommand(<<Reads(R)>>, c) /\ ServedStep(Reads(R), c) /\ Ordinary(Reads(R))
  <2>1. Reads(R) = Step(R, "none", "any") /\ "any" \in Vals
    BY DEF Reads, Vals
  <2>2. PICK s : s = Step(R, "none", "any")
    OBVIOUS
  <2>3. ServedStep(s, c) /\ ~s.watch /\ s.field = "none" /\ s.val = "any"
    BY <1>1, <2>1, <2>2, ServedSteps
  <2> QED BY <2>1, <2>2, <2>3, ServedTuples DEF Ordinary
<1>2. ASSUME NEW R, ServedReads(R, c), NEW f \in Fields \ {"CAL_UNLOCK"}, NEW v \in Vals
      PROVE  ServedCommand(<<Step(R, f, v)>>, c)
  <2>1. PICK s : s = Step(R, f, v)
    OBVIOUS
  <2>2. ServedStep(s, c) /\ ~s.watch /\ s.field = f
    BY <1>2, <2>1, ServedSteps
  <2> QED BY <1>2, <2>1, <2>2, ServedTuples
<1>3. ASSUME NEW R, ServedReads(R, c), NEW T, ServedReads(T, c)
      PROVE  ServedCommand(<<Reads(R), Reads(T)>>, c) /\ ServedCommand(<<Reads(R), Watch(T)>>, c)
  <2>1. PICK s : s = Reads(R)
    OBVIOUS
  <2>2. ServedStep(s, c) /\ ~s.watch /\ s.field = "none"
    BY <1>1, <1>3, <2>1 DEF Reads, Step
  <2>3. ServedStep(Reads(T), c) /\ Ordinary(Reads(T))
    BY <1>1, <1>3
  <2>4. ServedStep(Watch(T), c) /\ Ordinary(Watch(T))
    BY <1>3, ServedSteps DEF Vals
  <2> QED BY <2>1, <2>2, <2>3, <2>4, ServedTuples
<1>4. ASSUME NEW R, ServedReads(R, c), NEW T, ServedReads(T, c), NEW f \in Fields \ {"CAL_UNLOCK"},
             NEW g \in (Fields \cup {"none"}) \ {"CAL_UNLOCK"}, NEW v \in Vals
      PROVE  ServedCommand(<<Step(R, f, v), Step(T, g, "any")>>, c)
  <2>1. PICK s, t : s = Step(R, f, v) /\ t = Step(T, g, "any")
    OBVIOUS
  <2>2. ServedStep(s, c) /\ ~s.watch /\ s.field = f
    BY <1>4, <2>1, ServedSteps
  <2>3. ServedStep(t, c) /\ t.field = g /\ t.val = "any"
    BY <1>4, <2>1, ServedSteps DEF Vals
  <2> QED BY <1>4, <2>1, <2>2, <2>3, ServedTuples DEF Ordinary
<1>5. ServedCommand(Unlocks, c)
  <2>1. \A f \in {"CAL_UNLOCK", "OPERATING_MODE"}, v \in {"STEP1", "STEP2", "calibration"} :
           ServedStep(Write(f, v), c)
    BY ServedSteps, ServedSnapshots DEF Write, Fields, Vals
  <2>2. PICK x, y, z : /\ x = Write("CAL_UNLOCK", "STEP1") /\ y = Write("CAL_UNLOCK", "STEP2")
                       /\ z = Write("OPERATING_MODE", "calibration")
    OBVIOUS
  <2>3. ServedStep(x, c) /\ ServedStep(y, c) /\ ServedStep(z, c)
    BY <2>1, <2>2
  <2>4. x \in StepType /\ y \in StepType /\ z \in StepType
    BY <2>3 DEF ServedStep
  <2>5. /\ <<x, y, z>> \in Seq(StepType) /\ Len(<<x, y, z>>) = 3 /\ <<x, y, z>> # << >>
        /\ \A k \in 1 .. 3 : <<x, y, z>>[k] \in {x, y, z}
    BY <2>4
  <2>6. Unlocks = <<x, y, z>>
    BY <2>2 DEF Unlocks
  <2> QED BY <2>3, <2>5, <2>6 DEF ServedCommand
<1>6. {"OPERATING_MODE", "SYS_PARAM_ACTION", "PARAM_ACTION", "STARTUP_CHANNEL_POLICY", "OUTPUT_ACTION",
       "CFG_TARGET_VOLTAGE", "FAULT_CMD", "CAL_EXIT", "CAL_OUTPUT_ENABLE", "CAL_DAC_CODE",
       "CAL_COMMIT_CMD", "CAL_SAMPLE_CMD"} \cup ConfigFields \cup CalCoefficients \cup CalExponents
         \subseteq Fields \ {"CAL_UNLOCK"}
  BY DEF Fields, ConfigFields, CalCoefficients, CalExponents, CalCommands, WriteOnly, VoltageFields,
         CurrentFields, DriveFields
<1>7. {"any", "normal", "calibration", "execute", "off", "on"} \subseteq Vals
  BY DEF Vals
<1>8. \A R, T : ServedReads(R, c) /\ ServedReads(T, c) => ServedReads(R \cup T, c)
  BY DEF ServedReads
<1>9. CASE cmd \in cmd_status(c) \cup cmd_watch(c) \cup cmd_sys_status \cup cmd_sys_config
  BY <1>1, <1>3, <1>9, ServedSnapshots DEF cmd_status, cmd_watch, cmd_sys_status, cmd_sys_config
<1>10. CASE cmd \in cmd_mode \cup cmd_sys_param \cup cmd_sys_set
  <2>1. \A f \in Fields \ {"CAL_UNLOCK"}, v \in Vals : ServedCommand(<<Write(f, v)>>, c)
    BY <1>2, ServedSnapshots DEF Write
  <2> QED BY <1>6, <1>7, <1>10, <2>1 DEF cmd_mode, cmd_sys_param, cmd_sys_set
<1>11. CASE cmd \in cmd_param
  BY <1>4, <1>6, <1>7, <1>11, ServedSnapshots DEF cmd_param, Write
<1>12. CASE cmd \in cmd_ch(c)
  <2>1. /\ ServedCommand(<<Reads(parse_channel \cup read_channel_snapshot(c))>>, c)
        /\ ServedCommand(<<Reads(parse_channel \cup read_channel_config(c))>>, c)
    BY <1>1, <1>8, ServedSnapshots DEF parse_channel
  <2>2. ASSUME NEW f \in {"OUTPUT_ACTION", "CFG_TARGET_VOLTAGE", "FAULT_CMD", "PARAM_ACTION"}
                            \cup channel_config_id
        PROVE  ServedCommand(<<Step(parse_channel, f, "any")>>, c)
    BY <1>2, <1>6, <1>7, ServedSnapshots DEF parse_channel, channel_config_id
  <2> QED BY <1>12, <2>1, <2>2 DEF cmd_ch
<1>13. CASE cmd \in cmd_cal_session(c)
  <2>1. ServedCommand(<<Write("CAL_EXIT", "execute")>>, c)
    BY <1>2, <1>6, <1>7, ServedSnapshots DEF Write
  <2> QED BY <1>3, <1>5, <1>13, <2>1, ServedSnapshots DEF cmd_cal_session, Unlocks
<1>14. CASE cmd \in cmd_cal_channel(c)
  <2>1. ServedReads(parse_channel, c)
    BY ServedSnapshots DEF parse_channel
  <2>2. \A v \in {"off", "on"} : ServedCommand(<<Step(parse_channel, "CAL_OUTPUT_ENABLE", v)>>, c)
    BY <1>2, <1>6, <1>7, <2>1
  <2>3. \A f \in {"CAL_DAC_CODE", "CAL_COMMIT_CMD"} \cup cal_config_id :
           ServedCommand(<<Step(parse_channel, f, "any")>>, c)
    BY <1>2, <1>6, <1>7, <2>1 DEF cal_config_id
  <2>4. ServedCommand(<<Step(parse_channel, "CAL_SAMPLE_CMD", "execute"),
                        Reads(read_channel_snapshot(c))>>, c)
    BY <1>4, <1>6, <1>7, <2>1, ServedSnapshots DEF Reads
  <2>5. ServedCommand(<<Reads(parse_channel \cup read_cal_config(c))>>, c)
    BY <1>1, <1>8, <2>1, ServedSnapshots
  <2> QED BY <1>14, <2>2, <2>3, <2>4, <2>5 DEF cmd_cal_channel
<1> QED BY <1>9, <1>10, <1>11, <1>12, <1>13, <1>14 DEF ShellCommands

(***************************************************************************)
(* The steps of the host                                                   *)
(***************************************************************************)
\* One register further in a list.
LEMMA WordsTail ==
    ASSUME NEW r \in Seq(Fields), r # << >>, NEW low \in BOOLEAN, Words(r, low),
           NEW hi, hi = (r[1] \in Wide /\ ~low)
    PROVE  /\ Tail(r) \in Seq(Fields) /\ Words(Tail(r), hi)
           /\ hi => Tail(r) # << >> /\ Tail(r)[1] = r[1]
<1>1. Len(r) \in Nat /\ Len(r) # 0
  BY LenProperties, EmptySeq
<1>2. /\ Tail(r) \in Seq(Fields) /\ Len(Tail(r)) = Len(r) - 1
      /\ \A k \in 1 .. Len(r) - 1 : Tail(r)[k] = r[k + 1]
  BY HeadTailProperties
<1>3. PICK t : t = Tail(r)
  OBVIOUS
<1>4. /\ t \in Seq(Fields) /\ Len(t) = Len(r) - 1
      /\ \A k \in 1 .. Len(t) : k + 1 \in 1 .. Len(r) /\ t[k] = r[k + 1]
  BY <1>1, <1>2, <1>3
<1>5. \A k \in 1 .. Len(r) : r[k] \in Wide =>
         (k + 1 \in 1 .. Len(r) /\ r[k + 1] = r[k])
           # IF k = 1 THEN low ELSE r[k - 1] = r[k]
  BY DEF Words
<1>6. r[1] \in Wide => (2 \in 1 .. Len(r) /\ r[2] = r[1]) # low
  BY <1>1, <1>5
<1>7. hi => t # << >> /\ t[1] = r[1] /\ r[1] \in Wide
  <2>1. SUFFICES ASSUME hi PROVE t # << >> /\ t[1] = r[1] /\ r[1] \in Wide
    OBVIOUS
  <2>2. 2 \in 1 .. Len(r) /\ r[2] = r[1] /\ r[1] \in Wide
    BY <1>6, <2>1
  <2>3. 1 \in 1 .. Len(t) /\ t[1] = r[2]
    BY <1>4, <2>2
  <2> QED BY <2>2, <2>3
<1>8. ASSUME NEW k \in 1 .. Len(t), t[k] \in Wide
      PROVE  (k + 1 \in 1 .. Len(t) /\ t[k + 1] = t[k]) # IF k = 1 THEN hi ELSE t[k - 1] = t[k]
  <2>1. t[k] = r[k + 1] /\ k + 1 \in 1 .. Len(r)
    BY <1>4
  <2>2. (k + 1 \in 1 .. Len(t) /\ t[k + 1] = t[k]) = (k + 2 \in 1 .. Len(r) /\ r[k + 2] = r[k + 1])
    BY <1>1, <1>4, <2>1
  <2>3. (k + 2 \in 1 .. Len(r) /\ r[k + 2] = r[k + 1]) # (r[k] = r[k + 1])
    <3>1. k + 1 # 1 /\ (k + 1) + 1 = k + 2 /\ (k + 1) - 1 = k
      OBVIOUS
    <3> QED BY <1>5, <1>8, <2>1, <3>1
  <2>4. CASE k = 1
    <3>1. (r[1] = r[2]) = hi
      BY <1>6, <1>8, <2>1, <2>4
    <3> QED BY <2>2, <2>3, <2>4, <3>1
  <2>5. CASE k # 1
    <3>1. k - 1 \in 1 .. Len(t) /\ t[k - 1] = r[(k - 1) + 1] /\ (k - 1) + 1 = k
      BY <1>1, <1>4, <2>5
    <3> QED BY <2>1, <2>2, <2>3, <2>5, <3>1
  <2> QED BY <2>4, <2>5
<1> QED BY <1>3, <1>4, <1>7, <1>8 DEF Words

\* Lists of transactions.
LEMMA TxLists ==
    ASSUME NEW t \in Seq(TxType)
    PROVE  /\ Len(t) \in Nat
           /\ t # << >> =>
                 /\ 1 \in 1 .. Len(t) /\ Head(t) = t[1] /\ t[1] \in TxType
                 /\ Tail(t) \in Seq(TxType) /\ Len(Tail(t)) = Len(t) - 1
                 /\ \A k \in 1 .. Len(Tail(t)) : Tail(t)[k] = t[k + 1] /\ k + 1 \in 2 .. Len(t)
           /\ \A u \in TxType : LET x == <<u>> \o t
                                IN  /\ x \in Seq(TxType) /\ Len(x) = Len(t) + 1 /\ x[1] = u
                                    /\ \A k \in 2 .. Len(x) : x[k] = t[k - 1]
<1>1. /\ Len(t) \in Nat
      /\ t # << >> =>
           /\ 1 \in 1 .. Len(t) /\ Head(t) = t[1] /\ t[1] \in TxType
           /\ Tail(t) \in Seq(TxType) /\ Len(Tail(t)) = Len(t) - 1
           /\ \A k \in 1 .. Len(Tail(t)) : Tail(t)[k] = t[k + 1] /\ k + 1 \in 2 .. Len(t)
  BY LenProperties, EmptySeq, HeadTailProperties
<1>2. ASSUME NEW u \in TxType, NEW x, x = <<u>> \o t
      PROVE  /\ x \in Seq(TxType) /\ Len(x) = Len(t) + 1 /\ x[1] = u
             /\ \A k \in 2 .. Len(x) : x[k] = t[k - 1]
  <2>1. PICK s : s = <<u>>
    OBVIOUS
  <2>2. s \in Seq(TxType) /\ Len(s) = 1 /\ s[1] = u /\ x = s \o t
    BY <1>2, <2>1
  <2>3. s \o t \in Seq(TxType) /\ Len(s \o t) = Len(s) + Len(t)
    BY <2>2, ConcatProperties
  <2>4. \A k \in 1 .. Len(s) + Len(t) : (s \o t)[k] = IF k <= Len(s) THEN s[k] ELSE t[k - Len(s)]
    BY <2>2, ConcatProperties
  <2> QED BY <1>1, <2>2, <2>3, <2>4
<1> QED BY <1>1, <1>2

\* The transactions of h, with the list of the first replaced by regs, or without it.
Advanced(n, h, regs, c) ==
    /\ n \in HostType(c) /\ n.name = h.name /\ n.hi = h.hi /\ n.torn = h.torn
    /\ regs = << >> => n.txs = Tail(h.txs)
    /\ regs # << >> => /\ Len(n.txs) = Len(h.txs)
                       /\ n.txs[1].regs = regs
                       /\ n.txs[1].fn = h.txs[1].fn /\ n.txs[1].scope = h.txs[1].scope
                       /\ \A k \in 2 .. Len(n.txs) : n.txs[k] = h.txs[k]

LEMMA NextRegsIs ==
    ASSUME NEW c, NEW h \in HostType(c), h.txs # << >>, NEW regs \in Seq(Fields)
    PROVE  Advanced(NextRegs(h, regs), h, regs, c)
<1> DEFINE n == NextRegs(h, regs)
<1>1. /\ h.txs \in Seq(TxType) /\ Len(h.txs) \in Nat /\ Len(h.txs) # 0
      /\ Head(h.txs) = h.txs[1] /\ h.txs[1] \in TxType
      /\ Tail(h.txs) \in Seq(TxType) /\ Len(Tail(h.txs)) = Len(h.txs) - 1
      /\ \A k \in 1 .. Len(Tail(h.txs)) : Tail(h.txs)[k] = h.txs[k + 1]
  <2>1. h.txs \in Seq(TxType)
    BY DEF HostType
  <2> QED BY <2>1, TxLists
<1>2. PICK txs : txs = IF regs = << >> THEN Tail(h.txs)
                       ELSE <<[Head(h.txs) EXCEPT !.regs = regs]>> \o Tail(h.txs)
  OBVIOUS
<1>3. n = [h EXCEPT !.txs = txs]
  BY <1>2 DEF NextRegs
<1>4. PICK first : first = [h.txs[1] EXCEPT !.regs = regs]
  OBVIOUS
<1>5. /\ first \in TxType /\ first.regs = regs
      /\ first.fn = h.txs[1].fn /\ first.scope = h.txs[1].scope
  BY <1>1, <1>4 DEF TxType
<1>6. regs # << >> => /\ txs \in Seq(TxType) /\ Len(txs) = Len(h.txs) /\ txs[1] = first
                      /\ \A k \in 2 .. Len(txs) : txs[k] = h.txs[k]
  <2>1. PICK t, x : t = Tail(h.txs) /\ x = <<first>> \o t
    OBVIOUS
  <2>2. t \in Seq(TxType) /\ Len(t) = Len(h.txs) - 1 /\ \A k \in 1 .. Len(t) : t[k] = h.txs[k + 1]
    BY <1>1, <2>1
  <2>3. /\ x \in Seq(TxType) /\ Len(x) = Len(t) + 1 /\ x[1] = first
        /\ \A k \in 2 .. Len(x) : x[k] = t[k - 1]
    BY <1>5, <2>1, <2>2, TxLists
  <2>4. ASSUME NEW k \in 2 .. Len(x) PROVE x[k] = h.txs[k]
    <3>1. k - 1 \in 1 .. Len(t) /\ (k - 1) + 1 = k
      BY <1>1, <2>2, <2>3
    <3> QED BY <2>2, <2>3, <3>1
  <2>5. regs # << >> => txs = x
    BY <1>1, <1>2, <1>4, <2>1
  <2> QED BY <1>1, <2>2, <2>3, <2>4, <2>5
<1>7. txs \in Seq(TxType)
  BY <1>1, <1>2, <1>6
<1>8. n \in HostType(c) /\ n.name = h.name /\ n.hi = h.hi /\ n.torn = h.torn /\ n.txs = txs
  BY <1>3, <1>7 DEF HostType
<1> QED BY <1>2, <1>5, <1>6, <1>8 DEF Advanced

\* A register read from the owner or answered by the wire.
LEMMA ReadOk ==
    ASSUME NEW h, NEW l, NEW c, HostOk(h, l, c), h.txs # << >>, h.txs[1].fn # "write",
           NEW f, f = h.txs[1].regs[1],
           NEW n, NEW x, n = NextRegs(x, Tail(h.txs[1].regs)),
           x \in HostType(c), x.name = h.name, x.txs = h.txs, x.hi = (f \in Wide /\ ~h.hi),
           x.torn \in {"none"} \cup {g \in Wide : g \notin SystemWide},
           NEW m, x.hi /\ h.txs[1].scope = "sys" => m = f
    PROVE  HostOk(n, m, c)
<1>1. /\ h \in HostType(c) /\ h.txs \in Seq(TxType) /\ h.hi \in BOOLEAN
      /\ \A k \in 1 .. Len(h.txs) :
          /\ h.txs[k].regs # << >>
          /\ Fits(h.txs[k], h.name, c)
          /\ h.txs[k].fn # "write" => Words(h.txs[k].regs, k = 1 /\ h.hi)
      /\ h.name = "none" => h.txs = << >>
  BY DEF HostOk, HostType
<1>2. /\ Len(h.txs) \in Nat /\ 1 \in 1 .. Len(h.txs) /\ h.txs[1] \in TxType
      /\ Tail(h.txs) \in Seq(TxType) /\ Len(Tail(h.txs)) = Len(h.txs) - 1
      /\ \A k \in 1 .. Len(Tail(h.txs)) : Tail(h.txs)[k] = h.txs[k + 1] /\ k + 1 \in 2 .. Len(h.txs)
  BY <1>1, TxLists
<1>3. PICK r : r = h.txs[1].regs
  OBVIOUS
<1>4. r \in Seq(Fields) /\ r # << >> /\ Words(r, h.hi) /\ f = r[1] /\ n = NextRegs(x, Tail(r))
  BY <1>1, <1>2, <1>3 DEF TxType
<1>5. /\ Tail(r) \in Seq(Fields) /\ Words(Tail(r), x.hi)
      /\ x.hi => Tail(r) # << >> /\ Tail(r)[1] = f
  BY <1>1, <1>4, WordsTail
<1>6. /\ n \in HostType(c) /\ n.name = h.name /\ n.hi = x.hi /\ n.torn = x.torn
      /\ Tail(r) = << >> => n.txs = Tail(h.txs)
      /\ Tail(r) # << >> =>
            /\ Len(n.txs) = Len(h.txs)
            /\ n.txs[1].regs = Tail(r)
            /\ n.txs[1].fn = h.txs[1].fn /\ n.txs[1].scope = h.txs[1].scope
            /\ \A k \in 2 .. Len(n.txs) : n.txs[k] = h.txs[k]
  <2>1. /\ x \in HostType(c) /\ x.txs # << >> /\ Tail(r) \in Seq(Fields)
        /\ n = NextRegs(x, Tail(r)) /\ x.txs = h.txs
    BY <1>4, <1>5
  <2>2. Advanced(n, x, Tail(r), c)
    BY <2>1, NextRegsIs
  <2> QED BY <2>1, <2>2 DEF Advanced
<1>7. CASE Tail(r) = << >>
  <2>1. ~n.hi
    BY <1>5, <1>6, <1>7
  <2>2. ASSUME NEW k \in 1 .. Len(n.txs)
        PROVE  /\ n.txs[k].regs # << >> /\ Fits(n.txs[k], n.name, c)
               /\ n.txs[k].fn # "write" => Words(n.txs[k].regs, k = 1 /\ n.hi)
    <3>1. PICK t : t = Tail(h.txs) /\ n.txs = t
      BY <1>6, <1>7
    <3>2. t[k] = h.txs[k + 1] /\ k + 1 \in 2 .. Len(h.txs)
      BY <1>2, <3>1
    <3>3. k \in Nat /\ k + 1 # 1 /\ k + 1 \in 1 .. Len(h.txs)
      BY <1>2, <3>1, <3>2
    <3>4. n.txs[k] = h.txs[k + 1] /\ k + 1 \in 1 .. Len(h.txs) /\ k + 1 # 1
      BY <3>1, <3>2, <3>3, Zenon
    <3>5. h.txs[k + 1].fn # "write" => Words(h.txs[k + 1].regs, FALSE)
      BY <1>1, <3>4
    <3> QED BY <1>1, <1>6, <2>1, <3>4, <3>5
  <2> QED BY <1>1, <1>6, <2>1, <2>2 DEF HostOk
<1>8. CASE Tail(r) # << >>
  <2>1. Fits(n.txs[1], n.name, c)
    <3>1. Fits(h.txs[1], h.name, c) /\ h.txs[1].fn # "write"
      BY <1>1, <1>2
    <3>2. \A k \in 1 .. Len(Tail(r)) : k + 1 \in 1 .. Len(r) /\ Tail(r)[k] = r[k + 1]
      BY <1>4, LenProperties, EmptySeq, HeadTailProperties
    <3>3. PICK y, z : y = h.txs[1] /\ z = n.txs[1]
      OBVIOUS
    <3>4. /\ y.regs = r /\ z.regs = Tail(r) /\ z.fn = y.fn /\ z.scope = y.scope
          /\ y.fn # "write" /\ Fits(y, h.name, c)
      BY <1>3, <1>6, <1>8, <3>1, <3>3
    <3>5. Fits(z, h.name, c)
      BY <3>2, <3>4 DEF Fits
    <3> QED BY <1>6, <3>3, <3>5
  <2>2. ASSUME NEW k \in 1 .. Len(n.txs)
        PROVE  /\ n.txs[k].regs # << >> /\ Fits(n.txs[k], n.name, c)
               /\ n.txs[k].fn # "write" => Words(n.txs[k].regs, k = 1 /\ n.hi)
    <3>1. CASE k = 1
      BY <1>5, <1>6, <1>8, <2>1, <3>1
    <3>2. CASE k # 1
      <4>1. Len(n.txs) = Len(h.txs) /\ \A i \in 2 .. Len(n.txs) : n.txs[i] = h.txs[i]
        BY <1>6, <1>8
      <4>2. n.txs[k] = h.txs[k] /\ k \in 1 .. Len(h.txs)
        BY <1>2, <3>2, <4>1
      <4>3. h.txs[k].fn # "write" => Words(h.txs[k].regs, FALSE)
        BY <1>1, <3>2, <4>2
      <4> QED BY <1>1, <1>6, <3>2, <4>2, <4>3
    <3> QED BY <3>1, <3>2
  <2>3. n.txs # << >>
    <3>1. Len(n.txs) # 0
      BY <1>2, <1>6, <1>8
    <3> QED BY <3>1
  <2>4. n.hi => n.txs[1].fn # "write" /\ (n.txs[1].scope = "sys" => m = n.txs[1].regs[1])
    BY <1>5, <1>6, <1>8
  <2> QED BY <1>1, <1>6, <2>2, <2>3, <2>4 DEF HostOk
<1> QED BY <1>7, <1>8

\* A host that has read no high word.
LEMMA FreshHost ==
    ASSUME NEW h, NEW c, h \in HostType(c), ~h.hi
    PROVE  /\ \A l : HostOk(h, l, c) => Fitting(h.txs, h.name, c)
           /\ Fitting(h.txs, h.name, c) /\ (h.name = "none" => h.txs = << >>)
                /\ h.torn \in {"none"} \cup {f \in Wide : f \notin SystemWide}
                => \A l : HostOk(h, l, c)
<1>1. h.txs \in Seq(TxType) /\ \A k \in 1 .. Len(h.txs) : h.txs[k] \in TxType
  <2>1. PICK t : t = h.txs
    OBVIOUS
  <2>2. t \in Seq(TxType) /\ \A k \in 1 .. Len(t) : t[k] \in TxType
    BY <2>1 DEF HostType
  <2> QED BY <2>1, <2>2
<1> QED BY <1>1 DEF HostOk, Fitting, FitsTx

LEMMA FittingTail ==
    ASSUME NEW name, NEW c, NEW txs, Fitting(txs, name, c), txs # << >>
    PROVE  Fitting(Tail(txs), name, c)
<1>1. txs \in Seq(TxType) /\ \A k \in 1 .. Len(txs) : FitsTx(txs[k], name, c)
  BY DEF Fitting
<1>2. /\ Tail(txs) \in Seq(TxType) /\ Len(txs) \in Nat
      /\ \A k \in 1 .. Len(Tail(txs)) : Tail(txs)[k] = txs[k + 1] /\ k + 1 \in 2 .. Len(txs)
  BY <1>1, TxLists
<1>3. \A k \in 1 .. Len(Tail(txs)) : FitsTx(Tail(txs)[k], name, c)
  <2>1. TAKE k \in 1 .. Len(Tail(txs))
  <2>2. k + 1 \in 2 .. Len(txs) /\ Tail(txs)[k] = txs[k + 1]
    BY <1>2
  <2>3. k + 1 \in 1 .. Len(txs)
    BY <1>2, <2>2
  <2> QED BY <1>1, <2>2, <2>3
<1> QED BY <1>2, <1>3 DEF Fitting

\* A host that gives up its transactions.
LEMMA FailedOk ==
    ASSUME NEW h, NEW c, h \in HostType(c)
    PROVE  /\ Failed(h) \in HostType(c) /\ Failed(h).name = h.name
           /\ \A l : HostOk(Failed(h), l, c)
<1>1. << >> \in Seq(TxType) /\ << >> \in Seq(BlockNames)
  OBVIOUS
<1>2. PICK blocks \in Seq(BlockNames) :
         Failed(h) = [h EXCEPT !.txs = << >>, !.at = "gate", !.hi = FALSE, !.torn = "none",
                               !.blocks = blocks]
  <2>1. h.blocks \in Seq(BlockNames)
    BY DEF HostType
  <2>2. (IF EndsCommand(h.name) THEN << >> ELSE h.blocks) \in Seq(BlockNames)
    BY <1>1, <2>1
  <2> QED BY <2>2 DEF Failed
<1>3. /\ Failed(h) \in HostType(c) /\ Failed(h).name = h.name /\ ~Failed(h).hi
      /\ Failed(h).torn = "none" /\ Failed(h).txs = << >>
  BY <1>1, <1>2 DEF HostType
<1>4. Fitting(Failed(h).txs, h.name, c)
  BY <1>3, FittingTxs
<1> QED BY <1>3, <1>4, FreshHost

LEMMA StartOpOk ==
    ASSUME AccessInv, StartOp
    PROVE  HostOk(host', latch', caps')
<1> DEFINE c == caps
<1>1. /\ host \in HostType(c) /\ host.txs = << >> /\ ~host.hi /\ caps' = c
  <2>1. HostOk(host, latch, c) /\ host.name = "none" /\ caps' = c
    BY DEF AccessInv, StartOp
  <2>2. host \in HostType(c) /\ host.txs = << >> /\ (host.hi => host.txs # << >>)
    BY <2>1 DEF HostOk
  <2> QED BY <2>1, <2>2
<1>2. Idle({}) \in HostType(c) /\ Idle({}).txs = << >> /\ ~Idle({}).hi /\ Idle({}).torn = "none"
  <2>1. << >> \in Seq(BlockNames) /\ << >> \in Seq(TxType)
    OBVIOUS
  <2> QED BY <2>1 DEF Idle, HostType
<1>3. ASSUME host' \in HostType(c), host'.txs = << >>, ~host'.hi, host'.torn = "none",
             host'.name = "read"
      PROVE  HostOk(host', latch', caps')
  BY <1>1, <1>3, FreshHost, FittingTxs
<1>4. ASSUME NEW op \in WriteOps \cup CliWrites,
             host' \in HostType(c), host'.txs = op, ~host'.hi, host'.torn = "none",
             host'.name = "write"
      PROVE  HostOk(host', latch', caps')
  <2>1. Fitting(op, "write", c)
    BY WriteOpsFit
  <2> QED BY <1>1, <1>4, <2>1, FreshHost
<1>5. CASE \E op \in ReadOps :
              host' = [host EXCEPT !.blocks = op, !.name = "read", !.torn = "none"]
  <2>1. PICK op \in Seq(BlockNames) :
              host' = [host EXCEPT !.blocks = op, !.name = "read", !.torn = "none"]
    BY <1>5, ReadOpsNames
  <2>2. /\ host' \in HostType(c) /\ host'.txs = host.txs /\ host'.hi = host.hi
        /\ host'.torn = "none" /\ host'.name = "read"
    BY <1>1, <2>1 DEF HostType
  <2> QED BY <1>1, <1>3, <2>2
<1>6. CASE \E op \in WriteOps :
              host' = [host EXCEPT !.txs = op, !.name = "write", !.torn = "none"]
  <2>1. PICK op \in WriteOps :
              host' = [host EXCEPT !.txs = op, !.name = "write", !.torn = "none"]
    BY <1>6
  <2>2. op \in Seq(TxType)
    BY WriteOpsFit DEF Fitting
  <2>3. /\ host' \in HostType(c) /\ host'.txs = op /\ host'.hi = host.hi
        /\ host'.torn = "none" /\ host'.name = "write"
    BY <1>1, <2>1, <2>2 DEF HostType
  <2> QED BY <1>1, <1>4, <2>3
<1>7. CASE \E op \in CliScripts : host' = [Idle({}) EXCEPT !.blocks = op, !.name = "read"]
  <2>1. PICK op \in Seq(BlockNames) : host' = [Idle({}) EXCEPT !.blocks = op, !.name = "read"]
    BY <1>7, ReadOpsNames
  <2>2. PICK h \in HostType(c) : h = Idle({})
    BY <1>2
  <2>3. host' = [h EXCEPT !.blocks = op, !.name = "read"]
    BY <2>1, <2>2
  <2>4. /\ host' \in HostType(c) /\ host'.txs = h.txs /\ host'.hi = h.hi
        /\ host'.torn = h.torn /\ host'.name = "read"
    BY <2>3 DEF HostType
  <2> QED BY <1>2, <1>3, <2>2, <2>4
<1>8. CASE \E op \in CliWrites : host' = [Idle({}) EXCEPT !.txs = op, !.name = "write"]
  <2>1. PICK op \in CliWrites : host' = [Idle({}) EXCEPT !.txs = op, !.name = "write"]
    BY <1>8
  <2>2. PICK h \in HostType(c) : h = Idle({})
    BY <1>2
  <2>3. host' = [h EXCEPT !.txs = op, !.name = "write"] /\ op \in Seq(TxType)
    BY <2>1, <2>2, WriteOpsFit DEF Fitting
  <2>4. /\ host' \in HostType(c) /\ host'.txs = op /\ host'.hi = h.hi
        /\ host'.torn = h.torn /\ host'.name = "write"
    BY <2>3 DEF HostType
  <2> QED BY <1>2, <1>4, <2>2, <2>4
<1> QED BY <1>5, <1>6, <1>7, <1>8 DEF StartOp

LEMMA NextBlockOk ==
    ASSUME AccessInv, NextBlock
    PROVE  HostOk(host', latch', caps')
<1> DEFINE c == caps
<1>1. /\ host \in HostType(c) /\ caps' = c /\ host.known \in {{}, c}
      /\ host.blocks \in Seq(BlockNames)
  BY DEF AccessInv, NextBlock, HostOk, HostType
<1>2. CASE host.blocks # << >> /\
           host' = [host EXCEPT !.blocks = Tail(@), !.name = Head(host.blocks),
                                !.txs = CliBlock(Head(host.blocks), host.known),
                                !.hi = FALSE, !.torn = "none"]
  <2>1. Head(host.blocks) \in BlockNames /\ Tail(host.blocks) \in Seq(BlockNames)
    BY <1>1, <1>2, HeadTailProperties
  <2>2. PICK name, txs : name = Head(host.blocks) /\ txs = CliBlock(name, host.known)
    OBVIOUS
  <2>3. Fitting(txs, name, c) /\ txs \in Seq(TxType)
    BY <1>1, <2>1, <2>2, BlockFits DEF Fitting
  <2>4. host' = [host EXCEPT !.blocks = Tail(@), !.name = name, !.txs = txs, !.hi = FALSE,
                             !.torn = "none"]
    BY <1>2, <2>2
  <2>5. /\ host' \in HostType(c) /\ host'.txs = txs /\ ~host'.hi /\ host'.torn = "none"
        /\ host'.name = name
    BY <1>1, <2>1, <2>2, <2>3, <2>4 DEF HostType
  <2>6. name # "none"
    BY <2>1, <2>2 DEF BlockNames
  <2> QED BY <1>1, <2>3, <2>5, <2>6, FreshHost
<1>3. CASE host' = Idle(host.known)
  <2>1. << >> \in Seq(BlockNames) /\ << >> \in Seq(TxType)
    OBVIOUS
  <2>2. /\ host' \in HostType(c) /\ host'.txs = << >> /\ ~host'.hi /\ host'.torn = "none"
    BY <1>1, <1>3, <2>1 DEF Idle, HostType
  <2> QED BY <1>1, <2>2, FreshHost, FittingTxs
<1> QED BY <1>2, <1>3 DEF NextBlock

\* The transaction the host is in.
LEMMA HostTx ==
    ASSUME AccessInv, Busy
    PROVE  /\ host \in HostType(caps) /\ host.txs \in Seq(TxType) /\ host.txs # << >>
           /\ host.name # "none" /\ host.hi \in BOOLEAN
           /\ Tx = host.txs[1] /\ Tx \in TxType /\ Fits(Tx, host.name, caps)
           /\ Tx.regs \in Seq(Fields) /\ Tx.regs # << >> /\ Reg = Tx.regs[1] /\ Reg \in Fields
           /\ 1 \in 1 .. Len(Tx.regs)
           /\ Tx.fn # "write" => Words(Tx.regs, host.hi)
           /\ host.hi => Tx.fn # "write"
           /\ host.hi /\ Tx.scope = "sys" => latch = Reg
<1>1. HostOk(host, latch, caps) /\ host.txs # << >>
  BY DEF AccessInv, Busy
<1>2. /\ host \in HostType(caps) /\ host.txs \in Seq(TxType)
      /\ host.name # "none" /\ host.hi \in BOOLEAN
  BY <1>1 DEF HostOk, HostType
<1>3. 1 \in 1 .. Len(host.txs) /\ Tx = host.txs[1] /\ Tx \in TxType
  BY <1>1, <1>2, TxLists DEF Tx
<1>4. /\ Tx.regs # << >> /\ Fits(Tx, host.name, caps)
      /\ Tx.fn # "write" => Words(Tx.regs, host.hi)
  <2>1. \A k \in 1 .. Len(host.txs) :
           /\ host.txs[k].regs # << >> /\ Fits(host.txs[k], host.name, caps)
           /\ host.txs[k].fn # "write" => Words(host.txs[k].regs, k = 1 /\ host.hi)
    BY <1>1 DEF HostOk
  <2>2. /\ Tx.regs # << >> /\ Fits(Tx, host.name, caps)
        /\ Tx.fn # "write" => Words(Tx.regs, 1 = 1 /\ host.hi)
    BY <1>3, <2>1
  <2>3. (1 = 1 /\ host.hi) = host.hi
    BY <1>2
  <2> QED BY <2>2, <2>3
<1>5. Tx.regs \in Seq(Fields)
  BY <1>3 DEF TxType
<1>6. Reg = Tx.regs[1] /\ Reg \in Fields /\ 1 \in 1 .. Len(Tx.regs)
  <2>1. PICK r : r = Tx.regs
    OBVIOUS
  <2>2. r \in Seq(Fields) /\ r # << >>
    BY <1>4, <1>5, <2>1
  <2>3. Head(r) = r[1] /\ r[1] \in Fields /\ 1 \in 1 .. Len(r)
    BY <2>2, LenProperties, EmptySeq, HeadTailProperties
  <2> QED BY <2>1, <2>3 DEF Reg
<1>7. host.hi => Tx.fn # "write" /\ (Tx.scope = "sys" => latch = Reg)
  BY <1>1, <1>3, <1>6 DEF HostOk
<1> QED BY <1>1, <1>2, <1>3, <1>4, <1>5, <1>6, <1>7

LEMMA ReadRegisterOk ==
    ASSUME AccessInv, ReadRegister
    PROVE  HostOk(host', latch', caps') /\ latch' \in Wide \cup {"none"}
<1> DEFINE r == read_wire(GateLatch(Tx.scope), Reg, host.hi)
<1>1. Busy /\ Tx.fn # "write" /\ latch' = r.latch /\ caps' = caps
  BY DEF ReadRegister
<1>2. PICK changed \in BOOLEAN :
         /\ changed => host.hi /\ r.fresh /\ Reg \in Changing
         /\ host' = Learn(NextRegs([host EXCEPT !.hi = Reg \in Wide /\ ~@,
                                                !.torn = IF changed THEN Reg ELSE "none"],
                                   Tail(Tx.regs)))
  BY DEF ReadRegister
<1>3. /\ host \in HostType(caps) /\ host.txs # << >> /\ host.hi \in BOOLEAN
      /\ Tx = host.txs[1] /\ Tx \in TxType /\ Fits(Tx, host.name, caps)
      /\ Tx.regs \in Seq(Fields) /\ Tx.regs # << >> /\ Reg = Tx.regs[1] /\ Reg \in Fields
      /\ 1 \in 1 .. Len(Tx.regs) /\ Words(Tx.regs, host.hi)
      /\ host.hi /\ Tx.scope = "sys" => latch = Reg
  BY <1>1, HostTx
<1>4. latch \in Wide \cup {"none"} /\ GateLatch(Tx.scope) \in Wide \cup {"none"}
  BY DEF AccessInv, TypeOK, GateLatch, NoLatch
<1>5. Tx.scope \in {"sys", "ch"} /\ (Tx.scope = "ch" => Reg \notin SystemWide)
  BY <1>1, <1>3 DEF Fits, TxType
<1>6. host.hi => Reg \in Wide
  BY <1>3 DEF Words
<1>7. ASSUME Reg \in Wide PROVE Reg \notin WriteOnly \cup {"reserved"}
  BY <1>7 DEF Wide, WriteOnly
<1>8. latch' \in Wide \cup {"none"}
  BY <1>1, <1>3, <1>4, <1>7 DEF read_wire, NoLatch
<1>9. changed => Reg \in Wide /\ Reg \notin SystemWide
  <2>1. SUFFICES ASSUME changed, Tx.scope = "sys" PROVE Reg \in Wide /\ Reg \notin SystemWide
    BY <1>2, <1>5, <1>6
  <2>2. host.hi /\ r.fresh /\ latch = Reg /\ GateLatch(Tx.scope) = Reg
    BY <1>2, <1>3, <2>1 DEF GateLatch
  <2>3. ~r.fresh
    BY <1>6, <1>7, <2>2 DEF read_wire
  <2> QED BY <2>2, <2>3
<1>10. (Reg \in Wide /\ ~host.hi) /\ Tx.scope = "sys" => latch' = Reg
  BY <1>1, <1>7 DEF read_wire
<1>11. PICK x : x = [host EXCEPT !.hi = Reg \in Wide /\ ~@,
                                 !.torn = IF changed THEN Reg ELSE "none"]
  OBVIOUS
<1>12. /\ x \in HostType(caps) /\ x.name = host.name /\ x.txs = host.txs
       /\ x.hi = (Reg \in Wide /\ ~host.hi) /\ x.torn = IF changed THEN Reg ELSE "none"
  BY <1>3, <1>11 DEF HostType
<1>13. x.torn \in {"none"} \cup {g \in Wide : g \notin SystemWide}
  BY <1>9, <1>12
<1>14. PICK n : n = NextRegs(x, Tail(Tx.regs))
  OBVIOUS
<1>15. HostOk(n, latch', caps)
  <2>1. HostOk(host, latch, caps)
    BY DEF AccessInv
  <2>2. host.txs[1].fn # "write" /\ Reg = host.txs[1].regs[1] /\ n = NextRegs(x, Tail(host.txs[1].regs))
    BY <1>1, <1>3, <1>14
  <2>3. x.hi /\ host.txs[1].scope = "sys" => latch' = Reg
    BY <1>3, <1>10, <1>12
  <2> QED BY <1>3, <1>12, <1>13, <2>1, <2>2, <2>3, ReadOk
<1>16. host' = Learn(n)
  BY <1>2, <1>11, <1>14
<1>17. Learn(n) = n \/ Learn(n) = [n EXCEPT !.known = caps]
  BY DEF Learn
<1>18. HostOk([n EXCEPT !.known = caps], latch', caps)
  <2>1. n \in HostType(caps)
    BY <1>15 DEF HostOk
  <2>2. PICK k : k = [n EXCEPT !.known = caps]
    OBVIOUS
  <2>3. /\ k \in HostType(caps) /\ k.name = n.name /\ k.txs = n.txs /\ k.hi = n.hi /\ k.torn = n.torn
    BY <2>1, <2>2 DEF HostType
  <2> QED BY <1>15, <2>2, <2>3 DEF HostOk
<1> QED BY <1>1, <1>8, <1>15, <1>16, <1>17, <1>18

(***************************************************************************)
(* The owner                                                               *)
(***************************************************************************)
\* The commands of the owner that a write stands for.
LEMMA OwnerCases ==
    ASSUME NEW f, NEW v, NEW ok \in BOOLEAN, vc_catalog_write(f, v, ok)
    PROVE  \/ f \notin {"CAL_UNLOCK", "OPERATING_MODE"} /\ ~ok /\ Same
           \/ f = "CAL_UNLOCK" /\ calibration_unlock(v, ok)
           \/ f = "OPERATING_MODE" /\ set_operating_mode(v, ok)
           \/ f = "CAL_OUTPUT_ENABLE" /\ cal_output_enable(v, ok)
           \/ f \notin {"CAL_UNLOCK", "OPERATING_MODE"} /\ (Leave \/ Same)
           \/ f = "SYS_PARAM_ACTION" /\ (Leave \/ FactoryReset \/ Same)
<1>1. CASE ~vc_catalog_supported(f, caps)
  <2>1. f \notin {"CAL_UNLOCK", "OPERATING_MODE"}
    BY <1>1 DEF vc_catalog_supported, VoltageFields, CurrentFields, DriveFields
  <2> QED BY <1>1, <2>1 DEF vc_catalog_write
<1>2. CASE vc_catalog_supported(f, caps)
  <2>1. f \in NeedsCalibration \ {"CAL_OUTPUT_ENABLE"} =>
           f \notin {"CAL_UNLOCK", "OPERATING_MODE", "CAL_EXIT", "STARTUP_CHANNEL_POLICY",
                     "SYS_PARAM_ACTION"}
    BY DEF NeedsCalibration, CalCommands, CalCoefficients, CalExponents
  <2>2. ASSUME f = "CAL_UNLOCK" PROVE calibration_unlock(v, ok)
    BY <1>2, <2>1, <2>2 DEF vc_catalog_write
  <2>3. ASSUME f = "OPERATING_MODE" PROVE set_operating_mode(v, ok)
    BY <1>2, <2>1, <2>3 DEF vc_catalog_write
  <2>4. ASSUME f = "CAL_OUTPUT_ENABLE" PROVE cal_output_enable(v, ok)
    BY <1>2, <2>4 DEF vc_catalog_write
  <2>5. ASSUME f \notin {"CAL_UNLOCK", "OPERATING_MODE", "CAL_OUTPUT_ENABLE"}
        PROVE  Leave \/ Same \/ (f = "SYS_PARAM_ACTION" /\ FactoryReset)
    BY <1>2, <2>1, <2>5 DEF vc_catalog_write
  <2> QED BY <2>2, <2>3, <2>4, <2>5
<1> QED BY <1>1, <1>2

\* What a write does to the handshake, and when it is refused.
LEMMA OwnerWrite ==
    ASSUME TypeOK, NEW f, NEW v, NEW ok \in BOOLEAN, vc_catalog_write(f, v, ok)
    PROVE  /\ caps' = caps /\ mode' \in {"normal", "calibration"} /\ unlock' \in 0 .. 2
           /\ calOut' \in BOOLEAN /\ params' \in BOOLEAN
           /\ f # "CAL_UNLOCK" /\ mode' = mode => unlock' = unlock
           /\ f = "CAL_UNLOCK" /\ v = "STEP1" => ok /\ unlock' = 1
           /\ f = "CAL_UNLOCK" /\ v = "STEP2" /\ unlock = 1 => ok /\ unlock' = 2
           /\ f = "OPERATING_MODE" /\ v = "calibration" /\ unlock = 2 => ok
<1> USE DEF TypeOK, Same, Leave, FactoryReset
<1>1. caps' = caps /\ params' \in BOOLEAN
  BY DEF vc_catalog_write
<1>2. CASE f = "CAL_UNLOCK" /\ calibration_unlock(v, ok)
  BY <1>1, <1>2 DEF calibration_unlock
<1>3. CASE f = "OPERATING_MODE" /\ set_operating_mode(v, ok)
  <2>1. CASE v = "calibration" /\ mode # "calibration" /\ unlock = 2
    <3>1. mode' = "calibration" /\ unlock' = 0 /\ calOut' = FALSE /\ ok
      BY <1>3, <2>1 DEF set_operating_mode
    <3>2. calOut' \in BOOLEAN
      BY <3>1
    <3>3. mode' # mode /\ mode' \in {"normal", "calibration"} /\ unlock' \in 0 .. 2
      BY <2>1, <3>1
    <3> QED BY <1>1, <1>3, <3>1, <3>2, <3>3
  <2>2. CASE v = "calibration" /\ mode # "calibration" /\ unlock # 2
    BY <1>1, <1>3, <2>2 DEF set_operating_mode
  <2>3. CASE v = "calibration" /\ mode = "calibration"
    BY <1>1, <1>3, <2>3 DEF set_operating_mode
  <2>4. CASE v # "calibration"
    BY <1>1, <1>3, <2>4 DEF set_operating_mode
  <2> QED BY <2>1, <2>2, <2>3, <2>4
<1>4. CASE f \notin {"CAL_UNLOCK", "OPERATING_MODE"} /\ (Leave \/ FactoryReset \/ Same)
  BY <1>1, <1>4
<1>5. CASE f = "CAL_OUTPUT_ENABLE" /\ cal_output_enable(v, ok)
  BY <1>1, <1>5 DEF cal_output_enable
<1> HIDE DEF TypeOK, Same, Leave, FactoryReset
<1> QED BY <1>2, <1>3, <1>4, <1>5, OwnerCases

\* When the calibration output may be on.
OutputGuarded ==
    calOut' => \/ mode' = "calibration" /\ (calOut \/ mode = "calibration")
               \/ calOut /\ (mode = "calibration" => params')

LEMMA OwnerKeepsGuard ==
    ASSUME TypeOK
    PROVE  /\ Same => OutputGuarded
           /\ \A f, v : \A ok \in BOOLEAN : vc_catalog_write(f, v, ok) => OutputGuarded
<1>1. Same => OutputGuarded
  BY DEF TypeOK, Same, OutputGuarded
<1>2. Leave => OutputGuarded
  BY DEF TypeOK, Leave, OutputGuarded
<1>3. FactoryReset /\ params' => OutputGuarded
  BY DEF TypeOK, FactoryReset, OutputGuarded
<1>4. ASSUME NEW f, NEW v, NEW ok \in BOOLEAN, vc_catalog_write(f, v, ok)
      PROVE  OutputGuarded
  <2>1. CASE calibration_unlock(v, ok)
    BY <1>1, <2>1 DEF calibration_unlock, TypeOK, OutputGuarded
  <2>2. CASE set_operating_mode(v, ok)
    <3>1. calOut' = FALSE => OutputGuarded
      BY DEF OutputGuarded
    <3> QED BY <1>1, <1>2, <2>2, <3>1 DEF set_operating_mode
  <2>3. CASE cal_output_enable(v, ok)
    BY <1>1, <2>3 DEF cal_output_enable, OutputGuarded
  <2>4. params' = (f = "SYS_PARAM_ACTION")
    BY <1>4 DEF vc_catalog_write
  <2> QED BY <1>1, <1>2, <1>3, <1>4, <2>1, <2>2, <2>3, <2>4, OwnerCases
<1> QED BY <1>1, <1>4

LEMMA WriteGateOk ==
    ASSUME AccessInv, WriteGate
    PROVE  /\ HostOk(host', latch', caps') /\ latch' \in Wide \cup {"none"}
           /\ refused' \in {"none", "snapshot", "write", "disable"}
<1>1. Busy /\ Tx.fn = "write" /\ Tx.scope = "ch" /\ caps' = caps /\ latch' = "none"
  BY DEF WriteGate, NoLatch
<1>2. /\ host \in HostType(caps) /\ ~host.hi /\ HostOk(host, latch, caps)
      /\ Fits(Tx, host.name, caps) /\ Reg = Tx.regs[1] /\ 1 \in 1 .. Len(Tx.regs)
  BY <1>1, HostTx DEF AccessInv
<1>3. CASE Writable(Reg)
  <2>1. host' = [host EXCEPT !.at = "owner"] /\ refused' = "none"
    BY <1>3 DEF WriteGate
  <2>2. /\ host' \in HostType(caps) /\ host'.name = host.name /\ host'.txs = host.txs
        /\ host'.hi = host.hi /\ host'.torn = host.torn
    BY <1>2, <2>1 DEF HostType
  <2> QED BY <1>1, <1>2, <2>1, <2>2 DEF HostOk
<1>4. CASE ~Writable(Reg)
  <2>1. host' = Failed(host) /\ refused' = host.name
    BY <1>4 DEF WriteGate
  <2>2. host.name \in {"write", "disable"}
    <3>1. ~Accepts(Reg, caps)
      BY <1>4 DEF Writable, Accepts
    <3> QED BY <1>1, <1>2, <3>1 DEF Fits
  <2> QED BY <1>1, <1>2, <2>1, <2>2, FailedOk
<1> QED BY <1>3, <1>4

LEMMA ReadRefusedOk ==
    ASSUME AccessInv, ReadRefused
    PROVE  /\ HostOk(host', latch', caps') /\ latch' \in Wide \cup {"none"}
           /\ refused' \in {"none", "snapshot", "write", "disable"}
<1>1. /\ Busy /\ Tx.fn # "write" /\ ~Readable(Tx.fn, Tx.scope, Reg) /\ caps' = caps
      /\ latch' = "none" /\ host' = Failed(host) /\ refused' = host.name
  BY DEF ReadRefused, NoLatch
<1>2. /\ host \in HostType(caps) /\ Tx \in TxType /\ Fits(Tx, host.name, caps) /\ Reg = Tx.regs[1]
      /\ 1 \in 1 .. Len(Tx.regs)
  BY <1>1, HostTx
<1>3. host.name = "snapshot"
  <2>1. Tx.scope = "ch" /\ ~Serves(Tx.fn, Reg, caps)
    BY <1>1, <1>2 DEF Readable, Serves
  <2> QED BY <1>1, <1>2, <2>1 DEF Fits
<1> QED BY <1>1, <1>2, <1>3, FailedOk

LEMMA WriteOwnerOk ==
    ASSUME AccessInv, WriteOwner
    PROVE  /\ HostOk(host', latch', caps')
           /\ refused' \in {"none", "snapshot", "write", "disable"}
<1>1. /\ Busy /\ Tx.fn = "write" /\ latch' = latch /\ TypeOK
  BY DEF WriteOwner, AccessInv
<1>2. /\ host \in HostType(caps) /\ ~host.hi /\ HostOk(host, latch, caps) /\ host.name # "none"
      /\ host.txs \in Seq(TxType) /\ host.txs # << >>
      /\ Fits(Tx, host.name, caps) /\ Reg = Tx.regs[1] /\ 1 \in 1 .. Len(Tx.regs)
  BY <1>1, HostTx DEF AccessInv
<1>3. PICK ok \in BOOLEAN :
         /\ vc_catalog_write(Reg, Tx.val, ok)
         /\ host' = IF ok THEN [host EXCEPT !.txs = Tail(@), !.at = "gate"] ELSE Failed(host)
  BY DEF WriteOwner
<1>4. caps' = caps
  BY <1>1, <1>3, OwnerWrite
<1>5. HostOk(host', latch', caps')
  <2>1. CASE ok
    <3>1. PICK txs : txs = Tail(host.txs)
      OBVIOUS
    <3>2. Fitting(txs, host.name, caps) /\ txs \in Seq(TxType)
      BY <1>2, <3>1, FreshHost, FittingTail DEF Fitting
    <3>3. host' = [host EXCEPT !.txs = txs, !.at = "gate"]
      BY <1>3, <2>1, <3>1
    <3>4. /\ host' \in HostType(caps) /\ host'.name = host.name /\ host'.txs = txs
          /\ host'.hi = host.hi /\ host'.torn = host.torn
      BY <1>2, <3>2, <3>3 DEF HostType
    <3>5. host.torn \in {"none"} \cup {f \in Wide : f \notin SystemWide}
      BY <1>2 DEF HostOk
    <3> QED BY <1>2, <1>4, <3>2, <3>4, <3>5, FreshHost
  <2>2. CASE ~ok
    BY <1>2, <1>3, <1>4, <2>2, FailedOk
  <2> QED BY <2>1, <2>2
<1>6. refused' \in {"none", "snapshot", "write", "disable"}
  <2>1. CASE vc_catalog_supported(Reg, caps)
    BY <2>1 DEF WriteOwner
  <2>2. CASE ~vc_catalog_supported(Reg, caps)
    <3>1. refused' = host.name
      BY <2>2 DEF WriteOwner
    <3>2. ~Accepts(Reg, caps)
      BY <2>2 DEF Accepts
    <3> QED BY <1>1, <1>2, <3>1, <3>2 DEF Fits
  <2> QED BY <2>1, <2>2
<1> QED BY <1>5, <1>6

(***************************************************************************)
(* The steps of the shell                                                  *)
(***************************************************************************)
LEMMA StepLists ==
    ASSUME NEW c, NEW steps, Kept(steps, c), steps # << >>
    PROVE  /\ Head(steps) = steps[1] /\ steps[1] \in StepType /\ 1 \in 1 .. Len(steps)
           /\ \A f \in Head(steps).reads : vc_catalog_supported(f, c)
           /\ Kept(Tail(steps), c) /\ Kept(<<Head(steps)>>, c) /\ Kept(<< >>, c)
           /\ Len(Tail(steps)) = Len(steps) - 1
           /\ \A k \in 1 .. Len(Tail(steps)) : Tail(steps)[k] = steps[k + 1] /\ k + 1 \in 2 .. Len(steps)
<1>1. /\ steps \in Seq(StepType)
      /\ \A k \in 1 .. Len(steps) : \A f \in steps[k].reads : vc_catalog_supported(f, c)
  BY DEF Kept
<1>2. /\ Head(steps) = steps[1] /\ steps[1] \in StepType /\ 1 \in 1 .. Len(steps)
      /\ Tail(steps) \in Seq(StepType) /\ Len(Tail(steps)) = Len(steps) - 1
      /\ \A k \in 1 .. Len(Tail(steps)) : Tail(steps)[k] = steps[k + 1] /\ k + 1 \in 2 .. Len(steps)
  BY <1>1, LenProperties, EmptySeq, HeadTailProperties
<1>3. \A f \in Head(steps).reads : vc_catalog_supported(f, c)
  BY <1>1, <1>2
<1>4. Kept(Tail(steps), c)
  <2>1. ASSUME NEW k \in 1 .. Len(Tail(steps)), NEW f \in Tail(steps)[k].reads
        PROVE  vc_catalog_supported(f, c)
    <3>1. Tail(steps)[k] = steps[k + 1] /\ k + 1 \in 2 .. Len(steps) /\ Len(steps) \in Nat
      BY <1>1, <1>2, LenProperties
    <3>2. k + 1 \in 1 .. Len(steps)
      BY <3>1
    <3> QED BY <1>1, <2>1, <3>1, <3>2
  <2> QED BY <1>2, <2>1 DEF Kept
<1>5. Kept(<<Head(steps)>>, c)
  <2>1. PICK s, t : s = Head(steps) /\ t = <<s>>
    OBVIOUS
  <2>2. t \in Seq(StepType) /\ \A k \in 1 .. Len(t) : t[k] = s
    BY <1>2, <2>1
  <2> QED BY <1>3, <2>1, <2>2 DEF Kept
<1>6. Kept(<< >>, c)
  BY DEF Kept
<1> QED BY <1>2, <1>3, <1>4, <1>5, <1>6

LEMMA OrdinaryLists ==
    ASSUME NEW c, NEW steps, Kept(steps, c), steps # << >>
    PROVE  /\ AllOrdinary(<< >>)
           /\ Ordinary(steps[1]) => AllOrdinary(<<Head(steps)>>)
           /\ (\A k \in 2 .. Len(steps) : Ordinary(steps[k])) => AllOrdinary(Tail(steps))
           /\ AllOrdinary(steps) => Ordinary(steps[1]) /\ AllOrdinary(Tail(steps))
<1>1. /\ Head(steps) = steps[1] /\ 1 \in 1 .. Len(steps) /\ Len(Tail(steps)) = Len(steps) - 1
      /\ \A k \in 1 .. Len(Tail(steps)) : Tail(steps)[k] = steps[k + 1] /\ k + 1 \in 2 .. Len(steps)
  BY StepLists
<1>2. AllOrdinary(<< >>)
  BY DEF AllOrdinary
<1>3. Ordinary(steps[1]) => AllOrdinary(<<Head(steps)>>)
  <2>1. PICK s, t : s = Head(steps) /\ t = <<s>>
    OBVIOUS
  <2>2. \A k \in 1 .. Len(t) : t[k] = s
    BY <2>1
  <2> QED BY <1>1, <2>1, <2>2 DEF AllOrdinary
<1>4. (\A k \in 2 .. Len(steps) : Ordinary(steps[k])) => AllOrdinary(Tail(steps))
  BY <1>1 DEF AllOrdinary
<1>5. AllOrdinary(steps) => \A k \in 2 .. Len(steps) : Ordinary(steps[k])
  <2>1. \A k \in 2 .. Len(steps) : k \in 1 .. Len(steps)
    OBVIOUS
  <2> QED BY <2>1 DEF AllOrdinary
<1>6. AllOrdinary(steps) => Ordinary(steps[1])
  BY <1>1 DEF AllOrdinary
<1> QED BY <1>2, <1>3, <1>4, <1>5, <1>6

\* The steps of the handshake.
LEMMA UnlockSteps ==
    /\ Unlocks[1].field = "CAL_UNLOCK" /\ Unlocks[1].val = "STEP1" /\ ~Unlocks[1].watch
    /\ Unlocks[2].field = "CAL_UNLOCK" /\ Unlocks[2].val = "STEP2" /\ ~Unlocks[2].watch
    /\ Unlocks[3].field = "OPERATING_MODE" /\ Unlocks[3].val = "calibration" /\ ~Unlocks[3].watch
    /\ Head(Unlocks) = Unlocks[1] /\ Tail(Unlocks) = <<Unlocks[2], Unlocks[3]>>
<1>1. /\ Unlocks[1] = Write("CAL_UNLOCK", "STEP1") /\ Unlocks[2] = Write("CAL_UNLOCK", "STEP2")
      /\ Unlocks[3] = Write("OPERATING_MODE", "calibration")
      /\ Head(Unlocks) = Unlocks[1] /\ Tail(Unlocks) = <<Unlocks[2], Unlocks[3]>>
  <2>1. PICK x, y, z : /\ x = Write("CAL_UNLOCK", "STEP1") /\ y = Write("CAL_UNLOCK", "STEP2")
                       /\ z = Write("OPERATING_MODE", "calibration")
    OBVIOUS
  <2>2. Unlocks = <<x, y, z>>
    BY <2>1 DEF Unlocks
  <2>3. PICK t : t = <<x, y, z>>
    OBVIOUS
  <2>4. t[1] = x /\ t[2] = y /\ t[3] = z /\ Head(t) = x /\ Tail(t) = <<y, z>>
    BY <2>3
  <2> QED BY <2>1, <2>2, <2>3, <2>4
<1> QED BY <1>1 DEF Write, Step

\* A step of the shell: what it leaves, and the owner after it.
LEMMA ShellStepOk ==
    ASSUME TypeOK, NEW steps, Kept(steps, caps), steps # << >>, ShellStep(Head(steps), Tail(steps))
    PROVE  /\ caps' = caps /\ mode' \in {"normal", "calibration"} /\ unlock' \in 0 .. 2
           /\ calOut' \in BOOLEAN /\ params' \in BOOLEAN
           /\ Kept(shell', caps)
           /\ \/ shell' = Tail(steps)
              \/ shell' = << >>
              \/ steps[1].watch /\ shell' = <<Head(steps)>>
           /\ \/ refused' = "none"
              \/ refused' = "shell unlock" /\ OfHandshake(Head(steps), Tail(steps))
<1> DEFINE s == Head(steps)
<1>1. s = steps[1] /\ Kept(Tail(steps), caps) /\ Kept(<<s>>, caps) /\ Kept(<< >>, caps)
  BY StepLists
<1>2. ~Unsupported(s.reads)
  BY StepLists DEF Unsupported
<1>3. CASE /\ s.field = "none"
           /\ shell' \in IF s.watch THEN {<<s>>, Tail(steps)} ELSE {Tail(steps)}
           /\ refused' = "none" /\ params' = FALSE
           /\ UNCHANGED owner
  <2>1. caps' = caps /\ mode' = mode /\ unlock' = unlock /\ calOut' = calOut
    BY <1>3 DEF owner
  <2>2. shell' = Tail(steps) \/ (s.watch /\ shell' = <<s>>)
    BY <1>3
  <2> QED BY <1>1, <1>3, <2>1, <2>2 DEF TypeOK
<1>4. ASSUME NEW ok \in BOOLEAN, vc_catalog_write(s.field, s.val, ok),
             shell' = IF ok THEN Tail(steps) ELSE << >>,
             refused' = IF ok \/ ~OfHandshake(s, Tail(steps)) THEN "none" ELSE "shell unlock"
      PROVE  /\ caps' = caps /\ mode' \in {"normal", "calibration"} /\ unlock' \in 0 .. 2
             /\ calOut' \in BOOLEAN /\ params' \in BOOLEAN
             /\ Kept(shell', caps)
             /\ shell' = Tail(steps) \/ shell' = << >>
             /\ \/ refused' = "none"
                \/ refused' = "shell unlock" /\ OfHandshake(s, Tail(steps))
  <2>1. /\ caps' = caps /\ mode' \in {"normal", "calibration"} /\ unlock' \in 0 .. 2
        /\ calOut' \in BOOLEAN /\ params' \in BOOLEAN
    BY <1>4, OwnerWrite
  <2> QED BY <1>1, <1>4, <2>1
<1> QED BY <1>1, <1>2, <1>3, <1>4 DEF ShellStep

LEMMA StartCommandOk ==
    ASSUME AccessInv, StartCommand
    PROVE  TypeOK' /\ ShellInv' /\ RequestsServed'
<1>1. TypeOK /\ shell = << >> /\ meddled' = FALSE /\ UNCHANGED <<latch, host>>
  BY DEF AccessInv, StartCommand
<1>2. PICK cmd \in ShellCommands(caps) : ShellStep(Head(cmd), Tail(cmd))
  BY <1>1 DEF StartCommand, Commands, TypeOK
<1>3. /\ Kept(cmd, caps) /\ cmd # << >>
      /\ \/ cmd = Unlocks
         \/ /\ cmd[1].field # "CAL_UNLOCK" /\ ~cmd[1].watch
            /\ \A k \in 2 .. Len(cmd) : Ordinary(cmd[k])
  <2>1. ServedCommand(cmd, caps)
    BY CommandsServed
  <2> QED BY <2>1 DEF ServedCommand, ServedStep, ServedReads, Kept
<1>4. /\ caps' = caps /\ mode' \in {"normal", "calibration"} /\ unlock' \in 0 .. 2
      /\ calOut' \in BOOLEAN /\ params' \in BOOLEAN
      /\ Kept(shell', caps)
      /\ \/ shell' = Tail(cmd)
         \/ shell' = << >>
         \/ cmd[1].watch /\ shell' = <<Head(cmd)>>
      /\ \/ refused' = "none"
         \/ refused' = "shell unlock" /\ OfHandshake(Head(cmd), Tail(cmd))
  BY <1>1, <1>2, <1>3, ShellStepOk
<1>5. TypeOK'
  BY <1>1, <1>4 DEF TypeOK
<1>6. Head(cmd) = cmd[1]
  BY <1>3, StepLists
<1>7. CASE cmd = Unlocks
  <2>1. Head(cmd).field = "CAL_UNLOCK" /\ Head(cmd).val = "STEP1"
    BY <1>6, <1>7, UnlockSteps
  <2>2. PICK ok \in BOOLEAN :
           /\ vc_catalog_write(Head(cmd).field, Head(cmd).val, ok)
           /\ shell' = IF ok THEN Tail(cmd) ELSE << >>
           /\ refused' = IF ok \/ ~OfHandshake(Head(cmd), Tail(cmd)) THEN "none" ELSE "shell unlock"
    <3>1. ~Unsupported(Head(cmd).reads)
      BY <1>3, StepLists DEF Unsupported
    <3> QED BY <1>2, <2>1, <3>1 DEF ShellStep
  <2>3. ok /\ unlock' = 1
    BY <1>1, <2>1, <2>2, OwnerWrite
  <2>4. shell' = <<Unlocks[2], Unlocks[3]>> /\ refused' = "none"
    BY <1>7, <2>2, <2>3, UnlockSteps
  <2> QED BY <1>4, <1>5, <2>3, <2>4 DEF ShellInv, RequestsServed
<1>8. CASE /\ cmd[1].field # "CAL_UNLOCK" /\ ~cmd[1].watch
           /\ \A k \in 2 .. Len(cmd) : Ordinary(cmd[k])
  <2>1. AllOrdinary(shell')
    BY <1>3, <1>4, <1>8, OrdinaryLists
  <2>2. refused' = "none"
    BY <1>1, <1>4, <1>6, <1>8 DEF OfHandshake
  <2> QED BY <1>4, <1>5, <2>1, <2>2 DEF ShellInv, RequestsServed
<1> QED BY <1>3, <1>7, <1>8

LEMMA GoOnCommandOk ==
    ASSUME AccessInv, GoOnCommand
    PROVE  TypeOK' /\ ShellInv' /\ RequestsServed'
<1>1. /\ TypeOK /\ ShellInv /\ shell # << >> /\ UNCHANGED <<latch, host, meddled>>
      /\ ShellStep(Head(shell), Tail(shell))
  BY DEF AccessInv, GoOnCommand
<1>2. Kept(shell, caps)
  BY <1>1 DEF ShellInv
<1>3. /\ caps' = caps /\ mode' \in {"normal", "calibration"} /\ unlock' \in 0 .. 2
      /\ calOut' \in BOOLEAN /\ params' \in BOOLEAN
      /\ Kept(shell', caps)
      /\ \/ shell' = Tail(shell)
         \/ shell' = << >>
         \/ shell[1].watch /\ shell' = <<Head(shell)>>
      /\ \/ refused' = "none"
         \/ refused' = "shell unlock" /\ OfHandshake(Head(shell), Tail(shell))
  BY <1>1, <1>2, ShellStepOk
<1>4. TypeOK'
  BY <1>1, <1>3 DEF TypeOK
<1>5. Head(shell) = shell[1]
  BY <1>1, <1>2, StepLists
<1>6. CASE AllOrdinary(shell)
  <2>1. AllOrdinary(shell') /\ Ordinary(shell[1])
    BY <1>1, <1>2, <1>3, <1>6, OrdinaryLists
  <2>2. refused' = "none"
    BY <1>3, <1>5, <2>1 DEF OfHandshake, Ordinary
  <2> QED BY <1>3, <1>4, <2>1, <2>2 DEF ShellInv, RequestsServed
<1>7. ASSUME shell = <<Unlocks[2], Unlocks[3]>> \/ shell = <<Unlocks[3]>>
      PROVE  \E ok \in BOOLEAN :
                /\ vc_catalog_write(shell[1].field, shell[1].val, ok)
                /\ shell' = IF ok THEN Tail(shell) ELSE << >>
                /\ ok => refused' = "none"
  <2>1. shell[1] = Unlocks[2] \/ shell[1] = Unlocks[3]
    BY <1>7
  <2>2. shell[1].field # "none" /\ ~Unsupported(Head(shell).reads)
    BY <1>1, <1>2, <2>1, UnlockSteps, StepLists DEF Unsupported
  <2> QED BY <1>1, <1>5, <2>2 DEF ShellStep
<1>8. CASE shell = <<Unlocks[2], Unlocks[3]>> /\ (~meddled => unlock = 1)
  <2>1. /\ shell[1].field = "CAL_UNLOCK" /\ shell[1].val = "STEP2" /\ Tail(shell) = <<Unlocks[3]>>
    BY <1>8, UnlockSteps
  <2>2. PICK ok \in BOOLEAN :
           /\ vc_catalog_write(shell[1].field, shell[1].val, ok)
           /\ shell' = IF ok THEN Tail(shell) ELSE << >>
           /\ ok => refused' = "none"
    BY <1>7, <1>8
  <2>3. ~meddled => ok /\ unlock' = 2
    BY <1>1, <1>8, <2>1, <2>2, OwnerWrite
  <2>4. RequestsServed'
    BY <1>1, <1>3, <2>2, <2>3 DEF RequestsServed
  <2>5. ShellInv'
    <3>1. CASE ok
      <4>1. shell' = <<Unlocks[3]>> /\ (~meddled' => unlock' = 2)
        BY <1>1, <2>1, <2>2, <2>3, <3>1
      <4> QED BY <1>3, <4>1 DEF ShellInv
    <3>2. CASE ~ok
      BY <1>1, <1>2, <1>3, <2>2, <3>2, OrdinaryLists DEF ShellInv
    <3> QED BY <3>1, <3>2
  <2> QED BY <1>4, <2>4, <2>5
<1>9. CASE shell = <<Unlocks[3]>> /\ (~meddled => unlock = 2)
  <2>1. /\ shell[1].field = "OPERATING_MODE" /\ shell[1].val = "calibration"
        /\ Tail(shell) = << >>
    BY <1>9, UnlockSteps
  <2>2. PICK ok \in BOOLEAN :
           /\ vc_catalog_write(shell[1].field, shell[1].val, ok)
           /\ shell' = IF ok THEN Tail(shell) ELSE << >>
           /\ ok => refused' = "none"
    BY <1>7, <1>9
  <2>3. ~meddled => ok
    BY <1>1, <1>9, <2>1, <2>2, OwnerWrite
  <2>4. RequestsServed'
    BY <1>1, <1>3, <2>2, <2>3 DEF RequestsServed
  <2>5. ShellInv'
    BY <1>1, <1>2, <1>3, <2>1, <2>2, OrdinaryLists DEF ShellInv
  <2> QED BY <1>4, <2>4, <2>5
<1> QED BY <1>1, <1>6, <1>8, <1>9 DEF ShellInv

(***************************************************************************)
(* The invariant and what follows from it                                  *)
(***************************************************************************)
\* A step that leaves the owner, the shell and the ghost of the handshake alone.
LEMMA OwnerKept ==
    ASSUME AccessInv, UNCHANGED <<owner, shell, meddled>>, params' = FALSE,
           HostOk(host', latch', caps'),
           latch' \in Wide \cup {"none"}, refused' \in {"none", "snapshot", "write", "disable"}
    PROVE  AccessInv'
<1>1. caps' = caps /\ mode' = mode /\ unlock' = unlock /\ calOut' = calOut
  BY DEF owner
<1>2. host'.known \in {{}, caps'}
  BY DEF HostOk, HostType
<1>3. TypeOK'
  BY <1>1, <1>2 DEF AccessInv, TypeOK
<1>4. ShellInv'
  BY <1>1 DEF AccessInv, ShellInv
<1> QED BY <1>1, <1>3, <1>4 DEF AccessInv, RequestsServed

\* The invariant holds at the start.
LEMMA AccessInit == Init => AccessInv
<1> SUFFICES ASSUME Init PROVE AccessInv
  OBVIOUS
<1>1. << >> \in Seq(BlockNames) /\ << >> \in Seq(TxType) /\ << >> \in Seq(StepType)
  OBVIOUS
<1>2. host = Idle({}) /\ caps \in Boards /\ latch = "none" /\ shell = << >>
  BY DEF Init, NoLatch
<1>3. host \in HostType(caps) /\ host.txs = << >> /\ ~host.hi /\ host.torn = "none"
      /\ host.known = {}
  BY <1>1, <1>2 DEF Idle, HostType
<1>4. HostOk(host, latch, caps)
  BY <1>3, FreshHost, FittingTxs
<1>5. TypeOK
  <2>1. 0 \in 0 .. 2 /\ FALSE \in BOOLEAN /\ host.known \in {{}, caps}
    BY <1>3
  <2> QED BY <1>2, <2>1 DEF Init, TypeOK
<1>6. ShellInv
  BY <1>1, <1>2 DEF ShellInv, Kept, AllOrdinary
<1> QED BY <1>4, <1>5, <1>6 DEF AccessInv, RequestsServed, Init

\* Every step keeps it.
LEMMA AccessNext == AccessInv /\ [Next]_vars => AccessInv'
<1> SUFFICES ASSUME AccessInv, [Next]_vars PROVE AccessInv'
  OBVIOUS
<1>1. HostOk(host, latch, caps) /\ host \in HostType(caps) /\ latch \in Wide \cup {"none"} /\ TypeOK
  BY DEF AccessInv, HostOk, TypeOK
<1>2. CASE StartOp
  <2>1. UNCHANGED <<owner, shell, meddled>> /\ params' = FALSE /\ latch' = latch /\ refused' = "none"
    BY <1>2 DEF StartOp, owner
  <2> QED BY <1>1, <1>2, <2>1, StartOpOk, OwnerKept
<1>3. CASE NextBlock
  <2>1. UNCHANGED <<owner, shell, meddled>> /\ params' = FALSE /\ latch' = latch /\ refused' = "none"
    BY <1>3 DEF NextBlock, owner
  <2> QED BY <1>1, <1>3, <2>1, NextBlockOk, OwnerKept
<1>4. CASE ReadRegister
  <2>1. UNCHANGED <<owner, shell, meddled>> /\ params' = FALSE /\ refused' = "none"
    BY <1>4 DEF ReadRegister, owner
  <2> QED BY <1>4, <2>1, ReadRegisterOk, OwnerKept
<1>5. CASE ReadRefused
  <2>1. UNCHANGED <<owner, shell, meddled>> /\ params' = FALSE
    BY <1>5 DEF ReadRefused, owner
  <2> QED BY <1>5, <2>1, ReadRefusedOk, OwnerKept
<1>6. CASE WriteGate
  <2>1. UNCHANGED <<owner, shell, meddled>> /\ params' = FALSE
    BY <1>6 DEF WriteGate, owner
  <2> QED BY <1>6, <2>1, WriteGateOk, OwnerKept
<1>7. CASE LoseAnswer
  <2>1. /\ UNCHANGED <<owner, shell, meddled>> /\ params' = FALSE /\ latch' = latch /\ refused' = "none"
        /\ host' = Failed(host) /\ caps' = caps
    BY <1>7 DEF LoseAnswer, owner
  <2>2. HostOk(host', latch', caps')
    BY <1>1, <2>1, FailedOk
  <2> QED BY <1>1, <2>1, <2>2, OwnerKept
<1>8. CASE WriteOwner
  <2>1. /\ HostOk(host', latch', caps')
        /\ refused' \in {"none", "snapshot", "write", "disable"}
    BY <1>8, WriteOwnerOk
  <2>2. /\ latch' = latch /\ shell' = shell
        /\ meddled' = (shell # << >> /\ (meddled \/ Reg = "CAL_UNLOCK" \/ mode' # mode))
    BY <1>8 DEF WriteOwner
  <2>3. PICK ok \in BOOLEAN : vc_catalog_write(Reg, Tx.val, ok)
    BY <1>8 DEF WriteOwner
  <2>4. /\ caps' = caps /\ mode' \in {"normal", "calibration"} /\ unlock' \in 0 .. 2
        /\ calOut' \in BOOLEAN /\ params' \in BOOLEAN
        /\ Reg # "CAL_UNLOCK" /\ mode' = mode => unlock' = unlock
    BY <1>1, <2>3, OwnerWrite
  <2>5. host'.known \in {{}, caps'}
    BY <2>1 DEF HostOk, HostType
  <2>6. TypeOK'
    BY <1>1, <2>2, <2>4, <2>5 DEF TypeOK
  <2>7. ShellInv'
    <3>1. ShellInv
      BY DEF AccessInv
    <3>2. CASE AllOrdinary(shell)
      BY <2>2, <2>4, <3>1, <3>2 DEF ShellInv
    <3>3. CASE ~AllOrdinary(shell)
      <4>1. shell # << >>
        BY <3>3 DEF AllOrdinary
      <4>2. ~meddled' => ~meddled /\ unlock' = unlock
        BY <2>2, <2>4, <4>1
      <4> QED BY <2>2, <2>4, <3>1, <4>2 DEF ShellInv
    <3> QED BY <3>2, <3>3
  <2> QED BY <2>1, <2>6, <2>7 DEF AccessInv, RequestsServed
<1>9. CASE StartCommand
  <2>1. TypeOK' /\ ShellInv' /\ RequestsServed'
    BY <1>9, StartCommandOk
  <2>2. caps' = caps /\ latch' = latch /\ host' = host
    <3>1. TypeOK /\ StartCommand /\ shell = << >>
      BY <1>1, <1>9 DEF StartCommand
    <3>2. PICK cmd \in ShellCommands(caps) : ShellStep(Head(cmd), Tail(cmd))
      BY <3>1 DEF StartCommand, Commands, TypeOK
    <3>3. Kept(cmd, caps) /\ cmd # << >>
      BY CommandsServed DEF ServedCommand, ServedStep, ServedReads, Kept
    <3> QED BY <1>9, <3>1, <3>2, <3>3, ShellStepOk DEF StartCommand
  <2> QED BY <1>1, <2>1, <2>2 DEF AccessInv
<1>10. CASE GoOnCommand
  <2>1. TypeOK' /\ ShellInv' /\ RequestsServed'
    BY <1>10, GoOnCommandOk
  <2>2. caps' = caps /\ latch' = latch /\ host' = host
    <3>1. /\ TypeOK /\ Kept(shell, caps) /\ shell # << >>
          /\ ShellStep(Head(shell), Tail(shell))
      BY <1>1, <1>10 DEF AccessInv, ShellInv, GoOnCommand
    <3> QED BY <1>10, <3>1, ShellStepOk DEF GoOnCommand
  <2> QED BY <1>1, <2>1, <2>2 DEF AccessInv
<1>11. CASE vc_controller_tick_watchdog
  <2>1. /\ caps' = caps /\ latch' = latch /\ host' = host /\ shell' = shell /\ meddled' = meddled
        /\ params' = FALSE
        /\ refused' = "none" /\ mode' = "normal" /\ unlock' = unlock /\ calOut' \in BOOLEAN
    BY <1>1, <1>11 DEF vc_controller_tick_watchdog, Leave, TypeOK
  <2>2. TypeOK' /\ ShellInv'
    BY <2>1 DEF AccessInv, TypeOK, ShellInv
  <2> QED BY <1>1, <2>1, <2>2 DEF AccessInv, RequestsServed
<1>12. CASE vc_channel_consume_fault
  <2>1. /\ caps' = caps /\ latch' = latch /\ host' = host /\ shell' = shell /\ meddled' = meddled
        /\ params' = FALSE
        /\ refused' = "none" /\ mode' = mode /\ unlock' = unlock /\ calOut' = FALSE
    BY <1>12 DEF vc_channel_consume_fault
  <2>2. TypeOK' /\ ShellInv'
    BY <2>1 DEF AccessInv, TypeOK, ShellInv
  <2> QED BY <1>1, <2>1, <2>2 DEF AccessInv, RequestsServed
<1>13. CASE UNCHANGED vars
  BY <1>13 DEF vars, AccessInv, TypeOK, ShellInv, RequestsServed
<1> QED
  BY <1>2, <1>3, <1>4, <1>5, <1>6, <1>7, <1>8, <1>9, <1>10, <1>11, <1>12, <1>13
     DEF Next, HostStep

\* The inductive invariant of the two clients of the catalog.
THEOREM AccessInvariance == Spec => []AccessInv
<1>1. Init => AccessInv
  BY AccessInit
<1>2. AccessInv /\ [Next]_vars => AccessInv'
  BY AccessNext
<1> QED BY <1>1, <1>2, PTL DEF Spec

\* The types of the variables of RegisterAccess.
THEOREM AccessTypeCorrect == Spec => []TypeOK
<1>1. AccessInv => TypeOK
  BY DEF AccessInv
<1> QED BY <1>1, AccessInvariance, PTL

\* The two words of a system register that a transaction receives (read_wire and its
\* latch, modbus_register.c) belong to one value, for every channel.
THEOREM SystemWordsTogether == Spec => []SystemWordsWhole
<1>1. AccessInv => SystemWordsWhole
  BY DEF AccessInv, HostOk, SystemWordsWhole, SystemWide
<1> QED BY <1>1, AccessInvariance, PTL

\* What the host library, the command line and the shell ask of a channel is served,
\* whatever its capabilities are, but for the accesses that nothing gates and the
\* handshake of the shell when the host meddled with it.
THEOREM EveryRequestServed == Spec => []RequestsServed
<1>1. AccessInv => RequestsServed
  BY DEF AccessInv
<1> QED BY <1>1, AccessInvariance, PTL

\* The calibration output is switched on in calibration mode only, whatever ends the
\* mode between the check of the wire and the command at the owner; and every end of a
\* session switches it off, but the one that a system parameter action brings.
THEOREM CalOutputGuarded == Spec => CalOutputOnlyInCal
<1>1. TypeOK /\ [Next]_vars => OutputGuarded
  <2> SUFFICES ASSUME TypeOK, [Next]_vars PROVE OutputGuarded
    OBVIOUS
  <2>1. CASE \/ StartOp \/ NextBlock \/ ReadRegister \/ ReadRefused \/ WriteGate \/ LoseAnswer
             \/ UNCHANGED vars
    <3>1. Same
      BY <2>1 DEF StartOp, NextBlock, ReadRegister, ReadRefused, WriteGate, LoseAnswer, vars, Same
    <3> QED BY <3>1, OwnerKeepsGuard
  <2>2. CASE WriteOwner
    BY <2>2, OwnerKeepsGuard DEF WriteOwner
  <2>3. ASSUME NEW s, NEW rest, ShellStep(s, rest) PROVE OutputGuarded
    <3>1. UNCHANGED owner => Same
      BY DEF owner, Same
    <3> QED BY <2>3, <3>1, OwnerKeepsGuard DEF ShellStep
  <2>4. CASE StartCommand \/ GoOnCommand
    BY <2>3, <2>4 DEF StartCommand, GoOnCommand
  <2>5. CASE vc_controller_tick_watchdog
    BY <2>5 DEF vc_controller_tick_watchdog, Leave, OutputGuarded
  <2>6. CASE vc_channel_consume_fault
    BY <2>6 DEF vc_channel_consume_fault, OutputGuarded
  <2> QED BY <2>1, <2>2, <2>4, <2>5, <2>6 DEF Next, HostStep
<1>2. OutputGuarded => [OutputGuarded]_vars
  OBVIOUS
<1> QED BY <1>1, <1>2, AccessTypeCorrect, PTL DEF Spec, CalOutputOnlyInCal, OutputGuarded
=============================================================================
