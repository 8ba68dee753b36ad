--------------------------- MODULE E82545RegsProofs ---------------------------
(***************************************************************************)
(* Proofs about the register file of the e1000: in every order of writes,   *)
(* disables and resets the receiver's and the transmitter's derived state   *)
(* agrees with the registers the guest reads.                               *)
(***************************************************************************)
EXTENDS E82545Regs, TLAPS

RxState == [enabled : BOOLEAN, loopback : BOOLEAN, rdba : Value \X Value]
TxState == [enabled : BOOLEAN, tdba : Value \X Value]

(* The registers that the derived state is about.                           *)
Control == {"RCTL", "TCTL", "RDBAH", "RDBAL", "TDBAH", "TDBAL"}

LEMMA PlainNames ==
  /\ Control \cup {"CTRL", "RDLEN"} \subseteq Plain
  /\ Plain \cap {"RA", "MTA", "VFTA", "MDIC", "STATUS", "MANC", "Statistic", "Unaligned",
                 "CTRL_DUP", "Beyond"} = {}
<1>1. DOMAIN Masks = 1 .. 15
  BY DEF Masks
<1>2. /\ {"RDBAH", "TDBAH"} \subseteq Masks[1].regs
      /\ "CTRL" \in Masks[3].regs
      /\ {"RDBAL", "TDBAL"} \subseteq Masks[7].regs
      /\ "RDLEN" \in Masks[8].regs
      /\ "RCTL" \in Masks[14].regs
      /\ "TCTL" \in Masks[15].regs
  BY DEF Masks
<1>3. ASSUME NEW i \in 1 .. 15
      PROVE  Masks[i].regs \cap {"RA", "MTA", "VFTA", "MDIC", "STATUS", "MANC",
                 "Statistic", "Unaligned", "CTRL_DUP", "Beyond"} = {}
  BY DEF Masks
<1>4. Control \cup {"CTRL", "RDLEN"} \subseteq Plain
  BY <1>1, <1>2 DEF Plain, Control
<1> QED
  BY <1>1, <1>3, <1>4 DEF Plain

(* A write of RCTL or TCTL keeps the enable bit.                            *)
LEMMA KeepsEnable == EN \in Keep["RCTL"] /\ EN \in Keep["TCTL"]
<1>1. DOMAIN Masks = 1 .. 15 /\ "RCTL" \in Plain /\ "TCTL" \in Plain
  BY PlainNames DEF Masks, Control
<1>2. ASSUME NEW i \in 1 .. 15
      PROVE  /\ "RCTL" \in Masks[i].regs => i = 14
             /\ "TCTL" \in Masks[i].regs => i = 15
  BY DEF Masks
<1>3. "RCTL" \in Masks[14].regs /\ "TCTL" \in Masks[15].regs
  BY DEF Masks
<1>4. /\ (CHOOSE i \in DOMAIN Masks : "RCTL" \in Masks[i].regs) = 14
      /\ (CHOOSE i \in DOMAIN Masks : "TCTL" \in Masks[i].regs) = 15
  BY <1>1, <1>2, <1>3
<1>5. Keep["RCTL"] = Masks[14].keep /\ Keep["TCTL"] = Masks[15].keep
  BY <1>1, <1>4 DEF Keep
<1>6. EN \in Masks[14].keep /\ EN \in Masks[15].keep
  BY DEF Masks, EN, Word
<1> QED
  BY <1>5, <1>6

LEMMA SaveFields ==
  ASSUME reg \in [Plain -> Value], NEW r \in Plain, NEW v \in Value, Save(r, v)
  PROVE  /\ reg' \in [Plain -> Value]
         /\ reg'[r] = v \cap Keep[r]
         /\ \A q \in Plain : q # r => reg'[q] = reg[q]
<1>1. v \cap Keep[r] \in Value
  BY DEF Value
<1> QED
  BY <1>1 DEF Save

(* What a reset by the driver leaves in the registers.                      *)
LEMMA ResetFields ==
  ASSUME NEW regs \in [Plain -> Value]
  PROVE  LET after == ResetRegs(regs, TRUE) IN
         /\ after \in [Plain -> Value]
         /\ after["RCTL"] = {} /\ after["TCTL"] = {}
<1>1. \A r \in Plain : Default(r) \in Value
  BY DEF Default, Value, Word
<1>2. Default("RCTL") = {} /\ Default("TCTL") = {}
  BY DEF Default
<1>3. \A r \in Plain : ResetRegs(regs, TRUE)[r] \in {regs[r], Default(r)}
  BY DEF ResetRegs
<1>4. ResetRegs(regs, TRUE) \in [Plain -> Value]
  BY <1>1, <1>3 DEF ResetRegs
<1>5. \A r \in {"RCTL", "TCTL"} : r \in Plain /\ r \notin NotReset \cup KeptByDriverReset
  BY PlainNames DEF Control, NotReset, KeptByDriverReset
<1> QED
  BY <1>2, <1>4, <1>5 DEF ResetRegs

LEMMA PhyIsWord == ASSUME NEW n PROVE Phy(n) \in Value
  BY DEF Phy, Value, Word

(* The invariant but for what a write of a register cannot change.          *)
UniState == [valid : BOOLEAN, addrsel : SUBSET {0, 1}, octet : [0 .. 5 -> SUBSET (0 .. 7)]]

File ==
    /\ reg \in [Plain -> Value]
    /\ uni \in [Uni -> UniState]
    /\ table \in [{"MTA", "VFTA"} -> [0 .. TableSize - 1 -> Value]]
    /\ mdic \in Value
    /\ rx \in RxState /\ tx \in TxState
    /\ halted \in BOOLEAN /\ moved \in BOOLEAN

Derived == EnabledAsRead /\ RxRingIsCurrent /\ NoRingWhenOff /\ TxRingIsCurrent

LEMMA InvSplit == IInv <=> /\ guest \in Guests /\ io_addr \in Offsets
                           /\ File /\ Derived
  BY DEF IInv, TypeOK, File, Derived, RxState, TxState, UniState

(* A step that leaves the control registers and the derived state alone.    *)
LEMMA Aside ==
  ASSUME File, Derived, UNCHANGED <<rx, tx, moved>>,
         \A r \in Control : reg'[r] = reg[r]
  PROVE  Derived'
  BY DEF Derived, Control, EnabledAsRead, RxRingIsCurrent, NoRingWhenOff, TxRingIsCurrent

LEMMA HaltInv == ASSUME File, Derived, Halt PROVE File' /\ Derived'
  BY DEF Halt, File, Derived, EnabledAsRead, RxRingIsCurrent, NoRingWhenOff,
         TxRingIsCurrent

LEMMA NoneIsPair == None \in Value \X Value
  BY DEF None, Value

LEMMA ResetInv ==
  ASSUME File, Derived, NEW regs \in [Plain -> Value], Reset(regs)
  PROVE  File' /\ Derived'
<1>1. /\ reg' \in [Plain -> Value] /\ reg'["RCTL"] = {} /\ reg'["TCTL"] = {}
  BY ResetFields DEF Reset
<1>2. uni' \in [Uni -> UniState]
  <2>1. ASSUME NEW i \in Uni PROVE [uni[i] EXCEPT !.valid = FALSE] \in UniState
    BY DEF File, UniState
  <2> QED
    BY <2>1 DEF Reset
<1>3. rx' \in RxState /\ rx'.enabled = FALSE
  BY DEF Reset, File, RxState
<1>4. tx' \in TxState /\ tx'.enabled = FALSE /\ tx'.tdba = None
  BY NoneIsPair DEF Reset, TxState
<1>5. File'
  BY <1>1, <1>2, <1>3, <1>4 DEF Reset, File
<1> QED
  BY <1>1, <1>3, <1>4, <1>5 DEF Derived, EnabledAsRead, RxRingIsCurrent, NoRingWhenOff,
     TxRingIsCurrent

LEMMA DevctlInv ==
  ASSUME File, Derived, NEW v \in Value, Devctl(v) PROVE File' /\ Derived'
<1>1. "CTRL" \in Plain /\ "CTRL" \notin Control /\ Control \subseteq Plain
  BY PlainNames DEF Control
<1>2. CASE RST \in v
  <2> DEFINE regs == [reg EXCEPT !["CTRL"] = v \cap Keep["CTRL"]]
  <2>1. regs \in [Plain -> Value]
    BY <1>1 DEF File, Value
  <2>2. Reset(regs)
    BY <1>2 DEF Devctl
  <2> HIDE DEF regs
  <2> QED
    BY <2>1, <2>2, ResetInv
<1>3. CASE RST \notin v
  <2>1. Save("CTRL", v) /\ UNCHANGED <<uni, table, mdic, rx, tx, halted, moved>>
    BY <1>3 DEF Devctl
  <2>2. reg' \in [Plain -> Value] /\ \A q \in Plain : q # "CTRL" => reg'[q] = reg[q]
    BY <1>1, <2>1, SaveFields DEF File
  <2>3. File'
    BY <2>1, <2>2 DEF File
  <2> QED
    BY <1>1, <2>1, <2>2, <2>3, Aside
<1> QED
  BY <1>2, <1>3

LEMMA WritePlainInv ==
  ASSUME File, Derived, NEW r, NEW v \in Value, WritePlain(r, v) PROVE File' /\ Derived'
<1>1. r \in Plain /\ r \notin Control /\ Save(r, v)
      /\ UNCHANGED <<uni, table, mdic, rx, tx, halted, moved>>
  BY DEF WritePlain, Control
<1>2. reg' \in [Plain -> Value] /\ \A q \in Plain : q # r => reg'[q] = reg[q]
  BY <1>1, SaveFields DEF File
<1>3. File'
  BY <1>1, <1>2 DEF File
<1> QED
  BY <1>1, <1>2, <1>3, Aside, PlainNames

LEMMA RxCtlInv ==
  ASSUME File, Derived, NEW v \in Value, RxCtl(v) PROVE File' /\ Derived'
<1>1. Control \subseteq Plain /\ "RCTL" \in Plain
  BY PlainNames DEF Control
<1>2. /\ Save("RCTL", v) /\ UNCHANGED <<uni, table, mdic, tx, halted, moved>>
      /\ rx' = IF (EN \in v) = rx.enabled THEN rx
               ELSE IF EN \in v
                 THEN [enabled |-> TRUE, loopback |-> v \cap LBM # {},
                       rdba |-> <<reg["RDBAH"], reg["RDBAL"]>>]
               ELSE [enabled |-> FALSE, loopback |-> FALSE, rdba |-> None]
  BY DEF RxCtl
<1>3. /\ reg' \in [Plain -> Value] /\ reg'["RCTL"] = v \cap Keep["RCTL"]
      /\ \A q \in Plain : q # "RCTL" => reg'[q] = reg[q]
  BY <1>1, <1>2, SaveFields DEF File
<1>4. EN \in reg'["RCTL"] <=> EN \in v
  BY <1>3, KeepsEnable
<1>5. /\ rx' \in RxState /\ (rx'.enabled <=> EN \in v)
      /\ rx'.enabled => rx'.rdba = <<reg["RDBAH"], reg["RDBAL"]>>
  <2>1. rx \in RxState /\ (rx.enabled <=> EN \in reg["RCTL"])
        /\ rx.enabled \in BOOLEAN
        /\ (rx.enabled => rx.rdba = <<reg["RDBAH"], reg["RDBAL"]>>)
    BY DEF File, RxState, Derived, EnabledAsRead, RxRingIsCurrent
  <2>2. CASE (EN \in v) = rx.enabled
    BY <1>2, <2>1, <2>2
  <2>3. CASE (EN \in v) # rx.enabled /\ EN \in v
    <3>1. rx' = [enabled |-> TRUE, loopback |-> v \cap LBM # {},
                 rdba |-> <<reg["RDBAH"], reg["RDBAL"]>>]
      BY <1>2, <2>3
    <3>2. <<reg["RDBAH"], reg["RDBAL"]>> \in Value \X Value
      BY <1>1 DEF File, Control
    <3> QED
      BY <2>3, <3>1, <3>2 DEF RxState
  <2>4. CASE (EN \in v) # rx.enabled /\ EN \notin v
    <3>1. rx' = [enabled |-> FALSE, loopback |-> FALSE, rdba |-> None]
      BY <1>2, <2>4
    <3> QED
      BY <2>4, <3>1, NoneIsPair DEF RxState
  <2> QED
    BY <2>2, <2>3, <2>4
<1>6. File'
  BY <1>2, <1>3, <1>5 DEF File
<1>7. reg'["TCTL"] = reg["TCTL"] /\ reg'["RDBAH"] = reg["RDBAH"]
      /\ reg'["RDBAL"] = reg["RDBAL"] /\ reg'["TDBAH"] = reg["TDBAH"]
      /\ reg'["TDBAL"] = reg["TDBAL"]
  BY <1>1, <1>3 DEF Control
<1> QED
  BY <1>2, <1>4, <1>5, <1>6, <1>7 DEF Derived, EnabledAsRead, RxRingIsCurrent,
     NoRingWhenOff, TxRingIsCurrent

LEMMA TxCtlInv ==
  ASSUME File, Derived, NEW v \in Value, TxCtl(v) PROVE File' /\ Derived'
<1>1. Control \subseteq Plain /\ "TCTL" \in Plain
  BY PlainNames DEF Control
<1>2. CASE (EN \in v) = tx.enabled
  <2>1. UNCHANGED <<reg, tx, moved, uni, table, mdic, rx, halted>>
    BY <1>2 DEF TxCtl
  <2> QED
    BY <2>1, Aside DEF File
<1>3. CASE (EN \in v) # tx.enabled
  <2>1. /\ Save("TCTL", v) /\ moved' = FALSE /\ UNCHANGED <<uni, table, mdic, rx, halted>>
        /\ tx' = IF EN \in v
                   THEN [enabled |-> TRUE, tdba |-> <<reg["TDBAH"], reg["TDBAL"]>>]
                   ELSE [enabled |-> FALSE, tdba |-> None]
    BY <1>3 DEF TxCtl
  <2>2. /\ reg' \in [Plain -> Value] /\ reg'["TCTL"] = v \cap Keep["TCTL"]
        /\ \A q \in Plain : q # "TCTL" => reg'[q] = reg[q]
    BY <1>1, <2>1, SaveFields DEF File
  <2>3. EN \in reg'["TCTL"] <=> EN \in v
    BY <2>2, KeepsEnable
  <2>4. /\ tx' \in TxState /\ (tx'.enabled <=> EN \in v)
        /\ tx'.enabled => tx'.tdba = <<reg["TDBAH"], reg["TDBAL"]>>
        /\ ~ tx'.enabled => tx'.tdba = None
    <3>1. <<reg["TDBAH"], reg["TDBAL"]>> \in Value \X Value
      BY <1>1 DEF File, Control
    <3> QED
      BY <2>1, <3>1, NoneIsPair DEF TxState
  <2>5. File'
    BY <2>1, <2>2, <2>4 DEF File
  <2>6. reg'["RCTL"] = reg["RCTL"] /\ reg'["RDBAH"] = reg["RDBAH"]
        /\ reg'["RDBAL"] = reg["RDBAL"] /\ reg'["TDBAH"] = reg["TDBAH"]
        /\ reg'["TDBAL"] = reg["TDBAL"]
    BY <1>1, <2>2 DEF Control
  <2> QED
    BY <2>1, <2>3, <2>4, <2>5, <2>6 DEF Derived, EnabledAsRead, RxRingIsCurrent,
       NoRingWhenOff, TxRingIsCurrent
<1> QED
  BY <1>2, <1>3

(* RDBAH and RDLEN: an assertion keeps them as they are under the receiver. *)
LEMMA WriteRxBaseInv ==
  ASSUME File, Derived, NEW v \in Value, WriteRDBAH(v) \/ WriteRDLEN(v)
  PROVE  File' /\ Derived'
<1>1. CASE rx.enabled
  BY <1>1, HaltInv DEF WriteRDBAH, WriteRDLEN
<1>2. CASE ~ rx.enabled
  <2>1. PICK r \in {"RDBAH", "RDLEN"} : Save(r, v)
    BY <1>2 DEF WriteRDBAH, WriteRDLEN
  <2>2. UNCHANGED <<uni, table, mdic, rx, tx, halted, moved>>
    BY <1>2 DEF WriteRDBAH, WriteRDLEN
  <2>3. Control \subseteq Plain /\ r \in Plain
    BY PlainNames DEF Control
  <2>4. reg' \in [Plain -> Value] /\ \A q \in Plain : q # r => reg'[q] = reg[q]
    BY <2>1, <2>3, SaveFields DEF File
  <2>5. File'
    BY <2>2, <2>4 DEF File
  <2>6. \A q \in Control : q # "RDBAH" => reg'[q] = reg[q]
    BY <2>3, <2>4 DEF Control
  <2>7. reg'["RCTL"] = reg["RCTL"] /\ reg'["TCTL"] = reg["TCTL"]
        /\ reg'["TDBAH"] = reg["TDBAH"] /\ reg'["TDBAL"] = reg["TDBAL"]
    BY <2>6 DEF Control
  <2> QED
    BY <1>2, <2>2, <2>5, <2>7 DEF Derived, EnabledAsRead, RxRingIsCurrent, NoRingWhenOff,
       TxRingIsCurrent
<1> QED
  BY <1>1, <1>2

LEMMA WriteRDBALInv ==
  ASSUME File, Derived, NEW v \in Value, WriteRDBAL(v) PROVE File' /\ Derived'
<1>1. Control \subseteq Plain /\ "RDBAL" \in Plain
  BY PlainNames DEF Control
<1>2. /\ Save("RDBAL", v) /\ UNCHANGED <<uni, table, mdic, tx, halted, moved>>
      /\ rx' = IF rx.enabled THEN [rx EXCEPT !.rdba = <<reg["RDBAH"], reg'["RDBAL"]>>]
                             ELSE rx
  BY DEF WriteRDBAL
<1>3. /\ reg' \in [Plain -> Value] /\ \A q \in Plain : q # "RDBAL" => reg'[q] = reg[q]
  BY <1>1, <1>2, SaveFields DEF File
<1>4. reg'["RCTL"] = reg["RCTL"] /\ reg'["TCTL"] = reg["TCTL"]
      /\ reg'["RDBAH"] = reg["RDBAH"]
      /\ reg'["TDBAH"] = reg["TDBAH"] /\ reg'["TDBAL"] = reg["TDBAL"]
  BY <1>1, <1>3 DEF Control
<1>5. /\ rx' \in RxState /\ rx'.enabled = rx.enabled
      /\ rx.enabled => rx'.rdba = <<reg'["RDBAH"], reg'["RDBAL"]>>
  <2>1. <<reg["RDBAH"], reg'["RDBAL"]>> \in Value \X Value
    BY <1>1, <1>3 DEF File, Control
  <2>2. rx \in RxState
    BY DEF File
  <2> QED
    BY <1>2, <1>4, <2>1, <2>2 DEF RxState
<1>6. File'
  BY <1>2, <1>3, <1>5 DEF File
<1> QED
  BY <1>2, <1>4, <1>5, <1>6 DEF Derived, EnabledAsRead, RxRingIsCurrent, NoRingWhenOff,
     TxRingIsCurrent

LEMMA WriteTDBALInv ==
  ASSUME File, Derived, NEW v \in Value, WriteTDBAL(v) PROVE File' /\ Derived'
<1>1. Control \subseteq Plain /\ "TDBAL" \in Plain
  BY PlainNames DEF Control
<1>2. /\ Save("TDBAL", v) /\ moved' = FALSE /\ UNCHANGED <<uni, table, mdic, rx, halted>>
      /\ tx' = IF tx.enabled THEN [tx EXCEPT !.tdba = <<reg["TDBAH"], reg'["TDBAL"]>>]
                             ELSE tx
  BY DEF WriteTDBAL
<1>3. /\ reg' \in [Plain -> Value] /\ \A q \in Plain : q # "TDBAL" => reg'[q] = reg[q]
  BY <1>1, <1>2, SaveFields DEF File
<1>4. reg'["RCTL"] = reg["RCTL"] /\ reg'["TCTL"] = reg["TCTL"]
      /\ reg'["RDBAH"] = reg["RDBAH"] /\ reg'["RDBAL"] = reg["RDBAL"]
      /\ reg'["TDBAH"] = reg["TDBAH"]
  BY <1>1, <1>3 DEF Control
<1>5. /\ tx' \in TxState /\ tx'.enabled = tx.enabled
      /\ tx.enabled => tx'.tdba = <<reg'["TDBAH"], reg'["TDBAL"]>>
      /\ ~ tx.enabled => tx'.tdba = tx.tdba
  <2>1. <<reg["TDBAH"], reg'["TDBAL"]>> \in Value \X Value
    BY <1>1, <1>3 DEF File, Control
  <2>2. tx \in TxState
    BY DEF File
  <2> QED
    BY <1>2, <1>4, <2>1, <2>2 DEF TxState
<1>6. File'
  BY <1>2, <1>3, <1>5 DEF File
<1> QED
  BY <1>2, <1>4, <1>5, <1>6 DEF Derived, EnabledAsRead, RxRingIsCurrent, NoRingWhenOff,
     TxRingIsCurrent

LEMMA WriteTDBAHInv ==
  ASSUME File, Derived, NEW v \in Value, WriteTDBAH(v) PROVE File' /\ Derived'
<1>1. Control \subseteq Plain /\ "TDBAH" \in Plain
  BY PlainNames DEF Control
<1>2. /\ Save("TDBAH", v) /\ moved' = (moved \/ tx.enabled)
      /\ UNCHANGED <<uni, table, mdic, rx, tx, halted>>
  BY DEF WriteTDBAH
<1>3. /\ reg' \in [Plain -> Value] /\ \A q \in Plain : q # "TDBAH" => reg'[q] = reg[q]
  BY <1>1, <1>2, SaveFields DEF File
<1>4. reg'["RCTL"] = reg["RCTL"] /\ reg'["TCTL"] = reg["TCTL"]
      /\ reg'["RDBAH"] = reg["RDBAH"] /\ reg'["RDBAL"] = reg["RDBAL"]
  BY <1>1, <1>3 DEF Control
<1>5. moved' \in BOOLEAN
  BY <1>2
<1>6. File'
  BY <1>2, <1>3, <1>5 DEF File
<1> QED
  BY <1>2, <1>4, <1>6 DEF Derived, EnabledAsRead, RxRingIsCurrent, NoRingWhenOff,
     TxRingIsCurrent

LEMMA OctetType == ASSUME NEW v, NEW j PROVE Octet(v, j) \in SUBSET (0 .. 7)
  BY DEF Octet

LEMMA WriteRAInv ==
  ASSUME File, Derived, NEW ridx \in 0 .. 31, NEW v \in Value, WriteRA(ridx, v)
  PROVE  File' /\ Derived'
<1> DEFINE i == ridx \div 2
<1>1. CASE i >= 15
  BY <1>1, HaltInv DEF WriteRA
<1>2. CASE ~ (i >= 15)
  <2>1. i \in Uni
    BY <1>2 DEF Uni
  <2> DEFINE odd == [valid |-> 31 \in v, addrsel |-> {b \in {0, 1} : 16 + b \in v},
                     octet |-> [uni[i].octet EXCEPT ![4] = Octet(v, 0), ![5] = Octet(v, 1)]]
             even == [uni[i] EXCEPT !.octet =
                        [j \in 0 .. 5 |-> IF j < 4 THEN Octet(v, j) ELSE uni[i].octet[j]]]
  <2>2. /\ UNCHANGED <<reg, table, mdic, rx, tx, halted, moved>>
        /\ uni' = [uni EXCEPT ![i] = IF ridx % 2 = 1 THEN odd ELSE even]
    BY <1>2 DEF WriteRA
  <2> HIDE DEF i
  <2>3. uni[i] \in UniState
    BY <2>1 DEF File
  <2>4. odd \in UniState
    <3>1. [uni[i].octet EXCEPT ![4] = Octet(v, 0), ![5] = Octet(v, 1)]
             \in [0 .. 5 -> SUBSET (0 .. 7)]
      BY <2>3, OctetType DEF UniState
    <3> QED
      BY <3>1 DEF UniState
  <2>5. even \in UniState
    <3>1. [j \in 0 .. 5 |-> IF j < 4 THEN Octet(v, j) ELSE uni[i].octet[j]]
             \in [0 .. 5 -> SUBSET (0 .. 7)]
      BY <2>3, OctetType DEF UniState
    <3> QED
      BY <2>3, <3>1 DEF UniState
  <2> HIDE DEF odd, even
  <2>6. uni' \in [Uni -> UniState]
    BY <2>1, <2>2, <2>4, <2>5 DEF File
  <2>7. File'
    BY <2>2, <2>6 DEF File
  <2> QED
    BY <2>2, <2>7, Aside
<1> QED
  BY <1>1, <1>2

LEMMA WriteTableInv ==
  ASSUME File, Derived, NEW t \in {"MTA", "VFTA"}, NEW i \in 0 .. TableSize - 1,
         NEW v \in Value, WriteTable(t, i, v)
  PROVE  File' /\ Derived'
<1>1. UNCHANGED <<reg, uni, mdic, rx, tx, halted, moved>>
  BY DEF WriteTable
<1>2. table' \in [{"MTA", "VFTA"} -> [0 .. TableSize - 1 -> Value]]
  BY DEF WriteTable, File
<1>3. File'
  BY <1>1, <1>2 DEF File
<1> QED
  BY <1>1, <1>3, Aside

LEMMA WriteMDICInv ==
  ASSUME File, Derived, NEW v \in Value, WriteMDIC(v) PROVE File' /\ Derived'
<1> DEFINE w == v \ {30, 31}
<1>1. UNCHANGED <<reg, uni, table, rx, tx, halted, moved>>
  BY DEF WriteMDIC
<1>2. /\ w \in Value /\ w \cup {MDIC_READY} \in Value
      /\ (w \ 0 .. 15) \cup Phy(PhyReg(v)) \cup {MDIC_READY} \in Value
  <2>1. Phy(PhyReg(v)) \in Value
    BY PhyIsWord
  <2>2. {MDIC_READY} \in Value
    BY DEF MDIC_READY, Value, Word
  <2> QED
    BY <2>1, <2>2 DEF Value
<1>3. mdic' \in Value
  <2>1. \/ mdic' = w \/ mdic' = w \cup {MDIC_READY}
        \/ mdic' = (w \ 0 .. 15) \cup Phy(PhyReg(v)) \cup {MDIC_READY}
    BY DEF WriteMDIC
  <2> HIDE DEF w
  <2> QED
    BY <1>2, <2>1
<1>4. File'
  BY <1>1, <1>3 DEF File
<1> QED
  BY <1>1, <1>4, Aside

LEMMA OffsetFacts ==
  ASSUME NEW o \in Offsets
  PROVE  /\ o[1] = "RA" => o[2] \in 0 .. 31
         /\ o[1] \in {"MTA", "VFTA"} => o[2] \in 0 .. TableSize - 1
         /\ o = <<o[1], o[2]>>
         /\ o[1] \notin {"RA", "MTA", "VFTA"} => o[2] = 0
         /\ o[1] \in Plain \/ o[1] \in {"CTRL_DUP", "STATUS", "MDIC", "MANC", "Statistic",
                                        "RA", "MTA", "VFTA", "Unaligned", "Beyond"}
  BY PlainNames DEF Offsets, Registers

LEMMA WriteRegisterInv ==
  ASSUME File, Derived, NEW o \in Offsets, NEW v \in Value, WriteRegister(o, v)
  PROVE  File' /\ Derived'
<1>1. CASE UNCHANGED <<reg, uni, table, mdic, rx, tx, halted, moved>>
  BY <1>1, Aside DEF File
<1> QED
  BY <1>1, OffsetFacts, DevctlInv, WritePlainInv, RxCtlInv, TxCtlInv, WriteRxBaseInv,
     WriteRDBALInv, WriteTDBALInv, WriteTDBAHInv, WriteRAInv, WriteTableInv, WriteMDICInv
     DEF WriteRegister

-----------------------------------------------------------------------------
LEMMA InitIInv == Init => IInv
<1> SUFFICES ASSUME Init PROVE IInv
  OBVIOUS
<1>1. reg \in [Plain -> Value] /\ reg["RCTL"] = {} /\ reg["TCTL"] = {}
  <2>1. \A r \in Plain : Default(r) \in Value
    BY DEF Default, Value, Word
  <2>2. Default("RCTL") = {} /\ Default("TCTL") = {}
    BY DEF Default
  <2>3. \A r \in Plain : reg[r] \in {{}, Default(r)}
    BY DEF Init, ResetRegs
  <2>4. {} \in Value
    BY DEF Value
  <2>5. reg \in [Plain -> Value]
    BY <2>1, <2>3, <2>4 DEF Init, ResetRegs
  <2>6. "RCTL" \in Plain /\ "TCTL" \in Plain
    BY PlainNames DEF Control
  <2> QED
    BY <2>2, <2>3, <2>5, <2>6
<1>2. uni \in [Uni -> UniState]
  <2>1. EmptyUni \in UniState
    BY DEF EmptyUni, UniState
  <2>2. [EmptyUni EXCEPT !.valid = TRUE, !.octet = Mac] \in UniState
    BY <2>1, E82545RegsAssumption DEF UniState
  <2> QED
    BY <2>1, <2>2 DEF Init
<1>3. table \in [{"MTA", "VFTA"} -> [0 .. TableSize - 1 -> Value]] /\ mdic \in Value
  BY DEF Init, Value
<1>4. /\ rx \in RxState /\ tx \in TxState /\ rx.enabled = FALSE /\ tx.enabled = FALSE
      /\ tx.tdba = None
  BY NoneIsPair DEF Init, RxState, TxState
<1>5. io_addr \in Offsets /\ guest \in Guests
  BY PlainNames DEF Init, Offsets, Registers
<1>6. File
  BY <1>1, <1>2, <1>3, <1>4 DEF Init, File
<1>7. Derived
  BY <1>1, <1>4 DEF Derived, EnabledAsRead, RxRingIsCurrent, NoRingWhenOff, TxRingIsCurrent
<1> QED
  BY <1>5, <1>6, <1>7, InvSplit

LEMMA NextIInv == ASSUME IInv, [Next]_vars PROVE IInv'
<1>1. guest \in Guests /\ io_addr \in Offsets /\ File /\ Derived
  BY InvSplit
<1>2. guest.values \subseteq Value /\ guest.regs \subseteq Offsets
  BY <1>1, GuestsAssumption
<1>3. ASSUME UNCHANGED <<reg, uni, table, mdic, rx, tx, halted, moved>>
      PROVE  File' /\ Derived'
  BY <1>1, <1>3, Aside DEF File
<1>4. guest' \in Guests /\ io_addr' \in Offsets /\ File' /\ Derived'
  <2>1. CASE UNCHANGED vars
    BY <1>1, <1>3, <2>1 DEF vars
  <2>2. ASSUME NEW size \in Sizes, NEW o \in guest.regs, NEW v \in guest.values,
               WriteMem(o, size, v)
        PROVE  guest' \in Guests /\ io_addr' \in Offsets /\ File' /\ Derived'
    BY <1>1, <1>2, <1>3, <2>2, WriteRegisterInv DEF WriteMem
  <2>3. ASSUME NEW size \in Sizes, NEW o \in guest.regs \cup {<<"Beyond", 0>>},
               WriteIoAddr(o, size)
        PROVE  guest' \in Guests /\ io_addr' \in Offsets /\ File' /\ Derived'
    <3>1. <<"Beyond", 0>> \in Offsets
      BY DEF Offsets
    <3> QED
      BY <1>1, <1>2, <1>3, <2>3, <3>1 DEF WriteIoAddr
  <2>4. ASSUME NEW size \in Sizes, NEW v \in guest.values, WriteIoData(size, v)
        PROVE  guest' \in Guests /\ io_addr' \in Offsets /\ File' /\ Derived'
    BY <1>1, <1>2, <1>3, <2>4, WriteRegisterInv DEF WriteIoData
  <2>5. ASSUME NEW size \in Sizes, NEW o \in guest.regs, ReadMem(o, size)
        PROVE  guest' \in Guests /\ io_addr' \in Offsets /\ File' /\ Derived'
    BY <1>1, <2>5, HaltInv DEF ReadMem
  <2>6. CASE ReadIoData
    BY <1>1, <2>6, HaltInv DEF ReadIoData
  <2> QED
    BY <2>1, <2>2, <2>3, <2>4, <2>5, <2>6 DEF Next
<1> QED
  <2>1. (/\ guest \in Guests /\ io_addr \in Offsets /\ File /\ Derived)' => IInv'
    BY InvSplit, PTL
  <2> QED
    BY <1>4, <2>1

(* The enable flags the data path tests are the bits the guest reads in     *)
(* RCTL and TCTL, the ring the receiver uses is where RDBAH and RDBAL say,  *)
(* the transmitter has none when it is off and is where TDBAH and TDBAL say *)
(* unless TDBAH was written under it: after any sequence of writes, through *)
(* the BAR or the window, with resets in between.                           *)
THEOREM DerivedStateAgrees == Spec => []IInv
<1>1. Init => IInv
  BY InitIInv
<1>2. IInv /\ [Next]_vars => IInv'
  BY NextIInv
<1> QED
  BY <1>1, <1>2, PTL DEF Spec

-----------------------------------------------------------------------------
(* Which write changes what the guest reads.                                *)

(* What ReadRegister looks at for o is left alone.                          *)
SamePart(o) ==
    /\ o[1] \in Plain => reg'[o[1]] = reg[o[1]]
    /\ o[1] = "RA" => ReadRA(o[2])' = ReadRA(o[2])
    /\ o[1] \in {"MTA", "VFTA"} => table'[o[1]][o[2]] = table[o[1]][o[2]]
    /\ o[1] = "MDIC" => mdic' = mdic

LEMMA SameRead ==
  ASSUME NEW o \in Offsets, o # <<"Beyond", 0>>, SamePart(o)
  PROVE  ReadRegister(o)' = ReadRegister(o)
<1>1. \/ o[1] \in Plain
      \/ o[1] \in {"CTRL_DUP", "STATUS", "MDIC", "MANC", "Statistic", "RA", "MTA", "VFTA",
                   "Unaligned"}
  BY OffsetFacts
<1>2. CASE o[1] \in Plain
  <2>1. o[1] \notin {"CTRL_DUP", "STATUS", "MDIC", "MANC", "Statistic", "RA", "MTA", "VFTA",
                     "Unaligned"}
    BY <1>2, PlainNames
  <2> QED
    BY <1>2, <2>1 DEF SamePart, ReadRegister
<1>3. CASE o[1] \notin Plain
  BY <1>1, <1>3 DEF SamePart, ReadRegister, ReadStatistic
<1> QED
  BY <1>2, <1>3

(* The halves of an address filter do not disturb each other.               *)
LEMMA OtherFilterHalf ==
  ASSUME File, NEW ridx \in 0 .. 31, NEW j \in 0 .. 31, j # ridx, NEW v \in Value,
         WriteRA(ridx, v)
  PROVE  ReadRA(j)' = ReadRA(j)
<1> DEFINE i == ridx \div 2
           e == uni[j \div 2]
<1>1. CASE i >= 15 \/ j \div 2 # i
  <2>1. uni'[j \div 2] = uni[j \div 2]
    <3>1. CASE i >= 15
      BY <3>1 DEF WriteRA, Halt
    <3>2. CASE ~ (i >= 15) /\ j \div 2 # i
      <4>1. j \div 2 \in Uni
        BY DEF Uni
      <4> DEFINE k == j \div 2
      <4>2. \E w : uni' = [uni EXCEPT ![i] = w]
        BY <3>2 DEF WriteRA
      <4>3. k \in Uni /\ k # i
        BY <3>2, <4>1
      <4> HIDE DEF k, i
      <4>4. uni'[k] = uni[k]
        BY <4>2, <4>3 DEF File
      <4> QED
        BY <4>4 DEF k
    <3> QED
      BY <1>1, <3>1, <3>2
  <2> QED
    BY <2>1 DEF ReadRA
<1>2. CASE ~ (i >= 15) /\ j \div 2 = i
  <2>1. i \in Uni /\ j % 2 # ridx % 2
    BY <1>2 DEF Uni
  <2>2. uni[i] \in UniState
    BY <2>1 DEF File
  <2> DEFINE odd == [valid |-> 31 \in v, addrsel |-> {b \in {0, 1} : 16 + b \in v},
                     octet |-> [uni[i].octet EXCEPT ![4] = Octet(v, 0), ![5] = Octet(v, 1)]]
             even == [uni[i] EXCEPT !.octet =
                        [k \in 0 .. 5 |-> IF k < 4 THEN Octet(v, k) ELSE uni[i].octet[k]]]
  <2>3. uni' = [uni EXCEPT ![i] = IF ridx % 2 = 1 THEN odd ELSE even]
    BY <1>2 DEF WriteRA
  <2>4. CASE ridx % 2 = 1
    <3>1. uni'[i] = odd
      BY <2>1, <2>3, <2>4 DEF File
    <3>2. \A k \in 0 .. 3 : odd.octet[k] = uni[i].octet[k]
      BY <2>2 DEF UniState
    <3> HIDE DEF odd, i
    <3>3. \A k \in 0 .. 3 : Shift(uni'[i].octet[k], 8 * k) = Shift(uni[i].octet[k], 8 * k)
      BY <3>1, <3>2
    <3>4. UNION {Shift(uni'[i].octet[k], 8 * k) : k \in 0 .. 3}
            = UNION {Shift(uni[i].octet[k], 8 * k) : k \in 0 .. 3}
      BY <3>3
    <3> QED
      BY <1>2, <2>1, <2>4, <3>4 DEF ReadRA
  <2>5. CASE ridx % 2 # 1
    <3>1. uni'[i] = even
      BY <2>1, <2>3, <2>5 DEF File
    <3>2. /\ even.valid = uni[i].valid /\ even.addrsel = uni[i].addrsel
          /\ even.octet[4] = uni[i].octet[4] /\ even.octet[5] = uni[i].octet[5]
      BY <2>2 DEF UniState
    <3>3. j % 2 = 1
      BY <2>1, <2>5
    <3> HIDE DEF even, i
    <3> QED
      BY <1>2, <3>1, <3>2, <3>3 DEF ReadRA
  <2> QED
    BY <2>4, <2>5
<1> QED
  BY <1>1, <1>2

LEMMA OtherPlain ==
  ASSUME File, NEW r \in Plain, NEW v \in Value, Save(r, v), UNCHANGED <<uni, table, mdic>>,
         NEW o \in Offsets, o[1] # r
  PROVE  SamePart(o)
<1>1. \A q \in Plain : q # r => reg'[q] = reg[q]
  BY SaveFields DEF File
<1> QED
  BY <1>1 DEF SamePart, ReadRA

LEMMA AllTheSame ==
  ASSUME UNCHANGED <<reg, uni, table, mdic>>, NEW o PROVE SamePart(o)
  BY DEF SamePart, ReadRA

(* A write of q, without a reset, leaves any register that is not q alone.  *)
LEMMA OwnPart ==
  ASSUME File, NEW q \in Offsets, NEW v \in Value, WriteRegister(q, v),
         NEW o \in Offsets, q \notin WrittenAs(o),
         ~ (q[1] \in {"CTRL", "CTRL_DUP"} /\ RST \in v)
  PROVE  SamePart(o)
<1>0. o[1] # q[1] \/ (o[1] \in {"RA", "MTA", "VFTA"} /\ o[2] # q[2])
  BY OffsetFacts DEF WrittenAs
<1>1. CASE q[1] \in {"CTRL", "CTRL_DUP"} /\ Devctl(v)
  <2>1. Save("CTRL", v) /\ UNCHANGED <<uni, table, mdic>> /\ "CTRL" \in Plain
    BY <1>1, PlainNames DEF Devctl
  <2>2. o[1] # "CTRL"
    BY <1>1, OffsetFacts DEF WrittenAs
  <2> QED
    BY <2>1, <2>2, OtherPlain
<1>2. CASE \/ WritePlain(q[1], v)
           \/ q[1] = "RCTL" /\ RxCtl(v)
           \/ q[1] = "TCTL" /\ TxCtl(v)
           \/ q[1] = "RDBAH" /\ WriteRDBAH(v)
           \/ q[1] = "RDLEN" /\ WriteRDLEN(v)
           \/ q[1] = "RDBAL" /\ WriteRDBAL(v)
           \/ q[1] = "TDBAL" /\ WriteTDBAL(v)
           \/ q[1] = "TDBAH" /\ WriteTDBAH(v)
  <2>1. \/ UNCHANGED <<reg, uni, table, mdic>>
        \/ Save(q[1], v) /\ UNCHANGED <<uni, table, mdic>>
    BY <1>2 DEF WritePlain, RxCtl, TxCtl, WriteRDBAH, WriteRDLEN, WriteRDBAL, WriteTDBAL,
                WriteTDBAH, Halt
  <2>2. q[1] \in Plain
    BY <1>2, PlainNames DEF WritePlain, Control
  <2>3. o[1] # q[1]
    BY <1>0, <2>2, PlainNames
  <2> QED
    BY <2>1, <2>2, <2>3, OtherPlain, AllTheSame
<1>3. CASE q[1] = "RA" /\ WriteRA(q[2], v)
  <2>1. q[2] \in 0 .. 31 /\ UNCHANGED <<reg, table, mdic>>
    BY <1>3, OffsetFacts DEF WriteRA, Halt
  <2>2. o[1] = "RA" => o[2] \in 0 .. 31 /\ o[2] # q[2]
    BY <1>0, <1>3, OffsetFacts
  <2>3. o[1] = "RA" => ReadRA(o[2])' = ReadRA(o[2])
    BY <1>3, <2>1, <2>2, OtherFilterHalf
  <2> QED
    BY <2>1, <2>3 DEF SamePart
<1>4. CASE q[1] \in {"MTA", "VFTA"} /\ WriteTable(q[1], q[2], v)
  <2>1. UNCHANGED <<reg, uni, mdic>> /\ table' = [table EXCEPT ![q[1]][q[2]] = v]
    BY <1>4 DEF WriteTable
  <2>2. o[1] \in {"MTA", "VFTA"} => o[2] \in 0 .. TableSize - 1
    BY OffsetFacts
  <2>3. o[1] \in {"MTA", "VFTA"} => table'[o[1]][o[2]] = table[o[1]][o[2]]
    BY <1>0, <1>4, <2>1, <2>2 DEF File
  <2> QED
    BY <2>1, <2>3 DEF SamePart, ReadRA
<1>5. CASE q[1] = "MDIC" /\ WriteMDIC(v)
  BY <1>0, <1>5 DEF WriteMDIC, SamePart, ReadRA
<1>6. CASE UNCHANGED <<reg, uni, table, mdic, rx, tx, halted, moved>>
  BY <1>6, AllTheSame
<1> QED
  BY <1>1, <1>2, <1>3, <1>4, <1>5, <1>6 DEF WriteRegister

LEMMA NextOwnWrite ==
  ASSUME IInv, Next, NEW o \in guest.regs, ReadRegister(o)' # ReadRegister(o)
  PROVE  ChangedByOwnWrite(o)
<1>1. guest \in Guests /\ io_addr \in Offsets /\ File
  BY InvSplit
<1>2. guest.values \subseteq Value /\ guest.regs \subseteq Offsets \ {<<"Beyond", 0>>}
  BY <1>1, GuestsAssumption
<1>3. o \in Offsets /\ ~ SamePart(o)
  BY <1>2, SameRead
<1>4. ~ UNCHANGED <<reg, uni, table, mdic>>
  BY <1>3, AllTheSame
<1>5. ASSUME NEW q \in Offsets, NEW v \in Value, WriteRegister(q, v)
      PROVE  /\ q \in WrittenAs(o) \cup ({"CTRL", "CTRL_DUP"} \X {0})
             /\ q \in WrittenAs(o) \/ RST \in v
  <2>1. q \in WrittenAs(o) \/ (q[1] \in {"CTRL", "CTRL_DUP"} /\ RST \in v)
    BY <1>1, <1>3, <1>5, OwnPart
  <2>2. q[1] \in {"CTRL", "CTRL_DUP"} => q \in {"CTRL", "CTRL_DUP"} \X {0}
    BY OffsetFacts
  <2> QED
    BY <2>1, <2>2
<1>6. ASSUME NEW size \in Sizes, NEW q \in guest.regs, NEW v \in guest.values,
             WriteMem(q, size, v)
      PROVE  ChangedByOwnWrite(o)
  <2>1. size = 4 /\ WriteRegister(q, v)
    BY <1>4, <1>6 DEF WriteMem
  <2>2. q \in Offsets /\ v \in Value
    BY <1>2
  <2>3. WriteMem(q, 4, v)
    BY <1>6, <2>1
  <2> QED
    BY <1>5, <2>1, <2>2, <2>3 DEF ChangedByOwnWrite
<1>7. ASSUME NEW size \in Sizes, NEW v \in guest.values, WriteIoData(size, v)
      PROVE  ChangedByOwnWrite(o)
  <2>1. size = 4 /\ WriteRegister(io_addr, v)
    BY <1>4, <1>7 DEF WriteIoData
  <2>2. WriteIoData(4, v) /\ v \in Value
    BY <1>2, <1>7, <2>1
  <2> QED
    BY <1>1, <1>5, <2>1, <2>2 DEF ChangedByOwnWrite
<1>8. ASSUME NEW size \in Sizes, NEW q \in guest.regs \cup {<<"Beyond", 0>>},
             WriteIoAddr(q, size)
      PROVE  FALSE
  BY <1>4, <1>8 DEF WriteIoAddr
<1>9. ASSUME Halt PROVE FALSE
  BY <1>4, <1>9 DEF Halt
<1> QED
  BY <1>6, <1>7, <1>8, <1>9 DEF Next, ReadMem, ReadIoData

(* No write disturbs another register: neither the second half of an        *)
(* address filter, nor another entry of a table, nor whatever the I/O       *)
(* window was pointing to before; only a reset changes several at once.     *)
THEOREM WritesChangeTheirOwn == Spec => OnlyOwnWrite
<1>1. IInv /\ [Next]_vars =>
        [\A o \in guest.regs : ReadRegister(o)' # ReadRegister(o) => ChangedByOwnWrite(o)]_vars
  BY NextOwnWrite
<1> QED
  BY <1>1, DerivedStateAgrees, PTL DEF Spec, OnlyOwnWrite
===============================================================================
