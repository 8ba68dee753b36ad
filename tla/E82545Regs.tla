------------------------------ MODULE E82545Regs ------------------------------
(***************************************************************************)
(* The register file of the e1000 (bhyve/pci_e82545.c): the registers a     *)
(* guest reads back, the I/O window onto them, and the state that the       *)
(* receiver and the transmitter derive from them when they are enabled.     *)
(*                                                                         *)
(* A 32-bit value is the set of the positions of its 1 bits.  A register is *)
(* a pair of a name and an index into its array.  The interrupt registers,  *)
(* the ring heads and tails and EECD are in the modules E82545Intr,         *)
(* E82545Tx, E82545Rx and E82545Eeprom, and so is what a write of TCTL,     *)
(* RCTL or CTRL starts, waits for or resets there.                          *)
(***************************************************************************)
EXTENDS Naturals

CONSTANTS
    TableSize,   \* entries of the multicast and of the VLAN table, 128
    Mac,         \* esc_mac: the bits of octets 0 .. 5
    Guests       \* kinds of guest: what each writes, with which values

Word == 0 .. 31
Value == SUBSET Word
EN == 1  \*  E1000_RCTL_EN and E1000_TCTL_EN
LBM == {6, 7}
RST == 26

ASSUME E82545RegsAssumption ==
    /\ TableSize \in Nat \ {0}
    /\ Mac \in [0 .. 5 -> SUBSET (0 .. 7)]

(* The bits that a write of a register keeps.                               *)
Masks == <<
    [regs |-> {"FCAL", "TIPG", "RDBAH", "TDBAH"}, keep |-> Word],
    [regs |-> {"FCAH", "FCT", "VET", "FCTTV", "RDTR", "RADV", "TIDV", "TADV", "AIT"},
     keep |-> 0 .. 15],
    [regs |-> {"CTRL"}, keep |-> Word \ {RST}],
    [regs |-> {"LEDCTL"}, keep |-> Word \ {12, 13, 20, 21, 28, 29}],
    [regs |-> {"PBA"}, keep |-> 7 .. 15],
    [regs |-> {"FCRTL", "FCRTH"}, keep |-> 3 .. 15],
    [regs |-> {"RDBAL", "TDBAL"}, keep |-> 4 .. 31],
    [regs |-> {"RDLEN", "TDLEN"}, keep |-> 7 .. 19],
    [regs |-> {"RXDCTL"}, keep |-> Word \ ({6, 7, 14, 15, 22, 23} \cup 25 .. 31)],
    [regs |-> {"TXDCTL"}, keep |-> Word \ {6, 7, 14, 15, 22, 23}],
    [regs |-> {"RSRPD"}, keep |-> 0 .. 11],
    [regs |-> {"RXCSUM"}, keep |-> 0 .. 10],
    [regs |-> {"TXCW"}, keep |-> Word \ (16 .. 29)],
    [regs |-> {"RCTL"}, keep |-> Word \ ({0, 10, 11, 14, 21, 24} \cup 27 .. 31)],
    [regs |-> {"TCTL"}, keep |-> Word \ ({0, 2, 23} \cup 25 .. 31)] >>

Plain == UNION {Masks[i].regs : i \in DOMAIN Masks}
Keep == [r \in Plain |-> Masks[CHOOSE i \in DOMAIN Masks : r \in Masks[i].regs].keep]

Uni == 0 .. 15   \* esc_uni
Registers ==
    (Plain \X {0})
    \cup ({"CTRL_DUP", "STATUS", "MDIC", "MANC", "Statistic"} \X {0})
    \cup ({"RA"} \X (0 .. 31)) \cup ({"MTA", "VFTA"} \X (0 .. TableSize - 1))

(* What the guest puts in IOADDR: a register, an offset that is not a       *)
(* multiple of 4, one beyond E82545_IO_REGISTER_MAX.                        *)
Offsets == Registers \cup ({"Unaligned", "Beyond"} \X {0})

ASSUME GuestsAssumption ==
    \A g \in Guests : /\ g.values \subseteq Value
                      /\ g.regs \subseteq Offsets \ {<<"Beyond", 0>>}   \* the BAR ends there

VARIABLES
    guest,     \* the kind of guest
    reg,       \* the registers that hold what was written
    uni,       \* esc_uni
    table,     \* esc_fmcast, esc_fvlan
    mdic,      \* mdi_control
    io_addr,
    rx,        \* esc_rx_enabled, esc_rx_loopback, esc_rdba with esc_rxdesc
    tx,        \* esc_tx_enabled, esc_tdba with esc_txdesc
    halted,    \* an assertion has failed
    moved      \* history: TDBAH was written under an enabled transmitter

vars == <<guest, reg, uni, table, mdic, io_addr, rx, tx, halted, moved>>

None == <<{}, {}>>   \* address 0: the high and the low half

TypeOK ==
    /\ guest \in Guests
    /\ reg \in [Plain -> Value]
    /\ uni \in [Uni -> [valid : BOOLEAN, addrsel : SUBSET {0, 1},
                        octet : [0 .. 5 -> SUBSET (0 .. 7)]]]
    /\ table \in [{"MTA", "VFTA"} -> [0 .. TableSize - 1 -> Value]]
    /\ mdic \in Value
    /\ io_addr \in Offsets
    /\ rx \in [enabled : BOOLEAN, loopback : BOOLEAN, rdba : Value \X Value]
    /\ tx \in [enabled : BOOLEAN, tdba : Value \X Value]
    /\ halted \in BOOLEAN /\ moved \in BOOLEAN

-----------------------------------------------------------------------------
(* e82545_reset.                                                            *)
Default(r) == CASE r = "LEDCTL" -> {1, 8, 9, 12, 17, 18, 24, 25, 26}
                [] r = "PBA" -> {4, 5, 20}
                [] r = "RXDCTL" -> {16, 24}
                [] OTHER -> {}

NotReset == {"CTRL", "RSRPD"}
KeptByDriverReset == {"FCAL", "FCAH", "FCT", "VET", "FCTTV", "RDBAL", "RDBAH", "TDBAL",
                      "TDBAH", "TIPG", "AIT", "TIDV", "TADV"}

ResetRegs(regs, drvr) ==
    [r \in Plain |-> IF r \in NotReset \/ (drvr /\ r \in KeptByDriverReset)
                       THEN regs[r] ELSE Default(r)]

EmptyUni == [valid |-> FALSE, addrsel |-> {}, octet |-> [i \in 0 .. 5 |-> {}]]

(* e82545_init: zeroed memory, then e82545_reset of the device itself.      *)
Init ==
    /\ guest \in Guests
    /\ reg = ResetRegs([r \in Plain |-> {}], FALSE)
    /\ uni = [i \in Uni |-> IF i = 0 THEN [EmptyUni EXCEPT !.valid = TRUE, !.octet = Mac]
                                     ELSE EmptyUni]
    /\ table = [t \in {"MTA", "VFTA"} |-> [i \in 0 .. TableSize - 1 |-> {}]]
    /\ mdic = {}
    /\ io_addr = <<"CTRL", 0>>   \* offset 0
    /\ rx = [enabled |-> FALSE, loopback |-> FALSE, rdba |-> None]
    /\ tx = [enabled |-> FALSE, tdba |-> None]
    /\ halted = FALSE /\ moved = FALSE

(* The same, asked for by the driver: rx_loopback and the receive ring's    *)
(* address are left as they are, and so are the filters but for their valid *)
(* bits.                                                                    *)
Reset(regs) ==
    /\ reg' = ResetRegs(regs, TRUE)
    /\ uni' = [i \in Uni |-> [uni[i] EXCEPT !.valid = FALSE]]
    /\ rx' = [rx EXCEPT !.enabled = FALSE]
    /\ tx' = [enabled |-> FALSE, tdba |-> None]
    /\ moved' = FALSE
    /\ UNCHANGED <<table, mdic, halted>>

-----------------------------------------------------------------------------
Save(r, v) == reg' = [reg EXCEPT ![r] = v \cap Keep[r]]

Halt == halted' = TRUE /\ UNCHANGED <<reg, uni, table, mdic, rx, tx, moved>>

(* CTRL and CTRL_DUP: the value is saved first and survives the reset.      *)
Devctl(v) ==
    IF RST \in v
      THEN Reset([reg EXCEPT !["CTRL"] = v \cap Keep["CTRL"]])
      ELSE Save("CTRL", v) /\ UNCHANGED <<uni, table, mdic, rx, tx, halted, moved>>

(* The registers without a side effect.                                     *)
WritePlain(r, v) ==
    /\ r \in Plain \ {"CTRL", "RCTL", "TCTL", "RDBAL", "RDBAH", "RDLEN", "TDBAL", "TDBAH"}
    /\ Save(r, v)
    /\ UNCHANGED <<uni, table, mdic, rx, tx, halted, moved>>

(* e82545_rx_ctl: RCTL is saved whatever it says; the loopback mode and the *)
(* ring's address are taken over only when the receiver goes on.            *)
RxCtl(v) ==
    /\ Save("RCTL", v)
    /\ rx' = IF (EN \in v) = rx.enabled THEN rx
             ELSE IF EN \in v
               THEN [enabled |-> TRUE, loopback |-> v \cap LBM # {},
                     rdba |-> <<reg["RDBAH"], reg["RDBAL"]>>]
             ELSE [enabled |-> FALSE, loopback |-> FALSE, rdba |-> None]
    /\ UNCHANGED <<uni, table, mdic, tx, halted, moved>>

(* e82545_tx_ctl: a write that does not turn the transmitter on or off is   *)
(* dropped as a whole.                                                      *)
TxCtl(v) ==
    /\ IF (EN \in v) = tx.enabled THEN UNCHANGED <<reg, tx, moved>>
       ELSE /\ Save("TCTL", v)
            /\ tx' = IF EN \in v
                       THEN [enabled |-> TRUE, tdba |-> <<reg["TDBAH"], reg["TDBAL"]>>]
                       ELSE [enabled |-> FALSE, tdba |-> None]
            /\ moved' = FALSE
    /\ UNCHANGED <<uni, table, mdic, rx, halted>>

(* The receive ring may not be moved under the receiver but by its low half.*)
WriteRDBAH(v) ==
    IF rx.enabled THEN Halt
    ELSE Save("RDBAH", v) /\ UNCHANGED <<uni, table, mdic, rx, tx, halted, moved>>

WriteRDLEN(v) ==
    IF rx.enabled THEN Halt
    ELSE Save("RDLEN", v) /\ UNCHANGED <<uni, table, mdic, rx, tx, halted, moved>>

WriteRDBAL(v) ==
    /\ Save("RDBAL", v)
    /\ rx' = IF rx.enabled THEN [rx EXCEPT !.rdba = <<reg["RDBAH"], reg'["RDBAL"]>>] ELSE rx
    /\ UNCHANGED <<uni, table, mdic, tx, halted, moved>>

WriteTDBALNotLoaded(v) ==   \* mutant: the cached address is not updated
    Save("TDBAL", v) /\ UNCHANGED <<uni, table, mdic, rx, tx, halted, moved>>

WriteTDBAL(v) ==
    /\ Save("TDBAL", v)
    /\ tx' = IF tx.enabled THEN [tx EXCEPT !.tdba = <<reg["TDBAH"], reg'["TDBAL"]>>] ELSE tx
    /\ moved' = FALSE
    /\ UNCHANGED <<uni, table, mdic, rx, halted>>

(* The assertion that the transmitter is off is commented out.              *)
WriteTDBAH(v) ==
    /\ Save("TDBAH", v)
    /\ moved' = (moved \/ tx.enabled)
    /\ UNCHANGED <<uni, table, mdic, rx, tx, halted>>

-----------------------------------------------------------------------------
Octet(v, i) == {b \in 0 .. 7 : 8 * i + b \in v}
Shift(S, n) == {n + b : b \in S}

WriteRAWholeEntry(ridx, v) ==   \* mutant: the low half clears the high half
    LET i == ridx \div 2 IN
    IF i >= 15 THEN Halt
    ELSE /\ uni' = [uni EXCEPT ![i] =
              IF ridx % 2 = 1
                THEN [valid |-> 31 \in v, addrsel |-> {b \in {0, 1} : 16 + b \in v},
                      octet |-> [@.octet EXCEPT ![4] = Octet(v, 0), ![5] = Octet(v, 1)]]
                ELSE [EmptyUni EXCEPT !.octet = [j \in 0 .. 5 |-> Octet(v, j)]]]
         /\ UNCHANGED <<reg, table, mdic, rx, tx, halted, moved>>

(* e82545_write_ra: ridx counts the 32-bit halves.                          *)
WriteRA(ridx, v) ==
    LET i == ridx \div 2
        e == uni[i]
    IN
    IF i >= 15 THEN Halt
    ELSE /\ uni' = [uni EXCEPT ![i] =
              IF ridx % 2 = 1
                THEN [valid |-> 31 \in v, addrsel |-> {b \in {0, 1} : 16 + b \in v},
                      octet |-> [e.octet EXCEPT ![4] = Octet(v, 0), ![5] = Octet(v, 1)]]
                ELSE [e EXCEPT !.octet =
                        [j \in 0 .. 5 |-> IF j < 4 THEN Octet(v, j) ELSE e.octet[j]]]]
         /\ UNCHANGED <<reg, table, mdic, rx, tx, halted, moved>>

WriteTable(t, i, v) ==
    /\ table' = [table EXCEPT ![t][i] = v]
    /\ UNCHANGED <<reg, uni, mdic, rx, tx, halted, moved>>

(* e82545_read_mdi: the PHY's registers; a write of one has no effect.      *)
Phy(n) == CASE n = 1  -> {2, 3, 5}         \* PHY_STATUS: link, autonegotiated
            [] n = 2  -> {0, 6, 8}         \* PHY_ID1
            [] n = 3  -> {2, 5, 10, 11}    \* PHY_ID2
            [] n = 4  -> {0}               \* PHY_AUTONEG_ADV
            [] n = 10 -> {11, 12, 13}      \* PHY_1000T_STATUS
            [] OTHER  -> {}

MDIC_WRITE == 26
MDIC_READ == 27
MDIC_READY == 28
MdicOp(v) == v \cap {MDIC_WRITE, MDIC_READ}
PhyReg(v) == LET n(b) == IF 16 + b \in v THEN 2 ^ b ELSE 0
             IN n(0) + n(1) + n(2) + n(3) + n(4)

(* A write with READY set is no request, and neither READ nor WRITE alone   *)
(* is no operation: READY is then as the guest wrote it.                    *)
WriteMDIC(v) ==
    LET w == v \ {30, 31} IN   \* ERROR, DEST
    /\ mdic' = CASE MDIC_READY \notin v /\ MdicOp(v) = {MDIC_READ} ->
                        (w \ 0 .. 15) \cup Phy(PhyReg(v)) \cup {MDIC_READY}
                 [] MDIC_READY \notin v /\ MdicOp(v) = {MDIC_WRITE} ->
                        w \cup {MDIC_READY}
                 [] OTHER -> w
    /\ UNCHANGED <<reg, uni, table, rx, tx, halted, moved>>

(* e82545_write_register.                                                   *)
WriteRegister(o, v) ==
    \/ o[1] \in {"CTRL", "CTRL_DUP"} /\ Devctl(v)
    \/ WritePlain(o[1], v)
    \/ o[1] = "RCTL" /\ RxCtl(v)
    \/ o[1] = "TCTL" /\ TxCtl(v)
    \/ o[1] = "RDBAH" /\ WriteRDBAH(v)
    \/ o[1] = "RDLEN" /\ WriteRDLEN(v)
    \/ o[1] = "RDBAL" /\ WriteRDBAL(v)
    \/ o[1] = "TDBAL" /\ WriteTDBAL(v)
    \/ o[1] = "TDBAH" /\ WriteTDBAH(v)
    \/ o[1] = "RA" /\ WriteRA(o[2], v)
    \/ o[1] \in {"MTA", "VFTA"} /\ WriteTable(o[1], o[2], v)
    \/ o[1] = "MDIC" /\ WriteMDIC(v)
    \/ /\ o[1] \in {"STATUS", "MANC", "Statistic", "Unaligned"}
       /\ UNCHANGED <<reg, uni, table, mdic, rx, tx, halted, moved>>

-----------------------------------------------------------------------------
(* e82545_read_ra.  An entry beyond the 15th stops the program.             *)
ReadRA(ridx) ==
    LET e == uni[ridx \div 2] IN
    IF ridx % 2 = 1
      THEN (IF e.valid THEN {31} ELSE {}) \cup Shift(e.addrsel, 16)
           \cup Shift(e.octet[5], 8) \cup e.octet[4]
      ELSE UNION {Shift(e.octet[j], 8 * j) : j \in 0 .. 3}

(* The counters have no statement that counts.                              *)
ReadStatistic == {}

(* e82545_read_register.  CTRL_DUP can be written and not read.             *)
ReadRegister(o) ==
    CASE o[1] \in Plain -> reg[o[1]]
      [] o[1] = "STATUS" -> {0, 1, 7}   \* full duplex, link up, 1000 Mb/s
      [] o[1] = "RA" -> ReadRA(o[2])
      [] o[1] \in {"MTA", "VFTA"} -> table[o[1]][o[2]]
      [] o[1] = "MDIC" -> mdic
      [] o[1] = "Statistic" -> ReadStatistic
      [] o[1] \in {"CTRL_DUP", "MANC", "Unaligned"} -> {}

ReadStops(o) == o[1] = "RA" /\ o[2] \div 2 >= 15

(* e82545_write and e82545_read, on the register BAR and on the window of   *)
(* the I/O BAR.  Accesses of a size other than 4 are dropped, but for reads *)
(* of IODATA.  Of a read only the assertion can change anything here.       *)
WriteMem(o, size, v) ==
    /\ IF size = 4 THEN WriteRegister(o, v)
                   ELSE UNCHANGED <<reg, uni, table, mdic, rx, tx, halted, moved>>
    /\ UNCHANGED <<guest, io_addr>>

WriteIoAddr(o, size) ==
    /\ io_addr' = IF size = 4 THEN o ELSE io_addr
    /\ UNCHANGED <<guest, reg, uni, table, mdic, rx, tx, halted, moved>>

WriteIoData(size, v) ==
    /\ IF size = 4 /\ io_addr[1] # "Beyond"
         THEN WriteRegister(io_addr, v)
         ELSE UNCHANGED <<reg, uni, table, mdic, rx, tx, halted, moved>>
    /\ UNCHANGED <<guest, io_addr>>

ReadMem(o, size) ==
    /\ size = 4 /\ ReadStops(o)
    /\ Halt /\ UNCHANGED <<guest, io_addr>>

ReadIoData == ReadStops(io_addr) /\ Halt /\ UNCHANGED <<guest, io_addr>>

Sizes == {1, 4}

Next ==
    /\ ~ halted
    /\ \E size \in Sizes :
        \/ \E o \in guest.regs, v \in guest.values : WriteMem(o, size, v)
        \/ \E o \in guest.regs \cup {<<"Beyond", 0>>} : WriteIoAddr(o, size)
        \/ \E v \in guest.values : WriteIoData(size, v)
        \/ \E o \in guest.regs : ReadMem(o, size)
        \/ ReadIoData

Spec == Init /\ [][Next]_vars

-----------------------------------------------------------------------------
(* The flags the data path tests are the enable bits the guest reads, though*)
(* one control register is always saved and the other only on a change; and *)
(* the descriptors a running receiver uses are where the guest's registers  *)
(* say, as only RDBAL can be written under it.                              *)
EnabledAsRead ==
    /\ rx.enabled <=> EN \in reg["RCTL"]
    /\ tx.enabled <=> EN \in reg["TCTL"]
RxRingIsCurrent == rx.enabled => rx.rdba = <<reg["RDBAH"], reg["RDBAL"]>>
NoRingWhenOff == ~ tx.enabled => tx.tdba = None

(* The transmitter's ring is where the registers say, unless the guest wrote*)
(* TDBAH under it and has not written TDBAL or switched it since.           *)
TxRingIsCurrent ==
    tx.enabled /\ ~ moved => tx.tdba = <<reg["TDBAH"], reg["TDBAL"]>>

(* The derived state of receiver and transmitter agrees with the registers  *)
(* the guest reads, in every order of writes, disables and resets.          *)
IInv == TypeOK /\ EnabledAsRead /\ RxRingIsCurrent /\ NoRingWhenOff /\ TxRingIsCurrent

WrittenAs(o) == IF o[1] = "CTRL" THEN {o, <<"CTRL_DUP", 0>>} ELSE {o}

ChangedByOwnWrite(o) ==
    \E p \in WrittenAs(o) \cup ({"CTRL", "CTRL_DUP"} \X {0}), v \in guest.values :
        /\ p \in WrittenAs(o) \/ RST \in v
        /\ WriteMem(p, 4, v) \/ (io_addr = p /\ WriteIoData(4, v))

(* What the guest reads in a register changes only by a write of that       *)
(* register, directly or through the I/O window, and by a reset: the halves *)
(* of an address filter share an entry, the table indices and the window's  *)
(* offset are computed.                                                     *)
OnlyOwnWrite ==
    [][\A o \in guest.regs :
          ReadRegister(o)' # ReadRegister(o) => ChangedByOwnWrite(o)]_vars
===============================================================================
