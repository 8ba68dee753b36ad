----------------------------- MODULE E82545Eeprom -----------------------------
(***************************************************************************)
(* The serial EEPROM of the e1000 (bhyve/pci_e82545.c): the guest drives    *)
(* the lines SK, CS and DI and reads DO in the EECD register, and a state   *)
(* machine behind it takes a step on every rising edge of SK.               *)
(*                                                                         *)
(* A shift register is a function from bit positions to bits, 1 the most    *)
(* significant; an address is a function of that kind too.  The EEPROM has  *)
(* as many words as there are addresses, so the code's checks of an address *)
(* against E82545_NVM_EEPROM_SIZE never fail and are left out.              *)
(***************************************************************************)
EXTENDS Naturals, Sequences

CONSTANTS
    AddrBits, DataBits,   \* E82545_NVM_ADDR_BITS, E82545_NVM_DATA_BITS
    Fixed,                \* the words init_eeprom writes: MAC address, ids
    NVM_CHECKSUM_REG,     \* the word that makes the sum
    NVM_SUM,              \* the sum of an image the guest's driver accepts
    Drives                \* the lines the guest writes; REQ only drives GNT

OpBits == 3
OpAddrBits == OpBits + AddrBits
READ == <<1, 1, 0>>
WRITE == <<1, 0, 1>>

Bit == {0, 1}
Addr == [1 .. AddrBits -> Bit]
Word == [1 .. DataBits -> Bit]
Lines == {"SK", "CS", "DI", "REQ"}   \* the bits of EECD the guest drives

Pow2(n) == LET p[k \in 0 .. n] == IF k = 0 THEN 1 ELSE 2 * p[k - 1] IN p[n]

(* The number that w holds in n bits, and the n bits of the number x.       *)
Value(w, n) == LET v[i \in 0 .. n] == IF i = 0 THEN 0 ELSE 2 * v[i - 1] + w[i] IN v[n]

BitsOf(x, n) ==
    LET shr[k \in 0 .. n] == IF k = 0 THEN x ELSE shr[k - 1] \div 2
    IN [i \in 1 .. n |-> IF shr[n - i] % 2 = 1 THEN 1 ELSE 0]

(* The word number i of eeprom_data.                                        *)
AddrAt(i) == BitsOf(i, AddrBits)
ChecksumReg == AddrAt(NVM_CHECKSUM_REG)

ASSUME E82545EepromAssumption ==
    /\ AddrBits \in Nat \ {0} /\ DataBits \in Nat \ {0}
    /\ NVM_CHECKSUM_REG \in 0 .. Pow2(AddrBits) - 1
    /\ NVM_SUM \in 0 .. Pow2(DataBits) - 1
    /\ Drives \subseteq Lines
    /\ DOMAIN Fixed \subseteq Addr \ {ChecksumReg}
    /\ \A a \in DOMAIN Fixed : Fixed[a] \in Word

VARIABLES
    eecd,     \* eeprom_control, its changing bits: Lines, GNT and DO
    mode,     \* nvm_mode
    bits,     \* nvm_bits, how many are still to come or to go
    opaddr,   \* nvm_opaddr
    data,     \* nvm_data
    words,    \* eeprom_data
    clocked,  \* history: the bits of the guest's command so far
    aborted,  \* history: the guest has dropped CS inside a command
    fresh     \* history: no clock since the last reset

nvm == <<mode, bits, opaddr, data>>
hist == <<clocked, aborted, fresh>>
vars == <<eecd, nvm, words, hist>>

TypeOK ==
    /\ eecd \in SUBSET (Lines \cup {"GNT", "DO"})
    /\ mode \in {"OPADDR", "DATAIN", "DATAOUT"}
    /\ bits \in 1 .. IF mode = "OPADDR" THEN OpAddrBits ELSE DataBits
    /\ opaddr \in [1 .. OpAddrBits -> Bit]
    /\ data \in Word
    /\ words \in [Addr -> Word]
    /\ fresh \in BOOLEAN

-----------------------------------------------------------------------------
(* The first n words, added up in a word.                                   *)
Sum(w, n) ==
    LET sum[k \in 0 .. n] ==
          IF k = 0 THEN 0
          ELSE (sum[k - 1] + Value(w[AddrAt(k - 1)], DataBits)) % Pow2(DataBits)
    IN sum[n]

(* The word that makes up what is missing.                                  *)
Checksum(sum) == BitsOf((NVM_SUM + Pow2(DataBits) - sum) % Pow2(DataBits), DataBits)

(* The image with the words e82545_init_eeprom writes.                      *)
Written(w) == [a \in Addr |-> IF a \in DOMAIN Fixed THEN Fixed[a] ELSE w[a]]

InitEepromSumsAll(w) ==   \* mutant: the loop runs one word too far
    [Written(w) EXCEPT ![ChecksumReg] = Checksum(Sum(Written(w), NVM_CHECKSUM_REG + 1))]

(* e82545_init_eeprom: the words it does not write keep what they hold.     *)
InitEeprom(w) ==
    [Written(w) EXCEPT ![ChecksumReg] = Checksum(Sum(Written(w), NVM_CHECKSUM_REG))]

Zeros(n) == [i \in 1 .. n |-> 0]

(* Back to opcode mode.                                                     *)
OpcodeMode ==
    /\ mode' = "OPADDR"
    /\ bits' = OpAddrBits
    /\ opaddr' = Zeros(OpAddrBits)

(* e82545_init ends in e82545_reset.                                        *)
Init ==
    /\ eecd = {}
    /\ mode = "OPADDR" /\ bits = OpAddrBits /\ opaddr = Zeros(OpAddrBits)
    /\ data = Zeros(DataBits)
    /\ words = InitEeprom([a \in Addr |-> Zeros(DataBits)])
    /\ clocked = <<>> /\ aborted = FALSE /\ fresh = TRUE

-----------------------------------------------------------------------------
Shifted(r, n, b) == [i \in 1 .. n |-> IF i < n THEN r[i + 1] ELSE b]

Op(r) == [i \in 1 .. OpBits |-> r[i]]
AddrOf(r) == [i \in 1 .. AddrBits |-> r[OpBits + i]]

ShiftOutLate(lines) ==   \* mutant: shifts before it looks at the top bit
    /\ mode = "DATAOUT"
    /\ data' = Shifted(data, DataBits, 0)
    /\ eecd' = lines \cup (IF data'[1] = 1 THEN {"DO"} ELSE {})
    /\ IF bits = 1 THEN OpcodeMode
                   ELSE bits' = bits - 1 /\ UNCHANGED <<mode, opaddr>>
    /\ UNCHANGED words

(* The three branches of e82545_eecd_strobe, with the lines as just written. *)
ShiftOut(lines) ==
    /\ mode = "DATAOUT"
    /\ eecd' = lines \cup (IF data[1] = 1 THEN {"DO"} ELSE {})
    /\ data' = Shifted(data, DataBits, 0)
    /\ IF bits = 1 THEN OpcodeMode
                   ELSE bits' = bits - 1 /\ UNCHANGED <<mode, opaddr>>
    /\ UNCHANGED words

ShiftIn(b) ==
    /\ mode = "DATAIN"
    /\ data' = Shifted(data, DataBits, b)
    /\ IF bits = 1
         THEN /\ OpcodeMode
              /\ words' = IF Op(opaddr) = WRITE
                            THEN [words EXCEPT ![AddrOf(opaddr)] = data'] ELSE words
         ELSE bits' = bits - 1 /\ UNCHANGED <<mode, opaddr, words>>

ShiftCommandStale(b) ==   \* mutant: the word is addressed before the last bit is in
    LET r == Shifted(opaddr, OpAddrBits, b) IN
    /\ mode = "OPADDR"
    /\ IF bits > 1
         THEN bits' = bits - 1 /\ opaddr' = r /\ UNCHANGED <<mode, data>>
       ELSE IF Op(r) \in {READ, WRITE}
         THEN /\ mode' = IF Op(r) = READ THEN "DATAOUT" ELSE "DATAIN"
              /\ bits' = DataBits
              /\ data' = IF Op(r) = READ THEN words[AddrOf(opaddr)] ELSE Zeros(DataBits)
              /\ opaddr' = r
       ELSE OpcodeMode /\ UNCHANGED data
    /\ UNCHANGED words

ShiftCommand(b) ==
    LET r == Shifted(opaddr, OpAddrBits, b) IN
    /\ mode = "OPADDR"
    /\ IF bits > 1
         THEN bits' = bits - 1 /\ opaddr' = r /\ UNCHANGED <<mode, data>>
       ELSE IF Op(r) \in {READ, WRITE}
         THEN /\ mode' = IF Op(r) = READ THEN "DATAOUT" ELSE "DATAIN"
              /\ bits' = DataBits
              /\ data' = IF Op(r) = READ THEN words[AddrOf(r)] ELSE Zeros(DataBits)
              /\ opaddr' = r
       ELSE OpcodeMode /\ UNCHANGED data   \* EWEN, ERASE and unknown ones
    /\ UNCHANGED words

-----------------------------------------------------------------------------
(* How many clocks the guest's command takes, from the bits of it it sent.  *)
CommandEnds(c) ==
    /\ Len(c) >= OpAddrBits
    /\ Op(c) \in {READ, WRITE} => Len(c) = OpAddrBits + DataBits

(* The guest counts its clocks from where it selected the chip or ended a   *)
(* command.  What it puts on DI while it reads does not matter.             *)
Count(cs, strobe, b) ==
    LET read == Len(clocked) >= OpAddrBits /\ Op(clocked) = READ
        c == Append(clocked, IF read THEN 0 ELSE b)
    IN /\ aborted' = (aborted \/ (~ cs /\ clocked # <<>>))
       /\ clocked' = IF aborted' \/ (strobe /\ CommandEnds(c)) THEN <<>>
                     ELSE IF strobe THEN c ELSE clocked
       /\ fresh' = (fresh /\ ~ strobe)

StrobeAnyEdge(val) == "SK" \in val /\ "SK" \notin eecd   \* mutant: CS is not looked at

(* A rising edge of SK with the chip selected.                              *)
Strobe(val) == "SK" \in val /\ "SK" \notin eecd /\ "CS" \in val

(* A write of EECD.  GNT follows REQ.                                       *)
WriteEECD(val) ==
    LET gnt == IF "REQ" \in val THEN {"GNT"} ELSE {}
        lines == val \cup gnt \cup (eecd \cap {"DO"})
        b == IF "DI" \in val THEN 1 ELSE 0
    IN /\ IF Strobe(val)
            THEN \/ ShiftOut(lines \ {"DO"})
                 \/ eecd' = lines /\ ShiftIn(b)
                 \/ eecd' = lines /\ ShiftCommand(b)
            ELSE eecd' = lines /\ UNCHANGED <<nvm, words>>
       /\ Count("CS" \in val, "SK" \in val /\ "SK" \notin eecd /\ "CS" \in val, b)

(* CTRL.RST: e82545_reset.  nvm_data is left alone.                         *)
CtrlReset ==
    /\ OpcodeMode
    /\ eecd' = {}
    /\ words' = InitEeprom(words)
    /\ clocked' = <<>> /\ aborted' = FALSE /\ fresh' = TRUE
    /\ UNCHANGED data

Next ==
    \/ \E val \in SUBSET Drives : WriteEECD(val)
    \/ CtrlReset

Spec == Init /\ [][Next]_vars

-----------------------------------------------------------------------------
(* The command the machine has under way, in the terms of the abstract      *)
(* EEPROM.                                                                  *)
Received == CASE mode = "OPADDR" -> OpAddrBits - bits
              [] mode = "DATAIN" -> OpAddrBits + DataBits - bits
              [] mode = "DATAOUT" -> OpAddrBits

Command ==
    [i \in 1 .. Received |->
        IF mode = "OPADDR" THEN opaddr[bits + i]
        ELSE IF i <= OpAddrBits THEN opaddr[i]
        ELSE data[i - OpAddrBits + bits]]

Sent == IF mode = "DATAOUT" THEN DataBits - bits ELSE 0

Nvm == INSTANCE E82545NvmAbs WITH
          cmd <- Command, sent <- Sent, do <- IF "DO" \in eecd THEN 1 ELSE 0,
          ResetImage <- InitEeprom

(* The machine of e82545_eecd_strobe with its mode, its countdown and its   *)
(* two shift registers is an EEPROM: a write stores exactly the word of its *)
(* command, at its last bit, no other bit changes a word, a read puts the   *)
(* stored word on DO from the top, and a reset restores the image.          *)
ImplementsNvm == Nvm!Spec

(* Why it does: a read has still to send the low bits of the word it        *)
(* addresses, only a read or write gets past the opcode, and fresh bits are *)
(* below zeros.                                                             *)
ReadsTheWord ==
    mode = "DATAOUT" =>
        /\ Op(opaddr) = READ
        /\ \A i \in 1 .. bits : data[i] = words[AddrOf(opaddr)][DataBits - bits + i]
WriteIsDecoded == mode = "DATAIN" => Op(opaddr) = WRITE

(* The state machine's registers fit its mode and the stored words.         *)
IInv == TypeOK /\ ReadsTheWord /\ WriteIsDecoded

(* The machine stays in step with the guest, whatever it does with SK while *)
(* the chip is not selected, and whatever EWEN or unknown command it sends: *)
(* both agree on which bit of which command is next, as long as the guest   *)
(* ends the commands it starts.  (Dropping CS does not end one.)            *)
InStep ==
    ~ aborted => clocked = Command \o Zeros(Sent)

(* A reset leaves an image whose sum the guest's driver accepts, whatever   *)
(* the guest had stored before, the old checksum included.                  *)
SumsAfterReset == [][CtrlReset => Sum(words', NVM_CHECKSUM_REG + 1) = NVM_SUM]_vars
===============================================================================
