-------------------------------- MODULE PciCfg --------------------------------
(***************************************************************************)
(* The configuration space of the PCI functions (bhyve/pci_emul.c): the     *)
(* dispatch of pci_cfgrw to the BARs (module PciBar), to the command        *)
(* register, which the BARs and the interrupt pin (module PciLintr) share,  *)
(* and to the capability list, here the MSI capability of one function.     *)
(*                                                                         *)
(* Capability space is kept byte by byte, a byte as the set of its 1 bits,  *)
(* since a guest may write it in units of 1, 2 and 4 bytes.                 *)
(***************************************************************************)
EXTENDS PciBar, PciLintr

CONSTANTS
    MsiDev,    \* the function with the MSI capability and the pin
    Mmc,       \* bits of the message control's multiple message capable field
    Guests,    \* kinds of guest: "bars", "caps"
    Accesses,  \* the second kind's writes of the capability: offset and size
    Values     \* the 32-bit values it writes

Byte == SUBSET (0 .. 7)
CapOffsets == 0 .. 15   \* from CAP_START_OFFSET; 14 bytes, rounded up to dwords

ASSUME PciCfgAssumption ==
    /\ MsiDev \in Devs
    /\ Mmc \subseteq 1 .. 3
    /\ Guests \subseteq {"bars", "caps"}
    /\ Accesses \subseteq CapOffsets \X {1, 2, 4}
    /\ Values \subseteq [0 .. 3 -> Byte]

VARIABLES
    guest,    \* the kind of guest
    cap,      \* pi_cfgdata from CAP_START_OFFSET to pi_capend
    msi,      \* pi_msi but for enabled, which is PciLintr's msi_enabled
    bytewise, \* history: the guest has written message control by single bytes
    late      \* history: address or data were written after message control

capVars == <<cap, msi, bytewise, late>>
cfgVars == <<barVars, lintrVars, guest, capVars>>

PCIY_MSI == {0, 2}
MSI_ENABLE == 0
MME == {4, 5, 6}
MSI_64BIT == 7

(* pci_populate_msicap: struct msicap has 14 bytes.                         *)
Msicap == [i \in 0 .. 13 |-> CASE i = 0 -> PCIY_MSI
                               [] i = 2 -> Mmc \cup {MSI_64BIT}
                               [] OTHER -> {}]

(* pci_emul_add_capability, for the first one of a function: it is the end  *)
(* of the list.                                                             *)
AddCapability(capdata) ==
    [i \in CapOffsets |-> IF i \in DOMAIN capdata \ {1} THEN capdata[i] ELSE {}]

AddMsicap == AddCapability(Msicap)

NoMsi == [addr |-> <<{}, {}, {}, {}>>, data |-> <<{}, {}>>, max |-> 0]

CfgInit ==
    /\ BarInit /\ LintrInit
    /\ guest \in Guests
    /\ cap = AddMsicap
    /\ msi = NoMsi
    /\ bytewise = FALSE /\ late = FALSE

-----------------------------------------------------------------------------
CfgDword(c, i) == <<c[i], c[i + 1], c[i + 2], c[i + 3]>>
CfgWord(c, i) == <<c[i], c[i + 1]>>

(* CFGWRITE.                                                                *)
Put(off, bytes, v) ==
    [i \in CapOffsets |-> IF i \in off .. off + bytes - 1 THEN v[i - off] ELSE cap[i]]

MaxMsgnum(ctrl) ==   \* 1 << MME
    (IF 4 \in ctrl THEN 2 ELSE 1) * (IF 5 \in ctrl THEN 4 ELSE 1)
        * (IF 6 \in ctrl THEN 16 ELSE 1)

MsiDataAt8(ctrl) == 8   \* mutant: the capability is taken for a 32-bit one

MsiDataAt(ctrl) == IF MSI_64BIT \in ctrl THEN 12 ELSE 8

(* msicap_cfgwrite.  Only a write of message control as a whole keeps its   *)
(* read-only bits and takes the address and the data over.                  *)
MsicapCfgwrite(off, bytes, v) ==
    IF off = 2 /\ bytes = 2
    THEN LET rw == MME \cup {MSI_ENABLE}
             ctrl == (cap[2] \ rw) \cup (v[0] \cap rw)
         IN /\ cap' = [cap EXCEPT ![2] = ctrl]
            /\ msi' = IF MSI_ENABLE \in ctrl
                        THEN [addr |-> CfgDword(cap, 4),
                              data |-> CfgWord(cap, MsiDataAt(ctrl)),
                              max |-> MaxMsgnum(ctrl)]
                        ELSE [msi EXCEPT !.max = 0]
            /\ MsiControlWrite(MSI_ENABLE \in ctrl)
            /\ late' = FALSE /\ UNCHANGED bytewise
    ELSE /\ cap' = Put(off, bytes, v)
         /\ bytewise' = (bytewise \/ off \in {2, 3})
         /\ late' = (late \/ off >= 4)
         /\ UNCHANGED <<msi, lintrVars>>

CapwriteUntrimmed(off, bytes, v) ==   \* mutant: the id and the link are written
    IF off \in {0, 1} /\ bytes # 4 THEN UNCHANGED <<capVars, lintrVars>>
    ELSE MsicapCfgwrite(off, bytes, v)

(* pci_emul_capwrite.  The walk along the list finds its one element: by    *)
(* CapsLinked below its link is 0 and its id is MSI's.                      *)
Capwrite(off, bytes, v) ==
    IF off = 0 /\ bytes = 4
      THEN MsicapCfgwrite(2, 2, [i \in 0 .. 1 |-> v[i + 2]])
    ELSE IF off \in {0, 1} THEN UNCHANGED <<capVars, lintrVars>>
    ELSE MsicapCfgwrite(off, bytes, v)

-----------------------------------------------------------------------------
(* A write to the capability, aligned to its size: pci_cfgrw drops others.  *)
WriteCap(off, bytes, v) ==
    /\ Configurable
    /\ off % bytes = 0
    /\ Capwrite(off, bytes, v)
    /\ UNCHANGED <<barVars, guest>>

(* pci_emul_cmdsts_write with its byte lanes: MEMEN is in byte 0, INTxDIS   *)
(* in byte 1, and the other lanes are read-only.                            *)
CmdstsWrite(lane, bytes, v) ==
    LET mem == IF lane = 0 THEN 1 \in v[0] ELSE memen[MsiDev]
        dis == IF lane <= 1 /\ 1 < lane + bytes THEN 2 \in v[1 - lane] ELSE intxdis
    IN /\ Configurable
       /\ lane % bytes = 0
       /\ \/ mem # memen[MsiDev] /\ WriteCommand(MsiDev, mem)
          \/ mem = memen[MsiDev] /\ UNCHANGED barVars
       /\ CommandWrite(dis)
       /\ UNCHANGED <<guest, capVars>>

(* The device side: the pin goes up and down, the PLIC is claimed.          *)
Device ==
    /\ Booted
    /\ pci_lintr_assert \/ pci_lintr_deassert \/ PlicClaim
    /\ UNCHANGED <<barVars, guest, capVars>>

Bars ==
    /\ Boot \/ (guest = "bars" /\ BarNext)
    /\ UNCHANGED <<lintrVars, guest, capVars>>

CfgNext ==
    \/ Bars
    \/ /\ guest = "caps"
       /\ \/ \E a \in Accesses, v \in Values : WriteCap(a[1], a[2], v)
          \/ \E lane \in 0 .. 3, bytes \in {1, 2, 4}, v \in Values :
                CmdstsWrite(lane, bytes, v)
          \/ Device

CfgSpec == CfgInit /\ [][CfgNext]_cfgVars

-----------------------------------------------------------------------------
CfgTypeOK ==
    /\ LintrTypeOK
    /\ guest \in Guests
    /\ cap \in [CapOffsets -> Byte]
    /\ msi \in [addr : Seq(Byte), data : Seq(Byte), max : Nat]
    /\ bytewise \in BOOLEAN /\ late \in BOOLEAN

(* The capability list a guest walks is the one that was built: no write of *)
(* any size changes an id or a link.                                        *)
CapsLinked == cap[0] = AddMsicap[0] /\ cap[1] = AddMsicap[1]

(* The pin is up, or held back, just as INTx is permitted, whichever of the *)
(* command register's bytes and of message control's forms it came by.      *)
PinAsPermitted ==
    /\ lintr = "ASSERTED" => pci_lintr_permitted
    /\ lintr = "PENDING" => ~ pci_lintr_permitted

(* The registry with its cache, the capability list and the pin stay        *)
(* consistent under any order and size of configuration writes.             *)
CfgInv == CfgTypeOK /\ BarInv /\ CapsLinked /\ PinAsPermitted

(* As long as the guest writes message control as one word, the read-only   *)
(* fields stay, the device sees MSI enabled when the guest reads it so, and *)
(* interrupt messages go where the capability says, unless the guest has    *)
(* rewritten that since.                                                    *)
MsiAsConfigured ==
    ~ bytewise =>
        /\ cap[2] \ (MME \cup {MSI_ENABLE}) = Mmc \cup {MSI_64BIT} /\ cap[3] = {}
        /\ msi_enabled <=> MSI_ENABLE \in cap[2]
        /\ msi_enabled /\ ~ late =>
              msi.addr = CfgDword(cap, 4) /\ msi.data = CfgWord(cap, 12)
===============================================================================
