------------------------------- MODULE AhciIntr -------------------------------
(***************************************************************************)
(* Interrupts of the emulated AHCI controller (bhyve/pci_ahci.c): the ports' *)
(* PxIS and PxIE, the global IS and GHC.IE, and the legacy pin or the MSI    *)
(* messages they drive.  The ports' events come from the command engine,    *)
(* between any two register accesses.                                       *)
(***************************************************************************)
EXTENDS PciLintr, Naturals

CONSTANTS
    Ports,      \* number of ports, sc->ports
    Causes,     \* bits of PxIS and PxIE
    MsgCounts   \* values the guest gives pi_msi.maxmsgnum, 0 for MSI off

ASSUME AhciIntrAssumption ==
    /\ Ports \in Nat \ {0}
    /\ MsgCounts \subseteq Nat

Port == 0 .. Ports - 1

VARIABLES
    PxIS, PxIE,   \* port[i].is, port[i].ie
    IS,           \* sc->is, the set of ports whose bit is set
    IE,           \* AHCI_GHC_IE of sc->ghc
    sc_lintr,     \* sc->lintr
    nmsg,         \* pci_msi_maxmsgnum
    isr           \* external: where the guest's handler is

ahciVars == <<PxIS, PxIE, IS, IE, sc_lintr, nmsg>>
vars == <<lintrVars, ahciVars, isr>>

(* The handler: what it has read of IS, the ports it still has to look at,  *)
(* and the PxIS value it is about to write back.                            *)
Isr == [at : {"idle", "claimed", "port", "clear"}, seen : SUBSET Port,
        todo : SUBSET Port, val : SUBSET Causes]
IsrIdle == [at |-> "idle", seen |-> {}, todo |-> {}, val |-> {}]

TypeOK ==
    /\ LintrTypeOK
    /\ PxIS \in [Port -> SUBSET Causes]
    /\ PxIE \in [Port -> SUBSET Causes]
    /\ IS \in SUBSET Port
    /\ IE \in BOOLEAN
    /\ sc_lintr \in BOOLEAN
    /\ nmsg \in MsgCounts \cup {0}
    /\ isr \in Isr

(* pci_ahci_init ends in ahci_reset.                                        *)
Init ==
    /\ LintrInit
    /\ PxIS = [p \in Port |-> {}] /\ PxIE = [p \in Port |-> {}]
    /\ IS = {} /\ IE = FALSE
    /\ sc_lintr = FALSE
    /\ nmsg = 0
    /\ isr = IsrIdle

-----------------------------------------------------------------------------
LintrOn ==
    IF sc_lintr THEN UNCHANGED <<sc_lintr, lintrVars>>
                ELSE sc_lintr' = TRUE /\ pci_lintr_assert

LintrOff ==
    IF sc_lintr THEN sc_lintr' = FALSE /\ pci_lintr_deassert
                ELSE UNCHANGED <<sc_lintr, lintrVars>>

GenerateNeverDrops(is, ie) ==   \* mutant: the pin stays up
    LET now == is \cup {p \in Port : PxIS[p] \cap PxIE[p] # {}} IN
    /\ IS' = now
    /\ IF now # {} /\ ie /\ nmsg = 0 THEN LintrOn
                                     ELSE UNCHANGED <<sc_lintr, lintrVars>>

(* ahci_generate_intr with is and ie the written IS and GHC.IE.  In MSI     *)
(* mode it calls pci_generate_msi, whose body is compiled out.              *)
GenerateIntr(is, ie) ==
    LET now == is \cup {p \in Port : PxIS[p] \cap PxIE[p] # {}} IN
    /\ IS' = now
    /\ IF now = {} \/ ~ ie THEN LintrOff
       ELSE IF nmsg = 0 THEN LintrOn
       ELSE UNCHANGED <<sc_lintr, lintrVars>>

PortIntrNeverNew(p) ==   \* mutant: sets IS and leaves the pin to IS writes
    /\ IS' = IF PxIS'[p] \cap PxIE'[p] = {} THEN IS ELSE IS \cup {p}
    /\ UNCHANGED <<sc_lintr, lintrVars>>

(* ahci_port_intr, after PxIS or PxIE has got its new value.  A port with a *)
(* message of its own only sets its bit, as pci_generate_msi does nothing;  *)
(* any other acts when its bit was clear.                                   *)
PortIntr(p) ==
    IF PxIS'[p] \cap PxIE'[p] = {}
      THEN UNCHANGED <<IS, sc_lintr, lintrVars>>
      ELSE /\ IS' = IS \cup {p}
           /\ IF nmsg = 0 /\ p \notin IS /\ IE
                THEN LintrOn
                ELSE UNCHANGED <<sc_lintr, lintrVars>>

-----------------------------------------------------------------------------
(* The end of ahci_write_fis: a port has something to tell.                 *)
PortEvent(p, irq) ==
    /\ irq \ PxIS[p] # {}
    /\ PxIS' = [PxIS EXCEPT ![p] = @ \cup irq]
    /\ UNCHANGED <<PxIE, IE, nmsg, isr>>
    /\ PortIntr(p)

(* Register writes: PxIS (write one to clear), PxIE, IS, GHC.               *)
ClearPxIS(p, val) ==
    /\ PxIS' = [PxIS EXCEPT ![p] = @ \ val]
    /\ UNCHANGED <<PxIE, IE, nmsg>>
    /\ PortIntr(p)

WritePxIE(p, val) ==
    /\ PxIE' = [PxIE EXCEPT ![p] = val]
    /\ UNCHANGED <<PxIS, IE, nmsg, isr>>
    /\ PortIntr(p)

ClearIS(val) ==
    /\ GenerateIntr(IS \ val, IE)
    /\ UNCHANGED <<PxIS, PxIE, IE, nmsg>>

WriteGHC(ie) ==
    /\ IE' = ie
    /\ GenerateIntr(IS, ie)
    /\ UNCHANGED <<PxIS, PxIE, nmsg, isr>>

ResetKeepsFlag ==   \* mutant: ahci_reset leaves sc->lintr set
    /\ IF sc_lintr THEN pci_lintr_deassert ELSE UNCHANGED lintrVars
    /\ IE' = FALSE /\ IS' = {}
    /\ PxIS' = [p \in Port |-> {}] /\ PxIE' = [p \in Port |-> {}]
    /\ UNCHANGED <<nmsg, isr, sc_lintr>>

(* GHC.HR: ahci_reset.                                                      *)
HbaReset ==
    /\ LintrOff
    /\ IE' = FALSE /\ IS' = {}
    /\ PxIS' = [p \in Port |-> {}] /\ PxIE' = [p \in Port |-> {}]
    /\ UNCHANGED <<nmsg, isr>>

(* The guest's PCI configuration writes.                                    *)
GuestCommand(dis) == CommandWrite(dis) /\ UNCHANGED <<ahciVars, isr>>

GuestMsi(n) ==
    /\ MsiControlWrite(n > 0)
    /\ nmsg' = n
    /\ UNCHANGED <<PxIS, PxIE, IS, IE, sc_lintr, isr>>

-----------------------------------------------------------------------------
(* The guest's handler (external): claim, read IS, for every port read PxIS *)
(* and write it back, then write IS back.                                   *)
IsrEnter ==
    /\ isr.at = "idle"
    /\ PlicClaim
    /\ isr' = [IsrIdle EXCEPT !.at = "claimed"]
    /\ UNCHANGED ahciVars

IsrReadIS ==
    /\ isr.at = "claimed"
    /\ isr' = IF IS = {} THEN IsrIdle
              ELSE [IsrIdle EXCEPT !.at = "port", !.seen = IS, !.todo = IS]
    /\ UNCHANGED <<ahciVars, lintrVars>>

(* The port whose turn it is: the handler goes through them in order.       *)
Turn(p) == p \in isr.todo /\ \A q \in isr.todo : p <= q

IsrReadPxIS(p) ==
    /\ isr.at = "port" /\ Turn(p)
    /\ isr' = [isr EXCEPT !.at = "clear", !.val = PxIS[p]]
    /\ UNCHANGED <<ahciVars, lintrVars>>

IsrClearPxIS(p) ==
    /\ isr.at = "clear" /\ Turn(p)
    /\ ClearPxIS(p, isr.val)
    /\ isr' = [isr EXCEPT !.at = "port", !.todo = @ \ {p}, !.val = {}]

(* The handler looks at IS again: an event between its PxIS write and this  *)
(* one leaves the pin up, and the PLIC only hears of the pin going up, so a *)
(* handler that returned here would not be called for that event.           *)
IsrClearIS ==
    /\ isr.at = "port" /\ isr.todo = {}
    /\ ClearIS(isr.seen)
    /\ isr' = [IsrIdle EXCEPT !.at = "claimed"]

-----------------------------------------------------------------------------
Next ==
    \/ \E p \in Port, irq \in SUBSET Causes \ {{}} : PortEvent(p, irq)
    \/ \E p \in Port, val \in SUBSET Causes : WritePxIE(p, val)
    \/ \E ie \in BOOLEAN : WriteGHC(ie)
    \/ HbaReset
    \/ \E dis \in BOOLEAN : GuestCommand(dis)
    \/ \E n \in MsgCounts : GuestMsi(n)
    \/ IsrEnter
    \/ IsrReadIS
    \/ \E p \in Port : IsrReadPxIS(p)
    \/ \E p \in Port : IsrClearPxIS(p)
    \/ IsrClearIS

Spec == Init /\ [][Next]_vars

(* The guest takes a pending interrupt and its handler runs to its end.     *)
FairSpec ==
    /\ Spec
    /\ WF_vars(IsrEnter) /\ WF_vars(IsrReadIS) /\ WF_vars(IsrClearIS)
    /\ WF_vars(\E p \in Port : IsrReadPxIS(p) \/ IsrClearPxIS(p))

-----------------------------------------------------------------------------
Enabled(p) == PxIS[p] \cap PxIE[p] # {}

(* The global IS never misses a port that has an enabled cause, whatever    *)
(* order PxIS, PxIE and IS are written in.                                  *)
GlobalCoversPorts == \A p \in Port : Enabled(p) => p \in IS

(* sc->lintr and the state of the pin tell the same story.                  *)
FlagIsPin == sc_lintr <=> lintr # "IDLE"

(* The three layers agree: port, controller and pin.                        *)
IInv == TypeOK /\ GlobalCoversPorts /\ FlagIsPin

(* With MSI off, a set and enabled IS keeps the pin up; only turning MSI    *)
(* off, which does not look at IS again, can leave it down.                 *)
PinUp == IS # {} /\ IE /\ nmsg = 0 => sc_lintr
PinStaysUp == [][PinUp => PinUp' \/ \E n \in MsgCounts : GuestMsi(n)]_vars

(* Every enabled cause of every port is eventually cleared or masked by the *)
(* guest, whatever other causes keep coming, unless interrupts are switched *)
(* off, or MSI was on when it came.                                         *)
CauseServed ==
    \A p \in Port, c \in Causes :
        c \in PxIS[p] \cap PxIE[p]
            ~> (c \notin PxIS[p] \cap PxIE[p] \/ ~ IE \/ ~ pci_lintr_permitted \/ ~ PinUp)
===============================================================================
