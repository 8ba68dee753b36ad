------------------------------- MODULE PciLintr -------------------------------
(***************************************************************************)
(* The legacy interrupt pin of one emulated PCI function                   *)
(* (bhyve/pci_emul.c, struct pci_devinst.pi_lintr) and the way it reaches   *)
(* the guest: pci_irq_assert writes the guest's PLIC pending register once, *)
(* pci_irq_deassert does nothing (bhyve/bhyve_support.c).  The pin is a     *)
(* level inside the device model and an edge outside of it.                 *)
(***************************************************************************)

VARIABLES
    lintr,        \* pi_lintr.state
    intxdis,      \* PCIM_CMD_INTxDIS of the command register
    msi_enabled,  \* pi_msi.enabled (no device here enables MSI-X)
    plic          \* the interrupt is pending in the guest's PLIC

lintrVars == <<lintr, intxdis, msi_enabled, plic>>

LintrState == {"IDLE", "ASSERTED", "PENDING"}

LintrTypeOK ==
    /\ lintr \in LintrState
    /\ intxdis \in BOOLEAN
    /\ msi_enabled \in BOOLEAN
    /\ plic \in BOOLEAN

LintrInit ==
    /\ lintr = "IDLE"
    /\ intxdis = FALSE
    /\ msi_enabled = FALSE
    /\ plic = FALSE

pci_lintr_permitted == ~ (msi_enabled \/ intxdis)

-----------------------------------------------------------------------------
(* What a device calls.  A pin that is not IDLE is left as it is: it is     *)
(* already asserted, or waits for the guest to permit INTx again.           *)
pci_lintr_assert ==
    /\ lintr' = IF lintr = "IDLE"
                  THEN IF pci_lintr_permitted THEN "ASSERTED" ELSE "PENDING"
                  ELSE lintr
    /\ plic' = (plic \/ (lintr = "IDLE" /\ pci_lintr_permitted))
    /\ UNCHANGED <<intxdis, msi_enabled>>

(* pci_irq_deassert is empty: what is pending in the PLIC stays pending.    *)
pci_lintr_deassert ==
    /\ lintr' = "IDLE"
    /\ UNCHANGED <<plic, intxdis, msi_enabled>>

-----------------------------------------------------------------------------
(* The guest's configuration writes end in pci_lintr_update, which reads    *)
(* the permission they have just changed.                                   *)
UpdateWithoutEdge ==   \* mutant: the pin is asserted again, the PLIC not told
    LET permitted == pci_lintr_permitted' IN
    /\ lintr' = IF lintr = "ASSERTED" /\ ~ permitted THEN "PENDING"
                ELSE IF lintr = "PENDING" /\ permitted THEN "ASSERTED"
                ELSE lintr
    /\ plic' = plic

pci_lintr_update ==
    LET permitted == pci_lintr_permitted' IN
    /\ lintr' = IF lintr = "ASSERTED" /\ ~ permitted THEN "PENDING"
                ELSE IF lintr = "PENDING" /\ permitted THEN "ASSERTED"
                ELSE lintr
    /\ plic' = (plic \/ (lintr = "PENDING" /\ permitted))

(* pci_emul_cmdsts_write, as far as INTx is concerned.                      *)
CommandWrite(dis) ==
    /\ intxdis' = dis
    /\ UNCHANGED msi_enabled
    /\ pci_lintr_update

(* msicap_cfgwrite on the message control register.                         *)
MsiControlWrite(en) ==
    /\ msi_enabled' = en
    /\ UNCHANGED intxdis
    /\ pci_lintr_update

(* The guest claims the interrupt at its PLIC (external).                   *)
PlicClaim ==
    /\ plic
    /\ plic' = FALSE
    /\ UNCHANGED <<lintr, intxdis, msi_enabled>>
===============================================================================
