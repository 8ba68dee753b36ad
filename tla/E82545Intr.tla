------------------------------ MODULE E82545Intr ------------------------------
(***************************************************************************)
(* The interrupt unit of the emulated Intel 82545 (bhyve/pci_e82545.c):    *)
(* cause register ICR, mask IMS, throttling (ITR and its callout), the      *)
(* "interrupt asserted" flag, and the legacy pin they drive.                *)
(*                                                                         *)
(* A register is a set of causes.  Every handler is one action: a register  *)
(* access runs in dm_request's critical section, the transmit poll runs     *)
(* with interrupts disabled, and reception and the callout are interrupt    *)
(* handlers, so none of them sees another one half done.                    *)
(***************************************************************************)
EXTENDS PciLintr, Naturals

CONSTANTS
    Causes       \* interrupt causes, the bits of ICR and IMS

VARIABLES
    ICR, IMS,       \* esc_ICR, esc_IMS
    ITR,            \* esc_ITR # 0: interrupts are throttled
    irq_asserted,   \* esc_irq_asserted
    mevpitr,        \* esc_mevpitr # NULL: inside a throttling interval
    callouts,       \* how many times mevpitr_callout is queued
    isr             \* external: the guest's handler, between claim and ICR read

intrVars == <<ICR, IMS, ITR, irq_asserted, mevpitr, callouts>>
vars == <<lintrVars, intrVars, isr>>

TypeOK ==
    /\ LintrTypeOK
    /\ ICR \in SUBSET Causes
    /\ IMS \in SUBSET Causes
    /\ ITR \in BOOLEAN
    /\ irq_asserted \in BOOLEAN
    /\ mevpitr \in BOOLEAN
    /\ callouts \in Nat
    /\ isr \in {"idle", "claimed"}

(* e82545_init ends in e82545_reset(sc, 0), which sets ITR to 250.          *)
Init ==
    /\ LintrInit
    /\ ICR = {} /\ IMS = {}
    /\ ITR = TRUE
    /\ irq_asserted = FALSE
    /\ mevpitr = FALSE /\ callouts = 0
    /\ isr = "idle"

-----------------------------------------------------------------------------
(* Raising the interrupt, the last branch of icr_assert and ims_change.     *)

RaiseNoCallout ==   \* mutant: the interval starts and nothing ends it
    /\ irq_asserted' = TRUE
    /\ pci_lintr_assert
    /\ mevpitr' = ITR
    /\ UNCHANGED callouts

RaiseInterrupt ==
    /\ irq_asserted' = TRUE
    /\ pci_lintr_assert
    /\ mevpitr' = ITR
    /\ callouts' = IF ITR THEN callouts + 1 ELSE callouts

RaiseIfNew(new) ==
    IF new # {} /\ ~ mevpitr /\ ~ irq_asserted
      THEN RaiseInterrupt
      ELSE UNCHANGED <<irq_asserted, mevpitr, callouts, lintrVars>>

(* e82545_icr_assert: only bits not yet in ICR can raise the interrupt.     *)
IcrAssert(bits) ==
    /\ ICR' = ICR \cup bits
    /\ RaiseIfNew((bits \ ICR) \cap IMS)
    /\ UNCHANGED <<IMS, ITR>>

ImsChangeNoRaise(bits) ==   \* mutant: unmasking does not look at ICR
    /\ IMS' = IMS \cup bits
    /\ UNCHANGED <<ICR, ITR, irq_asserted, mevpitr, callouts, lintrVars>>

(* e82545_ims_change: unmasking may raise what was asserted while masked.   *)
ImsChange(bits) ==
    /\ IMS' = IMS \cup bits
    /\ RaiseIfNew((bits \cap ICR) \ IMS)
    /\ UNCHANGED <<ICR, ITR>>

IcrDeassertKeepsFlag(left) ==   \* mutant: drops the pin, keeps the flag
    /\ ICR' = left
    /\ IF irq_asserted /\ left \cap IMS = {}
         THEN pci_lintr_deassert
         ELSE UNCHANGED lintrVars
    /\ UNCHANGED <<IMS, ITR, irq_asserted, mevpitr, callouts>>

(* e82545_icr_deassert, with left the new value of ICR.                     *)
IcrDeassert(left) ==
    /\ ICR' = left
    /\ IF irq_asserted /\ left \cap IMS = {}
         THEN irq_asserted' = FALSE /\ pci_lintr_deassert
         ELSE UNCHANGED <<irq_asserted, lintrVars>>
    /\ UNCHANGED <<IMS, ITR, mevpitr, callouts>>

-----------------------------------------------------------------------------
(* Register accesses by the guest's driver.                                 *)

WriteICR(bits) == IcrDeassert(ICR \ bits) /\ UNCHANGED isr
WriteICS(bits) == IcrAssert(bits) /\ UNCHANGED isr
WriteIMS(bits) == ImsChange(bits) /\ UNCHANGED isr
ReadICR        == IcrDeassert({}) /\ UNCHANGED isr

WriteIMC(bits) ==
    /\ IMS' = IMS \ bits
    /\ UNCHANGED <<ICR, ITR, irq_asserted, mevpitr, callouts, lintrVars, isr>>

WriteITR(on) ==
    /\ ITR' = on
    /\ UNCHANGED <<ICR, IMS, irq_asserted, mevpitr, callouts, lintrVars, isr>>

(* The interrupt part of e82545_reset: the pin is deasserted, but neither   *)
(* esc_irq_asserted nor the throttling callout is touched.                  *)
ResetIntr ==
    /\ IF irq_asserted THEN pci_lintr_deassert ELSE UNCHANGED lintrVars
    /\ ICR' = {} /\ IMS' = {}
    /\ ITR' = TRUE
    /\ UNCHANGED <<irq_asserted, mevpitr, callouts>>

CtrlReset == ResetIntr /\ UNCHANGED isr

(* The guest writes the PCI command register.                               *)
GuestCommand(dis) == CommandWrite(dis) /\ UNCHANGED <<intrVars, isr>>

-----------------------------------------------------------------------------
(* Sources of causes inside the device model.                               *)

(* The end of e82545_tx_run or of e82545_tap_callback.                      *)
DataPathCause(bits) == IcrAssert(bits) /\ UNCHANGED isr

ItrCallbackIgnoresCauses ==   \* mutant: what came in while throttled is forgotten
    /\ callouts > 0
    /\ mevpitr' = FALSE
    /\ callouts' = callouts - 1
    /\ UNCHANGED <<ICR, IMS, ITR, irq_asserted, lintrVars, isr>>

(* e82545_itr_callback: the callout has expired and is off its queue; it is *)
(* queued again if there is something to tell the guest.                    *)
ItrCallback ==
    /\ callouts > 0
    /\ IF ICR \cap IMS # {} /\ ~ irq_asserted
         THEN /\ irq_asserted' = TRUE
              /\ pci_lintr_assert
              /\ UNCHANGED <<mevpitr, callouts>>
         ELSE /\ mevpitr' = FALSE
              /\ callouts' = callouts - 1
              /\ UNCHANGED <<irq_asserted, lintrVars>>
    /\ UNCHANGED <<ICR, IMS, ITR, isr>>

-----------------------------------------------------------------------------
(* The guest's interrupt path (external): claim at the PLIC, then the       *)
(* handler reads ICR, as every e1000 driver does.                           *)
IsrEnter ==
    /\ isr = "idle"
    /\ PlicClaim
    /\ isr' = "claimed"
    /\ UNCHANGED intrVars

IsrReadICR ==
    /\ isr = "claimed"
    /\ IcrDeassert({})
    /\ isr' = "idle"

-----------------------------------------------------------------------------
Bits == SUBSET Causes \ {{}}

Next ==
    \/ \E bits \in Bits : WriteICR(bits)
    \/ \E bits \in Bits : WriteICS(bits)
    \/ \E bits \in Bits : WriteIMS(bits)
    \/ \E bits \in Bits : WriteIMC(bits)
    \/ \E on \in BOOLEAN : WriteITR(on)
    \/ ReadICR
    \/ CtrlReset
    \/ \E dis \in BOOLEAN : GuestCommand(dis)
    \/ \E bits \in Bits : DataPathCause(bits)
    \/ ItrCallback
    \/ IsrEnter
    \/ IsrReadICR

Spec == Init /\ [][Next]_vars

(* A queued callout expires; a pending interrupt is taken by the guest,     *)
(* whose handler runs to its ICR read.  Nothing else has to happen.         *)
Fairness == WF_vars(ItrCallback) /\ WF_vars(IsrEnter) /\ WF_vars(IsrReadICR)

FairSpec == Spec /\ Fairness

-----------------------------------------------------------------------------
(* The pin was dropped and the flag was not.                                *)
Stale == irq_asserted /\ lintr = "IDLE"

Unmasked == ICR \cap IMS # {}

(* A cause that is set and not masked is never forgotten: the interrupt is  *)
(* asserted, or a throttling interval is running whose end will look at ICR *)
(* (icr_assert, ims_change, icr_deassert and itr_callback together).        *)
NoLostCause == Unmasked => irq_asserted \/ mevpitr

(* A throttling interval has exactly one queued callout, and outside of one *)
(* none is queued: an interval always ends, and mdx_callout_init never hits *)
(* a callout that is still linked into the timer queue.                     *)
ThrottleTimer == callouts = IF mevpitr THEN 1 ELSE 0

(* An asserted pin is still pending in the PLIC, or the guest's handler has *)
(* claimed it and will read ICR: the single write that pci_irq_assert makes *)
(* is never the one the guest misses.                                       *)
EdgeNotLost == lintr = "ASSERTED" => plic \/ isr = "claimed"

(* End to end: an unmasked cause the guest permits, outside a throttling    *)
(* interval, is on its way to the guest, unless a reset left the flag set.  *)
Delivered ==
    Unmasked /\ pci_lintr_permitted /\ ~ mevpitr
        => plic \/ isr = "claimed" \/ Stale

(* Only a device reset can separate esc_irq_asserted from the pin.          *)
OnlyResetDesyncs == [][Stale' => Stale \/ CtrlReset]_vars

(* An unmasked cause is eventually read, masked or cleared by the guest,    *)
(* unless INTx is disabled or a reset has left the flag set.                *)
CauseServed == Unmasked ~> (~ Unmasked \/ intxdis \/ Stale)

(* Two facts of the inductive invariant: a pin that is up has the flag set, *)
(* and an asserted pin is one the guest permits, a held back one is not.    *)
LineHasFlag == lintr # "IDLE" => irq_asserted
LineFollowsPermission ==
    /\ lintr = "ASSERTED" => pci_lintr_permitted
    /\ lintr = "PENDING" => ~ pci_lintr_permitted

(* The inductive invariant of the interrupt unit: the causes in ICR, the    *)
(* flag, the pin, the guest's PLIC and the throttling callout agree after   *)
(* every register access, cause, callout and step of the handler.           *)
IInv ==
    /\ TypeOK
    /\ NoLostCause
    /\ ThrottleTimer
    /\ LineHasFlag
    /\ LineFollowsPermission
    /\ EdgeNotLost
===============================================================================
