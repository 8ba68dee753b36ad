--------------------------- MODULE E82545IntrProofs ---------------------------
(***************************************************************************)
(* Proofs about E82545Intr for every set of causes.                        *)
(***************************************************************************)
EXTENDS E82545Intr, TLAPS

(* The state e82545_reset leaves satisfies the invariant.                   *)
(* ITR, the flag and the pin are Boolean, so the leaves stay propositional. *)
LEMMA InitIInv == Init => IInv
<1> SUFFICES ASSUME Init PROVE IInv
  OBVIOUS
<1>1. TypeOK
  BY DEF Init, LintrInit, TypeOK, LintrTypeOK, LintrState
<1>2. ThrottleTimer
  BY DEF Init, ThrottleTimer
<1>3. NoLostCause /\ LineHasFlag /\ LineFollowsPermission /\ EdgeNotLost
  BY DEF Init, LintrInit, NoLostCause, Unmasked, LineHasFlag,
         LineFollowsPermission, EdgeNotLost
<1> QED
  BY <1>1, <1>2, <1>3 DEF IInv

(* e82545_icr_assert, from a data path or from a write to ICS.              *)
LEMMA IcrAssertIInv ==
  ASSUME IInv, NEW bits \in SUBSET Causes, IcrAssert(bits), UNCHANGED isr
  PROVE  IInv'
<1>1. CASE UNCHANGED <<irq_asserted, mevpitr, callouts, lintrVars>>
             /\ ((bits \ ICR) \cap IMS = {} \/ irq_asserted \/ mevpitr)
  BY <1>1 DEF IInv, TypeOK, LintrTypeOK, NoLostCause, Unmasked, ThrottleTimer,
              LineHasFlag, LineFollowsPermission, EdgeNotLost, IcrAssert,
              pci_lintr_permitted, lintrVars
<1>2. CASE ~ mevpitr /\ ~ irq_asserted /\ RaiseInterrupt
  <2>1. lintr = "IDLE" /\ callouts = 0
    BY <1>2 DEF IInv, LineHasFlag, ThrottleTimer
  <2>2. /\ irq_asserted' = TRUE
        /\ mevpitr' = ITR
        /\ ITR \in BOOLEAN
    BY <1>2 DEF RaiseInterrupt, IInv, TypeOK
  <2>3. ThrottleTimer' /\ callouts' \in Nat
    BY <1>2, <2>1 DEF RaiseInterrupt, ThrottleTimer
  <2>4. /\ LintrTypeOK'
        /\ LineFollowsPermission'
        /\ EdgeNotLost'
    BY <1>2, <2>1 DEF RaiseInterrupt, pci_lintr_assert, IInv, TypeOK,
       LintrTypeOK, LintrState, LineFollowsPermission, EdgeNotLost,
       pci_lintr_permitted
  <2> QED
    BY <2>2, <2>3, <2>4 DEF IcrAssert, IInv, TypeOK, NoLostCause, LineHasFlag
<1> QED
  BY <1>1, <1>2 DEF IcrAssert, RaiseIfNew

(* e82545_ims_change.                                                       *)
LEMMA ImsChangeIInv ==
  ASSUME IInv, NEW bits \in SUBSET Causes, ImsChange(bits), UNCHANGED isr
  PROVE  IInv'
<1>1. CASE UNCHANGED <<irq_asserted, mevpitr, callouts, lintrVars>>
             /\ ((bits \cap ICR) \ IMS = {} \/ irq_asserted \/ mevpitr)
  BY <1>1 DEF IInv, TypeOK, LintrTypeOK, NoLostCause, Unmasked, ThrottleTimer,
              LineHasFlag, LineFollowsPermission, EdgeNotLost, ImsChange,
              pci_lintr_permitted, lintrVars
<1>2. CASE ~ mevpitr /\ ~ irq_asserted /\ RaiseInterrupt
  <2>1. lintr = "IDLE" /\ callouts = 0
    BY <1>2 DEF IInv, LineHasFlag, ThrottleTimer
  <2>2. /\ irq_asserted' = TRUE
        /\ mevpitr' = ITR
        /\ ITR \in BOOLEAN
    BY <1>2 DEF RaiseInterrupt, IInv, TypeOK
  <2>3. ThrottleTimer' /\ callouts' \in Nat
    BY <1>2, <2>1 DEF RaiseInterrupt, ThrottleTimer
  <2>4. /\ LintrTypeOK'
        /\ LineFollowsPermission'
        /\ EdgeNotLost'
    BY <1>2, <2>1 DEF RaiseInterrupt, pci_lintr_assert, IInv, TypeOK,
       LintrTypeOK, LintrState, LineFollowsPermission, EdgeNotLost,
       pci_lintr_permitted
  <2> QED
    BY <2>2, <2>3, <2>4 DEF ImsChange, IInv, TypeOK, NoLostCause, LineHasFlag
<1> QED
  BY <1>1, <1>2 DEF ImsChange, RaiseIfNew

(* e82545_icr_deassert, when the guest's handler is not the caller.         *)
LEMMA IcrDeassertIInv ==
  ASSUME IInv, NEW left \in SUBSET ICR, IcrDeassert(left), UNCHANGED isr
  PROVE  IInv'
  BY DEF IInv, TypeOK, LintrTypeOK, LintrState, NoLostCause, Unmasked,
         ThrottleTimer, LineHasFlag, LineFollowsPermission, EdgeNotLost,
         IcrDeassert, pci_lintr_deassert, pci_lintr_permitted, lintrVars

(* Every step of the interrupt unit preserves the invariant.                *)
LEMMA StepIInv == IInv /\ [Next]_vars => IInv'
<1> SUFFICES ASSUME IInv, [Next]_vars PROVE IInv'
  OBVIOUS
<1> USE DEF Bits
<1>1. ASSUME NEW bits \in Bits, WriteICR(bits) PROVE IInv'
  BY <1>1, IcrDeassertIInv DEF WriteICR
<1>2. ASSUME NEW bits \in Bits, WriteICS(bits) PROVE IInv'
  BY <1>2, IcrAssertIInv DEF WriteICS
<1>3. ASSUME NEW bits \in Bits, WriteIMS(bits) PROVE IInv'
  BY <1>3, ImsChangeIInv DEF WriteIMS
<1>4. ASSUME NEW bits \in Bits, WriteIMC(bits) PROVE IInv'
  BY <1>4 DEF WriteIMC, IInv, TypeOK, LintrTypeOK, NoLostCause, Unmasked,
              ThrottleTimer, LineHasFlag, LineFollowsPermission, EdgeNotLost,
              pci_lintr_permitted, lintrVars
<1>5. ASSUME NEW on \in BOOLEAN, WriteITR(on) PROVE IInv'
  BY <1>5 DEF WriteITR, IInv, TypeOK, LintrTypeOK, NoLostCause, Unmasked,
              ThrottleTimer, LineHasFlag, LineFollowsPermission, EdgeNotLost,
              pci_lintr_permitted, lintrVars
<1>6. CASE ReadICR
  BY <1>6, IcrDeassertIInv DEF ReadICR
<1>7. CASE CtrlReset
  BY <1>7 DEF CtrlReset, ResetIntr, pci_lintr_deassert, IInv, TypeOK,
              LintrTypeOK, LintrState, NoLostCause, Unmasked, ThrottleTimer,
              LineHasFlag, LineFollowsPermission, EdgeNotLost,
              pci_lintr_permitted, lintrVars
<1>8. ASSUME NEW dis \in BOOLEAN, GuestCommand(dis) PROVE IInv'
  BY <1>8 DEF GuestCommand, CommandWrite, pci_lintr_update, intrVars, IInv,
              TypeOK, LintrTypeOK, LintrState, NoLostCause, Unmasked,
              ThrottleTimer, LineHasFlag, LineFollowsPermission, EdgeNotLost,
              pci_lintr_permitted
<1>9. ASSUME NEW bits \in Bits, DataPathCause(bits) PROVE IInv'
  BY <1>9, IcrAssertIInv DEF DataPathCause
<1>10. CASE ItrCallback
  <2> USE <1>10
  <2>1. CASE Unmasked /\ ~ irq_asserted
    <3>1. /\ irq_asserted' = TRUE
          /\ pci_lintr_assert
          /\ UNCHANGED <<ICR, IMS, ITR, isr, mevpitr, callouts>>
      BY <2>1 DEF ItrCallback, Unmasked
    <3>2. LintrTypeOK' /\ LineFollowsPermission' /\ EdgeNotLost'
      BY <2>1, <3>1 DEF pci_lintr_assert, IInv, TypeOK, LintrTypeOK,
         LintrState, LineHasFlag, LineFollowsPermission, EdgeNotLost,
         pci_lintr_permitted
    <3> QED
      BY <3>1, <3>2 DEF IInv, TypeOK, NoLostCause, ThrottleTimer, LineHasFlag
  <2>2. CASE ~ (Unmasked /\ ~ irq_asserted)
    <3>1. /\ mevpitr' = FALSE
          /\ callouts' = callouts - 1
          /\ UNCHANGED <<ICR, IMS, ITR, isr, irq_asserted, lintr, intxdis,
                         msi_enabled, plic>>
      BY <2>2 DEF ItrCallback, Unmasked, lintrVars
    <3>2. callouts = 1
      BY DEF ItrCallback, IInv, TypeOK, ThrottleTimer
    <3>3. ThrottleTimer' /\ callouts' \in Nat
      BY <3>1, <3>2 DEF ThrottleTimer
    <3> QED
      BY <2>2, <3>1, <3>3 DEF IInv, TypeOK, LintrTypeOK, NoLostCause, Unmasked,
         LineHasFlag, LineFollowsPermission, EdgeNotLost, pci_lintr_permitted
  <2> QED
    BY <2>1, <2>2
<1>11. CASE IsrEnter
  BY <1>11 DEF IsrEnter, PlicClaim, intrVars, IInv, TypeOK, LintrTypeOK,
               NoLostCause, Unmasked, ThrottleTimer, LineHasFlag,
               LineFollowsPermission, EdgeNotLost, pci_lintr_permitted
<1>12. CASE IsrReadICR
  BY <1>12 DEF IsrReadICR, IcrDeassert, pci_lintr_deassert, IInv, TypeOK,
               LintrTypeOK, LintrState, NoLostCause, Unmasked, ThrottleTimer,
               LineHasFlag, LineFollowsPermission, EdgeNotLost,
               pci_lintr_permitted, lintrVars
<1>13. CASE UNCHANGED vars
  BY <1>13 DEF vars, intrVars, lintrVars, IInv, TypeOK, LintrTypeOK,
               NoLostCause, Unmasked, ThrottleTimer, LineHasFlag,
               LineFollowsPermission, EdgeNotLost, pci_lintr_permitted
<1> QED
  BY <1>1, <1>2, <1>3, <1>4, <1>5, <1>6, <1>7, <1>8, <1>9, <1>10, <1>11,
     <1>12, <1>13 DEF Next

(* The inductive invariant holds in every behaviour of the interrupt unit.  *)
THEOREM Inductive == Spec => []IInv
  BY InitIInv, StepIInv, PTL DEF Spec

(* Type correctness of the interrupt unit.                                  *)
THEOREM TypeCorrect == Spec => []TypeOK
<1>1. IInv => TypeOK
  BY DEF IInv
<1> QED
  BY <1>1, Inductive, PTL

(* No unmasked cause is forgotten, whatever the guest does to ICR, IMS and  *)
(* ITR while the data paths and the throttling callout run.                 *)
THEOREM NeverLosesACause == Spec => []NoLostCause
<1>1. IInv => NoLostCause
  BY DEF IInv
<1> QED
  BY <1>1, Inductive, PTL

(* The throttling callout is queued exactly while an interval is running.   *)
THEOREM CalloutIsUnique == Spec => []ThrottleTimer
<1>1. IInv => ThrottleTimer
  BY DEF IInv
<1> QED
  BY <1>1, Inductive, PTL

(* An unmasked cause reaches the guest unless a reset left the flag set:    *)
(* NoLostCause gives the flag, the flag a pin that is not IDLE, permission  *)
(* an ASSERTED pin, and EdgeNotLost the guest.                              *)
THEOREM CausesAreDelivered == Spec => []Delivered
<1>1. IInv => Delivered
  BY DEF IInv, TypeOK, LintrTypeOK, LintrState, NoLostCause,
         LineFollowsPermission, EdgeNotLost, Delivered, Stale
<1> QED
  BY <1>1, Inductive, PTL

(* No step but a device reset separates esc_irq_asserted from the pin.      *)
THEOREM DesyncNeedsReset == Spec => OnlyResetDesyncs
<1>1. IInv /\ [Next]_vars => [Stale' => Stale \/ CtrlReset]_vars
  <2> SUFFICES ASSUME IInv, Next, ~ CtrlReset, ~ Stale PROVE ~ Stale'
    OBVIOUS
  <2> USE DEF Stale, IInv, TypeOK, LintrTypeOK, LintrState, LineHasFlag,
              lintrVars, Bits
  <2>1. ASSUME NEW bits \in Bits, IcrAssert(bits) \/ ImsChange(bits)
        PROVE  ~ Stale'
    BY <2>1 DEF IcrAssert, ImsChange, RaiseIfNew, RaiseInterrupt,
                pci_lintr_assert
  <2>2. ASSUME NEW left, IcrDeassert(left) PROVE ~ Stale'
    BY <2>2 DEF IcrDeassert, pci_lintr_deassert
  <2>3. ASSUME NEW bits \in Bits, WriteIMC(bits) PROVE ~ Stale'
    BY <2>3 DEF WriteIMC
  <2>4. ASSUME NEW on \in BOOLEAN, WriteITR(on) PROVE ~ Stale'
    BY <2>4 DEF WriteITR
  <2>5. ASSUME NEW dis \in BOOLEAN, GuestCommand(dis) PROVE ~ Stale'
    BY <2>5 DEF GuestCommand, CommandWrite, pci_lintr_update, intrVars
  <2>6. CASE ItrCallback
    BY <2>6 DEF ItrCallback, pci_lintr_assert
  <2>7. CASE IsrEnter
    BY <2>7 DEF IsrEnter, PlicClaim, intrVars
  <2> QED
    BY <2>1, <2>2, <2>3, <2>4, <2>5, <2>6, <2>7
    DEF Next, WriteICR, WriteICS, WriteIMS, ReadICR, DataPathCause, IsrReadICR
<1> QED
  BY <1>1, Inductive, PTL DEF Spec, OnlyResetDesyncs
===============================================================================
