------------------------------- MODULE MCPciCfg -------------------------------
(* The two devices of bhyve_pci_init, in units of 64 KB from the start of   *)
(* the window: the e1000 with its register and flash BARs, the AHCI         *)
(* controller with one and with an MSI capability.  The functions'          *)
(* configuration space, slots 0 and 1, is in the unit of PCI_GENERIC's      *)
(* base.  The extended configuration window is moved down to follow the     *)
(* BARs, so that the guest's addresses, 0 to 7, take a BAR below, onto and  *)
(* next to it.  One guest programs the BARs, another the AHCI controller's  *)
(* capability and command register.                                         *)
EXTENDS PciCfg

MCDevs == {"e1000", "ahci"}
MCBarsOf == [d \in MCDevs |-> IF d = "e1000" THEN <<"regs", "flash">> ELSE <<"abar">>]
MCSize ==
    [b \in {"regs", "flash", "abar", ECFG} |-> IF b \in {"regs", ECFG} THEN 2 ELSE 1]
MCWindow == 1 .. 5
MCAddrs == 0 .. 7
MCMmc == {1}
MCAccesses == {<<0, 1>>, <<0, 2>>, <<0, 4>>, <<1, 1>>, <<2, 1>>, <<2, 2>>, <<3, 1>>,
               <<4, 4>>, <<12, 2>>}
MCValues == {[i \in 0 .. 3 |-> {}], [i \in 0 .. 3 |-> 0 .. 7],
             [i \in 0 .. 3 |-> IF i \in {0, 2} THEN {MSI_ENABLE} ELSE {2}]}
===============================================================================
