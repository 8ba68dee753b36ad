----------------------------- MODULE MCE82545Regs -----------------------------
(* Kinds of guest for the register file: one that drives the receiver, one  *)
(* that drives the transmitter, one for the filters, one for the PHY, and   *)
(* some that write the other registers.  Each can reset the device.         *)
EXTENDS E82545Regs

MCMac == [i \in 0 .. 5 |-> {i}]

Regs(names) == names \X {0}
Values == {{}, {EN}, Word}

MCGuests == {
    [regs |-> Regs({"CTRL", "RCTL", "RDBAL", "RDBAH", "RDLEN"}), values |-> Values],
    [regs |-> Regs({"CTRL_DUP", "CTRL", "TCTL", "TDBAL", "TDBAH"}), values |-> Values],
    [regs |-> Regs({"CTRL"}) \cup {<<"RA", 0>>, <<"RA", 1>>, <<"RA", 3>>, <<"RA", 31>>,
                                   <<"MTA", 0>>, <<"VFTA", 1>>},
     values |-> {{}, Word, {0, 9, 17, 30}}],
    [regs |-> Regs({"CTRL", "MDIC", "STATUS", "MANC", "Statistic", "Unaligned"}),
     values |-> {{}, Word, {MDIC_READ, 16, 7}, {MDIC_READ, 17, 19}, {MDIC_WRITE, 17, 7},
                 {MDIC_READ, MDIC_READY, 7}}],
    [regs |-> Regs({"CTRL", "FCAL", "FCAH", "FCT", "VET", "FCTTV", "LEDCTL"}), values |-> {{}, Word}],
    [regs |-> Regs({"CTRL", "PBA", "FCRTL", "FCRTH", "RDTR", "RXDCTL", "RADV"}), values |-> {{}, Word}],
    [regs |-> Regs({"CTRL", "RSRPD", "RXCSUM", "TXCW", "TXDCTL", "TIPG"}), values |-> {{}, Word}],
    [regs |-> Regs({"CTRL", "AIT", "TIDV", "TADV", "TDLEN"}), values |-> {{}, Word}]}
===============================================================================
