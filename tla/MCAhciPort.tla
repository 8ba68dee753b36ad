------------------------------ MODULE MCAhciPort ------------------------------
(* Commands for the model checker: one of each kind, queued (NCQ) and not,  *)
(* in one part and in two, failing and not.                                 *)
EXTENDS AhciPort

Cmd(kind, ncq, fails, parts) ==
    [kind |-> kind, ncq |-> ncq, fails |-> fails, parts |-> parts]

MCCmds ==
    {Cmd("rw", TRUE, FALSE, 2), Cmd("rw", FALSE, TRUE, 1),
     Cmd("flush", FALSE, FALSE, 1), Cmd("trim", TRUE, TRUE, 1),
     Cmd("notrim", TRUE, FALSE, 0), Cmd("imm", FALSE, FALSE, 0),
     Cmd("bad", TRUE, FALSE, 0), Cmd("srst", FALSE, FALSE, 0),
     Cmd("srstclr", FALSE, FALSE, 0)}
===============================================================================
