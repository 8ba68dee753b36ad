------------------------------- MODULE AhciPort -------------------------------
(***************************************************************************)
(* The command engine of one AHCI port with a disk (bhyve/pci_ahci.c), the  *)
(* queue of its block interface and the part of the main loop that joins    *)
(* them (src/device-model.c): dm_loop serves one register access of the     *)
(* guest, then blockif_thr runs the queued requests and their callbacks     *)
(* until none is left, then the next access is looked for.                  *)
(*                                                                         *)
(* The queue is first in, first out, which is what BlockIf is shown to be.  *)
(* The port is one record; an operator on it models one C function.         *)
(***************************************************************************)
EXTENDS Integers, FiniteSets, SequencesExt

CONSTANTS
    NSlots,   \* command slots, 32
    IoQsz,    \* blockif_queuesz, the requests on iofhd
    Cmds,     \* the commands the guest may put into a slot, see Command
    Builds    \* the builds followed: TRUE one that keeps assert(), FALSE not

(* A command as far as the engine tells commands apart.                     *)
(*   rw      read or write, in parts if the PRDT exceeds BLOCKIF_IOV_MAX     *)
(*   flush   FLUSH CACHE                                                    *)
(*   trim    a TRIM with a range; notrim: one whose ranges are all empty    *)
(*   imm     any command answered at once; bad: one refused at once         *)
(*   srst    a control FIS with SRST set; srstclr: with SRST clear          *)
(* fails: blockif_proc returns an error (a write to a read-only medium, any *)
(* delete), which it does on the first part.                                *)
Command == [kind : {"rw", "flush", "trim", "notrim", "imm", "bad", "srst",
                    "srstclr"},
            ncq : BOOLEAN, fails : BOOLEAN, parts : Nat]

ASSUME AhciPortAssumption ==
    /\ NSlots \in Nat \ {0}
    /\ IoQsz \in Nat /\ IoQsz >= NSlots
    /\ Cmds \subseteq Command /\ Cmds # {}
    /\ Builds \subseteq BOOLEAN /\ Builds # {}
    /\ \A c \in Cmds : /\ c.parts = 0 <=> c.kind \notin {"rw", "flush", "trim"}
                       /\ c.parts > 1 => c.kind = "rw"
                       /\ c.ncq => c.kind \in {"rw", "trim", "notrim", "bad"}

Slot == 0 .. NSlots - 1

VARIABLES
    p,        \* struct ahci_port and the queue of its blockif_ctxt
    pc,       \* where the device model is, see TypeOK
    table,    \* guest memory: the command of each slot
    disk,     \* history: parts of the command of each slot the disk has done
    built,    \* external: slots the driver has filled and not issued
    gout,     \* external: slots the driver has issued and not seen end
    handler,  \* external: where the driver's handler is
    seen      \* external: the PxIS value it has read

guestVars == <<table, built, gout, handler, seen>>
vars == <<p, pc, disk, guestVars>>

PortIrq == {"DHR", "SDB", "TFE"}

(* PxTFD is reduced to BSY and ERR; DRQ is never set.                       *)
PortState ==
    [ST : BOOLEAN, busy : BOOLEAN, err : BOOLEAN, waitforclear : BOOLEAN,
     reset : BOOLEAN, ci : SUBSET Slot, sact : SUBSET Slot,
     pending : SUBSET Slot, ccs : Slot, is : SUBSET PortIrq,
     iobhd : Seq(Slot), nfree : 0 .. IoQsz, q : Seq([slot : Slot, part : Nat])]

TypeOK ==
    /\ p \in PortState
    /\ pc \in {"request",   \* the main loop may serve a register access
               "handle",    \* in ahci_handle_port, called by that access
               "callback",  \* in ahci_handle_port, called by ata_ioreq_cb
               "drain",     \* in blockif_thr
               "halted"}    \* an assertion has failed
    /\ table \in [Slot -> Cmds]
    /\ disk \in [Slot -> Nat]
    /\ built \subseteq Slot /\ gout \subseteq Slot
    /\ handler \in {"idle", "ack", "look"} /\ seen \subseteq PortIrq

(* pci_ahci_init, pci_ahci_ioreq_init and ahci_reset.                       *)
Init ==
    /\ p = [ST |-> FALSE, busy |-> FALSE, err |-> FALSE, waitforclear |-> FALSE,
            reset |-> FALSE, ci |-> {}, sact |-> {}, pending |-> {}, ccs |-> 0,
            is |-> {}, iobhd |-> <<>>, nfree |-> IoQsz, q |-> <<>>]
    /\ pc = "request"
    /\ table \in [Slot -> {CHOOSE c \in Cmds : TRUE}]
    /\ disk = [s \in Slot |-> 0]
    /\ built = {} /\ gout = {}
    /\ handler = "idle" /\ seen = {}

-----------------------------------------------------------------------------
(* The functions of the command engine.                                     *)

WriteFisOnlyErrors(x, irq, e) ==   \* mutant: the FIS's interrupt bit is missed
    [x EXCEPT !.waitforclear = @ \/ e,
              !.is = @ \cup (IF e THEN {"TFE"} ELSE {})]

(* ahci_write_fis, with the interrupt the FIS asks for: an error stops the  *)
(* port.  The receive area is enabled whenever the port is started.         *)
WriteFis(x, irq, e) ==
    [x EXCEPT !.waitforclear = @ \/ e,
              !.is = @ \cup irq \cup (IF e THEN {"TFE"} ELSE {})]

WriteFisD2h(x, s, e) ==
    WriteFis([x EXCEPT !.ci = IF e THEN @ ELSE @ \ {s},
                       !.busy = FALSE, !.err = e], {"DHR"}, e)

(* Set Device Bits: PxTFD changes but for BSY, which is not in the mask.    *)
WriteFisSdb(x, s, e) ==
    WriteFis([x EXCEPT !.sact = IF e THEN @ ELSE @ \ {s}, !.err = e], {"SDB"}, e)

(* ahci_write_fis_d2h_ncq: an NCQ command is accepted, without interrupt.   *)
D2hNcq(x, s) == [x EXCEPT !.busy = FALSE, !.err = FALSE, !.ci = @ \ {s}]

CheckStoppedKeepsCi(x) ==   \* mutant: the issued commands survive a stop
    IF x.ST \/ x.pending # {} THEN x
    ELSE [x EXCEPT !.ccs = 0, !.sact = {}, !.waitforclear = FALSE]

CheckStopped(x) ==
    IF x.ST \/ x.pending # {} THEN x
    ELSE [x EXCEPT !.ccs = 0, !.ci = {}, !.sact = {}, !.waitforclear = FALSE]

(* The entries of a list at the positions in I, in the list's order.        *)
Entries(list, I) ==
    [k \in 1 .. Cardinality(I) |->
        list[CHOOSE i \in I : Cardinality({j \in I : j <= i}) = k]]

(* ahci_port_stop: every request blockif_cancel finds queued is given up.   *)
PortStop(x) ==
    LET cancelled == {x.q[i].slot : i \in DOMAIN x.q}
        kept == Entries(x.iobhd, {i \in DOMAIN x.iobhd : x.iobhd[i] \notin cancelled})
    IN CheckStopped(
         [x EXCEPT !.sact = {s \in @ : s \notin cancelled \/ ~ table[s].ncq},
                   !.ci = {s \in @ : s \notin cancelled \/ table[s].ncq},
                   !.pending = @ \ cancelled,
                   !.iobhd = kept,
                   !.nfree = @ + Len(x.iobhd) - Len(kept),
                   !.q = <<>>])

(* ahci_port_reset; the FIS it writes asks for no interrupt.                *)
PortReset(x) == [x EXCEPT !.sact = {}, !.busy = FALSE, !.err = FALSE]

SubmitKeepsSlotOpen(x, s, part) ==   \* mutant: the slot is not marked in flight
    [x EXCEPT !.nfree = @ - 1,
              !.iobhd = <<s>> \o @,
              !.q = Append(@, [slot |-> s, part |-> part])]

(* The common part of ahci_handle_rw, _flush and _dsm_trim: take a request  *)
(* from iofhd, mark the slot in flight, put the request on iobhd and hand   *)
(* it to the block interface.                                               *)
Submit(x, s, part) ==
    [x EXCEPT !.nfree = @ - 1,
              !.pending = @ \cup {s},
              !.iobhd = <<s>> \o @,
              !.q = Append(@, [slot |-> s, part |-> part])]

(* ahci_handle_rw, from the first part or from the callback of the last.    *)
HandleRw(x, s, part) ==
    LET y == Submit(x, s, part)
    IN IF table[s].ncq /\ part = 1 THEN D2hNcq(y, s) ELSE y

(* ahci_handle_dsm_trim, first call.  (A delete always fails, so there is   *)
(* no second one.)                                                          *)
DsmTrim(x, s) ==
    IF table[s].kind = "trim" THEN HandleRw(x, s, 1)
    ELSE LET y == IF table[s].ncq THEN WriteFisSdb(D2hNcq(x, s), s, FALSE)
                                  ELSE WriteFisD2h(x, s, FALSE)
         IN CheckStopped([y EXCEPT !.pending = @ \ {s}])

HandleCmd(x, s) ==
    LET y == [x EXCEPT !.busy = TRUE] IN
    CASE table[s].kind = "rw" -> HandleRw(y, s, 1)
      [] table[s].kind = "flush" -> Submit(y, s, 1)
      [] table[s].kind \in {"trim", "notrim"} -> DsmTrim(y, s)
      [] table[s].kind = "imm" -> WriteFisD2h(y, s, FALSE)
      [] table[s].kind = "bad" -> WriteFisD2h(y, s, TRUE)

HandleSlot(x, s) ==
    CASE table[s].kind = "srst" -> [x EXCEPT !.reset = TRUE, !.ci = @ \ {s}]
      [] table[s].kind = "srstclr" ->
           [(IF x.reset THEN PortReset(x) ELSE x)
                EXCEPT !.reset = FALSE, !.ci = @ \ {s}]
      [] OTHER -> HandleCmd(x, s)

(* What ahci_handle_port still has to issue, and the slot its search from   *)
(* ccs finds first.                                                         *)
Waiting(x) == x.ci \ x.pending
NextSlot(x, s) ==
    /\ s \in Waiting(x)
    /\ \A t \in Waiting(x) : (s - x.ccs) % NSlots <= (t - x.ccs) % NSlots

-----------------------------------------------------------------------------
(* blockif_request takes bc_mtx for the request that was just submitted.    *)
(* blockif_thr holds it over the callback, and the lock only asserts that   *)
(* it is free (BlockIf!LockIsFree): a build that keeps assert() stops here, *)
(* the request being the last of p.q although it was never queued; one that *)
(* does not goes on.  Which it is, is no part of the state.                 *)
LockBcMtx ==
    \E asserts \in Builds : pc' = IF asserts /\ pc # "handle" THEN "halted" ELSE pc

(* One turn of the loop in ahci_handle_port, or its end.                    *)
Issue(s) == [HandleSlot(p, s) EXCEPT !.ccs = (s + 1) % NSlots]

HandlePort ==
    /\ pc \in {"handle", "callback"}
    /\ IF ~ p.ST \/ Waiting(p) = {} \/ p.busy \/ p.waitforclear
         THEN pc' = "drain" /\ UNCHANGED p
         ELSE /\ \E s \in Slot : /\ NextSlot(p, s)
                                 /\ p' = Issue(s)
              /\ IF p'.q # p.q THEN LockBcMtx ELSE UNCHANGED pc
    /\ UNCHANGED <<disk, guestVars>>

(* ata_ioreq_cb gives the request back, ...                                 *)
Returned(x, s) ==
    [x EXCEPT !.iobhd = RemoveAt(@, CHOOSE i \in DOMAIN @ : @[i] = s),
              !.nfree = @ + 1, !.q = Tail(@)]

(* ... and answers the guest.                                               *)
Completed(x, s) ==
    LET e == table[s].fails
        y == IF table[s].ncq THEN WriteFisSdb(x, s, e) ELSE WriteFisD2h(x, s, e)
    IN CheckStopped([y EXCEPT !.pending = @ \ {s}])

CallbackForgetsMore ==   \* mutant: the first part answers for the command
    /\ pc = "drain" /\ p.q # <<>>
    /\ LET s == Head(p.q).slot IN
       /\ disk' = [disk EXCEPT ![s] = IF table[s].fails THEN @ ELSE @ + 1]
       /\ p' = Completed(Returned(p, s), s)
       /\ pc' = "callback"
    /\ UNCHANGED guestVars

CallbackDoesNotRestart ==   \* mutant: ends without ahci_handle_port
    /\ pc = "drain" /\ p.q # <<>>
    /\ LET s == Head(p.q).slot
           part == Head(p.q).part
       IN /\ disk' = [disk EXCEPT ![s] = IF table[s].fails THEN @ ELSE @ + 1]
          /\ IF ~ table[s].fails /\ part < table[s].parts
               THEN p' = HandleRw(Returned(p, s), s, part + 1) /\ LockBcMtx
               ELSE p' = Completed(Returned(p, s), s) /\ UNCHANGED pc
    /\ UNCHANGED guestVars

(* blockif_thr serves the oldest request, ata_ioreq_cb continues a command  *)
(* that has more, or completes it and looks for the next one.               *)
IoreqCb ==
    /\ pc = "drain" /\ p.q # <<>>
    /\ LET s == Head(p.q).slot
           part == Head(p.q).part
       IN /\ disk' = [disk EXCEPT ![s] = IF table[s].fails THEN @ ELSE @ + 1]
          /\ IF ~ table[s].fails /\ part < table[s].parts
               THEN p' = HandleRw(Returned(p, s), s, part + 1) /\ LockBcMtx
               ELSE p' = Completed(Returned(p, s), s) /\ pc' = "callback"
    /\ UNCHANGED guestVars

(* Nothing is queued: blockif_thr returns to the main loop.                 *)
ThrReturn ==
    /\ pc = "drain" /\ p.q = <<>>
    /\ pc' = "request"
    /\ UNCHANGED <<p, disk, guestVars>>

(* After a failed assertion nothing runs any more.                          *)
Halted == pc = "halted" /\ UNCHANGED vars

-----------------------------------------------------------------------------
(* Register accesses (pci_ahci_port_write, pci_ahci_host_write), one per    *)
(* turn of the main loop.  The driver keeps to the AHCI rules: it fills a   *)
(* free slot, sets PxSACT for an NCQ command, then PxCI, on a started port, *)
(* and issues a software reset alone.                                       *)
Polled(s) == table[s].kind \in {"srst", "srstclr"}

Build(s, c) ==
    /\ pc = "request"
    /\ s \notin built \cup gout
    /\ table' = [table EXCEPT ![s] = c]
    /\ disk' = [disk EXCEPT ![s] = 0]
    /\ built' = built \cup {s}
    /\ UNCHANGED <<p, pc, gout, handler, seen>>

WriteSACT ==
    LET ncq == {s \in built : table[s].ncq} IN
    /\ pc = "request" /\ p.ST
    /\ ~ (ncq \subseteq p.sact)
    /\ p' = [p EXCEPT !.sact = @ \cup ncq]
    /\ pc' = "drain"
    /\ UNCHANGED <<disk, guestVars>>

WriteCI(S) ==
    /\ pc = "request" /\ p.ST
    /\ S # {} /\ S \subseteq built
    /\ \A s \in S : table[s].ncq => s \in p.sact
    /\ \A s \in S \cup gout : Polled(s) => S \cup gout = {s}
    /\ p' = [p EXCEPT !.ci = @ \cup S]
    /\ pc' = "handle"
    /\ built' = built \ S /\ gout' = gout \cup S
    /\ UNCHANGED <<table, disk, handler, seen>>

(* PxCMD.  Stopping the port gives up what was issued.                      *)
WriteCMD(st, clo) ==
    LET y == IF st THEN [p EXCEPT !.ST = TRUE] ELSE PortStop([p EXCEPT !.ST = FALSE])
    IN /\ pc = "request"
       /\ p' = [y EXCEPT !.busy = @ /\ ~ clo]
       /\ pc' = "handle"
       /\ gout' = IF st THEN gout ELSE {}
       /\ UNCHANGED <<disk, table, built, handler, seen>>

(* PxSCTL with DET set: a COMRESET, if the port is stopped.                 *)
WriteSCTL ==
    /\ pc = "request" /\ ~ p.ST
    /\ p' = PortReset(p)
    /\ pc' = "drain"
    /\ UNCHANGED <<disk, guestVars>>

(* GHC.HR: ahci_reset.  PxCI, the requests in flight and the error stop are *)
(* not part of it.                                                          *)
HbaReset ==
    /\ pc = "request"
    /\ p' = PortReset([p EXCEPT !.ST = FALSE, !.is = {}])
    /\ pc' = "drain"
    /\ built' = {} /\ gout' = {} /\ handler' = "idle" /\ seen' = {}
    /\ UNCHANGED <<table, disk>>

(* The driver's handler (external): read PxIS, write it back, then read     *)
(* PxCI and PxSACT to see what has ended.  A software reset, which asks for *)
(* no interrupt, is polled for.                                             *)
ReadIS ==
    /\ pc = "request" /\ handler = "idle" /\ p.is # {}
    /\ handler' = "ack" /\ seen' = p.is
    /\ pc' = "drain"
    /\ UNCHANGED <<p, disk, table, built, gout>>

WriteIS ==
    /\ pc = "request" /\ handler = "ack"
    /\ p' = [p EXCEPT !.is = @ \ seen]
    /\ handler' = "look" /\ seen' = {}
    /\ pc' = "drain"
    /\ UNCHANGED <<disk, table, built, gout>>

ReadCI ==
    /\ pc = "request"
    /\ \/ handler = "look" /\ handler' = "idle"
       \/ handler = "idle" /\ (\E s \in gout : Polled(s)) /\ UNCHANGED handler
    /\ gout' = gout \cap (p.ci \cup p.sact)
    /\ pc' = "drain"
    /\ UNCHANGED <<p, disk, table, built, seen>>

-----------------------------------------------------------------------------
Next ==
    \/ HandlePort
    \/ IoreqCb
    \/ ThrReturn
    \/ Halted
    \/ \E s \in Slot, c \in Cmds : Build(s, c)
    \/ WriteSACT
    \/ \E S \in SUBSET Slot : WriteCI(S)
    \/ \E st, clo \in BOOLEAN : WriteCMD(st, clo)
    \/ WriteSCTL
    \/ HbaReset
    \/ ReadIS
    \/ WriteIS
    \/ ReadCI

Spec == Init /\ [][Next]_vars

(* The main loop goes on; the driver's handler runs when the port has an    *)
(* interrupt, and its accesses are served even if others come as well.      *)
FairSpec ==
    /\ Spec
    /\ WF_vars(HandlePort) /\ WF_vars(IoreqCb) /\ WF_vars(ThrReturn)
    /\ SF_vars(ReadIS) /\ SF_vars(WriteIS) /\ SF_vars(ReadCI)

-----------------------------------------------------------------------------
(* No register access meets I/O in flight: the loop drains the block        *)
(* interface first.  ahci_port_stop, COMRESET and GHC.HR rely on it, the    *)
(* last two without looking at iobhd.                                       *)
QuietAtRequest ==
    pc = "request" => /\ p.q = <<>> /\ p.iobhd = <<>> /\ p.pending = {}
                      /\ ~ p.busy /\ p.nfree = IoQsz

(* Each slot in flight has one request, on iobhd and in the queue, so the   *)
(* free list cannot run out (assert(aior != NULL)).                         *)
InFlightOnce ==
    /\ p.pending = {p.iobhd[i] : i \in DOMAIN p.iobhd}
    /\ p.pending = {p.q[i].slot : i \in DOMAIN p.q}
    /\ Len(p.iobhd) = Cardinality(p.pending) /\ Len(p.q) = Len(p.iobhd)
    /\ p.nfree + Len(p.iobhd) = IoQsz

(* The state the list handling of the port relies on, taken together.       *)
IInv == TypeOK /\ QuietAtRequest /\ InFlightOnce

(* A started port without an error has issued everything when the next      *)
(* access comes: no command waits for another access to get it going.       *)
NothingLeftBehind ==
    pc = "request" /\ p.ST /\ ~ p.waitforclear => p.ci = {}

(* What ahci_handle_port may issue was issued by the driver and not given   *)
(* up: a stop or a reset leaves no command behind that a later start would  *)
(* run from a slot the driver uses for something else by then.              *)
OnlyIssuedCommandsRun == p.ST /\ ~ p.waitforclear => Waiting(p) \subseteq gout

(* A command whose PxCI and PxSACT bits the guest finds clear has been done *)
(* by the disk, all parts of it, and no command is done twice.              *)
DoneMeansDone ==
    /\ \A s \in Slot : disk[s] <= table[s].parts
    /\ \A s \in gout : s \notin p.ci \cup p.sact => disk[s] = table[s].parts

(* The end of a command is told: an interrupt the guest has not read is     *)
(* pending, or its handler has not yet looked at PxCI.                      *)
CompletionIsTold ==
    \A s \in gout : s \notin p.ci \cup p.sact /\ ~ Polled(s)
                        => p.is # {} \/ handler # "idle"

(* Every issued command ends, and the driver sees it, or an error stops the *)
(* port, or the driver itself stops it; or the program has stopped at the   *)
(* lock, which in a build with assertions is where every command of more    *)
(* than one part ends, and one that waited for another.                     *)
CommandEnds ==
    \A s \in Slot :
        s \in gout ~> (s \notin gout \/ p.waitforclear \/ ~ p.ST \/ pc = "halted")
===============================================================================
