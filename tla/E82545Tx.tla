------------------------------- MODULE E82545Tx -------------------------------
(***************************************************************************)
(* The transmit side of the emulated Intel 82545 (bhyve/pci_e82545.c): the  *)
(* descriptor ring in guest memory, the registers TDH, TDT, TCTL, the       *)
(* private "read head" TDHr and the poll that the main loop makes instead   *)
(* of running e82545_tx_thread.                                             *)
(*                                                                         *)
(* The device model is sequential: a register access is handled between two *)
(* polls.  The guest runs on another hart and touches the ring in memory at *)
(* any time, so a run of the transmitter is one step per e82545_transmit.   *)
(***************************************************************************)
EXTENDS Integers, FiniteSetsExt, SequencesExt

CONSTANTS
    TxSize,    \* descriptors in the ring, TDLEN / 16
    MaxSegs,   \* I82545_MAX_TXSEGS
    Kinds,     \* the kinds of descriptors the guest writes
    MaxInUse   \* bound: descriptors the guest has in use at a time

ASSUME TxAssumption ==
    /\ TxSize \in Nat \ {0} /\ TxSize % 8 = 0   \* the mask on TDLEN
    /\ MaxSegs \in Nat \ {0}
    /\ Kinds \subseteq {"frag", "eop", "ctx"}
    /\ MaxInUse \in 0 .. TxSize - 1

VARIABLES
    ring,        \* the descriptors, in guest memory
    tx_enabled,  \* esc_tx_enabled
    tx_active,   \* esc_tx_active
    TDH, TDHr,   \* esc_TDH, esc_TDHr
    TDT,         \* esc_TDT
    txctx,       \* esc_txctx, the last context descriptor
    pc,          \* where the device model is, see TypeOK
    head, lim,   \* locals of e82545_tx_run (rhead is TDHr once it returns)
    rhead, tdwb,
    icr,         \* causes given to e82545_icr_assert and not read yet
    out,         \* history: the frame this run has given to the backend last
    gtail,       \* external: where the guest's driver writes next
    clean,       \* external: the driver's oldest descriptor in use
    cleaning,    \* external: the driver's handler is reclaiming
    part,        \* external: buffers of the frame being written
    gctx,        \* external: context the driver has last written
    owed         \* history: frames the driver has written, not yet sent

devVars == <<tx_enabled, tx_active, TDH, TDHr, TDT, txctx, pc>>
runVars == <<head, lim, rhead, tdwb>>
guestVars == <<gtail, clean, cleaning, part, gctx, owed>>
vars == <<ring, devVars, runVars, icr, out, guestVars>>

Slots == 0 .. TxSize - 1
Plus(i, n) == (i + n) % TxSize
Dist(a, b) == (b - a) % TxSize   \* descriptors in [a, b)

(* A descriptor: its kind, the context if it is one, RS and DD.  A data     *)
(* descriptor names the buffer of its slot.  Two contexts are told apart.   *)
Contexts == 0 .. 1
Desc == [kind : {"frag", "eop", "ctx"}, ctx : Contexts, rs : BOOLEAN,
         dd : BOOLEAN]
Stale == [kind |-> "eop", ctx |-> 0, rs |-> TRUE, dd |-> TRUE]
Frames == [bufs : SeqOf(Slots, MaxSegs), ctx : Contexts]

TypeOK ==
    /\ ring \in [Slots -> Desc]
    /\ tx_enabled \in BOOLEAN /\ tx_active \in BOOLEAN
    /\ {TDH, TDHr, TDT, head, rhead, gtail, clean} \subseteq Slots
    /\ txctx \in Contexts /\ gctx \in Contexts
    /\ pc \in {"idle",   \* outside e82545_tx_poll: register accesses run
               "run",    \* at the head of e82545_tx_run's loop
               "end",    \* after that loop
               "spin"}   \* in e82545_tx_disable's loop on esc_tx_active
    /\ lim \in Int /\ tdwb \in BOOLEAN
    /\ icr \subseteq {"TXDW", "TXQE"}
    /\ out \in SeqOf(Frames, 1) /\ owed \in Seq(Frames)
    /\ part \in SeqOf(Slots, MaxSegs)
    /\ cleaning \in BOOLEAN

(* The driver has set up its ring and not yet enabled the transmitter; the  *)
(* slots hold what an earlier use has left.                                 *)
Init ==
    /\ ring = [i \in Slots |-> Stale]
    /\ tx_enabled = FALSE /\ tx_active = FALSE
    /\ TDH = 0 /\ TDHr = 0 /\ TDT = 0
    /\ txctx = 0
    /\ pc = "idle"
    /\ head = 0 /\ rhead = 0 /\ lim = 0 /\ tdwb = FALSE
    /\ icr = {}
    /\ out = <<>> /\ owed = <<>>
    /\ gtail = 0 /\ clean = 0 /\ cleaning = FALSE
    /\ part = <<>> /\ gctx = 0

-----------------------------------------------------------------------------
(* e82545_tx_poll, called by the main loop with interrupts disabled.        *)

TxPoll ==
    /\ pc = "idle"
    /\ IF tx_enabled /\ TDHr # TDT
         THEN /\ tx_active' = TRUE
              /\ pc' = "run"
              /\ head' = TDH /\ rhead' = TDH
              /\ lim' = TxSize \div 4
              /\ tdwb' = FALSE
         ELSE /\ tx_active' = FALSE
              /\ UNCHANGED <<pc, runVars>>
    /\ UNCHANGED <<ring, tx_enabled, TDH, TDHr, TDT, txctx, icr, out, guestVars>>

(* How many descriptors e82545_transmit consumes from head: a context       *)
(* descriptor alone, a packet up to its EOP, or none if EOP is not there.   *)
PacketLen ==
    LET eops == {k \in 0 .. Dist(head, TDT) - 1 : ring[Plus(head, k)].kind = "eop"}
    IN IF head # TDT /\ ring[head].kind = "ctx" THEN 1
       ELSE IF eops = {} THEN 0
       ELSE Min(eops) + 1

(* The frame of n descriptors at head, sent under the context saved last.   *)
FrameAt(n) == [bufs |-> [k \in 1 .. n |-> Plus(head, k - 1)], ctx |-> txctx]

DoneUpToTail(n) ==   \* mutant: writes back everything the guest has offered
    /\ ring' = [i \in Slots |-> IF Dist(head, i) < Dist(head, TDT) /\ ring[i].rs
                                  THEN [ring[i] EXCEPT !.dd = TRUE] ELSE ring[i]]
    /\ tdwb' = (tdwb \/ \E k \in 0 .. n - 1 : ring[Plus(head, k)].rs)

DoneForgetsOlder(n) ==   \* mutant: tdwb tells of the last packet only
    /\ ring' = [i \in Slots |-> IF Dist(head, i) < n /\ ring[i].rs
                                  THEN [ring[i] EXCEPT !.dd = TRUE] ELSE ring[i]]
    /\ tdwb' = \E k \in 0 .. n - 1 : ring[Plus(head, k)].rs

(* e82545_transmit_done on the n descriptors from head.                     *)
TransmitDone(n) ==
    /\ ring' = [i \in Slots |-> IF Dist(head, i) < n /\ ring[i].rs
                                  THEN [ring[i] EXCEPT !.dd = TRUE] ELSE ring[i]]
    /\ tdwb' = (tdwb \/ \E k \in 0 .. n - 1 : ring[Plus(head, k)].rs)

SendIgnoresContext(n) ==   \* mutant: a context descriptor is not saved
    /\ IF ring[head].kind = "ctx" \/ n > MaxSegs
         THEN UNCHANGED <<out, owed>>
         ELSE out' = <<FrameAt(n)>> /\ owed' = Tail(owed)
    /\ UNCHANGED txctx

(* What is done with them: the context is saved, a packet of too many       *)
(* segments is dropped, any other goes to the backend.                      *)
Send(n) ==
    IF ring[head].kind = "ctx"
      THEN txctx' = ring[head].ctx /\ UNCHANGED <<out, owed>>
      ELSE /\ IF n > MaxSegs
                THEN UNCHANGED <<out, owed>>
                ELSE out' = <<FrameAt(n)>> /\ owed' = Tail(owed)
           /\ UNCHANGED txctx

Advance(n) == head' = Plus(head, n) /\ rhead' = Plus(head, n)

(* One turn of e82545_tx_run's loop: one call of e82545_transmit.           *)
Transmit ==
    LET n == PacketLen IN
    /\ pc = "run"
    /\ IF n = 0
         THEN /\ rhead' = TDT
              /\ pc' = "end"
              /\ UNCHANGED <<ring, txctx, out, owed, head, lim, tdwb>>
         ELSE /\ Send(n) /\ TransmitDone(n) /\ Advance(n)
              /\ lim' = lim - n
              /\ pc' = IF lim - n > 0 THEN "run" ELSE "end"
    /\ UNCHANGED <<tx_enabled, tx_active, TDH, TDHr, TDT, icr, gtail, clean, cleaning, part,
                   gctx>>

RunEndParks ==   \* mutant: the read head moves to the tail in any case
    /\ pc = "end"
    /\ TDH' = head /\ TDHr' = TDT
    /\ icr' = icr \cup (IF tdwb THEN {"TXDW"} ELSE {})
    /\ pc' = "idle"
    /\ head' = 0 /\ rhead' = 0 /\ lim' = 0 /\ tdwb' = FALSE   \* out of scope
    /\ out' = <<>>
    /\ UNCHANGED <<ring, tx_enabled, tx_active, TDT, txctx, guestVars>>

RunEndQuiet ==   \* mutant: tells the guest only once everything is sent
    /\ pc = "end"
    /\ TDH' = head /\ TDHr' = rhead
    /\ icr' = icr \cup (IF tdwb /\ head = TDT THEN {"TXDW", "TXQE"} ELSE {})
    /\ pc' = "idle"
    /\ head' = 0 /\ rhead' = 0 /\ lim' = 0 /\ tdwb' = FALSE   \* out of scope
    /\ out' = <<>>
    /\ UNCHANGED <<ring, tx_enabled, tx_active, TDT, txctx, guestVars>>

(* The end of e82545_tx_run; the history of what it has sent ends with it.  *)
TxRunEnd ==
    /\ pc = "end"
    /\ TDH' = head /\ TDHr' = rhead
    /\ icr' = icr \cup (IF tdwb THEN {"TXDW"} ELSE {})
                  \cup (IF lim # TxSize \div 4 /\ head = TDT THEN {"TXQE"} ELSE {})
    /\ pc' = "idle"
    /\ head' = 0 /\ rhead' = 0 /\ lim' = 0 /\ tdwb' = FALSE   \* out of scope
    /\ out' = <<>>
    /\ UNCHANGED <<ring, tx_enabled, tx_active, TDT, txctx, guestVars>>

-----------------------------------------------------------------------------
(* Register accesses, handled between two polls.                            *)

(* e82545_tx_ctl with TCTL.EN set, where that is a change.                  *)
TxEnable ==
    /\ pc = "idle"
    /\ ~ tx_enabled
    /\ tx_enabled' = TRUE
    /\ UNCHANGED <<ring, tx_active, TDH, TDHr, TDT, txctx, pc, runVars, icr, out,
                   guestVars>>

(* e82545_tx_disable: pthread_cond_wait returns at once and only a later    *)
(* poll would clear esc_tx_active, so with the flag set the loop never ends. *)
TxDisable ==
    /\ tx_enabled' = FALSE
    /\ pc' = IF tx_active THEN "spin" ELSE "idle"

(* e82545_tx_ctl with TCTL.EN clear, where that is a change.                *)
TxCtlOff ==
    /\ pc = "idle"
    /\ tx_enabled
    /\ TxDisable
    /\ UNCHANGED <<ring, tx_active, TDH, TDHr, TDT, txctx, runVars, icr, out,
                   guestVars>>

Spin == pc = "spin" /\ UNCHANGED vars

(* A reset through CTRL (e82545_reset), after which the driver sets up its  *)
(* ring anew: TDLEN, TDH and TDT.  What was not sent is given up.  The      *)
(* context is not part of the reset.                                        *)
CtrlReset ==
    /\ pc = "idle"
    /\ TxDisable
    /\ IF tx_active
         THEN UNCHANGED <<ring, TDH, TDHr, TDT, icr, out, guestVars>>
         ELSE /\ TDH' = 0 /\ TDHr' = 0 /\ TDT' = 0
              /\ icr' = {}
              /\ ring' = [i \in Slots |-> Stale]
              /\ gtail' = 0 /\ clean' = 0 /\ cleaning' = FALSE
              /\ part' = <<>>
              /\ owed' = <<>> /\ out' = <<>>
              /\ gctx' = txctx
    /\ UNCHANGED <<tx_active, txctx, runVars>>

(* TDT: e82545_tx_start only signals a condition nobody waits for.          *)
WriteTDT ==
    /\ pc = "idle"
    /\ TDT # gtail
    /\ TDT' = gtail
    /\ UNCHANGED <<ring, tx_enabled, tx_active, TDH, TDHr, txctx, pc, runVars, icr,
                   out, guestVars>>

(* ICR is cleared by the read; TXDW makes the driver reclaim.               *)
ReadICR ==
    /\ pc = "idle"
    /\ icr # {}
    /\ icr' = {}
    /\ cleaning' = (cleaning \/ "TXDW" \in icr)
    /\ UNCHANGED <<ring, devVars, runVars, out, gtail, clean, part, gctx, owed>>

-----------------------------------------------------------------------------
(* The guest's driver in memory (external), concurrent with a run.          *)

(* The driver writes one descriptor: a fragment, the last descriptor of a   *)
(* packet (which asks for status), or, between packets, a context.          *)
Fill(kind) ==
    /\ Dist(clean, gtail) < MaxInUse
    /\ kind = "ctx" => part = <<>>
    /\ kind = "frag" => Len(part) < MaxSegs   \* at most one segment too many
    /\ ring' = [ring EXCEPT ![gtail] = [kind |-> kind, ctx |-> 1 - gctx,
                                        rs |-> kind = "eop", dd |-> FALSE]]
    /\ gtail' = Plus(gtail, 1)
    /\ part' = IF kind = "frag" THEN Append(part, gtail) ELSE <<>>
    /\ gctx' = IF kind = "ctx" THEN 1 - gctx ELSE gctx
    /\ owed' = IF kind = "eop" /\ Len(part) < MaxSegs
                 THEN Append(owed, [bufs |-> Append(part, gtail), ctx |-> gctx])
                 ELSE owed
    /\ UNCHANGED <<devVars, runVars, icr, out, clean, cleaning>>

(* The oldest packet the driver has not reclaimed, as its last descriptor.  *)
OldestEop ==
    LET eops == {k \in 0 .. Dist(clean, gtail) - 1 : ring[Plus(clean, k)].kind = "eop"}
    IN IF eops = {} THEN {} ELSE {Plus(clean, Min(eops))}

(* The handler takes back a packet whose DD it sees, and stops at the first *)
(* one without.  What a slot holds once it is free is not told apart: it is *)
(* an old EOP, which a transmitter that went past the tail would send.      *)
Reclaim ==
    /\ cleaning
    /\ IF \E i \in OldestEop : ring[i].dd
         THEN \E i \in OldestEop :
              /\ clean' = Plus(i, 1)
              /\ ring' = [j \in Slots |-> IF Dist(clean, j) <= Dist(clean, i)
                                             THEN Stale ELSE ring[j]]
              /\ UNCHANGED cleaning
         ELSE cleaning' = FALSE /\ UNCHANGED <<clean, ring>>
    /\ UNCHANGED <<devVars, runVars, icr, out, gtail, part, gctx, owed>>

-----------------------------------------------------------------------------
Next ==
    \/ TxPoll
    \/ Transmit
    \/ TxRunEnd
    \/ TxEnable
    \/ TxCtlOff
    \/ Spin
    \/ CtrlReset
    \/ WriteTDT
    \/ ReadICR
    \/ \E kind \in Kinds : Fill(kind)
    \/ Reclaim

Spec == Init /\ [][Next]_vars

(* The main loop polls again and again and runs each poll to its end.  It   *)
(* also serves a waiting register access in every turn, so the guest's read *)
(* of ICR, possible between any two polls, is not put off for ever; and its *)
(* handler ends.                                                            *)
Fairness ==
    /\ WF_vars(TxPoll) /\ WF_vars(Transmit) /\ WF_vars(TxRunEnd)
    /\ SF_vars(ReadICR) /\ WF_vars(Reclaim)

FairSpec == Spec /\ Fairness

-----------------------------------------------------------------------------
Abs == INSTANCE E82545TxAbs WITH queue <- owed

(* The backend gets the frames the driver has written, whole, in order,     *)
(* each once, each with the offload context that preceded it in the ring:   *)
(* a partly written packet that made a run stop is sent once it is whole.   *)
InOrderOnce == Abs!Spec

(* With TDHr at the tail the poll rests; then no frame the guest has handed *)
(* over is left behind in the ring.                                         *)
RestMeansSent ==
    pc = "idle" /\ tx_enabled /\ TDHr = TDT /\ TDT = gtail => owed = <<>>

(* A descriptor is marked DD only when its frame has left: the driver, who  *)
(* may look at any moment, never reuses a buffer that is still to be sent.  *)
DoneWasSent ==
    \A f \in Range(owed) : \A i \in Range(f.bufs) : ~ ring[i].dd

(* The three together: indices stay in the ring, the poll's rest leaves no  *)
(* frame behind, and no buffer is given back before it was sent.            *)
IInv == TypeOK /\ RestMeansSent /\ DoneWasSent

(* A packet that is done and not reclaimed will be: the run that completed  *)
(* it is not over, its interrupt is still unread, or the handler is at it.  *)
CompletionIsTold ==
    (\E i \in OldestEop : ring[i].dd)
        => pc \in {"run", "end"} \/ "TXDW" \in icr \/ cleaning

(* A frame that ends in slot i is waiting in [TDH, TDT).                    *)
Offered(i) ==
    /\ Dist(TDH, i) < Dist(TDH, TDT)
    /\ \E f \in Range(owed) : Last(f.bufs) = i

(* Every frame handed over is eventually sent, unless the transmitter is    *)
(* turned off, although a run ends after a quarter of the ring and nothing  *)
(* but the poll restarts it, and however many frames follow.                *)
EventuallySent ==
    \A i \in Slots : (tx_enabled /\ Offered(i)) ~> (~ tx_enabled \/ ~ Offered(i))

DoneAt(i) == i \in OldestEop /\ ring[i].dd

(* Every packet that is done is eventually taken back by the driver, so the *)
(* ring does not stay full.                                                 *)
EventuallyReclaimed == \A i \in Slots : DoneAt(i) ~> (pc = "spin" \/ ~ DoneAt(i))

(* e82545_tx_ctl goes on after the disable ("Save TCTL value ..."): turning *)
(* the transmitter off ends.                                                *)
TxDisableReturns == pc # "spin"
===============================================================================
