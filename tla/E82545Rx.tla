------------------------------- MODULE E82545Rx -------------------------------
(***************************************************************************)
(* The receive side of the emulated Intel 82545 (bhyve/pci_e82545.c and     *)
(* src/virtio.c): the descriptor ring in guest memory, RDH, RDT, RCTL, and  *)
(* e82545_tap_callback, which net_intr calls when the virtio network device *)
(* of the host interrupts.                                                  *)
(*                                                                         *)
(* net_intr never meets a register access or a transmitter run (these have  *)
(* interrupts disabled), but frames arrive and the guest's driver reads the *)
(* ring while it runs.                                                      *)
(***************************************************************************)
EXTENDS Integers, SequencesExt

CONSTANTS
    RxSize,      \* descriptors in the ring, RDLEN / 16
    BufSz,       \* e82545_bufsz
    MaxPktDesc,  \* maxpktdesc, descriptors the largest packet may take
    Thresh,      \* size >> (RDMTS + 1)
    RSRPD,       \* esc_RSRPD
    MinLen,      \* ETHER_MIN_LEN - ETHER_CRC_LEN
    Crc,         \* ETHER_CRC_LEN, 0 with RCTL.SECRC
    Lens,        \* lengths of the frames that arrive
    Foreign,     \* {TRUE, FALSE} if the VLAN filter refuses some, else {FALSE}
    MaxNet,      \* bound: receive buffers of the virtio device
    MaxBufs      \* bound: descriptors the driver gives the device at a time

ASSUME RxAssumption ==
    /\ RxSize \in Nat \ {0} /\ RxSize % 8 = 0   \* the mask on RDLEN
    /\ BufSz \in Nat \ {0} /\ MaxPktDesc \in Nat \ {0} /\ MaxNet \in Nat \ {0}
    /\ Thresh \in Nat /\ RSRPD \in Nat /\ MinLen \in Nat /\ Crc \in Nat
    /\ Lens \subseteq 1 .. BufSz /\ Foreign \subseteq BOOLEAN
    /\ MaxBufs \in 0 .. RxSize - 1

VARIABLES
    ring,         \* the descriptors, in guest memory
    rx_enabled, rx_loopback, rx_active,
    RDH, RDT,
    pc,           \* where net_intr is, see TypeOK
    head, left, lim, cause,   \* locals of e82545_tap_callback
    net,          \* external: frames waiting in the virtio device
    irq,          \* external: its interrupt line
    icr,          \* causes given to e82545_icr_assert and not read yet
    arrived,      \* history: number of the next frame to arrive
    expected,     \* history: number of the next frame the driver should get
    next,         \* external: descriptor the driver looks at next
    reaping       \* external: the driver's handler is at work

runVars == <<head, left, lim, cause>>
regVars == <<rx_enabled, rx_loopback, RDT>>
backVars == <<net, irq, arrived>>
drvVars == <<expected, next, reaping>>
vars == <<ring, regVars, rx_active, RDH, pc, runVars, backVars, icr, drvVars>>

Slots == 0 .. RxSize - 1
Plus(i, n) == (i + n) % RxSize
Dist(a, b) == (b - a) % RxSize   \* descriptors in [a, b)

(* Frames are numbered in the order of their arrival; foreign ones, which   *)
(* the VLAN filter refuses, are not counted: they have the number of the    *)
(* frame that follows.  More numbers than can be under way, so that two     *)
(* frames are told apart.                                                   *)
Ids == 0 .. MaxBufs + MaxNet
NextId(i) == (i + 1) % (MaxBufs + MaxNet + 1)
Frame == [id : Ids, len : Lens, foreign : BOOLEAN]

(* A descriptor: DD and EOP of its status, and the frame whose data is in   *)
(* its buffer.                                                              *)
Desc == [dd : BOOLEAN, eop : BOOLEAN, id : Ids]
Free == [dd |-> FALSE, eop |-> FALSE, id |-> 0]

TypeOK ==
    /\ ring \in [Slots -> Desc]
    /\ rx_enabled \in BOOLEAN /\ rx_loopback \in BOOLEAN /\ rx_active \in BOOLEAN
    /\ irq \in BOOLEAN /\ reaping \in BOOLEAN
    /\ RDH \in Slots /\ RDT \in Slots /\ head \in Slots /\ next \in Slots
    /\ pc \in {"idle",   \* outside net_intr: register accesses run
               "run",    \* at the head of the callback's loop
               "done",   \* at its label done
               "ack"}    \* back in net_intr
    /\ left \in Int /\ lim \in Int
    /\ cause \subseteq {"RXT0", "SRPD", "RXDMT0"} /\ icr \subseteq {"RXT0", "SRPD", "RXDMT0"}
    /\ net \in Seq(Frame) /\ Len(net) <= MaxNet
    /\ arrived \in Ids /\ expected \in Ids

(* The driver has set up its ring and not yet enabled the receiver.         *)
Init ==
    /\ ring = [i \in Slots |-> Free]
    /\ rx_enabled = FALSE /\ rx_loopback = FALSE /\ rx_active = FALSE
    /\ RDH = 0 /\ RDT = 0
    /\ pc = "idle"
    /\ head = 0 /\ left = 0 /\ lim = 0 /\ cause = {}
    /\ net = <<>> /\ irq = FALSE
    /\ icr = {}
    /\ arrived = 0 /\ expected = 0
    /\ next = 0 /\ reaping = FALSE

-----------------------------------------------------------------------------
(* net_intr and e82545_tap_callback.                                        *)

(* The checks before the loop.  A frame that cannot be received now stays   *)
(* in the virtio device.                                                    *)
NetIntr ==
    /\ pc = "idle" /\ irq
    /\ IF rx_enabled /\ ~ rx_loopback /\ Dist(RDH, RDT) >= MaxPktDesc
         THEN /\ rx_active' = TRUE
              /\ pc' = "run"
              /\ head' = RDH /\ left' = Dist(RDH, RDT)
              /\ lim' = RxSize \div 4
              /\ UNCHANGED cause
         ELSE /\ pc' = "ack"
              /\ UNCHANGED <<rx_active, runVars>>
    /\ UNCHANGED <<ring, regVars, RDH, backVars, icr, drvVars>>

(* dm_process_rx over cnt buffers: one virtionet_read for each until one    *)
(* returns nothing.  It takes that many frames and returns the length of    *)
(* the last read.                                                           *)
Taken(cnt) == IF Len(net) < cnt THEN Len(net) ELSE cnt
Returned(cnt) == IF Len(net) < cnt THEN 0 ELSE net[cnt].len

(* The length with padding and CRC, and the descriptors it takes.           *)
Adjusted(len) == (IF len < MinLen THEN MinLen ELSE len) + Crc
Descs(len) == (Adjusted(len) + BufSz - 1) \div BufSz

(* The status of the n descriptors of a packet; the length is left out.     *)
FillDescs(n) ==
    ring' = [i \in Slots |->
        IF Dist(head, i) < n
          THEN [dd |-> TRUE, eop |-> Dist(head, i) = n - 1, id |-> net[1].id]
          ELSE ring[i]]

AdvanceNoLeft(n) ==   \* mutant: left is not counted down
    head' = Plus(head, n) /\ lim' = lim - n /\ UNCHANGED left

Advance(n) == head' = Plus(head, n) /\ left' = left - n /\ lim' = lim - n

(* One turn of the loop, or its end.  A foreign frame is taken and its      *)
(* descriptor used for the next one.                                        *)
RxTurn ==
    LET len == Returned(MaxPktDesc)
        n == Descs(len)
    IN /\ pc = "run"
       /\ IF lim <= 0 \/ left < MaxPktDesc
            THEN pc' = "done" /\ UNCHANGED <<ring, net, runVars>>
            ELSE /\ net' = SubSeq(net, Taken(MaxPktDesc) + 1, Len(net))
                 /\ IF len = 0
                      THEN pc' = "done" /\ UNCHANGED <<ring, head, left, lim, cause>>
                    ELSE IF net[1].foreign
                      THEN UNCHANGED <<ring, head, left, lim, cause, pc>>
                      ELSE /\ FillDescs(n)
                           /\ cause' = cause \cup {"RXT0"}
                                 \cup (IF Adjusted(len) <= RSRPD THEN {"SRPD"} ELSE {})
                           /\ Advance(n)
                           /\ UNCHANGED pc
       /\ UNCHANGED <<regVars, rx_active, RDH, irq, arrived, icr, drvVars>>

RxDoneStaysActive ==   \* mutant: esc_rx_active is not cleared
    /\ pc = "done"
    /\ RDH' = head
    /\ icr' = icr \cup cause
                  \cup (IF Dist(head, RDT) < Thresh THEN {"RXDMT0"} ELSE {})
    /\ pc' = "ack"
    /\ head' = 0 /\ left' = 0 /\ lim' = 0 /\ cause' = {}
    /\ UNCHANGED <<ring, regVars, rx_active, backVars, drvVars>>

RxDoneLateCause ==   \* mutant: tells the guest only of a ring that runs dry
    /\ pc = "done"
    /\ rx_active' = FALSE
    /\ RDH' = head
    /\ icr' = IF Dist(head, RDT) < Thresh THEN icr \cup cause \cup {"RXDMT0"} ELSE icr
    /\ pc' = "ack"
    /\ head' = 0 /\ left' = 0 /\ lim' = 0 /\ cause' = {}
    /\ UNCHANGED <<ring, regVars, backVars, drvVars>>

(* From the label done on.                                                  *)
RxDone ==
    /\ pc = "done"
    /\ rx_active' = FALSE
    /\ RDH' = head
    /\ icr' = icr \cup cause
                  \cup (IF Dist(head, RDT) < Thresh THEN {"RXDMT0"} ELSE {})
    /\ pc' = "ack"
    /\ head' = 0 /\ left' = 0 /\ lim' = 0 /\ cause' = {}
    /\ UNCHANGED <<ring, regVars, backVars, drvVars>>

(* virtionet_handle_interrupt, after the callback.                          *)
NetAck ==
    /\ pc = "ack"
    /\ irq' = FALSE
    /\ pc' = "idle"
    /\ UNCHANGED <<ring, regVars, rx_active, RDH, runVars, net, arrived, icr, drvVars>>

-----------------------------------------------------------------------------
(* Register accesses, handled while net_intr does not run.                  *)

(* RCTL: e82545_rx_ctl where it changes the state.                          *)
RxCtl(on, loop) ==
    /\ pc = "idle"
    /\ on # rx_enabled
    /\ on \/ ~ rx_active   \* else e82545_rx_disable would not return
    /\ rx_enabled' = on
    /\ rx_loopback' = (on /\ loop)
    /\ UNCHANGED <<ring, rx_active, RDH, RDT, pc, runVars, backVars, icr, drvVars>>

(* RDT: the driver gives back what it has reaped, up to MaxBufs.            *)
WriteRDT ==
    /\ pc = "idle"
    /\ RDT # Plus(next, MaxBufs)
    /\ RDT' = Plus(next, MaxBufs)
    /\ UNCHANGED <<ring, rx_enabled, rx_loopback, rx_active, RDH, pc, runVars,
                   backVars, icr, drvVars>>

(* ICR is cleared by the read; RXT0 makes the driver look at the ring.      *)
ReadICR ==
    /\ pc = "idle"
    /\ icr # {}
    /\ icr' = {}
    /\ reaping' = (reaping \/ "RXT0" \in icr)
    /\ UNCHANGED <<ring, regVars, rx_active, RDH, pc, runVars, backVars, expected, next>>

(* A reset through CTRL, after which the driver sets up its ring anew: what *)
(* it had not reaped is given up.                                           *)
CtrlReset ==
    /\ pc = "idle"
    /\ ~ rx_active   \* as in RxCtl
    /\ rx_enabled' = FALSE
    /\ RDH' = 0 /\ RDT' = 0
    /\ icr' = {}
    /\ ring' = [i \in Slots |-> Free]
    /\ next' = 0 /\ reaping' = FALSE
    /\ expected' = IF net = <<>> THEN arrived ELSE net[1].id
    /\ UNCHANGED <<rx_loopback, rx_active, pc, runVars, backVars>>

-----------------------------------------------------------------------------
(* The backend and the driver (external).                                   *)

Arrive(len, foreign) ==
    /\ Len(net) < MaxNet
    /\ net' = Append(net, [id |-> arrived, len |-> len, foreign |-> foreign])
    /\ arrived' = IF foreign THEN arrived ELSE NextId(arrived)
    /\ irq' = TRUE
    /\ UNCHANGED <<ring, regVars, rx_active, RDH, pc, runVars, icr, drvVars>>

(* The handler takes the next descriptor if it is done, else it ends.       *)
Reap ==
    /\ reaping
    /\ IF ring[next].dd
         THEN /\ ring' = [ring EXCEPT ![next] = Free]
              /\ next' = Plus(next, 1)
              /\ expected' = IF ring[next].eop THEN NextId(expected) ELSE expected
              /\ UNCHANGED reaping
         ELSE reaping' = FALSE /\ UNCHANGED <<ring, next, expected>>
    /\ UNCHANGED <<regVars, rx_active, RDH, pc, runVars, backVars, icr>>

-----------------------------------------------------------------------------
Next ==
    \/ NetIntr
    \/ RxTurn
    \/ RxDone
    \/ NetAck
    \/ \E on, loop \in BOOLEAN : RxCtl(on, loop)
    \/ WriteRDT
    \/ ReadICR
    \/ CtrlReset
    \/ \E len \in Lens, foreign \in Foreign : Arrive(len, foreign)
    \/ Reap

Spec == Init /\ [][Next]_vars

(* net_intr runs to its end; a waiting read of ICR is served between two of *)
(* its runs, and the driver's handler ends.                                 *)
FairSpec ==
    /\ Spec
    /\ WF_vars(RxTurn) /\ WF_vars(RxDone) /\ WF_vars(NetAck)
    /\ SF_vars(ReadICR) /\ WF_vars(Reap)

-----------------------------------------------------------------------------
(* Frames of at most one buffer, as with 2048-byte buffers and RCTL.LPE     *)
(* clear.                                                                   *)
SingleBuffer == MaxPktDesc = 1 /\ \A len \in Lens : Descs(len) = 1

(* What is under way, from the ring's oldest done descriptor to the newest  *)
(* frame of the backend, and last the number the next one to arrive gets.   *)
InRing ==
    CHOOSE k \in 0 .. RxSize : /\ k < RxSize => ~ ring[Plus(next, k)].dd
                               /\ \A j \in 0 .. k - 1 : ring[Plus(next, j)].dd
UnderWay ==
    [k \in 1 .. InRing + Len(net) + 1 |->
        IF k <= InRing THEN [id |-> ring[Plus(next, k - 1)].id,
                             counts |-> ring[Plus(next, k - 1)].eop]
        ELSE IF k <= InRing + Len(net)
          THEN [id |-> net[k - InRing].id, counts |-> ~ net[k - InRing].foreign]
        ELSE [id |-> arrived, counts |-> TRUE]]
After(x) == IF x.counts THEN NextId(x.id) ELSE x.id

(* The driver gets every frame the filter lets through, in the order of     *)
(* arrival, none lost, none twice and none overwritten before it has been   *)
(* reaped: the numbers from the one it expects to the one to arrive next    *)
(* follow each other.                                                       *)
InOrder ==
    LET under == UnderWay IN
    \A k \in DOMAIN under :
        under[k].id = IF k = 1 THEN expected ELSE After(under[k - 1])

(* A received frame is told: the callback is not over, RXT0 is unread, or   *)
(* the driver's handler is at work.                                         *)
ReceiptIsTold ==
    ring[next].dd => pc \in {"run", "done"} \/ "RXT0" \in icr \/ reaping

(* esc_rx_active is clear whenever a register access may come, so           *)
(* e82545_rx_disable never waits for a condition nobody signals.            *)
InactiveAtAccess == pc = "idle" => ~ rx_active

(* The three together: indices stay in the ring, a frame in it is told, and *)
(* no access meets an active receiver.                                      *)
IInv == TypeOK /\ ReceiptIsTold /\ InactiveAtAccess

(* The callback finds a frame the VLAN filter refuses.                      *)
Refusing == pc = "run" /\ net # <<>> /\ net[1].foreign

(* Every received frame is eventually reaped, unless refused frames keep    *)
(* coming: they are not counted in lim, so a callback that finds one after  *)
(* the other does not end and its interrupt is never given.                 *)
EventuallyReaped ==
    <>[]~ Refusing =>
        \A i \in Slots : (next = i /\ ring[i].dd) ~> ~ (next = i /\ ring[i].dd)
===============================================================================
