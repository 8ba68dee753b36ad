---------------------------- MODULE E82545RxProofs ----------------------------
(***************************************************************************)
(* Proofs about the receiver of the e1000: what e82545_rx_disable and the   *)
(* driver rely on, and that frames reach the driver in order.               *)
(***************************************************************************)
EXTENDS E82545Rx, SequenceTheorems, TLAPS

-----------------------------------------------------------------------------
(* Arithmetic on the ring.                                                  *)

LEMMA PlusType == ASSUME NEW i \in Int, NEW n \in Int PROVE Plus(i, n) \in Slots
  BY RxAssumption DEF Plus, Slots

LEMMA PlusIs ==
  ASSUME NEW i \in Slots, NEW n \in 0 .. RxSize
  PROVE  Plus(i, n) = IF i + n < RxSize THEN i + n ELSE i + n - RxSize
  BY RxAssumption DEF Plus, Slots

LEMMA DistIs ==
  ASSUME NEW a \in Slots, NEW b \in Slots
  PROVE  Dist(a, b) = IF a <= b THEN b - a ELSE b - a + RxSize
  BY RxAssumption DEF Dist, Slots

LEMMA DescsType == ASSUME NEW len \in Int PROVE Adjusted(len) \in Int /\ Descs(len) \in Int
  BY RxAssumption DEF Adjusted, Descs

LEMMA NextIdType == ASSUME NEW i \in Ids PROVE NextId(i) \in Ids
  BY RxAssumption DEF NextId, Ids

-----------------------------------------------------------------------------
(* The inductive invariant behind IInv.                                     *)

(* esc_rx_active is set just while the callback is between its checks and   *)
(* its end.                                                                 *)
Active ==
    /\ rx_active <=> pc \in {"run", "done"}
    /\ pc \in {"idle", "ack"} => cause = {}

(* The interrupt of a frame in the ring is collected, given or taken up.    *)
Told == ring[next].dd => "RXT0" \in cause \cup icr \/ reaping

RxInv == TypeOK /\ Active /\ Told

Causes == {"RXT0", "SRPD", "RXDMT0"}

LEMMA InitRxInv == Init => RxInv
<1> SUFFICES ASSUME Init PROVE RxInv
  OBVIOUS
<1>1. 0 \in Slots /\ 0 \in Ids /\ Len(<<>>) <= MaxNet
  BY RxAssumption DEF Slots, Ids
<1>2. Free \in Desc /\ Free.dd = FALSE
  BY <1>1 DEF Free, Desc
<1>3. ring \in [Slots -> Desc] /\ ~ ring[next].dd
  BY <1>1, <1>2 DEF Init
<1>4. TypeOK
  BY <1>1, <1>3 DEF Init, TypeOK
<1> QED
  BY <1>3, <1>4 DEF Init, RxInv, Active, Told

LEMMA NetIntrInv == ASSUME RxInv, NetIntr PROVE RxInv'
<1>1. CASE rx_enabled /\ ~ rx_loopback /\ Dist(RDH, RDT) >= MaxPktDesc
  <2>1. /\ rx_active' = TRUE /\ pc' = "run" /\ head' = RDH
        /\ left' = Dist(RDH, RDT) /\ lim' = RxSize \div 4
        /\ UNCHANGED <<cause, ring, regVars, RDH, backVars, icr, drvVars>>
    BY <1>1 DEF NetIntr
  <2>2. RDH \in Slots /\ RDT \in Slots
    BY DEF RxInv, TypeOK
  <2>3. left' \in Int /\ lim' \in Int
    BY <2>1, <2>2, DistIs, RxAssumption DEF Slots
  <2>4. TypeOK'
    BY <2>1, <2>3 DEF RxInv, TypeOK, regVars, backVars, drvVars
  <2> QED
    BY <2>1, <2>4 DEF RxInv, Active, Told, drvVars
<1>2. CASE ~ (rx_enabled /\ ~ rx_loopback /\ Dist(RDH, RDT) >= MaxPktDesc)
  <2>1. /\ pc = "idle" /\ pc' = "ack"
        /\ UNCHANGED <<rx_active, runVars, ring, regVars, RDH, backVars, icr, drvVars>>
    BY <1>2 DEF NetIntr
  <2> QED
    BY <2>1 DEF RxInv, TypeOK, Active, Told, runVars, regVars, backVars, drvVars
<1> QED
  BY <1>1, <1>2

(* What dm_process_rx returns, and leaves.                                  *)
LEMMA ReadFacts ==
  ASSUME TypeOK
  PROVE  /\ Returned(MaxPktDesc) \in Int
         /\ Returned(MaxPktDesc) # 0 => Len(net) >= 1 /\ net[1] \in Frame
         /\ LET rest == SubSeq(net, Taken(MaxPktDesc) + 1, Len(net))
            IN rest \in Seq(Frame) /\ Len(rest) <= MaxNet
<1>1. net \in Seq(Frame) /\ Len(net) \in Nat /\ Len(net) <= MaxNet
      /\ \A k \in 1 .. Len(net) : net[k] \in Frame
  BY DEF TypeOK
<1>2. MaxPktDesc \in Nat \ {0}
  BY RxAssumption
<1>3. \A f \in Frame : f.len \in Int
  <2>1. \A len \in Lens : len \in Int
    BY RxAssumption
  <2> QED
    BY <2>1 DEF Frame
<1>4. Returned(MaxPktDesc) \in Int
  BY <1>1, <1>2, <1>3 DEF Returned
<1>5. Returned(MaxPktDesc) # 0 => Len(net) >= 1 /\ net[1] \in Frame
  BY <1>1, <1>2 DEF Returned
<1> DEFINE m == Taken(MaxPktDesc) + 1
           n == Len(net)
           rest == SubSeq(net, m, n)
<1>6. m \in 1 .. n + 1 /\ m \in Int /\ n \in Int
  BY <1>1, <1>2 DEF Taken
<1>7. \A k \in m .. n : net[k] \in Frame
  BY <1>1, <1>6
<1> HIDE DEF m
<1>8. rest \in Seq(Frame) /\ Len(rest) = IF m <= n THEN n - m + 1 ELSE 0
  BY <1>6, <1>7, SubSeqProperties
<1>9. Len(rest) <= MaxNet
  BY <1>1, <1>2, <1>6, <1>8, RxAssumption
<1> QED
  BY <1>4, <1>5, <1>8, <1>9 DEF m

LEMMA FillType ==
  ASSUME TypeOK, NEW n \in Int, net[1] \in Frame, FillDescs(n)
  PROVE  ring' \in [Slots -> Desc]
<1>1. ASSUME NEW i \in Slots
      PROVE  [dd |-> TRUE, eop |-> Dist(head, i) = n - 1, id |-> net[1].id] \in Desc
  BY DEF Frame, Desc
<1> QED
  BY <1>1 DEF FillDescs, TypeOK

(* The ways a turn of the callback's loop can go.                           *)
LEMMA RxTurnCases ==
  ASSUME TypeOK, RxTurn
  PROVE  LET len == Returned(MaxPktDesc)
             n == Descs(len)
         IN /\ pc = "run"
            /\ UNCHANGED <<regVars, rx_active, RDH, irq, arrived, icr, drvVars>>
            /\ \/ /\ lim <= 0 \/ left < MaxPktDesc
                  /\ pc' = "done" /\ UNCHANGED <<ring, net, runVars>>
               \/ /\ left >= MaxPktDesc /\ len = 0
                  /\ net' = SubSeq(net, Taken(MaxPktDesc) + 1, Len(net))
                  /\ pc' = "done" /\ UNCHANGED <<ring, runVars>>
               \/ /\ left >= MaxPktDesc /\ len # 0 /\ net[1].foreign
                  /\ net' = SubSeq(net, Taken(MaxPktDesc) + 1, Len(net))
                  /\ UNCHANGED <<ring, runVars, pc>>
               \/ /\ left >= MaxPktDesc /\ len # 0 /\ ~ net[1].foreign
                  /\ net' = SubSeq(net, Taken(MaxPktDesc) + 1, Len(net))
                  /\ FillDescs(n) /\ Advance(n) /\ UNCHANGED pc
                  /\ cause' = cause \cup {"RXT0"}
                        \cup (IF Adjusted(len) <= RSRPD THEN {"SRPD"} ELSE {})
<1>1. left \in Int /\ MaxPktDesc \in Int
  BY RxAssumption DEF TypeOK
<1>2. ~ (lim <= 0 \/ left < MaxPktDesc) => left >= MaxPktDesc
  BY <1>1
<1> QED
  BY <1>2 DEF RxTurn, runVars

LEMMA RxTurnInv == ASSUME RxInv, RxTurn PROVE RxInv'
<1> DEFINE len == Returned(MaxPktDesc)
           n == Descs(len)
           rest == SubSeq(net, Taken(MaxPktDesc) + 1, Len(net))
<1>0. TypeOK /\ pc = "run"
      /\ UNCHANGED <<regVars, rx_active, RDH, irq, arrived, icr, drvVars>>
  BY RxTurnCases DEF RxInv
<1>1. /\ len \in Int /\ (len # 0 => net[1] \in Frame) /\ n \in Int
      /\ rest \in Seq(Frame) /\ Len(rest) <= MaxNet
  BY <1>0, ReadFacts, DescsType
<1>2. CASE /\ pc' \in {"run", "done"} /\ UNCHANGED <<ring, runVars>> /\ net' \in {net, rest}
  <2>1. TypeOK'
    BY <1>0, <1>1, <1>2 DEF TypeOK, regVars, runVars, drvVars
  <2> QED
    BY <1>0, <1>2, <2>1 DEF RxInv, Active, Told, runVars, drvVars
<1>3. CASE /\ len # 0 /\ net' = rest /\ FillDescs(n) /\ Advance(n) /\ UNCHANGED pc
           /\ cause' = cause \cup {"RXT0"}
                 \cup (IF Adjusted(len) <= RSRPD THEN {"SRPD"} ELSE {})
  <2>1. ring' \in [Slots -> Desc]
    BY <1>0, <1>1, <1>3, FillType
  <2>2. head' \in Slots /\ left' \in Int /\ lim' \in Int
    <3>1. head \in Int /\ left \in Int /\ lim \in Int
      BY <1>0 DEF TypeOK, Slots
    <3> HIDE DEF n
    <3> QED
      BY <1>1, <1>3, <3>1, PlusType DEF Advance
  <2>3. cause' \subseteq Causes /\ "RXT0" \in cause'
    BY <1>0, <1>3 DEF TypeOK, Causes
  <2>4. TypeOK'
    BY <1>0, <1>1, <1>3, <2>1, <2>2, <2>3 DEF TypeOK, regVars, drvVars, Causes
  <2> QED
    BY <1>0, <1>3, <2>3, <2>4 DEF RxInv, Active, Told
<1> QED
  BY <1>0, <1>2, <1>3, RxTurnCases

LEMMA RxDoneInv == ASSUME RxInv, RxDone PROVE RxInv'
<1>1. /\ rx_active' = FALSE /\ RDH' = head /\ pc' = "ack"
      /\ icr' = icr \cup cause
                  \cup (IF Dist(head, RDT) < Thresh THEN {"RXDMT0"} ELSE {})
      /\ head' = 0 /\ left' = 0 /\ lim' = 0 /\ cause' = {}
      /\ UNCHANGED <<ring, regVars, backVars, drvVars>>
  BY DEF RxDone
<1>2. icr' \subseteq Causes /\ cause \subseteq icr' /\ icr \subseteq icr'
  BY <1>1 DEF RxInv, TypeOK, Causes
<1>3. 0 \in Slots
  BY RxAssumption DEF Slots
<1>4. TypeOK'
  BY <1>1, <1>2, <1>3 DEF RxInv, TypeOK, regVars, backVars, drvVars, Causes
<1> QED
  BY <1>1, <1>2, <1>4 DEF RxInv, Active, Told, drvVars

LEMMA AccessInv ==
  ASSUME RxInv,
         \/ NetAck
         \/ \E on, loop \in BOOLEAN : RxCtl(on, loop)
         \/ WriteRDT
         \/ ReadICR
         \/ CtrlReset
  PROVE  RxInv'
<1>0. TypeOK
  BY DEF RxInv
<1>1. CASE NetAck
  BY <1>1 DEF NetAck, RxInv, TypeOK, Active, Told, runVars, regVars, drvVars
<1>2. CASE \E on, loop \in BOOLEAN : RxCtl(on, loop)
  <2>1. PICK on \in BOOLEAN, loop \in BOOLEAN : RxCtl(on, loop)
    BY <1>2
  <2>2. rx_enabled' \in BOOLEAN /\ rx_loopback' \in BOOLEAN
    BY <2>1 DEF RxCtl
  <2> QED
    BY <2>1, <2>2 DEF RxCtl, RxInv, TypeOK, Active, Told, runVars, backVars, drvVars
<1>3. CASE WriteRDT
  <2>1. RDT' \in Slots
    BY <1>0, <1>3, PlusType, RxAssumption DEF WriteRDT, TypeOK, Slots
  <2> QED
    BY <1>3, <2>1 DEF WriteRDT, RxInv, TypeOK, Active, Told, runVars, backVars, drvVars
<1>4. CASE ReadICR
  <2>1. /\ pc = "idle" /\ icr' = {} /\ reaping' = (reaping \/ "RXT0" \in icr)
        /\ UNCHANGED <<ring, regVars, rx_active, RDH, pc, runVars, backVars, expected, next>>
    BY <1>4 DEF ReadICR
  <2>2. reaping' \in BOOLEAN
    BY <2>1
  <2>3. TypeOK'
    BY <1>0, <2>1, <2>2 DEF TypeOK, runVars, regVars, backVars
  <2>4. Active'
    BY <2>1 DEF RxInv, Active, runVars
  <2>5. Told'
    BY <2>1 DEF RxInv, Told, Active, runVars
  <2> QED
    BY <2>3, <2>4, <2>5 DEF RxInv
<1>5. CASE CtrlReset
  <2>1. 0 \in Slots /\ 0 \in Ids
    BY RxAssumption DEF Slots, Ids
  <2>2. Free \in Desc /\ Free.dd = FALSE
    BY <2>1 DEF Free, Desc
  <2>3. ring' \in [Slots -> Desc] /\ ~ ring'[0].dd
    BY <1>5, <2>1, <2>2 DEF CtrlReset
  <2>4. expected' \in Ids
    <3>1. net # <<>> => net[1] \in Frame
      BY <1>0 DEF TypeOK
    <3> QED
      BY <1>0, <1>5, <3>1 DEF CtrlReset, TypeOK, Frame
  <2>5. TypeOK'
    BY <1>0, <1>5, <2>1, <2>3, <2>4 DEF CtrlReset, TypeOK, runVars, backVars
  <2> QED
    BY <1>5, <2>3, <2>5 DEF CtrlReset, RxInv, Active, Told, runVars
<1> QED
  BY <1>1, <1>2, <1>3, <1>4, <1>5

LEMMA ArriveInv ==
  ASSUME RxInv, NEW len \in Lens, NEW foreign \in Foreign, Arrive(len, foreign)
  PROVE  RxInv'
<1>0. TypeOK /\ foreign \in BOOLEAN
  BY RxAssumption DEF RxInv
<1> DEFINE f == [id |-> arrived, len |-> len, foreign |-> foreign]
<1>1. f \in Frame /\ Len(net) < MaxNet /\ net' = Append(net, f)
  BY <1>0 DEF Arrive, Frame, TypeOK
<1> HIDE DEF f
<1>2. net' \in Seq(Frame) /\ Len(net') <= MaxNet
  BY <1>0, <1>1, RxAssumption DEF TypeOK
<1>3. arrived' \in Ids
  BY <1>0, NextIdType DEF Arrive, TypeOK
<1>4. TypeOK'
  BY <1>0, <1>2, <1>3 DEF Arrive, TypeOK, regVars, runVars, drvVars
<1> QED
  BY <1>4 DEF Arrive, RxInv, Active, Told, runVars, drvVars

LEMMA ReapInv == ASSUME RxInv, Reap PROVE RxInv'
<1>0. TypeOK /\ reaping
  BY DEF RxInv, Reap
<1>1. CASE ring[next].dd
  <2>1. /\ ring' = [ring EXCEPT ![next] = Free] /\ next' = Plus(next, 1)
        /\ expected' = IF ring[next].eop THEN NextId(expected) ELSE expected
        /\ UNCHANGED <<reaping, regVars, rx_active, RDH, pc, runVars, backVars, icr>>
    BY <1>1 DEF Reap
  <2>2. Free \in Desc
    BY RxAssumption DEF Free, Desc, Ids
  <2>3. next' \in Slots /\ expected' \in Ids
    BY <1>0, <2>1, PlusType, NextIdType DEF TypeOK, Slots
  <2>4. TypeOK'
    BY <1>0, <2>1, <2>2, <2>3 DEF TypeOK, regVars, runVars, backVars
  <2> QED
    BY <1>0, <2>1, <2>4 DEF RxInv, Active, Told, runVars
<1>2. CASE ~ ring[next].dd
  BY <1>2 DEF Reap, RxInv, TypeOK, Active, Told, regVars, runVars, backVars
<1> QED
  BY <1>1, <1>2

LEMMA NextRxInv == ASSUME RxInv, [Next]_vars PROVE RxInv'
<1>1. CASE UNCHANGED vars
  BY <1>1 DEF vars, regVars, runVars, backVars, drvVars, RxInv, TypeOK, Active, Told
<1> QED
  BY <1>1, NetIntrInv, RxTurnInv, RxDoneInv, AccessInv, ArriveInv, ReapInv DEF Next

LEMMA RxInvHolds == Spec => []RxInv
<1>1. Init => RxInv
  BY InitRxInv
<1>2. RxInv /\ [Next]_vars => RxInv'
  BY NextRxInv
<1> QED
  BY <1>1, <1>2, PTL DEF Spec

(* Indices stay in the ring; e82545_rx_disable never finds esc_rx_active    *)
(* set, so the condition nobody signals is not waited for; and no frame     *)
(* lies in the ring untold, whatever is reaped and arrives during a run.    *)
THEOREM Inductive == Spec => []IInv
<1>1. RxInv => IInv
  BY DEF RxInv, Active, Told, IInv, TypeOK, ReceiptIsTold, InactiveAtAccess
<1> QED
  BY <1>1, RxInvHolds, PTL

-----------------------------------------------------------------------------
(* Frames in order.  The arithmetic first: a step forward in the ring.      *)

LEMMA DistFacts ==
  ASSUME NEW a \in Slots
  PROVE  /\ Dist(a, a) = 0
         /\ \A b \in Slots : Dist(a, b) \in 0 .. RxSize - 1 /\ (Dist(a, b) = 0 => b = a)
         /\ \A b, c \in Slots : Dist(a, b) = Dist(a, c) => b = c
         /\ \A b, c \in Slots : Dist(a, b) <= Dist(a, c)
                                  => Dist(b, c) = Dist(a, c) - Dist(a, b)
<1>0. RxSize \in Nat /\ a \in Int /\ 0 <= a /\ a < RxSize
  BY RxAssumption DEF Slots
<1>1. Dist(a, a) = 0
  BY <1>0, DistIs
<1>2. ASSUME NEW b \in Slots
      PROVE  Dist(a, b) \in 0 .. RxSize - 1 /\ (Dist(a, b) = 0 => b = a)
  <2>1. b \in Int /\ 0 <= b /\ b < RxSize
    BY <1>0 DEF Slots
  <2>2. Dist(a, b) = IF a <= b THEN b - a ELSE b - a + RxSize
    BY DistIs
  <2> QED
    BY <1>0, <2>1, <2>2
<1>3. ASSUME NEW b \in Slots, NEW c \in Slots
      PROVE  /\ Dist(a, b) = Dist(a, c) => b = c
             /\ Dist(a, b) <= Dist(a, c) => Dist(b, c) = Dist(a, c) - Dist(a, b)
  <2>1. b \in Int /\ 0 <= b /\ b < RxSize /\ c \in Int /\ 0 <= c /\ c < RxSize
    BY <1>0 DEF Slots
  <2>2. /\ Dist(a, b) = IF a <= b THEN b - a ELSE b - a + RxSize
        /\ Dist(a, c) = IF a <= c THEN c - a ELSE c - a + RxSize
        /\ Dist(b, c) = IF b <= c THEN c - b ELSE c - b + RxSize
    BY DistIs
  <2> QED
    BY <1>0, <2>1, <2>2
<1> QED
  BY <1>1, <1>2, <1>3

Prev(i) == Plus(i, RxSize - 1)

LEMMA StepFacts ==
  ASSUME NEW a \in Slots
  PROVE  /\ Plus(a, 1) \in Slots /\ Plus(a, 1) # a
         /\ Prev(a) \in Slots /\ Prev(Plus(a, 1)) = a /\ Plus(Prev(a), 1) = a
         /\ \A b \in Slots : b # a => Dist(Plus(a, 1), b) = Dist(a, b) - 1
         /\ Dist(Plus(a, 1), a) = RxSize - 1
         /\ \A n \in Slots : Dist(n, a) < RxSize - 1 => Dist(n, Plus(a, 1)) = Dist(n, a) + 1
         /\ \A n \in Slots : Dist(n, a) # 0 => Dist(n, Prev(a)) = Dist(n, a) - 1
<1>1. RxSize \in Nat /\ RxSize >= 2 /\ RxSize - 1 \in 0 .. RxSize /\ 1 \in 0 .. RxSize
  BY RxAssumption
<1>2. /\ Plus(a, 1) = IF a + 1 < RxSize THEN a + 1 ELSE a + 1 - RxSize
      /\ Prev(a) = IF a + (RxSize - 1) < RxSize THEN a + (RxSize - 1)
                                                ELSE a + (RxSize - 1) - RxSize
  BY <1>1, PlusIs DEF Prev
<1>3. Plus(a, 1) \in Slots /\ Plus(a, 1) # a /\ Prev(a) \in Slots
  BY <1>1, <1>2 DEF Slots
<1>4. /\ Prev(Plus(a, 1)) = a
  <2> DEFINE b == Plus(a, 1)
  <2>1. Prev(b) = IF b + (RxSize - 1) < RxSize THEN b + (RxSize - 1)
                                               ELSE b + (RxSize - 1) - RxSize
    BY <1>1, <1>3, PlusIs DEF Prev
  <2> QED
    BY <1>1, <1>2, <2>1 DEF Slots
<1>5. Plus(Prev(a), 1) = a
  <2> DEFINE b == Prev(a)
  <2>1. Plus(b, 1) = IF b + 1 < RxSize THEN b + 1 ELSE b + 1 - RxSize
    BY <1>1, <1>3, PlusIs
  <2> QED
    BY <1>1, <1>2, <2>1 DEF Slots
<1>6. \A b \in Slots : b # a => Dist(Plus(a, 1), b) = Dist(a, b) - 1
  BY <1>1, <1>2, <1>3, DistIs DEF Slots
<1>7. Dist(Plus(a, 1), a) = RxSize - 1
  BY <1>1, <1>2, <1>3, DistIs DEF Slots
<1>8. \A n \in Slots : Dist(n, a) < RxSize - 1 => Dist(n, Plus(a, 1)) = Dist(n, a) + 1
  BY <1>1, <1>2, <1>3, DistIs DEF Slots
<1>9. \A n \in Slots : Dist(n, a) # 0 => Dist(n, Prev(a)) = Dist(n, a) - 1
  BY <1>1, <1>2, <1>3, DistIs DEF Slots
<1> QED
  BY <1>3, <1>4, <1>5, <1>6, <1>7, <1>8, <1>9

LEMMA ForwardFacts ==
  ASSUME NEW a \in Slots, NEW k \in 0 .. RxSize - 1
  PROVE  Plus(a, k) \in Slots /\ Dist(a, Plus(a, k)) = k
<1>1. k \in 0 .. RxSize /\ k \in Int /\ RxSize \in Nat
  BY RxAssumption
<1>2. Plus(a, k) = IF a + k < RxSize THEN a + k ELSE a + k - RxSize
  BY <1>1, PlusIs
<1>3. Plus(a, k) \in Slots
  BY <1>1, <1>2 DEF Slots
<1> QED
  BY <1>1, <1>2, <1>3, DistIs DEF Slots

(* The invariant.  Where the device puts the next frame, ...                *)
Ahead == IF pc \in {"run", "done"} THEN head ELSE RDH

(* ... the done descriptors lie between the driver and that place, and the  *)
(* ones given to the device between that place and RDT, ...                 *)
Region ==
    /\ Dist(next, Ahead) <= Dist(next, RDT) /\ Dist(next, RDT) <= MaxBufs
    /\ \A i \in Slots : /\ ring[i].dd <=> Dist(next, i) < Dist(next, Ahead)
                        /\ ring[i].dd => ring[i].eop
    /\ pc \in {"run", "done"} => left = Dist(head, RDT)

(* ... the frames that wait have consecutive numbers, ...                   *)
AfterFrame(f) == IF f.foreign THEN f.id ELSE NextId(f.id)
WaitingChain ==
    /\ \A k \in 2 .. Len(net) : net[k].id = AfterFrame(net[k - 1])
    /\ net # <<>> => arrived = AfterFrame(net[Len(net)])
FirstWaiting == IF net = <<>> THEN arrived ELSE net[1].id

(* ... and so have the ones in the ring, which come before.                 *)
RingChain ==
    /\ \A i \in Slots : ring[i].dd /\ ring[Plus(i, 1)].dd
                          => ring[Plus(i, 1)].id = NextId(ring[i].id)
    /\ ring[next].dd => ring[next].id = expected
Joined ==
    FirstWaiting = IF Ahead = next THEN expected ELSE NextId(ring[Prev(Ahead)].id)

OrderInv == Region /\ WaitingChain /\ RingChain /\ Joined

LEMMA InitOrder == Init => OrderInv
<1> SUFFICES ASSUME Init PROVE OrderInv
  OBVIOUS
<1>1. 0 \in Slots /\ RDH = 0 /\ RDT = 0 /\ next = 0 /\ Ahead = 0 /\ net = <<>>
      /\ Dist(0, 0) = 0 /\ MaxBufs >= 0
  BY DistFacts, RxAssumption DEF Init, Slots, Ahead
<1>2. \A i \in Slots : ~ ring[i].dd /\ Dist(0, i) \in Nat
  BY <1>1, DistFacts DEF Init, Free
<1>3. Region
  BY <1>1, <1>2 DEF Init, Region
<1>4. WaitingChain
  BY <1>1 DEF WaitingChain
<1>5. RingChain
  BY <1>1, <1>2 DEF RingChain
<1>6. Joined
  BY <1>1 DEF Init, Joined, FirstWaiting
<1> QED
  BY <1>3, <1>4, <1>5, <1>6 DEF OrderInv

(* Steps that touch none of it.                                             *)
LEMMA SameOrder ==
  ASSUME OrderInv, UNCHANGED <<ring, next, RDT, expected, net, arrived>>, Ahead' = Ahead,
         pc' \in {"run", "done"} => left' = Dist(head, RDT)'
  PROVE  OrderInv'
<1>1. Region'
  BY DEF OrderInv, Region
<1>2. WaitingChain'
  BY DEF OrderInv, WaitingChain
<1>3. RingChain'
  BY DEF OrderInv, RingChain
<1>4. Joined'
  BY DEF OrderInv, Joined, FirstWaiting
<1> QED
  BY <1>1, <1>2, <1>3, <1>4 DEF OrderInv

(* The frame at the head of the backend's queue is taken.                   *)
LEMMA TakeOne ==
  ASSUME TypeOK, WaitingChain, Len(net) >= 1, net' = SubSeq(net, 2, Len(net)),
         arrived' = arrived
  PROVE  WaitingChain' /\ FirstWaiting' = AfterFrame(net[1])
<1>1. net \in Seq(Frame) /\ Len(net) \in Nat /\ \A k \in 1 .. Len(net) : net[k] \in Frame
  BY DEF TypeOK
<1> DEFINE n == Len(net)
           rest == SubSeq(net, 2, n)
<1>2. /\ net' \in Seq(Frame) /\ Len(net') = n - 1
      /\ \A k \in 1 .. n - 1 : net'[k] = net[k + 1]
  <2>1. \A k \in 2 .. n : net[k] \in Frame
    BY <1>1
  <2>2. /\ rest \in Seq(Frame)
        /\ Len(rest) = IF 2 <= n THEN n - 2 + 1 ELSE 0
        /\ \A k \in 1 .. n - 2 + 1 : rest[k] = net[2 + k - 1]
    BY <1>1, <2>1, SubSeqProperties
  <2>3. net' = rest
    OBVIOUS
  <2> HIDE DEF rest
  <2>4. n \in Nat /\ n >= 1
    BY <1>1
  <2> HIDE DEF n
  <2>5. Len(rest) = n - 1 /\ n - 2 + 1 = n - 1
    BY <2>2, <2>4
  <2>6. ASSUME NEW k \in 1 .. n - 1 PROVE rest[k] = net[k + 1]
    <3>1. 2 + k - 1 = k + 1 /\ k \in 1 .. n - 2 + 1
      BY <2>4
    <3> QED
      BY <2>2, <3>1
  <2> QED
    BY <2>2, <2>3, <2>5, <2>6
<1>3. \A k \in 2 .. n - 1 : net'[k].id = AfterFrame(net'[k - 1])
  <2> TAKE k \in 2 .. n - 1
  <2>1. net'[k] = net[k + 1] /\ net'[k - 1] = net[k]
    BY <1>1, <1>2
  <2>2. k + 1 \in 2 .. n /\ (k + 1) - 1 = k
    BY <1>1
  <2>3. net[k + 1].id = AfterFrame(net[k])
    BY <2>2 DEF WaitingChain
  <2> QED
    BY <2>1, <2>3
<1>4. CASE n = 1
  <2>1. net' = <<>>
    BY <1>2, <1>4, EmptySeq
  <2>2. net # <<>> /\ arrived = AfterFrame(net[1])
    BY <1>1, <1>4 DEF WaitingChain
  <2>3. WaitingChain'
    <3>1. Len(net') = 0
      BY <2>1
    <3> QED
      BY <2>1, <3>1 DEF WaitingChain
  <2> QED
    BY <2>1, <2>2, <2>3 DEF FirstWaiting
<1>5. CASE n # 1
  <2>0. n \in Nat /\ n >= 2
    <3>1. n \in Nat /\ n >= 1 /\ n # 1
      BY <1>1, <1>5
    <3> HIDE DEF n
    <3> QED
      BY <3>1
  <2>1. net' # <<>> /\ net # <<>> /\ net'[1] = net[2] /\ net'[Len(net')] = net[n]
    <3>1. 1 \in 1 .. n - 1 /\ n - 1 \in 1 .. n - 1 /\ 1 + 1 = 2 /\ (n - 1) + 1 = n
      BY <2>0
    <3>2. net'[1] = net[2] /\ net'[n - 1] = net[n]
      BY <1>2, <3>1
    <3>3. Len(net') # 0 /\ Len(net) # 0 /\ Len(net') = n - 1
      <4>1. Len(net') = n - 1 /\ Len(net) = n
        BY <1>2
      <4> HIDE DEF n
      <4> QED
        BY <2>0, <4>1
    <3>4. net' # <<>> /\ net # <<>>
      BY <3>3
    <3> QED
      BY <3>2, <3>3, <3>4
  <2>2. net[2].id = AfterFrame(net[1])
    <3>1. 2 \in 2 .. Len(net) /\ 2 - 1 = 1
      BY <2>0
    <3> QED
      BY <3>1 DEF WaitingChain
  <2>3. arrived' = AfterFrame(net'[Len(net')])
    BY <2>1 DEF WaitingChain
  <2>4. FirstWaiting' = AfterFrame(net[1])
    BY <2>1, <2>2 DEF FirstWaiting
  <2> QED
    BY <1>2, <1>3, <2>3, <2>4 DEF WaitingChain
<1> QED
  BY <1>4, <1>5

(* What the invariant says of the place in front of the device.             *)
LEMMA FrontFacts ==
  ASSUME TypeOK, Region
  PROVE  /\ Ahead \in Slots /\ next \in Slots /\ RDT \in Slots
         /\ Dist(next, Ahead) \in 0 .. RxSize - 1 /\ Dist(next, RDT) \in 0 .. RxSize - 1
         /\ \A i \in Slots : Dist(next, i) \in 0 .. RxSize - 1
         /\ ~ ring[Ahead].dd
<1>1. Ahead \in Slots /\ next \in Slots /\ RDT \in Slots
  BY DEF TypeOK, Ahead
<1>2. \A i \in Slots : Dist(next, i) \in 0 .. RxSize - 1
  BY <1>1, DistFacts
<1>3. ~ (Dist(next, Ahead) < Dist(next, Ahead))
  BY <1>1, <1>2
<1> QED
  BY <1>1, <1>2, <1>3 DEF Region

LEMMA CallbackOrder ==
  ASSUME TypeOK, OrderInv, NetIntr \/ RxDone \/ NetAck PROVE OrderInv'
<1>1. CASE NetIntr
  <2>1. pc = "idle" /\ UNCHANGED <<ring, next, RDT, expected, net, arrived, RDH>>
    BY <1>1 DEF NetIntr, regVars, backVars, drvVars
  <2>2. CASE pc' = "run"
    <3>1. head' = RDH /\ left' = Dist(RDH, RDT)
      BY <1>1, <2>2 DEF NetIntr
    <3>2. Ahead' = Ahead /\ left' = Dist(head, RDT)'
      BY <2>1, <2>2, <3>1 DEF Ahead
    <3> QED
      BY <2>1, <3>2, SameOrder
  <2>3. CASE pc' = "ack"
    <3>1. Ahead' = Ahead
      BY <2>1, <2>3 DEF Ahead
    <3> QED
      BY <2>1, <2>3, <3>1, SameOrder
  <2> QED
    BY <1>1, <2>2, <2>3 DEF NetIntr
<1>2. CASE RxDone
  <2>1. pc = "done" /\ pc' = "ack" /\ RDH' = head
        /\ UNCHANGED <<ring, next, RDT, expected, net, arrived>>
    BY <1>2 DEF RxDone, regVars, backVars, drvVars
  <2>2. Ahead' = Ahead
    BY <2>1 DEF Ahead
  <2> QED
    BY <2>1, <2>2, SameOrder
<1>3. CASE NetAck
  <2>1. pc = "ack" /\ pc' = "idle"
        /\ UNCHANGED <<ring, next, RDT, expected, net, arrived, RDH>>
    BY <1>3 DEF NetAck, regVars, drvVars
  <2>2. Ahead' = Ahead
    BY <2>1 DEF Ahead
  <2> QED
    BY <2>1, <2>2, SameOrder
<1> QED
  BY <1>1, <1>2, <1>3

LEMMA AccessOrder ==
  ASSUME TypeOK, OrderInv, (\E on, loop \in BOOLEAN : RxCtl(on, loop)) \/ ReadICR
  PROVE  OrderInv'
<1>1. pc = "idle" /\ pc' = "idle"
      /\ UNCHANGED <<ring, next, RDT, expected, net, arrived, RDH>>
  BY DEF RxCtl, ReadICR, regVars, backVars, drvVars
<1>2. Ahead' = Ahead
  BY <1>1 DEF Ahead
<1> QED
  BY <1>1, <1>2, SameOrder

(* The driver gives back only what it has reaped, so RDT stays MaxBufs or   *)
(* less ahead of it and does not pass the device.                           *)
LEMMA WriteRDTOrder == ASSUME TypeOK, OrderInv, WriteRDT PROVE OrderInv'
<1>1. /\ pc = "idle" /\ pc' = "idle" /\ RDT' = Plus(next, MaxBufs)
      /\ UNCHANGED <<ring, next, expected, net, arrived, RDH, head>>
  BY DEF WriteRDT, backVars, drvVars, runVars
<1>2. Ahead' = Ahead
  BY <1>1 DEF Ahead
<1>3. next \in Slots /\ MaxBufs \in 0 .. RxSize - 1 /\ MaxBufs \in Int
  BY RxAssumption DEF TypeOK
<1>4. Dist(next, RDT') = MaxBufs
  BY <1>1, <1>3, ForwardFacts
<1>5. Dist(next, Ahead) \in Int /\ Dist(next, RDT) \in Int
      /\ Dist(next, Ahead) <= Dist(next, RDT) /\ Dist(next, RDT) <= MaxBufs
  BY FrontFacts DEF OrderInv, Region
<1>6. Dist(next, Ahead) <= MaxBufs /\ MaxBufs <= MaxBufs
  BY <1>3, <1>5
<1>7. Region'
  BY <1>1, <1>2, <1>4, <1>6 DEF OrderInv, Region
<1>8. WaitingChain'
  BY <1>1 DEF OrderInv, WaitingChain
<1>9. RingChain'
  BY <1>1 DEF OrderInv, RingChain
<1>10. Joined'
  BY <1>1, <1>2 DEF OrderInv, Joined, FirstWaiting
<1> QED
  BY <1>7, <1>8, <1>9, <1>10 DEF OrderInv

LEMMA ResetOrder == ASSUME TypeOK, OrderInv, CtrlReset PROVE OrderInv'
<1>1. /\ pc' = "idle" /\ RDH' = 0 /\ RDT' = 0 /\ next' = 0
      /\ ring' = [i \in Slots |-> Free]
      /\ expected' = FirstWaiting
      /\ UNCHANGED <<net, arrived>>
  BY DEF CtrlReset, backVars, FirstWaiting
<1>2. 0 \in Slots /\ Ahead' = 0 /\ Dist(0, 0) = 0 /\ MaxBufs >= 0
  BY <1>1, DistFacts, RxAssumption DEF Slots, Ahead
<1>3. \A i \in Slots : ~ ring'[i].dd /\ Dist(0, i) \in Nat
  BY <1>1, <1>2, DistFacts DEF Free
<1>4. Region'
  BY <1>1, <1>2, <1>3 DEF Region
<1>5. WaitingChain'
  BY <1>1 DEF OrderInv, WaitingChain
<1>6. RingChain'
  BY <1>1, <1>2, <1>3 DEF RingChain
<1>7. Joined'
  BY <1>1, <1>2 DEF Joined, FirstWaiting
<1> QED
  BY <1>4, <1>5, <1>6, <1>7 DEF OrderInv

LEMMA ArriveOrder ==
  ASSUME TypeOK, OrderInv, NEW len \in Lens, NEW foreign \in Foreign, Arrive(len, foreign)
  PROVE  OrderInv'
<1> DEFINE f == [id |-> arrived, len |-> len, foreign |-> foreign]
           n == Len(net)
<1>1. /\ net' = Append(net, f) /\ arrived' = AfterFrame(f)
      /\ UNCHANGED <<ring, pc, RDH, RDT, head, left, next, expected>>
  BY DEF Arrive, AfterFrame, regVars, runVars, drvVars
<1>2. f \in Frame /\ f.id = arrived
  BY RxAssumption DEF Frame, TypeOK
<1> HIDE DEF f
<1>3. net \in Seq(Frame) /\ n \in Nat
  BY DEF TypeOK
<1>4. /\ Len(net') = n + 1 /\ net'[n + 1] = f
      /\ \A k \in 1 .. n : net'[k] = net[k]
  BY <1>1, <1>2, <1>3, AppendProperties
<1>5. net' # <<>>
  <2>1. Len(net') # 0
    BY <1>3, <1>4
  <2> QED
    BY <2>1
<1>6. FirstWaiting' = FirstWaiting
  <2>1. CASE net = <<>>
    <3>1. n = 0
      BY <2>1
    <3>2. net'[1] = f
      BY <1>4, <3>1
    <3> QED
      BY <1>2, <1>5, <2>1, <3>2 DEF FirstWaiting
  <2>2. CASE net # <<>>
    <3>1. n # 0
      BY <1>3, <2>2, EmptySeq
    <3>2. net'[1] = net[1]
      <4>1. 1 \in 1 .. n
        BY <1>3, <3>1
      <4> QED
        BY <1>4, <4>1
    <3> QED
      BY <1>5, <2>2, <3>2 DEF FirstWaiting
  <2> QED
    BY <2>1, <2>2
<1>7. \A k \in 2 .. n + 1 : net'[k].id = AfterFrame(net'[k - 1])
  <2> TAKE k \in 2 .. n + 1
  <2> HIDE DEF n
  <2>0. k - 1 \in 1 .. n /\ k \in Int
    BY <1>3
  <2>1. net'[k - 1] = net[k - 1]
    BY <1>4, <2>0
  <2>2. CASE k = n + 1
    <3>1. k - 1 = n /\ n # 0
      BY <1>3, <2>0, <2>2
    <3>2. arrived = AfterFrame(net[n])
      BY <3>1 DEF OrderInv, WaitingChain, n
    <3> QED
      BY <1>2, <1>4, <2>1, <2>2, <3>1, <3>2
  <2>3. CASE k # n + 1
    <3>1. k \in 2 .. n /\ k \in 1 .. n
      BY <1>3, <2>0, <2>3
    <3>2. net[k].id = AfterFrame(net[k - 1])
      BY <3>1 DEF OrderInv, WaitingChain, n
    <3> QED
      BY <1>4, <2>1, <3>1, <3>2
  <2> QED
    BY <2>2, <2>3
<1>8. WaitingChain'
  BY <1>1, <1>4, <1>7 DEF WaitingChain
<1>9. Ahead' = Ahead
  BY <1>1 DEF Ahead
<1>10. Region'
  BY <1>1, <1>9 DEF OrderInv, Region
<1>11. RingChain'
  BY <1>1 DEF OrderInv, RingChain
<1>12. Joined'
  BY <1>1, <1>6, <1>9 DEF OrderInv, Joined
<1> QED
  BY <1>8, <1>10, <1>11, <1>12 DEF OrderInv

(* The driver takes the oldest descriptor, which holds the frame expected.  *)
LEMMA ReapOrder == ASSUME TypeOK, OrderInv, Reap PROVE OrderInv'
<1>0. UNCHANGED <<RDT, RDH, pc, head, left, net, arrived>> /\ Ahead' = Ahead
  BY DEF Reap, regVars, runVars, backVars, Ahead
<1>1. CASE ~ ring[next].dd
  <2>1. UNCHANGED <<ring, next, expected>>
    BY <1>1 DEF Reap
  <2>2. pc' \in {"run", "done"} => left' = Dist(head, RDT)'
    BY <1>0 DEF OrderInv, Region
  <2> QED
    BY <1>0, <2>1, <2>2, SameOrder
<1>2. CASE ring[next].dd
  <2>0. /\ Ahead \in Slots /\ next \in Slots /\ RDT \in Slots
        /\ \A i \in Slots : Dist(next, i) \in 0 .. RxSize - 1
        /\ ring \in [Slots -> Desc]
    BY FrontFacts DEF OrderInv, TypeOK
  <2> DEFINE d == Dist(next, Ahead)
             e == Dist(next, RDT)
             m == Plus(next, 1)
  <2>1. /\ ring' = [ring EXCEPT ![next] = Free] /\ next' = m
        /\ expected' = IF ring[next].eop THEN NextId(expected) ELSE expected
    BY <1>2 DEF Reap
  <2>2. /\ m \in Slots /\ m # next /\ Prev(m) = next
        /\ \A b \in Slots : b # next => Dist(m, b) = Dist(next, b) - 1
        /\ Dist(m, next) = RxSize - 1
    BY <2>0, StepFacts
  <2>3. d > 0 /\ d <= e /\ e <= MaxBufs /\ MaxBufs <= RxSize - 1
        /\ d \in Int /\ e \in Int /\ MaxBufs \in Int /\ RxSize \in Int
    <3>1. Dist(next, next) = 0 /\ Dist(next, next) < d
      BY <1>2, <2>0, DistFacts DEF OrderInv, Region
    <3> QED
      BY <2>0, <3>1, RxAssumption DEF OrderInv, Region
  <2>4. Ahead # next /\ RDT # next
    <3>1. Dist(next, next) = 0
      BY <2>0, DistFacts
    <3> QED
      BY <2>3, <3>1
  <2>5. Dist(m, Ahead) = d - 1 /\ Dist(m, RDT) = e - 1
    BY <2>0, <2>2, <2>4
  <2>6. /\ ~ ring'[next].dd
        /\ \A i \in Slots : i # next => ring'[i] = ring[i]
    BY <2>0, <2>1 DEF Free
  <2>7. Region'
    <3>1. d - 1 <= e - 1 /\ e - 1 <= MaxBufs
      BY <2>3
    <3>2. ASSUME NEW i \in Slots
          PROVE  (ring'[i].dd <=> Dist(m, i) < d - 1) /\ (ring'[i].dd => ring'[i].eop)
      <4>1. CASE i = next
        <5>1. ~ (RxSize - 1 < d - 1)
          BY <2>3
        <5> QED
          BY <2>2, <2>6, <4>1, <5>1
      <4>2. CASE i # next
        <5>1. Dist(m, i) = Dist(next, i) - 1 /\ Dist(next, i) \in Int
          BY <2>0, <2>2, <4>2
        <5>2. Dist(m, i) < d - 1 <=> Dist(next, i) < d
          BY <2>3, <5>1
        <5> QED
          BY <2>6, <4>2, <5>2 DEF OrderInv, Region
      <4> QED
        BY <4>1, <4>2
    <3> HIDE DEF d, e, m
    <3> QED
      BY <1>0, <2>1, <2>5, <3>1, <3>2 DEF OrderInv, Region
  <2>8. WaitingChain'
    BY <1>0 DEF OrderInv, WaitingChain
  <2>9. expected' = NextId(expected) /\ ring[next].id = expected
    BY <1>2, <2>0, <2>1 DEF OrderInv, Region, RingChain
  <2>10. RingChain'
    <3>1. ASSUME NEW i \in Slots, ring'[i].dd, ring'[Plus(i, 1)].dd
          PROVE  ring'[Plus(i, 1)].id = NextId(ring'[i].id)
      <4>1. Plus(i, 1) \in Slots
        BY StepFacts
      <4>2. i # next /\ Plus(i, 1) # next
        BY <2>6, <3>1
      <4>3. ring'[i] = ring[i] /\ ring'[Plus(i, 1)] = ring[Plus(i, 1)]
        BY <2>6, <4>1, <4>2
      <4> QED
        BY <3>1, <4>3 DEF OrderInv, RingChain
    <3>2. ring'[m].dd => ring'[m].id = expected'
      <4>1. ring'[m] = ring[m]
        BY <2>2, <2>6
      <4>2. ring[m].dd => ring[m].id = NextId(ring[next].id)
        BY <1>2, <2>0 DEF OrderInv, RingChain
      <4> QED
        BY <2>9, <4>1, <4>2
    <3> QED
      BY <2>1, <3>1, <3>2 DEF RingChain
  <2>11. Joined'
    <3>1. FirstWaiting' = FirstWaiting
      BY <1>0 DEF FirstWaiting
    <3>2. FirstWaiting = NextId(ring[Prev(Ahead)].id)
      BY <2>4 DEF OrderInv, Joined
    <3>3. CASE Ahead = m
      BY <1>0, <2>1, <2>2, <2>9, <3>1, <3>2, <3>3 DEF Joined
    <3>4. CASE Ahead # m
      <4>1. Prev(Ahead) \in Slots /\ Plus(Prev(Ahead), 1) = Ahead
        BY <2>0, StepFacts
      <4>2. Prev(Ahead) # next
        BY <3>4, <4>1
      <4>3. ring'[Prev(Ahead)] = ring[Prev(Ahead)]
        BY <2>6, <4>1, <4>2
      <4>4. Prev(Ahead)' = Prev(Ahead)
        BY <1>0 DEF Prev, Plus
      <4> QED
        BY <1>0, <2>1, <3>1, <3>2, <3>4, <4>3, <4>4 DEF Joined
    <3> QED
      BY <3>3, <3>4
  <2> QED
    BY <2>7, <2>8, <2>10, <2>11 DEF OrderInv
<1> QED
  BY <1>1, <1>2

(* With one buffer for a frame, a turn of the loop takes nothing, the frame *)
(* at the head of the queue to drop it, or that frame into the descriptor   *)
(* in front.                                                                *)
LEMMA OneBuffer ==
  ASSUME TypeOK, SingleBuffer, RxTurn
  PROVE  /\ pc = "run" /\ UNCHANGED <<RDT, RDH, arrived, next, expected>>
         /\ \/ pc' = "done" /\ UNCHANGED <<ring, net, head, left>>
            \/ /\ pc' = "run" /\ UNCHANGED <<ring, head, left>>
               /\ Len(net) >= 1 /\ net[1].foreign /\ net' = SubSeq(net, 2, Len(net))
            \/ /\ pc' = "run" /\ left >= 1 /\ Len(net) >= 1 /\ ~ net[1].foreign
               /\ net' = SubSeq(net, 2, Len(net))
               /\ FillDescs(1) /\ head' = Plus(head, 1) /\ left' = left - 1
<1> DEFINE len == Returned(1)
<1>0. MaxPktDesc = 1 /\ \A l \in Lens : Descs(l) = 1
  BY DEF SingleBuffer
<1>1. net \in Seq(Frame) /\ Len(net) \in Nat /\ \A k \in 1 .. Len(net) : net[k] \in Frame
  BY DEF TypeOK
<1>2. CASE net = <<>>
  <2>1. Len(net) = 0
    BY <1>2
  <2>2. len = 0 /\ SubSeq(net, Taken(1) + 1, Len(net)) = net
    <3>1. Taken(1) = 0 /\ len = 0
      BY <2>1 DEF Taken, Returned
    <3>2. SubSeq(net, 1, 0) \in Seq(Frame) /\ Len(SubSeq(net, 1, 0)) = 0
      <4>1. \A k \in 1 .. 0 : net[k] \in Frame
        OBVIOUS
      <4> QED
        BY <1>1, <4>1, SubSeqProperties
    <3>3. SubSeq(net, 1, 0) = <<>>
      BY <3>2, EmptySeq
    <3> QED
      BY <1>2, <2>1, <3>1, <3>3
  <2> QED
    BY <1>0, <2>2, RxTurnCases DEF runVars, regVars, drvVars
<1>3. CASE net # <<>>
  <2>1. Len(net) >= 1 /\ ~ (Len(net) < 1) /\ net[1] \in Frame
    <3>1. Len(net) # 0
      BY <1>1, <1>3, EmptySeq
    <3> QED
      BY <1>1, <3>1
  <2>2. len = net[1].len /\ Taken(1) = 1
    BY <2>1 DEF Returned, Taken
  <2>3. len \in Lens /\ len # 0
    BY <2>1, <2>2, RxAssumption DEF Frame
  <2>4. Descs(len) = 1
    BY <1>0, <2>3
  <2>5. SubSeq(net, Taken(1) + 1, Len(net)) = SubSeq(net, 2, Len(net))
    BY <2>2
  <2> HIDE DEF len
  <2>6. Returned(MaxPktDesc) = len /\ Taken(MaxPktDesc) = Taken(1)
    BY <1>0 DEF len
  <2> QED
    BY <1>0, <2>1, <2>3, <2>4, <2>5, <2>6, RxTurnCases DEF Advance, runVars, regVars, drvVars
<1> QED
  BY <1>2, <1>3

(* A frame is put into the descriptor in front of the device.               *)
LEMMA FillOrder ==
  ASSUME TypeOK, OrderInv, pc = "run", pc' = "run",
         UNCHANGED <<RDT, RDH, arrived, next, expected>>,
         left >= 1, Len(net) >= 1, ~ net[1].foreign, net' = SubSeq(net, 2, Len(net)),
         FillDescs(1), head' = Plus(head, 1), left' = left - 1
  PROVE  OrderInv'
<1>0. /\ head \in Slots /\ next \in Slots /\ RDT \in Slots /\ Ahead = head
      /\ \A i \in Slots : Dist(next, i) \in 0 .. RxSize - 1
      /\ ring \in [Slots -> Desc] /\ ~ ring[head].dd
      /\ left = Dist(head, RDT)
  BY FrontFacts DEF OrderInv, Region, TypeOK, Ahead
<1> DEFINE d == Dist(next, head)
           e == Dist(next, RDT)
           h == Plus(head, 1)
<1>1. Ahead' = h /\ head' = h /\ WaitingChain' /\ FirstWaiting' = NextId(net[1].id)
  BY TakeOne DEF OrderInv, AfterFrame, Ahead
<1>2. /\ ring'[head] = [dd |-> TRUE, eop |-> TRUE, id |-> net[1].id]
      /\ \A i \in Slots : i # head => ring'[i] = ring[i]
  <2>1. ASSUME NEW i \in Slots PROVE Dist(head, i) < 1 <=> i = head
    <3>1. Dist(head, i) \in 0 .. RxSize - 1 /\ (Dist(head, i) = 0 => i = head)
          /\ Dist(head, head) = 0
      BY <1>0, DistFacts
    <3> QED
      BY <3>1, RxAssumption
  <2>2. Dist(head, head) = 1 - 1
    BY <1>0, DistFacts
  <2> QED
    BY <1>0, <2>1, <2>2 DEF FillDescs
<1>3. d <= e /\ e <= MaxBufs /\ MaxBufs <= RxSize - 1
      /\ d \in Int /\ e \in Int /\ MaxBufs \in Int /\ RxSize \in Int /\ d >= 0
  BY <1>0, RxAssumption DEF OrderInv, Region
<1>4. Dist(head, RDT) >= 1 /\ Dist(head, RDT) = e - d
  BY <1>0, <1>3, DistFacts
<1>5. /\ h \in Slots /\ h # head /\ Prev(h) = head
      /\ Dist(h, RDT) = Dist(head, RDT) - 1
      /\ Dist(next, h) = d + 1
  <2>1. RDT # head
    <3>1. Dist(head, head) = 0
      BY <1>0, DistFacts
    <3> QED
      BY <1>4, <3>1
  <2>2. d < RxSize - 1
    BY <1>3, <1>4
  <2> QED
    BY <1>0, <2>1, <2>2, StepFacts
<1>6. Region'
  <2>1. d + 1 <= e
    BY <1>3, <1>4
  <2>2. ASSUME NEW i \in Slots
        PROVE  (ring'[i].dd <=> Dist(next, i) < d + 1) /\ (ring'[i].dd => ring'[i].eop)
    <3>1. CASE i = head
      <4>1. Dist(next, i) < d + 1
        BY <1>3, <3>1
      <4> QED
        BY <1>2, <3>1, <4>1
    <3>2. CASE i # head
      <4>1. Dist(next, i) # d /\ Dist(next, i) \in Int
        BY <1>0, <3>2, DistFacts
      <4>2. Dist(next, i) < d + 1 <=> Dist(next, i) < d
        BY <1>3, <4>1
      <4> QED
        BY <1>0, <1>2, <3>2, <4>2 DEF OrderInv, Region
    <3> QED
      BY <3>1, <3>2
  <2>3. left' = Dist(h, RDT)
    BY <1>0, <1>5
  <2> HIDE DEF d, e, h
  <2>4. Dist(next, RDT) = e
    BY DEF e
  <2> QED
    BY <1>1, <1>3, <1>5, <2>1, <2>2, <2>3, <2>4 DEF Region
<1>7. FirstWaiting = net[1].id
  <2>1. net # <<>>
    BY DEF TypeOK
  <2> QED
    BY <2>1 DEF FirstWaiting
<1>8. RingChain'
  <2>1. ASSUME NEW i \in Slots, ring'[i].dd, ring'[Plus(i, 1)].dd
        PROVE  ring'[Plus(i, 1)].id = NextId(ring'[i].id)
    <3>1. Plus(i, 1) \in Slots /\ Prev(Plus(i, 1)) = i /\ Plus(i, 1) # i
      BY StepFacts
    <3>2. CASE i = head
      <4>1. ring[h].dd
        BY <1>2, <1>5, <2>1, <3>2
      <4>2. Dist(next, h) < d
        BY <1>0, <1>5, <4>1 DEF OrderInv, Region
      <4> QED
        BY <1>3, <1>5, <4>2
    <3>3. CASE Plus(i, 1) = head
      <4>1. ring[i].dd /\ ring'[i] = ring[i] /\ i = Prev(head)
        BY <1>2, <2>1, <3>1, <3>3
      <4>2. head # next
        <5>1. Dist(next, i) \in 0 .. RxSize - 1 /\ Dist(next, i) < d /\ Dist(next, next) = 0
          BY <1>0, <4>1, DistFacts DEF OrderInv, Region
        <5>2. d # 0
          BY <1>3, <5>1
        <5> QED
          BY <5>1, <5>2
      <4>3. net[1].id = NextId(ring[i].id)
        BY <1>0, <1>7, <4>1, <4>2 DEF OrderInv, Joined
      <4> QED
        BY <1>2, <3>3, <4>1, <4>3
    <3>4. CASE i # head /\ Plus(i, 1) # head
      <4>1. ring'[i] = ring[i] /\ ring'[Plus(i, 1)] = ring[Plus(i, 1)]
        BY <1>2, <3>1, <3>4
      <4> QED
        BY <2>1, <4>1 DEF OrderInv, RingChain
    <3> QED
      BY <3>2, <3>3, <3>4
  <2>2. ring'[next].dd => ring'[next].id = expected
    <3>1. CASE next = head
      <4>1. net[1].id = expected
        BY <1>0, <1>7, <3>1 DEF OrderInv, Joined
      <4> QED
        BY <1>2, <3>1, <4>1
    <3>2. CASE next # head
      BY <1>0, <1>2, <3>2 DEF OrderInv, RingChain
    <3> QED
      BY <3>1, <3>2
  <2> QED
    BY <2>1, <2>2 DEF RingChain
<1>9. Joined'
  <2>1. h # next
    <3>1. Dist(next, next) = 0 /\ d + 1 # 0
      BY <1>0, <1>3, DistFacts
    <3> QED
      BY <1>5, <3>1
  <2>2. ring'[Prev(h)].id = net[1].id
    BY <1>2, <1>5
  <2>3. Prev(Ahead)' = Prev(h)
    BY <1>1 DEF Prev, Plus
  <2> HIDE DEF h
  <2> QED
    BY <1>1, <2>1, <2>2, <2>3 DEF Joined
<1> QED
  BY <1>1, <1>6, <1>8, <1>9 DEF OrderInv

LEMMA TurnOrder == ASSUME TypeOK, SingleBuffer, OrderInv, RxTurn PROVE OrderInv'
<1>0. pc = "run" /\ UNCHANGED <<RDT, RDH, arrived, next, expected>>
  BY OneBuffer
<1>1. CASE pc' = "done" /\ UNCHANGED <<ring, net, head, left>>
  <2>1. Ahead' = Ahead /\ left' = Dist(head, RDT)'
    BY <1>0, <1>1 DEF Ahead, OrderInv, Region
  <2> QED
    BY <1>0, <1>1, <2>1, SameOrder
<1>2. CASE /\ pc' = "run" /\ UNCHANGED <<ring, head, left>>
           /\ Len(net) >= 1 /\ net[1].foreign /\ net' = SubSeq(net, 2, Len(net))
  <2>1. Ahead' = Ahead /\ left' = Dist(head, RDT)'
    BY <1>0, <1>2 DEF Ahead, OrderInv, Region
  <2>2. WaitingChain' /\ FirstWaiting' = net[1].id
    BY <1>0, <1>2, TakeOne DEF OrderInv, AfterFrame
  <2>3. FirstWaiting = net[1].id
    <3>1. net # <<>>
      BY <1>2 DEF TypeOK
    <3> QED
      BY <3>1 DEF FirstWaiting
  <2>4. Region'
    BY <1>0, <1>2, <2>1 DEF OrderInv, Region
  <2>5. RingChain'
    BY <1>0, <1>2 DEF OrderInv, RingChain
  <2>6. Joined'
    <3>1. Prev(Ahead)' = Prev(Ahead)
      BY <2>1 DEF Prev, Plus
    <3> QED
      BY <1>0, <1>2, <2>1, <2>2, <2>3, <3>1 DEF OrderInv, Joined
  <2> QED
    BY <2>2, <2>4, <2>5, <2>6 DEF OrderInv
<1>3. CASE /\ pc' = "run" /\ left >= 1 /\ Len(net) >= 1 /\ ~ net[1].foreign
           /\ net' = SubSeq(net, 2, Len(net))
           /\ FillDescs(1) /\ head' = Plus(head, 1) /\ left' = left - 1
  BY <1>0, <1>3, FillOrder
<1> QED
  BY <1>1, <1>2, <1>3, OneBuffer

LEMMA NextOrder ==
  ASSUME TypeOK, SingleBuffer, OrderInv, [Next]_vars PROVE OrderInv'
<1>1. CASE UNCHANGED vars
  <2>1. /\ UNCHANGED <<ring, next, RDT, expected, net, arrived, pc, head, left, RDH>>
        /\ Ahead' = Ahead
    BY <1>1 DEF vars, regVars, runVars, backVars, drvVars, Ahead
  <2>2. pc' \in {"run", "done"} => left' = Dist(head, RDT)'
    BY <2>1 DEF OrderInv, Region
  <2> QED
    BY <2>1, <2>2, SameOrder
<1> QED
  BY <1>1, CallbackOrder, AccessOrder, WriteRDTOrder, ResetOrder, ArriveOrder, ReapOrder,
     TurnOrder DEF Next

-----------------------------------------------------------------------------
(* The frames under way, as InOrder lists them.                             *)

LEMMA InRingIs ==
  ASSUME TypeOK, Region
  PROVE  InRing = Dist(next, Ahead) /\ InRing \in 0 .. RxSize - 1
<1> DEFINE d == Dist(next, Ahead)
           P(k) == /\ k < RxSize => ~ ring[Plus(next, k)].dd
                   /\ \A j \in 0 .. k - 1 : ring[Plus(next, j)].dd
<1>1. d \in 0 .. RxSize - 1 /\ RxSize \in Nat /\ next \in Slots
  BY FrontFacts, RxAssumption
<1>2. \A j \in 0 .. RxSize - 1 : ring[Plus(next, j)].dd <=> j < d
  BY <1>1, ForwardFacts DEF Region
<1> HIDE DEF d
<1>3. d \in 0 .. RxSize /\ P(d)
  BY <1>1, <1>2
<1>4. ASSUME NEW k \in 0 .. RxSize, P(k) PROVE k = d
  <2>1. CASE k < d
    <3>1. k \in 0 .. RxSize - 1 /\ k < RxSize
      BY <1>1, <2>1
    <3>2. ring[Plus(next, k)].dd
      BY <1>2, <2>1, <3>1
    <3> QED
      BY <1>4, <3>1, <3>2
  <2>2. CASE k > d
    <3>1. d \in 0 .. k - 1
      BY <1>1, <2>2
    <3>2. ring[Plus(next, d)].dd
      BY <1>4, <3>1
    <3>3. ~ (d < d)
      BY <1>1
    <3> QED
      BY <1>1, <1>2, <3>2, <3>3
  <2> QED
    BY <1>1, <2>1, <2>2
<1>5. InRing = CHOOSE k \in 0 .. RxSize : P(k)
  BY DEF InRing
<1> HIDE DEF P
<1>6. InRing \in 0 .. RxSize /\ P(InRing)
  BY <1>3, <1>5
<1> QED
  BY <1>1, <1>4, <1>6 DEF d

LEMMA OrderGivesInOrder == ASSUME TypeOK, OrderInv PROVE InOrder
<1> DEFINE d == InRing
           n == Len(net)
           under == UnderWay
<1>1. d = Dist(next, Ahead) /\ d \in 0 .. RxSize - 1 /\ RxSize \in Nat /\ n \in Nat
  BY InRingIs, RxAssumption DEF OrderInv, TypeOK
<1>2. next \in Slots /\ Ahead \in Slots
  BY FrontFacts DEF OrderInv
<1>3. \A j \in 0 .. d - 1 : /\ Plus(next, j) \in Slots
                            /\ ring[Plus(next, j)].dd /\ ring[Plus(next, j)].eop
  <2>1. ASSUME NEW j \in 0 .. d - 1
        PROVE  Plus(next, j) \in Slots /\ Dist(next, Plus(next, j)) < d
    <3>1. j \in 0 .. RxSize - 1 /\ j < d
      BY <1>1
    <3> QED
      BY <1>2, <3>1, ForwardFacts
  <2> QED
    BY <1>1, <2>1 DEF OrderInv, Region
<1>4. /\ DOMAIN under = 1 .. d + n + 1
      /\ \A k \in 1 .. d + n + 1 :
           under[k] = IF k <= d THEN [id |-> ring[Plus(next, k - 1)].id,
                                      counts |-> ring[Plus(next, k - 1)].eop]
                      ELSE IF k <= d + n
                        THEN [id |-> net[k - d].id, counts |-> ~ net[k - d].foreign]
                      ELSE [id |-> arrived, counts |-> TRUE]
  BY DEF UnderWay
<1> HIDE DEF d, n, under
<1>5. ASSUME NEW k \in 1 .. d
      PROVE  /\ under[k].id = ring[Plus(next, k - 1)].id
             /\ After(under[k]) = NextId(ring[Plus(next, k - 1)].id)
  <2>1. k \in 1 .. d + n + 1 /\ k <= d /\ k - 1 \in 0 .. d - 1
    BY <1>1
  <2>2. under[k] = [id |-> ring[Plus(next, k - 1)].id,
                    counts |-> ring[Plus(next, k - 1)].eop]
    BY <1>4, <2>1
  <2>3. ring[Plus(next, k - 1)].eop
    BY <1>3, <2>1
  <2> QED
    BY <2>2, <2>3 DEF After
<1>6. ASSUME NEW k \in d + 1 .. d + n
      PROVE  /\ under[k].id = net[k - d].id
             /\ After(under[k]) = AfterFrame(net[k - d])
  <2>1. k \in 1 .. d + n + 1 /\ ~ (k <= d) /\ k <= d + n
    BY <1>1
  <2>2. under[k] = [id |-> net[k - d].id, counts |-> ~ net[k - d].foreign]
    BY <1>4, <2>1
  <2>3. CASE net[k - d].foreign
    <3>1. (~ net[k - d].foreign) = FALSE
      BY <2>3
    <3>2. under[k] = [id |-> net[k - d].id, counts |-> FALSE]
      BY <2>2, <3>1, Zenon
    <3> QED
      BY <2>3, <3>2 DEF After, AfterFrame
  <2>4. CASE ~ net[k - d].foreign
    <3>1. (~ net[k - d].foreign) = TRUE
      BY <2>4
    <3>2. under[k] = [id |-> net[k - d].id, counts |-> TRUE]
      BY <2>2, <3>1, Zenon
    <3> QED
      BY <2>4, <3>2 DEF After, AfterFrame
  <2> QED
    BY <2>3, <2>4
<1>7. under[d + n + 1].id = arrived
  <2>1. d + n + 1 \in 1 .. d + n + 1 /\ ~ (d + n + 1 <= d) /\ ~ (d + n + 1 <= d + n)
    BY <1>1
  <2> QED
    BY <1>4, <2>1
<1>8. under[d + 1].id = FirstWaiting
  <2>1. CASE n = 0
    <3>1. net = <<>> /\ d + n + 1 = d + 1
      BY <1>1, <2>1, EmptySeq DEF TypeOK, n
    <3> QED
      BY <1>7, <3>1 DEF FirstWaiting
  <2>2. CASE n # 0
    <3>1. net # <<>>
      BY <2>2 DEF n
    <3>2. d + 1 \in d + 1 .. d + n /\ (d + 1) - d = 1
      BY <1>1, <2>2
    <3> QED
      BY <1>6, <3>1, <3>2 DEF FirstWaiting
  <2> QED
    BY <2>1, <2>2
<1>9. ASSUME NEW k \in 1 .. d + n + 1
      PROVE  under[k].id = IF k = 1 THEN expected ELSE After(under[k - 1])
  <2>1. CASE k <= d /\ k = 1
    <3>1. 0 \in 0 .. d - 1 /\ k - 1 = 0 /\ k \in 1 .. d /\ 0 \in 0 .. RxSize
      BY <1>1, <2>1
    <3>2. Plus(next, 0) = next
      BY <1>2, <3>1, PlusIs, RxAssumption DEF Slots
    <3>3. ring[next].dd
      BY <1>3, <3>1, <3>2
    <3> QED
      BY <1>5, <2>1, <3>1, <3>2, <3>3 DEF OrderInv, RingChain
  <2>2. CASE k <= d /\ k # 1
    <3>1. /\ k \in 1 .. d /\ k - 1 \in 1 .. d /\ k - 1 \in 0 .. d - 1
          /\ k - 2 \in 0 .. d - 1 /\ (k - 1) - 1 = k - 2
          /\ k - 1 \in 0 .. RxSize /\ k - 2 \in 0 .. RxSize
      BY <1>1, <2>2
    <3> DEFINE i == Plus(next, k - 2)
    <3>2. i \in Slots /\ ring[i].dd
      BY <1>3, <3>1
    <3>3. Plus(i, 1) = Plus(next, k - 1)
      <4>1. i = IF next + (k - 2) < RxSize THEN next + (k - 2) ELSE next + (k - 2) - RxSize
        BY <1>2, <3>1, PlusIs
      <4>2. Plus(next, k - 1) = IF next + (k - 1) < RxSize THEN next + (k - 1)
                                ELSE next + (k - 1) - RxSize
        BY <1>2, <3>1, PlusIs
      <4>3. 1 \in 0 .. RxSize
        BY RxAssumption
      <4> HIDE DEF i
      <4>4. Plus(i, 1) = IF i + 1 < RxSize THEN i + 1 ELSE i + 1 - RxSize
        BY <3>2, <4>3, PlusIs
      <4>5. next \in Int /\ k \in Int /\ 0 <= next /\ next < RxSize /\ 2 <= k /\ k <= RxSize - 1
        BY <1>1, <1>2, <2>2 DEF Slots
      <4> QED
        BY <1>1, <4>1, <4>2, <4>4, <4>5
    <3>4. ring[Plus(i, 1)].dd
      BY <1>3, <3>1, <3>3
    <3>5. ring[Plus(i, 1)].id = NextId(ring[i].id)
      BY <3>2, <3>4 DEF OrderInv, RingChain
    <3>6. under[k].id = ring[Plus(next, k - 1)].id
      BY <1>5, <3>1
    <3>7. After(under[k - 1]) = NextId(ring[i].id)
      BY <1>5, <3>1
    <3> QED
      BY <2>2, <3>3, <3>5, <3>6, <3>7
  <2>3. CASE k = d + 1 /\ k = 1
    <3>1. d = 0
      BY <1>1, <2>3
    <3>2. Ahead = next
      BY <1>1, <1>2, <3>1, DistFacts
    <3> QED
      BY <1>8, <2>3, <3>2 DEF OrderInv, Joined
  <2>4. CASE k = d + 1 /\ k # 1
    <3>1. d # 0 /\ d \in 1 .. d /\ k - 1 = d /\ d - 1 \in 0 .. RxSize - 1 /\ d \in Int
      BY <1>1, <2>4
    <3>2. Prev(Ahead) \in Slots /\ Dist(next, Prev(Ahead)) = d - 1
      BY <1>1, <1>2, <3>1, StepFacts
    <3>3. Plus(next, d - 1) \in Slots /\ Dist(next, Plus(next, d - 1)) = d - 1
      BY <1>2, <3>1, ForwardFacts
    <3>4. Plus(next, d - 1) = Prev(Ahead)
      BY <1>2, <3>2, <3>3, DistFacts
    <3>5. Ahead # next
      <4>1. Dist(next, next) = 0
        BY <1>2, DistFacts
      <4> QED
        BY <1>1, <3>1, <4>1
    <3>6. After(under[d]) = NextId(ring[Prev(Ahead)].id)
      BY <1>5, <3>1, <3>4
    <3>7. under[k].id = FirstWaiting /\ FirstWaiting = NextId(ring[Prev(Ahead)].id)
      BY <1>8, <2>4, <3>5 DEF OrderInv, Joined
    <3> QED
      BY <2>4, <3>1, <3>6, <3>7
  <2>5. CASE k > d + 1
    <3>1. /\ k # 1 /\ k - 1 \in d + 1 .. d + n /\ (k - 1) - d = k - d - 1
          /\ k - d \in 2 .. n + 1 /\ n # 0
      BY <1>1, <2>5
    <3>2. After(under[k - 1]) = AfterFrame(net[k - d - 1])
      BY <1>6, <3>1
    <3>3. CASE k <= d + n
      <4>1. k \in d + 1 .. d + n /\ k - d \in 2 .. n
        BY <1>1, <2>5, <3>1, <3>3
      <4>2. net[k - d].id = AfterFrame(net[k - d - 1])
        BY <4>1 DEF OrderInv, WaitingChain, n
      <4> QED
        BY <1>6, <3>1, <3>2, <4>1, <4>2
    <3>4. CASE k = d + n + 1
      <4>1. k - d - 1 = n
        BY <1>1, <3>4
      <4>2. arrived = AfterFrame(net[n])
        <5>1. net # <<>>
          BY <3>1 DEF n
        <5> QED
          BY <5>1 DEF OrderInv, WaitingChain, n
      <4> QED
        BY <1>7, <3>1, <3>2, <3>4, <4>1, <4>2
    <3> QED
      BY <1>1, <3>3, <3>4
  <2> QED
    BY <1>1, <2>1, <2>2, <2>3, <2>4, <2>5
<1> QED
  BY <1>4, <1>9 DEF InOrder, under

(* With frames of at most one buffer the driver gets every frame the filter *)
(* lets through, in order, none lost, none twice and none overwritten, for  *)
(* every ring and whatever arrives, is reaped, given back or reset while    *)
(* e82545_tap_callback runs or between its runs.                            *)
THEOREM FramesInOrder == SingleBuffer => (Spec => []InOrder)
<1> SUFFICES ASSUME SingleBuffer PROVE Spec => []InOrder
  OBVIOUS
<1>1. Init => OrderInv
  BY InitOrder
<1>2. RxInv /\ OrderInv /\ [Next]_vars => OrderInv'
  BY NextOrder DEF RxInv
<1>3. RxInv /\ OrderInv => InOrder
  BY OrderGivesInOrder DEF RxInv
<1> QED
  BY <1>1, <1>2, <1>3, RxInvHolds, PTL DEF Spec
===============================================================================
