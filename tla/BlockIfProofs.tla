---------------------------- MODULE BlockIfProofs -----------------------------
(***************************************************************************)
(* Proofs about BlockIf for every pool size and every set of operations,   *)
(* offsets and lengths.                                                     *)
(***************************************************************************)
EXTENDS BlockIf, SequenceTheorems, FiniteSetTheorems, TLAPS

-----------------------------------------------------------------------------
(* Lemmas about the operators the model is built from.                      *)

(* What is left of a queue when one element is taken out of it.              *)
LEMMA RemoveAtProps ==
  ASSUME NEW S, NEW s \in Seq(S), NEW i \in 1 .. Len(s)
  PROVE  /\ RemoveAt(s, i) \in Seq(S)
         /\ Len(RemoveAt(s, i)) = Len(s) - 1
         /\ \A j \in 1 .. Len(s) - 1 :
              RemoveAt(s, i)[j] = IF j < i THEN s[j] ELSE s[j + 1]
<1> DEFINE a == SubSeq(s, 1, i - 1)
           b == SubSeq(s, i + 1, Len(s))
<1>1. a \in Seq(S) /\ Len(a) = i - 1 /\ \A j \in 1 .. i - 1 : a[j] = s[j]
  OBVIOUS
<1>2. b \in Seq(S) /\ Len(b) = Len(s) - i /\ \A j \in 1 .. Len(s) - i : b[j] = s[i + j]
  OBVIOUS
<1>3. RemoveAt(s, i) = a \o b
  BY DEF RemoveAt
<1> HIDE DEF a, b
<1>4. /\ a \o b \in Seq(S)
      /\ Len(a \o b) = Len(a) + Len(b)
      /\ \A j \in 1 .. Len(a) + Len(b) :
           (a \o b)[j] = IF j <= Len(a) THEN a[j] ELSE b[j - Len(a)]
  BY <1>1, <1>2, ConcatProperties
<1>5. Len(s) \in Nat /\ Len(a) + Len(b) = Len(s) - 1
  BY <1>1, <1>2
<1>6. \A j \in 1 .. Len(s) - 1 : (a \o b)[j] = IF j < i THEN s[j] ELSE s[j + 1]
  <2> SUFFICES ASSUME NEW j \in 1 .. Len(s) - 1
               PROVE  (a \o b)[j] = IF j < i THEN s[j] ELSE s[j + 1]
    OBVIOUS
  <2>1. CASE j < i
    BY <1>1, <1>4, <1>5, <2>1
  <2>2. CASE ~ (j < i)
    <3>1. (a \o b)[j] = b[j - Len(a)]
      BY <1>1, <1>4, <1>5, <2>2
    <3>2. j - Len(a) = j - i + 1 /\ j - i + 1 \in 1 .. Len(s) - i
      BY <1>1, <1>5, <2>2
    <3>3. b[j - i + 1] = s[i + (j - i + 1)]
      BY <1>2, <3>2
    <3>4. i + (j - i + 1) = j + 1
      BY <1>5
    <3> QED
      BY <2>2, <3>1, <3>2, <3>3, <3>4
  <2> QED
    BY <2>1, <2>2
<1> QED
  BY <1>3, <1>4, <1>5, <1>6

(* Changing the status of an element changes nothing else of it.             *)
LEMMA ElemExcept ==
  ASSUME NEW e \in Elem, NEW x \in {"PEND", "BLOCK", "BUSY", "DONE"}
  PROVE  LET f == [e EXCEPT !.st = x] IN
         /\ f \in Elem
         /\ f.req = e.req /\ f.op = e.op /\ f.off = e.off
         /\ f.block = e.block /\ f.st = x
  BY DEF Elem

(* What blockif_complete and blockif_cancel do to the elements that waited.   *)
LEMMA UnblockProps ==
  ASSUME NEW q \in Seq(Elem), NEW b
  PROVE  /\ Unblock(q, b) \in Seq(Elem)
         /\ Len(Unblock(q, b)) = Len(q)
         /\ \A i \in 1 .. Len(q) :
              /\ Unblock(q, b)[i].req = q[i].req
              /\ Unblock(q, b)[i].op = q[i].op
              /\ Unblock(q, b)[i].off = q[i].off
              /\ Unblock(q, b)[i].block = q[i].block
              /\ Unblock(q, b)[i].st = IF q[i].off = b THEN "PEND" ELSE q[i].st
<1>1. \A i \in 1 .. Len(q) : q[i] \in Elem
  OBVIOUS
<1>2. DOMAIN q = 1 .. Len(q) /\ Len(q) \in Nat
  OBVIOUS
<1>3. \A i \in 1 .. Len(q) :
        Unblock(q, b)[i] = IF q[i].off = b THEN [q[i] EXCEPT !.st = "PEND"]
                                           ELSE q[i]
  BY <1>2 DEF Unblock
<1>4. \A i \in 1 .. Len(q) : Unblock(q, b)[i] \in Elem
  BY <1>1, <1>3, ElemExcept
<1>5. Unblock(q, b) \in [1 .. Len(q) -> Elem]
  <2>1. Unblock(q, b) = [i \in 1 .. Len(q) |-> Unblock(q, b)[i]]
    BY <1>2 DEF Unblock
  <2> QED
    BY <1>4, <2>1
<1>6. Unblock(q, b) \in Seq(Elem) /\ Len(Unblock(q, b)) = Len(q)
  BY <1>2, <1>5
<1>7. ASSUME NEW i \in 1 .. Len(q)
      PROVE  /\ Unblock(q, b)[i].req = q[i].req
             /\ Unblock(q, b)[i].op = q[i].op
             /\ Unblock(q, b)[i].off = q[i].off
             /\ Unblock(q, b)[i].block = q[i].block
             /\ Unblock(q, b)[i].st = IF q[i].off = b THEN "PEND" ELSE q[i].st
  <2>1. q[i] \in Elem
    BY <1>1
  <2>2. CASE q[i].off = b
    <3>1. Unblock(q, b)[i] = [q[i] EXCEPT !.st = "PEND"]
      BY <1>3, <2>2
    <3> QED
      BY <2>1, <2>2, <3>1, ElemExcept
  <2>3. CASE q[i].off # b
    BY <1>3, <2>3
  <2> QED
    BY <2>2, <2>3
<1> QED
  BY <1>6, <1>7

-----------------------------------------------------------------------------
(* The inductive invariant, one lemma per action.                           *)

(* blockif_open establishes the invariant.                                  *)
LEMMA InitIInv == Init => IInv
  BY BlockIfAssumption
  DEF Init, IInv, TypeOK, PendStatus, BusyShape, BlockedHasBlocker, PoolConserved,
      LockShape

(* The types of the queues, as facts about their positions.                 *)
LEMMA SeqFacts ==
  ASSUME IInv
  PROVE  /\ pendq \in Seq(Elem) /\ busyq \in Seq(Elem)
         /\ Len(pendq) \in Nat /\ DOMAIN pendq = 1 .. Len(pendq)
         /\ Len(busyq) \in Nat /\ DOMAIN busyq = 1 .. Len(busyq)
         /\ \A i \in 1 .. Len(pendq) : pendq[i] \in Elem
         /\ \A i \in 1 .. Len(busyq) : busyq[i] \in Elem
  BY DEF IInv, TypeOK

(* A build that keeps assert() holds the lock whenever blockif_thr is at    *)
(* work and never otherwise, so only a submission from the callback can     *)
(* find it taken: blockif_thr and blockif_cancel always get it.             *)
LEMMA WhoCanLock ==
  ASSUME IInv
  PROVE  /\ pc = "idle" => mtx = 0 /\ CanLock
         /\ asserts /\ pc = "drain" => mtx = 1
         /\ ~ CanLock /\ pc \in {"idle", "callback"}
              => asserts /\ pc = "callback" /\ Len(busyq) = 1
  BY DEF IInv, TypeOK, LockShape, BusyShape, CanLock

(* An assertion that fails stops the program and changes nothing else.      *)
LEMMA HaltIInv == ASSUME IInv, Halt, asserts, Len(busyq) = 1 PROVE IInv'
  BY DEF Halt, IInv, TypeOK, PendStatus, BusyShape, BlockedHasBlocker,
         PoolConserved, LockShape

(* blockif_request, which may find the lock taken, the pool empty, or       *)
(* enqueue.                                                                 *)
LEMMA RequestIInv ==
  ASSUME IInv, NEW r \in Reqs, NEW op \in Ops, NEW off \in Offsets,
         NEW len \in Lens, Request(r, op, off, len)
  PROVE  IInv'
<1>1. CASE ~ CanLock
  BY <1>1, HaltIInv, WhoCanLock DEF Request
<1>4. ASSUME CanLock PROVE LockShape'
  <2>1. mtx' = 0 /\ UNCHANGED <<busyq, pc, asserts>> /\ pc \in {"idle", "callback"}
    BY <1>4 DEF Request
  <2>2. pc = "callback" => ~ asserts
    BY <1>4 DEF IInv, LockShape, CanLock
  <2> QED
    BY <2>1, <2>2 DEF LockShape
<1>2. CASE CanLock /\ nfree = 0
  BY <1>2, <1>4 DEF Request, IInv, TypeOK, PendStatus, BusyShape,
                   BlockedHasBlocker, PoolConserved
<1>3. CASE CanLock /\ nfree # 0
  <2> DEFINE blocked == \/ \E i \in DOMAIN pendq : pendq[i].block = off
                        \/ \E i \in DOMAIN busyq : busyq[i].block = off
             e == [req |-> r, op |-> op, off |-> off,
                   block |-> BeBlock(op, off, len),
                   st |-> IF blocked THEN "BLOCK" ELSE "PEND"]
  <2>1. /\ pendq' = Append(pendq, e)
        /\ nfree' = nfree - 1
        /\ outstanding' = outstanding \cup {r}
        /\ ret' = "0" /\ mtx' = 0
        /\ UNCHANGED <<busyq, pc, asserts>>
    BY <1>3 DEF Request, Enqueue, IInv, TypeOK
  <2>2. /\ e \in Elem /\ e.off = off
        /\ e.st \in {"PEND", "BLOCK"}
        /\ e.st = "BLOCK" => blocked
    BY BlockIfAssumption DEF Elem, BeBlock
  <2> HIDE DEF e
  <2>3. /\ pendq' \in Seq(Elem)
        /\ Len(pendq') = Len(pendq) + 1
        /\ DOMAIN (pendq') = 1 .. Len(pendq) + 1
        /\ \A i \in 1 .. Len(pendq) : pendq'[i] = pendq[i]
        /\ pendq'[Len(pendq) + 1] = e
    BY <2>1, <2>2, SeqFacts
  <2>4. TypeOK' /\ BusyShape' /\ PoolConserved'
    BY <1>3, <2>1, <2>3, SeqFacts, BlockIfAssumption
    DEF IInv, TypeOK, BusyShape, PoolConserved
  <2>5. PendStatus'
    BY <2>2, <2>3, SeqFacts DEF IInv, PendStatus
  <2>6. BlockedHasBlocker'
    <3> SUFFICES ASSUME NEW i \in 1 .. Len(pendq) + 1, pendq'[i].st = "BLOCK"
                 PROVE  \/ \E j \in 1 .. i - 1 : pendq'[j].block = pendq'[i].off
                        \/ \E j \in DOMAIN busyq : busyq[j].block = pendq'[i].off
      BY <2>1, <2>3 DEF BlockedHasBlocker
    <3>1. CASE i = Len(pendq) + 1
      BY <2>2, <2>3, <3>1, SeqFacts
    <3>2. CASE i \in 1 .. Len(pendq)
      <4>1. pendq[i].st = "BLOCK"
        BY <2>3, <3>2
      <4>2. \/ \E j \in 1 .. i - 1 : pendq[j].block = pendq[i].off
            \/ \E j \in DOMAIN busyq : busyq[j].block = pendq[i].off
        BY <3>2, <4>1, SeqFacts DEF IInv, BlockedHasBlocker
      <4> QED
        BY <2>3, <3>2, <4>2, SeqFacts
    <3> QED
      BY <3>1, <3>2, SeqFacts
  <2> QED
    BY <1>3, <1>4, <2>4, <2>5, <2>6 DEF IInv
<1> QED
  BY <1>1, <1>2, <1>3

(* With nothing in service, a BLOCKed element waits for one before it.      *)
LEMMA BlockerBefore ==
  ASSUME IInv, busyq = <<>>, NEW o \in 1 .. Len(pendq), pendq[o].st = "BLOCK"
  PROVE  \E j \in 1 .. o - 1 : pendq[j].block = pendq[o].off
<1>1. BlockedHasBlocker /\ o \in DOMAIN pendq /\ DOMAIN busyq = {}
  BY SeqFacts DEF IInv
<1> QED
  BY <1>1 DEF BlockedHasBlocker

(* blockif_dequeue moves the first PEND element into service.               *)
LEMMA DequeueIInv == ASSUME IInv, Dequeue PROVE IInv'
<1>1. PICK i \in DOMAIN pendq :
        /\ FirstPend(i)
        /\ pendq' = RemoveAt(pendq, i)
        /\ busyq' = Append(busyq, [pendq[i] EXCEPT !.st = "BUSY"])
  BY DEF Dequeue
<1> DEFINE e == [pendq[i] EXCEPT !.st = "BUSY"]
<1>2. busyq = <<>> /\ i \in 1 .. Len(pendq) /\ pendq[i] \in Elem
  BY SeqFacts DEF Dequeue, IInv, BusyShape
<1>3. e \in Elem /\ e.block = pendq[i].block
  BY <1>2, ElemExcept
<1> HIDE DEF e
<1>4. /\ busyq' \in Seq(Elem)
      /\ Len(busyq') = 1
      /\ busyq'[1] = e
      /\ 1 \in DOMAIN (busyq')
  BY <1>1, <1>2, <1>3 DEF e
<1>5. /\ pendq' \in Seq(Elem)
      /\ Len(pendq') = Len(pendq) - 1
      /\ \A j \in 1 .. Len(pendq) - 1 :
           pendq'[j] = IF j < i THEN pendq[j] ELSE pendq[j + 1]
  BY <1>1, <1>2, SeqFacts, RemoveAtProps
<1>6. DOMAIN (pendq') = 1 .. Len(pendq) - 1
  BY <1>5
<1>7. TypeOK' /\ BusyShape' /\ PoolConserved'
  <2>1. pc' = "proc" /\ UNCHANGED <<nfree, mtx, outstanding, ret, asserts>>
    BY DEF Dequeue
  <2>2. TypeOK' /\ BusyShape'
    BY <1>4, <1>5, <2>1 DEF IInv, TypeOK, BusyShape
  <2>3. PoolConserved'
    BY <1>2, <1>4, <1>5, <2>1, SeqFacts, BlockIfAssumption
    DEF IInv, TypeOK, PoolConserved
  <2> QED
    BY <2>2, <2>3
<1>8. PendStatus'
  BY <1>5, <1>6, SeqFacts DEF IInv, PendStatus
<1>9. BlockedHasBlocker'
  <2> SUFFICES ASSUME NEW k \in 1 .. Len(pendq) - 1, pendq'[k].st = "BLOCK"
               PROVE  \/ \E j \in 1 .. k - 1 : pendq'[j].block = pendq'[k].off
                      \/ e.block = pendq'[k].off
    BY <1>4, <1>6 DEF BlockedHasBlocker
  <2>1. PICK o \in 1 .. Len(pendq) : /\ pendq'[k] = pendq[o]
                                     /\ o = IF k < i THEN k ELSE k + 1
    BY <1>2, <1>5, SeqFacts
  <2>2. PICK j \in 1 .. o - 1 : pendq[j].block = pendq[o].off
    BY <1>2, <2>1, BlockerBefore
  <2> Len(pendq) \in Nat
    BY SeqFacts
  <2>3. CASE j = i
    BY <1>3, <2>1, <2>2, <2>3
  <2>4. CASE j < i
    <3>1. j \in 1 .. k - 1 /\ pendq'[j] = pendq[j]
      BY <1>2, <1>5, <2>1, <2>2, <2>4
    <3> QED
      BY <2>1, <2>2, <3>1
  <2>5. CASE j > i
    <3>1. j - 1 \in 1 .. k - 1 /\ pendq'[j - 1] = pendq[j]
      BY <1>2, <1>5, <2>1, <2>2, <2>5
    <3> QED
      BY <2>1, <2>2, <3>1
  <2> QED
    BY <1>2, <2>2, <2>3, <2>4, <2>5
<1>10. LockShape'
  BY DEF Dequeue, IInv, LockShape
<1> QED
  BY <1>7, <1>8, <1>9, <1>10 DEF IInv

(* blockif_proc, which ends in the callback.                                *)
LEMMA ProcIInv == ASSUME IInv, Proc PROVE IInv'
<1>1. Len(busyq) = 1 /\ busyq[1] \in Elem
  BY SeqFacts DEF Proc, IInv, BusyShape
<1> DEFINE e == [busyq[1] EXCEPT !.st = "DONE"]
<1>2. e \in Elem /\ e.block = busyq[1].block
  BY <1>1, ElemExcept
<1>3. busyq' = [busyq EXCEPT ![1] = e]
  BY <1>1 DEF Proc
<1> HIDE DEF e
<1>4. /\ busyq' \in Seq(Elem) /\ Len(busyq') = 1
      /\ DOMAIN (busyq') = DOMAIN busyq
      /\ \A j \in DOMAIN busyq : busyq'[j].block = busyq[j].block
  <2>1. busyq \in Seq(Elem) /\ DOMAIN busyq = {1}
    BY <1>1, SeqFacts
  <2>2. busyq' \in Seq(Elem) /\ Len(busyq') = 1
    BY <1>1, <1>2, <1>3, <2>1
  <2>3. DOMAIN (busyq') = {1} /\ busyq'[1] = e
    BY <1>3, <2>1
  <2> QED
    BY <1>2, <2>1, <2>2, <2>3
<1>5. outstanding' \in SUBSET Reqs
  BY DEF Proc, IInv, TypeOK
<1>6. TypeOK' /\ BusyShape' /\ PoolConserved' /\ PendStatus'
  BY <1>1, <1>4, <1>5 DEF Proc, IInv, TypeOK, BusyShape, PoolConserved, PendStatus
<1>7. BlockedHasBlocker'
  BY <1>4 DEF Proc, IInv, BlockedHasBlocker
<1>8. LockShape'
  BY DEF Proc, IInv, LockShape
<1> QED
  BY <1>6, <1>7, <1>8 DEF IInv

(* blockif_complete gives the element back and wakes its successors.        *)
LEMMA CompleteIInv == ASSUME IInv, Complete PROVE IInv'
<1> DEFINE b == busyq[1].block
<1>1. Len(busyq) = 1 /\ DOMAIN busyq = {1}
  BY SeqFacts DEF Complete, IInv, BusyShape
<1>2. /\ pendq' = Unblock(pendq, b)
      /\ busyq' = Front(busyq)
      /\ nfree' = nfree + 1 /\ pc' = "drain"
      /\ UNCHANGED <<mtx, outstanding, ret, asserts>>
  BY <1>1 DEF Complete
<1> HIDE DEF b
<1>3. busyq' = <<>>
  BY <1>1, <1>2, SeqFacts DEF Front
<1>4. /\ pendq' \in Seq(Elem)
      /\ Len(pendq') = Len(pendq)
      /\ \A i \in 1 .. Len(pendq) :
           /\ pendq'[i].off = pendq[i].off
           /\ pendq'[i].block = pendq[i].block
           /\ pendq'[i].st = IF pendq[i].off = b THEN "PEND" ELSE pendq[i].st
  BY <1>2, SeqFacts, UnblockProps
<1>5. DOMAIN (pendq') = 1 .. Len(pendq)
  BY <1>4
<1>6. TypeOK' /\ BusyShape'
  BY <1>2, <1>3, <1>4 DEF IInv, TypeOK, BusyShape
<1>7. PoolConserved'
  BY <1>1, <1>2, <1>3, <1>4, SeqFacts, BlockIfAssumption
  DEF IInv, TypeOK, PoolConserved
<1>8. PendStatus'
  BY <1>4, <1>5, SeqFacts DEF IInv, PendStatus
<1>9. BlockedHasBlocker'
  <2> SUFFICES ASSUME NEW i \in 1 .. Len(pendq), pendq'[i].st = "BLOCK"
               PROVE  \E j \in 1 .. i - 1 : pendq'[j].block = pendq'[i].off
    BY <1>5 DEF BlockedHasBlocker
  <2>1. pendq[i].st = "BLOCK" /\ pendq[i].off # b
    BY <1>4
  <2>2. PICK j \in 1 .. i - 1 : pendq[j].block = pendq[i].off
    BY <1>1, <2>1, SeqFacts DEF IInv, BlockedHasBlocker, b
  <2>3. j \in 1 .. Len(pendq)
    BY SeqFacts
  <2> QED
    BY <1>4, <2>2, <2>3
<1>10. LockShape'
  BY DEF Complete, IInv, LockShape
<1> QED
  BY <1>6, <1>7, <1>8, <1>9, <1>10 DEF IInv

(* blockif_thr takes and gives back the lock.                               *)
LEMMA ThrIInv == ASSUME IInv, ThrEnter \/ ThrReturn PROVE IInv'
<1>1. CASE ThrEnter
  <2>1. CanLock
    BY <1>1, WhoCanLock DEF ThrEnter
  <2> QED
    BY <1>1, <2>1 DEF ThrEnter, IInv, TypeOK, PendStatus, BusyShape,
                      BlockedHasBlocker, PoolConserved, LockShape
<1>2. CASE ThrReturn
  <2>1. ~ (asserts /\ mtx = 0)
    BY <1>2, WhoCanLock DEF ThrReturn
  <2> QED
    BY <1>2, <2>1 DEF ThrReturn, IInv, TypeOK, PendStatus, BusyShape,
                      BlockedHasBlocker, PoolConserved, LockShape
<1> QED
  BY <1>1, <1>2

(* blockif_cancel, which takes an element out of the middle of the queue.   *)
LEMMA CancelIInv == ASSUME IInv, NEW r \in Reqs, Cancel(r) PROVE IInv'
<1>0. pc = "idle" /\ Unlink(r)
  BY WhoCanLock DEF Cancel
<1>1. /\ busyq = <<>> /\ busyq' = <<>>
      /\ pc = "idle" /\ UNCHANGED <<mtx, pc, asserts>>
  BY <1>0 DEF Unlink, IInv, BusyShape
<1>2. CASE ~ \E i \in DOMAIN pendq : pendq[i].req = r
  <2>1. /\ ret' \in {"EBUSY", "EINVAL"}
        /\ UNCHANGED <<pendq, nfree, outstanding>>
    BY <1>0, <1>2 DEF Unlink
  <2> QED
    BY <1>1, <2>1 DEF IInv, TypeOK, PendStatus, BusyShape, BlockedHasBlocker,
                      PoolConserved, LockShape
<1>3. CASE \E i \in DOMAIN pendq : pendq[i].req = r
  <2>1. PICK i \in DOMAIN pendq :
          pendq' = Unblock(RemoveAt(pendq, i), pendq[i].block)
    BY <1>0, <1>3 DEF Unlink
  <2>2. /\ nfree' = nfree + 1 /\ ret' = "0"
        /\ outstanding' = outstanding \ {r}
    BY <1>0, <1>3 DEF Unlink
  <2> DEFINE b == pendq[i].block
             q == RemoveAt(pendq, i)
  <2>3. i \in 1 .. Len(pendq)
    BY SeqFacts
  <2>4. /\ q \in Seq(Elem)
        /\ Len(q) = Len(pendq) - 1
        /\ \A j \in 1 .. Len(pendq) - 1 :
             q[j] = IF j < i THEN pendq[j] ELSE pendq[j + 1]
    BY <2>3, SeqFacts, RemoveAtProps
  <2>5. pendq' = Unblock(q, b)
    BY <2>1
  <2> HIDE DEF q, b
  <2>6. /\ pendq' \in Seq(Elem)
        /\ Len(pendq') = Len(pendq) - 1
        /\ \A k \in 1 .. Len(pendq) - 1 :
             /\ pendq'[k].off = q[k].off
             /\ pendq'[k].block = q[k].block
             /\ pendq'[k].st = IF q[k].off = b THEN "PEND" ELSE q[k].st
    BY <2>4, <2>5, UnblockProps
  <2>7. DOMAIN (pendq') = 1 .. Len(pendq) - 1
    BY <2>6
  <2>8. TypeOK' /\ BusyShape' /\ PoolConserved'
    <3>1. TypeOK' /\ BusyShape'
      BY <1>1, <2>2, <2>6 DEF IInv, TypeOK, BusyShape
    <3>2. PoolConserved'
      <4>1. Len(busyq) = 0 /\ Len(busyq') = 0
        BY <1>1
      <4>2. nfree + Len(pendq) + Len(busyq) = MAXREQ /\ nfree \in Nat
        BY DEF IInv, TypeOK, PoolConserved
      <4>3. Len(pendq) \in Nat /\ Len(pendq') = Len(pendq) - 1 /\ nfree' = nfree + 1
        BY <2>2, <2>6, SeqFacts
      <4>4. nfree' + Len(pendq') + Len(busyq') = MAXREQ
        BY <4>1, <4>2, <4>3
      <4> QED
        BY <4>4 DEF PoolConserved
    <3> QED
      BY <3>1, <3>2
  <2>9. PendStatus'
    <3> SUFFICES ASSUME NEW k \in 1 .. Len(pendq) - 1
                 PROVE  pendq'[k].st \in {"PEND", "BLOCK"}
      BY <2>7 DEF PendStatus
    <3>1. PICK o \in 1 .. Len(pendq) : q[k] = pendq[o]
      BY <2>3, <2>4, SeqFacts
    <3>2. pendq[o].st \in {"PEND", "BLOCK"}
      BY SeqFacts DEF IInv, PendStatus
    <3> QED
      BY <2>6, <3>1, <3>2
  <2>10. BlockedHasBlocker'
    <3> SUFFICES ASSUME NEW k \in 1 .. Len(pendq) - 1, pendq'[k].st = "BLOCK"
                 PROVE  \E j \in 1 .. k - 1 : pendq'[j].block = pendq'[k].off
      BY <2>7 DEF BlockedHasBlocker
    <3>1. q[k].st = "BLOCK" /\ q[k].off # b
      BY <2>6
    <3>2. PICK o \in 1 .. Len(pendq) : /\ q[k] = pendq[o]
                                       /\ o = IF k < i THEN k ELSE k + 1
      BY <2>3, <2>4, SeqFacts
    <3>3. PICK j \in 1 .. o - 1 : pendq[j].block = pendq[o].off
      BY <1>1, <3>1, <3>2, BlockerBefore
    <3> Len(pendq) \in Nat
      BY SeqFacts
    <3>4. j # i
      BY <3>1, <3>2, <3>3 DEF b
    <3>5. CASE j < i
      <4>1. j \in 1 .. k - 1 /\ q[j] = pendq[j]
        BY <2>3, <2>4, <3>2, <3>3, <3>5
      <4>2. pendq'[j].block = q[j].block /\ pendq'[k].off = q[k].off
        BY <2>6, <4>1
      <4> QED
        BY <3>2, <3>3, <4>1, <4>2
    <3>6. CASE j > i
      <4>1. j - 1 \in 1 .. k - 1 /\ q[j - 1] = pendq[j]
        BY <2>3, <2>4, <3>2, <3>3, <3>6
      <4> QED
        BY <2>6, <3>2, <3>3, <4>1
    <3> QED
      BY <2>3, <3>3, <3>4, <3>5, <3>6
  <2>11. LockShape'
    BY <1>1 DEF IInv, LockShape
  <2> QED
    BY <2>8, <2>9, <2>10, <2>11 DEF IInv
<1> QED
  BY <1>2, <1>3

(* Every step of the block interface preserves the invariant.               *)
LEMMA StepIInv == IInv /\ [Next]_vars => IInv'
<1> SUFFICES ASSUME IInv, [Next]_vars PROVE IInv'
  OBVIOUS
<1>1. CASE UNCHANGED vars
  BY <1>1 DEF vars, IInv, TypeOK, PendStatus, BusyShape, BlockedHasBlocker,
              PoolConserved, LockShape
<1>2. CASE Next
  BY <1>1, <1>2, RequestIInv, CancelIInv, ThrIInv, DequeueIInv, ProcIInv, CompleteIInv
  DEF Next, Halted
<1> QED
  BY <1>1, <1>2

-----------------------------------------------------------------------------
(* The invariant that carries every other result: IInv holds throughout     *)
(* every execution of the block interface.                                  *)
THEOREM Inductive == Spec => []IInv
<1>1. Init => IInv
  BY InitIInv
<1>2. IInv /\ [Next]_vars => IInv'
  BY StepIInv
<1> QED
  BY <1>1, <1>2, PTL DEF Spec

(* The queues, the pool count, the lock flag and the return codes keep      *)
(* their types, whatever blockif_request, _cancel and _thr do.              *)
THEOREM TypeCorrect == Spec => []TypeOK
<1>1. IInv => TypeOK
  BY DEF IInv
<1> QED
  BY <1>1, Inductive, PTL

(* Every BLOCKed element waits for one that is still queued before it or is *)
(* in service: blockif_enqueue, _complete and _cancel keep that together.   *)
THEOREM NobodyWaitsForTheGone == Spec => []BlockedHasBlocker
<1>1. IInv => BlockedHasBlocker
  BY DEF IInv
<1> QED
  BY <1>1, Inductive, PTL

(* No element of the pool is leaked or duplicated.                          *)
THEOREM NoElementLeaks == Spec => []PoolConserved
<1>1. IInv => PoolConserved
  BY DEF IInv
<1> QED
  BY <1>1, Inductive, PTL

(* With nothing in service, the head of bc_pendq is PEND: a BLOCKed head    *)
(* would have to wait for an element in front of it.                        *)
LEMMA HeadIsPend ==
  ASSUME IInv, busyq = <<>>, pendq # <<>>
  PROVE  1 \in 1 .. Len(pendq) /\ pendq[1].st = "PEND"
<1>1. 1 \in 1 .. Len(pendq)
  BY SeqFacts, EmptySeq
<1>2. pendq[1].st \in {"PEND", "BLOCK"}
  BY <1>1, SeqFacts DEF IInv, PendStatus
<1>3. pendq[1].st # "BLOCK"
  <2>1. DOMAIN busyq = {}
    OBVIOUS
  <2>2. ~ \E j \in 1 .. 1 - 1 : pendq[j].block = pendq[1].off
    OBVIOUS
  <2> QED
    BY <1>1, <2>1, <2>2, SeqFacts DEF IInv, BlockedHasBlocker
<1> QED
  BY <1>1, <1>2, <1>3

(* blockif_thr never returns while a request is queued.                     *)
THEOREM DrainLeavesNothing == Spec => []DrainsEverything
<1>1. IInv => DrainsEverything
  <2> SUFFICES ASSUME IInv, pc = "drain", pendq # <<>>
               PROVE  \E i \in DOMAIN pendq : pendq[i].st = "PEND"
    BY DEF DrainsEverything
  <2>1. busyq = <<>>
    BY DEF IInv, BusyShape
  <2> QED
    BY <2>1, HeadIsPend, SeqFacts
<1> QED
  BY <1>1, Inductive, PTL

-----------------------------------------------------------------------------
(* Who waits for a callback.                                                *)

ReqsOf(q) == {q[i].req : i \in DOMAIN q}
Distinct(q) == \A i, j \in DOMAIN q : q[i].req = q[j].req => i = j

(* The client waits for what is pending and, until blockif_proc calls it    *)
(* back, for the element in service, which is not pending any more.         *)
CallInv ==
    /\ Distinct(pendq)
    /\ pc = "proc" => /\ busyq[1].st = "BUSY"
                      /\ busyq[1].req \notin ReqsOf(pendq)
                      /\ outstanding = ReqsOf(pendq) \cup {busyq[1].req}
    /\ pc # "proc" => /\ \A k \in DOMAIN busyq : busyq[k].st # "BUSY"
                      /\ outstanding = ReqsOf(pendq)
    /\ ret = "0"

LEMMA CallAppend ==
  ASSUME NEW q \in Seq(Elem), Distinct(q), NEW e \in Elem, e.req \notin ReqsOf(q)
  PROVE  /\ Distinct(Append(q, e))
         /\ ReqsOf(Append(q, e)) = ReqsOf(q) \cup {e.req}
<1> DEFINE t == Append(q, e)
<1>1. /\ Len(q) \in Nat /\ DOMAIN q = 1 .. Len(q)
      /\ DOMAIN t = 1 .. Len(q) + 1
      /\ \A i \in 1 .. Len(q) : t[i] = q[i]
      /\ t[Len(q) + 1] = e
  OBVIOUS
<1> HIDE DEF t
<1>2. \A i \in 1 .. Len(q) : q[i].req # e.req
  BY <1>1 DEF ReqsOf
<1>3. Distinct(t)
  <2> SUFFICES ASSUME NEW i \in 1 .. Len(q) + 1, NEW j \in 1 .. Len(q) + 1,
                      t[i].req = t[j].req
               PROVE  i = j
    BY <1>1 DEF Distinct
  <2>1. CASE i \in 1 .. Len(q) /\ j \in 1 .. Len(q)
    BY <1>1, <2>1 DEF Distinct
  <2>2. CASE i = Len(q) + 1 \/ j = Len(q) + 1
    BY <1>1, <1>2, <2>2
  <2> QED
    BY <1>1, <2>1, <2>2
<1>4. ReqsOf(t) = ReqsOf(q) \cup {e.req}
  <2>1. ASSUME NEW x \in ReqsOf(t) PROVE x \in ReqsOf(q) \cup {e.req}
    BY <1>1 DEF ReqsOf
  <2>2. ASSUME NEW x \in ReqsOf(q) PROVE x \in ReqsOf(t)
    <3>1. PICK i \in 1 .. Len(q) : x = q[i].req
      BY <1>1 DEF ReqsOf
    <3>2. i \in DOMAIN t /\ x = t[i].req
      BY <1>1, <3>1
    <3> QED
      BY <3>2 DEF ReqsOf
  <2>3. Len(q) + 1 \in DOMAIN t /\ t[Len(q) + 1].req = e.req
    BY <1>1
  <2>4. e.req \in ReqsOf(t)
    BY <2>3 DEF ReqsOf
  <2> QED
    BY <2>1, <2>2, <2>4
<1> QED
  BY <1>3, <1>4 DEF t

LEMMA CallRemove ==
  ASSUME NEW q \in Seq(Elem), Distinct(q), NEW i \in 1 .. Len(q)
  PROVE  /\ Distinct(RemoveAt(q, i))
         /\ ReqsOf(RemoveAt(q, i)) = ReqsOf(q) \ {q[i].req}
<1> DEFINE t == RemoveAt(q, i)
           Old(j) == IF j < i THEN j ELSE j + 1
<1>1. Len(q) \in Nat /\ DOMAIN q = 1 .. Len(q)
  OBVIOUS
<1>2. /\ DOMAIN t = 1 .. Len(q) - 1
      /\ \A j \in 1 .. Len(q) - 1 : t[j] = q[Old(j)]
  BY <1>1, RemoveAtProps
<1> HIDE DEF t
<1>3. \A j \in 1 .. Len(q) - 1 : Old(j) \in 1 .. Len(q) /\ Old(j) # i
  BY <1>1
<1>4. \A j, k \in 1 .. Len(q) - 1 : Old(j) = Old(k) => j = k
  BY <1>1
<1>5. \A k \in 1 .. Len(q) : k # i => \E j \in 1 .. Len(q) - 1 : Old(j) = k
  <2> SUFFICES ASSUME NEW k \in 1 .. Len(q), k # i
               PROVE  \E j \in 1 .. Len(q) - 1 : Old(j) = k
    OBVIOUS
  <2>1. CASE k < i
    <3>1. k \in 1 .. Len(q) - 1 /\ Old(k) = k
      BY <1>1, <2>1
    <3> QED
      BY <3>1
  <2>2. CASE k > i
    <3>1. k - 1 \in 1 .. Len(q) - 1 /\ Old(k - 1) = k
      BY <1>1, <2>2
    <3> QED
      BY <3>1
  <2> QED
    BY <1>1, <2>1, <2>2
<1> HIDE DEF Old
<1>6. \A j, k \in 1 .. Len(q) : q[j].req = q[k].req => j = k
  BY <1>1 DEF Distinct
<1>7. Distinct(t)
  BY <1>2, <1>3, <1>4, <1>6 DEF Distinct
<1>8. ReqsOf(t) = ReqsOf(q) \ {q[i].req}
  <2>1. ASSUME NEW x \in ReqsOf(t) PROVE x \in ReqsOf(q) /\ x # q[i].req
    BY <1>1, <1>2, <1>3, <1>6 DEF ReqsOf
  <2>2. ASSUME NEW x \in ReqsOf(q), x # q[i].req PROVE x \in ReqsOf(t)
    <3>1. PICK k \in 1 .. Len(q) : x = q[k].req
      BY <1>1 DEF ReqsOf
    <3>2. PICK j \in 1 .. Len(q) - 1 : Old(j) = k
      BY <1>5, <2>2, <3>1
    <3> QED
      BY <1>2, <3>1, <3>2 DEF ReqsOf
  <2> QED
    BY <2>1, <2>2
<1> QED
  BY <1>7, <1>8 DEF t

LEMMA CallUnblock ==
  ASSUME NEW q \in Seq(Elem), NEW b
  PROVE  /\ Distinct(q) => Distinct(Unblock(q, b))
         /\ ReqsOf(Unblock(q, b)) = ReqsOf(q)
<1> DEFINE t == Unblock(q, b)
<1>1. /\ DOMAIN t = DOMAIN q
      /\ \A i \in DOMAIN q : t[i].req = q[i].req
  BY UnblockProps
<1> HIDE DEF t
<1>2. Distinct(q) => Distinct(t)
  BY <1>1 DEF Distinct
<1>3. ReqsOf(t) = ReqsOf(q)
  BY <1>1 DEF ReqsOf
<1> QED
  BY <1>2, <1>3 DEF t

(* As many elements as there are requests but for one: the pool has one     *)
(* more, and one more for the element in service.                           *)
LEMMA PendqFits ==
  ASSUME NEW q \in Seq(Elem), Distinct(q), NEW r \in Reqs, r \notin ReqsOf(q)
  PROVE  Len(q) <= MAXREQ - 2
<1>1. Len(q) \in Nat /\ DOMAIN q = 1 .. Len(q) /\ \A i \in 1 .. Len(q) : q[i] \in Elem
  OBVIOUS
<1>2. MAXREQ \in Nat /\ MAXREQ - 1 >= 1
  BY BlockIfAssumption DEF Reqs, blockif_queuesz
<1> DEFINE f == [i \in 1 .. Len(q) |-> q[i].req]
<1>3. f \in [1 .. Len(q) -> Reqs \ {r}]
  <2>1. \A i \in 1 .. Len(q) : q[i].req \in Reqs /\ q[i].req # r
    BY <1>1 DEF ReqsOf, Elem
  <2> QED
    BY <2>1
<1>4. IsFiniteSet(Reqs) /\ Cardinality(Reqs) = MAXREQ - 1
  BY <1>2, FS_Interval DEF Reqs, blockif_queuesz
<1>5. IsFiniteSet(Reqs \ {r}) /\ Cardinality(Reqs \ {r}) = MAXREQ - 2
  <2>1. /\ IsFiniteSet(Reqs \ {r})
        /\ Cardinality(Reqs \ {r}) =
             IF r \in Reqs THEN Cardinality(Reqs) - 1 ELSE Cardinality(Reqs)
    BY <1>4, FS_RemoveElement
  <2> QED
    BY <1>2, <1>4, <2>1
<1>6. IsFiniteSet(1 .. Len(q)) /\ Cardinality(1 .. Len(q)) = Len(q)
  <2>1. 1 \in Int /\ Len(q) \in Int
    BY <1>1
  <2>2. /\ IsFiniteSet(1 .. Len(q))
        /\ Cardinality(1 .. Len(q)) = IF 1 > Len(q) THEN 0 ELSE Len(q) - 1 + 1
    BY <2>1, FS_Interval
  <2> QED
    BY <1>1, <2>2
<1>7. ASSUME NEW i \in 1 .. Len(q), NEW j \in 1 .. Len(q), f[i] = f[j]
      PROVE  i = j
  <2>1. q[i].req = q[j].req
    BY <1>7
  <2> QED
    BY <1>1, <2>1 DEF Distinct
<1> HIDE DEF f
<1>8. ~ (Cardinality(Reqs \ {r}) < Cardinality(1 .. Len(q)))
  <2> SUFFICES ASSUME Cardinality(Reqs \ {r}) < Cardinality(1 .. Len(q)) PROVE FALSE
    OBVIOUS
  <2>1. \E i, j \in 1 .. Len(q) : i # j /\ f[i] = f[j]
    BY <1>3, <1>5, <1>6, FS_PigeonHole
  <2> QED
    BY <1>7, <2>1
<1> QED
  BY <1>1, <1>2, <1>5, <1>6, <1>8

(* blockif_request always finds a free element, in the callback too, and    *)
(* queues a request that was not waited for.                                *)
LEMMA RequestCall ==
  ASSUME IInv, CallInv, NEW r \in Reqs, NEW op \in Ops, NEW off \in Offsets,
         NEW len \in Lens, Request(r, op, off, len)
  PROVE  CallInv'
<1>1. CASE ~ CanLock
  BY <1>1 DEF Request, Halt, CallInv, Distinct, ReqsOf
<1>2. CASE CanLock
  <2>1. pc \in {"idle", "callback"} /\ r \notin outstanding /\ outstanding = ReqsOf(pendq)
    BY DEF Request, CallInv
  <2>2. Len(pendq) <= MAXREQ - 2
    BY <2>1, SeqFacts, PendqFits DEF CallInv
  <2>3. Len(busyq) <= 1
    BY <2>1, SeqFacts DEF IInv, BusyShape
  <2>4. nfree > 0
    BY <2>2, <2>3, SeqFacts, BlockIfAssumption DEF IInv, PoolConserved, TypeOK
  <2>5. PICK e : /\ pendq' = Append(pendq, e) /\ e \in Elem /\ e.req = r
                 /\ outstanding' = outstanding \cup {r} /\ ret' = "0"
                 /\ UNCHANGED <<busyq, pc>>
    <3> DEFINE blocked == \/ \E i \in DOMAIN pendq : pendq[i].block = off
                          \/ \E i \in DOMAIN busyq : busyq[i].block = off
               e == [req |-> r, op |-> op, off |-> off,
                     block |-> BeBlock(op, off, len),
                     st |-> IF blocked THEN "BLOCK" ELSE "PEND"]
    <3>1. e \in Elem /\ e.req = r
      BY BlockIfAssumption DEF Elem, BeBlock
    <3>2. /\ pendq' = Append(pendq, e)
          /\ outstanding' = outstanding \cup {r} /\ ret' = "0"
          /\ UNCHANGED <<busyq, pc>>
      BY <1>2, <2>4 DEF Request, Enqueue
    <3> QED
      BY <3>1, <3>2
  <2>6. Distinct(pendq') /\ ReqsOf(pendq') = ReqsOf(pendq) \cup {r}
    BY <2>1, <2>5, SeqFacts, CallAppend DEF CallInv
  <2> QED
    BY <2>1, <2>5, <2>6 DEF CallInv
<1> QED
  BY <1>1, <1>2

(* blockif_cancel finds every request the client waits for.                 *)
LEMMA CancelCall ==
  ASSUME IInv, CallInv, NEW r \in Reqs, Cancel(r)
  PROVE  CallInv'
<1>1. pc = "idle" /\ r \in ReqsOf(pendq) /\ outstanding = ReqsOf(pendq)
  BY DEF Cancel, CallInv
<1>0. Unlink(r)
  BY <1>1, WhoCanLock DEF Cancel
<1>2. \E i \in DOMAIN pendq : pendq[i].req = r
  BY <1>1 DEF ReqsOf
<1>3. PICK i \in DOMAIN pendq : /\ pendq[i].req = r
                                /\ pendq' = Unblock(RemoveAt(pendq, i), pendq[i].block)
  BY <1>0, <1>2 DEF Unlink
<1>4. outstanding' = outstanding \ {r} /\ ret' = "0" /\ UNCHANGED <<busyq, pc>>
  BY <1>0, <1>2 DEF Unlink
<1> DEFINE t == RemoveAt(pendq, i)
<1>5. t \in Seq(Elem) /\ Distinct(t) /\ ReqsOf(t) = ReqsOf(pendq) \ {r}
  BY <1>3, SeqFacts, CallRemove, RemoveAtProps DEF CallInv
<1>6. pendq' = Unblock(t, pendq[i].block)
  BY <1>3
<1> HIDE DEF t
<1>7. Distinct(pendq') /\ ReqsOf(pendq') = ReqsOf(t)
  BY <1>5, <1>6, CallUnblock
<1> QED
  BY <1>1, <1>4, <1>5, <1>7 DEF CallInv

LEMMA DequeueCall == ASSUME IInv, CallInv, Dequeue PROVE CallInv'
<1>1. PICK i \in DOMAIN pendq :
        /\ pendq' = RemoveAt(pendq, i)
        /\ busyq' = Append(busyq, [pendq[i] EXCEPT !.st = "BUSY"])
  BY DEF Dequeue
<1>2. pc' = "proc" /\ UNCHANGED <<outstanding, ret>> /\ outstanding = ReqsOf(pendq)
  BY DEF Dequeue, CallInv
<1>3. busyq = <<>> /\ i \in 1 .. Len(pendq) /\ pendq[i] \in Elem
  BY SeqFacts DEF Dequeue, IInv, BusyShape
<1> DEFINE e == [pendq[i] EXCEPT !.st = "BUSY"]
<1>4. e \in Elem /\ e.req = pendq[i].req /\ e.st = "BUSY"
  BY <1>3, ElemExcept
<1>5. busyq'[1] = e
  BY <1>1, <1>3
<1> HIDE DEF e
<1>6. Distinct(pendq') /\ ReqsOf(pendq') = ReqsOf(pendq) \ {pendq[i].req}
  BY <1>1, <1>3, SeqFacts, CallRemove DEF CallInv
<1>7. pendq[i].req \in ReqsOf(pendq)
  BY DEF ReqsOf
<1> QED
  BY <1>2, <1>4, <1>5, <1>6, <1>7 DEF CallInv

LEMMA ProcCall == ASSUME IInv, CallInv, Proc PROVE CallInv'
<1>1. Len(busyq) = 1 /\ busyq[1] \in Elem /\ DOMAIN busyq = {1} /\ busyq \in Seq(Elem)
  BY SeqFacts DEF Proc, IInv, BusyShape
<1> DEFINE e == [busyq[1] EXCEPT !.st = "DONE"]
<1>2. e \in Elem /\ e.st = "DONE"
  BY <1>1, ElemExcept
<1>3. busyq' = [busyq EXCEPT ![1] = e]
  BY <1>1 DEF Proc
<1> HIDE DEF e
<1>4. DOMAIN (busyq') = {1} /\ busyq'[1].st # "BUSY"
  BY <1>1, <1>2, <1>3
<1>5. /\ outstanding' = outstanding \ {busyq[1].req} /\ pc = "proc" /\ pc' = "callback"
      /\ UNCHANGED <<pendq, ret>>
  BY <1>1 DEF Proc
<1>6. outstanding' = ReqsOf(pendq)
  BY <1>5 DEF CallInv
<1> QED
  BY <1>4, <1>5, <1>6 DEF CallInv

LEMMA CompleteCall == ASSUME IInv, CallInv, Complete PROVE CallInv'
<1>1. Len(busyq) = 1
  BY DEF Complete, IInv, BusyShape
<1>2. busyq' = <<>>
  BY <1>1, SeqFacts DEF Complete, Front
<1>3. PICK b : pendq' = Unblock(pendq, b)
  BY DEF Complete
<1>4. Distinct(pendq') /\ ReqsOf(pendq') = ReqsOf(pendq)
  BY <1>3, SeqFacts, CallUnblock DEF CallInv
<1> QED
  BY <1>2, <1>4 DEF Complete, CallInv

LEMMA ThrCall == ASSUME CallInv, ThrEnter \/ ThrReturn PROVE CallInv'
  BY DEF ThrEnter, ThrReturn, Halt, CallInv, Distinct, ReqsOf

LEMMA CallInductive == Spec => []CallInv
<1>1. Init => CallInv
  BY DEF Init, CallInv, Distinct, ReqsOf
<1>2. IInv /\ CallInv /\ [Next]_vars => CallInv'
  <2> SUFFICES ASSUME IInv, CallInv, [Next]_vars PROVE CallInv'
    OBVIOUS
  <2>1. CASE UNCHANGED vars
    BY <2>1 DEF vars, CallInv, Distinct, ReqsOf
  <2>2. CASE Next
    BY <2>1, <2>2, RequestCall, CancelCall, ThrCall, DequeueCall, ProcCall,
       CompleteCall
    DEF Next, Halted
  <2> QED
    BY <2>1, <2>2
<1> QED
  BY <1>1, <1>2, Inductive, PTL DEF Spec

(* The client waits for exactly the requests that are queued or in service, *)
(* each once: blockif_proc, blockif_cancel and a callback that resubmits    *)
(* neither lose a callback nor make one twice.                              *)
THEOREM EveryRequestIsCalledBackOnce == Spec => []ExactlyOneCallback
<1>1. IInv /\ CallInv => ExactlyOneCallback
  <2> SUFFICES ASSUME IInv, CallInv PROVE ExactlyOneCallback
    OBVIOUS
  <2>1. CASE pc = "proc"
    <3>1. DOMAIN busyq = {1}
      BY <2>1, SeqFacts DEF IInv, BusyShape
    <3> QED
      BY <2>1, <3>1 DEF CallInv, Distinct, ReqsOf, ExactlyOneCallback
  <2>2. CASE pc # "proc"
    BY <2>2 DEF CallInv, Distinct, ReqsOf, ExactlyOneCallback
  <2> QED
    BY <2>1, <2>2
<1> QED
  BY <1>1, Inductive, CallInductive, PTL

(* A client with blockif_queuesz requests is never refused, and never waits *)
(* in blockif_cancel for an element in service: the pool has one element    *)
(* more than the client has requests.                                       *)
THEOREM ClientIsNeverRefused == Spec => []CallsSucceed
<1>1. CallInv => CallsSucceed
  BY DEF CallInv, CallsSucceed
<1> QED
  BY <1>1, CallInductive, PTL

-----------------------------------------------------------------------------
(* The refinement: what each step does to the mapped queues.                *)

AbsReq == [req : Reqs, op : BlockOp, off : Nat]
AbsOf(e) == [req |-> e.req, op |-> e.op, off |-> e.off]

(* The mapping keeps the length of a queue and maps it element by element.  *)
LEMMA MappedProps ==
  ASSUME NEW q \in Seq(Elem)
  PROVE  /\ Mapped(q) \in Seq(AbsReq)
         /\ Len(Mapped(q)) = Len(q)
         /\ \A i \in 1 .. Len(q) : Mapped(q)[i] = AbsOf(q[i])
<1>1. DOMAIN q = 1 .. Len(q) /\ Len(q) \in Nat
  OBVIOUS
<1>2. Mapped(q) = [i \in 1 .. Len(q) |-> AbsOf(q[i])]
  BY <1>1 DEF Mapped, AbsOf
<1>3. \A i \in 1 .. Len(q) : AbsOf(q[i]) \in AbsReq
  <2>1. ASSUME NEW i \in 1 .. Len(q) PROVE AbsOf(q[i]) \in AbsReq
    <3>1. q[i] \in Elem
      OBVIOUS
    <3> QED
      BY <3>1 DEF AbsOf, AbsReq, Elem
  <2> QED
    BY <2>1
<1>4. Mapped(q) \in [1 .. Len(q) -> AbsReq]
  BY <1>2, <1>3
<1>5. Mapped(q) \in Seq(AbsReq) /\ Len(Mapped(q)) = Len(q)
  BY <1>1, <1>4
<1> QED
  BY <1>2, <1>5

(* An empty queue maps to an empty queue, and only an empty one does.       *)
LEMMA MappedEmpty ==
  ASSUME NEW q \in Seq(Elem)
  PROVE  Mapped(q) = <<>> <=> q = <<>>
<1>1. Len(Mapped(q)) = Len(q) /\ Mapped(q) \in Seq(AbsReq)
  BY MappedProps
<1>2. q = <<>> <=> Len(q) = 0
  BY EmptySeq
<1>3. Mapped(q) = <<>> <=> Len(Mapped(q)) = 0
  BY <1>1, EmptySeq
<1> QED
  BY <1>1, <1>2, <1>3

(* Appending, removing and unblocking commute with the mapping.             *)
LEMMA MappedAppend ==
  ASSUME NEW q \in Seq(Elem), NEW e \in Elem
  PROVE  Mapped(Append(q, e)) = Append(Mapped(q), AbsOf(e))
<1> DEFINE s == Mapped(Append(q, e))
           t == Append(Mapped(q), AbsOf(e))
<1>1. /\ Append(q, e) \in Seq(Elem) /\ Len(Append(q, e)) = Len(q) + 1
      /\ \A i \in 1 .. Len(q) : Append(q, e)[i] = q[i]
      /\ Append(q, e)[Len(q) + 1] = e
      /\ Len(q) \in Nat
  OBVIOUS
<1>2. AbsOf(e) \in AbsReq
  BY DEF AbsOf, AbsReq, Elem
<1>3. /\ s \in Seq(AbsReq) /\ Len(s) = Len(q) + 1
      /\ \A i \in 1 .. Len(q) + 1 : s[i] = AbsOf(Append(q, e)[i])
  BY <1>1, MappedProps
<1>4. /\ Mapped(q) \in Seq(AbsReq) /\ Len(Mapped(q)) = Len(q)
      /\ \A i \in 1 .. Len(q) : Mapped(q)[i] = AbsOf(q[i])
  BY MappedProps
<1>5. /\ t \in Seq(AbsReq) /\ Len(t) = Len(q) + 1
      /\ \A i \in 1 .. Len(q) : t[i] = Mapped(q)[i]
      /\ t[Len(q) + 1] = AbsOf(e)
  BY <1>2, <1>4, AppendProperties
<1> HIDE DEF s, t
<1>6. \A i \in 1 .. Len(s) : s[i] = t[i]
  BY <1>1, <1>3, <1>4, <1>5
<1>7. s = t
  BY <1>3, <1>5, <1>6, SeqEqual
<1> QED
  BY <1>7 DEF s, t

(* ... removal,                                                             *)
LEMMA MappedRemove ==
  ASSUME NEW q \in Seq(Elem), NEW i \in 1 .. Len(q)
  PROVE  Mapped(RemoveAt(q, i)) = RemoveAt(Mapped(q), i)
<1> DEFINE s == Mapped(RemoveAt(q, i))
           t == RemoveAt(Mapped(q), i)
<1>1. /\ RemoveAt(q, i) \in Seq(Elem) /\ Len(RemoveAt(q, i)) = Len(q) - 1
      /\ \A j \in 1 .. Len(q) - 1 :
           RemoveAt(q, i)[j] = IF j < i THEN q[j] ELSE q[j + 1]
      /\ Len(q) \in Nat
  BY RemoveAtProps
<1>2. /\ s \in Seq(AbsReq) /\ Len(s) = Len(q) - 1
      /\ \A j \in 1 .. Len(q) - 1 : s[j] = AbsOf(RemoveAt(q, i)[j])
  BY <1>1, MappedProps
<1>3. /\ Mapped(q) \in Seq(AbsReq) /\ Len(Mapped(q)) = Len(q)
      /\ \A j \in 1 .. Len(q) : Mapped(q)[j] = AbsOf(q[j])
  BY MappedProps
<1>4. /\ t \in Seq(AbsReq) /\ Len(t) = Len(q) - 1
      /\ \A j \in 1 .. Len(q) - 1 :
           t[j] = IF j < i THEN Mapped(q)[j] ELSE Mapped(q)[j + 1]
  BY <1>3, RemoveAtProps
<1> HIDE DEF s, t
<1>5. \A j \in 1 .. Len(s) : s[j] = t[j]
  <2> SUFFICES ASSUME NEW j \in 1 .. Len(q) - 1 PROVE s[j] = t[j]
    BY <1>2
  <2>1. CASE j < i
    <3>1. j \in 1 .. Len(q)
      BY <1>1
    <3> QED
      BY <1>1, <1>2, <1>3, <1>4, <2>1, <3>1
  <2>2. CASE ~ (j < i)
    <3>1. j + 1 \in 1 .. Len(q)
      BY <1>1
    <3> QED
      BY <1>1, <1>2, <1>3, <1>4, <2>2, <3>1
  <2> QED
    BY <2>1, <2>2
<1>6. s = t
  BY <1>2, <1>4, <1>5, SeqEqual
<1> QED
  BY <1>6 DEF s, t

(* ... and unblocking, which the mapping does not even see.                 *)
LEMMA MappedUnblock ==
  ASSUME NEW q \in Seq(Elem), NEW b
  PROVE  Mapped(Unblock(q, b)) = Mapped(q)
<1> DEFINE u == Unblock(q, b)
<1>1. /\ u \in Seq(Elem) /\ Len(u) = Len(q)
      /\ \A i \in 1 .. Len(q) : u[i].req = q[i].req /\ u[i].op = q[i].op
                                /\ u[i].off = q[i].off
  BY UnblockProps
<1> HIDE DEF u
<1>2. /\ Mapped(u) \in Seq(AbsReq) /\ Len(Mapped(u)) = Len(q)
      /\ \A i \in 1 .. Len(q) : Mapped(u)[i] = AbsOf(u[i])
  BY <1>1, MappedProps
<1>3. /\ Mapped(q) \in Seq(AbsReq) /\ Len(Mapped(q)) = Len(q)
      /\ \A i \in 1 .. Len(q) : Mapped(q)[i] = AbsOf(q[i])
  BY MappedProps
<1>4. \A i \in 1 .. Len(q) : AbsOf(u[i]) = AbsOf(q[i])
  BY <1>1 DEF AbsOf
<1>5. \A i \in 1 .. Len(Mapped(u)) : Mapped(u)[i] = Mapped(q)[i]
  BY <1>2, <1>3, <1>4
<1>6. Mapped(u) = Mapped(q)
  BY <1>2, <1>3, <1>5, SeqEqual
<1> QED
  BY <1>6 DEF u

(* blockif_request is a Submit, or changes neither queue.                   *)
LEMMA RequestAbs ==
  ASSUME IInv, NEW r \in Reqs, NEW op \in Ops, NEW off \in Offsets,
         NEW len \in Lens, Request(r, op, off, len)
  PROVE  [Abs!Next]_(Abs!vars)
<1>1. CASE UNCHANGED <<pendq, busyq>>
  BY <1>1 DEF Abs!vars
<1>2. CASE ~ UNCHANGED <<pendq, busyq>>
  <2> DEFINE blocked == \/ \E i \in DOMAIN pendq : pendq[i].block = off
                        \/ \E i \in DOMAIN busyq : busyq[i].block = off
             e == [req |-> r, op |-> op, off |-> off,
                   block |-> BeBlock(op, off, len),
                   st |-> IF blocked THEN "BLOCK" ELSE "PEND"]
  <2>1. pendq' = Append(pendq, e) /\ busyq' = busyq
    BY <1>2 DEF Request, Enqueue, Halt
  <2>2. e \in Elem /\ AbsOf(e) \in [req : Reqs, op : Ops, off : Offsets]
    BY BlockIfAssumption DEF Elem, BeBlock, AbsOf
  <2> HIDE DEF e
  <2>3. Mapped(pendq') = Append(Mapped(pendq), AbsOf(e))
    BY <2>1, <2>2, SeqFacts, MappedAppend
  <2>4. Mapped(busyq') = Mapped(busyq)
    BY <2>1
  <2>5. Abs!Submit(AbsOf(e))
    BY <2>3, <2>4 DEF Abs!Submit
  <2> QED
    BY <2>2, <2>5 DEF Abs!Next
<1> QED
  BY <1>1, <1>2

(* blockif_cancel removes one waiting request, or changes neither queue.    *)
LEMMA CancelAbs ==
  ASSUME IInv, NEW r \in Reqs, Cancel(r)
  PROVE  [Abs!Next]_(Abs!vars)
<1>0. pc = "idle" /\ Unlink(r)
  BY WhoCanLock DEF Cancel
<1>1. busyq = <<>> /\ busyq' = busyq
  BY <1>0 DEF Unlink, IInv, BusyShape
<1>2. CASE pendq' = pendq
  BY <1>1, <1>2 DEF Abs!vars
<1>3. CASE pendq' # pendq
  <2>1. PICK i \in DOMAIN pendq :
          pendq' = Unblock(RemoveAt(pendq, i), pendq[i].block)
    BY <1>0, <1>3 DEF Unlink
  <2>2. i \in 1 .. Len(pendq)
    BY SeqFacts
  <2>3. RemoveAt(pendq, i) \in Seq(Elem)
    BY <2>2, SeqFacts, RemoveAtProps
  <2>4. Mapped(pendq') = RemoveAt(Mapped(pendq), i)
    BY <2>1, <2>2, <2>3, SeqFacts, MappedUnblock, MappedRemove
  <2>5. i \in DOMAIN Mapped(pendq)
    BY <2>1 DEF Mapped
  <2>6. Mapped(busyq) = <<>> /\ Mapped(busyq') = Mapped(busyq)
    BY <1>1, SeqFacts, MappedEmpty
  <2>7. Abs!Cancel(i)
    BY <2>4, <2>6 DEF Abs!Cancel, Abs!RemoveAt, RemoveAt
  <2> QED
    BY <2>5, <2>7 DEF Abs!Next
<1> QED
  BY <1>2, <1>3

(* blockif_dequeue takes the head of the queue although it searches for a   *)
(* PEND element: with nothing in service the head is PEND.                  *)
LEMMA DequeueAbs == ASSUME IInv, Dequeue PROVE [Abs!Next]_(Abs!vars)
<1>1. PICK i \in DOMAIN pendq :
        /\ FirstPend(i)
        /\ pendq' = RemoveAt(pendq, i)
        /\ busyq' = Append(busyq, [pendq[i] EXCEPT !.st = "BUSY"])
  BY DEF Dequeue
<1>2. busyq = <<>> /\ i \in 1 .. Len(pendq)
  BY SeqFacts DEF Dequeue, IInv, BusyShape
<1>3. pendq # <<>>
  BY <1>2
<1>4. i = 1
  BY <1>1, <1>2, <1>3, HeadIsPend, SeqFacts DEF FirstPend
<1> DEFINE e == [pendq[1] EXCEPT !.st = "BUSY"]
           M == Mapped(pendq)
<1>5. /\ e \in Elem
      /\ e.req = pendq[1].req /\ e.op = pendq[1].op /\ e.off = pendq[1].off
  BY <1>2, <1>4, SeqFacts, ElemExcept
<1>6. AbsOf(e) = AbsOf(pendq[1])
  BY <1>5 DEF AbsOf
<1>7. busyq' = <<e>>
  BY <1>1, <1>2, <1>4
<1> HIDE DEF e
<1>8. Mapped(busyq') = <<AbsOf(e)>>
  BY <1>7 DEF Mapped, AbsOf
<1>9. /\ M \in Seq(AbsReq) /\ Len(M) = Len(pendq) /\ M[1] = AbsOf(pendq[1])
      /\ M # <<>>
  BY <1>2, <1>3, <1>4, SeqFacts, MappedProps, MappedEmpty
<1>10. Mapped(pendq') = RemoveAt(M, 1)
  BY <1>1, <1>2, <1>4, SeqFacts, MappedRemove
<1> HIDE DEF M
<1>11. RemoveAt(M, 1) = Tail(M)
  <2>1. 1 \in 1 .. Len(M) /\ Len(M) \in Nat
    BY <1>2, <1>4, <1>9, SeqFacts
  <2>2. /\ RemoveAt(M, 1) \in Seq(AbsReq)
        /\ Len(RemoveAt(M, 1)) = Len(M) - 1
        /\ \A j \in 1 .. Len(M) - 1 : RemoveAt(M, 1)[j] = M[j + 1]
    BY <1>9, <2>1, RemoveAtProps
  <2>3. /\ Tail(M) \in Seq(AbsReq) /\ Len(Tail(M)) = Len(M) - 1
        /\ \A j \in 1 .. Len(Tail(M)) : Tail(M)[j] = M[j + 1]
    BY <1>9, HeadTailProperties
  <2>4. \A j \in 1 .. Len(RemoveAt(M, 1)) : RemoveAt(M, 1)[j] = Tail(M)[j]
    BY <2>2, <2>3
  <2> QED
    BY <2>2, <2>3, <2>4, SeqEqual
<1>12. Head(M) = M[1]
  BY <1>9
<1>13. Mapped(busyq) = <<>>
  BY <1>2, SeqFacts, MappedEmpty
<1>14. Abs!Start
  BY <1>6, <1>8, <1>9, <1>10, <1>11, <1>12, <1>13 DEF Abs!Start, M
<1> QED
  BY <1>14 DEF Abs!Next

(* blockif_proc marks the element, which the mapping does not see.          *)
LEMMA ProcAbs == ASSUME IInv, Proc PROVE [Abs!Next]_(Abs!vars)
<1>1. Len(busyq) = 1 /\ busyq[1] \in Elem /\ DOMAIN busyq = {1}
  BY SeqFacts DEF Proc, IInv, BusyShape
<1> DEFINE e == [busyq[1] EXCEPT !.st = "DONE"]
<1>2. e \in Elem /\ e.req = busyq[1].req /\ e.op = busyq[1].op
      /\ e.off = busyq[1].off
  BY <1>1, ElemExcept
<1>3. busyq' = [busyq EXCEPT ![1] = e] /\ pendq' = pendq
  BY <1>1 DEF Proc
<1> HIDE DEF e
<1>4. DOMAIN (busyq') = {1} /\ busyq'[1] = e
  BY <1>1, <1>3, SeqFacts
<1>5. Mapped(busyq') = Mapped(busyq)
  BY <1>1, <1>2, <1>4 DEF Mapped
<1> QED
  BY <1>3, <1>5 DEF Abs!vars

(* blockif_complete ends the service.                                       *)
LEMMA CompleteAbs == ASSUME IInv, Complete PROVE [Abs!Next]_(Abs!vars)
<1>1. Len(busyq) = 1
  BY DEF Complete, IInv, BusyShape
<1>2. busyq' = <<>>
  BY <1>1, SeqFacts DEF Complete, Front
<1>3. Mapped(pendq') = Mapped(pendq)
  BY SeqFacts, MappedUnblock DEF Complete
<1>4. Mapped(busyq) # <<>>
  BY <1>1, SeqFacts, MappedEmpty
<1>5. Mapped(busyq') = <<>>
  <2>1. <<>> \in Seq(Elem)
    OBVIOUS
  <2> QED
    BY <1>2, <2>1, MappedEmpty
<1>6. Abs!Finish
  BY <1>3, <1>4, <1>5 DEF Abs!Finish
<1> QED
  BY <1>6 DEF Abs!Next

(* Every step of the block interface is a step of the FIFO server or leaves *)
(* it alone.                                                                *)
LEMMA StepAbs == IInv /\ [Next]_vars => [Abs!Next]_(Abs!vars)
<1> SUFFICES ASSUME IInv, [Next]_vars PROVE [Abs!Next]_(Abs!vars)
  OBVIOUS
<1>1. CASE UNCHANGED <<pendq, busyq>>
  BY <1>1 DEF Abs!vars
<1>2. CASE ThrEnter \/ ThrReturn \/ Halted \/ UNCHANGED vars
  BY <1>1, <1>2 DEF ThrEnter, ThrReturn, Halt, Halted, vars
<1>3. CASE \E r \in Reqs, op \in Ops, off \in Offsets, len \in Lens :
             Request(r, op, off, len)
  BY <1>3, RequestAbs
<1>4. CASE \E r \in Reqs : Cancel(r)
  BY <1>4, CancelAbs
<1>5. CASE Dequeue \/ Proc \/ Complete
  BY <1>5, DequeueAbs, ProcAbs, CompleteAbs
<1> QED
  BY <1>2, <1>3, <1>4, <1>5 DEF Next

(* The block interface implements the FIFO server: requests are served one  *)
(* at a time in the order of their submission, for every pool size and      *)
(* every pattern of offsets.                                                *)
THEOREM Fifo == Spec => ImplementsFifo
<1>1. Init => Abs!Init
  <2>1. <<>> \in Seq(Elem)
    OBVIOUS
  <2> QED
    BY <2>1, MappedEmpty DEF Init, Abs!Init
<1>2. IInv /\ [Next]_vars => [Abs!Next]_(Abs!vars)
  BY StepAbs
<1> QED
  BY <1>1, <1>2, Inductive, PTL DEF Spec, ImplementsFifo, Abs!Spec
===============================================================================
