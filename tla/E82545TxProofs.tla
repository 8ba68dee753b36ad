---------------------------- MODULE E82545TxProofs ----------------------------
(***************************************************************************)
(* Proofs about the transmitter of the e1000: frames leave in order, each   *)
(* once and with its context, whatever the driver writes, reclaims or       *)
(* resets while e82545_tx_run is at work; no buffer is given back before    *)
(* its frame has left; and every completion is told.                        *)
(***************************************************************************)
EXTENDS E82545Tx, SequenceTheorems, WellFoundedInduction, TLAPS

-----------------------------------------------------------------------------
(* Sets of numbers, bounded sequences, and arithmetic on the ring.          *)

(* Every set of numbers has a least one, for < is well-founded; Min is it.  *)
LEMMA Smallest ==
  ASSUME NEW S, S \subseteq Nat, S # {} PROVE \E x \in S : \A y \in S : x <= y
<1> DEFINE R == OpToRel(<, Nat)
<1>1. IsWellFoundedOn(R, Nat)
  BY NatLessThanWellFounded
<1>2. \A a, b \in Nat : <<a, b>> \in R <=> a < b
  BY DEF OpToRel
<1> HIDE DEF R
<1>3. PICK x \in S : \A y \in S : ~ (<<y, x>> \in R)
  BY <1>1, WFMin
<1>4. ASSUME NEW y \in S PROVE x <= y
  <2>1. x \in Nat /\ y \in Nat /\ ~ (y < x)
    BY <1>2, <1>3
  <2> QED
    BY <2>1
<1> QED
  BY <1>4

LEMMA MinIs ==
  ASSUME NEW S, S \subseteq Nat, S # {} PROVE Min(S) \in S /\ \A y \in S : Min(S) <= y
  BY Smallest DEF Min

(* The bounded sequences of SeqOf, by their length.                         *)
LEMMA SeqOfIs ==
  ASSUME NEW S, NEW n \in Nat, NEW s
  PROVE  s \in SeqOf(S, n) <=> s \in Seq(S) /\ Len(s) <= n
<1>1. ASSUME s \in SeqOf(S, n) PROVE s \in Seq(S) /\ Len(s) <= n
  <2>1. PICK m \in 0 .. n : s \in [1 .. m -> S]
    BY <1>1 DEF SeqOf
  <2>2. m \in Nat /\ s \in Seq(S)
    BY <2>1
  <2>3. Len(s) = m
    BY <2>1, <2>2
  <2> QED
    BY <2>2, <2>3
<1>2. ASSUME s \in Seq(S), Len(s) <= n PROVE s \in SeqOf(S, n)
  <2>1. s \in [1 .. Len(s) -> S] /\ Len(s) \in 0 .. n
    BY <1>2
  <2> QED
    BY <2>1 DEF SeqOf
<1> QED
  BY <1>1, <1>2

LEMMA PlusType == ASSUME NEW i \in Int, NEW n \in Int PROVE Plus(i, n) \in Slots
  BY TxAssumption DEF Plus, Slots

(* The two remainders, made linear.                                         *)
LEMMA PlusIs ==
  ASSUME NEW i \in Slots, NEW n \in 0 .. TxSize
  PROVE  Plus(i, n) = IF i + n < TxSize THEN i + n ELSE i + n - TxSize
  BY TxAssumption DEF Plus, Slots

LEMMA DistIs ==
  ASSUME NEW a \in Slots, NEW b \in Slots
  PROVE  Dist(a, b) = IF a <= b THEN b - a ELSE b - a + TxSize
  BY TxAssumption DEF Dist, Slots

LEMMA SizeFacts == TxSize \in Nat /\ TxSize >= 2 /\ MaxInUse \in Nat /\ MaxInUse <= TxSize - 1
  BY TxAssumption

LEMMA SlotIs == ASSUME NEW a \in Slots PROVE a \in Int /\ 0 <= a /\ a < TxSize
  BY SizeFacts DEF Slots

LEMMA DistType ==
  ASSUME NEW a \in Slots, NEW b \in Slots
  PROVE  /\ Dist(a, b) \in 0 .. TxSize - 1 /\ Dist(a, b) \in Nat
         /\ Dist(a, a) = 0 /\ (Dist(a, b) = 0 => b = a)
<1>1. a \in Int /\ 0 <= a /\ a < TxSize /\ b \in Int /\ 0 <= b /\ b < TxSize
  BY SlotIs
<1>2. /\ Dist(a, b) = IF a <= b THEN b - a ELSE b - a + TxSize
      /\ Dist(a, a) = IF a <= a THEN a - a ELSE a - a + TxSize
  BY DistIs
<1> QED
  BY <1>1, <1>2, SizeFacts

LEMMA DistMinus ==
  ASSUME NEW a \in Slots, NEW b \in Slots, NEW c \in Slots
  PROVE  /\ Dist(a, b) = Dist(a, c) => b = c
         /\ Dist(a, b) <= Dist(a, c) => Dist(b, c) = Dist(a, c) - Dist(a, b)
<1>1. /\ a \in Int /\ 0 <= a /\ a < TxSize /\ b \in Int /\ 0 <= b /\ b < TxSize
      /\ c \in Int /\ 0 <= c /\ c < TxSize
  BY SlotIs
<1>2. /\ Dist(a, b) = IF a <= b THEN b - a ELSE b - a + TxSize
      /\ Dist(a, c) = IF a <= c THEN c - a ELSE c - a + TxSize
      /\ Dist(b, c) = IF b <= c THEN c - b ELSE c - b + TxSize
  BY DistIs
<1> QED
  BY <1>1, <1>2, SizeFacts

LEMMA Forward ==
  ASSUME NEW a \in Slots, NEW k \in 0 .. TxSize - 1
  PROVE  Plus(a, k) \in Slots /\ Dist(a, Plus(a, k)) = k
<1>1. k \in 0 .. TxSize /\ k \in Int /\ 0 <= k /\ k <= TxSize - 1
  BY SizeFacts
<1>2. Plus(a, k) = IF a + k < TxSize THEN a + k ELSE a + k - TxSize
  BY <1>1, PlusIs
<1>3. a \in Int /\ 0 <= a /\ a < TxSize
  BY SlotIs
<1>4. Plus(a, k) \in Slots
  BY <1>1, <1>2, <1>3, SizeFacts DEF Slots
<1>5. Dist(a, Plus(a, k)) = IF a <= Plus(a, k) THEN Plus(a, k) - a ELSE Plus(a, k) - a + TxSize
  BY <1>4, DistIs
<1> QED
  BY <1>1, <1>2, <1>3, <1>4, <1>5, SizeFacts

LEMMA Backward ==
  ASSUME NEW a \in Slots, NEW b \in Slots PROVE Plus(a, Dist(a, b)) = b
<1>1. Dist(a, b) \in 0 .. TxSize - 1
  BY DistType
<1>2. Plus(a, Dist(a, b)) \in Slots /\ Dist(a, Plus(a, Dist(a, b))) = Dist(a, b)
  BY <1>1, Forward
<1> QED
  BY <1>2, DistMinus

LEMMA PlusPlus ==
  ASSUME NEW a \in Slots, NEW m \in Nat, NEW k \in Nat, m + k <= TxSize
  PROVE  Plus(Plus(a, m), k) = Plus(a, m + k)
<1>1. m \in 0 .. TxSize /\ k \in 0 .. TxSize /\ m + k \in 0 .. TxSize
  BY SizeFacts
<1>2. a \in Int /\ 0 <= a /\ a < TxSize
  BY SlotIs
<1>3. Plus(a, m) \in Slots
  BY <1>2, PlusType
<1>4. /\ Plus(a, m) = IF a + m < TxSize THEN a + m ELSE a + m - TxSize
      /\ Plus(a, m + k) = IF a + (m + k) < TxSize THEN a + (m + k) ELSE a + (m + k) - TxSize
      /\ Plus(Plus(a, m), k) = IF Plus(a, m) + k < TxSize THEN Plus(a, m) + k
                               ELSE Plus(a, m) + k - TxSize
  BY <1>1, <1>3, PlusIs
<1> QED
  BY <1>1, <1>2, <1>4, SizeFacts

(* The start of a stretch moves forward.                                    *)
LEMMA Moved ==
  ASSUME NEW a \in Slots, NEW b \in Slots, NEW m \in 0 .. Dist(a, b)
  PROVE  /\ Plus(a, m) \in Slots
         /\ Dist(Plus(a, m), b) = Dist(a, b) - m
         /\ \A x \in 0 .. Dist(a, b) - m : Plus(Plus(a, m), x) = Plus(a, m + x)
<1>1. Dist(a, b) \in 0 .. TxSize - 1 /\ m \in 0 .. TxSize - 1 /\ m \in Nat /\ Dist(a, b) \in Nat
      /\ m <= Dist(a, b)
  BY DistType, SizeFacts
<1>2. Plus(a, m) \in Slots /\ Dist(a, Plus(a, m)) = m
  BY <1>1, Forward
<1>3. Dist(Plus(a, m), b) = Dist(a, b) - m
  BY <1>1, <1>2, DistMinus
<1>4. ASSUME NEW x \in 0 .. Dist(a, b) - m PROVE Plus(Plus(a, m), x) = Plus(a, m + x)
  <2>1. x \in Nat /\ m + x <= TxSize
    BY <1>1, SizeFacts
  <2> QED
    BY <1>1, <2>1, PlusPlus
<1> QED
  BY <1>2, <1>3, <1>4

-----------------------------------------------------------------------------
(* What the driver has written and the device has not sent yet: the u       *)
(* descriptors of the ring r from slot a on.                                *)

KindAt(r, a, x) == r[Plus(a, x)].kind

(* Nothing is marked before the device has been there.                      *)
NotDone(r, a, u) == \A x \in 0 .. u - 1 : ~ r[Plus(a, x)].dd

(* The packet w the driver is writing is at the end, from its first         *)
(* descriptor on.                                                           *)
PartAtEnd(w, r, a, u) ==
    /\ Len(w) <= u
    /\ \A k \in 1 .. Len(w) : w[k] = Plus(a, u - Len(w) + k - 1)
    /\ \A x \in u - Len(w) .. u - 1 : KindAt(r, a, x) = "frag"
    /\ Len(w) < u => KindAt(r, a, u - Len(w) - 1) # "frag"

(* A context stands between packets.                                        *)
CtxBetween(r, a, u) ==
    \A x \in 1 .. u - 1 : KindAt(r, a, x) = "ctx" => KindAt(r, a, x - 1) # "frag"

(* An owed frame is a packet in the ring, from its first descriptor to the  *)
(* one with EOP.                                                            *)
End(f, a) == Dist(a, f.bufs[Len(f.bufs)])
FrameIn(f, r, a, u) ==
    LET m == Len(f.bufs)
        e == End(f, a)
    IN /\ m >= 1 /\ m - 1 <= e /\ e < u
       /\ \A k \in 1 .. m : f.bufs[k] = Plus(a, e - m + k)
       /\ KindAt(r, a, e) = "eop"
       /\ \A x \in e - m + 1 .. e - 1 : KindAt(r, a, x) = "frag"
       /\ m <= e => KindAt(r, a, e - m) # "frag"
FramesIn(q, r, a, u) == \A j \in 1 .. Len(q) : FrameIn(q[j], r, a, u)

(* They are owed in the order of the ring, ...                              *)
Ordered(q, a) == \A j, k \in 1 .. Len(q) : j < k => End(q[j], a) < End(q[k], a)

(* ... and every EOP ends one of them or a packet of too many segments.     *)
TooLong(e, r, a) ==
    e >= MaxSegs /\ \A x \in e - MaxSegs .. e - 1 : KindAt(r, a, x) = "frag"
Complete(q, r, a, u) ==
    \A e \in 0 .. u - 1 :
        KindAt(r, a, e) = "eop" =>
            TooLong(e, r, a) \/ \E j \in 1 .. Len(q) : End(q[j], a) = e

(* The context in force at the x-th descriptor, t being the one saved.      *)
CtxAt(x, c, r, a, t) ==
    \/ c = t /\ \A z \in 0 .. x - 1 : KindAt(r, a, z) # "ctx"
    \/ \E y \in 0 .. x - 1 : /\ KindAt(r, a, y) = "ctx" /\ c = r[Plus(a, y)].ctx
                             /\ \A z \in y + 1 .. x - 1 : KindAt(r, a, z) # "ctx"
FramesCtx(q, r, a, t) == \A j \in 1 .. Len(q) : CtxAt(End(q[j], a), q[j].ctx, r, a, t)

Log(r, a, u, w, q, t, g) ==
    /\ NotDone(r, a, u) /\ PartAtEnd(w, r, a, u) /\ CtxBetween(r, a, u)
    /\ FramesIn(q, r, a, u) /\ Ordered(q, a) /\ Complete(q, r, a, u)
    /\ FramesCtx(q, r, a, t) /\ CtxAt(u, g, r, a, t)

LEMMA SegsFacts == MaxSegs \in Nat /\ MaxSegs >= 1
  BY TxAssumption

LEMMA FrameFacts ==
  ASSUME NEW f \in Frames
  PROVE  /\ f.bufs \in Seq(Slots) /\ Len(f.bufs) \in Nat /\ Len(f.bufs) <= MaxSegs
         /\ \A k \in 1 .. Len(f.bufs) : f.bufs[k] \in Slots
         /\ f.ctx \in Contexts /\ f = [bufs |-> f.bufs, ctx |-> f.ctx]
<1>1. f.bufs \in SeqOf(Slots, MaxSegs) /\ f.ctx \in Contexts
      /\ f = [bufs |-> f.bufs, ctx |-> f.ctx]
  BY DEF Frames
<1>2. f.bufs \in Seq(Slots) /\ Len(f.bufs) <= MaxSegs
  BY <1>1, SegsFacts, SeqOfIs
<1> QED
  BY <1>1, <1>2

LEMMA EndFacts ==
  ASSUME NEW f \in Frames, NEW a \in Slots, Len(f.bufs) >= 1
  PROVE  End(f, a) \in Nat /\ End(f, a) <= TxSize - 1 /\ f.bufs[Len(f.bufs)] \in Slots
<1>1. f.bufs[Len(f.bufs)] \in Slots
  BY FrameFacts
<1> QED
  BY <1>1, DistType, SizeFacts DEF End

(* The log is the same if the descriptors are.                              *)
LEMMA SameLog ==
  ASSUME NEW r, NEW s, NEW a \in Slots, NEW u \in 0 .. TxSize - 1, NEW w \in Seq(Slots),
         NEW q \in Seq(Frames), NEW t, NEW g,
         \A x \in 0 .. u - 1 : s[Plus(a, x)] = r[Plus(a, x)],
         Log(r, a, u, w, q, t, g)
  PROVE  Log(s, a, u, w, q, t, g)
<1>0. u \in Nat /\ Len(w) \in Nat /\ \A j \in 1 .. Len(q) : q[j] \in Frames
  BY SizeFacts
<1>1. \A x \in 0 .. u - 1 : KindAt(s, a, x) = KindAt(r, a, x)
  BY DEF KindAt
<1>2. NotDone(s, a, u)
  BY DEF Log, NotDone
<1>3. PartAtEnd(w, s, a, u)
  <2>1. PartAtEnd(w, r, a, u)
    BY DEF Log
  <2> DEFINE l == Len(w)
  <2>2. l \in Nat /\ l <= u
    BY <1>0, <2>1 DEF PartAtEnd
  <2>3. \A x \in u - l .. u - 1 : KindAt(s, a, x) = "frag"
    BY <1>0, <1>1, <2>1, <2>2 DEF PartAtEnd
  <2>4. l < u => KindAt(s, a, u - l - 1) # "frag"
    BY <1>0, <1>1, <2>1, <2>2 DEF PartAtEnd
  <2> QED
    BY <2>1, <2>3, <2>4 DEF PartAtEnd
<1>4. CtxBetween(s, a, u)
  BY <1>0, <1>1 DEF Log, CtxBetween
<1>5. ASSUME NEW j \in 1 .. Len(q) PROVE FrameIn(q[j], s, a, u)
  <2> DEFINE f == q[j]
             m == Len(f.bufs)
             e == End(f, a)
  <2>1. f \in Frames /\ FrameIn(f, r, a, u)
    BY <1>0 DEF Log, FramesIn
  <2>2. m \in Nat /\ e \in Nat /\ m >= 1 /\ m - 1 <= e /\ e < u
    BY <2>1, FrameFacts, EndFacts DEF FrameIn
  <2>3. KindAt(s, a, e) = "eop"
    BY <1>0, <1>1, <2>1, <2>2 DEF FrameIn
  <2>4. \A x \in e - m + 1 .. e - 1 : KindAt(s, a, x) = "frag"
    <3> HIDE DEF e, m
    <3>1. \A x \in e - m + 1 .. e - 1 : x \in 0 .. u - 1
      BY <1>0, <2>2
    <3> QED
      BY <1>1, <2>1, <3>1 DEF FrameIn, e, m
  <2>5. m <= e => KindAt(s, a, e - m) # "frag"
    BY <1>0, <1>1, <2>1, <2>2 DEF FrameIn
  <2> QED
    BY <2>1, <2>2, <2>3, <2>4, <2>5 DEF FrameIn
<1>6. Complete(q, s, a, u)
  <2>1. ASSUME NEW e \in 0 .. u - 1, TooLong(e, r, a) PROVE TooLong(e, s, a)
    BY <1>0, <1>1, <2>1, SegsFacts DEF TooLong
  <2> QED
    BY <1>1, <2>1 DEF Log, Complete
<1>7. ASSUME NEW x \in 0 .. u, NEW c, CtxAt(x, c, r, a, t) PROVE CtxAt(x, c, s, a, t)
  BY <1>0, <1>1, <1>7 DEF CtxAt
<1>8. FramesCtx(q, s, a, t)
  <2>1. ASSUME NEW j \in 1 .. Len(q) PROVE End(q[j], a) \in 0 .. u
    <3>1. q[j] \in Frames /\ Len(q[j].bufs) >= 1 /\ End(q[j], a) < u
      BY <1>0 DEF Log, FramesIn, FrameIn
    <3> QED
      BY <1>0, <3>1, EndFacts
  <2> QED
    BY <1>7, <2>1 DEF Log, FramesCtx
<1>9. CtxAt(u, g, s, a, t)
  BY <1>0, <1>7 DEF Log
<1> QED
  BY <1>2, <1>3, <1>4, <1>5, <1>6, <1>8, <1>9 DEF Log, FramesIn

-----------------------------------------------------------------------------
(* The driver writes one more descriptor.                                   *)

(* What any new descriptor leaves of the log.                               *)
LEMMA Extend ==
  ASSUME NEW r, NEW a \in Slots, NEW u \in Nat, NEW w \in Seq(Slots),
         NEW q \in Seq(Frames), NEW t, NEW g, Log(r, a, u, w, q, t, g),
         ~ r[Plus(a, u)].dd, KindAt(r, a, u) = "ctx" => w = <<>>
  PROVE  /\ NotDone(r, a, u + 1) /\ CtxBetween(r, a, u + 1) /\ FramesIn(q, r, a, u + 1)
         /\ KindAt(r, a, u) # "eop" => Complete(q, r, a, u + 1)
         /\ KindAt(r, a, u) # "ctx" => CtxAt(u + 1, g, r, a, t)
         /\ KindAt(r, a, u) = "ctx" => CtxAt(u + 1, r[Plus(a, u)].ctx, r, a, t)
<1>0. Len(w) \in Nat /\ u + 1 - 1 = u /\ \A j \in 1 .. Len(q) : q[j] \in Frames
  OBVIOUS
<1>1. NotDone(r, a, u + 1)
  BY <1>0 DEF Log, NotDone
<1>2. CtxBetween(r, a, u + 1)
  <2>1. ASSUME NEW x \in 1 .. u + 1 - 1, KindAt(r, a, x) = "ctx"
        PROVE  KindAt(r, a, x - 1) # "frag"
    <3>1. CASE x = u
      <4>1. w = <<>> /\ Len(w) = 0 /\ 0 < u
        BY <2>1, <3>1
      <4>2. KindAt(r, a, u - 0 - 1) # "frag" /\ u - 0 - 1 = x - 1
        BY <3>1, <4>1 DEF Log, PartAtEnd
      <4> QED
        BY <4>2
    <3>2. CASE x # u
      BY <2>1, <3>2 DEF Log, CtxBetween
    <3> QED
      BY <3>1, <3>2
  <2> QED
    BY <2>1 DEF CtxBetween
<1>3. FramesIn(q, r, a, u + 1)
  <2>1. ASSUME NEW j \in 1 .. Len(q) PROVE FrameIn(q[j], r, a, u + 1)
    <3>1. FrameIn(q[j], r, a, u)
      BY DEF Log, FramesIn
    <3>2. End(q[j], a) < u + 1
      <4>1. Len(q[j].bufs) >= 1 /\ End(q[j], a) < u /\ q[j] \in Frames
        BY <1>0, <3>1 DEF FrameIn
      <4>2. End(q[j], a) \in Nat
        BY <4>1, EndFacts
      <4> QED
        BY <4>1, <4>2
    <3> QED
      BY <3>1, <3>2 DEF FrameIn
  <2> QED
    BY <2>1 DEF FramesIn
<1>4. KindAt(r, a, u) # "eop" => Complete(q, r, a, u + 1)
  BY <1>0 DEF Log, Complete
<1>5. KindAt(r, a, u) # "ctx" => CtxAt(u + 1, g, r, a, t)
  <2> SUFFICES ASSUME KindAt(r, a, u) # "ctx" PROVE CtxAt(u + 1, g, r, a, t)
    OBVIOUS
  <2>1. CASE g = t /\ \A z \in 0 .. u - 1 : KindAt(r, a, z) # "ctx"
    BY <1>0, <2>1 DEF CtxAt
  <2>2. CASE \E y \in 0 .. u - 1 : /\ KindAt(r, a, y) = "ctx" /\ g = r[Plus(a, y)].ctx
                                   /\ \A z \in y + 1 .. u - 1 : KindAt(r, a, z) # "ctx"
    <3>1. PICK y \in 0 .. u - 1 : /\ KindAt(r, a, y) = "ctx" /\ g = r[Plus(a, y)].ctx
                                  /\ \A z \in y + 1 .. u - 1 : KindAt(r, a, z) # "ctx"
      BY <2>2
    <3>2. y \in 0 .. u + 1 - 1 /\ \A z \in y + 1 .. u + 1 - 1 : KindAt(r, a, z) # "ctx"
      BY <3>1
    <3> QED
      BY <3>1, <3>2 DEF CtxAt
  <2> QED
    BY <2>1, <2>2 DEF Log, CtxAt
<1>6. KindAt(r, a, u) = "ctx" => CtxAt(u + 1, r[Plus(a, u)].ctx, r, a, t)
  <2>1. u \in 0 .. u + 1 - 1 /\ \A z \in u + 1 .. u + 1 - 1 : KindAt(r, a, z) # "ctx"
    OBVIOUS
  <2> QED
    BY <2>1 DEF CtxAt
<1> QED
  BY <1>1, <1>2, <1>3, <1>4, <1>5, <1>6

(* A fragment joins the packet being written.                               *)
LEMMA ExtendFrag ==
  ASSUME NEW r, NEW a \in Slots, NEW u \in Nat, NEW w \in Seq(Slots),
         NEW q \in Seq(Frames), NEW t, NEW g, Log(r, a, u, w, q, t, g),
         ~ r[Plus(a, u)].dd, KindAt(r, a, u) = "frag"
  PROVE  Log(r, a, u + 1, Append(w, Plus(a, u)), q, t, g)
<1>1. Plus(a, u) \in Slots
  BY SlotIs, PlusType
<1> DEFINE l == Len(w)
           v == Append(w, Plus(a, u))
<1>2. l \in Nat /\ Len(v) = l + 1 /\ v[l + 1] = Plus(a, u) /\ \A k \in 1 .. l : v[k] = w[k]
  BY <1>1, AppendProperties
<1>3. PartAtEnd(w, r, a, u)
  BY DEF Log
<1>4. PartAtEnd(v, r, a, u + 1)
  <2> HIDE DEF v
  <2>1. l <= u /\ l + 1 <= u + 1 /\ u + 1 - (l + 1) = u - l /\ l \in Nat
    BY <1>2, <1>3 DEF PartAtEnd
  <2>2. ASSUME NEW k \in 1 .. l + 1 PROVE v[k] = Plus(a, u - l + k - 1)
    <3>1. CASE k = l + 1
      <4>1. u - l + k - 1 = u
        BY <2>1, <3>1
      <4> QED
        BY <1>2, <3>1, <4>1
    <3>2. CASE k # l + 1
      <4>1. k \in 1 .. l
        BY <2>1, <3>2
      <4> QED
        BY <1>2, <1>3, <4>1 DEF PartAtEnd
    <3> QED
      BY <3>1, <3>2
  <2>3. ASSUME NEW x \in u - l .. u + 1 - 1 PROVE KindAt(r, a, x) = "frag"
    <3>1. x = u \/ x \in u - l .. u - 1
      BY <2>1
    <3> QED
      BY <1>3, <3>1 DEF PartAtEnd
  <2>4. l + 1 < u + 1 => KindAt(r, a, u - l - 1) # "frag"
    BY <1>3, <2>1 DEF PartAtEnd
  <2> QED
    BY <1>2, <2>1, <2>2, <2>3, <2>4 DEF PartAtEnd
<1> QED
  BY <1>4, Extend DEF Log

(* A context is in force from there on.                                     *)
LEMMA ExtendCtx ==
  ASSUME NEW r, NEW a \in Slots, NEW u \in Nat,
         NEW q \in Seq(Frames), NEW t, NEW g, Log(r, a, u, <<>>, q, t, g),
         ~ r[Plus(a, u)].dd, KindAt(r, a, u) = "ctx"
  PROVE  Log(r, a, u + 1, <<>>, q, t, r[Plus(a, u)].ctx)
<1>1. <<>> \in Seq(Slots) /\ Len(<<>>) = 0
  OBVIOUS
<1>2. PartAtEnd(<<>>, r, a, u + 1)
  <2>1. u + 1 - 0 - 1 = u /\ 0 <= u + 1
    OBVIOUS
  <2> QED
    BY <1>1, <2>1 DEF PartAtEnd
<1> QED
  BY <1>1, <1>2, Extend DEF Log

(* The last descriptor of a packet, with too many segments or not.          *)
LEMMA ExtendEop ==
  ASSUME NEW r, NEW a \in Slots, NEW u \in 0 .. TxSize - 1, NEW w \in Seq(Slots),
         NEW q \in Seq(Frames), NEW t, NEW g \in Contexts, Log(r, a, u, w, q, t, g),
         ~ r[Plus(a, u)].dd, KindAt(r, a, u) = "eop", Len(w) <= MaxSegs
  PROVE  LET f == [bufs |-> Append(w, Plus(a, u)), ctx |-> g]
         IN /\ Len(w) < MaxSegs => f \in Frames /\ Log(r, a, u + 1, <<>>, Append(q, f), t, g)
            /\ Len(w) = MaxSegs => Log(r, a, u + 1, <<>>, q, t, g)
<1>1. Plus(a, u) \in Slots /\ u \in Nat /\ Dist(a, Plus(a, u)) = u
  BY SizeFacts, Forward
<1> DEFINE l == Len(w)
           v == Append(w, Plus(a, u))
           f == [bufs |-> v, ctx |-> g]
<1>2. /\ v \in Seq(Slots) /\ l \in Nat /\ Len(v) = l + 1 /\ v[l + 1] = Plus(a, u)
      /\ \A k \in 1 .. l : v[k] = w[k]
  BY <1>1, AppendProperties
<1>3. PartAtEnd(w, r, a, u) /\ l <= u
  BY DEF Log, PartAtEnd
<1>4. <<>> \in Seq(Slots) /\ Len(<<>>) = 0 /\ PartAtEnd(<<>>, r, a, u + 1)
  <2>1. u + 1 - 0 - 1 = u /\ 0 <= u + 1
    BY <1>1
  <2> QED
    BY <2>1 DEF PartAtEnd
<1>5. /\ NotDone(r, a, u + 1) /\ CtxBetween(r, a, u + 1) /\ FramesIn(q, r, a, u + 1)
      /\ CtxAt(u + 1, g, r, a, t)
  BY <1>1, Extend
<1>6. CASE l = MaxSegs
  <2>1. TooLong(u, r, a)
    BY <1>3, <1>6 DEF TooLong, PartAtEnd
  <2>2. Complete(q, r, a, u + 1)
    <3>1. \A e \in 0 .. u + 1 - 1 : e = u \/ e \in 0 .. u - 1
      BY <1>1
    <3> QED
      BY <2>1, <3>1 DEF Log, Complete
  <2> QED
    BY <1>4, <1>5, <1>6, <2>2, SegsFacts DEF Log
<1>7. CASE l < MaxSegs
  <2>0. v \in SeqOf(Slots, MaxSegs)
    <3>1. v \in Seq(Slots) /\ Len(v) = l + 1 /\ l \in Nat
      BY <1>2
    <3> HIDE DEF v, l
    <3>2. Len(v) <= MaxSegs
      BY <1>7, <3>1, SegsFacts
    <3> QED
      BY <3>1, <3>2, SegsFacts, SeqOfIs
  <2> HIDE DEF v
  <2>1. f \in Frames /\ f.bufs = v /\ f.ctx = g
    BY <2>0 DEF Frames
  <2>2. End(f, a) = u
    BY <1>1, <1>2, <2>1 DEF End
  <2>3. FrameIn(f, r, a, u + 1)
    <3>1. l \in Nat /\ u \in Nat /\ l <= u /\ u - (l + 1) + 1 = u - l
          /\ (l + 1 <= u => l < u) /\ u - (l + 1) = u - l - 1
      BY <1>1, <1>2, <1>3
    <3>2. ASSUME NEW k \in 1 .. l + 1 PROVE v[k] = Plus(a, u - (l + 1) + k)
      <4>1. CASE k = l + 1
        <5>1. u - (l + 1) + k = u
          BY <1>1, <1>2, <4>1
        <5> QED
          BY <1>2, <4>1, <5>1
      <4>2. CASE k # l + 1
        <5>1. k \in 1 .. l /\ u - (l + 1) + k = u - l + k - 1
          BY <1>1, <1>2, <4>2
        <5> QED
          BY <1>2, <1>3, <5>1 DEF PartAtEnd
      <4> QED
        BY <4>1, <4>2
    <3>3. \A x \in u - l .. u - 1 : KindAt(r, a, x) = "frag"
      BY <1>3 DEF PartAtEnd
    <3>4. l + 1 <= u => KindAt(r, a, u - (l + 1)) # "frag"
      BY <1>3, <3>1 DEF PartAtEnd
    <3>5. Len(f.bufs) = l + 1 /\ \A k \in 1 .. l + 1 : f.bufs[k] = Plus(a, u - (l + 1) + k)
      BY <1>2, <2>1, <3>2
    <3> HIDE DEF f, l
    <3> DEFINE m == Len(f.bufs)
               e == End(f, a)
    <3>6. m = l + 1 /\ e = u
      BY <2>2, <3>5
    <3> HIDE DEF m, e
    <3>7. m >= 1 /\ m - 1 <= e /\ e < u + 1
      BY <3>1, <3>6
    <3>8. \A k \in 1 .. m : f.bufs[k] = Plus(a, e - m + k)
      BY <3>5, <3>6
    <3>9. /\ KindAt(r, a, e) = "eop" /\ \A x \in e - m + 1 .. e - 1 : KindAt(r, a, x) = "frag"
          /\ m <= e => KindAt(r, a, e - m) # "frag"
      BY <3>1, <3>3, <3>4, <3>6
    <3> QED
      BY <3>7, <3>8, <3>9 DEF FrameIn, m, e
  <2> HIDE DEF f
  <2> DEFINE p == Append(q, f)
             n == Len(q)
  <2>4. p \in Seq(Frames) /\ n \in Nat /\ Len(p) = n + 1 /\ p[n + 1] = f
        /\ \A j \in 1 .. n : p[j] = q[j]
    BY <2>1, AppendProperties
  <2> HIDE DEF p, n
  <2>5. \A j \in 1 .. n + 1 : j = n + 1 \/ j \in 1 .. n
    BY <2>4
  <2>6. FramesIn(p, r, a, u + 1)
    BY <1>5, <2>3, <2>4, <2>5 DEF FramesIn, n
  <2>7. Ordered(p, a)
    <3>1. ASSUME NEW j \in 1 .. n PROVE End(q[j], a) < u
      BY DEF Log, FramesIn, FrameIn, n
    <3>2. ASSUME NEW j \in 1 .. n + 1, NEW k \in 1 .. n + 1, j < k
          PROVE  End(p[j], a) < End(p[k], a)
      <4>1. j \in 1 .. n
        BY <2>4, <3>2
      <4>2. CASE k = n + 1
        BY <2>2, <2>4, <3>1, <4>1, <4>2
      <4>3. CASE k \in 1 .. n
        BY <2>4, <3>2, <4>1, <4>3 DEF Log, Ordered, n
      <4> QED
        BY <2>5, <4>2, <4>3
    <3> QED
      BY <2>4, <3>2 DEF Ordered
  <2>8. Complete(p, r, a, u + 1)
    <3>1. ASSUME NEW e \in 0 .. u + 1 - 1, KindAt(r, a, e) = "eop"
          PROVE  TooLong(e, r, a) \/ \E j \in 1 .. Len(p) : End(p[j], a) = e
      <4>1. CASE e = u
        <5>1. n + 1 \in 1 .. Len(p)
          BY <2>4
        <5> QED
          BY <2>2, <2>4, <4>1, <5>1
      <4>2. CASE e # u
        <5>1. e \in 0 .. u - 1
          BY <1>1, <4>2
        <5>2. TooLong(e, r, a) \/ \E j \in 1 .. n : End(q[j], a) = e
          BY <3>1, <5>1 DEF Log, Complete, n
        <5>3. \A j \in 1 .. n : j \in 1 .. Len(p) /\ p[j] = q[j]
          BY <2>4
        <5> QED
          BY <5>2, <5>3
      <4> QED
        BY <4>1, <4>2
    <3> QED
      BY <3>1 DEF Complete
  <2>9. FramesCtx(p, r, a, t)
    <3>1. ASSUME NEW j \in 1 .. n + 1 PROVE CtxAt(End(p[j], a), p[j].ctx, r, a, t)
      <4>1. CASE j = n + 1
        BY <2>1, <2>2, <2>4, <4>1 DEF Log
      <4>2. CASE j \in 1 .. n
        BY <2>4, <4>2 DEF Log, FramesCtx, n
      <4> QED
        BY <2>5, <4>1, <4>2
    <3> QED
      BY <2>4, <3>1 DEF FramesCtx
  <2>10. Log(r, a, u + 1, <<>>, p, t, g)
    BY <1>4, <1>5, <2>6, <2>7, <2>8, <2>9 DEF Log
  <2>11. l # MaxSegs
    BY <1>2, <1>7, SegsFacts
  <2> QED
    BY <2>1, <2>10, <2>11 DEF p, f, v
<1> QED
  BY <1>2, <1>6, <1>7, SegsFacts

-----------------------------------------------------------------------------
(* The device goes past the first n descriptors, the last of which is no    *)
(* fragment: it ends a packet or is a context.                              *)

Passed(r, a, u, n) ==
    a \in Slots /\ u \in 0 .. TxSize - 1 /\ n \in 1 .. u /\ KindAt(r, a, n - 1) # "frag"

(* Positions are counted from the new start.                                *)
LEMMA PassedFacts ==
  ASSUME NEW r, NEW a, NEW u, NEW n, Passed(r, a, u, n)
  PROVE  /\ a \in Slots /\ Plus(a, n) \in Slots /\ u \in Nat /\ n \in Nat /\ 1 <= n /\ n <= u
         /\ u <= TxSize - 1
         /\ \A x \in 0 .. u - n : /\ Plus(Plus(a, n), x) = Plus(a, n + x)
                                  /\ KindAt(r, Plus(a, n), x) = KindAt(r, a, n + x)
         /\ \A i \in Slots : Dist(a, i) >= n => Dist(Plus(a, n), i) = Dist(a, i) - n
<1>1. a \in Slots /\ u \in Nat /\ n \in Nat /\ 1 <= n /\ n <= u /\ u <= TxSize - 1
      /\ n \in 0 .. TxSize - 1
  BY SizeFacts DEF Passed
<1>2. Plus(a, n) \in Slots /\ Dist(a, Plus(a, n)) = n
  BY <1>1, Forward
<1>3. ASSUME NEW x \in 0 .. u - n PROVE Plus(Plus(a, n), x) = Plus(a, n + x)
  <2>1. x \in Nat /\ n + x <= TxSize
    BY <1>1, SizeFacts
  <2> QED
    BY <1>1, <2>1, PlusPlus
<1>4. ASSUME NEW i \in Slots, Dist(a, i) >= n PROVE Dist(Plus(a, n), i) = Dist(a, i) - n
  <2>1. Dist(a, Plus(a, n)) <= Dist(a, i)
    BY <1>1, <1>2, <1>4, DistType
  <2> QED
    BY <1>1, <1>2, <2>1, DistMinus
<1> QED
  BY <1>1, <1>2, <1>3, <1>4 DEF KindAt

(* What is left of the marks, the contexts and the packet being written.    *)
LEMMA PassedRest ==
  ASSUME NEW r, NEW a, NEW u, NEW n, Passed(r, a, u, n), NEW w \in Seq(Slots),
         NotDone(r, a, u), CtxBetween(r, a, u), PartAtEnd(w, r, a, u)
  PROVE  /\ NotDone(r, Plus(a, n), u - n) /\ CtxBetween(r, Plus(a, n), u - n)
         /\ PartAtEnd(w, r, Plus(a, n), u - n)
<1> DEFINE b == Plus(a, n)
           v == u - n
           l == Len(w)
<1>1. /\ u \in Nat /\ n \in Nat /\ 1 <= n /\ n <= u
      /\ \A x \in 0 .. v : Plus(b, x) = Plus(a, n + x) /\ KindAt(r, b, x) = KindAt(r, a, n + x)
  BY PassedFacts
<1>2. l \in Nat /\ v \in Nat /\ v = u - n
  BY <1>1
<1> HIDE DEF b, v, l
<1>3. NotDone(r, b, v)
  <2>1. ASSUME NEW x \in 0 .. v - 1 PROVE ~ r[Plus(b, x)].dd
    <3>1. n + x \in 0 .. u - 1 /\ x \in 0 .. v
      BY <1>1, <1>2
    <3> QED
      BY <1>1, <3>1 DEF NotDone
  <2> QED
    BY <2>1 DEF NotDone
<1>4. CtxBetween(r, b, v)
  <2>1. ASSUME NEW x \in 1 .. v - 1, KindAt(r, b, x) = "ctx" PROVE KindAt(r, b, x - 1) # "frag"
    <3>1. n + x \in 1 .. u - 1 /\ x \in 0 .. v /\ x - 1 \in 0 .. v /\ (n + x) - 1 = n + (x - 1)
      BY <1>1, <1>2
    <3> QED
      BY <1>1, <2>1, <3>1 DEF CtxBetween
  <2> QED
    BY <2>1 DEF CtxBetween
<1>5. PartAtEnd(w, r, b, v)
  <2>1. l <= u /\ (\A x \in u - l .. u - 1 : KindAt(r, a, x) = "frag")
        /\ (l < u => KindAt(r, a, u - l - 1) # "frag")
        /\ \A k \in 1 .. l : w[k] = Plus(a, u - l + k - 1)
    BY DEF PartAtEnd, l
  <2>2. l <= v
    <3>1. n - 1 \notin u - l .. u - 1
      BY <2>1 DEF Passed
    <3> QED
      BY <1>1, <1>2, <2>1, <3>1
  <2>3. ASSUME NEW k \in 1 .. l PROVE w[k] = Plus(b, v - l + k - 1)
    <3>1. v - l + k - 1 \in 0 .. v /\ n + (v - l + k - 1) = u - l + k - 1
      BY <1>1, <1>2, <2>2
    <3> QED
      BY <1>1, <2>1, <3>1
  <2>4. ASSUME NEW x \in v - l .. v - 1 PROVE KindAt(r, b, x) = "frag"
    <3>1. x \in 0 .. v /\ n + x \in u - l .. u - 1
      BY <1>1, <1>2, <2>2
    <3> QED
      BY <1>1, <2>1, <3>1
  <2>5. l < v => KindAt(r, b, v - l - 1) # "frag"
    <3>1. l < v => l < u /\ v - l - 1 \in 0 .. v /\ n + (v - l - 1) = u - l - 1
      BY <1>1, <1>2
    <3> QED
      BY <1>1, <2>1, <3>1
  <2> QED
    BY <2>2, <2>3, <2>4, <2>5 DEF PartAtEnd, l
<1> QED
  BY <1>3, <1>4, <1>5 DEF b, v

(* A frame that ends further on is still there, whole.                      *)
LEMMA PassedFrame ==
  ASSUME NEW r, NEW a, NEW u, NEW n, Passed(r, a, u, n), NEW f \in Frames,
         FrameIn(f, r, a, u), End(f, a) >= n
  PROVE  End(f, Plus(a, n)) = End(f, a) - n /\ FrameIn(f, r, Plus(a, n), u - n)
<1> DEFINE b == Plus(a, n)
           v == u - n
           m == Len(f.bufs)
           e == End(f, a)
<1>1. /\ a \in Slots /\ u \in Nat /\ n \in Nat /\ 1 <= n /\ n <= u
      /\ \A x \in 0 .. v : Plus(b, x) = Plus(a, n + x) /\ KindAt(r, b, x) = KindAt(r, a, n + x)
      /\ \A i \in Slots : Dist(a, i) >= n => Dist(b, i) = Dist(a, i) - n
  BY PassedFacts
<1>2. /\ m \in Nat /\ m >= 1 /\ e \in Nat /\ v \in Nat /\ v = u - n /\ e >= n
      /\ f.bufs[m] \in Slots /\ e < u
  BY <1>1, FrameFacts, EndFacts DEF FrameIn
<1>3. End(f, b) = e - n
  BY <1>1, <1>2 DEF End
<1>4. /\ m - 1 <= e
      /\ \A k \in 1 .. m : f.bufs[k] = Plus(a, e - m + k)
      /\ KindAt(r, a, e) = "eop"
      /\ \A x \in e - m + 1 .. e - 1 : KindAt(r, a, x) = "frag"
      /\ m <= e => KindAt(r, a, e - m) # "frag"
  BY DEF FrameIn
<1> HIDE DEF b, v, m, e
<1> DEFINE d == e - n
<1>5. m - 1 <= d /\ d < v /\ d \in Nat
  <2>1. n - 1 \notin e - m + 1 .. e - 1
    BY <1>4 DEF Passed
  <2> QED
    BY <1>1, <1>2, <1>4, <2>1
<1>6. ASSUME NEW k \in 1 .. m PROVE f.bufs[k] = Plus(b, d - m + k)
  <2>1. d - m + k \in 0 .. v /\ n + (d - m + k) = e - m + k
    BY <1>1, <1>2, <1>5
  <2> QED
    BY <1>1, <1>4, <2>1
<1>7. KindAt(r, b, d) = "eop"
  <2>1. d \in 0 .. v /\ n + d = e
    BY <1>1, <1>2, <1>5
  <2> QED
    BY <1>1, <1>4, <2>1
<1>8. ASSUME NEW x \in d - m + 1 .. d - 1 PROVE KindAt(r, b, x) = "frag"
  <2>1. x \in 0 .. v /\ n + x \in e - m + 1 .. e - 1
    BY <1>1, <1>2, <1>5
  <2> QED
    BY <1>1, <1>4, <2>1
<1>9. m <= d => KindAt(r, b, d - m) # "frag"
  <2>1. m <= d => m <= e /\ d - m \in 0 .. v /\ n + (d - m) = e - m
    BY <1>1, <1>2, <1>5
  <2> QED
    BY <1>1, <1>4, <2>1
<1>10. End(f, b) = d
  BY <1>3
<1> HIDE DEF d
<1>11. FrameIn(f, r, b, v)
  BY <1>2, <1>5, <1>6, <1>7, <1>8, <1>9, <1>10 DEF FrameIn, m
<1> QED
  BY <1>3, <1>11 DEF b, v, e

(* A packet of too many segments is still one.                              *)
LEMMA PassedTooLong ==
  ASSUME NEW r, NEW a, NEW u, NEW n, Passed(r, a, u, n), NEW e \in n .. u - 1, TooLong(e, r, a)
  PROVE  TooLong(e - n, r, Plus(a, n))
<1> DEFINE b == Plus(a, n)
           v == u - n
<1>1. /\ u \in Nat /\ n \in Nat /\ 1 <= n /\ n <= u
      /\ \A x \in 0 .. v : KindAt(r, b, x) = KindAt(r, a, n + x)
  BY PassedFacts
<1>2. e >= MaxSegs /\ \A x \in e - MaxSegs .. e - 1 : KindAt(r, a, x) = "frag"
  BY DEF TooLong
<1>3. e - n >= MaxSegs
  <2>1. n - 1 \notin e - MaxSegs .. e - 1
    BY <1>2 DEF Passed
  <2> QED
    BY <1>1, <1>2, <2>1, SegsFacts
<1>4. ASSUME NEW x \in (e - n) - MaxSegs .. (e - n) - 1 PROVE KindAt(r, b, x) = "frag"
  <2>1. x \in 0 .. v /\ n + x \in e - MaxSegs .. e - 1
    BY <1>1, <1>3, SegsFacts
  <2> QED
    BY <1>1, <1>2, <2>1
<1> QED
  BY <1>3, <1>4 DEF TooLong

(* The context in force, if what is passed holds none or is one.            *)
LEMMA PassedCtx ==
  ASSUME NEW r, NEW a, NEW u, NEW n, Passed(r, a, u, n), NEW x \in n .. u, NEW c, NEW t, NEW t2,
         CtxAt(x, c, r, a, t),
         \/ t2 = t /\ \A z \in 0 .. n - 1 : KindAt(r, a, z) # "ctx"
         \/ n = 1 /\ KindAt(r, a, 0) = "ctx" /\ t2 = r[Plus(a, 0)].ctx
  PROVE  CtxAt(x - n, c, r, Plus(a, n), t2)
<1> DEFINE b == Plus(a, n)
           v == u - n
<1>1. /\ u \in Nat /\ n \in Nat /\ 1 <= n /\ n <= u /\ x \in Nat /\ n <= x /\ x <= u
      /\ \A y \in 0 .. v : Plus(b, y) = Plus(a, n + y) /\ KindAt(r, b, y) = KindAt(r, a, n + y)
  BY PassedFacts
<1> HIDE DEF b
<1>2. ASSUME NEW k \in 0 .. x, \A z \in k .. x - 1 : KindAt(r, a, z) # "ctx"
      PROVE  \A z \in 0 .. (x - n) - 1 : z >= k - n => KindAt(r, b, z) # "ctx"
  <2>1. ASSUME NEW z \in 0 .. (x - n) - 1, z >= k - n PROVE KindAt(r, b, z) # "ctx"
    <3>1. z \in 0 .. v /\ n + z \in k .. x - 1
      BY <1>1, <2>1
    <3> QED
      BY <1>1, <1>2, <3>1
  <2> QED
    BY <2>1
<1>3. CASE c = t /\ \A z \in 0 .. x - 1 : KindAt(r, a, z) # "ctx"
  <2>1. t2 = t
    <3>1. 0 \in 0 .. x - 1
      BY <1>1
    <3> QED
      BY <1>3, <3>1
  <2>2. \A z \in 0 .. (x - n) - 1 : KindAt(r, b, z) # "ctx"
    <3>1. 0 \in 0 .. x /\ \A z \in 0 .. (x - n) - 1 : z >= 0 - n
      BY <1>1
    <3> QED
      BY <1>2, <1>3, <3>1
  <2> QED
    BY <1>3, <2>1, <2>2 DEF CtxAt, b
<1>4. CASE \E y \in 0 .. x - 1 : /\ KindAt(r, a, y) = "ctx" /\ c = r[Plus(a, y)].ctx
                                 /\ \A z \in y + 1 .. x - 1 : KindAt(r, a, z) # "ctx"
  <2>1. PICK y \in 0 .. x - 1 : /\ KindAt(r, a, y) = "ctx" /\ c = r[Plus(a, y)].ctx
                                /\ \A z \in y + 1 .. x - 1 : KindAt(r, a, z) # "ctx"
    BY <1>4
  <2>2. y \in Nat /\ y + 1 \in 0 .. x
    BY <1>1
  <2>3. \A z \in 0 .. (x - n) - 1 : z >= (y + 1) - n => KindAt(r, b, z) # "ctx"
    BY <1>2, <2>1, <2>2
  <2>4. CASE y >= n
    <3>1. y - n \in 0 .. (x - n) - 1 /\ y - n \in 0 .. v /\ n + (y - n) = y
      BY <1>1, <2>2, <2>4
    <3>2. KindAt(r, b, y - n) = "ctx" /\ c = r[Plus(b, y - n)].ctx
      BY <1>1, <2>1, <3>1
    <3>3. ASSUME NEW z \in (y - n) + 1 .. (x - n) - 1 PROVE KindAt(r, b, z) # "ctx"
      <4>1. z \in 0 .. (x - n) - 1 /\ z >= (y + 1) - n
        BY <1>1, <2>2, <3>1
      <4> QED
        BY <2>3, <4>1
    <3> QED
      BY <3>1, <3>2, <3>3 DEF CtxAt, b
  <2>5. CASE y < n
    <3>1. y \in 0 .. n - 1 /\ (n = 1 => y = 0)
      BY <1>1, <2>2, <2>5
    <3>2. c = t2
      BY <2>1, <3>1
    <3>3. \A z \in 0 .. (x - n) - 1 : KindAt(r, b, z) # "ctx"
      <4>1. \A z \in 0 .. (x - n) - 1 : z >= (y + 1) - n
        BY <1>1, <2>2, <2>5
      <4> QED
        BY <2>3, <4>1
    <3> QED
      BY <3>2, <3>3 DEF CtxAt, b
  <2> QED
    BY <1>1, <2>2, <2>4, <2>5
<1> QED
  BY <1>3, <1>4 DEF CtxAt

(* Frames that end in what is passed leave the log, the first d of them.    *)
LEMMA PassedLog ==
  ASSUME NEW r, NEW a, NEW u, NEW n, Passed(r, a, u, n), NEW w \in Seq(Slots),
         NEW q \in Seq(Frames), NEW t, NEW g, Log(r, a, u, w, q, t, g),
         NEW d \in 0 .. 1, NEW p \in Seq(Frames), Len(p) = Len(q) - d,
         \A j \in 1 .. Len(p) : p[j] = q[j + d] /\ End(p[j], a) >= n,
         d = 1 => End(q[1], a) < n,
         NEW t2, \/ t2 = t /\ \A z \in 0 .. n - 1 : KindAt(r, a, z) # "ctx"
                 \/ n = 1 /\ KindAt(r, a, 0) = "ctx" /\ t2 = r[Plus(a, 0)].ctx
  PROVE  Log(r, Plus(a, n), u - n, w, p, t2, g)
<1> DEFINE b == Plus(a, n)
           v == u - n
           l == Len(p)
<1>1. /\ a \in Slots /\ b \in Slots /\ u \in Nat /\ n \in Nat /\ 1 <= n /\ n <= u
      /\ \A x \in 0 .. v : Plus(b, x) = Plus(a, n + x) /\ KindAt(r, b, x) = KindAt(r, a, n + x)
  BY PassedFacts
<1>2. l \in Nat /\ Len(q) \in Nat /\ Len(q) = l + d /\ v \in Nat
  BY <1>1
<1>3. \A j \in 1 .. Len(q) : q[j] \in Frames /\ FrameIn(q[j], r, a, u)
                             /\ CtxAt(End(q[j], a), q[j].ctx, r, a, t)
  BY DEF Log, FramesIn, FramesCtx
<1>4. ASSUME NEW j \in 1 .. l
      PROVE  /\ j + d \in 1 .. Len(q) /\ p[j] = q[j + d] /\ p[j] \in Frames
             /\ End(p[j], a) \in n .. u - 1 /\ End(p[j], a) \in Nat
             /\ End(p[j], b) = End(p[j], a) - n /\ FrameIn(p[j], r, b, v)
             /\ CtxAt(End(p[j], b), p[j].ctx, r, b, t2)
  <2>1. j + d \in 1 .. Len(q) /\ p[j] = q[j + d] /\ End(p[j], a) >= n
    BY <1>2
  <2>2. /\ p[j] \in Frames /\ FrameIn(p[j], r, a, u)
        /\ CtxAt(End(p[j], a), p[j].ctx, r, a, t)
    BY <1>3, <2>1
  <2>3. End(p[j], a) \in Nat /\ End(p[j], a) < u
    BY <1>1, <2>2, EndFacts DEF FrameIn
  <2>4. End(p[j], b) = End(p[j], a) - n /\ FrameIn(p[j], r, b, v)
    BY <2>1, <2>2, PassedFrame
  <2>5. End(p[j], a) \in n .. u - 1 /\ End(p[j], a) \in n .. u
    BY <1>1, <2>1, <2>3
  <2>6. CtxAt(End(p[j], a) - n, p[j].ctx, r, b, t2)
    BY <2>2, <2>5, PassedCtx
  <2> QED
    BY <2>1, <2>2, <2>3, <2>4, <2>5, <2>6
<1>5. NotDone(r, b, v) /\ CtxBetween(r, b, v) /\ PartAtEnd(w, r, b, v)
  BY PassedRest DEF Log
<1>6. FramesIn(p, r, b, v) /\ FramesCtx(p, r, b, t2)
  BY <1>4 DEF FramesIn, FramesCtx
<1>7. Ordered(p, b)
  <2>1. ASSUME NEW j \in 1 .. l, NEW k \in 1 .. l, j < k PROVE End(p[j], b) < End(p[k], b)
    <3>1. j + d < k + d /\ j + d \in 1 .. Len(q) /\ k + d \in 1 .. Len(q)
      BY <1>2, <2>1
    <3>2. End(p[j], a) < End(p[k], a)
      BY <1>4, <3>1 DEF Log, Ordered
    <3>3. End(p[j], a) \in Nat /\ End(p[k], a) \in Nat
      BY <1>4
    <3> QED
      BY <1>1, <1>4, <3>2, <3>3
  <2> QED
    BY <2>1 DEF Ordered
<1>8. Complete(p, r, b, v)
  <2>1. ASSUME NEW e \in 0 .. v - 1, KindAt(r, b, e) = "eop"
        PROVE  TooLong(e, r, b) \/ \E j \in 1 .. l : End(p[j], b) = e
    <3> DEFINE y == n + e
    <3>1. y \in n .. u - 1 /\ y \in 0 .. u - 1 /\ e \in 0 .. v /\ y - n = e /\ y \in Nat
      BY <1>1, <1>2
    <3>2. KindAt(r, a, y) = "eop"
      BY <1>1, <2>1, <3>1
    <3> HIDE DEF y
    <3>3. CASE TooLong(y, r, a)
      BY <3>1, <3>3, PassedTooLong
    <3>4. CASE \E j \in 1 .. Len(q) : End(q[j], a) = y
      <4>1. PICK j \in 1 .. Len(q) : End(q[j], a) = y
        BY <3>4
      <4>2. j - d \in 1 .. l
        <5>1. d = 1 => j # 1
          BY <1>1, <3>1, <4>1
        <5> QED
          BY <1>2, <5>1
      <4>3. (j - d) + d = j
        BY <1>2
      <4>4. p[j - d] = q[j] /\ End(p[j - d], b) = y - n
        BY <1>4, <4>1, <4>2, <4>3
      <4> QED
        BY <3>1, <4>2, <4>4
    <3> QED
      BY <3>1, <3>2, <3>3, <3>4 DEF Log, Complete
  <2> QED
    BY <2>1 DEF Complete
<1>9. CtxAt(v, g, r, b, t2)
  <2>1. u \in n .. u /\ CtxAt(u, g, r, a, t)
    BY <1>1 DEF Log
  <2> QED
    BY <2>1, PassedCtx
<1> QED
  BY <1>5, <1>6, <1>7, <1>8, <1>9 DEF Log

-----------------------------------------------------------------------------
(* What is first in the log.                                                *)

KindsOk(r, a, u) == \A x \in 0 .. u - 1 : KindAt(r, a, x) \in {"frag", "eop", "ctx"}

(* A packet of the descriptors up to the e-th.                              *)
Whole(r, a, e) ==
    /\ KindAt(r, a, e) = "eop"
    /\ \A x \in 0 .. e - 1 : KindAt(r, a, x) = "frag"
    /\ \A x \in 0 .. e : KindAt(r, a, x) # "ctx"

(* The first packet is nothing but its fragments up to EOP.                 *)
LEMMA FirstPacket ==
  ASSUME NEW r, NEW a \in Slots, NEW u \in Nat, KindsOk(r, a, u), CtxBetween(r, a, u),
         NEW e \in 0 .. u - 1, KindAt(r, a, e) = "eop", KindAt(r, a, 0) # "ctx",
         \A x \in 0 .. e - 1 : KindAt(r, a, x) # "eop"
  PROVE  Whole(r, a, e)
<1> DEFINE C == {x \in 0 .. e : KindAt(r, a, x) = "ctx"}
<1>1. C = {}
  <2>1. SUFFICES ASSUME C # {} PROVE FALSE
    OBVIOUS
  <2>2. C \subseteq Nat
    OBVIOUS
  <2> HIDE DEF C
  <2>3. PICK c \in C : \A y \in C : c <= y
    BY <2>1, <2>2, Smallest
  <2>4. c \in 0 .. e /\ KindAt(r, a, c) = "ctx"
    BY DEF C
  <2>5. c # 0 /\ c # e
    BY <2>4
  <2>6. c \in 1 .. u - 1 /\ c - 1 \in 0 .. e - 1 /\ c - 1 \in 0 .. u - 1 /\ c - 1 \in 0 .. e
        /\ ~ (c <= c - 1)
    BY <2>4, <2>5
  <2>7. c - 1 \notin C
    BY <2>3, <2>6
  <2>8. KindAt(r, a, c - 1) # "ctx"
    BY <2>6, <2>7 DEF C
  <2>9. KindAt(r, a, c - 1) # "frag"
    BY <2>4, <2>6 DEF CtxBetween
  <2> QED
    BY <2>6, <2>8, <2>9 DEF KindsOk
<1>2. \A x \in 0 .. e : KindAt(r, a, x) # "ctx"
  BY <1>1
<1>3. \A x \in 0 .. e - 1 : x \in 0 .. e /\ x \in 0 .. u - 1
  OBVIOUS
<1> QED
  BY <1>2, <1>3 DEF KindsOk, Whole

(* The buffers of n descriptors.                                            *)
Slice(a, n) == [k \in 1 .. n |-> Plus(a, k - 1)]

(* A frame that ends there is that packet, and is the first one owed.       *)
LEMMA FirstFrame ==
  ASSUME NEW r, NEW a \in Slots, NEW u \in Nat, NEW f \in Frames, FrameIn(f, r, a, u),
         Whole(r, a, End(f, a)), NEW t, CtxAt(End(f, a), f.ctx, r, a, t)
  PROVE  /\ Len(f.bufs) = End(f, a) + 1
         /\ f.bufs = Slice(a, End(f, a) + 1) /\ f.ctx = t
<1> DEFINE m == Len(f.bufs)
           e == End(f, a)
<1>0. e \in Nat /\ Whole(r, a, e) /\ CtxAt(e, f.ctx, r, a, t)
  BY FrameFacts, EndFacts DEF FrameIn
<1>1. m \in Nat /\ m <= MaxSegs /\ f.bufs \in Seq(Slots)
  BY FrameFacts
<1>2. /\ m >= 1 /\ m - 1 <= e
      /\ \A k \in 1 .. m : f.bufs[k] = Plus(a, e - m + k)
      /\ m <= e => KindAt(r, a, e - m) # "frag"
  BY DEF FrameIn
<1> HIDE DEF e
<1>3. m = e + 1
  <2>1. m <= e => e - m \in 0 .. e - 1
    BY <1>0, <1>1, <1>2
  <2>2. ~ (m <= e)
    BY <1>0, <1>2, <2>1 DEF Whole
  <2> QED
    BY <1>0, <1>1, <1>2, <2>2
<1>4. f.bufs = Slice(a, e + 1)
  <2>1. f.bufs = [k \in 1 .. m |-> f.bufs[k]]
    BY <1>1
  <2>2. \A k \in 1 .. e + 1 : f.bufs[k] = Plus(a, k - 1)
    <3>1. \A k \in 1 .. e + 1 : e - (e + 1) + k = k - 1
      BY <1>0
    <3> QED
      BY <1>2, <1>3, <3>1
  <2> QED
    BY <1>3, <2>1, <2>2 DEF Slice
<1>5. f.ctx = t
  BY <1>0 DEF CtxAt, Whole
<1> QED
  BY <1>1, <1>3, <1>4, <1>5 DEF e

(* How e82545_transmit finds the end of what it consumes.                   *)
LEMMA FirstEop ==
  ASSUME NEW r, NEW a \in Slots, NEW n \in Nat
  PROVE  LET eops == {k \in 0 .. n - 1 : r[Plus(a, k)].kind = "eop"}
         IN /\ eops = {} => \A x \in 0 .. n - 1 : KindAt(r, a, x) # "eop"
            /\ eops # {} => /\ Min(eops) \in 0 .. n - 1 /\ KindAt(r, a, Min(eops)) = "eop"
                            /\ \A x \in 0 .. Min(eops) - 1 : KindAt(r, a, x) # "eop"
<1> DEFINE E == {k \in 0 .. n - 1 : r[Plus(a, k)].kind = "eop"}
<1>1. E \subseteq Nat /\ \A k : k \in E <=> k \in 0 .. n - 1 /\ KindAt(r, a, k) = "eop"
  BY DEF KindAt
<1> HIDE DEF E
<1>2. E = {} => \A x \in 0 .. n - 1 : KindAt(r, a, x) # "eop"
  BY <1>1
<1>3. ASSUME E # {}
      PROVE  /\ Min(E) \in 0 .. n - 1 /\ KindAt(r, a, Min(E)) = "eop"
             /\ \A x \in 0 .. Min(E) - 1 : KindAt(r, a, x) # "eop"
  <2>1. Min(E) \in E /\ \A y \in E : Min(E) <= y
    BY <1>1, <1>3, MinIs
  <2> DEFINE m == Min(E)
  <2>2. m \in 0 .. n - 1 /\ KindAt(r, a, m) = "eop"
    BY <1>1, <2>1
  <2> HIDE DEF m
  <2>3. ASSUME NEW x \in 0 .. m - 1 PROVE KindAt(r, a, x) # "eop"
    <3>1. x \in 0 .. n - 1 /\ ~ (m <= x)
      BY <2>2
    <3> QED
      BY <1>1, <2>1, <3>1 DEF m
  <2> QED
    BY <2>2, <2>3 DEF m
<1> QED
  BY <1>2, <1>3 DEF E

-----------------------------------------------------------------------------
(* The inductive invariant.  Where the device goes on: the transmitter's    *)
(* head within a run, TDH between two.                                      *)
Ahead == IF pc \in {"run", "end"} THEN head ELSE TDH
Unsent == Dist(Ahead, gtail)

(* The driver's oldest descriptor, the device, the tail register and the    *)
(* driver's next descriptor follow each other around the ring.              *)
Region ==
    /\ Dist(Ahead, TDT) <= Unsent
    /\ Unsent <= Dist(clean, gtail) /\ Dist(clean, gtail) <= MaxInUse

LogInv == Log(ring, Ahead, Unsent, part, owed, txctx, gctx)

(* Up to the read head there is no whole packet.                            *)
ReadHead == IF pc \in {"run", "end"} THEN rhead ELSE TDHr
Parked ==
    /\ Dist(Ahead, ReadHead) <= Dist(Ahead, TDT)
    /\ \A x \in 0 .. Dist(Ahead, ReadHead) - 1 : KindAt(ring, Ahead, x) # "eop"

(* A completion is collected, given or taken up.                            *)
OldestDone == \E i \in OldestEop : ring[i].dd
Told ==
    /\ OldestDone => tdwb \/ "TXDW" \in icr \/ cleaning
    /\ tdwb => pc \in {"run", "end"}

TxInv == TypeOK /\ Region /\ LogInv /\ Parked /\ Told

(* The types in pieces, for the provers.                                    *)
LEMMA Types ==
  ASSUME TypeOK
  PROVE  /\ ring \in [Slots -> Desc] /\ TDH \in Slots /\ TDHr \in Slots /\ TDT \in Slots
         /\ head \in Slots /\ rhead \in Slots /\ gtail \in Slots /\ clean \in Slots
         /\ Ahead \in Slots /\ ReadHead \in Slots
         /\ part \in Seq(Slots) /\ Len(part) \in Nat /\ Len(part) <= MaxSegs
         /\ owed \in Seq(Frames) /\ gctx \in Contexts /\ txctx \in Contexts
         /\ Unsent \in 0 .. TxSize - 1 /\ Unsent \in Nat
         /\ Dist(Ahead, TDT) \in Nat /\ Dist(clean, gtail) \in Nat
         /\ Dist(Ahead, ReadHead) \in Nat
<1>1. /\ ring \in [Slots -> Desc] /\ TDH \in Slots /\ TDHr \in Slots /\ TDT \in Slots
      /\ head \in Slots /\ rhead \in Slots /\ gtail \in Slots /\ clean \in Slots
      /\ owed \in Seq(Frames) /\ gctx \in Contexts /\ txctx \in Contexts
  BY DEF TypeOK
<1>2. part \in SeqOf(Slots, MaxSegs)
  BY DEF TypeOK
<1>3. part \in Seq(Slots) /\ Len(part) <= MaxSegs
  BY <1>2, SegsFacts, SeqOfIs
<1>4. Ahead \in Slots /\ ReadHead \in Slots
  BY <1>1 DEF Ahead, ReadHead
<1>5. Unsent \in 0 .. TxSize - 1 /\ Unsent \in Nat
  BY <1>1, <1>4, DistType DEF Unsent
<1>6. /\ Dist(Ahead, TDT) \in Nat /\ Dist(clean, gtail) \in Nat
      /\ Dist(Ahead, ReadHead) \in Nat
  BY <1>1, <1>4, DistType
<1> QED
  BY <1>1, <1>3, <1>4, <1>5, <1>6

(* Nothing written: after power-on and after a reset.                       *)
LEMMA EmptyLog ==
  ASSUME NEW r, NEW a \in Slots, NEW t PROVE Log(r, a, 0, <<>>, <<>>, t, t)
<1>1. Len(<<>>) = 0 /\ 0 - 1 = -1
  OBVIOUS
<1>2. NotDone(r, a, 0) /\ PartAtEnd(<<>>, r, a, 0) /\ CtxBetween(r, a, 0)
  BY <1>1 DEF NotDone, PartAtEnd, CtxBetween
<1>3. /\ FramesIn(<<>>, r, a, 0) /\ Ordered(<<>>, a) /\ Complete(<<>>, r, a, 0)
      /\ FramesCtx(<<>>, r, a, t)
  BY <1>1 DEF FramesIn, Ordered, Complete, FramesCtx
<1>4. CtxAt(0, t, r, a, t)
  BY DEF CtxAt
<1> QED
  BY <1>2, <1>3, <1>4 DEF Log

LEMMA NoEop == ASSUME TypeOK, gtail = clean PROVE ~ OldestDone
<1>1. Dist(clean, gtail) = 0
  BY Types, DistType
<1>2. OldestEop = {}
  BY <1>1 DEF OldestEop
<1> QED
  BY <1>2 DEF OldestDone

LEMMA InitTxInv == Init => TxInv
<1> SUFFICES ASSUME Init PROVE TxInv
  OBVIOUS
<1>1. 0 \in Slots /\ 0 \in Contexts
  BY SizeFacts DEF Slots, Contexts
<1>2. ring \in [Slots -> Desc]
  BY <1>1 DEF Init, Stale, Desc
<1>3. <<>> \in SeqOf(Slots, MaxSegs) /\ <<>> \in SeqOf(Frames, 1) /\ <<>> \in Seq(Frames)
  <2>1. <<>> \in Seq(Slots) /\ <<>> \in Seq(Frames) /\ Len(<<>>) <= MaxSegs /\ Len(<<>>) <= 1
    BY SegsFacts
  <2>2. <<>> \in SeqOf(Slots, MaxSegs)
    BY <2>1, SegsFacts, SeqOfIs
  <2>3. <<>> \in SeqOf(Frames, 1)
    BY <2>1, SeqOfIs
  <2> QED
    BY <2>1, <2>2, <2>3
<1>4. TypeOK
  BY <1>1, <1>2, <1>3 DEF Init, TypeOK
<1>5. Ahead = 0 /\ ReadHead = 0 /\ Dist(0, 0) = 0 /\ Unsent = 0
  BY <1>1, DistType DEF Init, Ahead, ReadHead, Unsent
<1>6. Region
  BY <1>5, SizeFacts DEF Init, Region
<1>7. LogInv
  BY <1>1, <1>5, EmptyLog DEF Init, LogInv
<1>8. Parked
  BY <1>5 DEF Init, Parked
<1>9. Told
  BY <1>4, NoEop DEF Init, Told
<1> QED
  BY <1>4, <1>6, <1>7, <1>8, <1>9 DEF TxInv

-----------------------------------------------------------------------------
(* Steps that leave the descriptors and the driver's view of them alone.    *)

(* They may move the read head back and the tail forward.                   *)
LEMMA QuietStep ==
  ASSUME TxInv, TypeOK', UNCHANGED <<ring, gtail, clean, part, owed, txctx, gctx>>,
         Ahead' = Ahead, TDT' = TDT \/ TDT' = gtail,
         ReadHead' = ReadHead \/ ReadHead' = Ahead, Told'
  PROVE  TxInv'
<1>1. Unsent' = Unsent
  BY DEF Unsent
<1>2. LogInv'
  BY <1>1 DEF TxInv, LogInv
<1>3. /\ Dist(Ahead, TDT) \in Nat /\ Dist(Ahead, ReadHead) \in Nat /\ Unsent \in Nat
      /\ Ahead \in Slots /\ gtail \in Slots
  BY Types DEF TxInv
<1>4. /\ Dist(Ahead, TDT) <= Unsent /\ Unsent = Dist(Ahead, gtail)
      /\ Dist(Ahead, ReadHead) <= Dist(Ahead, TDT) /\ Dist(Ahead, Ahead) = 0
  BY <1>3, DistType DEF TxInv, Region, Parked, Unsent
<1>5. Dist(Ahead, TDT)' <= Unsent /\ Dist(Ahead, TDT) <= Dist(Ahead, TDT)'
      /\ Dist(Ahead, TDT)' \in Nat
  BY <1>3, <1>4
<1>6. Region'
  BY <1>1, <1>5 DEF TxInv, Region
<1>7. Parked'
  <2>1. CASE ReadHead' = ReadHead
    <3>1. Dist(Ahead, ReadHead) <= Dist(Ahead, TDT)'
      BY <1>3, <1>4, <1>5
    <3>2. \A x \in 0 .. Dist(Ahead, ReadHead) - 1 : KindAt(ring, Ahead, x) # "eop"
      BY DEF TxInv, Parked
    <3> QED
      BY <2>1, <3>1, <3>2 DEF Parked
  <2>2. CASE ReadHead' = Ahead
    <3>1. Dist(Ahead, ReadHead)' = 0
      BY <1>4, <2>2
    <3> QED
      BY <1>5, <3>1 DEF Parked
  <2> QED
    BY <2>1, <2>2
<1> QED
  BY <1>2, <1>6, <1>7 DEF TxInv

LEMMA SameOldest ==
  ASSUME UNCHANGED <<ring, gtail, clean>> PROVE OldestDone' <=> OldestDone
  BY DEF OldestDone, OldestEop

LEMMA TxPollInv == ASSUME TxInv, TxPoll PROVE TxInv'
<1>0. TypeOK /\ TDH \in Slots
  BY Types DEF TxInv
<1>1. pc = "idle" /\ ~ tdwb
      /\ UNCHANGED <<ring, tx_enabled, TDH, TDHr, TDT, txctx, icr, out, guestVars>>
  BY DEF TxPoll, TxInv, Told
<1>2. OldestDone' <=> OldestDone
  BY <1>1, SameOldest DEF guestVars
<1>3. CASE tx_enabled /\ TDHr # TDT
  <2>1. /\ tx_active' = TRUE /\ pc' = "run" /\ head' = TDH /\ rhead' = TDH
        /\ lim' = TxSize \div 4 /\ tdwb' = FALSE
    BY <1>3 DEF TxPoll
  <2>2. TypeOK'
    <3>1. lim' \in Int
      BY <2>1, SizeFacts
    <3>2. tx_active' \in BOOLEAN /\ tdwb' \in BOOLEAN /\ head' \in Slots /\ rhead' \in Slots
      BY <1>0, <2>1
    <3> QED
      BY <1>0, <1>1, <2>1, <3>1, <3>2 DEF TypeOK, guestVars
  <2>3. Told'
    BY <1>1, <1>2, <2>1 DEF TxInv, Told, guestVars
  <2>4. Ahead' = Ahead /\ ReadHead' = Ahead
    BY <1>1, <2>1 DEF Ahead, ReadHead
  <2> QED
    BY <1>1, <2>2, <2>3, <2>4, QuietStep DEF guestVars
<1>4. CASE ~ (tx_enabled /\ TDHr # TDT)
  <2>1. tx_active' = FALSE /\ UNCHANGED <<pc, runVars>>
    BY <1>4 DEF TxPoll
  <2>2. TypeOK'
    BY <1>0, <1>1, <2>1 DEF TypeOK, guestVars, runVars
  <2>3. Told'
    BY <1>1, <1>2, <2>1 DEF TxInv, Told, guestVars, runVars
  <2>4. Ahead' = Ahead /\ ReadHead' = ReadHead
    BY <1>1, <2>1 DEF Ahead, ReadHead, runVars
  <2> QED
    BY <1>1, <2>2, <2>3, <2>4, QuietStep DEF guestVars
<1> QED
  BY <1>3, <1>4

LEMMA TxRunEndInv == ASSUME TxInv, TxRunEnd PROVE TxInv'
<1>0. TypeOK /\ head \in Slots /\ rhead \in Slots /\ 0 \in Slots
  BY Types, SizeFacts DEF TxInv, Slots
<1>1. /\ pc = "end" /\ pc' = "idle" /\ TDH' = head /\ TDHr' = rhead
      /\ icr' = icr \cup (IF tdwb THEN {"TXDW"} ELSE {})
                    \cup (IF lim # TxSize \div 4 /\ head = TDT THEN {"TXQE"} ELSE {})
      /\ head' = 0 /\ rhead' = 0 /\ lim' = 0 /\ tdwb' = FALSE /\ out' = <<>>
      /\ UNCHANGED <<ring, tx_enabled, tx_active, TDT, txctx, guestVars>>
  BY DEF TxRunEnd
<1>2. icr' \subseteq {"TXDW", "TXQE"} /\ icr \subseteq icr' /\ (tdwb => "TXDW" \in icr')
  BY <1>0, <1>1 DEF TypeOK
<1>3. TypeOK'
  <2>1. <<>> \in SeqOf(Frames, 1)
    <3>1. <<>> \in Seq(Frames) /\ Len(<<>>) <= 1
      OBVIOUS
    <3> QED
      BY <3>1, SeqOfIs
  <2> QED
    BY <1>0, <1>1, <1>2, <2>1 DEF TypeOK, guestVars
<1>4. OldestDone' <=> OldestDone
  BY <1>1, SameOldest DEF guestVars
<1>5. Told'
  BY <1>1, <1>2, <1>4 DEF TxInv, Told, guestVars
<1>6. Ahead' = Ahead /\ ReadHead' = ReadHead
  BY <1>1 DEF Ahead, ReadHead
<1> QED
  BY <1>1, <1>3, <1>5, <1>6, QuietStep DEF guestVars

LEMMA AccessInv ==
  ASSUME TxInv, TxEnable \/ TxCtlOff \/ Spin \/ WriteTDT \/ ReadICR \/ UNCHANGED vars
  PROVE  TxInv'
<1>0. TypeOK /\ gtail \in Slots
  BY Types DEF TxInv
<1>1. CASE TxEnable \/ TxCtlOff
  <2>1. /\ pc = "idle" /\ pc' \in {"idle", "spin"} /\ tx_enabled' \in BOOLEAN
        /\ UNCHANGED <<ring, tx_active, TDH, TDHr, TDT, txctx, runVars, icr, out, guestVars>>
    BY <1>1 DEF TxEnable, TxCtlOff, TxDisable
  <2>2. TypeOK'
    BY <1>0, <2>1 DEF TypeOK, guestVars, runVars
  <2>3. Told'
    <3>1. OldestDone' <=> OldestDone
      BY <2>1, SameOldest DEF guestVars
    <3> QED
      BY <2>1, <3>1 DEF TxInv, Told, guestVars, runVars
  <2>4. Ahead' = Ahead /\ ReadHead' = ReadHead
    BY <2>1 DEF Ahead, ReadHead, runVars
  <2> QED
    BY <2>1, <2>2, <2>3, <2>4, QuietStep DEF guestVars
<1>2. CASE WriteTDT
  <2>1. /\ TDT' = gtail
        /\ UNCHANGED <<ring, tx_enabled, tx_active, TDH, TDHr, txctx, pc, runVars, icr, out,
                       guestVars>>
    BY <1>2 DEF WriteTDT
  <2>2. TypeOK'
    BY <1>0, <2>1 DEF TypeOK, guestVars, runVars
  <2>3. Told'
    <3>1. OldestDone' <=> OldestDone
      BY <2>1, SameOldest DEF guestVars
    <3> QED
      BY <2>1, <3>1 DEF TxInv, Told, guestVars, runVars
  <2>4. Ahead' = Ahead /\ ReadHead' = ReadHead
    BY <2>1 DEF Ahead, ReadHead, runVars
  <2> QED
    BY <2>1, <2>2, <2>3, <2>4, QuietStep DEF guestVars
<1>3. CASE ReadICR
  <2>1. /\ icr' = {} /\ cleaning' = (cleaning \/ "TXDW" \in icr)
        /\ UNCHANGED <<ring, devVars, runVars, out, gtail, clean, part, gctx, owed>>
    BY <1>3 DEF ReadICR
  <2>2. TypeOK'
    <3>1. cleaning' \in BOOLEAN
      BY <2>1
    <3> QED
      BY <1>0, <2>1, <3>1 DEF TypeOK, devVars, runVars
  <2>3. Told'
    <3>1. OldestDone' <=> OldestDone
      BY <2>1, SameOldest
    <3> QED
      BY <2>1, <3>1 DEF TxInv, Told, devVars, runVars
  <2>4. Ahead' = Ahead /\ ReadHead' = ReadHead
    BY <2>1 DEF Ahead, ReadHead, devVars, runVars
  <2> QED
    BY <2>1, <2>2, <2>3, <2>4, QuietStep DEF devVars
<1>4. CASE Spin \/ UNCHANGED vars
  <2>1. UNCHANGED <<ring, devVars, runVars, icr, out, guestVars>>
    BY <1>4 DEF Spin, vars
  <2>2. TypeOK'
    BY <1>0, <2>1 DEF TypeOK, devVars, runVars, guestVars
  <2>3. Told'
    <3>1. OldestDone' <=> OldestDone
      BY <2>1, SameOldest DEF guestVars
    <3> QED
      BY <2>1, <3>1 DEF TxInv, Told, devVars, runVars, guestVars
  <2>4. Ahead' = Ahead /\ ReadHead' = ReadHead
    BY <2>1 DEF Ahead, ReadHead, devVars, runVars
  <2> QED
    BY <2>1, <2>2, <2>3, <2>4, QuietStep DEF devVars, guestVars
<1> QED
  BY <1>1, <1>2, <1>3, <1>4

LEMMA CtrlResetInv == ASSUME TxInv, CtrlReset PROVE TxInv'
<1>0. TypeOK
  BY DEF TxInv
<1>1. pc = "idle" /\ tx_enabled' = FALSE /\ UNCHANGED <<tx_active, txctx, runVars>> /\ ~ tdwb
      /\ pc' = IF tx_active THEN "spin" ELSE "idle"
  BY DEF CtrlReset, TxDisable, TxInv, Told
<1>2. CASE tx_active
  <2>1. pc' = "spin" /\ UNCHANGED <<ring, TDH, TDHr, TDT, icr, out, guestVars>>
    BY <1>1, <1>2 DEF CtrlReset
  <2>2. TypeOK'
    BY <1>0, <1>1, <2>1 DEF TypeOK, guestVars, runVars
  <2>3. Told'
    <3>1. OldestDone' <=> OldestDone
      BY <2>1, SameOldest DEF guestVars
    <3> QED
      BY <1>1, <2>1, <3>1 DEF TxInv, Told, guestVars, runVars
  <2>4. Ahead' = Ahead /\ ReadHead' = ReadHead
    BY <1>1, <2>1 DEF Ahead, ReadHead, runVars
  <2> QED
    BY <1>1, <2>1, <2>2, <2>3, <2>4, QuietStep DEF guestVars
<1>3. CASE ~ tx_active
  <2>1. /\ pc' = "idle" /\ TDH' = 0 /\ TDHr' = 0 /\ TDT' = 0
        /\ icr' = {} /\ ring' = [i \in Slots |-> Stale]
        /\ gtail' = 0 /\ clean' = 0 /\ cleaning' = FALSE
        /\ part' = <<>> /\ owed' = <<>> /\ out' = <<>> /\ gctx' = txctx
    BY <1>1, <1>3 DEF CtrlReset
  <2>2. 0 \in Slots /\ 0 \in Contexts
    BY SizeFacts DEF Slots, Contexts
  <2>3. ring' \in [Slots -> Desc]
    BY <2>1, <2>2 DEF Stale, Desc
  <2>4. <<>> \in SeqOf(Slots, MaxSegs) /\ <<>> \in SeqOf(Frames, 1) /\ <<>> \in Seq(Frames)
    <3>1. <<>> \in Seq(Slots) /\ <<>> \in Seq(Frames) /\ Len(<<>>) <= MaxSegs /\ Len(<<>>) <= 1
      BY SegsFacts
    <3>2. <<>> \in SeqOf(Slots, MaxSegs)
      BY <3>1, SegsFacts, SeqOfIs
    <3>3. <<>> \in SeqOf(Frames, 1)
      BY <3>1, SeqOfIs
    <3> QED
      BY <3>1, <3>2, <3>3
  <2>5. TypeOK'
    BY <1>0, <1>1, <2>1, <2>2, <2>3, <2>4 DEF TypeOK, runVars
  <2>6. Ahead' = 0 /\ ReadHead' = 0 /\ Dist(0, 0) = 0 /\ Unsent' = 0
    BY <2>1, <2>2, DistType DEF Ahead, ReadHead, Unsent
  <2>7. Region'
    BY <2>1, <2>6, SizeFacts DEF Region
  <2>8. LogInv'
    BY <1>1, <2>1, <2>2, <2>6, EmptyLog DEF LogInv
  <2>9. Parked'
    BY <2>1, <2>6 DEF Parked
  <2>10. Told'
    <3>1. OldestEop' = {}
      BY <2>1, <2>6 DEF OldestEop
    <3> QED
      BY <1>1, <2>1, <3>1 DEF Told, OldestDone, runVars
  <2> QED
    BY <2>5, <2>7, <2>8, <2>9, <2>10 DEF TxInv
<1> QED
  BY <1>2, <1>3

-----------------------------------------------------------------------------
(* The driver writes a descriptor, or takes a packet back, while the device *)
(* is at work.                                                              *)

LEMMA Between ==
  ASSUME NEW a \in Slots, NEW b \in Slots, NEW c \in Slots, Dist(b, c) <= Dist(a, c)
  PROVE  Dist(a, b) = Dist(a, c) - Dist(b, c)
<1>1. /\ a \in Int /\ 0 <= a /\ a < TxSize /\ b \in Int /\ 0 <= b /\ b < TxSize
      /\ c \in Int /\ 0 <= c /\ c < TxSize
  BY SlotIs
<1>2. /\ Dist(a, b) = IF a <= b THEN b - a ELSE b - a + TxSize
      /\ Dist(a, c) = IF a <= c THEN c - a ELSE c - a + TxSize
      /\ Dist(b, c) = IF b <= c THEN c - b ELSE c - b + TxSize
  BY DistIs
<1> QED
  BY <1>1, <1>2, SizeFacts

(* The driver's next slot is the end of what it has written.                *)
LEMMA OneMore ==
  ASSUME NEW a \in Slots, NEW b \in Slots, Dist(a, b) < TxSize - 1
  PROVE  /\ Plus(b, 1) \in Slots /\ Dist(a, Plus(b, 1)) = Dist(a, b) + 1
         /\ Plus(a, Dist(a, b)) = b
         /\ \A x \in 0 .. Dist(a, b) - 1 : Plus(a, x) \in Slots /\ Plus(a, x) # b
<1> DEFINE d == Dist(a, b)
<1>1. d \in Nat /\ d + 1 \in 0 .. TxSize - 1 /\ d + 1 <= TxSize /\ Plus(a, d) = b
  BY DistType, Backward, SizeFacts
<1>2. Plus(b, 1) = Plus(a, d + 1)
  BY <1>1, PlusPlus
<1> HIDE DEF d
<1>3. Plus(a, d + 1) \in Slots /\ Dist(a, Plus(a, d + 1)) = d + 1
  BY <1>1, Forward
<1>4. ASSUME NEW x \in 0 .. d - 1 PROVE Plus(a, x) \in Slots /\ Plus(a, x) # b
  <2>1. x \in 0 .. TxSize - 1 /\ x # d
    BY <1>1, SizeFacts
  <2>2. Plus(a, x) \in Slots /\ Dist(a, Plus(a, x)) = x
    BY <2>1, Forward
  <2> QED
    BY <2>1, <2>2 DEF d
<1> QED
  BY <1>1, <1>2, <1>3, <1>4 DEF d

(* The first EOP among n descriptors is marked.                             *)
FirstDone(r, a, n) ==
    \E e \in 0 .. n - 1 : /\ KindAt(r, a, e) = "eop" /\ r[Plus(a, e)].dd
                          /\ \A x \in 0 .. e - 1 : KindAt(r, a, x) # "eop"

(* OldestEop names the first EOP from the oldest descriptor on.             *)
LEMMA OldestIs ==
  ASSUME NEW r, NEW a \in Slots, NEW n \in Nat
  PROVE  LET eops == {k \in 0 .. n - 1 : r[Plus(a, k)].kind = "eop"}
         IN (\E i \in (IF eops = {} THEN {} ELSE {Plus(a, Min(eops))}) : r[i].dd)
                <=> FirstDone(r, a, n)
<1> DEFINE E == {k \in 0 .. n - 1 : r[Plus(a, k)].kind = "eop"}
           m == Min(E)
<1>1. /\ E = {} => \A x \in 0 .. n - 1 : KindAt(r, a, x) # "eop"
      /\ E # {} => /\ m \in 0 .. n - 1 /\ KindAt(r, a, m) = "eop"
                   /\ \A x \in 0 .. m - 1 : KindAt(r, a, x) # "eop"
  BY FirstEop
<1> HIDE DEF E, m
<1>2. CASE E = {}
  BY <1>1, <1>2 DEF FirstDone, E
<1>3. CASE E # {}
  <2>1. ASSUME NEW e \in 0 .. n - 1, KindAt(r, a, e) = "eop",
               \A x \in 0 .. e - 1 : KindAt(r, a, x) # "eop"
        PROVE  e = m
    <3>1. m \in Nat /\ e \in Nat
      BY <1>1, <1>3
    <3>2. ~ (e < m) /\ ~ (m < e)
      BY <1>1, <1>3, <2>1, <3>1
    <3> QED
      BY <3>1, <3>2
  <2>2. FirstDone(r, a, n) <=> r[Plus(a, m)].dd
    BY <1>1, <1>3, <2>1 DEF FirstDone
  <2> QED
    BY <1>3, <2>2 DEF E, m
<1> QED
  BY <1>2, <1>3

(* An unmarked descriptor at the end does not make the oldest packet done.  *)
LEMMA OldestStays ==
  ASSUME NEW r, NEW s, NEW b, NEW m \in Nat, ~ s[Plus(b, m)].dd, FirstDone(s, b, m + 1),
         \A x \in 0 .. m - 1 : s[Plus(b, x)] = r[Plus(b, x)]
  PROVE  FirstDone(r, b, m)
<1>1. PICK e \in 0 .. m : /\ KindAt(s, b, e) = "eop" /\ s[Plus(b, e)].dd
                         /\ \A x \in 0 .. e - 1 : KindAt(s, b, x) # "eop"
  <2>1. m + 1 - 1 = m
    OBVIOUS
  <2> QED
    BY <2>1 DEF FirstDone
<1>2. e \in 0 .. m - 1 /\ \A x \in 0 .. e - 1 : x \in 0 .. m - 1
  <2>1. e # m
    BY <1>1
  <2> QED
    BY <2>1
<1>3. KindAt(r, b, e) = "eop" /\ r[Plus(b, e)].dd
  BY <1>1, <1>2 DEF KindAt
<1>4. \A x \in 0 .. e - 1 : KindAt(r, b, x) # "eop"
  BY <1>1, <1>2 DEF KindAt
<1> QED
  BY <1>2, <1>3, <1>4 DEF FirstDone

LEMMA FillTypes ==
  ASSUME TypeOK, NEW kind \in Kinds, Fill(kind) PROVE TypeOK'
<1>1. gtail \in Slots /\ gtail' \in Slots /\ gctx \in Contexts /\ gctx' \in Contexts
      /\ 1 - gctx \in Contexts
  <2>1. gtail \in Slots /\ gctx \in Contexts
    BY Types
  <2>2. gtail' \in Slots
    BY <2>1, SlotIs, PlusType DEF Fill
  <2>3. 1 - gctx \in Contexts
    BY <2>1 DEF Contexts
  <2> QED
    BY <2>1, <2>2, <2>3 DEF Fill
<1>2. kind \in {"frag", "eop", "ctx"}
  BY TxAssumption
<1>3. [kind |-> kind, ctx |-> 1 - gctx, rs |-> kind = "eop", dd |-> FALSE] \in Desc
  BY <1>1, <1>2 DEF Desc
<1>4. ring' \in [Slots -> Desc]
  BY <1>1, <1>3, Types DEF Fill
<1>5. <<>> \in SeqOf(Slots, MaxSegs)
  <2>1. <<>> \in Seq(Slots) /\ Len(<<>>) = 0 /\ Len(<<>>) <= MaxSegs
    BY SegsFacts
  <2> QED
    BY <2>1, SegsFacts, SeqOfIs
<1>6. Len(part) < MaxSegs => Append(part, gtail) \in SeqOf(Slots, MaxSegs)
  <2> DEFINE v == Append(part, gtail)
  <2>1. v \in Seq(Slots) /\ Len(v) = Len(part) + 1 /\ Len(part) \in Nat
    BY <1>1, Types, AppendProperties
  <2> HIDE DEF v
  <2>2. Len(part) < MaxSegs => Len(v) <= MaxSegs
    BY <2>1, SegsFacts
  <2>3. Len(part) < MaxSegs => v \in SeqOf(Slots, MaxSegs)
    BY <2>1, <2>2, SegsFacts, SeqOfIs
  <2> QED
    BY <2>3 DEF v
<1>7. part' \in SeqOf(Slots, MaxSegs)
  BY <1>5, <1>6 DEF Fill
<1>8. owed' \in Seq(Frames)
  <2> DEFINE f == [bufs |-> Append(part, gtail), ctx |-> gctx]
  <2>1. Len(part) < MaxSegs => f \in Frames
    BY <1>1, <1>6 DEF Frames
  <2> HIDE DEF f
  <2>2. Len(part) < MaxSegs => Append(owed, f) \in Seq(Frames)
    BY <2>1, Types, AppendProperties
  <2>3. owed' = IF kind = "eop" /\ Len(part) < MaxSegs THEN Append(owed, f) ELSE owed
    BY DEF Fill, f
  <2> QED
    BY <2>2, <2>3, Types
<1>9. UNCHANGED <<tx_enabled, tx_active, TDH, TDHr, TDT, txctx, pc, head, lim, rhead, tdwb, icr,
                  out, clean, cleaning>>
  BY DEF Fill, devVars, runVars
<1> QED
  BY <1>1, <1>4, <1>7, <1>8, <1>9 DEF TypeOK

LEMMA FillInv == ASSUME TxInv, NEW kind \in Kinds, Fill(kind) PROVE TxInv'
<1>1. /\ ring \in [Slots -> Desc] /\ Ahead \in Slots /\ ReadHead \in Slots /\ TDT \in Slots
      /\ gtail \in Slots /\ clean \in Slots
      /\ part \in Seq(Slots) /\ Len(part) \in Nat /\ Len(part) <= MaxSegs
      /\ owed \in Seq(Frames) /\ gctx \in Contexts
      /\ Unsent \in 0 .. TxSize - 1 /\ Unsent \in Nat /\ Dist(clean, gtail) \in Nat
      /\ Dist(Ahead, TDT) \in Nat /\ Dist(Ahead, ReadHead) \in Nat
  BY Types DEF TxInv
<1>2. /\ UNCHANGED <<tx_enabled, tx_active, TDH, TDHr, TDT, txctx, pc, head, lim, rhead, tdwb,
                     icr, out, clean, cleaning>>
      /\ gtail' = Plus(gtail, 1) /\ Dist(clean, gtail) < MaxInUse
  BY DEF Fill, devVars, runVars
<1>3. Ahead' = Ahead /\ ReadHead' = ReadHead
  BY <1>2 DEF Ahead, ReadHead
<1> DEFINE a == Ahead
           u == Unsent
           c == Dist(clean, gtail)
           s == ring'
<1>4. u <= c /\ c < TxSize - 1 /\ u < TxSize - 1 /\ u = Dist(a, gtail)
  BY <1>1, <1>2, SizeFacts DEF TxInv, Region, Unsent
<1>5. /\ gtail' \in Slots /\ Dist(a, gtail') = u + 1 /\ Plus(a, u) = gtail
      /\ \A x \in 0 .. u - 1 : Plus(a, x) \in Slots /\ Plus(a, x) # gtail
  BY <1>1, <1>2, <1>4, OneMore
<1>6. /\ Dist(clean, gtail') = c + 1 /\ Plus(clean, c) = gtail
      /\ \A x \in 0 .. c - 1 : Plus(clean, x) \in Slots /\ Plus(clean, x) # gtail
  BY <1>1, <1>2, <1>4, OneMore
<1>7. Unsent' = u + 1
  BY <1>3, <1>5 DEF Unsent
<1>8. s = [ring EXCEPT ![gtail] = [kind |-> kind, ctx |-> 1 - gctx,
                                   rs |-> kind = "eop", dd |-> FALSE]]
  BY DEF Fill
<1>9. /\ \A i \in Slots : i # gtail => s[i] = ring[i]
      /\ s[gtail].kind = kind /\ ~ s[gtail].dd /\ s[gtail].ctx = 1 - gctx
  BY <1>1, <1>8
<1>10. TypeOK'
  BY FillTypes DEF TxInv
<1>11. Region'
  <2>1. Dist(a, TDT) <= u /\ c + 1 <= MaxInUse /\ u + 1 <= c + 1 /\ Dist(a, TDT) <= u + 1
    BY <1>1, <1>2, <1>4, SizeFacts DEF TxInv, Region
  <2>2. Dist(Ahead, TDT)' = Dist(a, TDT) /\ Dist(clean, gtail)' = c + 1
    BY <1>2, <1>3, <1>6
  <2> HIDE DEF a, u, c
  <2> QED
    BY <1>7, <2>1, <2>2 DEF Region
<1>12. LogInv'
  <2>1. Log(ring, a, u, part, owed, txctx, gctx)
    BY DEF TxInv, LogInv
  <2>2. \A x \in 0 .. u - 1 : s[Plus(a, x)] = ring[Plus(a, x)]
    BY <1>5, <1>9
  <2> HIDE DEF a, u, c, s
  <2>3. Log(s, a, u, part, owed, txctx, gctx)
    BY <1>1, <2>1, <2>2, SameLog DEF a, u
  <2>4. ~ s[Plus(a, u)].dd /\ KindAt(s, a, u) = kind /\ s[Plus(a, u)].ctx = 1 - gctx
    BY <1>5, <1>9 DEF KindAt
  <2>5. Log(s, a, u + 1, part', owed', txctx, gctx')
    <3>0. a \in Slots /\ u \in Nat /\ u \in 0 .. TxSize - 1 /\ kind \in {"frag", "eop", "ctx"}
      BY <1>1, TxAssumption DEF a, u
    <3>1. CASE kind = "frag"
      <4>1. part' = Append(part, Plus(a, u)) /\ owed' = owed /\ gctx' = gctx
        BY <1>5, <3>1 DEF Fill
      <4> QED
        BY <1>1, <2>3, <2>4, <3>0, <3>1, <4>1, ExtendFrag
    <3>2. CASE kind = "ctx"
      <4>1. part = <<>> /\ part' = <<>> /\ owed' = owed /\ gctx' = s[Plus(a, u)].ctx
        BY <2>4, <3>2 DEF Fill
      <4> QED
        BY <1>1, <2>3, <2>4, <3>0, <3>2, <4>1, ExtendCtx
    <3>3. CASE kind = "eop"
      <4>1. /\ part' = <<>> /\ gctx' = gctx
            /\ owed' = IF Len(part) < MaxSegs
                         THEN Append(owed, [bufs |-> Append(part, Plus(a, u)), ctx |-> gctx])
                         ELSE owed
        BY <1>5, <3>3 DEF Fill
      <4>2. CASE Len(part) < MaxSegs
        BY <1>1, <2>3, <2>4, <3>0, <3>3, <4>1, <4>2, ExtendEop
      <4>3. CASE Len(part) = MaxSegs
        <5>1. ~ (Len(part) < MaxSegs)
          BY <4>3, SegsFacts
        <5> QED
          BY <1>1, <2>3, <2>4, <3>0, <3>3, <4>1, <4>3, <5>1, ExtendEop
      <4> QED
        BY <1>1, <4>2, <4>3, SegsFacts
    <3> QED
      BY <3>0, <3>1, <3>2, <3>3
  <2> QED
    BY <1>2, <1>3, <1>7, <2>5 DEF LogInv, a, u, s
<1>13. Parked'
  <2> DEFINE h == Dist(a, ReadHead)
  <2>1. /\ h <= Dist(a, TDT) /\ Dist(a, TDT) <= u
        /\ \A x \in 0 .. h - 1 : KindAt(ring, a, x) # "eop"
    BY DEF TxInv, Parked, Region
  <2>2. h \in Nat /\ Dist(a, TDT) \in Nat /\ u \in Nat
    BY <1>1
  <2>3. Dist(Ahead, ReadHead)' = h /\ Dist(Ahead, TDT)' = Dist(a, TDT)
    BY <1>2, <1>3
  <2> HIDE DEF h, a, u
  <2>4. ASSUME NEW x \in 0 .. h - 1 PROVE KindAt(s, a, x) # "eop"
    <3>1. x \in 0 .. u - 1
      BY <2>1, <2>2
    <3> QED
      BY <1>5, <1>9, <2>1, <3>1 DEF KindAt
  <2> QED
    BY <1>3, <2>1, <2>3, <2>4 DEF Parked, a
<1>14. Told'
  <2>1. OldestDone <=> FirstDone(ring, clean, c)
    BY <1>1, OldestIs DEF OldestDone, OldestEop
  <2>2. OldestDone' <=> FirstDone(s, clean, c + 1)
    <3>1. OldestDone' <=> FirstDone(ring', clean', Dist(clean', gtail'))
      <4>1. clean' \in Slots /\ Dist(clean', gtail') \in Nat
        BY <1>1, <1>2, <1>6
      <4> QED
        BY <4>1, OldestIs DEF OldestDone, OldestEop
    <3> QED
      BY <1>2, <1>6, <3>1
  <2> HIDE DEF c, s
  <2>3. \A x \in 0 .. c - 1 : s[Plus(clean, x)] = ring[Plus(clean, x)]
    BY <1>6, <1>9
  <2>4. FirstDone(s, clean, c + 1) => FirstDone(ring, clean, c)
    <3>1. c \in Nat /\ ~ s[Plus(clean, c)].dd
      BY <1>1, <1>6, <1>9 DEF c
    <3> QED
      BY <2>3, <3>1, OldestStays
  <2> QED
    BY <1>2, <2>1, <2>2, <2>4 DEF TxInv, Told
<1> QED
  BY <1>10, <1>11, <1>12, <1>13, <1>14 DEF TxInv

LEMMA ReclaimInv == ASSUME TxInv, Reclaim PROVE TxInv'
<1>1. /\ ring \in [Slots -> Desc] /\ Ahead \in Slots /\ ReadHead \in Slots /\ TDT \in Slots
      /\ gtail \in Slots /\ clean \in Slots /\ part \in Seq(Slots) /\ owed \in Seq(Frames)
      /\ Unsent \in 0 .. TxSize - 1 /\ Unsent \in Nat /\ Dist(clean, gtail) \in Nat
      /\ Dist(Ahead, TDT) \in Nat /\ Dist(Ahead, ReadHead) \in Nat /\ TypeOK
  BY Types DEF TxInv
<1>2. UNCHANGED <<tx_enabled, tx_active, TDH, TDHr, TDT, txctx, pc, head, lim, rhead, tdwb, icr,
                  out, gtail, part, gctx, owed>> /\ cleaning
  BY DEF Reclaim, devVars, runVars
<1>3. Ahead' = Ahead /\ ReadHead' = ReadHead /\ Unsent' = Unsent
  BY <1>2 DEF Ahead, ReadHead, Unsent
<1>4. CASE ~ OldestDone
  <2>1. cleaning' = FALSE /\ UNCHANGED <<clean, ring>>
    BY <1>4 DEF Reclaim, OldestDone
  <2>2. ~ OldestDone'
    BY <1>2, <1>4, <2>1, SameOldest
  <2>3. Told'
    BY <1>2, <2>2 DEF TxInv, Told
  <2>4. TypeOK'
    BY <1>1, <1>2, <2>1 DEF TypeOK
  <2> QED
    BY <1>2, <1>3, <2>1, <2>3, <2>4, QuietStep
<1>5. CASE OldestDone
  <2> DEFINE c == Dist(clean, gtail)
             u == Unsent
             a == Ahead
             s == ring'
  <2>1. PICK i \in OldestEop : /\ clean' = Plus(i, 1)
                               /\ s = [j \in Slots |-> IF Dist(clean, j) <= Dist(clean, i)
                                                         THEN Stale ELSE ring[j]]
                               /\ cleaning' = cleaning
    BY <1>5 DEF Reclaim, OldestDone
  <2>2. PICK e \in 0 .. c - 1 : i = Plus(clean, e) /\ ring[i].dd
    <3> DEFINE E == {k \in 0 .. c - 1 : ring[Plus(clean, k)].kind = "eop"}
    <3>1. OldestEop = IF E = {} THEN {} ELSE {Plus(clean, Min(E))}
      BY DEF OldestEop
    <3>2. E # {} => Min(E) \in 0 .. c - 1
      BY <1>1, FirstEop
    <3> HIDE DEF E
    <3>3. OldestEop = {i} /\ Min(E) \in 0 .. c - 1 /\ i = Plus(clean, Min(E))
      BY <3>1, <3>2
    <3>4. ring[i].dd
      BY <1>5, <3>3 DEF OldestDone
    <3> QED
      BY <3>3, <3>4
  <2>3. c \in 0 .. TxSize - 1 /\ e \in 0 .. TxSize - 1 /\ e \in Nat /\ c \in Nat /\ e < c
        /\ c <= TxSize - 1
    <3>1. c \in 0 .. TxSize - 1 /\ c \in Nat
      BY <1>1, DistType
    <3> HIDE DEF c
    <3> QED
      BY <3>1, SizeFacts
  <2>4. i \in Slots /\ Dist(clean, i) = e
    BY <1>1, <2>2, <2>3, Forward
  <2>5. u = Dist(a, gtail) /\ u <= c /\ c <= MaxInUse /\ u \in Nat
    BY <1>1 DEF TxInv, Region, Unsent
  <2> DEFINE d == Dist(clean, a)
  <2>6. d = c - u /\ d \in Nat /\ Plus(clean, d) = a
    BY <1>1, <2>5, Between, DistType, Backward
  <2> HIDE DEF c, u, a, d, s
  <2>7. \A x \in 0 .. u - 1 : /\ d + x \in 0 .. TxSize - 1 /\ Plus(a, x) = Plus(clean, d + x)
                              /\ Plus(a, x) \in Slots /\ Dist(clean, Plus(a, x)) = d + x
    <3> SUFFICES ASSUME NEW x \in 0 .. u - 1
                 PROVE  /\ d + x \in 0 .. TxSize - 1 /\ Plus(a, x) = Plus(clean, d + x)
                        /\ Plus(a, x) \in Slots /\ Dist(clean, Plus(a, x)) = d + x
      OBVIOUS
    <3>1. x \in Nat /\ d + x \in 0 .. TxSize - 1 /\ d + x <= TxSize
      BY <2>3, <2>5, <2>6, SizeFacts
    <3>2. Plus(a, x) = Plus(clean, d + x)
      BY <1>1, <2>6, <3>1, PlusPlus
    <3> QED
      BY <1>1, <3>1, <3>2, Forward
  <2>8. e < d
    <3>1. SUFFICES ASSUME ~ (e < d) PROVE FALSE
      OBVIOUS
    <3>2. e - d \in 0 .. u - 1 /\ d + (e - d) = e
      BY <2>3, <2>5, <2>6, <3>1
    <3>3. Plus(a, e - d) = i
      BY <2>2, <2>7, <3>2
    <3>4. ~ ring[Plus(a, e - d)].dd
      BY <3>2 DEF TxInv, LogInv, Log, NotDone, a, u
    <3> QED
      BY <2>2, <3>3, <3>4
  <2>9. \A x \in 0 .. u - 1 : s[Plus(a, x)] = ring[Plus(a, x)]
    <3> SUFFICES ASSUME NEW x \in 0 .. u - 1 PROVE s[Plus(a, x)] = ring[Plus(a, x)]
      OBVIOUS
    <3>1. ~ (Dist(clean, Plus(a, x)) <= Dist(clean, i)) /\ Plus(a, x) \in Slots
      BY <2>3, <2>4, <2>6, <2>7, <2>8
    <3> QED
      BY <2>1, <3>1
  <2>10. clean' \in Slots /\ Dist(clean', gtail) = c - (e + 1)
    <3>1. clean' = Plus(clean, e + 1)
      <4>1. e + 1 <= TxSize /\ 1 \in Nat
        BY <2>3, SizeFacts
      <4> QED
        BY <1>1, <2>1, <2>2, <2>3, <4>1, PlusPlus
    <3>2. e + 1 \in 0 .. c
      BY <2>3
    <3> QED
      BY <1>1, <3>1, <3>2, Moved DEF c
  <2>11. TypeOK'
    <3>1. 0 \in Contexts /\ Stale \in Desc
      BY DEF Stale, Desc, Contexts
    <3>2. s \in [Slots -> Desc]
      BY <1>1, <2>1, <3>1
    <3> QED
      BY <1>1, <1>2, <2>1, <2>10, <3>2 DEF TypeOK, s
  <2>12. Region'
    <3>1. u <= c - (e + 1) /\ c - (e + 1) <= MaxInUse
      BY <2>3, <2>5, <2>6, <2>8, SizeFacts
    <3>2. Dist(Ahead, TDT) <= u /\ Unsent' = u /\ Dist(Ahead, TDT)' = Dist(Ahead, TDT)
          /\ Dist(clean, gtail)' = c - (e + 1)
      BY <1>2, <1>3, <2>10 DEF TxInv, Region, u
    <3> QED
      BY <3>1, <3>2 DEF Region
  <2>13. LogInv'
    <3>1. Log(ring, a, u, part, owed, txctx, gctx)
      BY DEF TxInv, LogInv, a, u
    <3>2. Log(s, a, u, part, owed, txctx, gctx)
      BY <1>1, <2>9, <3>1, SameLog DEF a, u
    <3> QED
      BY <1>2, <1>3, <3>2 DEF LogInv, a, u, s
  <2>14. Parked'
    <3> DEFINE h == Dist(a, ReadHead)
    <3>1. /\ h <= Dist(a, TDT) /\ Dist(a, TDT) <= u
          /\ \A x \in 0 .. h - 1 : KindAt(ring, a, x) # "eop"
      BY DEF TxInv, Parked, Region, a, u
    <3>2. h \in Nat /\ Dist(a, TDT) \in Nat /\ u \in Nat
      BY <1>1 DEF a, u
    <3>3. Dist(Ahead, ReadHead)' = h /\ Dist(Ahead, TDT)' = Dist(a, TDT)
      BY <1>2, <1>3 DEF a
    <3> HIDE DEF h
    <3>4. ASSUME NEW x \in 0 .. h - 1 PROVE KindAt(s, a, x) # "eop"
      <4>1. x \in 0 .. u - 1
        BY <3>1, <3>2
      <4> QED
        BY <2>9, <3>1, <4>1 DEF KindAt
    <3> QED
      BY <1>3, <3>1, <3>3, <3>4 DEF Parked, a, s
  <2>15. Told'
    BY <1>2, <2>1 DEF TxInv, Told
  <2> QED
    BY <2>11, <2>12, <2>13, <2>14, <2>15 DEF TxInv
<1> QED
  BY <1>4, <1>5

-----------------------------------------------------------------------------
(* One call of e82545_transmit.                                             *)

(* What it consumes: nothing up to the tail, a context, or a packet.        *)
LEMMA PacketLenIs ==
  ASSUME TypeOK
  PROVE  LET n == PacketLen
             m == Dist(head, TDT)
         IN /\ m \in Nat /\ n \in 0 .. m
            /\ n = 0 => \A x \in 0 .. m - 1 : KindAt(ring, head, x) # "eop"
            /\ n # 0 /\ ring[head].kind = "ctx" => n = 1
            /\ n # 0 /\ ring[head].kind # "ctx" =>
                 /\ KindAt(ring, head, n - 1) = "eop"
                 /\ \A x \in 0 .. n - 2 : KindAt(ring, head, x) # "eop"
<1> DEFINE m == Dist(head, TDT)
           E == {k \in 0 .. m - 1 : ring[Plus(head, k)].kind = "eop"}
           k == Min(E)
<1>1. head \in Slots /\ TDT \in Slots /\ m \in Nat /\ (m = 0 => TDT = head) /\ Plus(head, 0) = head
      /\ (TDT = head => m = 0)
  <2>1. head \in Slots /\ TDT \in Slots
    BY Types
  <2>2. Dist(head, head) = 0
    BY <2>1, DistType
  <2> QED
    BY <2>1, <2>2, DistType, Backward
<1>2. /\ E = {} => \A x \in 0 .. m - 1 : KindAt(ring, head, x) # "eop"
      /\ E # {} => /\ k \in 0 .. m - 1 /\ KindAt(ring, head, k) = "eop"
                   /\ \A x \in 0 .. k - 1 : KindAt(ring, head, x) # "eop"
  BY <1>1, FirstEop
<1>3. PacketLen = IF head # TDT /\ ring[head].kind = "ctx" THEN 1
                  ELSE IF E = {} THEN 0 ELSE k + 1
  BY DEF PacketLen
<1> HIDE DEF m, E, k
<1>4. CASE head # TDT /\ ring[head].kind = "ctx"
  BY <1>1, <1>3, <1>4 DEF m
<1>5. CASE ~ (head # TDT /\ ring[head].kind = "ctx") /\ E = {}
  BY <1>1, <1>2, <1>3, <1>5 DEF m
<1>6. CASE ~ (head # TDT /\ ring[head].kind = "ctx") /\ E # {}
  <2>1. PacketLen = k + 1 /\ k \in Nat /\ k + 1 <= m /\ (k + 1) - 1 = k /\ (k + 1) - 2 = k - 1
        /\ m # 0
    BY <1>1, <1>2, <1>3, <1>6
  <2>2. ring[head].kind # "ctx"
    BY <1>1, <1>6, <2>1
  <2> QED
    BY <1>1, <1>2, <1>6, <2>1, <2>2 DEF m
<1> QED
  BY <1>4, <1>5, <1>6

(* What e82545_transmit_done leaves: marks on what was consumed.            *)
LEMMA DoneFacts ==
  ASSUME TypeOK, NEW n \in Nat, n <= Dist(head, TDT), TransmitDone(n)
  PROVE  /\ ring' \in [Slots -> Desc]
         /\ \A i \in Slots : /\ ring'[i].kind = ring[i].kind /\ ring'[i].ctx = ring[i].ctx
                             /\ Dist(head, i) >= n => ring'[i] = ring[i]
                             /\ ring'[i].dd => ring[i].dd \/ tdwb'
         /\ (tdwb => tdwb') /\ tdwb' \in BOOLEAN
<1>1. /\ head \in Slots /\ ring \in [Slots -> Desc] /\ Dist(head, TDT) \in 0 .. TxSize - 1
      /\ \A i \in Slots : Dist(head, i) \in Nat
  BY Types, DistType
<1>2. ring' = [i \in Slots |-> IF Dist(head, i) < n /\ ring[i].rs
                                 THEN [ring[i] EXCEPT !.dd = TRUE] ELSE ring[i]]
  BY DEF TransmitDone
<1>3. tdwb' = (tdwb \/ \E k \in 0 .. n - 1 : ring[Plus(head, k)].rs)
  BY DEF TransmitDone
<1>4. /\ tdwb' \in BOOLEAN /\ (tdwb => tdwb')
      /\ (\E k \in 0 .. n - 1 : ring[Plus(head, k)].rs) => tdwb'
  BY <1>3, Zenon
<1>5. ASSUME NEW i \in Slots
      PROVE  /\ ring'[i] \in Desc /\ ring'[i].kind = ring[i].kind /\ ring'[i].ctx = ring[i].ctx
             /\ Dist(head, i) >= n => ring'[i] = ring[i]
             /\ ring'[i].dd => ring[i].dd \/ tdwb'
  <2>1. CASE Dist(head, i) < n /\ ring[i].rs
    <3>1. ring'[i] = [ring[i] EXCEPT !.dd = TRUE]
      BY <1>2, <2>1
    <3>2. ring'[i] \in Desc /\ ring'[i].kind = ring[i].kind /\ ring'[i].ctx = ring[i].ctx
      BY <1>1, <3>1 DEF Desc
    <3>3. ~ (Dist(head, i) >= n)
      BY <1>1, <2>1
    <3>4. Dist(head, i) \in 0 .. n - 1 /\ Plus(head, Dist(head, i)) = i
      BY <1>1, <2>1, Backward
    <3>5. tdwb'
      BY <1>4, <2>1, <3>4
    <3> QED
      BY <3>2, <3>3, <3>5
  <2>2. CASE ~ (Dist(head, i) < n /\ ring[i].rs)
    <3>1. ring'[i] = ring[i]
      BY <1>2, <2>2
    <3> QED
      BY <1>1, <3>1
  <2> QED
    BY <2>1, <2>2
<1>6. ring' \in [Slots -> Desc]
  BY <1>2, <1>5
<1> QED
  BY <1>4, <1>5, <1>6

(* The frame sent is the first one owed, and is whole: what follows is owed *)
(* still, and lies ahead.                                                   *)
LEMMA SentIsOwed ==
  ASSUME NEW r, NEW a, NEW u, NEW n, Passed(r, a, u, n), NEW w \in Seq(Slots),
         NEW q \in Seq(Frames), NEW t, NEW g, Log(r, a, u, w, q, t, g), KindsOk(r, a, u),
         KindAt(r, a, 0) # "ctx", KindAt(r, a, n - 1) = "eop",
         \A x \in 0 .. n - 2 : KindAt(r, a, x) # "eop"
  PROVE  /\ \A z \in 0 .. n - 1 : KindAt(r, a, z) # "ctx"
         /\ n > MaxSegs => \A j \in 1 .. Len(q) : End(q[j], a) >= n
         /\ n <= MaxSegs =>
              /\ q # <<>> /\ Head(q) = [bufs |-> Slice(a, n), ctx |-> t]
              /\ End(q[1], a) < n /\ \A j \in 2 .. Len(q) : End(q[j], a) >= n
<1> DEFINE e == n - 1
<1>1. a \in Slots /\ u \in Nat /\ n \in Nat /\ 1 <= n /\ n <= u
  BY PassedFacts
<1>2. e \in 0 .. u - 1 /\ e \in Nat /\ n = e + 1 /\ n - 2 = e - 1
  BY <1>1
<1> HIDE DEF e
<1>3. KindAt(r, a, e) = "eop" /\ \A x \in 0 .. e - 1 : KindAt(r, a, x) # "eop"
  BY <1>2 DEF e
<1>4. Whole(r, a, e)
  BY <1>1, <1>2, <1>3, FirstPacket DEF Log
<1>5. ASSUME NEW j \in 1 .. Len(q)
      PROVE  /\ q[j] \in Frames /\ FrameIn(q[j], r, a, u) /\ End(q[j], a) \in Nat
             /\ CtxAt(End(q[j], a), q[j].ctx, r, a, t)
             /\ End(q[j], a) >= e
             /\ End(q[j], a) = e => /\ Len(q[j].bufs) = n
                                    /\ q[j] = [bufs |-> Slice(a, n),
                                               ctx |-> t]
  <2>1. q[j] \in Frames /\ FrameIn(q[j], r, a, u) /\ CtxAt(End(q[j], a), q[j].ctx, r, a, t)
    BY DEF Log, FramesIn, FramesCtx
  <2>2. Len(q[j].bufs) >= 1 /\ KindAt(r, a, End(q[j], a)) = "eop"
    BY <2>1 DEF FrameIn
  <2>3. End(q[j], a) \in Nat
    BY <1>1, <2>1, <2>2, EndFacts
  <2>4. End(q[j], a) >= e
    BY <1>2, <1>3, <2>2, <2>3
  <2>5. End(q[j], a) = e => /\ Len(q[j].bufs) = n
                            /\ q[j] = [bufs |-> Slice(a, n), ctx |-> t]
    <3>1. SUFFICES ASSUME End(q[j], a) = e
                   PROVE  /\ Len(q[j].bufs) = n
                          /\ q[j] = [bufs |-> Slice(a, n), ctx |-> t]
      OBVIOUS
    <3>2. CtxAt(e, q[j].ctx, r, a, t)
      BY <2>1, <3>1
    <3>3. /\ Len(q[j].bufs) = e + 1
          /\ q[j] = [bufs |-> Slice(a, e + 1), ctx |-> t]
      <4> DEFINE f == q[j]
      <4>1. /\ f \in Frames /\ FrameIn(f, r, a, u) /\ Whole(r, a, End(f, a))
            /\ CtxAt(End(f, a), f.ctx, r, a, t) /\ a \in Slots /\ u \in Nat /\ End(f, a) = e
        BY <1>1, <1>4, <2>1, <3>1
      <4> HIDE DEF f
      <4>2. Len(f.bufs) = End(f, a) + 1 /\ f.bufs = Slice(a, End(f, a) + 1) /\ f.ctx = t
        BY <4>1, FirstFrame
      <4>3. f = [bufs |-> f.bufs, ctx |-> f.ctx]
        BY <4>1, FrameFacts
      <4> QED
        BY <4>1, <4>2, <4>3 DEF f
    <3> QED
      BY <1>2, <3>3
  <2> QED
    BY <2>1, <2>3, <2>4, <2>5
<1>6. ASSUME n > MaxSegs, NEW j \in 1 .. Len(q) PROVE End(q[j], a) >= n
  <2>1. Len(q[j].bufs) <= MaxSegs /\ Len(q[j].bufs) \in Nat
    BY <1>5, FrameFacts
  <2>2. Len(q[j].bufs) # n
    BY <1>1, <1>6, <2>1, SegsFacts
  <2>3. End(q[j], a) \in Nat /\ End(q[j], a) >= e /\ End(q[j], a) # e
    BY <1>5, <2>2
  <2> QED
    BY <1>2, <2>3
<1>7. ASSUME n <= MaxSegs
      PROVE  /\ q # <<>> /\ Head(q) = [bufs |-> Slice(a, n), ctx |-> t]
             /\ End(q[1], a) < n /\ \A j \in 2 .. Len(q) : End(q[j], a) >= n
  <2>1. ~ TooLong(e, r, a)
    BY <1>1, <1>2, <1>7, SegsFacts DEF TooLong
  <2>2. PICK j \in 1 .. Len(q) : End(q[j], a) = e
    BY <1>2, <1>3, <2>1 DEF Log, Complete
  <2>3. Len(q) \in Nat /\ 1 \in 1 .. Len(q)
    OBVIOUS
  <2>4. j = 1
    <3>1. 1 < j => End(q[1], a) < End(q[j], a)
      BY <2>3 DEF Log, Ordered
    <3>2. End(q[1], a) >= e /\ End(q[1], a) \in Nat
      BY <1>5, <2>3
    <3>3. ~ (1 < j)
      BY <1>2, <2>2, <3>1, <3>2
    <3> QED
      BY <3>3
  <2>5. ASSUME NEW k \in 2 .. Len(q) PROVE End(q[k], a) >= n
    <3>1. k \in 1 .. Len(q) /\ 1 < k
      BY <2>3
    <3>2. e < End(q[k], a)
      BY <2>2, <2>3, <2>4, <3>1 DEF Log, Ordered
    <3>3. End(q[k], a) \in Nat
      BY <1>5, <3>1
    <3> QED
      BY <1>2, <3>2, <3>3
  <2>6. q # <<>> /\ Head(q) = q[1]
    BY <2>3
  <2>7. q[1] = [bufs |-> Slice(a, n), ctx |-> t]
    BY <1>5, <2>2, <2>4
  <2>8. End(q[1], a) < n
    BY <1>2, <2>2, <2>4
  <2> QED
    BY <2>5, <2>6, <2>7, <2>8
<1>8. \A z \in 0 .. n - 1 : KindAt(r, a, z) # "ctx"
  BY <1>2, <1>4 DEF Whole
<1> QED
  BY <1>6, <1>7, <1>8

(* The call's effect on the log: a context is saved, a packet of too many   *)
(* segments is passed over, and any other is the first frame owed.          *)
LEMMA TransmitLog ==
  ASSUME TxInv, pc = "run", NEW n \in Nat, n = PacketLen, n # 0, Send(n)
  PROVE  /\ n \in 1 .. Dist(head, TDT) /\ Passed(ring, head, Unsent, n)
         /\ owed' \in Seq(Frames) /\ txctx' \in Contexts /\ out' \in SeqOf(Frames, 1)
         /\ Log(ring, Plus(head, n), Unsent - n, part, owed', txctx', gctx)
         /\ \/ UNCHANGED <<out, owed>>
            \/ owed # <<>> /\ owed' = Tail(owed) /\ out' = <<Head(owed)>>
<1>1. /\ TypeOK /\ ring \in [Slots -> Desc] /\ head \in Slots /\ TDT \in Slots
      /\ part \in Seq(Slots) /\ owed \in Seq(Frames) /\ txctx \in Contexts
      /\ Unsent \in 0 .. TxSize - 1 /\ Unsent \in Nat /\ Ahead = head
      /\ out \in SeqOf(Frames, 1)
  BY Types DEF TxInv, TypeOK, Ahead
<1> DEFINE u == Unsent
           m == Dist(head, TDT)
           q == owed
<1>2. /\ m \in Nat /\ n \in 0 .. m
      /\ ring[head].kind = "ctx" => n = 1
      /\ ring[head].kind # "ctx" => /\ KindAt(ring, head, n - 1) = "eop"
                                    /\ \A x \in 0 .. n - 2 : KindAt(ring, head, x) # "eop"
  BY <1>1, PacketLenIs
<1>3. m <= u /\ Log(ring, head, u, part, q, txctx, gctx) /\ u \in Nat
  BY <1>1 DEF TxInv, Region, LogInv
<1>4. Plus(head, 0) = head /\ KindAt(ring, head, 0) = ring[head].kind
  <2>1. Plus(head, 0) = head
    BY <1>1, DistType, Backward
  <2> QED
    BY <2>1 DEF KindAt
<1> HIDE DEF u, m
<1>5. n \in 1 .. m /\ n \in 1 .. u
  BY <1>2, <1>3
<1>6. KindAt(ring, head, n - 1) # "frag"
  <2>1. CASE ring[head].kind = "ctx"
    <3>1. n - 1 = 0
      BY <1>2, <2>1
    <3> QED
      BY <1>4, <2>1, <3>1
  <2> QED
    BY <1>2, <2>1
<1>7. Passed(ring, head, u, n)
  BY <1>1, <1>5, <1>6 DEF Passed, u
<1>8. CASE ring[head].kind = "ctx"
  <2>1. n = 1 /\ UNCHANGED <<out, owed>> /\ txctx' = ring[head].ctx
    BY <1>2, <1>8 DEF Send
  <2>2. txctx' \in Contexts
    BY <1>1, <2>1 DEF Desc
  <2>3. ASSUME NEW j \in 1 .. Len(q) PROVE q[j] = q[j + 0] /\ End(q[j], head) >= n
    <3>1. q[j] \in Frames /\ FrameIn(q[j], ring, head, u)
      BY <1>1, <1>3 DEF Log, FramesIn
    <3>2. Len(q[j].bufs) >= 1 /\ KindAt(ring, head, End(q[j], head)) = "eop"
      BY <3>1 DEF FrameIn
    <3>3. End(q[j], head) \in Nat /\ End(q[j], head) # 0
      BY <1>1, <1>4, <1>8, <3>1, <3>2, EndFacts
    <3> QED
      BY <2>1, <3>3
  <2>4. n = 1 /\ KindAt(ring, head, 0) = "ctx" /\ txctx' = ring[Plus(head, 0)].ctx
    BY <1>4, <1>8, <2>1
  <2>5. Len(q) = Len(q) - 0 /\ 0 \in 0 .. 1 /\ 0 # 1
    BY <1>1
  <2> HIDE DEF q
  <2>6. q \in Seq(Frames) /\ part \in Seq(Slots)
    BY <1>1 DEF q
  <2>7. Log(ring, Plus(head, n), u - n, part, q, txctx', gctx)
    BY <1>3, <1>7, <2>3, <2>4, <2>5, <2>6, PassedLog
  <2> QED
    BY <1>1, <1>5, <1>7, <2>1, <2>2, <2>7 DEF q, u, m
<1>9. CASE ring[head].kind # "ctx"
  <2>1. KindsOk(ring, head, u)
    <3>1. ASSUME NEW x \in 0 .. u - 1 PROVE KindAt(ring, head, x) \in {"frag", "eop", "ctx"}
      <4>1. Plus(head, x) \in Slots
        BY <1>1, <1>3, SlotIs, PlusType
      <4> QED
        BY <1>1, <4>1 DEF KindAt, Desc
    <3> QED
      BY <3>1 DEF KindsOk
  <2>2. /\ KindAt(ring, head, 0) # "ctx" /\ KindAt(ring, head, n - 1) = "eop"
        /\ \A x \in 0 .. n - 2 : KindAt(ring, head, x) # "eop"
    BY <1>2, <1>4, <1>9
  <2>3. /\ \A z \in 0 .. n - 1 : KindAt(ring, head, z) # "ctx"
        /\ n > MaxSegs => \A j \in 1 .. Len(q) : End(q[j], head) >= n
        /\ n <= MaxSegs =>
             /\ q # <<>> /\ Head(q) = [bufs |-> Slice(head, n), ctx |-> txctx]
             /\ End(q[1], head) < n /\ \A j \in 2 .. Len(q) : End(q[j], head) >= n
    BY <1>1, <1>3, <1>7, <2>1, <2>2, SentIsOwed
  <2>4. txctx' = txctx
    BY <1>9 DEF Send
  <2>5. CASE n > MaxSegs
    <3>1. UNCHANGED <<out, owed>>
      BY <1>9, <2>5 DEF Send
    <3>2. \A j \in 1 .. Len(q) : q[j] = q[j + 0] /\ End(q[j], head) >= n
      BY <2>3, <2>5
    <3>3. Len(q) = Len(q) - 0 /\ 0 \in 0 .. 1 /\ 0 # 1
      BY <1>1
    <3> HIDE DEF q
    <3>4. q \in Seq(Frames) /\ part \in Seq(Slots)
      BY <1>1 DEF q
    <3>5. Log(ring, Plus(head, n), u - n, part, q, txctx, gctx)
      BY <1>3, <1>7, <2>3, <3>2, <3>3, <3>4, PassedLog
    <3> QED
      BY <1>1, <1>5, <1>7, <2>4, <3>1, <3>5 DEF q, u, m
  <2>6. CASE n <= MaxSegs
    <3> DEFINE p == Tail(q)
    <3>1. /\ q # <<>> /\ p \in Seq(Frames) /\ Len(p) = Len(q) - 1 /\ Len(p) \in Nat
          /\ \A j \in 1 .. Len(p) : p[j] = q[j + 1] /\ j + 1 \in 2 .. Len(q)
          /\ Head(q) \in Frames
      <4>1. q # <<>> /\ q \in Seq(Frames)
        BY <1>1, <2>3, <2>6
      <4> HIDE DEF q
      <4>2. Len(q) \in Nat /\ Len(q) >= 1 /\ Tail(q) \in Seq(Frames) /\ Len(Tail(q)) = Len(q) - 1
            /\ Head(q) \in Frames
        BY <4>1
      <4>3. \A j \in 1 .. Len(q) - 1 : Tail(q)[j] = q[j + 1] /\ j + 1 \in 2 .. Len(q)
        BY <4>1, <4>2
      <4> QED
        BY <4>1, <4>2, <4>3
    <3>2. ~ (n > MaxSegs)
      BY <2>6, SegsFacts
    <3>3. out' = <<FrameAt(n)>> /\ owed' = p
      BY <1>9, <3>2 DEF Send
    <3>4. FrameAt(n) = Head(q)
      BY <2>3, <2>6 DEF FrameAt, Slice
    <3>5. out' \in SeqOf(Frames, 1)
      <4>1. <<Head(q)>> \in Seq(Frames) /\ Len(<<Head(q)>>) <= 1
        BY <3>1
      <4>2. <<Head(q)>> \in SeqOf(Frames, 1)
        BY <4>1, SeqOfIs
      <4> QED
        BY <3>3, <3>4, <4>2
    <3> HIDE DEF p, q
    <3>6. \A j \in 1 .. Len(p) : p[j] = q[j + 1] /\ End(p[j], head) >= n
      BY <2>3, <2>6, <3>1
    <3>7. q \in Seq(Frames) /\ part \in Seq(Slots) /\ 1 \in 0 .. 1 /\ End(q[1], head) < n
      BY <1>1, <2>3, <2>6 DEF q
    <3>8. Log(ring, Plus(head, n), u - n, part, p, txctx, gctx)
      BY <1>3, <1>7, <2>3, <3>1, <3>6, <3>7, PassedLog
    <3> QED
      BY <1>1, <1>5, <1>7, <2>4, <3>1, <3>3, <3>4, <3>5, <3>8 DEF p, q, u, m
  <2> QED
    BY <2>5, <2>6, SegsFacts
<1> QED
  BY <1>8, <1>9

(* If the oldest packet becomes done, it was marked just now.               *)
LEMMA SameFirst ==
  ASSUME NEW r, NEW s, NEW b, NEW n \in Nat, FirstDone(s, b, n), ~ FirstDone(r, b, n),
         \A x \in 0 .. n - 1 : KindAt(s, b, x) = KindAt(r, b, x)
  PROVE  \E x \in 0 .. n - 1 : s[Plus(b, x)].dd /\ ~ r[Plus(b, x)].dd
<1>1. PICK e \in 0 .. n - 1 : /\ KindAt(s, b, e) = "eop" /\ s[Plus(b, e)].dd
                             /\ \A x \in 0 .. e - 1 : KindAt(s, b, x) # "eop"
  BY DEF FirstDone
<1>2. \A x \in 0 .. e - 1 : x \in 0 .. n - 1
  OBVIOUS
<1>3. KindAt(r, b, e) = "eop" /\ \A x \in 0 .. e - 1 : KindAt(r, b, x) # "eop"
  BY <1>1, <1>2
<1>4. ~ r[Plus(b, e)].dd
  BY <1>3 DEF FirstDone
<1> QED
  BY <1>1, <1>4

(* After the call the log starts behind what was consumed.                  *)
LEMMA TransmitInv == ASSUME TxInv, Transmit PROVE TxInv'
<1>1. /\ TypeOK /\ ring \in [Slots -> Desc] /\ head \in Slots /\ TDT \in Slots
      /\ gtail \in Slots /\ clean \in Slots
      /\ part \in Seq(Slots) /\ owed \in Seq(Frames)
      /\ Unsent \in 0 .. TxSize - 1 /\ Unsent \in Nat /\ Dist(clean, gtail) \in Nat
  BY Types DEF TxInv
<1>2. /\ pc = "run" /\ UNCHANGED <<tx_enabled, tx_active, TDH, TDHr, TDT, icr, gtail, clean,
                                   cleaning, part, gctx>>
      /\ Ahead = head /\ ReadHead = rhead
  BY DEF Transmit, Ahead, ReadHead
<1> DEFINE n == PacketLen
           m == Dist(head, TDT)
           u == Unsent
           c == Dist(clean, gtail)
<1>3. m \in Nat /\ n \in 0 .. m /\ n \in Nat
      /\ (n = 0 => \A x \in 0 .. m - 1 : KindAt(ring, head, x) # "eop")
  <2>1. m \in Nat /\ n \in 0 .. m /\ (n = 0 => \A x \in 0 .. m - 1 : KindAt(ring, head, x) # "eop")
    BY <1>1, PacketLenIs
  <2> QED
    BY <2>1
<1>4. /\ u = Dist(head, gtail) /\ m <= u /\ u <= c /\ c <= MaxInUse
      /\ Log(ring, head, u, part, owed, txctx, gctx) /\ u \in Nat /\ u \in 0 .. TxSize - 1
  BY <1>1, <1>2 DEF TxInv, Region, LogInv, Unsent
<1>5. CASE n = 0
  <2>1. rhead' = TDT /\ pc' = "end" /\ UNCHANGED <<ring, txctx, out, owed, head, lim, tdwb>>
    BY <1>5 DEF Transmit
  <2>2. TypeOK'
    BY <1>1, <1>2, <2>1 DEF TypeOK
  <2>3. Ahead' = head /\ ReadHead' = TDT /\ Unsent' = u
    BY <1>2, <2>1 DEF Ahead, ReadHead, Unsent
  <2>4. Region'
    BY <1>2, <1>4, <2>1, <2>3 DEF Region
  <2>5. LogInv'
    BY <1>2, <1>4, <2>1, <2>3 DEF LogInv
  <2>6. Parked'
    <3>1. m <= m
      BY <1>3
    <3> QED
      BY <1>2, <1>3, <1>5, <2>1, <2>3, <3>1 DEF Parked
  <2>7. Told'
    <3>1. OldestDone' <=> OldestDone
      BY <1>2, <2>1, SameOldest
    <3> QED
      BY <1>2, <2>1, <3>1 DEF TxInv, Told
  <2> QED
    BY <2>2, <2>4, <2>5, <2>6, <2>7 DEF TxInv
<1>6. CASE n # 0
  <2>1. /\ Send(n) /\ TransmitDone(n) /\ Advance(n) /\ lim' = lim - n
        /\ pc' = IF lim - n > 0 THEN "run" ELSE "end"
    BY <1>6 DEF Transmit
  <2> HIDE DEF n
  <2>2. /\ n \in 1 .. m /\ Passed(ring, head, u, n)
        /\ owed' \in Seq(Frames) /\ txctx' \in Contexts /\ out' \in SeqOf(Frames, 1)
        /\ Log(ring, Plus(head, n), u - n, part, owed', txctx', gctx)
    BY <1>2, <1>3, <1>6, <2>1, TransmitLog DEF n
  <2> DEFINE b == Plus(head, n)
  <2>3. head' = b /\ rhead' = b /\ pc' \in {"run", "end"} /\ b \in Slots
    BY <1>1, <1>3, <2>1, SlotIs, PlusType DEF Advance
  <2>4. Ahead' = b /\ ReadHead' = b /\ Dist(b, b) = 0
    BY <2>3, DistType DEF Ahead, ReadHead
  <2>5. Dist(b, TDT) = m - n /\ Dist(b, gtail) = u - n /\ n <= m /\ n >= 1
    <3>1. n \in 0 .. m /\ n \in 0 .. u /\ n <= m /\ n >= 1
      BY <1>3, <1>4, <2>2
    <3>2. Dist(b, TDT) = m - n
      BY <1>1, <3>1, Moved
    <3>3. Dist(b, gtail) = u - n
      BY <1>1, <1>4, <3>1, Moved
    <3> QED
      BY <3>1, <3>2, <3>3
  <2>6. Unsent' = u - n
    BY <1>2, <2>4, <2>5 DEF Unsent
  <2>7. /\ ring' \in [Slots -> Desc]
        /\ \A i \in Slots : /\ ring'[i].kind = ring[i].kind
                            /\ Dist(head, i) >= n => ring'[i] = ring[i]
                            /\ ring'[i].dd => ring[i].dd \/ tdwb'
        /\ (tdwb => tdwb') /\ tdwb' \in BOOLEAN
    BY <1>1, <1>3, <2>1, <2>5, DoneFacts
  <2> HIDE DEF m, u, c, b
  <2>8. TypeOK'
    <3>1. lim' \in Int
      BY <1>1, <1>3, <2>1 DEF TypeOK
    <3> QED
      BY <1>1, <1>2, <2>2, <2>3, <2>7, <3>1 DEF TypeOK
  <2>9. Region'
    <3>1. m - n <= u - n /\ u - n <= c /\ c <= MaxInUse
      BY <1>1, <1>3, <1>4, <2>5 DEF c
    <3>2. Dist(Ahead, TDT)' = m - n /\ Dist(clean, gtail)' = c
      BY <1>2, <2>4, <2>5 DEF c
    <3> QED
      BY <2>6, <3>1, <3>2 DEF Region
  <2>10. LogInv'
    <3>1. \A x \in 0 .. (u - n) - 1 : ring'[Plus(b, x)] = ring[Plus(b, x)]
      <4> SUFFICES ASSUME NEW x \in 0 .. (u - n) - 1 PROVE ring'[Plus(b, x)] = ring[Plus(b, x)]
        OBVIOUS
      <4>1. x \in 0 .. u - n /\ n + x \in 0 .. TxSize - 1 /\ n + x >= n
        BY <1>3, <1>4, <2>5, SizeFacts
      <4>2. Plus(b, x) = Plus(head, n + x)
        BY <2>2, <4>1, PassedFacts DEF b
      <4>3. Plus(head, n + x) \in Slots /\ Dist(head, Plus(head, n + x)) = n + x
        BY <1>1, <4>1, Forward
      <4> QED
        BY <2>7, <4>1, <4>2, <4>3
    <3>2. u - n \in 0 .. TxSize - 1
      BY <1>3, <1>4, <2>5, SizeFacts
    <3>3. Log(ring, b, u - n, part, owed', txctx', gctx)
      BY <2>2 DEF b
    <3>4. Log(ring', b, u - n, part, owed', txctx', gctx)
      BY <1>1, <2>2, <2>3, <3>1, <3>2, <3>3, SameLog
    <3> QED
      BY <1>2, <2>4, <2>6, <3>4 DEF LogInv
  <2>11. Parked'
    <3>1. Dist(Ahead, ReadHead)' = 0 /\ Dist(Ahead, TDT)' = m - n /\ 0 <= m - n
      BY <1>2, <1>3, <2>4, <2>5
    <3> QED
      BY <3>1 DEF Parked
  <2>12. Told'
    <3>1. OldestDone <=> FirstDone(ring, clean, c)
      BY <1>1, OldestIs DEF OldestDone, OldestEop, c
    <3>2. OldestDone' <=> FirstDone(ring', clean, c)
      <4>1. OldestDone' <=> FirstDone(ring', clean', Dist(clean', gtail'))
        <5>1. clean' \in Slots /\ Dist(clean', gtail') \in Nat
          BY <1>1, <1>2
        <5> QED
          BY <5>1, OldestIs DEF OldestDone, OldestEop
      <4> QED
        BY <1>2, <4>1 DEF c
    <3>3. FirstDone(ring', clean, c) => FirstDone(ring, clean, c) \/ tdwb'
      <4>1. \A x \in 0 .. c - 1 : Plus(clean, x) \in Slots
        BY <1>1, SlotIs, PlusType DEF c
      <4>2. \A x \in 0 .. c - 1 : /\ KindAt(ring', clean, x) = KindAt(ring, clean, x)
                                  /\ ring'[Plus(clean, x)].dd =>
                                       ring[Plus(clean, x)].dd \/ tdwb'
        BY <2>7, <4>1 DEF KindAt
      <4> HIDE DEF c
      <4> QED
        BY <1>1, <4>2, SameFirst DEF c
    <3> QED
      BY <1>2, <2>3, <2>7, <3>1, <3>2, <3>3 DEF TxInv, Told
  <2> QED
    BY <2>8, <2>9, <2>10, <2>11, <2>12 DEF TxInv
<1> QED
  BY <1>5, <1>6

LEMMA NextTxInv == TxInv /\ [Next]_vars => TxInv'
<1> SUFFICES ASSUME TxInv, [Next]_vars PROVE TxInv'
  OBVIOUS
<1>1. CASE TxPoll
  BY <1>1, TxPollInv
<1>2. CASE Transmit
  BY <1>2, TransmitInv
<1>3. CASE TxRunEnd
  BY <1>3, TxRunEndInv
<1>4. CASE TxEnable \/ TxCtlOff \/ Spin \/ WriteTDT \/ ReadICR \/ UNCHANGED vars
  BY <1>4, AccessInv
<1>5. CASE CtrlReset
  BY <1>5, CtrlResetInv
<1>6. CASE \E kind \in Kinds : Fill(kind)
  BY <1>6, FillInv
<1>7. CASE Reclaim
  BY <1>7, ReclaimInv
<1> QED
  BY <1>1, <1>2, <1>3, <1>4, <1>5, <1>6, <1>7 DEF Next

(* The inductive invariant holds: what the driver has written and the       *)
(* device has not sent is, descriptor by descriptor, what is owed.          *)
THEOREM TxInvHolds == Spec => []TxInv
  BY InitTxInv, NextTxInv, PTL DEF Spec

-----------------------------------------------------------------------------
(* What follows from it.                                                    *)

(* At rest no EOP is left before the tail, so no frame is.                  *)
LEMMA RestIsSent == TxInv => RestMeansSent
<1> SUFFICES ASSUME TxInv, pc = "idle", TDHr = TDT, TDT = gtail PROVE owed = <<>>
  BY DEF RestMeansSent
<1>1. owed \in Seq(Frames) /\ Ahead \in Slots /\ Unsent \in Nat
  BY Types DEF TxInv
<1>2. ReadHead = gtail /\ Dist(Ahead, ReadHead) = Unsent
  BY DEF ReadHead, Unsent
<1>3. \A x \in 0 .. Unsent - 1 : KindAt(ring, Ahead, x) # "eop"
  BY <1>2 DEF TxInv, Parked
<1>4. ASSUME NEW j \in 1 .. Len(owed) PROVE FALSE
  <2>1. /\ owed[j] \in Frames /\ Len(owed[j].bufs) >= 1 /\ End(owed[j], Ahead) < Unsent
        /\ KindAt(ring, Ahead, End(owed[j], Ahead)) = "eop"
    BY <1>1 DEF TxInv, LogInv, Log, FramesIn, FrameIn
  <2>2. End(owed[j], Ahead) \in Nat
    BY <1>1, <2>1, EndFacts
  <2>3. End(owed[j], Ahead) \in 0 .. Unsent - 1
    BY <1>1, <2>1, <2>2
  <2> QED
    BY <1>3, <2>1, <2>3
<1>5. Len(owed) = 0
  <2>1. Len(owed) \in Nat /\ 1 \notin 1 .. Len(owed)
    BY <1>1, <1>4
  <2> QED
    BY <2>1
<1> QED
  BY <1>1, <1>5

(* The buffers of a frame that is owed are unmarked, being ahead.           *)
LEMMA DoneIsSent == TxInv => DoneWasSent
<1> SUFFICES ASSUME TxInv, NEW f \in Range(owed), NEW i \in Range(f.bufs) PROVE ~ ring[i].dd
  BY DEF DoneWasSent
<1>1. owed \in Seq(Frames) /\ Ahead \in Slots /\ Unsent \in Nat
  BY Types DEF TxInv
<1>2. PICK j \in 1 .. Len(owed) : f = owed[j]
  BY <1>1 DEF Range
<1>3. f \in Frames /\ FrameIn(f, ring, Ahead, Unsent)
  BY <1>1, <1>2 DEF TxInv, LogInv, Log, FramesIn
<1> DEFINE m == Len(f.bufs)
           e == End(f, Ahead)
<1>4. m \in Nat /\ f.bufs \in Seq(Slots)
  BY <1>3, FrameFacts
<1>5. /\ m >= 1 /\ m - 1 <= e /\ e < Unsent
      /\ \A k \in 1 .. m : f.bufs[k] = Plus(Ahead, e - m + k)
  BY <1>3 DEF FrameIn
<1>6. e \in Nat
  BY <1>1, <1>3, <1>5, EndFacts
<1>7. PICK k \in 1 .. m : i = f.bufs[k]
  BY <1>4 DEF Range
<1> HIDE DEF m, e
<1>8. e - m + k \in 0 .. Unsent - 1
  BY <1>1, <1>4, <1>5, <1>6
<1>9. i = Plus(Ahead, e - m + k)
  BY <1>5, <1>7
<1> QED
  BY <1>8, <1>9 DEF TxInv, LogInv, Log, NotDone

(* The indices stay in the ring; when the poll rests with TDHr at the tail  *)
(* no frame the guest has handed over is left in the ring; and DD is set by *)
(* e82545_transmit_done only on what has been sent.                         *)
THEOREM Inductive == Spec => []IInv
<1>1. TxInv => IInv
  BY RestIsSent, DoneIsSent DEF IInv, TxInv
<1> QED
  BY <1>1, TxInvHolds, PTL

(* A packet marked done is told: tdwb is still carried by the run, TXDW is  *)
(* asserted and unread, or the driver's handler is reclaiming.              *)
THEOREM EveryCompletionIsTold == Spec => []CompletionIsTold
<1>1. TxInv => CompletionIsTold
  BY DEF TxInv, Told, CompletionIsTold, OldestDone
<1> QED
  BY <1>1, TxInvHolds, PTL

-----------------------------------------------------------------------------
(* The refinement.                                                          *)

(* A call sends the head of the queue or nothing; an EOP hands over; the    *)
(* end of a run forgets what was sent last.                                 *)
LEMMA NextIsAbs == TxInv /\ [Next]_vars => [Abs!Next]_(Abs!vars)
<1> SUFFICES ASSUME TxInv, [Next]_vars PROVE [Abs!Next]_(Abs!vars)
  OBVIOUS
<1>1. CASE UNCHANGED <<owed, out>>
  BY <1>1 DEF Abs!vars
<1>2. CASE Transmit
  <2>1. pc = "run"
    BY <1>2 DEF Transmit
  <2>2. CASE PacketLen = 0
    BY <1>1, <1>2, <2>2 DEF Transmit
  <2>3. CASE PacketLen # 0
    <3> DEFINE n == PacketLen
    <3>1. Send(n) /\ n \in Nat
      <4>1. Dist(head, TDT) \in Nat /\ n \in 0 .. Dist(head, TDT)
        BY PacketLenIs DEF TxInv
      <4> QED
        BY <1>2, <2>3, <4>1 DEF Transmit
    <3>2. UNCHANGED <<out, owed>>
            \/ (owed # <<>> /\ owed' = Tail(owed) /\ out' = <<Head(owed)>>)
      BY <2>1, <2>3, <3>1, TransmitLog
    <3> QED
      BY <1>1, <3>2 DEF Abs!Next, Abs!Send
  <2> QED
    BY <2>2, <2>3
<1>3. CASE \E kind \in Kinds : Fill(kind)
  <2>1. PICK kind \in Kinds : Fill(kind)
    BY <1>3
  <2> DEFINE f == [bufs |-> Append(part, gtail), ctx |-> gctx]
  <2>2. out' = out /\ owed' = IF kind = "eop" /\ Len(part) < MaxSegs THEN Append(owed, f) ELSE owed
    BY <2>1 DEF Fill
  <2>3. Len(part) < MaxSegs => f \in Frames
    <3>1. gtail \in Slots /\ gctx \in Contexts /\ part \in Seq(Slots) /\ Len(part) \in Nat
      BY Types DEF TxInv
    <3> DEFINE v == Append(part, gtail)
    <3>2. v \in Seq(Slots) /\ Len(v) = Len(part) + 1
      BY <3>1, AppendProperties
    <3> HIDE DEF v
    <3>3. Len(part) < MaxSegs => Len(v) <= MaxSegs
      BY <3>1, <3>2, SegsFacts
    <3>4. Len(part) < MaxSegs => v \in SeqOf(Slots, MaxSegs)
      BY <3>2, <3>3, SegsFacts, SeqOfIs
    <3> QED
      BY <3>1, <3>4 DEF Frames, v
  <2> HIDE DEF f
  <2>4. CASE kind = "eop" /\ Len(part) < MaxSegs
    BY <2>2, <2>3, <2>4 DEF Abs!Next, Abs!HandOver
  <2>5. CASE ~ (kind = "eop" /\ Len(part) < MaxSegs)
    BY <1>1, <2>2, <2>5
  <2> QED
    BY <2>4, <2>5
<1>4. CASE CtrlReset
  <2>1. CASE tx_active
    BY <1>1, <1>4, <2>1 DEF CtrlReset, guestVars
  <2>2. CASE ~ tx_active
    BY <1>4, <2>2 DEF CtrlReset, Abs!Next, Abs!Drop
  <2> QED
    BY <2>1, <2>2
<1>5. CASE TxRunEnd
  BY <1>5 DEF TxRunEnd, guestVars, Abs!Next, Abs!Forget
<1>6. CASE TxPoll \/ TxEnable \/ TxCtlOff \/ Spin \/ WriteTDT \/ ReadICR \/ Reclaim
           \/ UNCHANGED vars
  <2>1. UNCHANGED <<owed, out>>
    BY <1>6 DEF TxPoll, TxEnable, TxCtlOff, Spin, WriteTDT, ReadICR, Reclaim, vars,
                guestVars
  <2> QED
    BY <1>1, <2>1
<1> QED
  BY <1>2, <1>3, <1>4, <1>5, <1>6 DEF Next

(* The backend gets the frames the driver has written, whole, in order,     *)
(* each once and under the context that stood before it in the ring: every  *)
(* step of the transmitter is a step of the queue the driver was promised.  *)
THEOREM FramesLeaveInOrder == Spec => InOrderOnce
<1>1. Init => Abs!Init
  BY DEF Init, Abs!Init
<1> QED
  BY <1>1, TxInvHolds, NextIsAbs, PTL DEF Spec, InOrderOnce, Abs!Spec
===============================================================================
