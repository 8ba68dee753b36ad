---------------------------- MODULE AhciPortProofs ----------------------------
(***************************************************************************)
(* Proofs about AhciPort for every number of slots, every length of the     *)
(* free list that is not shorter, and every set of commands; then about     *)
(* AhciPrdt, the data of a command, for every length of the iovec, every    *)
(* size of a sector, and every table and length of a command.               *)
(***************************************************************************)
EXTENDS AhciPort, AhciPrdt, SequenceTheorems, FiniteSetTheorems, WellFoundedInduction, TLAPS

Request == [slot : Slot, part : Nat]

(* A list of slots in flight (iobhd) and a queue of their requests: each    *)
(* slot once.                                                               *)
Listed(S, io) ==
    /\ io \in Seq(Slot) /\ S = ToSet(io)
    /\ \A i, j \in DOMAIN io : io[i] = io[j] => i = j

Queued(S, q) ==
    /\ q \in Seq(Request) /\ S = {r.slot : r \in ToSet(q)}
    /\ \A i, j \in DOMAIN q : q[i].slot = q[j].slot => i = j

-----------------------------------------------------------------------------
(* Lemmas about the lists.                                                  *)

LEMMA ListAdd ==
  ASSUME NEW S, NEW io, Listed(S, io), NEW s \in Slot, s \notin S
  PROVE  Listed(S \cup {s}, <<s>> \o io) /\ Len(<<s>> \o io) = Len(io) + 1
<1> DEFINE z == <<s>> \o io
<1>1. io \in Seq(Slot) /\ Len(io) \in Nat /\ DOMAIN io = 1 .. Len(io) /\ <<s>> \in Seq(Slot)
  BY DEF Listed
<1>2. z \in Seq(Slot) /\ Len(z) = Len(io) + 1 /\ DOMAIN z = 1 .. Len(io) + 1
  BY <1>1
<1>3. z[1] = s /\ \A i \in 1 .. Len(io) : z[i + 1] = io[i]
  BY <1>1
<1> HIDE DEF z
<1>4. \A k \in 1 .. Len(io) + 1 : k = 1 \/ \E i \in 1 .. Len(io) : k = i + 1
  <2> SUFFICES ASSUME NEW k \in 1 .. Len(io) + 1, k # 1
               PROVE  k - 1 \in 1 .. Len(io) /\ k = k - 1 + 1
    OBVIOUS
  <2> QED
    BY <1>1
<1>5. \A i \in 1 .. Len(io) : io[i] \in S /\ io[i] # s
  BY <1>1 DEF Listed, ToSet
<1>6. ToSet(z) = S \cup {s}
  <2>1. ToSet(z) \subseteq S \cup {s}
    <3>1. ASSUME NEW k \in 1 .. Len(io) + 1 PROVE z[k] \in S \cup {s}
      BY <1>3, <1>4, <1>5
    <3> QED
      BY <1>2, <3>1 DEF ToSet
  <2>2. S \cup {s} \subseteq ToSet(z)
    <3>1. s \in ToSet(z)
      BY <1>1, <1>2, <1>3 DEF ToSet
    <3>2. ASSUME NEW i \in 1 .. Len(io) PROVE io[i] \in ToSet(z)
      <4>1. i + 1 \in DOMAIN z
        BY <1>1, <1>2
      <4> QED
        BY <1>3, <4>1 DEF ToSet
    <3> QED
      BY <1>1, <3>1, <3>2 DEF Listed, ToSet
  <2> QED
    BY <2>1, <2>2
<1>7. ASSUME NEW i \in DOMAIN z, NEW j \in DOMAIN z, z[i] = z[j] PROVE i = j
  <2>1. CASE i = 1 /\ j = 1
    BY <2>1
  <2>2. CASE i = 1 /\ j # 1
    BY <1>2, <1>3, <1>4, <1>5, <1>7, <2>2
  <2>3. CASE i # 1 /\ j = 1
    BY <1>2, <1>3, <1>4, <1>5, <1>7, <2>3
  <2>4. CASE i # 1 /\ j # 1
    <3>1. PICK a \in 1 .. Len(io) : i = a + 1
      BY <1>2, <1>4, <2>4
    <3>2. PICK b \in 1 .. Len(io) : j = b + 1
      BY <1>2, <1>4, <2>4
    <3>3. io[a] = io[b]
      BY <1>3, <1>7, <3>1, <3>2
    <3>4. a = b
      BY <1>1, <3>3 DEF Listed
    <3> QED
      BY <3>1, <3>2, <3>4
  <2> QED
    BY <2>1, <2>2, <2>3, <2>4
<1> QED
  BY <1>2, <1>6, <1>7 DEF Listed, z

LEMMA RemoveAtProps ==
  ASSUME NEW S, NEW io \in Seq(S), NEW n \in 1 .. Len(io)
  PROVE  LET z == RemoveAt(io, n) IN
         /\ z \in Seq(S) /\ Len(z) = Len(io) - 1
         /\ \A j \in 1 .. n - 1 : z[j] = io[j]
         /\ \A j \in n .. Len(io) - 1 : z[j] = io[j + 1]
<1> DEFINE a == SubSeq(io, 1, n - 1)
           b == SubSeq(io, n + 1, Len(io))
<1>1. a \in Seq(S) /\ Len(a) = n - 1 /\ \A j \in 1 .. n - 1 : a[j] = io[j]
  OBVIOUS
<1>2. b \in Seq(S) /\ Len(b) = Len(io) - n /\ \A j \in 1 .. Len(io) - n : b[j] = io[n + j]
  OBVIOUS
<1>3. RemoveAt(io, n) = a \o b /\ Len(io) \in Nat
  BY DEF RemoveAt
<1> HIDE DEF a, b
<1>4. /\ a \o b \in Seq(S) /\ Len(a \o b) = Len(a) + Len(b)
      /\ \A j \in 1 .. Len(a) + Len(b) :
           (a \o b)[j] = IF j <= Len(a) THEN a[j] ELSE b[j - Len(a)]
  BY <1>1, <1>2, ConcatProperties
<1>5. \A j \in 1 .. n - 1 : (a \o b)[j] = io[j]
  BY <1>1, <1>2, <1>3, <1>4
<1>6. ASSUME NEW j \in n .. Len(io) - 1 PROVE (a \o b)[j] = io[j + 1]
  <2>1. /\ j \in 1 .. Len(a) + Len(b) /\ ~ (j <= Len(a))
        /\ j - Len(a) \in 1 .. Len(io) - n /\ n + (j - Len(a)) = j + 1
    BY <1>1, <1>2, <1>3
  <2> QED
    BY <1>2, <1>4, <2>1
<1>7. Len(a \o b) = Len(io) - 1
  BY <1>1, <1>2, <1>3, <1>4
<1> QED
  BY <1>3, <1>4, <1>5, <1>6, <1>7

LEMMA ListRemove ==
  ASSUME NEW S, NEW io, Listed(S, io), NEW s \in S
  PROVE  LET z == RemoveAt(io, CHOOSE i \in DOMAIN io : io[i] = s) IN
         Listed(S \ {s}, z) /\ Len(z) = Len(io) - 1
<1>1. io \in Seq(Slot) /\ Len(io) \in Nat /\ DOMAIN io = 1 .. Len(io)
  BY DEF Listed
<1> DEFINE n == CHOOSE i \in DOMAIN io : io[i] = s
<1>2. n \in 1 .. Len(io) /\ io[n] = s
  <2>1. \E i \in DOMAIN io : io[i] = s
    BY DEF Listed, ToSet
  <2> QED
    BY <1>1, <2>1
<1> HIDE DEF n
<1> DEFINE z == RemoveAt(io, n)
<1>3. /\ z \in Seq(Slot) /\ Len(z) = Len(io) - 1
      /\ \A j \in 1 .. n - 1 : z[j] = io[j]
      /\ \A j \in n .. Len(io) - 1 : z[j] = io[j + 1]
  BY <1>1, <1>2, RemoveAtProps
<1> HIDE DEF z
<1>4. DOMAIN z = 1 .. Len(io) - 1
  BY <1>1, <1>3
<1> DEFINE old(j) == IF j < n THEN j ELSE j + 1
<1>5. ASSUME NEW j \in 1 .. Len(io) - 1
      PROVE  old(j) \in 1 .. Len(io) /\ old(j) # n /\ z[j] = io[old(j)]
  <2>1. CASE j < n
    BY <1>1, <1>2, <1>3, <2>1
  <2>2. CASE ~ (j < n)
    BY <1>1, <1>2, <1>3, <2>2
  <2> QED
    BY <2>1, <2>2
<1>6. ASSUME NEW i \in 1 .. Len(io), i # n
      PROVE  \E j \in 1 .. Len(io) - 1 : z[j] = io[i]
  <2>1. CASE i < n
    <3>1. i \in 1 .. Len(io) - 1 /\ i \in 1 .. n - 1
      BY <1>1, <1>2, <2>1
    <3> QED
      BY <1>3, <3>1
  <2>2. CASE ~ (i < n)
    <3>1. i - 1 \in 1 .. Len(io) - 1 /\ i - 1 \in n .. Len(io) - 1 /\ i - 1 + 1 = i
      BY <1>1, <1>2, <1>6, <2>2
    <3>2. z[i - 1] = io[i - 1 + 1]
      BY <1>3, <3>1
    <3> QED
      BY <3>1, <3>2
  <2> QED
    BY <2>1, <2>2
<1>7. \A i \in 1 .. Len(io) : io[i] = s => i = n
  BY <1>1, <1>2 DEF Listed
<1>8. ToSet(z) = S \ {s}
  <2>1. ToSet(z) \subseteq S \ {s}
    BY <1>1, <1>4, <1>5, <1>7 DEF ToSet, Listed
  <2>2. S \ {s} \subseteq ToSet(z)
    <3> SUFFICES ASSUME NEW t \in S, t # s PROVE t \in ToSet(z)
      OBVIOUS
    <3>1. PICK i \in 1 .. Len(io) : io[i] = t
      BY <1>1 DEF Listed, ToSet
    <3>2. PICK j \in 1 .. Len(io) - 1 : z[j] = io[i]
      BY <1>2, <1>6, <3>1
    <3> QED
      BY <1>4, <3>1, <3>2 DEF ToSet
  <2> QED
    BY <2>1, <2>2
<1>9. ASSUME NEW i \in DOMAIN z, NEW j \in DOMAIN z, z[i] = z[j] PROVE i = j
  <2>1. i \in 1 .. Len(io) - 1 /\ j \in 1 .. Len(io) - 1
    BY <1>4
  <2>2. /\ old(i) \in 1 .. Len(io) /\ old(j) \in 1 .. Len(io)
        /\ io[old(i)] = io[old(j)]
    BY <1>5, <1>9, <2>1
  <2>3. old(i) = old(j)
    BY <1>1, <2>2 DEF Listed
  <2> QED
    BY <1>1, <1>2, <2>1, <2>3
<1>10. Listed(S \ {s}, z) /\ Len(z) = Len(io) - 1
  BY <1>3, <1>8, <1>9 DEF Listed
<1> QED
  BY <1>10 DEF z, n

LEMMA QueueAdd ==
  ASSUME NEW S, NEW q, Queued(S, q), NEW r \in Request, r.slot \notin S
  PROVE  LET z == Append(q, r) IN
         /\ Queued(S \cup {r.slot}, z) /\ Len(z) = Len(q) + 1
         /\ ToSet(z) = ToSet(q) \cup {r}
<1> DEFINE z == Append(q, r)
<1>1. q \in Seq(Request) /\ Len(q) \in Nat /\ DOMAIN q = 1 .. Len(q)
  BY DEF Queued
<1>2. /\ z \in Seq(Request) /\ Len(z) = Len(q) + 1 /\ DOMAIN z = 1 .. Len(q) + 1
      /\ z[Len(q) + 1] = r /\ \A i \in 1 .. Len(q) : z[i] = q[i]
  BY <1>1
<1> HIDE DEF z
<1>3. \A k \in 1 .. Len(q) + 1 : k = Len(q) + 1 \/ k \in 1 .. Len(q)
  BY <1>1
<1>4. Len(q) + 1 \in 1 .. Len(q) + 1 /\ \A i \in 1 .. Len(q) : i \in 1 .. Len(q) + 1
  BY <1>1
<1>5. ToSet(z) = ToSet(q) \cup {r}
  BY <1>1, <1>2, <1>3, <1>4 DEF ToSet
<1>6. S \cup {r.slot} = {t.slot : t \in ToSet(z)}
  BY <1>5 DEF Queued
<1>7. \A i \in 1 .. Len(q) : q[i].slot # r.slot
  BY <1>1 DEF Queued, ToSet
<1>8. ASSUME NEW i \in DOMAIN z, NEW j \in DOMAIN z, z[i].slot = z[j].slot PROVE i = j
  BY <1>1, <1>2, <1>3, <1>7, <1>8 DEF Queued
<1> QED
  BY <1>2, <1>5, <1>6, <1>8 DEF Queued, z

LEMMA QueueRemove ==
  ASSUME NEW S, NEW q, Queued(S, q), q # <<>>
  PROVE  LET s == Head(q).slot IN
         /\ Head(q) \in ToSet(q) /\ Head(q) \in Request /\ s \in S
         /\ Queued(S \ {s}, Tail(q)) /\ Len(Tail(q)) = Len(q) - 1
         /\ ToSet(Tail(q)) \subseteq ToSet(q)
         /\ \A r \in ToSet(Tail(q)) : r.slot # s
<1> DEFINE z == Tail(q)
           h == Head(q)
<1>1. /\ q \in Seq(Request) /\ Len(q) \in Nat \ {0} /\ DOMAIN q = 1 .. Len(q)
  BY DEF Queued
<1>2. /\ z \in Seq(Request) /\ Len(z) = Len(q) - 1 /\ DOMAIN z = 1 .. Len(q) - 1
      /\ \A i \in 1 .. Len(q) - 1 : z[i] = q[i + 1]
      /\ h = q[1] /\ h \in Request
  BY <1>1
<1> HIDE DEF z, h
<1>3. /\ 1 \in DOMAIN q /\ h \in ToSet(q)
      /\ \A i \in 1 .. Len(q) - 1 : i + 1 \in DOMAIN q /\ i + 1 # 1
      /\ \A k \in DOMAIN q : k = 1 \/ (k - 1 \in 1 .. Len(q) - 1 /\ k - 1 + 1 = k)
  BY <1>1, <1>2 DEF ToSet
<1>4. ToSet(z) \subseteq ToSet(q)
  BY <1>2, <1>3 DEF ToSet
<1>5. \A k \in DOMAIN q : k = 1 \/ q[k] \in ToSet(z)
  <2> SUFFICES ASSUME NEW k \in DOMAIN q, k # 1 PROVE q[k] \in ToSet(z)
    OBVIOUS
  <2>1. k - 1 \in DOMAIN z /\ z[k - 1] = q[k]
    BY <1>2, <1>3
  <2> QED
    BY <2>1 DEF ToSet
<1>6. ASSUME NEW r \in ToSet(z) PROVE r.slot # h.slot
  <2>1. PICK i \in 1 .. Len(q) - 1 : r = q[i + 1]
    BY <1>2 DEF ToSet
  <2>2. i + 1 \in DOMAIN q /\ i + 1 # 1
    BY <1>3
  <2> QED
    BY <1>2, <1>3, <2>1, <2>2 DEF Queued
<1>7. \A r \in ToSet(q) : r = h \/ r \in ToSet(z)
  BY <1>2, <1>5 DEF ToSet
<1>8. S \ {h.slot} = {r.slot : r \in ToSet(z)}
  BY <1>4, <1>6, <1>7 DEF Queued
<1>9. ASSUME NEW i \in DOMAIN z, NEW j \in DOMAIN z, z[i].slot = z[j].slot PROVE i = j
  <2>1. q[i + 1].slot = q[j + 1].slot /\ i + 1 \in DOMAIN q /\ j + 1 \in DOMAIN q
    BY <1>2, <1>3, <1>9
  <2>2. i + 1 = j + 1
    BY <2>1 DEF Queued
  <2> QED
    BY <1>1, <1>2, <2>2
<1>10. Queued(S \ {h.slot}, z)
  BY <1>2, <1>8, <1>9 DEF Queued
<1>11. h.slot \in S
  BY <1>3 DEF Queued
<1> QED
  BY <1>2, <1>3, <1>4, <1>6, <1>10, <1>11 DEF z, h

-----------------------------------------------------------------------------
(* What the functions of the engine do to the port.                         *)

LEMMA SubmitFields ==
  ASSUME NEW x \in PortState, NEW s \in Slot, NEW k \in Nat, x.nfree # 0
  PROVE  LET y == Submit(x, s, k) IN
         /\ y \in PortState
         /\ y.nfree = x.nfree - 1 /\ y.pending = x.pending \cup {s}
         /\ y.iobhd = <<s>> \o x.iobhd
         /\ y.q = Append(x.q, [slot |-> s, part |-> k])
         /\ y.ST = x.ST /\ y.busy = x.busy /\ y.waitforclear = x.waitforclear
         /\ y.ci = x.ci /\ y.sact = x.sact /\ y.is = x.is
<1>1. x.nfree - 1 \in 0 .. IoQsz
  BY AhciPortAssumption DEF PortState
<1>2. <<s>> \o x.iobhd \in Seq(Slot)
  BY DEF PortState
<1>3. Append(x.q, [slot |-> s, part |-> k]) \in Seq([slot : Slot, part : Nat])
  BY DEF PortState
<1> QED
  BY <1>1, <1>2, <1>3 DEF Submit, PortState

LEMMA D2hNcqFields ==
  ASSUME NEW x \in PortState, NEW s \in Slot
  PROVE  LET y == D2hNcq(x, s) IN
         /\ y \in PortState
         /\ y.ci = x.ci \ {s} /\ y.busy = FALSE
         /\ y.ST = x.ST /\ y.waitforclear = x.waitforclear /\ y.sact = x.sact
         /\ y.is = x.is /\ y.pending = x.pending /\ y.iobhd = x.iobhd
         /\ y.q = x.q /\ y.nfree = x.nfree
  BY DEF D2hNcq, PortState

LEMMA D2hOk ==
  ASSUME NEW x \in PortState, NEW s \in Slot
  PROVE  LET y == WriteFisD2h(x, s, FALSE) IN
         /\ y \in PortState
         /\ y.ci = x.ci \ {s} /\ y.busy = FALSE
         /\ y.waitforclear = x.waitforclear /\ "DHR" \in y.is
         /\ y.ST = x.ST /\ y.sact = x.sact /\ y.pending = x.pending
         /\ y.iobhd = x.iobhd /\ y.q = x.q /\ y.nfree = x.nfree
  BY DEF WriteFisD2h, WriteFis, PortState, PortIrq

LEMMA D2hError ==
  ASSUME NEW x \in PortState, NEW s \in Slot
  PROVE  LET y == WriteFisD2h(x, s, TRUE) IN
         /\ y \in PortState
         /\ y.ci = x.ci /\ y.busy = FALSE
         /\ y.waitforclear = TRUE /\ "DHR" \in y.is
         /\ y.ST = x.ST /\ y.sact = x.sact /\ y.pending = x.pending
         /\ y.iobhd = x.iobhd /\ y.q = x.q /\ y.nfree = x.nfree
  BY DEF WriteFisD2h, WriteFis, PortState, PortIrq

LEMMA SdbOk ==
  ASSUME NEW x \in PortState, NEW s \in Slot
  PROVE  LET y == WriteFisSdb(x, s, FALSE) IN
         /\ y \in PortState
         /\ y.sact = x.sact \ {s}
         /\ y.waitforclear = x.waitforclear /\ "SDB" \in y.is
         /\ y.ST = x.ST /\ y.busy = x.busy /\ y.ci = x.ci /\ y.pending = x.pending
         /\ y.iobhd = x.iobhd /\ y.q = x.q /\ y.nfree = x.nfree
  BY DEF WriteFisSdb, WriteFis, PortState, PortIrq

LEMMA SdbError ==
  ASSUME NEW x \in PortState, NEW s \in Slot
  PROVE  LET y == WriteFisSdb(x, s, TRUE) IN
         /\ y \in PortState
         /\ y.sact = x.sact
         /\ y.waitforclear = TRUE /\ "SDB" \in y.is
         /\ y.ST = x.ST /\ y.busy = x.busy /\ y.ci = x.ci /\ y.pending = x.pending
         /\ y.iobhd = x.iobhd /\ y.q = x.q /\ y.nfree = x.nfree
  BY DEF WriteFisSdb, WriteFis, PortState, PortIrq

LEMMA PortResetFields ==
  ASSUME NEW x \in PortState
  PROVE  LET y == PortReset(x) IN
         /\ y \in PortState
         /\ y.sact = {} /\ y.busy = FALSE
         /\ y.ST = x.ST /\ y.waitforclear = x.waitforclear /\ y.ci = x.ci
         /\ y.is = x.is /\ y.pending = x.pending /\ y.iobhd = x.iobhd
         /\ y.q = x.q /\ y.nfree = x.nfree
  BY DEF PortReset, PortState

(* The slot is no longer in flight, and the port is not stopped.            *)
LEMMA EndedFields ==
  ASSUME NEW x \in PortState, NEW s \in Slot, x.ST
  PROVE  LET y == CheckStopped([x EXCEPT !.pending = @ \ {s}]) IN
         /\ y \in PortState
         /\ y.pending = x.pending \ {s}
         /\ y.ST = x.ST /\ y.waitforclear = x.waitforclear /\ y.ci = x.ci
         /\ y.sact = x.sact /\ y.busy = x.busy
         /\ y.is = x.is /\ y.iobhd = x.iobhd /\ y.q = x.q /\ y.nfree = x.nfree
<1> DEFINE z == [x EXCEPT !.pending = @ \ {s}]
<1>1. z.ST /\ z \in PortState
  BY DEF PortState
<1>2. CheckStopped(z) = z
  BY <1>1 DEF CheckStopped
<1> QED
  BY <1>1, <1>2 DEF PortState

-----------------------------------------------------------------------------
(* What becomes of the command in slot s when x turns into y: it goes to    *)
(* the block interface, ...                                                 *)
Taken(x, y, s) ==
    /\ y.pending = x.pending \cup {s} /\ y.iobhd = <<s>> \o x.iobhd
    /\ y.q = Append(x.q, [slot |-> s, part |-> 1]) /\ y.nfree = x.nfree - 1
    /\ y.ST = x.ST /\ y.waitforclear = x.waitforclear
    /\ y.sact = x.sact /\ y.is = x.is
    /\ table[s].ncq => y.ci = x.ci \ {s} /\ ~ y.busy
    /\ ~ table[s].ncq => y.ci = x.ci

(* ... it is answered at once, with or without an error, ...                *)
Answered(x, y, s) ==
    /\ y.pending = x.pending /\ y.iobhd = x.iobhd /\ y.q = x.q /\ y.nfree = x.nfree
    /\ y.ST = x.ST /\ ~ y.busy /\ y.is # {}
    /\ \/ y.waitforclear /\ y.ci = x.ci /\ y.sact = x.sact
       \/ /\ y.waitforclear = x.waitforclear
          /\ y.ci = x.ci \ {s} /\ y.sact \in {x.sact, x.sact \ {s}}

(* ... or it is half of a software reset.                                   *)
ResetSeen(x, y, s) ==
    /\ y.pending = x.pending /\ y.iobhd = x.iobhd /\ y.q = x.q /\ y.nfree = x.nfree
    /\ y.ST = x.ST /\ ~ y.busy /\ y.is = x.is /\ y.waitforclear = x.waitforclear
    /\ y.ci = x.ci \ {s} /\ y.sact \in {x.sact, {}}

LEMMA TableFacts ==
  ASSUME TypeOK, NEW s \in Slot
  PROVE  LET c == table[s] IN
         /\ c \in Cmds /\ c \in Command
         /\ c.ncq \in BOOLEAN /\ c.fails \in BOOLEAN /\ c.parts \in Nat
         /\ c.kind \in {"rw", "flush", "trim", "notrim", "imm", "bad", "srst", "srstclr"}
         /\ c.parts = 0 <=> c.kind \notin {"rw", "flush", "trim"}
         /\ c.ncq => c.kind \in {"rw", "trim", "notrim", "bad"}
         /\ Polled(s) <=> c.kind \in {"srst", "srstclr"}
<1>1. table[s] \in Cmds /\ table[s] \in Command
  BY AhciPortAssumption DEF TypeOK
<1> QED
  BY <1>1, AhciPortAssumption DEF Command, Polled

LEMMA HandleRwTakes ==
  ASSUME TypeOK, NEW x \in PortState, NEW s \in Slot, x.nfree # 0
  PROVE  HandleRw(x, s, 1) \in PortState /\ Taken(x, HandleRw(x, s, 1), s)
<1> DEFINE y == Submit(x, s, 1)
<1>1. /\ y \in PortState
      /\ y.nfree = x.nfree - 1 /\ y.pending = x.pending \cup {s}
      /\ y.iobhd = <<s>> \o x.iobhd
      /\ y.q = Append(x.q, [slot |-> s, part |-> 1])
      /\ y.ST = x.ST /\ y.busy = x.busy /\ y.waitforclear = x.waitforclear
      /\ y.ci = x.ci /\ y.sact = x.sact /\ y.is = x.is
  BY SubmitFields
<1> HIDE DEF y
<1>2. CASE table[s].ncq
  <2> DEFINE z == D2hNcq(y, s)
  <2>1. HandleRw(x, s, 1) = z
    BY <1>2 DEF HandleRw, y
  <2>2. /\ z \in PortState
        /\ z.ci = y.ci \ {s} /\ z.busy = FALSE
        /\ z.ST = y.ST /\ z.waitforclear = y.waitforclear /\ z.sact = y.sact
        /\ z.is = y.is /\ z.pending = y.pending /\ z.iobhd = y.iobhd
        /\ z.q = y.q /\ z.nfree = y.nfree
    BY <1>1, D2hNcqFields
  <2> HIDE DEF z
  <2> QED
    BY <1>1, <1>2, <2>1, <2>2 DEF Taken
<1>3. CASE ~ table[s].ncq
  <2>1. HandleRw(x, s, 1) = y
    BY <1>3 DEF HandleRw, y
  <2> QED
    BY <1>1, <1>3, <2>1 DEF Taken
<1> QED
  BY <1>2, <1>3

LEMMA DsmTrimCases ==
  ASSUME TypeOK, NEW x \in PortState, NEW s \in Slot, x.nfree # 0, x.ST, s \notin x.pending,
         table[s].kind \in {"trim", "notrim"}
  PROVE  /\ DsmTrim(x, s) \in PortState
         /\ table[s].kind = "trim" => Taken(x, DsmTrim(x, s), s)
         /\ table[s].kind = "notrim" => Answered(x, DsmTrim(x, s), s)
<1>1. CASE table[s].kind = "trim"
  BY <1>1, HandleRwTakes DEF DsmTrim
<1>2. CASE table[s].kind = "notrim"
  <2> DEFINE y == IF table[s].ncq THEN WriteFisSdb(D2hNcq(x, s), s, FALSE)
                                  ELSE WriteFisD2h(x, s, FALSE)
             z == CheckStopped([y EXCEPT !.pending = @ \ {s}])
  <2>1. /\ y \in PortState /\ y.ST = x.ST /\ ~ y.busy /\ y.is # {}
        /\ y.waitforclear = x.waitforclear /\ y.ci = x.ci \ {s}
        /\ y.sact \in {x.sact, x.sact \ {s}}
        /\ y.pending = x.pending /\ y.iobhd = x.iobhd /\ y.q = x.q /\ y.nfree = x.nfree
    <3> x.waitforclear \in BOOLEAN
      BY DEF PortState
    <3>1. CASE table[s].ncq
      <4> DEFINE w == D2hNcq(x, s)
      <4>1. /\ w \in PortState
            /\ w.ci = x.ci \ {s} /\ w.busy = FALSE
            /\ w.ST = x.ST /\ w.waitforclear = x.waitforclear /\ w.sact = x.sact
            /\ w.pending = x.pending /\ w.iobhd = x.iobhd
            /\ w.q = x.q /\ w.nfree = x.nfree
        BY D2hNcqFields
      <4>2. y = WriteFisSdb(w, s, FALSE)
        BY <3>1
      <4> HIDE DEF w, y
      <4>3. /\ y \in PortState
            /\ y.sact = w.sact \ {s}
            /\ y.waitforclear = w.waitforclear /\ "SDB" \in y.is
            /\ y.ST = w.ST /\ y.busy = w.busy /\ y.ci = w.ci /\ y.pending = w.pending
            /\ y.iobhd = w.iobhd /\ y.q = w.q /\ y.nfree = w.nfree
        BY <4>1, <4>2, SdbOk
      <4> QED
        BY <4>1, <4>3
    <3>2. CASE ~ table[s].ncq
      <4>1. y = WriteFisD2h(x, s, FALSE)
        BY <3>2
      <4> HIDE DEF y
      <4> QED
        BY <4>1, D2hOk
    <3> QED
      BY <3>1, <3>2
  <2>2. DsmTrim(x, s) = z
    BY <1>2 DEF DsmTrim
  <2> HIDE DEF y
  <2>3. /\ z \in PortState
        /\ z.pending = y.pending \ {s}
        /\ z.ST = y.ST /\ z.waitforclear = y.waitforclear /\ z.ci = y.ci
        /\ z.sact = y.sact /\ z.busy = y.busy
        /\ z.is = y.is /\ z.iobhd = y.iobhd /\ z.q = y.q /\ z.nfree = y.nfree
    BY <2>1, EndedFields
  <2> HIDE DEF z
  <2>4. z.pending = x.pending
    BY <2>1, <2>3
  <2> QED
    BY <1>2, <2>1, <2>2, <2>3, <2>4 DEF Answered
<1> QED
  BY <1>1, <1>2

LEMMA HandleCmdCases ==
  ASSUME TypeOK, NEW x \in PortState, NEW s \in Slot, x.nfree # 0, x.ST, s \notin x.pending,
         ~ Polled(s)
  PROVE  LET y == HandleCmd(x, s) IN
         /\ y \in PortState
         /\ \/ table[s].kind \in {"rw", "flush", "trim"} /\ Taken(x, y, s)
            \/ table[s].kind \in {"notrim", "imm", "bad"} /\ Answered(x, y, s)
<1> DEFINE w == [x EXCEPT !.busy = TRUE]
<1>1. /\ w \in PortState
      /\ w.busy = TRUE /\ w.ci = x.ci
      /\ w.ST = x.ST /\ w.waitforclear = x.waitforclear /\ w.sact = x.sact
      /\ w.pending = x.pending /\ w.iobhd = x.iobhd /\ w.is = x.is
      /\ w.q = x.q /\ w.nfree = x.nfree
  BY DEF PortState
<1>2. table[s].kind \in {"rw", "flush", "trim", "notrim", "imm", "bad"}
  BY TableFacts DEF Polled
<1>k. HandleCmd(x, s) =
        CASE table[s].kind = "rw" -> HandleRw(w, s, 1)
          [] table[s].kind = "flush" -> Submit(w, s, 1)
          [] table[s].kind \in {"trim", "notrim"} -> DsmTrim(w, s)
          [] table[s].kind = "imm" -> WriteFisD2h(w, s, FALSE)
          [] table[s].kind = "bad" -> WriteFisD2h(w, s, TRUE)
  BY DEF HandleCmd
<1> HIDE DEF w
<1>3. \A y : Taken(w, y, s) => Taken(x, y, s)
  BY <1>1 DEF Taken
<1>4. \A y : Answered(w, y, s) => Answered(x, y, s)
  BY <1>1 DEF Answered
<1>5. CASE table[s].kind = "rw"
  <2>1. HandleCmd(x, s) = HandleRw(w, s, 1)
    BY <1>5, <1>k
  <2> QED
    BY <1>1, <1>3, <1>5, <2>1, HandleRwTakes
<1>6. CASE table[s].kind = "flush"
  <2>1. HandleCmd(x, s) = Submit(w, s, 1) /\ ~ table[s].ncq
    BY <1>6, <1>k, TableFacts
  <2>2. 1 \in Nat /\ w.nfree # 0
    BY <1>1
  <2> DEFINE y == Submit(w, s, 1)
  <2>3. /\ y \in PortState
        /\ y.nfree = w.nfree - 1 /\ y.pending = w.pending \cup {s}
        /\ y.iobhd = <<s>> \o w.iobhd
        /\ y.q = Append(w.q, [slot |-> s, part |-> 1])
        /\ y.ST = w.ST /\ y.waitforclear = w.waitforclear
        /\ y.ci = w.ci /\ y.sact = w.sact /\ y.is = w.is
    BY <1>1, <2>2, SubmitFields
  <2> HIDE DEF y
  <2>4. Taken(w, y, s)
    BY <2>1, <2>3 DEF Taken
  <2> QED
    BY <1>3, <1>6, <2>1, <2>3, <2>4 DEF y
<1>7. CASE table[s].kind \in {"trim", "notrim"}
  <2>1. HandleCmd(x, s) = DsmTrim(w, s)
    BY <1>7, <1>k
  <2>2. w.nfree # 0 /\ w.ST /\ s \notin w.pending
    BY <1>1
  <2> QED
    BY <1>1, <1>3, <1>4, <1>7, <2>1, <2>2, DsmTrimCases
<1>8. CASE table[s].kind = "imm"
  <2> DEFINE y == WriteFisD2h(w, s, FALSE)
  <2>1. HandleCmd(x, s) = y
    BY <1>8, <1>k
  <2>2. y \in PortState /\ Answered(w, y, s)
    BY <1>1, D2hOk DEF Answered
  <2> QED
    BY <1>4, <1>8, <2>1, <2>2
<1>9. CASE table[s].kind = "bad"
  <2> DEFINE y == WriteFisD2h(w, s, TRUE)
  <2>1. HandleCmd(x, s) = y
    BY <1>9, <1>k
  <2>2. y \in PortState /\ Answered(w, y, s)
    BY <1>1, D2hError DEF Answered
  <2> QED
    BY <1>4, <1>9, <2>1, <2>2
<1> QED
  BY <1>2, <1>5, <1>6, <1>7, <1>8, <1>9

(* One turn of the loop in ahci_handle_port.                                *)
LEMMA IssueCases ==
  ASSUME TypeOK, NEW s \in Slot, p.ST, ~ p.busy, s \notin p.pending, p.nfree # 0
  PROVE  LET y == Issue(s) IN
         /\ y \in PortState
         /\ \/ table[s].kind \in {"rw", "flush", "trim"} /\ Taken(p, y, s)
            \/ table[s].kind \in {"notrim", "imm", "bad"} /\ Answered(p, y, s)
            \/ Polled(s) /\ ResetSeen(p, y, s)
<1>0. p \in PortState
  BY DEF TypeOK
<1> DEFINE h == HandleSlot(p, s)
           y == Issue(s)
<1>1. /\ h \in PortState
      /\ \/ table[s].kind \in {"rw", "flush", "trim"} /\ Taken(p, h, s)
         \/ table[s].kind \in {"notrim", "imm", "bad"} /\ Answered(p, h, s)
         \/ Polled(s) /\ ResetSeen(p, h, s)
  <2>1. CASE table[s].kind = "srst"
    <3>1. h = [p EXCEPT !.reset = TRUE, !.ci = @ \ {s}]
      BY <2>1 DEF HandleSlot
    <3> HIDE DEF h
    <3> QED
      BY <1>0, <2>1, <3>1 DEF Polled, ResetSeen, PortState
  <2>2. CASE table[s].kind = "srstclr"
    <3> DEFINE w == IF p.reset THEN PortReset(p) ELSE p
    <3>1. h = [w EXCEPT !.reset = FALSE, !.ci = @ \ {s}]
      BY <2>2 DEF HandleSlot
    <3>2. /\ w \in PortState
          /\ w.pending = p.pending /\ w.iobhd = p.iobhd /\ w.q = p.q /\ w.nfree = p.nfree
          /\ w.ST = p.ST /\ ~ w.busy /\ w.is = p.is /\ w.waitforclear = p.waitforclear
          /\ w.ci = p.ci /\ w.sact \in {p.sact, {}}
      BY <1>0, PortResetFields
    <3> HIDE DEF h, w
    <3>3. /\ h \in PortState
          /\ h.pending = w.pending /\ h.iobhd = w.iobhd /\ h.q = w.q /\ h.nfree = w.nfree
          /\ h.ST = w.ST /\ h.busy = w.busy /\ h.is = w.is
          /\ h.waitforclear = w.waitforclear
          /\ h.ci = w.ci \ {s} /\ h.sact = w.sact
      BY <3>1, <3>2 DEF PortState
    <3> QED
      BY <2>2, <3>2, <3>3 DEF Polled, ResetSeen
  <2>3. CASE table[s].kind \notin {"srst", "srstclr"}
    <3>1. h = HandleCmd(p, s) /\ ~ Polled(s)
      BY <2>3 DEF HandleSlot, Polled
    <3> HIDE DEF h
    <3> QED
      BY <1>0, <3>1, HandleCmdCases
  <2> QED
    BY <2>1, <2>2, <2>3
<1> HIDE DEF h
<1>2. y = [h EXCEPT !.ccs = (s + 1) % NSlots]
  BY DEF Issue, h
<1> HIDE DEF y
<1>3. (s + 1) % NSlots \in Slot
  BY AhciPortAssumption DEF Slot
<1>4. /\ y \in PortState
      /\ y.pending = h.pending /\ y.iobhd = h.iobhd /\ y.q = h.q /\ y.nfree = h.nfree
      /\ y.ST = h.ST /\ y.busy = h.busy /\ y.is = h.is /\ y.waitforclear = h.waitforclear
      /\ y.ci = h.ci /\ y.sact = h.sact
  BY <1>1, <1>2, <1>3 DEF PortState
<1>5. /\ Taken(p, h, s) => Taken(p, y, s)
      /\ Answered(p, h, s) => Answered(p, y, s)
      /\ ResetSeen(p, h, s) => ResetSeen(p, y, s)
  BY <1>4 DEF Taken, Answered, ResetSeen
<1> QED
  BY <1>1, <1>4, <1>5 DEF y

-----------------------------------------------------------------------------
(* The inductive invariant.                                                 *)

(* The request of a slot in flight is on both lists, and only there.        *)
Flight ==
    /\ Listed(p.pending, p.iobhd) /\ Queued(p.pending, p.q)
    /\ Len(p.iobhd) = Cardinality(p.pending) /\ Len(p.q) = Len(p.iobhd)
    /\ p.nfree + Len(p.iobhd) = IoQsz

(* BSY is held by a command in flight whose end will clear it.              *)
BusyHasOwner == p.busy => \E s \in p.pending : ~ table[s].ncq

(* A stopped port has nothing in flight and, unless an error still stops    *)
(* it, nothing issued.                                                      *)
Stopped ==
    ~ p.ST => p.pending = {} /\ gout = {} /\ (~ p.waitforclear => p.ci = {})

(* ahci_handle_port returns when everything is issued or the port is busy.  *)
AllIssued ==
    /\ pc = "drain" /\ p.ST /\ ~ p.waitforclear => Waiting(p) = {} \/ p.busy
    /\ pc = "request" => p.pending = {} /\ ~ p.busy /\ (~ p.waitforclear => p.ci = {})

(* What runs is the driver's, and a software reset is alone.                *)
Owned ==
    /\ p.pending \subseteq gout /\ built \cap gout = {}
    /\ p.ST /\ ~ p.waitforclear => Waiting(p) \subseteq gout
    /\ \A s \in gout : Polled(s) => gout = {s}

(* The register that shows a command in flight.                             *)
Marked ==
    /\ \A s \in p.pending : /\ table[s].ncq => s \notin p.ci /\ s \in p.sact
                            /\ ~ table[s].ncq => s \in p.ci
    /\ \A s \in gout \cap p.ci : table[s].ncq => s \in p.sact

(* The request in flight is for the part the disk has not done yet, the     *)
(* disk has done nothing of a command that waits, and nothing twice.        *)
NextPart(r) ==
    /\ r.part = disk[r.slot] + 1 /\ r.part <= table[r.slot].parts
    /\ table[r.slot].fails => r.part = 1
PartsInOrder == \A r \in ToSet(p.q) : NextPart(r)
Untouched == \A s \in built \cup Waiting(p) : disk[s] = 0
NotTwice == \A s \in Slot : disk[s] <= table[s].parts
Progress == PartsInOrder /\ Untouched /\ NotTwice

PortInv ==
    TypeOK /\ Flight /\ BusyHasOwner /\ Stopped /\ AllIssued /\ Owned /\ Marked /\ Progress

LEMMA SlotsFinite == IsFiniteSet(Slot) /\ Cardinality(Slot) = NSlots
<1>1. 0 \in Int /\ NSlots - 1 \in Int /\ NSlots \in Nat \ {0}
  BY AhciPortAssumption
<1>2. /\ IsFiniteSet(0 .. NSlots - 1)
      /\ Cardinality(0 .. NSlots - 1) =
           IF 0 > NSlots - 1 THEN 0 ELSE NSlots - 1 - 0 + 1
  BY <1>1, FS_Interval
<1> QED
  BY <1>1, <1>2 DEF Slot

LEMMA PendingCount ==
  ASSUME NEW S \in SUBSET Slot
  PROVE  /\ IsFiniteSet(S) /\ Cardinality(S) \in Nat /\ Cardinality(S) <= NSlots
         /\ \A s \in Slot \ S : Cardinality(S \cup {s}) = Cardinality(S) + 1
         /\ \A s \in S : Cardinality(S \ {s}) = Cardinality(S) - 1
         /\ S = {} => Cardinality(S) = 0
<1>1. IsFiniteSet(S) /\ Cardinality(S) <= NSlots
  BY SlotsFinite, FS_Subset
<1>2. Cardinality(S) \in Nat
  BY <1>1, FS_CardinalityType
<1>3. ASSUME NEW s \in Slot \ S PROVE Cardinality(S \cup {s}) = Cardinality(S) + 1
  <2>1. Cardinality(S \cup {s}) = IF s \in S THEN Cardinality(S) ELSE Cardinality(S) + 1
    BY <1>1, FS_AddElement
  <2> QED
    BY <2>1
<1>4. ASSUME NEW s \in S PROVE Cardinality(S \ {s}) = Cardinality(S) - 1
  <2>1. Cardinality(S \ {s}) = IF s \in S THEN Cardinality(S) - 1 ELSE Cardinality(S)
    BY <1>1, FS_RemoveElement
  <2> QED
    BY <2>1
<1> QED
  BY <1>1, <1>2, <1>3, <1>4, FS_EmptySet

(* assert(aior != NULL) holds: a slot that is not in flight finds a request *)
(* on iofhd.                                                                *)
LEMMA RequestLeft ==
  ASSUME TypeOK, Flight, NEW s \in Slot, s \notin p.pending
  PROVE  p.nfree # 0
<1>1. p.pending \in SUBSET Slot /\ p.pending \cup {s} \in SUBSET Slot
  BY DEF TypeOK, PortState
<1>2. /\ Cardinality(p.pending \cup {s}) = Cardinality(p.pending) + 1
      /\ Cardinality(p.pending) \in Nat
      /\ Cardinality(p.pending \cup {s}) <= NSlots
  BY <1>1, PendingCount
<1> QED
  BY <1>2, AhciPortAssumption DEF Flight

LEMMA FlightFacts ==
  ASSUME TypeOK, Flight
  PROVE  /\ InFlightOnce
         /\ p.pending = {} <=> p.q = <<>>
         /\ p.pending = {} => p.iobhd = <<>> /\ p.nfree = IoQsz
<1>1. /\ p.pending \in SUBSET Slot /\ p.iobhd \in Seq(Slot) /\ p.nfree \in 0 .. IoQsz
      /\ p.q \in Seq(Request)
  BY DEF TypeOK, PortState, Request
<1>2. p.pending = {p.iobhd[i] : i \in DOMAIN p.iobhd}
  BY DEF Flight, Listed, ToSet
<1>3. p.pending = {p.q[i].slot : i \in DOMAIN p.q}
  BY DEF Flight, Queued, ToSet
<1>4. InFlightOnce
  BY <1>2, <1>3 DEF InFlightOnce, Flight
<1>5. p.q = <<>> => p.pending = {}
  BY <1>3
<1>6. p.pending = {} => p.iobhd = <<>> /\ p.q = <<>> /\ p.nfree = IoQsz
  <2> SUFFICES ASSUME p.pending = {}
               PROVE  p.iobhd = <<>> /\ p.q = <<>> /\ p.nfree = IoQsz
    OBVIOUS
  <2>1. Len(p.iobhd) = 0 /\ Len(p.q) = 0
    BY <1>1, PendingCount DEF Flight
  <2>2. p.iobhd = <<>> /\ p.q = <<>>
    BY <1>1, <2>1, EmptySeq
  <2> QED
    BY <1>1, <2>1, <2>2, AhciPortAssumption DEF Flight
<1> QED
  BY <1>4, <1>5, <1>6

LEMMA InitPortInv == Init => PortInv
<1> SUFFICES ASSUME Init PROVE PortInv
  OBVIOUS
<1>1. /\ p.ST = FALSE /\ p.busy = FALSE /\ p.waitforclear = FALSE /\ p.ci = {}
      /\ p.sact = {} /\ p.pending = {} /\ p.iobhd = <<>> /\ p.nfree = IoQsz /\ p.q = <<>>
  BY DEF Init
<1>2. TypeOK
  <2>1. p \in PortState
    BY AhciPortAssumption DEF Init, PortState, Slot
  <2>2. table \in [Slot -> Cmds]
    BY AhciPortAssumption DEF Init
  <2> QED
    BY <2>1, <2>2 DEF Init, TypeOK
<1>3. Flight
  <2>1. Cardinality({}) = 0
    BY FS_EmptySet
  <2>2. Listed({}, <<>>) /\ Queued({}, <<>>)
    BY DEF Listed, Queued, ToSet
  <2> QED
    BY <1>1, <2>1, <2>2, AhciPortAssumption DEF Flight
<1>4. Progress
  <2>1. ToSet(<<>>) = {}
    BY DEF ToSet
  <2>2. \A s \in Slot : disk[s] = 0 /\ table[s].parts \in Nat
    BY <1>2, TableFacts DEF Init
  <2> QED
    BY <1>1, <2>1, <2>2 DEF Init, Progress, PartsInOrder, Untouched, NotTwice, Waiting
<1>5. BusyHasOwner /\ Stopped /\ AllIssued /\ Owned /\ Marked
  BY <1>1 DEF Init, BusyHasOwner, Stopped, AllIssued, Owned, Marked, Waiting
<1> QED
  BY <1>2, <1>3, <1>4, <1>5 DEF PortInv

(* ahci_handle_port hands a command over to the block interface.            *)
LEMMA TakenInv ==
  ASSUME PortInv, pc \in {"handle", "callback"}, pc' \in {pc, "halted"},
         UNCHANGED <<disk, guestVars>>, p' \in PortState,
         p.ST, ~ p.busy, ~ p.waitforclear,
         NEW s \in Waiting(p), table[s].kind \in {"rw", "flush", "trim"}, Taken(p, p', s)
  PROVE  PortInv'
<1>1. /\ s \in Slot /\ s \in p.ci /\ s \notin p.pending /\ s \in gout /\ disk[s] = 0
      /\ p.pending \in SUBSET Slot
  BY DEF Waiting, PortInv, Owned, Progress, Untouched, TypeOK, PortState
<1>2. /\ table[s].parts \in Nat /\ table[s].parts # 0 /\ table[s].ncq \in BOOLEAN
      /\ ~ Polled(s)
  BY <1>1, TableFacts DEF PortInv
<1> DEFINE r == [slot |-> s, part |-> 1]
<1>3. r \in Request /\ r.slot = s /\ r.part = 1
  BY <1>1 DEF Request
<1>4. p'.q = Append(p.q, r) /\ p'.pending = p.pending \cup {s}
  BY DEF Taken
<1> HIDE DEF r
<1>5. /\ Queued(p.pending \cup {s}, p'.q) /\ Len(p'.q) = Len(p.q) + 1
      /\ ToSet(p'.q) = ToSet(p.q) \cup {r}
  <2>1. Queued(p.pending, p.q) /\ r.slot \notin p.pending
    BY <1>1, <1>3 DEF PortInv, Flight
  <2>2. /\ Queued(p.pending \cup {r.slot}, Append(p.q, r))
        /\ Len(Append(p.q, r)) = Len(p.q) + 1
        /\ ToSet(Append(p.q, r)) = ToSet(p.q) \cup {r}
    BY <1>3, <2>1, QueueAdd
  <2> QED
    BY <1>3, <1>4, <2>2
<1>6. TypeOK'
  BY DEF PortInv, TypeOK, guestVars
<1>7. Flight'
  <2>1. p'.iobhd = <<s>> \o p.iobhd /\ p'.nfree = p.nfree - 1
    BY DEF Taken
  <2>2. Listed(p.pending \cup {s}, p'.iobhd) /\ Len(p'.iobhd) = Len(p.iobhd) + 1
    BY <1>1, <2>1, ListAdd DEF PortInv, Flight
  <2>3. Cardinality(p.pending \cup {s}) = Cardinality(p.pending) + 1
    BY <1>1, PendingCount
  <2>4. p.nfree \in Int /\ IoQsz \in Nat /\ Len(p.iobhd) \in Nat
    BY AhciPortAssumption DEF PortInv, TypeOK, PortState
  <2> QED
    BY <1>4, <1>5, <2>1, <2>2, <2>3, <2>4 DEF PortInv, Flight
<1>8. BusyHasOwner'
  BY <1>2, <1>4 DEF Taken, BusyHasOwner, guestVars
<1>9. Stopped' /\ AllIssued'
  BY DEF Taken, Stopped, AllIssued
<1>10. Owned'
  BY <1>1, <1>4 DEF Taken, PortInv, Owned, Waiting, Polled, guestVars
<1>11. Marked'
  BY <1>1, <1>2, <1>4 DEF Taken, PortInv, Marked, guestVars
<1>12. Progress'
  <2>1. Untouched' /\ NotTwice'
    BY <1>1, <1>4 DEF Taken, PortInv, Progress, Untouched, NotTwice, Waiting, guestVars
  <2>2. NextPart(r)
    BY <1>1, <1>2, <1>3 DEF NextPart
  <2>3. \A a \in ToSet(p'.q) : NextPart(a)
    BY <1>5, <2>2 DEF PortInv, Progress, PartsInOrder
  <2>4. PartsInOrder'
    BY <2>3 DEF PartsInOrder, NextPart, guestVars
  <2> QED
    BY <2>1, <2>4 DEF Progress
<1> QED
  BY <1>6, <1>7, <1>8, <1>9, <1>10, <1>11, <1>12 DEF PortInv

(* The lists are left alone.                                                *)
SameLists ==
    /\ p'.pending = p.pending /\ p'.iobhd = p.iobhd
    /\ p'.q = p.q /\ p'.nfree = p.nfree

LEMMA SameFlight == ASSUME Flight, SameLists PROVE Flight'
  BY DEF Flight, SameLists

(* ahci_handle_port answers a command itself, or takes note of a reset.     *)
LEMMA AnsweredInv ==
  ASSUME PortInv, pc \in {"handle", "callback"}, pc' \in {pc, "halted"},
         UNCHANGED <<disk, guestVars>>, p' \in PortState,
         p.ST, ~ p.busy, ~ p.waitforclear, NEW s \in Waiting(p),
         \/ table[s].kind \in {"notrim", "imm", "bad"} /\ Answered(p, p', s)
         \/ Polled(s) /\ ResetSeen(p, p', s)
  PROVE  PortInv'
<1>1. /\ s \in Slot /\ s \in p.ci /\ s \notin p.pending /\ s \in gout
  BY DEF Waiting, PortInv, Owned, TypeOK, PortState
<1>2. /\ SameLists /\ p'.ST = p.ST /\ ~ p'.busy /\ p'.ci \subseteq p.ci
      /\ p.ci \subseteq p'.ci \cup {s}
  BY DEF Answered, ResetSeen, SameLists
<1>3. TypeOK'
  BY DEF PortInv, TypeOK, guestVars
<1>4. Flight'
  BY <1>2, SameFlight DEF PortInv
<1>5. BusyHasOwner' /\ Stopped' /\ AllIssued'
  BY <1>2 DEF BusyHasOwner, Stopped, AllIssued
<1>6. Owned'
  BY <1>2 DEF PortInv, Owned, Waiting, SameLists, Polled, guestVars
<1>7. Progress'
  BY <1>2 DEF PortInv, Progress, PartsInOrder, NextPart, Untouched, NotTwice, Waiting,
              SameLists, guestVars
<1>8. Marked'
  <2>1. CASE Answered(p, p', s)
    <3>1. \/ p'.ci = p.ci /\ p'.sact = p.sact
          \/ p'.ci = p.ci \ {s} /\ p.sact \subseteq p'.sact \cup {s}
      BY <2>1 DEF Answered
    <3> QED
      BY <1>1, <1>2, <3>1 DEF PortInv, Marked, SameLists, guestVars
  <2>2. CASE Polled(s) /\ ResetSeen(p, p', s)
    <3>1. gout = {s} /\ p.pending = {} /\ p'.ci = p.ci \ {s}
      BY <1>1, <2>2 DEF PortInv, Owned, ResetSeen
    <3> QED
      BY <1>2, <3>1 DEF Marked, SameLists, guestVars
  <2> QED
    BY <2>1, <2>2
<1> QED
  BY <1>3, <1>4, <1>5, <1>6, <1>7, <1>8 DEF PortInv

(* A turn of the loop in ahci_handle_port, seen from outside.               *)
LEMMA HandlePortCases ==
  ASSUME PortInv, HandlePort
  PROVE  /\ pc \in {"handle", "callback"} /\ UNCHANGED <<disk, guestVars>>
         /\ \/ /\ ~ p.ST \/ Waiting(p) = {} \/ p.busy \/ p.waitforclear
               /\ pc' = "drain" /\ p' = p
            \/ /\ p.ST /\ ~ p.busy /\ ~ p.waitforclear
               /\ pc' \in {pc, "halted"} /\ p' \in PortState
               /\ \E s \in Waiting(p) :
                    \/ table[s].kind \in {"rw", "flush", "trim"} /\ Taken(p, p', s)
                    \/ table[s].kind \in {"notrim", "imm", "bad"} /\ Answered(p, p', s)
                    \/ Polled(s) /\ ResetSeen(p, p', s)
<1>1. CASE ~ p.ST \/ Waiting(p) = {} \/ p.busy \/ p.waitforclear
  BY <1>1 DEF HandlePort
<1>2. CASE ~ (~ p.ST \/ Waiting(p) = {} \/ p.busy \/ p.waitforclear)
  <2>1. PICK s \in Slot : NextSlot(p, s) /\ p' = Issue(s)
    BY <1>2 DEF HandlePort
  <2>2. /\ pc \in {"handle", "callback"} /\ pc' \in {pc, "halted"}
        /\ UNCHANGED <<disk, guestVars>> /\ s \in Waiting(p)
    BY <1>2, <2>1 DEF HandlePort, LockBcMtx, NextSlot
  <2>3. s \notin p.pending /\ p.nfree # 0 /\ p.ST /\ ~ p.busy /\ TypeOK /\ ~ p.waitforclear
    BY <1>2, <2>2, RequestLeft DEF Waiting, PortInv
  <2>4. /\ p' \in PortState
        /\ \/ table[s].kind \in {"rw", "flush", "trim"} /\ Taken(p, p', s)
           \/ table[s].kind \in {"notrim", "imm", "bad"} /\ Answered(p, p', s)
           \/ Polled(s) /\ ResetSeen(p, p', s)
    BY <2>1, <2>3, IssueCases
  <2> QED
    BY <2>2, <2>3, <2>4
<1> QED
  BY <1>1, <1>2

LEMMA HandlePortInv == ASSUME PortInv, HandlePort PROVE PortInv'
<1>1. CASE /\ ~ p.ST \/ Waiting(p) = {} \/ p.busy \/ p.waitforclear
           /\ pc' = "drain" /\ p' = p
  <2>1. UNCHANGED <<p, disk, guestVars>>
    BY <1>1 DEF HandlePort
  <2>2. TypeOK' /\ Flight' /\ BusyHasOwner' /\ Stopped' /\ Owned' /\ Marked' /\ Progress'
    BY <1>1, <2>1 DEF PortInv, TypeOK, Flight, BusyHasOwner, Stopped, Owned, Marked,
       Progress, PartsInOrder, NextPart, Untouched, NotTwice, guestVars, Waiting, Polled
  <2>3. AllIssued'
    BY <1>1, <2>1 DEF AllIssued, Waiting
  <2> QED
    BY <2>2, <2>3 DEF PortInv
<1>2. CASE /\ p.ST /\ ~ p.busy /\ ~ p.waitforclear
           /\ pc' \in {pc, "halted"} /\ p' \in PortState
           /\ \E s \in Waiting(p) :
                \/ table[s].kind \in {"rw", "flush", "trim"} /\ Taken(p, p', s)
                \/ table[s].kind \in {"notrim", "imm", "bad"} /\ Answered(p, p', s)
                \/ Polled(s) /\ ResetSeen(p, p', s)
  <2>1. pc \in {"handle", "callback"} /\ UNCHANGED <<disk, guestVars>>
    BY <1>2, HandlePortCases
  <2> QED
    BY <1>2, <2>1, TakenInv, AnsweredInv
<1> QED
  BY <1>1, <1>2, HandlePortCases

-----------------------------------------------------------------------------
(* ata_ioreq_cb.                                                            *)

LEMMA ReturnedFields ==
  ASSUME TypeOK, Flight, p.q # <<>>, NEW s, s = Head(p.q).slot
  PROVE  LET y == Returned(p, s) IN
         /\ y \in PortState /\ s \in p.pending /\ s \in Slot
         /\ Listed(p.pending \ {s}, y.iobhd) /\ Len(y.iobhd) = Len(p.iobhd) - 1
         /\ y.q = Tail(p.q) /\ Queued(p.pending \ {s}, y.q) /\ Len(y.q) = Len(p.q) - 1
         /\ y.nfree = p.nfree + 1 /\ y.pending = p.pending
         /\ y.ST = p.ST /\ y.busy = p.busy /\ y.waitforclear = p.waitforclear
         /\ y.ci = p.ci /\ y.sact = p.sact /\ y.is = p.is
<1>1. p \in PortState /\ Queued(p.pending, p.q) /\ Listed(p.pending, p.iobhd)
  BY DEF TypeOK, Flight
<1>2. /\ s \in p.pending /\ Queued(p.pending \ {s}, Tail(p.q))
      /\ Len(Tail(p.q)) = Len(p.q) - 1
  BY <1>1, QueueRemove
<1> DEFINE io == RemoveAt(p.iobhd, CHOOSE i \in DOMAIN p.iobhd : p.iobhd[i] = s)
           y == Returned(p, s)
<1>3. Listed(p.pending \ {s}, io) /\ Len(io) = Len(p.iobhd) - 1
  BY <1>1, <1>2, ListRemove
<1>4. y = [p EXCEPT !.iobhd = io, !.nfree = @ + 1, !.q = Tail(@)]
  BY DEF Returned
<1> HIDE DEF io, y
<1>5. io \in Seq(Slot) /\ Tail(p.q) \in Seq([slot : Slot, part : Nat])
  BY <1>2, <1>3 DEF Listed, Queued, Request
<1>6. p.nfree + 1 \in 0 .. IoQsz /\ s \in Slot
  <2>1. /\ p.pending \in SUBSET Slot /\ p.nfree \in 0 .. IoQsz /\ IoQsz \in Nat
        /\ p.nfree + Len(p.iobhd) = IoQsz
    BY <1>1, AhciPortAssumption DEF PortState, Flight
  <2>2. Len(io) \in Nat /\ Len(p.iobhd) \in Nat
    BY <1>1, <1>5 DEF PortState
  <2> QED
    BY <1>2, <1>3, <2>1, <2>2
<1>7. /\ y \in PortState /\ y.iobhd = io /\ y.q = Tail(p.q)
      /\ y.nfree = p.nfree + 1 /\ y.pending = p.pending
      /\ y.ST = p.ST /\ y.busy = p.busy /\ y.waitforclear = p.waitforclear
      /\ y.ci = p.ci /\ y.sact = p.sact /\ y.is = p.is
  BY <1>1, <1>4, <1>5, <1>6 DEF PortState
<1> QED
  BY <1>2, <1>3, <1>6, <1>7 DEF y

(* The end of a command: an error stops the port and leaves the command     *)
(* marked, success takes the mark away.                                     *)
LEMMA CompletedFields ==
  ASSUME TypeOK, NEW x \in PortState, NEW s \in Slot, x.ST
  PROVE  LET y == Completed(x, s) IN
         /\ y \in PortState /\ y.is # {}
         /\ y.ST = x.ST /\ y.pending = x.pending \ {s}
         /\ y.iobhd = x.iobhd /\ y.q = x.q /\ y.nfree = x.nfree
         /\ table[s].ncq => y.busy = x.busy /\ y.ci = x.ci
         /\ ~ table[s].ncq => y.busy = FALSE /\ y.sact = x.sact
         /\ table[s].fails => y.waitforclear /\ y.ci = x.ci /\ y.sact = x.sact
         /\ ~ table[s].fails =>
              /\ y.waitforclear = x.waitforclear
              /\ table[s].ncq => y.sact = x.sact \ {s}
              /\ ~ table[s].ncq => y.ci = x.ci \ {s}
<1> DEFINE e == table[s].fails
           w == IF table[s].ncq THEN WriteFisSdb(x, s, e) ELSE WriteFisD2h(x, s, e)
           y == Completed(x, s)
<1>1. y = CheckStopped([w EXCEPT !.pending = @ \ {s}])
  BY DEF Completed
<1>2. e \in BOOLEAN /\ table[s].ncq \in BOOLEAN
  BY TableFacts
<1>3. /\ w \in PortState /\ w.is # {} /\ w.ST = x.ST /\ w.pending = x.pending
      /\ w.iobhd = x.iobhd /\ w.q = x.q /\ w.nfree = x.nfree
      /\ table[s].ncq => w.busy = x.busy /\ w.ci = x.ci
      /\ ~ table[s].ncq => w.busy = FALSE /\ w.sact = x.sact
      /\ table[s].fails => w.waitforclear /\ w.ci = x.ci /\ w.sact = x.sact
      /\ ~ table[s].fails =>
           /\ w.waitforclear = x.waitforclear
           /\ table[s].ncq => w.sact = x.sact \ {s}
           /\ ~ table[s].ncq => w.ci = x.ci \ {s}
  <2>1. CASE table[s].ncq /\ e
    <3>1. w = WriteFisSdb(x, s, TRUE)
      BY <1>2, <2>1
    <3> HIDE DEF w
    <3> QED
      BY <2>1, <3>1, SdbError DEF e
  <2>2. CASE table[s].ncq /\ ~ e
    <3>1. w = WriteFisSdb(x, s, FALSE)
      BY <1>2, <2>2
    <3> HIDE DEF w
    <3> QED
      BY <2>2, <3>1, SdbOk DEF e
  <2>3. CASE ~ table[s].ncq /\ e
    <3>1. w = WriteFisD2h(x, s, TRUE)
      BY <1>2, <2>3
    <3> HIDE DEF w
    <3> QED
      BY <2>3, <3>1, D2hError DEF e
  <2>4. CASE ~ table[s].ncq /\ ~ e
    <3>1. w = WriteFisD2h(x, s, FALSE)
      BY <1>2, <2>4
    <3> HIDE DEF w
    <3> QED
      BY <2>4, <3>1, D2hOk DEF e
  <2> QED
    BY <2>1, <2>2, <2>3, <2>4
<1> HIDE DEF w, y
<1>4. /\ y \in PortState
      /\ y.pending = w.pending \ {s}
      /\ y.ST = w.ST /\ y.waitforclear = w.waitforclear /\ y.ci = w.ci
      /\ y.sact = w.sact /\ y.busy = w.busy
      /\ y.is = w.is /\ y.iobhd = w.iobhd /\ y.q = w.q /\ y.nfree = w.nfree
  BY <1>1, <1>3, EndedFields
<1> QED
  BY <1>3, <1>4 DEF y

(* The requests that stay queued are for other slots.                       *)
LEMMA OthersInQueue ==
  ASSUME Flight, p.q # <<>>
  PROVE  /\ Head(p.q) \in ToSet(p.q) /\ Head(p.q) \in Request
         /\ ToSet(Tail(p.q)) \subseteq ToSet(p.q)
         /\ \A r \in ToSet(Tail(p.q)) : r.slot # Head(p.q).slot
<1>1. Queued(p.pending, p.q)
  BY DEF Flight
<1> QED
  BY <1>1, QueueRemove

(* A command with more parts stays in flight, ...                           *)
LEMMA MoreInv ==
  ASSUME PortInv, pc = "drain", p.q # <<>>,
         NEW s \in Slot, NEW part \in Nat, Head(p.q) = [slot |-> s, part |-> part],
         ~ table[s].fails, part < table[s].parts,
         disk' = [disk EXCEPT ![s] = @ + 1],
         p' = HandleRw(Returned(p, s), s, part + 1), pc' \in {pc, "halted"},
         UNCHANGED guestVars
  PROVE  PortInv'
<1> DEFINE y == Returned(p, s)
           r == [slot |-> s, part |-> part + 1]
<1>1. /\ y \in PortState /\ s \in p.pending /\ s \in Slot
      /\ Listed(p.pending \ {s}, y.iobhd) /\ Len(y.iobhd) = Len(p.iobhd) - 1
      /\ y.q = Tail(p.q) /\ Queued(p.pending \ {s}, y.q) /\ Len(y.q) = Len(p.q) - 1
      /\ y.nfree = p.nfree + 1 /\ y.pending = p.pending
      /\ y.ST = p.ST /\ y.busy = p.busy /\ y.waitforclear = p.waitforclear
      /\ y.ci = p.ci /\ y.sact = p.sact /\ y.is = p.is
  <2>1. s = Head(p.q).slot
    OBVIOUS
  <2> QED
    BY <2>1, ReturnedFields DEF PortInv
<1>2. part = disk[s] + 1 /\ disk[s] \in Nat /\ disk'[s] = part
  <2>1. Head(p.q) \in ToSet(p.q) /\ Head(p.q) \in Request
    BY OthersInQueue DEF PortInv
  <2>2. disk \in [Slot -> Nat]
    BY DEF PortInv, TypeOK
  <2> QED
    BY <2>1, <2>2 DEF PortInv, Progress, PartsInOrder, NextPart
<1>3. p' = Submit(y, s, part + 1)
  <2>1. part + 1 # 1
    BY <1>2
  <2> QED
    BY <2>1 DEF HandleRw
<1> HIDE DEF y
<1>4. /\ p' \in PortState
      /\ p'.nfree = p.nfree /\ p'.pending = p.pending
      /\ p'.iobhd = <<s>> \o y.iobhd
      /\ p'.q = Append(y.q, r)
      /\ p'.ST = p.ST /\ p'.busy = p.busy /\ p'.waitforclear = p.waitforclear
      /\ p'.ci = p.ci /\ p'.sact = p.sact /\ p'.is = p.is
  <2>1. p.nfree \in Nat
    BY AhciPortAssumption DEF PortInv, TypeOK, PortState
  <2> DEFINE k == part + 1
             z == Submit(y, s, k)
  <2>2. k \in Nat /\ y.nfree # 0 /\ y.nfree - 1 = p.nfree /\ y \in PortState
    BY <1>1, <1>2, <2>1
  <2> HIDE DEF k
  <2>3. /\ z \in PortState
        /\ z.nfree = y.nfree - 1 /\ z.pending = y.pending \cup {s}
        /\ z.iobhd = <<s>> \o y.iobhd
        /\ z.q = Append(y.q, [slot |-> s, part |-> k])
        /\ z.ST = y.ST /\ z.busy = y.busy /\ z.waitforclear = y.waitforclear
        /\ z.ci = y.ci /\ z.sact = y.sact /\ z.is = y.is
    BY <2>2, SubmitFields
  <2>4. p.pending \cup {s} = p.pending
    BY <1>1
  <2>5. p' = z
    BY <1>3 DEF k
  <2> HIDE DEF z
  <2> QED
    BY <1>1, <2>2, <2>3, <2>4, <2>5 DEF k
<1>5. r \in Request /\ r.slot = s /\ r.part = part + 1
  BY <1>1, <1>2 DEF Request
<1> HIDE DEF r
<1>6. /\ Queued(p.pending, p'.q) /\ Len(p'.q) = Len(y.q) + 1
      /\ ToSet(p'.q) = ToSet(Tail(p.q)) \cup {r}
  <2>1. r.slot \notin p.pending \ {s} /\ (p.pending \ {s}) \cup {r.slot} = p.pending
    <3>1. s \notin p.pending \ {s} /\ (p.pending \ {s}) \cup {s} = p.pending
      BY <1>1
    <3> QED
      BY <1>5, <3>1
  <2>2. /\ Queued((p.pending \ {s}) \cup {r.slot}, Append(y.q, r))
        /\ Len(Append(y.q, r)) = Len(y.q) + 1
        /\ ToSet(Append(y.q, r)) = ToSet(y.q) \cup {r}
    <3> DEFINE S == p.pending \ {s}
               q == y.q
    <3>1. Queued(S, q) /\ r \in Request /\ r.slot \notin S
      BY <1>1, <1>5, <2>1
    <3> HIDE DEF S, q
    <3>2. /\ Queued(S \cup {r.slot}, Append(q, r))
          /\ Len(Append(q, r)) = Len(q) + 1
          /\ ToSet(Append(q, r)) = ToSet(q) \cup {r}
      BY <3>1, QueueAdd
    <3> QED
      BY <3>2 DEF S, q
  <2> QED
    BY <1>1, <1>4, <2>1, <2>2
<1>7. Listed(p.pending, p'.iobhd) /\ Len(p'.iobhd) = Len(y.iobhd) + 1
  <2>1. s \notin p.pending \ {s} /\ (p.pending \ {s}) \cup {s} = p.pending
    BY <1>1
  <2>2. /\ Listed((p.pending \ {s}) \cup {s}, <<s>> \o y.iobhd)
        /\ Len(<<s>> \o y.iobhd) = Len(y.iobhd) + 1
    BY <1>1, <2>1, ListAdd
  <2> QED
    BY <1>4, <2>1, <2>2
<1>8. TypeOK'
  BY <1>2, <1>4 DEF PortInv, TypeOK, guestVars
<1>9. Flight'
  <2>1. Len(p.q) \in Nat /\ Len(p.iobhd) \in Nat
    BY DEF PortInv, TypeOK, PortState
  <2>2. Len(p'.q) = Len(p.q) /\ Len(p'.iobhd) = Len(p.iobhd)
    BY <1>1, <1>6, <1>7, <2>1
  <2> QED
    BY <1>4, <1>6, <1>7, <2>2 DEF PortInv, Flight
<1>10. BusyHasOwner' /\ Stopped' /\ AllIssued' /\ Owned' /\ Marked'
  BY <1>4 DEF PortInv, BusyHasOwner, Stopped, AllIssued, Owned, Marked, Waiting, Polled,
              guestVars
<1>11. Progress'
  <2>0. table' = table /\ built' = built
    BY DEF guestVars
  <2>1. \A t \in Slot : t # s => disk'[t] = disk[t]
    BY DEF PortInv, TypeOK
  <2>2. PartsInOrder'
    <3>1. ASSUME NEW a \in ToSet(Tail(p.q)) PROVE NextPart(a)'
      <4>1. a \in ToSet(p.q) /\ a.slot # s
        BY OthersInQueue DEF PortInv
      <4>2. a.slot \in Slot
        BY <4>1 DEF PortInv, Flight, Queued, TypeOK, PortState
      <4>3. NextPart(a) /\ disk'[a.slot] = disk[a.slot]
        BY <2>1, <4>1, <4>2 DEF PortInv, Progress, PartsInOrder
      <4> QED
        BY <2>0, <4>3 DEF NextPart
    <3>2. NextPart(r)'
      BY <1>1, <1>2, <1>5, <2>0, TableFacts DEF PortInv, NextPart
    <3> QED
      BY <1>6, <3>1, <3>2 DEF PartsInOrder
  <2>3. Untouched'
    <3>1. Waiting(p)' = Waiting(p)
      BY <1>4 DEF Waiting
    <3>2. \A t \in built \cup Waiting(p) : t \in Slot /\ disk[t] = 0 /\ t # s
      BY <1>1 DEF PortInv, Progress, Untouched, Owned, Waiting, TypeOK, PortState
    <3> QED
      BY <2>0, <2>1, <3>1, <3>2 DEF Untouched
  <2>4. NotTwice'
    BY <1>2, <2>0, <2>1, TableFacts DEF PortInv, Progress, NotTwice
  <2> QED
    BY <2>2, <2>3, <2>4 DEF Progress
<1> QED
  BY <1>8, <1>9, <1>10, <1>11 DEF PortInv

(* ... and one that has none, or that failed, is answered.                  *)
LEMMA CompletedInv ==
  ASSUME PortInv, pc = "drain", p.q # <<>>,
         NEW s \in Slot, NEW part \in Nat, Head(p.q) = [slot |-> s, part |-> part],
         disk' = [disk EXCEPT ![s] = IF table[s].fails THEN @ ELSE @ + 1],
         p' = Completed(Returned(p, s), s), pc' = "callback", UNCHANGED guestVars
  PROVE  PortInv'
<1> DEFINE y == Returned(p, s)
<1>1. /\ y \in PortState /\ s \in p.pending
      /\ Listed(p.pending \ {s}, y.iobhd) /\ Len(y.iobhd) = Len(p.iobhd) - 1
      /\ y.q = Tail(p.q) /\ Queued(p.pending \ {s}, y.q) /\ Len(y.q) = Len(p.q) - 1
      /\ y.nfree = p.nfree + 1 /\ y.pending = p.pending
      /\ y.ST = p.ST /\ y.busy = p.busy /\ y.waitforclear = p.waitforclear
      /\ y.ci = p.ci /\ y.sact = p.sact
  <2>1. s = Head(p.q).slot
    OBVIOUS
  <2> QED
    BY <2>1, ReturnedFields DEF PortInv
<1>2. /\ p.ST /\ p.pending \in SUBSET Slot /\ s \in gout /\ s \notin built
      /\ table[s].ncq \in BOOLEAN /\ table[s].fails \in BOOLEAN /\ table[s].parts \in Nat
      /\ table[s].ncq => s \notin p.ci
  <2>1. TypeOK /\ Stopped /\ Owned /\ Marked
    BY DEF PortInv
  <2>2. p.ST
    BY <1>1, <2>1 DEF Stopped, TypeOK, PortState
  <2> QED
    BY <1>1, <2>1, <2>2, TableFacts DEF Owned, Marked, TypeOK, PortState
<1>3. /\ part = disk[s] + 1 /\ disk[s] \in Nat /\ part <= table[s].parts
      /\ disk'[s] \in Nat /\ disk'[s] <= table[s].parts
      /\ table[s].fails => disk'[s] = 0
      /\ \A t \in Slot : t # s => disk'[t] = disk[t]
  <2>1. Head(p.q) \in ToSet(p.q) /\ disk \in [Slot -> Nat]
    BY OthersInQueue DEF PortInv, TypeOK
  <2>2. NextPart(Head(p.q))
    BY <2>1 DEF PortInv, Progress, PartsInOrder
  <2>3. part = disk[s] + 1 /\ part <= table[s].parts /\ (table[s].fails => part = 1)
    BY <2>2 DEF NextPart
  <2>4. disk'[s] = IF table[s].fails THEN disk[s] ELSE disk[s] + 1
    BY <2>1
  <2>5. \A t \in Slot : t # s => disk'[t] = disk[t]
    BY <2>1
  <2> QED
    BY <1>2, <2>1, <2>3, <2>4, <2>5
<1>4. disk' \in [Slot -> Nat]
  BY <1>3 DEF PortInv, TypeOK
<1> HIDE DEF y
<1>5. /\ p' \in PortState
      /\ p'.ST = p.ST /\ p'.pending = p.pending \ {s}
      /\ p'.iobhd = y.iobhd /\ p'.q = y.q /\ p'.nfree = p.nfree + 1
      /\ table[s].ncq => p'.busy = p.busy /\ p'.ci = p.ci
      /\ ~ table[s].ncq => p'.busy = FALSE /\ p'.sact = p.sact
      /\ table[s].fails => p'.waitforclear /\ p'.ci = p.ci /\ p'.sact = p.sact
      /\ ~ table[s].fails =>
           /\ p'.waitforclear = p.waitforclear
           /\ table[s].ncq => p'.sact = p.sact \ {s}
           /\ ~ table[s].ncq => p'.ci = p.ci \ {s}
  <2> DEFINE z == Completed(y, s)
  <2>1. p' = z
    BY DEF y
  <2>2. /\ z \in PortState
        /\ z.ST = y.ST /\ z.pending = y.pending \ {s}
        /\ z.iobhd = y.iobhd /\ z.q = y.q /\ z.nfree = y.nfree
        /\ table[s].ncq => z.busy = y.busy /\ z.ci = y.ci
        /\ ~ table[s].ncq => z.busy = FALSE /\ z.sact = y.sact
        /\ table[s].fails => z.waitforclear /\ z.ci = y.ci /\ z.sact = y.sact
        /\ ~ table[s].fails =>
             /\ z.waitforclear = y.waitforclear
             /\ table[s].ncq => z.sact = y.sact \ {s}
             /\ ~ table[s].ncq => z.ci = y.ci \ {s}
    BY <1>1, <1>2, CompletedFields DEF PortInv
  <2> HIDE DEF z
  <2> QED
    BY <1>1, <2>1, <2>2
<1>6. table' = table /\ built' = built /\ gout' = gout
  BY DEF guestVars
<1>7. TypeOK'
  BY <1>4, <1>5 DEF PortInv, TypeOK, guestVars
<1>8. Flight'
  <2>1. Len(p.q) \in Nat /\ Len(p.iobhd) \in Nat /\ p.nfree \in Int /\ IoQsz \in Nat
    BY AhciPortAssumption DEF PortInv, TypeOK, PortState
  <2>2. Cardinality(p.pending \ {s}) = Cardinality(p.pending) - 1
    BY <1>1, <1>2, PendingCount
  <2>3. /\ Len(p.iobhd) = Cardinality(p.pending) /\ Len(p.q) = Len(p.iobhd)
        /\ p.nfree + Len(p.iobhd) = IoQsz
    BY DEF PortInv, Flight
  <2>4. /\ Len(p'.iobhd) = Cardinality(p'.pending) /\ Len(p'.q) = Len(p'.iobhd)
        /\ p'.nfree + Len(p'.iobhd) = IoQsz
    BY <1>1, <1>5, <2>1, <2>2, <2>3
  <2> QED
    BY <1>1, <1>5, <2>4 DEF Flight
<1>9. BusyHasOwner' /\ Stopped' /\ AllIssued'
  BY <1>2, <1>5, <1>6 DEF PortInv, BusyHasOwner, Stopped, AllIssued
<1>10. /\ ~ p'.waitforclear => Waiting(p)' \subseteq Waiting(p) /\ ~ p.waitforclear
       /\ Waiting(p)' \subseteq Waiting(p) \cup {s}
       /\ s \in Waiting(p)' => table[s].fails
  BY <1>2, <1>5 DEF Waiting
<1>11. Owned'
  BY <1>2, <1>5, <1>6, <1>10 DEF PortInv, Owned, Polled
<1>12. Marked'
  BY <1>2, <1>5, <1>6 DEF PortInv, Marked
<1>13. Progress'
  <2>1. PartsInOrder'
    <3>1. ASSUME NEW a \in ToSet(Tail(p.q)) PROVE NextPart(a)'
      <4>1. a \in ToSet(p.q) /\ a.slot # s
        BY OthersInQueue DEF PortInv
      <4>2. a.slot \in Slot
        BY <4>1 DEF PortInv, Flight, Queued, TypeOK, PortState
      <4>3. NextPart(a) /\ disk'[a.slot] = disk[a.slot]
        BY <1>3, <4>1, <4>2 DEF PortInv, Progress, PartsInOrder
      <4> QED
        BY <1>6, <4>3 DEF NextPart
    <3> QED
      BY <1>1, <1>5, <3>1 DEF PartsInOrder
  <2>2. Untouched'
    <3>1. \A t \in built \cup Waiting(p) : t \in Slot /\ disk[t] = 0 /\ t # s
      BY <1>1, <1>2 DEF PortInv, Progress, Untouched, Waiting, TypeOK, PortState
    <3> QED
      BY <1>3, <1>6, <1>10, <3>1 DEF Untouched
  <2>3. NotTwice'
    BY <1>3, <1>6 DEF PortInv, Progress, NotTwice
  <2> QED
    BY <2>1, <2>2, <2>3 DEF Progress
<1> QED
  BY <1>7, <1>8, <1>9, <1>11, <1>12, <1>13 DEF PortInv

LEMMA IoreqCbInv == ASSUME PortInv, IoreqCb PROVE PortInv'
<1> DEFINE s == Head(p.q).slot
           part == Head(p.q).part
<1>1. /\ pc = "drain" /\ p.q # <<>> /\ UNCHANGED guestVars
      /\ disk' = [disk EXCEPT ![s] = IF table[s].fails THEN @ ELSE @ + 1]
      /\ IF ~ table[s].fails /\ part < table[s].parts
           THEN p' = HandleRw(Returned(p, s), s, part + 1) /\ pc' \in {pc, "halted"}
           ELSE p' = Completed(Returned(p, s), s) /\ pc' = "callback"
  BY DEF IoreqCb, LockBcMtx
<1>2. Head(p.q) \in Request
  BY <1>1, OthersInQueue DEF PortInv
<1>3. s \in Slot /\ part \in Nat /\ Head(p.q) = [slot |-> s, part |-> part]
  BY <1>2 DEF Request
<1> HIDE DEF s, part
<1>4. CASE ~ table[s].fails /\ part < table[s].parts
  <2>1. disk' = [disk EXCEPT ![s] = @ + 1]
    BY <1>1, <1>4
  <2>2. /\ p' = HandleRw(Returned(p, s), s, part + 1) /\ pc' \in {pc, "halted"}
        /\ UNCHANGED guestVars
    BY <1>1, <1>4
  <2> QED
    BY <1>1, <1>3, <1>4, <2>1, <2>2, MoreInv
<1>5. CASE ~ (~ table[s].fails /\ part < table[s].parts)
  BY <1>1, <1>3, <1>5, CompletedInv
<1> QED
  BY <1>4, <1>5

LEMMA ThrReturnInv == ASSUME PortInv, ThrReturn PROVE PortInv'
<1>1. pc = "drain" /\ p.q = <<>> /\ pc' = "request" /\ UNCHANGED <<p, disk, guestVars>>
  BY DEF ThrReturn
<1>2. p.pending = {}
  BY <1>1, FlightFacts DEF PortInv
<1>3. ~ p.busy /\ (~ p.waitforclear => p.ci = {})
  BY <1>1, <1>2 DEF PortInv, BusyHasOwner, AllIssued, Stopped, Waiting
<1>4. TypeOK' /\ Flight' /\ BusyHasOwner' /\ Stopped' /\ Owned' /\ Marked' /\ Progress'
  BY <1>1 DEF PortInv, TypeOK, Flight, BusyHasOwner, Stopped, Owned, Marked, Progress,
              PartsInOrder, NextPart, Untouched, NotTwice, guestVars, Waiting, Polled
<1>5. AllIssued'
  BY <1>1, <1>2, <1>3 DEF AllIssued
<1> QED
  BY <1>4, <1>5 DEF PortInv

-----------------------------------------------------------------------------
(* The register accesses.  They meet a quiet port.                          *)

LEMMA QuietFacts ==
  ASSUME PortInv, pc = "request"
  PROVE  /\ p.pending = {} /\ p.q = <<>> /\ p.iobhd = <<>> /\ p.nfree = IoQsz
         /\ p.busy = FALSE /\ Waiting(p) = p.ci
         /\ ~ p.waitforclear => p.ci = {}
<1>1. p.pending = {} /\ ~ p.busy /\ (~ p.waitforclear => p.ci = {})
  BY DEF PortInv, AllIssued
<1>2. p.q = <<>> /\ p.iobhd = <<>> /\ p.nfree = IoQsz
  BY <1>1, FlightFacts DEF PortInv
<1> QED
  BY <1>1, <1>2 DEF Waiting, PortInv, TypeOK, PortState

(* A port that is still quiet after a step.                                 *)
Quiet ==
    /\ p.pending = {} /\ p.q = <<>> /\ p.iobhd = <<>> /\ p.nfree = IoQsz
    /\ p.busy = FALSE

LEMMA QuietSuffices ==
  Quiet => Flight /\ BusyHasOwner /\ PartsInOrder /\ Waiting(p) = p.ci
<1> SUFFICES ASSUME Quiet PROVE Flight /\ BusyHasOwner /\ PartsInOrder /\ Waiting(p) = p.ci
  OBVIOUS
<1>1. Cardinality({}) = 0
  BY FS_EmptySet
<1>2. Listed({}, <<>>) /\ Queued({}, <<>>) /\ ToSet(<<>>) = {}
  BY DEF Listed, Queued, ToSet
<1>3. Flight
  BY <1>1, <1>2, AhciPortAssumption DEF Quiet, Flight
<1> QED
  BY <1>2, <1>3 DEF Quiet, BusyHasOwner, PartsInOrder, Waiting

(* What is left to show for an access that keeps the port quiet.            *)
Rest == Stopped /\ AllIssued /\ Owned /\ Marked /\ Untouched /\ NotTwice

LEMMA QuietStep == ASSUME TypeOK', Quiet', Rest' PROVE PortInv'
<1>1. Flight' /\ BusyHasOwner' /\ PartsInOrder'
  BY QuietSuffices, PTL
<1> QED
  BY <1>1 DEF PortInv, Progress, Rest

LEMMA BuildInv ==
  ASSUME PortInv, NEW s \in Slot, NEW c \in Cmds, Build(s, c) PROVE PortInv'
<1>1. /\ pc = "request" /\ s \notin built \cup gout /\ built' = built \cup {s}
      /\ UNCHANGED <<p, pc, gout, handler, seen>>
      /\ table' = [table EXCEPT ![s] = c] /\ disk' = [disk EXCEPT ![s] = 0]
  BY DEF Build
<1>2. /\ Quiet /\ Waiting(p) = p.ci /\ (~ p.waitforclear => p.ci = {})
      /\ p.pending = {} /\ TypeOK
  BY <1>1, QuietFacts DEF Quiet, PortInv
<1>3. /\ \A t \in Slot : t # s => disk'[t] = disk[t] /\ table'[t] = table[t]
      /\ disk'[s] = 0 /\ table'[s] = c /\ c.parts \in Nat
  BY <1>1, <1>2, AhciPortAssumption DEF TypeOK, Command
<1>4. TypeOK' /\ Quiet'
  BY <1>1, <1>2 DEF TypeOK, Quiet
<1>5. Stopped' /\ AllIssued'
  BY <1>1, <1>2 DEF PortInv, Stopped, AllIssued
<1>6. Owned' /\ Marked'
  <2>1. \A t \in gout : t \in Slot /\ t # s
    BY <1>1, <1>2 DEF TypeOK
  <2>2. Waiting(p)' = Waiting(p)
    BY <1>1 DEF Waiting
  <2>3. Owned'
    BY <1>1, <1>2, <1>3, <2>1, <2>2 DEF PortInv, Owned, Polled
  <2>4. Marked'
    BY <1>1, <1>2, <1>3, <2>1 DEF PortInv, Marked
  <2> QED
    BY <2>3, <2>4
<1>7. Untouched' /\ NotTwice'
  <2>1. Waiting(p)' = Waiting(p) /\ Waiting(p) \subseteq Slot /\ built \subseteq Slot
    BY <1>1, <1>2 DEF Waiting, TypeOK, PortState
  <2> QED
    BY <1>1, <1>3, <2>1 DEF PortInv, Progress, Untouched, NotTwice
<1> QED
  BY <1>4, <1>5, <1>6, <1>7, QuietStep DEF Rest

LEMMA WriteSACTInv == ASSUME PortInv, WriteSACT PROVE PortInv'
<1> DEFINE ncq == {s \in built : table[s].ncq}
<1>1. /\ pc = "request" /\ p' = [p EXCEPT !.sact = @ \cup ncq] /\ pc' = "drain"
      /\ UNCHANGED <<disk, guestVars>> /\ ncq \subseteq built
  BY DEF WriteSACT
<1> HIDE DEF ncq
<1>2. /\ Quiet /\ Waiting(p) = p.ci /\ (~ p.waitforclear => p.ci = {}) /\ TypeOK
  BY <1>1, QuietFacts DEF Quiet, PortInv
<1>3. /\ p' \in PortState /\ p'.ST = p.ST /\ p'.ci = p.ci /\ p'.sact = p.sact \cup ncq
      /\ p'.waitforclear = p.waitforclear /\ Quiet'
  BY <1>1, <1>2 DEF Quiet, TypeOK, PortState
<1>4. TypeOK'
  BY <1>1, <1>2, <1>3 DEF TypeOK, guestVars
<1>5. Waiting(p)' = p.ci
  BY <1>3 DEF Waiting, Quiet
<1>6. Rest'
  BY <1>1, <1>2, <1>3, <1>5 DEF Rest, PortInv, Stopped, AllIssued, Owned, Marked, Progress,
     Untouched, NotTwice, Quiet, guestVars, Polled
<1> QED
  BY <1>3, <1>4, <1>6, QuietStep

LEMMA WriteCIInv == ASSUME PortInv, NEW S \in SUBSET Slot, WriteCI(S) PROVE PortInv'
<1>1. /\ pc = "request" /\ p.ST /\ S \subseteq built
      /\ \A s \in S : table[s].ncq => s \in p.sact
      /\ \A s \in S \cup gout : Polled(s) => S \cup gout = {s}
      /\ p' = [p EXCEPT !.ci = @ \cup S] /\ pc' = "handle"
      /\ built' = built \ S /\ gout' = gout \cup S
      /\ UNCHANGED <<table, disk, handler, seen>>
  BY DEF WriteCI
<1>2. /\ Quiet /\ Waiting(p) = p.ci /\ (~ p.waitforclear => p.ci = {}) /\ TypeOK
  BY <1>1, QuietFacts DEF Quiet, PortInv
<1>3. /\ p' \in PortState /\ p'.ST = p.ST /\ p'.ci = p.ci \cup S /\ p'.sact = p.sact
      /\ p'.waitforclear = p.waitforclear /\ Quiet'
  BY <1>1, <1>2 DEF Quiet, TypeOK, PortState
<1>4. TypeOK'
  BY <1>1, <1>2, <1>3 DEF TypeOK
<1>5. Waiting(p)' = p.ci \cup S
  BY <1>3 DEF Waiting, Quiet
<1>6. Stopped' /\ AllIssued'
  BY <1>1, <1>3 DEF Stopped, AllIssued
<1>7. Owned'
  <2>1. \A s \in gout' : Polled(s)' => gout' = {s}
    BY <1>1 DEF Polled
  <2> QED
    BY <1>1, <1>2, <1>3, <1>5, <2>1 DEF PortInv, Owned, Quiet
<1>8. Marked' /\ Untouched' /\ NotTwice'
  BY <1>1, <1>2, <1>3, <1>5 DEF PortInv, Marked, Progress, Untouched, NotTwice, Quiet
<1> QED
  BY <1>3, <1>4, <1>6, <1>7, <1>8, QuietStep DEF Rest

(* Nothing is queued, so ahci_port_stop cancels nothing and ends the stop.  *)
LEMMA PortStopFields ==
  ASSUME NEW x \in PortState, ~ x.ST, x.pending = {}, x.q = <<>>, x.iobhd = <<>>,
         x.nfree = IoQsz
  PROVE  LET y == PortStop(x) IN
         /\ y \in PortState /\ y.ST = x.ST /\ y.busy = x.busy
         /\ y.ci = {} /\ y.sact = {} /\ y.waitforclear = FALSE
         /\ y.pending = {} /\ y.q = <<>> /\ y.iobhd = <<>> /\ y.nfree = IoQsz
<1> DEFINE cancelled == {x.q[i].slot : i \in DOMAIN x.q}
           kept == Entries(x.iobhd, {i \in DOMAIN x.iobhd : x.iobhd[i] \notin cancelled})
           w == [x EXCEPT !.sact = {s \in @ : s \notin cancelled \/ ~ table[s].ncq},
                          !.ci = {s \in @ : s \notin cancelled \/ table[s].ncq},
                          !.pending = @ \ cancelled,
                          !.iobhd = kept,
                          !.nfree = @ + Len(x.iobhd) - Len(kept),
                          !.q = <<>>]
           y == PortStop(x)
<1>1. y = CheckStopped(w)
  BY DEF PortStop
<1>2. kept = <<>>
  <2>1. {i \in DOMAIN x.iobhd : x.iobhd[i] \notin cancelled} = {}
    OBVIOUS
  <2>2. Cardinality({}) = 0
    BY FS_EmptySet
  <2>3. \A list : Entries(list, {}) = <<>>
    BY <2>2 DEF Entries
  <2> QED
    BY <2>1, <2>3
<1>3. IoQsz + Len(<<>>) - Len(<<>>) = IoQsz /\ IoQsz \in 0 .. IoQsz
  BY AhciPortAssumption
<1>4. /\ w \in PortState /\ w.ST = x.ST /\ w.busy = x.busy /\ w.pending = {}
      /\ w.q = <<>> /\ w.iobhd = <<>> /\ w.nfree = IoQsz
  <2>1. /\ {s \in x.sact : s \notin cancelled \/ ~ table[s].ncq} \in SUBSET Slot
        /\ {s \in x.ci : s \notin cancelled \/ table[s].ncq} \in SUBSET Slot
        /\ x.pending \ cancelled = {}
    BY DEF PortState
  <2> HIDE DEF cancelled, kept
  <2> QED
    BY <1>2, <1>3, <2>1 DEF PortState
<1> HIDE DEF w, y
<1>5. y = [w EXCEPT !.ccs = 0, !.ci = {}, !.sact = {}, !.waitforclear = FALSE]
  BY <1>1, <1>4 DEF CheckStopped
<1>6. 0 \in Slot
  BY AhciPortAssumption DEF Slot
<1> QED
  BY <1>4, <1>5, <1>6 DEF PortState, y

LEMMA WriteCMDInv ==
  ASSUME PortInv, NEW st \in BOOLEAN, NEW clo \in BOOLEAN, WriteCMD(st, clo) PROVE PortInv'
<1> DEFINE x == IF st THEN [p EXCEPT !.ST = TRUE] ELSE PortStop([p EXCEPT !.ST = FALSE])
<1>1. /\ pc = "request" /\ pc' = "handle" /\ p' = [x EXCEPT !.busy = @ /\ ~ clo]
      /\ gout' = IF st THEN gout ELSE {}
      /\ UNCHANGED <<disk, table, built, handler, seen>>
  BY DEF WriteCMD
<1>2. /\ Quiet /\ Waiting(p) = p.ci /\ (~ p.waitforclear => p.ci = {}) /\ TypeOK
  BY <1>1, QuietFacts DEF Quiet, PortInv
<1>3. /\ x \in PortState /\ x.pending = {} /\ x.q = <<>> /\ x.iobhd = <<>>
      /\ x.nfree = IoQsz /\ x.busy = FALSE
      /\ \/ st /\ x.ST /\ x.ci = p.ci /\ x.sact = p.sact /\ x.waitforclear = p.waitforclear
         \/ ~ st /\ ~ x.ST /\ x.ci = {} /\ x.sact = {} /\ x.waitforclear = FALSE
  <2>1. CASE st
    <3>1. x = [p EXCEPT !.ST = TRUE]
      BY <2>1
    <3> HIDE DEF x
    <3> QED
      BY <1>2, <2>1, <3>1 DEF TypeOK, PortState, Quiet
  <2>2. CASE ~ st
    <3> DEFINE w == [p EXCEPT !.ST = FALSE]
    <3>1. x = PortStop(w)
      BY <2>2
    <3>2. /\ w \in PortState /\ ~ w.ST /\ w.pending = {} /\ w.q = <<>> /\ w.iobhd = <<>>
          /\ w.nfree = IoQsz /\ w.busy = FALSE
      BY <1>2 DEF TypeOK, PortState, Quiet
    <3> HIDE DEF w, x
    <3> QED
      BY <2>2, <3>1, <3>2, PortStopFields
  <2> QED
    BY <2>1, <2>2
<1> HIDE DEF x
<1>4. p' = [x EXCEPT !.busy = FALSE]
  <2>1. (x.busy /\ ~ clo) = FALSE
    BY <1>3
  <2> QED
    BY <1>1, <2>1
<1>5. /\ p' \in PortState /\ p'.ST = x.ST /\ p'.ci = x.ci /\ p'.sact = x.sact
      /\ p'.waitforclear = x.waitforclear /\ Quiet' /\ Waiting(p)' = x.ci
  BY <1>3, <1>4 DEF Quiet, PortState, Waiting
<1>6. TypeOK'
  BY <1>1, <1>2, <1>5 DEF TypeOK
<1>7. Untouched' /\ NotTwice'
  BY <1>1, <1>2, <1>3, <1>5 DEF PortInv, Progress, Untouched, NotTwice
<1>8. CASE st
  <2>1. gout' = gout
    BY <1>1, <1>8
  <2>2. p'.ST /\ p'.ci = p.ci /\ p'.sact = p.sact /\ p'.waitforclear = p.waitforclear
    BY <1>3, <1>5, <1>8
  <2>3. Stopped' /\ AllIssued'
    BY <1>1, <2>2 DEF Stopped, AllIssued
  <2>4. Owned' /\ Marked'
    BY <1>1, <1>2, <1>3, <1>5, <2>1, <2>2 DEF PortInv, Owned, Marked, Polled, Quiet
  <2> QED
    BY <1>5, <1>6, <1>7, <2>3, <2>4, QuietStep DEF Rest
<1>9. CASE ~ st
  <2>1. gout' = {}
    BY <1>1, <1>9
  <2>2. ~ p'.ST /\ p'.ci = {}
    BY <1>3, <1>5, <1>9
  <2> QED
    BY <1>1, <1>5, <1>6, <1>7, <2>1, <2>2, QuietStep
      DEF Rest, Stopped, AllIssued, Owned, Marked, Quiet
<1> QED
  BY <1>8, <1>9

LEMMA WriteSCTLInv == ASSUME PortInv, WriteSCTL PROVE PortInv'
<1>1. /\ pc = "request" /\ ~ p.ST /\ p' = PortReset(p) /\ pc' = "drain"
      /\ UNCHANGED <<disk, guestVars>>
  BY DEF WriteSCTL
<1>2. /\ Quiet /\ Waiting(p) = p.ci /\ (~ p.waitforclear => p.ci = {}) /\ TypeOK /\ gout = {}
  BY <1>1, QuietFacts DEF Quiet, PortInv, Stopped
<1>3. /\ p' \in PortState /\ p'.ST = p.ST /\ p'.ci = p.ci
      /\ p'.waitforclear = p.waitforclear /\ Quiet' /\ Waiting(p)' = p.ci
  BY <1>1, <1>2, PortResetFields DEF Quiet, TypeOK, Waiting
<1>4. TypeOK'
  BY <1>1, <1>2, <1>3 DEF TypeOK, guestVars
<1>5. Rest'
  BY <1>1, <1>2, <1>3 DEF Rest, PortInv, Stopped, AllIssued, Owned, Marked, Progress,
     Untouched, NotTwice, Quiet, guestVars
<1> QED
  BY <1>3, <1>4, <1>5, QuietStep

LEMMA HbaResetInv == ASSUME PortInv, HbaReset PROVE PortInv'
<1> DEFINE x == [p EXCEPT !.ST = FALSE, !.is = {}]
<1>1. /\ pc = "request" /\ p' = PortReset(x) /\ pc' = "drain"
      /\ built' = {} /\ gout' = {} /\ handler' = "idle" /\ seen' = {}
      /\ UNCHANGED <<table, disk>>
  BY DEF HbaReset
<1>2. /\ Quiet /\ Waiting(p) = p.ci /\ (~ p.waitforclear => p.ci = {}) /\ TypeOK
  BY <1>1, QuietFacts DEF Quiet, PortInv
<1>3. /\ x \in PortState /\ x.ST = FALSE /\ x.ci = p.ci /\ x.waitforclear = p.waitforclear
      /\ x.pending = p.pending /\ x.q = p.q /\ x.iobhd = p.iobhd /\ x.nfree = p.nfree
  BY <1>2 DEF TypeOK, PortState
<1> HIDE DEF x
<1>4. /\ p' \in PortState /\ ~ p'.ST /\ p'.ci = p.ci
      /\ p'.waitforclear = p.waitforclear /\ Quiet' /\ Waiting(p)' = p.ci
  BY <1>1, <1>2, <1>3, PortResetFields DEF Quiet, Waiting
<1>5. TypeOK'
  BY <1>1, <1>2, <1>4 DEF TypeOK
<1>6. Rest'
  BY <1>1, <1>2, <1>4 DEF Rest, PortInv, Stopped, AllIssued, Owned, Marked, Progress,
     Untouched, NotTwice, Quiet
<1> QED
  BY <1>4, <1>5, <1>6, QuietStep

(* The accesses of the driver's handler.                                    *)
LEMMA HandlerInv ==
  ASSUME PortInv, ReadIS \/ WriteIS \/ ReadCI PROVE PortInv'
<1>1. /\ pc = "request" /\ pc' = "drain" /\ UNCHANGED <<disk, table, built>>
      /\ gout' \subseteq gout /\ (p' = p \/ p' = [p EXCEPT !.is = @ \ seen])
      /\ handler' \in {"idle", "ack", "look"} /\ seen' \in {p.is, seen, {}}
  BY DEF ReadIS, WriteIS, ReadCI, PortInv, TypeOK
<1>2. /\ Quiet /\ Waiting(p) = p.ci /\ (~ p.waitforclear => p.ci = {}) /\ TypeOK
      /\ p.is \in SUBSET PortIrq
  BY <1>1, QuietFacts DEF Quiet, PortInv, TypeOK, PortState
<1>3. /\ p' \in PortState /\ p'.ST = p.ST /\ p'.ci = p.ci /\ p'.sact = p.sact
      /\ p'.waitforclear = p.waitforclear /\ Quiet' /\ Waiting(p)' = p.ci
  <2>1. CASE p' = p
    BY <1>2, <2>1 DEF TypeOK, Quiet, Waiting
  <2>2. CASE p' = [p EXCEPT !.is = @ \ seen]
    BY <1>2, <2>2 DEF TypeOK, PortState, Quiet, Waiting
  <2> QED
    BY <1>1, <2>1, <2>2
<1>4. TypeOK'
  BY <1>1, <1>2, <1>3 DEF TypeOK
<1>5. Rest'
  BY <1>1, <1>2, <1>3 DEF Rest, PortInv, Stopped, AllIssued, Owned, Marked, Progress,
     Untouched, NotTwice, Quiet, Polled
<1> QED
  BY <1>3, <1>4, <1>5, QuietStep

-----------------------------------------------------------------------------
LEMMA NextPortInv == ASSUME PortInv, [Next]_vars PROVE PortInv'
<1>1. CASE Halted \/ UNCHANGED vars
  BY <1>1 DEF Halted, vars, guestVars, PortInv, TypeOK, Flight, BusyHasOwner, Stopped, AllIssued,
     Owned, Marked, Progress, PartsInOrder, NextPart, Untouched, NotTwice, Waiting, Polled
<1> QED
  BY <1>1, HandlePortInv, IoreqCbInv, ThrReturnInv, BuildInv, WriteSACTInv, WriteCIInv,
     WriteCMDInv, WriteSCTLInv, HbaResetInv, HandlerInv DEF Next

(* The invariant behind the others: on every reachable state the lists of   *)
(* the port agree with pending, BSY has an owner whose end clears it, what  *)
(* runs is the driver's, and the queued requests are for the next parts.    *)
THEOREM PortInvHolds == Spec => []PortInv
<1>1. Init => PortInv
  BY InitPortInv
<1>2. PortInv /\ [Next]_vars => PortInv'
  BY NextPortInv
<1> QED
  BY <1>1, <1>2, PTL DEF Spec

(* No register access finds I/O in flight, so ahci_port_stop, COMRESET and  *)
(* GHC.HR may do without waiting for it; each slot in flight has exactly    *)
(* one request on iobhd and in the block interface's queue; the free list   *)
(* never runs out (assert(aior != NULL)).                                   *)
THEOREM Inductive == Spec => []IInv
<1>1. PortInv => IInv
  <2> SUFFICES ASSUME PortInv PROVE IInv
    OBVIOUS
  <2>1. InFlightOnce
    BY FlightFacts DEF PortInv
  <2>2. QuietAtRequest
    BY QuietFacts DEF QuietAtRequest
  <2> QED
    BY <2>1, <2>2 DEF IInv, PortInv
<1> QED
  BY <1>1, PortInvHolds, PTL

(* ahci_handle_port, called again from the end of every callback, issues    *)
(* every command before the next access is served.                          *)
THEOREM NoCommandIsLeftBehind == Spec => []NothingLeftBehind
<1>1. PortInv => NothingLeftBehind
  BY DEF PortInv, AllIssued, NothingLeftBehind
<1> QED
  BY <1>1, PortInvHolds, PTL

(* Neither a stop nor a reset leaves a bit in PxCI that a later start would *)
(* take for a command of the driver.                                        *)
THEOREM NoStaleCommandRuns == Spec => []OnlyIssuedCommandsRun
<1>1. PortInv => OnlyIssuedCommandsRun
  BY DEF PortInv, Owned, OnlyIssuedCommandsRun
<1> QED
  BY <1>1, PortInvHolds, PTL

-----------------------------------------------------------------------------
(* The end of a command.  Of the driver's commands whose bits a step leaves *)
(* clear, each had ended before, or ends now, done and told.                *)
Ended(s) == s \in gout /\ s \notin p.ci \cup p.sact
Told == p.is # {} \/ handler # "idle"

EndStep(s) ==
    \/ /\ Ended(s) /\ disk'[s] = disk[s] /\ table'[s] = table[s]
       /\ Told => Told'
    \/ disk'[s] = table'[s].parts /\ (Told' \/ Polled(s)')

LEMMA HandlePortEnds ==
  ASSUME PortInv, HandlePort, NEW t \in Slot, Ended(t)' PROVE EndStep(t)
<1>1. /\ disk' = disk /\ table' = table /\ gout' = gout /\ handler' = handler
  BY HandlePortCases DEF guestVars
<1>2. CASE p' = p
  BY <1>1, <1>2 DEF Ended, EndStep, Told
<1>3. ASSUME p.ST, ~ p.waitforclear, NEW s \in Waiting(p),
             \/ table[s].kind \in {"rw", "flush", "trim"} /\ Taken(p, p', s)
             \/ table[s].kind \in {"notrim", "imm", "bad"} /\ Answered(p, p', s)
             \/ Polled(s) /\ ResetSeen(p, p', s)
      PROVE  EndStep(t)
  <2>1. /\ s \in Slot /\ s \in p.ci /\ s \in gout /\ disk[s] = 0
        /\ table[s].ncq => s \in p.sact
    BY <1>3 DEF Waiting, PortInv, Owned, Marked, Progress, Untouched, TypeOK, PortState
  <2>2. CASE t = s
    <3>1. ~ (table[s].kind \in {"rw", "flush", "trim"} /\ Taken(p, p', s))
      <4>1. table[s].ncq \in BOOLEAN
        BY <2>1, TableFacts DEF PortInv
      <4> QED
        BY <1>1, <2>1, <2>2, <4>1 DEF Taken, Ended
    <3>2. table[s].parts = 0
      BY <1>3, <2>1, <3>1, TableFacts DEF PortInv
    <3>3. p'.is # {} \/ Polled(s)'
      BY <1>1, <1>3, <3>1 DEF Answered, Polled
    <3> QED
      BY <1>1, <2>1, <2>2, <3>2, <3>3 DEF EndStep, Told
  <2>3. CASE t # s
    <3>1. ~ Polled(s)
      BY <1>1, <2>1, <2>3 DEF PortInv, Owned, Ended
    <3>2. Ended(t)
      BY <1>1, <1>3, <2>3, <3>1 DEF Ended, Taken, Answered
    <3>3. p.is # {} => p'.is # {}
      BY <1>3, <3>1 DEF Taken, Answered
    <3> QED
      BY <1>1, <3>2, <3>3 DEF EndStep, Told
  <2> QED
    BY <2>2, <2>3
<1> QED
  BY <1>2, <1>3, HandlePortCases

LEMMA IoreqCbEnds ==
  ASSUME PortInv, IoreqCb, NEW t \in Slot, Ended(t)' PROVE EndStep(t)
<1> DEFINE s == Head(p.q).slot
           part == Head(p.q).part
<1>1. /\ p.q # <<>> /\ UNCHANGED guestVars
      /\ disk' = [disk EXCEPT ![s] = IF table[s].fails THEN @ ELSE @ + 1]
      /\ IF ~ table[s].fails /\ part < table[s].parts
           THEN p' = HandleRw(Returned(p, s), s, part + 1)
           ELSE p' = Completed(Returned(p, s), s)
  BY DEF IoreqCb
<1>2. TypeOK /\ Flight /\ Stopped /\ Owned /\ Marked
  BY DEF PortInv
<1>3. /\ Head(p.q) \in ToSet(p.q) /\ Head(p.q) \in Request
      /\ NextPart(Head(p.q))
  BY <1>1, <1>2, OthersInQueue DEF PortInv, Progress, PartsInOrder
<1>4. s \in Slot /\ part \in Nat /\ part = disk[s] + 1 /\ part <= table[s].parts
  BY <1>3 DEF Request, NextPart
<1> DEFINE y == Returned(p, s)
<1>5. /\ y \in PortState /\ s \in p.pending /\ y.ST = p.ST /\ y.is = p.is /\ y.nfree # 0
      /\ y.ci = p.ci /\ y.sact = p.sact
  <2>1. s = Head(p.q).slot
    OBVIOUS
  <2> HIDE DEF s, part
  <2>2. y \in PortState /\ s \in p.pending /\ y.ST = p.ST /\ y.is = p.is
        /\ y.ci = p.ci /\ y.sact = p.sact /\ y.nfree = p.nfree + 1
    BY <1>1, <1>2, <2>1, ReturnedFields
  <2>3. p.nfree \in Nat
    BY <1>2, AhciPortAssumption DEF TypeOK, PortState
  <2> QED
    BY <2>2, <2>3
<1> HIDE DEF s, part, y
<1>6. /\ table[s].parts \in Nat /\ table[s].ncq \in BOOLEAN /\ table[s].fails \in BOOLEAN
      /\ p.ST /\ s \in gout /\ s \in p.ci \cup p.sact
      /\ table[s].ncq => s \notin p.ci /\ s \in p.sact
      /\ ~ table[s].ncq => s \in p.ci
      /\ disk'[s] = IF table[s].fails THEN disk[s] ELSE part
      /\ t # s => disk'[t] = disk[t]
  <2>1. p.ST
    BY <1>2, <1>5 DEF Stopped, TypeOK, PortState
  <2>2. s \in gout /\ (table[s].ncq => s \notin p.ci /\ s \in p.sact)
        /\ (~ table[s].ncq => s \in p.ci)
    BY <1>2, <1>5 DEF Owned, Marked
  <2>3. disk \in [Slot -> Nat]
    BY <1>2 DEF TypeOK
  <2>4. /\ disk'[s] = IF table[s].fails THEN disk[s] ELSE disk[s] + 1
        /\ t # s => disk'[t] = disk[t]
    BY <1>1, <1>4, <2>3
  <2> QED
    BY <1>2, <1>4, <2>1, <2>2, <2>4, TableFacts
<1>7. table' = table /\ gout' = gout /\ handler' = handler
  BY <1>1 DEF guestVars
<1>8. CASE ~ table[s].fails /\ part < table[s].parts
  <2> DEFINE k == part + 1
             z == Submit(y, s, k)
  <2>1. p' = z
    <3>1. part + 1 # 1
      <4>1. disk[s] \in Nat
        BY <1>2, <1>4 DEF TypeOK
      <4> QED
        BY <1>4, <4>1
    <3> QED
      BY <1>1, <1>8, <3>1 DEF HandleRw, y
  <2>2. k \in Nat
    BY <1>4
  <2> HIDE DEF k
  <2>3. z.ci = y.ci /\ z.sact = y.sact /\ z.is = y.is
    BY <1>4, <1>5, <2>2, SubmitFields
  <2> HIDE DEF z
  <2>4. p'.ci = p.ci /\ p'.sact = p.sact /\ p'.is = p.is
    BY <1>5, <2>1, <2>3
  <2>5. t # s /\ Ended(t)
    BY <1>6, <1>7, <2>4 DEF Ended
  <2> QED
    BY <1>6, <1>7, <2>4, <2>5 DEF EndStep, Told
<1>9. CASE ~ (~ table[s].fails /\ part < table[s].parts)
  <2> DEFINE z == Completed(y, s)
  <2>1. p' = z
    BY <1>1, <1>9 DEF y
  <2>2. /\ z.is # {}
        /\ table[s].ncq => z.ci = y.ci
        /\ ~ table[s].ncq => z.sact = y.sact
        /\ table[s].fails => z.ci = y.ci /\ z.sact = y.sact
        /\ ~ table[s].fails => /\ table[s].ncq => z.sact = y.sact \ {s}
                               /\ ~ table[s].ncq => z.ci = y.ci \ {s}
    BY <1>2, <1>4, <1>5, <1>6, CompletedFields
  <2> HIDE DEF z
  <2>3. Told'
    BY <2>1, <2>2 DEF Told
  <2>4. CASE t = s
    <3>1. ~ table[s].fails
      BY <1>5, <1>6, <2>1, <2>2, <2>4 DEF Ended
    <3>2. disk'[s] = table[s].parts
      BY <1>4, <1>6, <1>9, <3>1
    <3> QED
      BY <1>7, <2>3, <2>4, <3>2 DEF EndStep
  <2>5. CASE t # s
    <3>1. Ended(t)
      BY <1>5, <1>6, <1>7, <2>1, <2>2, <2>5 DEF Ended
    <3> QED
      BY <1>6, <1>7, <2>3, <2>5, <3>1 DEF EndStep
  <2> QED
    BY <2>4, <2>5
<1> QED
  BY <1>8, <1>9

(* No register access ends a command.                                       *)
LEMMA AccessEnds ==
  ASSUME PortInv, NEW t \in Slot, Ended(t)',
         \/ ThrReturn
         \/ \E s \in Slot, c \in Cmds : Build(s, c)
         \/ WriteSACT
         \/ \E S \in SUBSET Slot : WriteCI(S)
         \/ \E st, clo \in BOOLEAN : WriteCMD(st, clo)
         \/ WriteSCTL
         \/ HbaReset
         \/ ReadIS \/ WriteIS \/ ReadCI
         \/ Halted \/ UNCHANGED vars
  PROVE  EndStep(t)
<1>0. /\ p \in PortState /\ disk \in [Slot -> Nat] /\ table \in [Slot -> Cmds]
      /\ ~ p.ST => gout = {}
  BY DEF PortInv, TypeOK, Stopped
<1>1. CASE ThrReturn \/ Halted \/ UNCHANGED vars
  BY <1>1 DEF ThrReturn, Halted, vars, guestVars, Ended, EndStep, Told
<1>2. CASE \E s \in Slot, c \in Cmds : Build(s, c)
  <2>1. PICK s \in Slot, c \in Cmds : Build(s, c)
    BY <1>2
  <2>2. s # t
    BY <2>1 DEF Build, Ended
  <2> QED
    BY <1>0, <2>1, <2>2 DEF Build, Ended, EndStep, Told
<1>3. CASE WriteSACT
  BY <1>0, <1>3 DEF WriteSACT, PortState, guestVars, Ended, EndStep, Told
<1>4. CASE \E S \in SUBSET Slot : WriteCI(S)
  <2>1. PICK S \in SUBSET Slot : WriteCI(S)
    BY <1>4
  <2> QED
    BY <1>0, <2>1 DEF WriteCI, PortState, Ended, EndStep, Told
<1>5. CASE \E st, clo \in BOOLEAN : WriteCMD(st, clo)
  <2>1. PICK st \in BOOLEAN, clo \in BOOLEAN : WriteCMD(st, clo)
    BY <1>5
  <2>2. st /\ gout' = gout
    BY <2>1 DEF WriteCMD, Ended
  <2> DEFINE b == (p.busy /\ ~ clo)
  <2>3. p' = [[p EXCEPT !.ST = TRUE] EXCEPT !.busy = b]
    BY <1>0, <2>1, <2>2 DEF WriteCMD, PortState
  <2> HIDE DEF b
  <2>4. p'.ci = p.ci /\ p'.sact = p.sact /\ p'.is = p.is
    BY <1>0, <2>3 DEF PortState
  <2> QED
    BY <2>1, <2>2, <2>4 DEF WriteCMD, Ended, EndStep, Told
<1>6. CASE WriteSCTL
  BY <1>0, <1>6 DEF WriteSCTL, guestVars, Ended
<1>7. CASE HbaReset
  BY <1>7 DEF HbaReset, Ended
<1>8. CASE ReadIS
  BY <1>8 DEF ReadIS, Ended, EndStep, Told
<1>9. CASE WriteIS
  BY <1>0, <1>9 DEF WriteIS, PortState, Ended, EndStep, Told
<1>10. CASE ReadCI
  BY <1>10 DEF ReadCI, Ended
<1> QED
  BY <1>1, <1>2, <1>3, <1>4, <1>5, <1>6, <1>7, <1>8, <1>9, <1>10

LEMMA NextEnds ==
  ASSUME PortInv, [Next]_vars PROVE \A s \in Slot : Ended(s)' => EndStep(s)
  BY HandlePortEnds, IoreqCbEnds, AccessEnds DEF Next

(* A command whose bits in PxCI and PxSACT are clear has been done, every   *)
(* part of it once: no answer before the last part's callback, and none     *)
(* after a failed part.                                                     *)
THEOREM AnsweredMeansDone == Spec => []DoneMeansDone
<1> DEFINE D == \A s \in Slot : Ended(s) => disk[s] = table[s].parts
<1>1. Init => D
  BY DEF Init, Ended
<1>2. PortInv /\ D /\ [Next]_vars => D'
  BY NextEnds DEF EndStep
<1>3. PortInv /\ D => DoneMeansDone
  BY DEF PortInv, TypeOK, Progress, NotTwice, DoneMeansDone, Ended
<1> QED
  BY <1>1, <1>2, <1>3, PortInvHolds, PTL DEF Spec

(* The driver is told of every end: an interrupt is pending in PxIS, or its *)
(* handler has read one and has not looked at PxCI and PxSACT since.        *)
THEOREM EveryEndIsTold == Spec => []CompletionIsTold
<1> DEFINE T == \A s \in Slot : Ended(s) /\ ~ Polled(s) => Told
<1>1. Init => T
  BY DEF Init, Ended
<1>2. PortInv /\ T /\ [Next]_vars => T'
  BY NextEnds DEF EndStep, Polled
<1>3. PortInv /\ T => CompletionIsTold
  BY DEF PortInv, TypeOK, CompletionIsTold, Ended, Told
<1> QED
  BY <1>1, <1>2, <1>3, PortInvHolds, PTL DEF Spec

-----------------------------------------------------------------------------
(* AhciPrdt.  The sums of its definitions are recursive, and the sets of    *)
(* regions it takes are intervals; both are shown by looking at the least   *)
(* number for which it would fail.                                          *)

LEMMA Smallest ==
  ASSUME NEW S, S \subseteq Nat, S # {} PROVE \E x \in S : \A y \in S : x <= y
<1> DEFINE R == OpToRel(<, Nat)
<1>1. IsWellFoundedOn(R, Nat)
  BY NatLessThanWellFounded
<1>2. \A a, b \in Nat : <<a, b>> \in R <=> a < b
  BY DEF OpToRel
<1> HIDE DEF R
<1>3. PICK x \in S : \A y \in S : ~ (<<y, x>> \in R)
  BY <1>1, WFMin
<1>4. ASSUME NEW y \in S PROVE x <= y
  <2>1. x \in Nat /\ y \in Nat /\ ~ (y < x)
    BY <1>2, <1>3
  <2> QED
    BY <2>1
<1> QED
  BY <1>4

(* A set that has every number below each of its own is an interval.        *)
LEMMA NoHoles ==
  ASSUME NEW b \in Nat, NEW D, D \subseteq 1 .. b,
         \A j \in D : \A i \in 1 .. j : i \in D
  PROVE  \E n \in 0 .. b : D = 1 .. n
<1> DEFINE S == (1 .. b + 1) \ D
<1>1. S \subseteq Nat /\ b + 1 \in S
  OBVIOUS
<1>2. PICK x \in S : \A y \in S : x <= y
  BY <1>1, Smallest
<1>3. x \in 1 .. b + 1 /\ x \notin D /\ \A y \in 1 .. b + 1 : y \notin D => x <= y
  BY <1>2
<1>4. x - 1 \in 0 .. b
  BY <1>3
<1>5. ASSUME NEW i \in 1 .. x - 1 PROVE i \in D
  BY <1>3, <1>5
<1>6. ASSUME NEW i \in D PROVE i \in 1 .. x - 1
  <2>1. i \in 1 .. b /\ ~ (x <= i)
    BY <1>3, <1>6
  <2> QED
    BY <2>1, <1>3
<1>7. D = 1 .. x - 1
  BY <1>5, <1>6
<1> QED
  BY <1>4, <1>7

-----------------------------------------------------------------------------
(* The recursion that Sums stands for.                                      *)
IsSums(f, s) == s = [k \in 0 .. Len(f) |-> IF k = 0 THEN 0 ELSE s[k - 1] + f[k]]

LEMMA SumsIsIf == ASSUME NEW f, NEW t, IsSums(f, t) PROVE IsSums(f, Sums(f))
  BY Zenon DEF IsSums, Sums

(* Running totals of f.                                                     *)
Totals(f, t) ==
    t \in [0 .. Len(f) -> Int] /\ t[0] = 0 /\ \A k \in 1 .. Len(f) : t[k] = t[k - 1] + f[k]

(* Whatever adds up as Sums does is Sums.                                   *)
LEMMA SumsAre ==
  ASSUME NEW f \in Seq(Nat), NEW t, Totals(f, t)
  PROVE  \A k \in 0 .. Len(f) : Sums(f)[k] = t[k]
<1>0. Len(f) \in Nat /\ t \in [0 .. Len(f) -> Int] /\ t[0] = 0
  BY DEF Totals
<1>1. \A k \in 1 .. Len(f) : t[k] = t[k - 1] + f[k]
  BY DEF Totals
<1>2. \A k \in 0 .. Len(f) : t[k] = IF k = 0 THEN 0 ELSE t[k - 1] + f[k]
  BY <1>0, <1>1
<1>3. IsSums(f, t)
  BY <1>0, <1>2 DEF IsSums
<1> DEFINE s == Sums(f)
<1>4. IsSums(f, s)
  BY <1>3, SumsIsIf
<1> HIDE DEF s
<1>5. \A k \in 0 .. Len(f) : s[k] = IF k = 0 THEN 0 ELSE s[k - 1] + f[k]
  BY <1>4 DEF IsSums
<1> DEFINE S == {k \in 0 .. Len(f) : s[k] # t[k]}
<1>6. SUFFICES ASSUME S # {} PROVE FALSE
  BY DEF s
<1>7. S \subseteq Nat
  BY <1>0
<1>8. PICK x \in S : \A y \in S : x <= y
  BY <1>6, <1>7, Smallest
<1>9. x \in 0 .. Len(f) /\ s[x] # t[x] /\ \A y \in 0 .. Len(f) : s[y] # t[y] => x <= y
  BY <1>8
<1>10. CASE x = 0
  BY <1>0, <1>5, <1>9, <1>10
<1>11. CASE x # 0
  <2>1. x \in 1 .. Len(f) /\ x - 1 \in 0 .. Len(f) /\ ~ (x <= x - 1)
    BY <1>0, <1>9, <1>11
  <2>2. s[x - 1] = t[x - 1]
    BY <1>9, <2>1
  <2> QED
    BY <1>1, <1>5, <1>9, <1>11, <2>1, <2>2
<1> QED
  BY <1>10, <1>11

(* Every sequence has running totals, so that Sums is what it says.         *)
LEMMA TotalsExist ==
  ASSUME NEW f \in Seq(Nat) PROVE \E t \in [0 .. Len(f) -> Nat] : Totals(f, t)
<1> DEFINE P(m, t) == t \in [0 .. m -> Nat] /\ t[0] = 0 /\ \A k \in 1 .. m : t[k] = t[k - 1] + f[k]
           S == {m \in 0 .. Len(f) : ~ \E t : P(m, t)}
<1>0. Len(f) \in Nat /\ \A k \in 1 .. Len(f) : f[k] \in Nat
  OBVIOUS
<1>1. SUFFICES ASSUME S # {} PROVE FALSE
  <2>1. Len(f) \in 0 .. Len(f)
    BY <1>0
  <2> QED
    BY <2>1 DEF Totals
<1>2. S \subseteq Nat
  BY <1>0
<1>3. PICK x \in S : \A y \in S : x <= y
  BY <1>1, <1>2, Smallest
<1>4. x \in 0 .. Len(f) /\ ~ (\E t : P(x, t)) /\ \A y \in 0 .. Len(f) : (~ \E t : P(y, t)) => x <= y
  BY <1>3
<1>5. CASE x = 0
  <2> DEFINE z == [k \in 0 .. 0 |-> 0]
  <2>1. P(0, z)
    OBVIOUS
  <2> QED
    BY <1>4, <1>5, <2>1
<1>6. CASE x # 0
  <2>1. x \in 1 .. Len(f) /\ x - 1 \in 0 .. Len(f) /\ ~ (x <= x - 1)
    BY <1>0, <1>4, <1>6
  <2>2. PICK t : P(x - 1, t)
    BY <1>4, <2>1
  <2> DEFINE z == [k \in 0 .. x |-> IF k = x THEN t[x - 1] + f[x] ELSE t[k]]
  <2>3. t[x - 1] \in Nat /\ f[x] \in Nat
    BY <1>0, <2>1, <2>2
  <2>4. z \in [0 .. x -> Nat] /\ z[0] = 0
    BY <2>1, <2>2, <2>3
  <2>5. ASSUME NEW k \in 1 .. x PROVE z[k] = z[k - 1] + f[k]
    BY <2>1, <2>2, <2>3, <2>5
  <2>6. P(x, z)
    BY <2>4, <2>5
  <2> QED
    BY <1>4, <2>6
<1> QED
  BY <1>5, <1>6

-----------------------------------------------------------------------------
(* The regions of the table.                                                *)

LEMMA Regions ==
  ASSUME prdt \in Seq(Nat), Growing
  PROVE  /\ Len(prdt) \in Nat /\ DOMAIN prdt = 1 .. Len(prdt)
         /\ \A i \in 1 .. Len(prdt) :
              /\ prdt[i] \in Nat /\ Begin(i) \in Nat /\ Begin(i) < prdt[i]
              /\ \A j \in i + 1 .. Len(prdt) : prdt[i] < prdt[j] /\ prdt[i] <= Begin(j)
<1>1. Len(prdt) \in Nat /\ DOMAIN prdt = 1 .. Len(prdt) /\ \A i \in 1 .. Len(prdt) : prdt[i] \in Nat
  OBVIOUS
<1>2. ASSUME NEW i \in 1 .. Len(prdt)
      PROVE  prdt[i] > 0 /\ \A j \in i + 1 .. Len(prdt) : prdt[i] < prdt[j]
  BY <1>1, <1>2 DEF Growing
<1>3. ASSUME NEW i \in 1 .. Len(prdt) PROVE Begin(i) \in Nat /\ Begin(i) < prdt[i]
  <2>1. CASE i = 1
    BY <1>1, <1>2, <2>1 DEF Begin
  <2>2. CASE i # 1
    <3>1. i - 1 \in 1 .. Len(prdt) /\ i \in (i - 1) + 1 .. Len(prdt)
      BY <1>1, <2>2
    <3> QED
      BY <1>1, <1>2, <2>2, <3>1 DEF Begin
  <2> QED
    BY <2>1, <2>2
<1>4. ASSUME NEW i \in 1 .. Len(prdt), NEW j \in i + 1 .. Len(prdt) PROVE prdt[i] <= Begin(j)
  <2>1. j # 1 /\ j - 1 \in 1 .. Len(prdt) /\ (i = j - 1 \/ j - 1 \in i + 1 .. Len(prdt))
    BY <1>1
  <2>2. Begin(j) = prdt[j - 1] /\ prdt[i] \in Nat /\ prdt[j - 1] \in Nat
    BY <1>1, <2>1 DEF Begin
  <2>3. CASE i = j - 1
    BY <2>2, <2>3
  <2>4. CASE j - 1 \in i + 1 .. Len(prdt)
    <3>1. prdt[i] < prdt[j - 1]
      BY <1>2, <2>4
    <3> QED
      BY <2>2, <3>1
  <2> QED
    BY <2>1, <2>3, <2>4
<1> QED
  BY <1>1, <1>2, <1>3, <1>4

LEMMA WholeTable ==
  ASSUME prdt \in Seq(Nat), Growing
  PROVE  /\ Total \in Nat
         /\ Len(prdt) > 0 => Total = prdt[Len(prdt)]
         /\ Len(prdt) = 0 => Total = 0
         /\ \A i \in 1 .. Len(prdt) : prdt[i] <= Total
<1>1. Len(prdt) > 0 => Total = prdt[Len(prdt)]
  BY DEF Total, Last
<1>2. Len(prdt) = 0 => Total = 0
  <2>1. Len(prdt) = 0 => prdt = <<>>
    OBVIOUS
  <2> QED
    BY <2>1 DEF Total
<1>3. ASSUME NEW i \in 1 .. Len(prdt) PROVE prdt[i] <= Total
  <2>0. Len(prdt) \in Nat
    BY Regions
  <2>1. i = Len(prdt) \/ Len(prdt) \in i + 1 .. Len(prdt)
    BY <2>0
  <2>2. Len(prdt) \in 1 .. Len(prdt) /\ Len(prdt) > 0
    BY <2>0, <1>3
  <2>3. prdt[i] \in Nat /\ prdt[Len(prdt)] \in Nat /\ Total = prdt[Len(prdt)]
    BY <1>1, <2>2, Regions
  <2>4. CASE i = Len(prdt)
    BY <2>3, <2>4
  <2>5. CASE Len(prdt) \in i + 1 .. Len(prdt)
    <3>1. prdt[i] < prdt[Len(prdt)]
      BY <2>5, Regions
    <3> QED
      BY <2>3, <3>1
  <2> QED
    BY <2>1, <2>4, <2>5
<1>4. Total \in Nat
  <2>1. CASE Len(prdt) = 0
    BY <1>2, <2>1
  <2>2. CASE Len(prdt) # 0
    <3>1. Len(prdt) > 0 /\ Len(prdt) \in 1 .. Len(prdt)
      BY <2>2, Regions
    <3> QED
      BY <1>1, <3>1, Regions
  <2> QED
    BY <2>1, <2>2
<1> QED
  BY <1>1, <1>2, <1>3, <1>4

(* A byte of the table is in one region only.                               *)
LEMMA OneRegion ==
  ASSUME prdt \in Seq(Nat), Growing, NEW n \in Nat,
         NEW i \in 1 .. Len(prdt), Begin(i) <= n, n < prdt[i],
         NEW j \in 1 .. Len(prdt), Begin(j) <= n, n < prdt[j]
  PROVE  i = j
<1>1. Len(prdt) \in Nat /\ Begin(i) \in Nat /\ Begin(j) \in Nat /\ prdt[i] \in Nat /\ prdt[j] \in Nat
  BY Regions
<1>2. i = j \/ j \in i + 1 .. Len(prdt) \/ i \in j + 1 .. Len(prdt)
  BY <1>1
<1>3. CASE j \in i + 1 .. Len(prdt)
  <2>1. prdt[i] <= Begin(j)
    BY <1>3, Regions
  <2> QED
    BY <1>1, <2>1
<1>4. CASE i \in j + 1 .. Len(prdt)
  <2>1. prdt[j] <= Begin(i)
    BY <1>4, Regions
  <2> QED
    BY <1>1, <2>1
<1> QED
  BY <1>2, <1>3, <1>4

RegionBytes(i) == {<<n, <<i, n - Begin(i)>>>> : n \in Begin(i) .. prdt[i] - 1}

LEMMA InTable ==
  ASSUME prdt \in Seq(Nat), Growing, NEW m
  PROVE  m \in Table <=>
           \E i \in 1 .. Len(prdt) : \E n \in Nat :
              Begin(i) <= n /\ n < prdt[i] /\ m = <<n, <<i, n - Begin(i)>>>>
<1>1. \A i \in 1 .. Len(prdt) : \A n : n \in Begin(i) .. prdt[i] - 1 <=> n \in Nat /\ Begin(i) <= n /\ n < prdt[i]
  BY Regions
<1>2. DOMAIN prdt = 1 .. Len(prdt)
  BY Regions
<1>3. m \in Table <=> \E i \in DOMAIN prdt : m \in RegionBytes(i)
  BY DEF Table, RegionBytes
<1>4. ASSUME NEW i \in DOMAIN prdt
      PROVE  m \in RegionBytes(i) <=> \E n \in Begin(i) .. prdt[i] - 1 : m = <<n, <<i, n - Begin(i)>>>>
  BY DEF RegionBytes
<1> QED
  BY <1>1, <1>2, <1>3, <1>4

-----------------------------------------------------------------------------
(* Pieces that lie one behind the other in the table, from e[0] on: piece j *)
(* is the bytes from e[j - 1] to e[j].                                      *)
PieceSet == [region : 1 .. Len(prdt), off : Nat, len : Nat]

Laid(pieces, e) ==
    /\ pieces \in Seq(PieceSet) /\ e \in [0 .. Len(pieces) -> Nat]
    /\ \A i \in 0 .. Len(pieces) : \A j \in i .. Len(pieces) : e[i] <= e[j]
    /\ \A j \in 1 .. Len(pieces) :
         /\ pieces[j].len = e[j] - e[j - 1]
         /\ Begin(pieces[j].region) + pieces[j].off = e[j - 1]
         /\ e[j] <= prdt[pieces[j].region]

(* What the pieces up to one add up to is the distance it is at.            *)
LEMMA LaidSums ==
  ASSUME NEW pieces, NEW e, Laid(pieces, e)
  PROVE  \A k \in 0 .. Len(pieces) : LengthUpTo(pieces, k) = e[k] - e[0]
<1> DEFINE f == [j \in DOMAIN pieces |-> pieces[j].len]
           t == [k \in 0 .. Len(pieces) |-> e[k] - e[0]]
<1>0. pieces \in Seq(PieceSet) /\ Len(pieces) \in Nat /\ e \in [0 .. Len(pieces) -> Nat]
  BY DEF Laid
<1>1. DOMAIN pieces = 1 .. Len(pieces) /\ \A j \in 1 .. Len(pieces) : pieces[j].len \in Nat
  <2>1. DOMAIN pieces = 1 .. Len(pieces) /\ \A j \in 1 .. Len(pieces) : pieces[j] \in PieceSet
    BY <1>0
  <2> QED
    BY <2>1 DEF PieceSet
<1>2. f \in Seq(Nat) /\ Len(f) = Len(pieces) /\ \A j \in 1 .. Len(pieces) : f[j] = pieces[j].len
  BY <1>0, <1>1
<1>3. \A k \in 0 .. Len(pieces) : t[k] = e[k] - e[0] /\ e[k] \in Nat /\ e[0] \in Nat
  BY <1>0
<1>4. t \in [0 .. Len(pieces) -> Int] /\ t[0] = 0
  BY <1>0, <1>3
<1> HIDE DEF f, t
<1>5. ASSUME NEW k \in 1 .. Len(pieces) PROVE t[k] = t[k - 1] + f[k]
  <2>1. k \in 0 .. Len(pieces) /\ k - 1 \in 0 .. Len(pieces)
    BY <1>0
  <2>2. f[k] = e[k] - e[k - 1]
    BY <1>2 DEF Laid
  <2> QED
    BY <1>3, <2>1, <2>2
<1>6. Totals(f, t)
  BY <1>2, <1>4, <1>5 DEF Totals
<1>7. \A k \in 0 .. Len(f) : Sums(f)[k] = t[k]
  BY <1>2, <1>6, SumsAre
<1> QED
  BY <1>2, <1>3, <1>7 DEF LengthUpTo, f

(* The bytes of a piece, by their place in the piece and in the table.      *)
InPiece(b, top, o, l, a, x, y, z, u) ==
    /\ {b, top, o, l, a, x, y, z} \subseteq Nat
    /\ a <= x /\ y <= z /\ u = x - a /\ l = y - x /\ b + o = x /\ y <= top

Bytes(b, top, o, l, a, x, y, z, u) ==
    /\ \A k \in 0 .. l - 1 :
         /\ x + k \in Nat /\ a + u + k = x + k /\ o + k = (x + k) - b
         /\ b <= x + k /\ x + k < top /\ a <= x + k /\ x + k < z
    /\ \A n \in Nat : x <= n /\ n < y =>
         /\ b <= n /\ n < top
         /\ n - x \in 0 .. l - 1 /\ a + u + (n - x) = n /\ o + (n - x) = n - b

LEMMA ByteOfPiece ==
  ASSUME NEW b, NEW top, NEW o, NEW l, NEW a, NEW x, NEW y, NEW z, NEW u,
         InPiece(b, top, o, l, a, x, y, z, u)
  PROVE  Bytes(b, top, o, l, a, x, y, z, u)
<1>1. /\ b \in Nat /\ top \in Nat /\ o \in Nat /\ l \in Nat /\ a \in Nat /\ x \in Nat /\ y \in Nat /\ z \in Nat
      /\ a <= x /\ y <= z /\ u = x - a /\ l = y - x /\ b + o = x /\ y <= top
  BY DEF InPiece
<1> QED
  BY <1>1 DEF Bytes

(* Such pieces hold the bytes of the table between e[0] and their end.      *)
LEMMA LaidCopy ==
  ASSUME prdt \in Seq(Nat), Growing, NEW pieces, NEW e, Laid(pieces, e)
  PROVE  Copy(e[0], pieces) = {m \in Table : e[0] <= m[1] /\ m[1] < e[Len(pieces)]}
<1> DEFINE N == Len(pieces)
<1>0. pieces \in Seq(PieceSet) /\ N \in Nat /\ e \in [0 .. N -> Nat] /\ DOMAIN pieces = 1 .. N
  BY DEF Laid
<1>1. ASSUME NEW j \in 1 .. N
      PROVE  /\ pieces[j].region \in 1 .. Len(prdt) /\ pieces[j].off \in Nat /\ pieces[j].len \in Nat
             /\ e[j] \in Nat /\ e[j - 1] \in Nat /\ e[0] \in Nat /\ e[N] \in Nat
             /\ j - 1 \in 0 .. N /\ j \in 0 .. N
  <2>1. pieces[j] \in PieceSet
    BY <1>0, <1>1
  <2>2. j - 1 \in 0 .. N /\ j \in 0 .. N /\ 0 \in 0 .. N /\ N \in 0 .. N
    BY <1>0, <1>1
  <2> HIDE DEF N
  <2> QED
    BY <1>0, <2>1, <2>2 DEF PieceSet
<1>2. ASSUME NEW j \in 1 .. N
      PROVE  /\ e[0] <= e[j - 1] /\ e[j] <= e[N]
             /\ LengthUpTo(pieces, j - 1) = e[j - 1] - e[0]
             /\ pieces[j].len = e[j] - e[j - 1]
             /\ Begin(pieces[j].region) + pieces[j].off = e[j - 1]
             /\ e[j] <= prdt[pieces[j].region]
             /\ Begin(pieces[j].region) \in Nat /\ prdt[pieces[j].region] \in Nat
  <2>1. j - 1 \in 0 .. N /\ 0 \in 0 .. N /\ N \in j .. N /\ j \in 0 .. N
    BY <1>0
  <2>2. LengthUpTo(pieces, j - 1) = e[j - 1] - e[0]
    BY <2>1, LaidSums
  <2>3. e[0] <= e[j - 1] /\ e[j] <= e[N]
    BY <2>1 DEF Laid
  <2>4. Begin(pieces[j].region) \in Nat /\ prdt[pieces[j].region] \in Nat
    BY <1>1, Regions
  <2> QED
    BY <2>2, <2>3, <2>4 DEF Laid
<1>3. ASSUME NEW m \in Copy(e[0], pieces)
      PROVE  m \in Table /\ e[0] <= m[1] /\ m[1] < e[N]
  <2>1. PICK j \in 1 .. N : \E k \in 0 .. pieces[j].len - 1 :
          m = <<e[0] + LengthUpTo(pieces, j - 1) + k, <<pieces[j].region, pieces[j].off + k>>>>
    BY <1>0, <1>3 DEF Copy
  <2>2. PICK k \in 0 .. pieces[j].len - 1 :
          m = <<e[0] + LengthUpTo(pieces, j - 1) + k, <<pieces[j].region, pieces[j].off + k>>>>
    BY <2>1
  <2> DEFINE i == pieces[j].region
             n == e[j - 1] + k
  <2>20. /\ i \in 1 .. Len(prdt) /\ pieces[j].off \in Nat /\ pieces[j].len \in Nat
        /\ e[j] \in Nat /\ e[j - 1] \in Nat /\ e[0] \in Nat /\ e[N] \in Nat
    BY <1>1
  <2>21. /\ e[0] <= e[j - 1] /\ e[j] <= e[N]
        /\ LengthUpTo(pieces, j - 1) = e[j - 1] - e[0]
        /\ pieces[j].len = e[j] - e[j - 1]
        /\ Begin(i) + pieces[j].off = e[j - 1] /\ e[j] <= prdt[i]
        /\ Begin(i) \in Nat /\ prdt[i] \in Nat
    BY <1>2
  <2>3. \A q \in 0 .. pieces[j].len - 1 :
          /\ e[j - 1] + q \in Nat /\ e[0] + LengthUpTo(pieces, j - 1) + q = e[j - 1] + q
          /\ pieces[j].off + q = (e[j - 1] + q) - Begin(i)
          /\ Begin(i) <= e[j - 1] + q /\ e[j - 1] + q < prdt[i]
          /\ e[0] <= e[j - 1] + q /\ e[j - 1] + q < e[N]
    <3> HIDE DEF i, n, N
    <3>1. InPiece(Begin(i), prdt[i], pieces[j].off, pieces[j].len, e[0], e[j - 1], e[j], e[N],
              LengthUpTo(pieces, j - 1))
      BY <2>20, <2>21 DEF InPiece
    <3>2. Bytes(Begin(i), prdt[i], pieces[j].off, pieces[j].len, e[0], e[j - 1], e[j], e[N],
              LengthUpTo(pieces, j - 1))
      BY <3>1, ByteOfPiece
    <3> QED
      BY <3>2 DEF Bytes
  <2>4. n \in Nat /\ e[0] + LengthUpTo(pieces, j - 1) + k = n /\ pieces[j].off + k = n - Begin(i)
    BY <2>3
  <2>5. m = <<n, <<i, n - Begin(i)>>>>
    BY <2>2, <2>4
  <2>6. Begin(i) <= n /\ n < prdt[i] /\ e[0] <= n /\ n < e[N]
    BY <2>3
  <2>7. i \in 1 .. Len(prdt)
    BY <1>1
  <2> HIDE DEF i, n
  <2>8. m \in Table
    BY <2>4, <2>5, <2>6, <2>7, InTable
  <2>9. m[1] = n
    BY <2>5
  <2> QED
    BY <2>6, <2>8, <2>9
<1>4. ASSUME NEW m \in Table, e[0] <= m[1], m[1] < e[N]
      PROVE  m \in Copy(e[0], pieces)
  <2>1. PICK i \in 1 .. Len(prdt) : \E n \in Nat :
           Begin(i) <= n /\ n < prdt[i] /\ m = <<n, <<i, n - Begin(i)>>>>
    BY <1>4, InTable
  <2>2. PICK n \in Nat : Begin(i) <= n /\ n < prdt[i] /\ m = <<n, <<i, n - Begin(i)>>>>
    BY <2>1
  <2>3. e[0] <= n /\ n < e[N]
    BY <1>4, <2>2
  <2> DEFINE S == {j \in 0 .. N : n < e[j]}
  <2>4. S \subseteq Nat /\ N \in S
    BY <1>0, <2>3
  <2>5. PICK j \in S : \A y \in S : j <= y
    BY <2>4, Smallest
  <2>6. j \in 1 .. N /\ n < e[j] /\ e[j - 1] <= n
    <3>1. j \in 0 .. N /\ n < e[j] /\ \A y \in 0 .. N : n < e[y] => j <= y
      BY <2>5
    <3>2. e[0] \in Nat /\ j # 0
      BY <1>0, <2>3, <3>1
    <3> HIDE DEF N
    <3>3. j \in 1 .. N /\ j - 1 \in 0 .. N /\ ~ (j <= j - 1)
      BY <1>0, <3>1, <3>2
    <3>4. e[j - 1] \in Nat
      BY <1>0, <3>3
    <3> QED
      BY <3>1, <3>3, <3>4
  <2>20. /\ pieces[j].region \in 1 .. Len(prdt) /\ pieces[j].off \in Nat /\ pieces[j].len \in Nat
        /\ e[j] \in Nat /\ e[j - 1] \in Nat /\ e[0] \in Nat /\ e[N] \in Nat
    BY <1>1, <2>6
  <2>21. /\ LengthUpTo(pieces, j - 1) = e[j - 1] - e[0]
        /\ e[0] <= e[j - 1] /\ e[j] <= e[N]
        /\ pieces[j].len = e[j] - e[j - 1]
        /\ Begin(pieces[j].region) + pieces[j].off = e[j - 1] /\ e[j] <= prdt[pieces[j].region]
        /\ Begin(pieces[j].region) \in Nat /\ prdt[pieces[j].region] \in Nat
    BY <1>2, <2>6
  <2>22. \A x \in Nat : e[j - 1] <= x /\ x < e[j] =>
          /\ Begin(pieces[j].region) <= x /\ x < prdt[pieces[j].region]
          /\ x - e[j - 1] \in 0 .. pieces[j].len - 1
          /\ e[0] + LengthUpTo(pieces, j - 1) + (x - e[j - 1]) = x
          /\ pieces[j].off + (x - e[j - 1]) = x - Begin(pieces[j].region)
    <3> HIDE DEF N
    <3>1. InPiece(Begin(pieces[j].region), prdt[pieces[j].region], pieces[j].off, pieces[j].len, e[0], e[j - 1], e[j], e[N],
              LengthUpTo(pieces, j - 1))
      BY <2>20, <2>21 DEF InPiece
    <3>2. Bytes(Begin(pieces[j].region), prdt[pieces[j].region], pieces[j].off, pieces[j].len, e[0], e[j - 1], e[j], e[N],
              LengthUpTo(pieces, j - 1))
      BY <3>1, ByteOfPiece
    <3> QED
      BY <3>2 DEF Bytes
  <2>7. Begin(pieces[j].region) <= n /\ n < prdt[pieces[j].region]
    BY <2>6, <2>22
  <2>8. pieces[j].region = i
    BY <1>1, <2>2, <2>6, <2>7, OneRegion
  <2> DEFINE k == n - e[j - 1]
  <2>9. k \in 0 .. pieces[j].len - 1 /\ e[0] + LengthUpTo(pieces, j - 1) + k = n
        /\ pieces[j].off + k = n - Begin(i)
    BY <2>6, <2>8, <2>22
  <2> HIDE DEF k
  <2>10. m = <<e[0] + LengthUpTo(pieces, j - 1) + k, <<pieces[j].region, pieces[j].off + k>>>>
    BY <2>2, <2>8, <2>9
  <2>11. j \in DOMAIN pieces
    BY <1>0, <2>6
  <2>12. m \in {<<e[0] + LengthUpTo(pieces, j - 1) + q, <<pieces[j].region, pieces[j].off + q>>>> :
                 q \in 0 .. pieces[j].len - 1}
    BY <2>9, <2>10
  <2> QED
    BY <2>11, <2>12 DEF Copy
<1>5. \A m : m \in Copy(e[0], pieces) <=> m \in Table /\ e[0] <= m[1] /\ m[1] < e[N]
  BY <1>3, <1>4
<1> HIDE DEF N
<1>6. \A m : m \in Copy(e[0], pieces) <=> m \in {x \in Table : e[0] <= x[1] /\ x[1] < e[N]}
  BY <1>5
<1> QED
  BY <1>6 DEF N

LEMMA MinIs ==
  ASSUME NEW S, S \subseteq Nat, S # {} PROVE Min(S) \in S /\ \A y \in S : Min(S) <= y
  BY Smallest DEF Min

(* N regions in a row, from F on, that hold data between from and len, and  *)
(* what of them does.                                                       *)
InRow(F, N, from) ==
    /\ N > 0 => Begin(F) <= from
    /\ \A j \in 1 .. N : F + j - 1 \in 1 .. Len(prdt) /\ prdt[F + j - 1] > from /\ Begin(F + j - 1) < len

Row(F, N, from) == [j \in 1 .. N |-> PieceOf(F + j - 1, from)]

RowEnds(F, N, from) == [j \in 0 .. N |-> IF j = 0 THEN from ELSE Smaller(prdt[F + j - 1], len)]

LEMMA PieceOfIs ==
  ASSUME NEW i, NEW from
  PROVE  /\ PieceOf(i, from).region = i /\ PieceOf(i, from).off = Larger(from - Begin(i), 0)
         /\ PieceOf(i, from).len = Smaller(prdt[i], len) - Larger(Begin(i), from)
         /\ PieceOf(i, from) = [region |-> PieceOf(i, from).region, off |-> PieceOf(i, from).off,
                                len |-> PieceOf(i, from).len]
  BY DEF PieceOf, Piece

LEMMA InPieceSet ==
  ASSUME NEW top, NEW r, NEW o, NEW l, top = [region |-> r, off |-> o, len |-> l],
         r \in 1 .. Len(prdt), o \in Nat, l \in Nat
  PROVE  top \in PieceSet
  BY DEF PieceSet

LEMMA EndsOfRow ==
  ASSUME prdt \in Seq(Nat), Growing, len \in Nat, NEW from \in Nat, from < len,
         NEW F \in Nat, F > 0, NEW N \in Nat, InRow(F, N, from), NEW j \in 1 .. N
  PROVE  /\ RowEnds(F, N, from)[j] = Smaller(prdt[F + j - 1], len)
         /\ RowEnds(F, N, from)[j - 1] = Larger(Begin(F + j - 1), from)
<1>1. j \in 0 .. N /\ j # 0 /\ j - 1 \in 0 .. N
  OBVIOUS
<1>2. RowEnds(F, N, from)[j] = Smaller(prdt[F + j - 1], len)
  BY <1>1 DEF RowEnds
<1>3. F + j - 1 \in 1 .. Len(prdt) /\ prdt[F + j - 1] > from /\ Begin(F + j - 1) < len
  BY DEF InRow
<1>4. Begin(F + j - 1) \in Nat
  BY <1>3, Regions
<1>5. CASE j = 1
  <2>1. F + j - 1 = F /\ N > 0
    BY <1>5
  <2>2. Begin(F + j - 1) <= from
    BY <2>1 DEF InRow
  <2>3. RowEnds(F, N, from)[j - 1] = from
    BY <1>1, <1>5 DEF RowEnds
  <2> QED
    BY <1>2, <1>4, <2>2, <2>3 DEF Larger
<1>6. CASE j # 1
  <2>1. j - 1 \in 1 .. N /\ j - 1 # 0 /\ F + (j - 1) - 1 = (F + j - 1) - 1
    BY <1>6
  <2>2. RowEnds(F, N, from)[j - 1] = Smaller(prdt[F + (j - 1) - 1], len)
    BY <1>1, <2>1 DEF RowEnds
  <2>3. prdt[F + (j - 1) - 1] > from
    BY <2>1 DEF InRow
  <2>4. Begin(F + j - 1) = prdt[F + (j - 1) - 1]
    <3>1. F + j - 1 # 1
      BY <1>6
    <3> QED
      BY <2>1, <3>1 DEF Begin
  <2> QED
    BY <1>2, <1>3, <1>4, <2>2, <2>3, <2>4 DEF Larger, Smaller
<1> QED
  BY <1>5, <1>6

(* What lies between f and l of a region from b to top.                     *)
Cut(b, top, f, l) ==
    /\ Larger(b, f) \in Nat /\ Smaller(top, l) \in Nat /\ Larger(b, f) < Smaller(top, l)
    /\ f <= Larger(b, f) /\ f < Smaller(top, l)
    /\ Larger(f - b, 0) \in Nat /\ b + Larger(f - b, 0) = Larger(b, f)
    /\ Smaller(top, l) - Larger(b, f) \in Nat
    /\ Smaller(top, l) <= top

LEMMA CutIs ==
  ASSUME NEW b \in Nat, NEW top \in Nat, NEW f \in Nat, NEW l \in Nat, b < top, f < top, b < l, f < l
  PROVE  Cut(b, top, f, l)
  BY DEF Cut, Larger, Smaller

(* The pieces of regions in a row lie one behind the other.                 *)
LEMMA RowLaid ==
  ASSUME prdt \in Seq(Nat), Growing, len \in Nat, NEW from \in Nat, from < len,
         NEW F \in Nat, F > 0, NEW N \in Nat, InRow(F, N, from)
  PROVE  /\ Laid(Row(F, N, from), RowEnds(F, N, from))
         /\ Len(Row(F, N, from)) = N /\ RowEnds(F, N, from)[0] = from
         /\ N > 0 => /\ from < RowEnds(F, N, from)[N]
                     /\ RowEnds(F, N, from)[N] = Smaller(prdt[F + N - 1], len)
<1> DEFINE P == Row(F, N, from)
           e == RowEnds(F, N, from)
<1>1. ASSUME NEW j \in 1 .. N
      PROVE  /\ F + j - 1 \in 1 .. Len(prdt)
             /\ e[j] = Smaller(prdt[F + j - 1], len) /\ e[j - 1] = Larger(Begin(F + j - 1), from)
             /\ Cut(Begin(F + j - 1), prdt[F + j - 1], from, len)
  <2>1. F + j - 1 \in 1 .. Len(prdt) /\ prdt[F + j - 1] > from /\ Begin(F + j - 1) < len
    BY DEF InRow
  <2>2. Begin(F + j - 1) \in Nat /\ prdt[F + j - 1] \in Nat /\ Begin(F + j - 1) < prdt[F + j - 1]
    BY <2>1, Regions
  <2>3. e[j] = Smaller(prdt[F + j - 1], len) /\ e[j - 1] = Larger(Begin(F + j - 1), from)
    BY EndsOfRow
  <2>4. Cut(Begin(F + j - 1), prdt[F + j - 1], from, len)
    BY <2>1, <2>2, CutIs
  <2> QED
    BY <2>1, <2>3, <2>4
<1>2. e[0] = from
  BY DEF RowEnds
<1>3. ASSUME NEW j \in 1 .. N
      PROVE  /\ P[j] \in PieceSet /\ P[j].region = F + j - 1
             /\ P[j].len = e[j] - e[j - 1] /\ Begin(P[j].region) + P[j].off = e[j - 1]
             /\ e[j] <= prdt[P[j].region] /\ from < e[j] /\ e[j] \in Nat
  <2>1. P[j] = PieceOf(F + j - 1, from)
    BY DEF Row
  <2> HIDE DEF P, e
  <2>2. /\ P[j].region = F + j - 1 /\ P[j].off = Larger(from - Begin(F + j - 1), 0)
        /\ P[j].len = Smaller(prdt[F + j - 1], len) - Larger(Begin(F + j - 1), from)
        /\ P[j] = [region |-> P[j].region, off |-> P[j].off, len |-> P[j].len]
    BY <2>1, PieceOfIs
  <2>3. P[j].region \in 1 .. Len(prdt) /\ P[j].off \in Nat /\ P[j].len \in Nat
    BY <1>1, <2>2 DEF Cut
  <2>4. P[j] \in PieceSet
    BY <2>2, <2>3, InPieceSet
  <2>5. P[j].len = e[j] - e[j - 1]
    BY <1>1, <2>2
  <2>6. Begin(P[j].region) + P[j].off = e[j - 1]
    BY <1>1, <2>2 DEF Cut
  <2>7. e[j] <= prdt[P[j].region] /\ from < e[j] /\ e[j] \in Nat
    BY <1>1, <2>2 DEF Cut
  <2> QED
    BY <2>2, <2>4, <2>5, <2>6, <2>7
<1>4. P = [j \in 1 .. N |-> P[j]] /\ DOMAIN P = 1 .. N
  BY DEF Row
<1>5. e = [j \in 0 .. N |-> e[j]]
  BY DEF RowEnds
<1> HIDE DEF P, e
<1>6. P \in Seq(PieceSet) /\ Len(P) = N
  <2>1. P \in [1 .. N -> PieceSet]
    BY <1>3, <1>4
  <2> QED
    BY <2>1
<1>7. \A j \in 0 .. N : e[j] \in Nat /\ from <= e[j]
  <2> TAKE j \in 0 .. N
  <2>1. CASE j = 0
    BY <1>2, <2>1
  <2>2. CASE j # 0
    <3>1. j \in 1 .. N
      BY <2>2
    <3> QED
      BY <1>3, <3>1
  <2> QED
    BY <2>1, <2>2
<1>8. e \in [0 .. N -> Nat]
  BY <1>5, <1>7
<1>9. ASSUME NEW i \in 0 .. N, NEW j \in i .. N PROVE e[i] <= e[j]
  <2>1. i \in 0 .. N /\ j \in 0 .. N
    OBVIOUS
  <2>2. CASE i = 0
    BY <1>2, <1>7, <2>1, <2>2
  <2>3. CASE i = j
    BY <1>7, <2>1, <2>3
  <2>4. CASE i # 0 /\ i # j
    <3>1. i \in 1 .. N /\ j \in 1 .. N /\ F + j - 1 \in (F + i - 1) + 1 .. Len(prdt)
      <4>1. i \in 1 .. N /\ j \in 1 .. N /\ i < j
        BY <2>4
      <4>2. F + j - 1 \in 1 .. Len(prdt) /\ Len(prdt) \in Nat
        BY <1>1, <4>1, Regions
      <4> QED
        BY <4>1, <4>2
    <3>2. F + i - 1 \in 1 .. Len(prdt) /\ F + j - 1 \in 1 .. Len(prdt)
      BY <1>1, <3>1
    <3>3. prdt[F + i - 1] < prdt[F + j - 1] /\ prdt[F + i - 1] \in Nat /\ prdt[F + j - 1] \in Nat
      BY <3>1, <3>2, Regions
    <3>4. e[i] = Smaller(prdt[F + i - 1], len) /\ e[j] = Smaller(prdt[F + j - 1], len)
      BY <1>1, <3>1
    <3> QED
      BY <3>3, <3>4 DEF Smaller
  <2> QED
    BY <2>2, <2>3, <2>4
<1>10. Laid(P, e)
  BY <1>3, <1>6, <1>8, <1>9 DEF Laid
<1>11. N > 0 => from < e[N] /\ e[N] = Smaller(prdt[F + N - 1], len)
  <2>1. N > 0 => N \in 1 .. N
    OBVIOUS
  <2> QED
    BY <1>1, <1>3, <2>1
<1> QED
  BY <1>2, <1>6, <1>10, <1>11 DEF P, e

Given(x, y, z, d, l) == l - (d - (z - y)) = (z - d) - x /\ (z - d) - x \in Nat

LEMMA GiveBack ==
  ASSUME NEW x \in Nat, NEW y \in Nat, NEW z \in Nat, NEW d \in Nat, NEW l, l = y - x, x < z - d
  PROVE  Given(x, y, z, d, l)
  BY DEF Given

(* What is left when extra bytes are given back from the end.               *)
LEMMA TrimLaid ==
  ASSUME prdt \in Seq(Nat), Growing, NEW P, NEW e, Laid(P, e), NEW extra \in Nat, extra <= e[Len(P)] - e[0]
  PROVE  \E x : /\ Laid(TrimTail(P, extra), x)
                /\ Len(TrimTail(P, extra)) <= Len(P)
                /\ x[0] = e[0] /\ x[Len(TrimTail(P, extra))] = e[Len(P)] - extra
<1> DEFINE N == Len(P)
           c == e[N] - extra
           T == TrimTail(P, extra)
           K == {j \in 1 .. N : e[j - 1] < c}
<1>0. P \in Seq(PieceSet) /\ N \in Nat /\ e \in [0 .. N -> Nat] /\ DOMAIN P = 1 .. N
  BY DEF Laid
<1>1. e[0] \in Nat /\ e[N] \in Nat /\ c \in Nat /\ c <= e[N] /\ e[0] <= c
  <2>1. e[0] \in Nat /\ e[N] \in Nat
    BY <1>0
  <2> QED
    BY <2>1
<1>2. \A i \in 0 .. N : \A j \in i .. N : e[i] <= e[j]
  BY DEF Laid
<1>3. \A k \in 0 .. N : LengthUpTo(P, k) = e[k] - e[0] /\ e[k] \in Nat
  BY <1>0, LaidSums
<1>4. \A k \in 0 .. N : LengthOf(P) - LengthUpTo(P, k) = e[N] - e[k]
  <2>1. N \in 0 .. N
    BY <1>0
  <2>2. LengthOf(P) = e[N] - e[0]
    BY <1>3, <2>1 DEF LengthOf
  <2> HIDE DEF N
  <2>3. ASSUME NEW k \in 0 .. N PROVE LengthOf(P) - LengthUpTo(P, k) = e[N] - e[k]
    <3>1. LengthUpTo(P, k) = e[k] - e[0] /\ e[k] \in Nat
      BY <1>3
    <3> QED
      BY <1>1, <2>2, <3>1
  <2> QED
    BY <2>3
<1> HIDE DEF N
<1>5. \A j \in 1 .. N : j - 1 \in 0 .. N /\ j \in 0 .. N
  BY <1>0
<1>6. {j \in DOMAIN P : LengthOf(P) - LengthUpTo(P, j - 1) > extra} = K
  <2>1. ASSUME NEW j \in 1 .. N PROVE LengthOf(P) - LengthUpTo(P, j - 1) > extra <=> e[j - 1] < c
    <3>1. LengthOf(P) - LengthUpTo(P, j - 1) = e[N] - e[j - 1] /\ e[j - 1] \in Nat
      BY <1>3, <1>4, <1>5
    <3> QED
      BY <1>1, <3>1
  <2> QED
    BY <1>0, <2>1
<1>7. PICK M \in 0 .. N : K = 1 .. M
  <2>1. ASSUME NEW j \in K, NEW i \in 1 .. j PROVE i \in K
    <3>1. j \in 1 .. N /\ e[j - 1] < c
      OBVIOUS
    <3>2. i \in 1 .. N /\ i - 1 \in 0 .. N /\ j - 1 \in (i - 1) .. N /\ j - 1 \in 0 .. N
      BY <1>0, <3>1
    <3>3. e[i - 1] <= e[j - 1] /\ e[i - 1] \in Nat /\ e[j - 1] \in Nat
      BY <1>2, <1>3, <3>2
    <3>4. e[i - 1] < c
      BY <1>1, <3>1, <3>3
    <3> QED
      BY <3>2, <3>4
  <2>2. K \subseteq 1 .. N
    OBVIOUS
  <2> HIDE DEF K
  <2> QED
    BY <1>0, <2>1, <2>2, NoHoles
<1>8. \A j \in 1 .. M : j \in 1 .. N /\ e[j - 1] < c
  BY <1>7
<1>9. M # N => e[M] >= c
  <2> SUFFICES ASSUME M # N PROVE e[M] >= c
    OBVIOUS
  <2>1. M + 1 \in 1 .. N /\ M + 1 \notin 1 .. M /\ (M + 1) - 1 = M
    BY <1>0, <1>7
  <2>2. ~ (e[M] < c)
    BY <1>7, <2>1
  <2>3. e[M] \in Nat
    BY <1>3
  <2> QED
    BY <1>1, <2>2, <2>3
<1> DEFINE cutP(j) == [P[j] EXCEPT !.len = @ - (extra - (e[N] - e[j]))]
<1>10. T = [j \in 1 .. M |-> T[j]] /\ DOMAIN T = 1 .. M
  <2>1. K = 1 .. M
    BY <1>7
  <2> HIDE DEF K
  <2> QED
    BY <1>6, <2>1 DEF TrimTail
<1>11. ASSUME NEW j \in 1 .. M
       PROVE  T[j] = IF LengthOf(P) - LengthUpTo(P, j) >= extra THEN P[j]
                     ELSE [P[j] EXCEPT !.len = @ - (extra - (LengthOf(P) - LengthUpTo(P, j)))]
  <2>1. j \in {i \in DOMAIN P : LengthOf(P) - LengthUpTo(P, i - 1) > extra}
    BY <1>6, <1>7
  <2> QED
    BY <2>1 DEF TrimTail
<1> DEFINE x == [j \in 0 .. M |-> Smaller(e[j], c)]
<1> HIDE DEF T, K
<1>12. \A j \in 0 .. M : j \in 0 .. N /\ e[j] \in Nat /\ x[j] = Smaller(e[j], c) /\ x[j] \in Nat
  <2> HIDE DEF c
  <2>1. ASSUME NEW j \in 0 .. M PROVE j \in 0 .. N /\ e[j] \in Nat
    <3>1. j \in 0 .. N
      BY <1>0
    <3> QED
      BY <1>3, <3>1
  <2>2. \A j \in 0 .. M : x[j] = Smaller(e[j], c)
    OBVIOUS
  <2>3. \A a \in Nat : Smaller(a, c) \in Nat
    BY <1>1 DEF Smaller
  <2> HIDE DEF x
  <2> QED
    BY <2>1, <2>2, <2>3
<1>13. ASSUME NEW j \in 1 .. M
       PROVE  /\ T[j] \in PieceSet
              /\ T[j].len = x[j] - x[j - 1] /\ Begin(T[j].region) + T[j].off = x[j - 1]
              /\ x[j] <= prdt[T[j].region]
  <2>1. j \in 1 .. N /\ e[j - 1] < c /\ j - 1 \in 0 .. M /\ j \in 0 .. M
    <3> HIDE DEF c
    <3>1. j \in 1 .. N /\ e[j - 1] < c
      BY <1>8
    <3>2. j - 1 \in 0 .. M /\ j \in 0 .. M
      BY <1>0
    <3> QED
      BY <3>1, <3>2
  <2>2. P[j] \in PieceSet
    BY <1>0, <2>1
  <2>3. P[j].len = e[j] - e[j - 1] /\ Begin(P[j].region) + P[j].off = e[j - 1] /\ e[j] <= prdt[P[j].region]
    BY <2>1 DEF Laid, N
  <2>4. x[j - 1] = e[j - 1] /\ e[j - 1] \in Nat /\ e[j] \in Nat /\ x[j] = Smaller(e[j], c)
    <3> HIDE DEF x, c
    <3>1. e[j - 1] \in Nat /\ e[j] \in Nat /\ x[j - 1] = Smaller(e[j - 1], c) /\ x[j] = Smaller(e[j], c)
      BY <1>12, <2>1
    <3> QED
      BY <2>1, <3>1 DEF Smaller
  <2>5. LengthOf(P) - LengthUpTo(P, j) = e[N] - e[j]
    BY <1>4, <1>5, <2>1
  <2>6. CASE e[j] <= c
    <3>1. e[N] - e[j] >= extra
      BY <1>1, <2>4, <2>6
    <3>2. T[j] = P[j]
      BY <1>11, <2>5, <3>1
    <3>3. x[j] = e[j]
      BY <1>1, <2>4, <2>6 DEF Smaller
    <3> QED
      BY <2>2, <2>3, <2>4, <3>2, <3>3
  <2>7. CASE ~ (e[j] <= c)
    <3>1. ~ (e[N] - e[j] >= extra)
      BY <1>1, <2>4, <2>7
    <3>2. T[j] = cutP(j)
      BY <1>11, <2>5, <3>1
    <3>3. x[j] = c
      BY <1>1, <2>4, <2>7 DEF Smaller
    <3>4. cutP(j).region = P[j].region /\ cutP(j).off = P[j].off
          /\ cutP(j).len = P[j].len - (extra - (e[N] - e[j]))
          /\ cutP(j) = [region |-> P[j].region, off |-> P[j].off, len |-> cutP(j).len]
          /\ P[j].region \in 1 .. Len(prdt) /\ P[j].off \in Nat
      BY <2>2 DEF PieceSet
    <3> HIDE DEF cutP
    <3>5. cutP(j).len = c - e[j - 1] /\ c - e[j - 1] \in Nat
      <4>1. P[j].len - (extra - (e[N] - e[j])) = c - e[j - 1] /\ c - e[j - 1] \in Nat
        <5>1. Given(e[j - 1], e[j], e[N], extra, P[j].len)
          BY <1>1, <2>1, <2>3, <2>4, GiveBack
        <5> QED
          BY <5>1 DEF Given
      <4> HIDE DEF c
      <4> QED
        BY <3>4, <4>1
    <3>6. cutP(j) \in PieceSet
      BY <3>4, <3>5, InPieceSet
    <3>7. c <= prdt[P[j].region]
      <4>1. prdt[P[j].region] \in Nat
        BY <3>4, Regions
      <4> HIDE DEF c
      <4> QED
        BY <1>1, <2>3, <2>4, <2>7, <4>1
    <3> QED
      BY <2>3, <2>4, <3>2, <3>3, <3>4, <3>5, <3>6, <3>7
  <2> QED
    BY <2>6, <2>7
<1>14. T \in Seq(PieceSet) /\ Len(T) = M
  <2>1. T \in [1 .. M -> PieceSet]
    BY <1>10, <1>13
  <2> QED
    BY <2>1
<1>15. x \in [0 .. M -> Nat]
  BY <1>12
<1>16. x[0] = e[0] /\ x[M] = c
  <2>1. 0 \in 0 .. M /\ M \in 0 .. M
    OBVIOUS
  <2>2. x[0] = Smaller(e[0], c) /\ x[M] = Smaller(e[M], c) /\ e[M] \in Nat
    BY <1>12, <2>1
  <2>3. e[M] >= c
    BY <1>1, <1>9
  <2> HIDE DEF x, c
  <2> QED
    BY <1>1, <2>2, <2>3 DEF Smaller
<1>17. ASSUME NEW i \in 0 .. M, NEW j \in i .. M PROVE x[i] <= x[j]
  <2>1. i \in 0 .. N /\ j \in i .. N /\ i \in 0 .. M /\ j \in 0 .. M
    BY <1>0
  <2>2. e[i] <= e[j] /\ e[i] \in Nat /\ e[j] \in Nat /\ x[i] = Smaller(e[i], c) /\ x[j] = Smaller(e[j], c)
    BY <1>2, <1>12, <2>1
  <2> HIDE DEF x, c
  <2> QED
    BY <1>1, <2>2 DEF Smaller
<1> HIDE DEF x, c
<1>18. Laid(T, x)
  BY <1>13, <1>14, <1>15, <1>17 DEF Laid
<1>19. Len(T) <= N
  BY <1>0, <1>14
<1> QED
  BY <1>14, <1>16, <1>18, <1>19 DEF T, N, c

-----------------------------------------------------------------------------
(* Remainders.                                                              *)

LEMMA DivMod ==
  ASSUME NEW s \in Nat \ {0}, NEW x \in Nat
  PROVE  \E q \in Nat : \E m \in 0 .. s - 1 : x % s = m /\ x = s * q + m
<1> DEFINE q == x \div s
           m == x % s
<1>1. q \in Nat /\ m \in 0 .. s - 1 /\ x = s * q + m
  OBVIOUS
<1>2. x % s = m
  OBVIOUS
<1> HIDE DEF q, m
<1> QED
  BY <1>1, <1>2

LEMMA ModUnique ==
  ASSUME NEW s \in Nat \ {0}, NEW q \in Nat, NEW r \in 0 .. s - 1, NEW x \in Nat, x = s * q + r
  PROVE  x % s = r
<1>1. PICK d \in Nat : \E m \in 0 .. s - 1 : x % s = m /\ x = s * d + m
  BY DivMod
<1>2. PICK m \in 0 .. s - 1 : x % s = m /\ x = s * d + m
  BY <1>1
<1>3. s * q + r = s * d + m /\ s * q \in Nat /\ s * d \in Nat
  BY <1>2
<1>4. CASE d = q
  <2>1. s * d = s * q
    BY <1>4
  <2>2. m = r
    BY <1>3, <2>1
  <2> QED
    BY <1>2, <2>2
<1>5. CASE d > q
  <2>1. s * d >= s * (q + 1)
    BY <1>5
  <2> QED
    BY <1>3, <2>1
<1>6. CASE d < q
  <2>1. s * q >= s * (d + 1)
    BY <1>6
  <2> QED
    BY <1>3, <2>1
<1> QED
  BY <1>4, <1>5, <1>6

LEMMA ModSum ==
  ASSUME NEW s \in Nat \ {0}, NEW a \in Nat, NEW b \in Nat, a % s = 0
  PROVE  (a + b) % s = b % s
<1>1. PICK top \in Nat : \E m \in 0 .. s - 1 : a % s = m /\ a = s * top + m
  BY DivMod
<1>2. PICK q \in Nat : \E m \in 0 .. s - 1 : b % s = m /\ b = s * q + m
  BY DivMod
<1>3. PICK r \in 0 .. s - 1 : b % s = r /\ b = s * q + r
  BY <1>2
<1>4. a = s * top
  BY <1>1
<1>5. a + b = s * (top + q) + r /\ top + q \in Nat /\ a + b \in Nat
  BY <1>3, <1>4
<1>6. (a + b) % s = r
  <2> DEFINE x == a + b
             t == top + q
  <2>1. x = s * t + r /\ t \in Nat /\ x \in Nat
    BY <1>5
  <2> HIDE DEF x, t
  <2>2. x % s = r
    BY <2>1, ModUnique
  <2> QED
    BY <2>2 DEF x
<1> QED
  BY <1>3, <1>6

LEMMA ModOfProduct ==
  ASSUME NEW s \in Nat \ {0}, NEW n \in Nat
  PROVE  s * n \in Nat /\ (s * n) % s = 0
<1>1. s * n \in Nat /\ s * n = s * n + 0 /\ 0 \in 0 .. s - 1
  OBVIOUS
<1> QED
  BY <1>1, ModUnique

(* Rounding down, of what begins at a multiple.                             *)
LEMMA RoundDown ==
  ASSUME NEW s \in Nat \ {0}, NEW a \in Nat, NEW b \in Nat, a % s = 0, NEW x, x = b % s
  PROVE  x \in Nat /\ x <= b /\ x < s /\ (a + (b - x)) % s = 0
<1>1. PICK q \in Nat : \E m \in 0 .. s - 1 : b % s = m /\ b = s * q + m
  BY DivMod
<1>2. PICK r \in 0 .. s - 1 : b % s = r /\ b = s * q + r
  BY <1>1
<1>3. b - r = s * q /\ r <= b /\ r \in Nat /\ r < s /\ b - r \in Nat
  BY <1>2
<1>4. (b - r) % s = 0
  BY <1>3, ModOfProduct
<1>5. (a + (b - r)) % s = (b - r) % s
  BY <1>3, ModSum
<1>6. x = r
  BY <1>2
<1> QED
  BY <1>3, <1>4, <1>5, <1>6

(* A difference of multiples is one, and it is not less than s.             *)
LEMMA ModDiff ==
  ASSUME NEW s \in Nat \ {0}, NEW a \in Nat, NEW b \in Nat, a % s = 0, a <= b
  PROVE  (b - a) % s = b % s /\ (b % s = 0 /\ a < b => b - a >= s)
<1> DEFINE d == b - a
<1>1. d \in Nat /\ a + d = b
  OBVIOUS
<1>2. (a < b) <=> (d > 0)
  OBVIOUS
<1> HIDE DEF d
<1>3. d % s = b % s
  BY <1>1, ModSum
<1>4. d < s => d % s = d
  <2>1. s * 0 = 0
    OBVIOUS
  <2>2. d < s => d = s * 0 + d /\ d \in 0 .. s - 1
    BY <1>1, <2>1
  <2> QED
    BY <1>1, <2>2, ModUnique
<1>5. b % s = 0 /\ a < b => d >= s
  BY <1>1, <1>2, <1>3, <1>4
<1> QED
  BY <1>3, <1>5 DEF d

-----------------------------------------------------------------------------
(* The regions ahci_build_iov and write_prdt take.                          *)

(* The loop of ahci_build_iov takes regions in a row; none only if the      *)
(* table has no more, fewer than fit only if table or command end.          *)
LEMMA GatherRow ==
  ASSUME prdt \in Seq(Nat), Growing, len \in Nat, NEW from \in Nat, from < len
  PROVE  \E F \in Nat : \E N \in 0 .. IovMax :
           /\ F > 0 /\ Gather(from) = Row(F, N, from) /\ InRow(F, N, from)
           /\ N = 0 => Total <= from
           /\ 0 < N /\ N < IovMax => F + N - 1 = Len(prdt) \/ prdt[F + N - 1] >= len
<1> DEFINE L == Len(prdt)
           left == {i \in DOMAIN prdt : prdt[i] > from /\ Begin(i) < len}
           F == Min(left \cup {L + 1})
           D == {k \in 1 .. IovMax : F + k - 1 \in left}
<1>0. L \in Nat /\ DOMAIN prdt = 1 .. L /\ IovMax \in Nat /\ IovMax > 0
  BY Regions, AhciPrdtAssumption
<1>1. \A i : i \in left <=> i \in 1 .. L /\ prdt[i] > from /\ Begin(i) < len
  BY <1>0
<1>2. F \in left \cup {L + 1} /\ \A i \in left \cup {L + 1} : F <= i
  <2>1. left \cup {L + 1} \subseteq Nat /\ left \cup {L + 1} # {}
    BY <1>0
  <2> HIDE DEF left, L
  <2> QED
    BY <2>1, MinIs
<1>3. Gather(from) = [j \in D |-> PieceOf(F + j - 1, from)]
  BY DEF Gather
<1> HIDE DEF left, F, L
<1>4. F \in 1 .. L + 1 /\ (F \in left \/ F = L + 1) /\ \A i \in left : F <= i
  BY <1>0, <1>1, <1>2
<1>5. ASSUME NEW j \in D, NEW i \in 1 .. j PROVE i \in D
  <2>1. j \in 1 .. IovMax /\ F + j - 1 \in 1 .. L /\ Begin(F + j - 1) < len
    BY <1>1
  <2>2. F \in left
    BY <1>0, <1>4, <2>1
  <2>3. prdt[F] > from /\ F \in 1 .. L
    BY <1>1, <2>2
  <2> DEFINE a == F + i - 1
             b == F + j - 1
  <2>4. a \in 1 .. L /\ (a = F \/ a \in F + 1 .. L) /\ (a = b \/ b \in a + 1 .. L) /\ b \in 1 .. L
    BY <1>0, <2>1, <2>3
  <2>5. i \in 1 .. IovMax
    BY <1>0, <2>1
  <2>6. Begin(b) < len
    BY <2>1
  <2>7. SUFFICES prdt[a] > from /\ Begin(a) < len
    BY <1>1, <2>4, <2>5
  <2> HIDE DEF a, b
  <2>8. prdt[a] \in Nat /\ Begin(a) \in Nat /\ Begin(a) < prdt[a] /\ prdt[F] \in Nat /\ Begin(b) \in Nat
    BY <2>3, <2>4, Regions DEF L
  <2>9. a = F \/ prdt[F] < prdt[a]
    BY <2>3, <2>4, Regions DEF L
  <2>10. a = b \/ prdt[a] <= Begin(b)
    BY <2>4, Regions DEF L
  <2>11. prdt[a] > from
    BY <2>3, <2>8, <2>9
  <2>12. Begin(a) < len
    BY <2>6, <2>8, <2>10
  <2> QED
    BY <2>11, <2>12
<1>6. PICK N \in 0 .. IovMax : D = 1 .. N
  <2>1. D \subseteq 1 .. IovMax
    OBVIOUS
  <2> HIDE DEF D
  <2> QED
    BY <1>0, <1>5, <2>1, NoHoles
<1>7. \A j \in 1 .. N : F + j - 1 \in left
  BY <1>6
<1>8. \A j \in 1 .. IovMax : F + j - 1 \in left => j \in 1 .. N
  BY <1>6
<1>9. Gather(from) = Row(F, N, from)
  <2> HIDE DEF D
  <2> QED
    BY <1>3, <1>6 DEF Row
<1> HIDE DEF D
<1>10. ASSUME F \in left PROVE Begin(F) <= from
  <2>1. F \in 1 .. L /\ Begin(F) < len
    BY <1>1, <1>10
  <2>2. CASE F = 1
    BY <2>2 DEF Begin
  <2>3. CASE F # 1
    <3>1. F - 1 \in 1 .. L /\ Begin(F) = prdt[F - 1] /\ ~ (F <= F - 1)
      BY <1>0, <2>1, <2>3 DEF Begin
    <3>2. F - 1 \notin left
      BY <1>4, <3>1
    <3>3. Begin(F - 1) \in Nat /\ prdt[F - 1] \in Nat /\ Begin(F - 1) < prdt[F - 1]
      BY <3>1, Regions DEF L
    <3>4. Begin(F - 1) < len
      BY <2>1, <3>1, <3>3
    <3>5. ~ (prdt[F - 1] > from)
      BY <1>1, <3>1, <3>2, <3>4
    <3> QED
      BY <3>1, <3>3, <3>5
  <2> QED
    BY <2>2, <2>3
<1>11. InRow(F, N, from)
  <2>1. N > 0 => 1 \in 1 .. N /\ F + 1 - 1 = F
    BY <1>4
  <2>2. N > 0 => Begin(F) <= from
    BY <1>7, <1>10, <2>1
  <2> QED
    BY <1>1, <1>7, <2>2 DEF InRow, L
<1>12. N = 0 => Total <= from
  <2> SUFFICES ASSUME N = 0, ~ (Total <= from) PROVE FALSE
    OBVIOUS
  <2>1. Total \in Nat /\ L > 0 /\ Total = prdt[L]
    <3>1. Total \in Nat /\ (L > 0 => Total = prdt[L]) /\ (L = 0 => Total = 0)
      BY WholeTable DEF L
    <3> QED
      BY <1>0, <3>1
  <2> DEFINE S == {i \in 1 .. L : prdt[i] > from}
  <2>2. S \subseteq Nat /\ L \in S
    BY <1>0, <2>1
  <2>3. PICK i \in S : \A y \in S : i <= y
    BY <2>2, Smallest
  <2>4. i \in 1 .. L /\ prdt[i] > from /\ \A y \in 1 .. L : prdt[y] > from => i <= y
    BY <2>3
  <2>5. Begin(i) <= from
    <3>1. CASE i = 1
      BY <3>1 DEF Begin
    <3>2. CASE i # 1
      <4>1. i - 1 \in 1 .. L /\ ~ (i <= i - 1) /\ Begin(i) = prdt[i - 1]
        BY <1>0, <2>4, <3>2 DEF Begin
      <4>2. prdt[i - 1] \in Nat /\ ~ (prdt[i - 1] > from)
        BY <2>4, <4>1, Regions DEF L
      <4> QED
        BY <4>1, <4>2
    <3> QED
      BY <3>1, <3>2
  <2>6. Begin(i) \in Nat
    BY <2>4, Regions DEF L
  <2>7. i \in left
    BY <1>1, <2>4, <2>5, <2>6
  <2>8. F \in left
    BY <1>0, <1>4, <2>4, <2>7
  <2>9. 1 \in 1 .. IovMax /\ F + 1 - 1 = F
    BY <1>0, <1>4
  <2> QED
    BY <1>8, <2>8, <2>9
<1>13. 0 < N /\ N < IovMax => F + N - 1 = L \/ prdt[F + N - 1] >= len
  <2> SUFFICES ASSUME 0 < N, N < IovMax, F + N - 1 # L PROVE prdt[F + N - 1] >= len
    OBVIOUS
  <2>1. N + 1 \in 1 .. IovMax /\ N + 1 \notin 1 .. N /\ N \in 1 .. N /\ F + (N + 1) - 1 = F + N
    BY <1>0, <1>4
  <2>2. F + N \notin left
    BY <1>8, <2>1
  <2>3. F + N - 1 \in 1 .. L /\ prdt[F + N - 1] > from
    BY <1>1, <1>7, <2>1
  <2>4. F + N \in 1 .. L /\ F + N \in (F + N - 1) + 1 .. L /\ F + N # 1 /\ (F + N) - 1 = F + N - 1
    BY <1>0, <1>4, <2>3
  <2>5. prdt[F + N - 1] < prdt[F + N] /\ prdt[F + N] \in Nat /\ prdt[F + N - 1] \in Nat
    BY <2>3, <2>4, Regions DEF L
  <2>6. Begin(F + N) = prdt[F + N - 1]
    BY <2>4 DEF Begin
  <2>7. prdt[F + N] > from
    BY <2>3, <2>5
  <2>8. ~ (Begin(F + N) < len)
    BY <1>1, <2>2, <2>4, <2>7
  <2> QED
    BY <2>5, <2>6, <2>8
<1>14. F \in Nat /\ F > 0
  BY <1>0, <1>4
<1> QED
  BY <1>9, <1>11, <1>12, <1>13, <1>14 DEF L

(* So do those of write_prdt and read_prdt, from the first region on.       *)
LEMMA LeadingRow ==
  ASSUME prdt \in Seq(Nat), Growing, len \in Nat, len > 0
  PROVE  \E M \in 0 .. Len(prdt) :
           /\ Leading = Row(1, M, 0) /\ InRow(1, M, 0)
           /\ M = 0 => Total = 0
           /\ M > 0 => M = Len(prdt) \/ prdt[M] >= len
<1> DEFINE L == Len(prdt)
           D == {k \in DOMAIN prdt : Begin(k) < len}
<1>0. L \in Nat /\ DOMAIN prdt = 1 .. L
  BY Regions
<1>1. \A i \in 1 .. L : prdt[i] \in Nat /\ Begin(i) \in Nat /\ Begin(i) < prdt[i]
  BY Regions
<1>2. D \subseteq 1 .. L
  BY <1>0
<1>3. ASSUME NEW j \in D, NEW i \in 1 .. j PROVE i \in D
  <2>1. j \in 1 .. L /\ Begin(j) < len /\ i \in 1 .. L /\ (i = j \/ j \in i + 1 .. L)
    BY <1>0
  <2>2. i = j \/ prdt[i] <= Begin(j)
    BY <2>1, Regions
  <2>3. prdt[i] \in Nat /\ Begin(i) \in Nat /\ Begin(i) < prdt[i] /\ Begin(j) \in Nat
    BY <1>1, <2>1
  <2>4. Begin(i) < len
    BY <2>1, <2>2, <2>3
  <2> QED
    BY <1>0, <2>1, <2>4
<1> HIDE DEF L
<1>4. PICK M \in 0 .. L : D = 1 .. M
  <2> HIDE DEF D
  <2> QED
    BY <1>0, <1>2, <1>3, NoHoles
<1>5. \A j \in 1 .. L : j \in 1 .. M <=> Begin(j) < len
  BY <1>0, <1>4
<1>6. \A j \in 1 .. M : j \in 1 .. L
  BY <1>0, <1>4
<1>7. ASSUME NEW j \in 1 .. M
      PROVE  Piece(j, 0, Smaller(prdt[j], len) - Begin(j)) = PieceOf(1 + j - 1, 0)
  <2>1. 1 + j - 1 = j /\ Begin(j) \in Nat
    BY <1>1, <1>6
  <2>2. Larger(0 - Begin(j), 0) = 0 /\ Larger(Begin(j), 0) = Begin(j)
    BY <2>1 DEF Larger
  <2> QED
    BY <2>1, <2>2 DEF PieceOf
<1>8. Leading = [i \in 1 .. M |-> Piece(i, 0, Smaller(prdt[i], len) - Begin(i))]
  BY <1>4 DEF Leading
<1>9. Leading = Row(1, M, 0)
  BY <1>7, <1>8 DEF Row
<1>10. InRow(1, M, 0)
  <2>1. Begin(1) = 0
    BY DEF Begin
  <2>2. ASSUME NEW j \in 1 .. M
        PROVE  1 + j - 1 \in 1 .. Len(prdt) /\ prdt[1 + j - 1] > 0 /\ Begin(1 + j - 1) < len
    <3>1. 1 + j - 1 = j /\ j \in 1 .. L
      BY <1>6
    <3>2. Begin(j) < len /\ prdt[j] > 0
      BY <1>1, <1>5, <3>1
    <3> QED
      BY <3>1, <3>2 DEF L
  <2> QED
    BY <2>1, <2>2 DEF InRow
<1>11. M = 0 => Total = 0
  <2> SUFFICES ASSUME M = 0 PROVE Total = 0
    OBVIOUS
  <2>1. Begin(1) = 0 /\ 1 \notin 1 .. M
    BY DEF Begin
  <2>2. 1 \notin 1 .. L
    BY <1>5, <2>1
  <2>3. L = 0
    BY <1>0, <2>2
  <2> QED
    BY <2>3, WholeTable DEF L
<1>12. M > 0 => M = L \/ prdt[M] >= len
  <2> SUFFICES ASSUME M > 0, M # L PROVE prdt[M] >= len
    OBVIOUS
  <2>1. M + 1 \in 1 .. L /\ M + 1 \notin 1 .. M /\ M + 1 # 1 /\ (M + 1) - 1 = M /\ M \in 1 .. L
    BY <1>0
  <2>2. Begin(M + 1) = prdt[M] /\ prdt[M] \in Nat
    BY <1>1, <2>1 DEF Begin
  <2>3. ~ (Begin(M + 1) < len)
    BY <1>5, <2>1
  <2> QED
    BY <2>2, <2>3
<1> QED
  BY <1>4, <1>9, <1>10, <1>11, <1>12 DEF L

-----------------------------------------------------------------------------
(* One part of a command.                                                   *)

(* Where a part may end: on a sector's boundary if more is to come.         *)
PartEnd(upto, again, total, l) ==
    IF again THEN upto % SectSz = 0 /\ upto < l
    ELSE IF total >= l THEN upto = l ELSE upto \in {total, total - (total % SectSz)}

(* A full iovec is rounded down: top is the end of its last region, which   *)
(* is the last of the table or not.                                         *)
Rounded(from, top, l, total, t, x) ==
    /\ x \in Nat /\ x <= t /\ t \in Nat
    /\ t - x = 0 => top - from < SectSz
    /\ (from + (t - x)) % SectSz = 0
    /\ top = total /\ total >= l => from + (t - x) = l
    /\ top = total /\ ~ (total >= l) => from + (t - x) = total - (total % SectSz)

LEMMA RoundedPart ==
  ASSUME NEW from \in Nat, NEW top \in Nat, NEW l \in Nat, NEW total \in Nat,
         from < l, from < top, top <= total, from % SectSz = 0, l % SectSz = 0,
         NEW t, t = Smaller(top, l) - from, NEW x, x = t % SectSz
  PROVE  Rounded(from, top, l, total, t, x)
<1>0. SectSz \in Nat \ {0}
  BY AhciPrdtAssumption
<1>1. t \in Nat /\ (top < l => t = top - from) /\ (~ (top < l) => t = l - from)
  BY DEF Smaller
<1>2. x \in Nat /\ x <= t /\ x < SectSz /\ (from + (t - x)) % SectSz = 0
  BY <1>0, <1>1, RoundDown
<1>3. l - from >= SectSz /\ (l - from) % SectSz = 0
  BY <1>0, ModDiff
<1>4. (total - from) % SectSz = total % SectSz
  <2>1. from <= total
    OBVIOUS
  <2> QED
    BY <1>0, <2>1, ModDiff
<1>5. ~ (top < l) => x = 0
  BY <1>1, <1>3
<1>6. t - x = 0 => top - from < SectSz
  <2> SUFFICES ASSUME t - x = 0 PROVE top - from < SectSz
    OBVIOUS
  <2>1. SectSz \in Nat /\ l - from >= SectSz /\ t \in Nat /\ x \in Nat /\ x < SectSz
    BY <1>0, <1>1, <1>2, <1>3
  <2>2. t < SectSz
    BY <2>1
  <2>3. top < l
    BY <1>1, <2>1, <2>2
  <2> QED
    BY <1>1, <2>2, <2>3
<1>7. top = total /\ total >= l => from + (t - x) = l
  BY <1>1, <1>5
<1>8. top = total /\ ~ (total >= l) => t = total - from /\ x = total % SectSz
  BY <1>1, <1>4
<1>9. top = total /\ ~ (total >= l) => from + (t - x) = total - (total % SectSz)
  <2> DEFINE r == total % SectSz
  <2>1. top = total /\ ~ (total >= l) => t = total - from /\ x = r
    BY <1>8
  <2> HIDE DEF r
  <2>2. top = total /\ ~ (total >= l) => from + (t - x) = total - r
    BY <1>2, <2>1
  <2> QED
    BY <2>2 DEF r
<1> QED
  BY <1>1, <1>2, <1>6, <1>7, <1>9 DEF Rounded

Tiny == \E i \in 1 .. Len(prdt) - IovMax + 1 : prdt[i + IovMax - 1] - prdt[i] < SectSz

(* What ahci_build_iov makes of the part from where the one before ended.   *)
BuiltWell(from, P, t, x) ==
    /\ Len(P) <= IovMax /\ t \in Nat /\ x \in Nat /\ x <= t /\ from + t <= len /\ from + t <= Total
    /\ Len(P) = IovMax /\ t - x = 0 => Tiny
    /\ PartEnd(from + (t - x), More(from + (t - x), P), Total, len)

LEMMA BuildIov ==
  ASSUME prdt \in Seq(Nat), Growing, len \in Nat, len % SectSz = 0,
         NEW from \in Nat, from < len, from % SectSz = 0, from <= Total
  PROVE  /\ BuiltWell(from, Gather(from), LengthOf(Gather(from)), Extra(Gather(from)))
         /\ \E e : Laid(Gather(from), e) /\ e[0] = from
                   /\ e[Len(Gather(from))] = from + LengthOf(Gather(from))
<1>1. PICK F \in Nat : \E N \in 0 .. IovMax :
           /\ F > 0 /\ Gather(from) = Row(F, N, from) /\ InRow(F, N, from)
           /\ N = 0 => Total <= from
           /\ 0 < N /\ N < IovMax => F + N - 1 = Len(prdt) \/ prdt[F + N - 1] >= len
  BY GatherRow
<1>2. PICK N \in 0 .. IovMax :
           /\ F > 0 /\ Gather(from) = Row(F, N, from) /\ InRow(F, N, from)
           /\ N = 0 => Total <= from
           /\ 0 < N /\ N < IovMax => F + N - 1 = Len(prdt) \/ prdt[F + N - 1] >= len
  BY <1>1
<1> DEFINE P == Gather(from)
           e == RowEnds(F, N, from)
           t == LengthOf(P)
           x == Extra(P)
           g == F + N - 1
           L == Len(prdt)
<1>3. Laid(P, e) /\ Len(P) = N /\ e[0] = from
      /\ (N > 0 => from < e[N] /\ e[N] = Smaller(prdt[g], len))
  <2>1. Row(F, N, from) = P /\ N \in Nat
    BY <1>2, AhciPrdtAssumption
  <2> QED
    BY <1>2, <2>1, RowLaid
<1>4. IovMax \in Nat /\ IovMax > 0 /\ SectSz \in Nat /\ SectSz > 0 /\ N \in Nat /\ N <= IovMax
  BY AhciPrdtAssumption
<1>5. Total \in Nat /\ L \in Nat
  BY WholeTable, Regions
<1> HIDE DEF e, P
<1>6. t = e[N] - from
  <2>1. N \in 0 .. N
    BY <1>4
  <2> QED
    BY <1>3, <2>1, LaidSums DEF LengthOf
<1> HIDE DEF t
<1>7. e[N] \in Nat
  <2>1. e \in [0 .. N -> Nat] /\ N \in 0 .. N
    BY <1>3, <1>4 DEF Laid
  <2> QED
    BY <2>1
<1>8. x = IF N = IovMax THEN t % SectSz ELSE 0
  BY <1>3 DEF Extra, t
<1> HIDE DEF x
<1>9. CASE N = 0
  <2>1. t = 0 /\ x = 0
    BY <1>3, <1>4, <1>6, <1>8, <1>9
  <2>2. from = Total
    BY <1>2, <1>5, <1>9
  <2>3. ~ More(from + (t - x), P)
    <3>1. P = <<>>
      BY <1>3, <1>9 DEF Laid
    <3> QED
      BY <1>5, <3>1 DEF More, LoopEnd
  <2>4. PartEnd(from + (t - x), More(from + (t - x), P), Total, len)
    <3>1. from + (t - x) = Total /\ ~ (Total >= len)
      BY <1>5, <2>1, <2>2
    <3> QED
      BY <2>3, <3>1 DEF PartEnd
  <2>5. BuiltWell(from, P, t, x)
    BY <1>3, <1>4, <1>5, <1>9, <2>1, <2>2, <2>4 DEF BuiltWell
  <2> QED
    BY <1>3, <1>6, <1>7, <2>5 DEF P, t, x
<1>10. CASE N > 0
  <2>1. g \in 1 .. L /\ prdt[g] > from /\ F \in 1 .. L /\ prdt[F] > from
    <3>1. N \in 1 .. N /\ 1 \in 1 .. N /\ F + 1 - 1 = F
      BY <1>4, <1>10
    <3> QED
      BY <1>2, <3>1 DEF InRow
  <2>2. prdt[g] \in Nat /\ prdt[F] \in Nat /\ prdt[g] <= Total
    BY <2>1, Regions, WholeTable
  <2>3. e[N] <= len /\ e[N] <= prdt[g] /\ from < e[N] /\ e[N] = Smaller(prdt[g], len)
    BY <1>3, <1>10, <2>2 DEF Smaller
  <2>4. t \in Nat /\ from + t = e[N] /\ from + t <= len /\ from + t <= Total
    <3> HIDE DEF g, L
    <3>1. from + t = e[N] /\ t \in Nat
      <4> DEFINE y == e[N]
      <4>1. t = y - from /\ y \in Nat /\ from < y
        BY <1>6, <1>7, <2>3
      <4> HIDE DEF y
      <4>2. from + t = y /\ t \in Nat
        BY <4>1
      <4> QED
        BY <4>2 DEF y
    <3>2. e[N] <= Total
      BY <1>5, <1>7, <2>2, <2>3
    <3> QED
      BY <2>3, <3>1, <3>2
  <2>5. \A upto : More(upto, P) <=> upto < len /\ g < L
    <3>1. P[N].region = g
      <4>1. N \in 1 .. N
        BY <1>4, <1>10
      <4>2. P[N] = PieceOf(g, from)
        BY <1>2, <4>1 DEF P, Row
      <4> QED
        BY <4>2, PieceOfIs
    <3>2. P # <<>> /\ Last(P) = P[N]
      BY <1>3, <1>10 DEF Last, Laid
    <3> QED
      BY <3>1, <3>2 DEF More, LoopEnd
  <2>6. g < L => g # L
    BY <1>5
  <2>7. ~ (g < L) => g = L /\ prdt[g] = Total
    <3>1. ~ (g < L) => g = L /\ L > 0
      BY <1>5, <2>1
    <3> QED
      BY <3>1, WholeTable
  <2> HIDE DEF g, L
  <2>8. CASE N < IovMax
    <3>1. x = 0 /\ from + (t - x) = e[N]
      BY <1>4, <1>6, <1>7, <1>8, <2>4, <2>8
    <3>2. g = L \/ prdt[g] >= len
      BY <1>2, <1>10, <2>8 DEF g, L
    <3>3. ~ More(e[N], P)
      BY <1>7, <2>2, <2>3, <2>5, <2>6, <3>2 DEF Smaller
    <3>4. IF Total >= len THEN e[N] = len ELSE e[N] = Total
      <4>1. CASE prdt[g] >= len
        BY <1>5, <2>2, <2>3, <4>1 DEF Smaller
      <4>2. CASE ~ (prdt[g] >= len)
        <5>1. prdt[g] = Total
          BY <2>6, <2>7, <3>2, <4>2
        <5> QED
          BY <1>5, <2>2, <2>3, <4>2, <5>1 DEF Smaller
      <4> QED
        BY <4>1, <4>2
    <3>5. PartEnd(e[N], More(e[N], P), Total, len)
      BY <3>3, <3>4 DEF PartEnd
    <3>6. BuiltWell(from, P, t, x)
      <4>1. Len(P) <= IovMax /\ Len(P) # IovMax /\ x \in Nat /\ x <= t
        BY <1>3, <1>4, <2>4, <2>8, <3>1
      <4> QED
        BY <2>4, <3>1, <3>5, <4>1 DEF BuiltWell
    <3> QED
      BY <1>3, <2>4, <3>6 DEF P, t, x
  <2>9. CASE N = IovMax
    <3>1. x = t % SectSz /\ t = Smaller(prdt[g], len) - from
      BY <1>6, <1>8, <2>3, <2>9
    <3>2. /\ x \in Nat /\ x <= t
          /\ t - x = 0 => prdt[g] - from < SectSz
          /\ (from + (t - x)) % SectSz = 0
          /\ prdt[g] = Total /\ Total >= len => from + (t - x) = len
          /\ prdt[g] = Total /\ ~ (Total >= len) => from + (t - x) = Total - (Total % SectSz)
      <4>1. Rounded(from, prdt[g], len, Total, t, x)
        BY <1>5, <2>1, <2>2, <3>1, RoundedPart
      <4> QED
        BY <4>1 DEF Rounded
    <3> DEFINE u == from + (t - x)
    <3>3. u \in Nat /\ u <= len
      BY <2>4, <3>2
    <3>4. PartEnd(u, More(u, P), Total, len)
      <4>1. CASE More(u, P)
        BY <2>5, <3>2, <4>1 DEF PartEnd
      <4>2. CASE ~ More(u, P) /\ g < L
        <5>1. ~ (u < len)
          BY <2>5, <4>2
        <5>2. u = len
          BY <3>3, <5>1
        <5>3. Total >= len
          BY <1>5, <2>2, <2>4, <3>2, <5>2
        <5> HIDE DEF u
        <5> QED
          BY <4>2, <5>2, <5>3 DEF PartEnd
      <4>3. CASE ~ More(u, P) /\ ~ (g < L)
        <5>1. prdt[g] = Total
          BY <2>7, <4>3
        <5>2. (Total >= len => u = len) /\ (~ (Total >= len) => u = Total - (Total % SectSz))
          BY <3>2, <5>1
        <5> HIDE DEF u
        <5> QED
          BY <4>3, <5>2 DEF PartEnd
      <4> QED
        BY <4>1, <4>2, <4>3
    <3>5. t - x = 0 => Tiny
      <4> SUFFICES ASSUME t - x = 0 PROVE Tiny
        OBVIOUS
      <4>1. g = F + IovMax - 1
        BY <2>9 DEF g
      <4>2. F \in 1 .. L - IovMax + 1
        BY <1>4, <1>5, <2>1, <4>1
      <4>3. prdt[g] - prdt[F] < SectSz
        BY <1>4, <2>1, <2>2, <3>2
      <4> QED
        BY <4>1, <4>2, <4>3 DEF Tiny, L
    <3>6. BuiltWell(from, P, t, x)
      <4>1. Len(P) <= IovMax
        BY <1>3, <1>4
      <4> QED
        BY <2>4, <3>2, <3>4, <3>5, <4>1 DEF BuiltWell
    <3> QED
      BY <1>3, <2>4, <3>6 DEF P, t, x
  <2> QED
    BY <1>4, <2>8, <2>9
<1> QED
  BY <1>4, <1>9, <1>10

LEMMA ByteNumber ==
  ASSUME prdt \in Seq(Nat), Growing, NEW m \in Table
  PROVE  m[1] \in Nat /\ m[1] < Total
<1>1. PICK i \in 1 .. Len(prdt) : \E n \in Nat :
         Begin(i) <= n /\ n < prdt[i] /\ m = <<n, <<i, n - Begin(i)>>>>
  BY InTable
<1>2. PICK n \in Nat : n < prdt[i] /\ m = <<n, <<i, n - Begin(i)>>>>
  BY <1>1
<1>3. m[1] = n
  BY <1>2
<1>4. prdt[i] \in Nat /\ Total \in Nat /\ prdt[i] <= Total
  BY Regions, WholeTable
<1> QED
  BY <1>2, <1>3, <1>4

(* What write_prdt and read_prdt copy.                                      *)
LEMMA LeadingCopy ==
  ASSUME prdt \in Seq(Nat), Growing, len \in Nat, len > 0
  PROVE  /\ LengthOf(Leading) = Smaller(Total, len)
         /\ Copy(0, Leading) = {m \in Table : m[1] < Smaller(Total, len)}
         /\ Copy(0, Leading) = {m \in Table : m[1] < len}
<1>1. PICK M \in 0 .. Len(prdt) :
           /\ Leading = Row(1, M, 0) /\ InRow(1, M, 0)
           /\ M = 0 => Total = 0
           /\ M > 0 => M = Len(prdt) \/ prdt[M] >= len
  BY LeadingRow
<1>2. M \in Nat /\ Len(prdt) \in Nat /\ Total \in Nat
  BY Regions, WholeTable
<1> DEFINE e == RowEnds(1, M, 0)
<1>3. /\ Laid(Leading, e) /\ Len(Leading) = M /\ e[0] = 0
      /\ M > 0 => e[M] = Smaller(prdt[1 + M - 1], len)
  BY <1>1, <1>2, RowLaid
<1> HIDE DEF e
<1>4. M \in 0 .. M /\ e[M] \in Nat
  <2>1. M \in 0 .. M
    BY <1>2
  <2>2. e \in [0 .. M -> Nat]
    BY <1>3 DEF Laid
  <2> QED
    BY <2>1, <2>2
<1>5. e[M] = Smaller(Total, len)
  <2>1. CASE M = 0
    BY <1>1, <1>3, <2>1 DEF Smaller
  <2>2. CASE M > 0
    <3>1. 1 + M - 1 = M /\ M \in 1 .. Len(prdt)
      BY <1>2, <2>2
    <3>2. prdt[M] \in Nat /\ prdt[M] <= Total
      BY <3>1, Regions, WholeTable
    <3>3. M = Len(prdt) => prdt[M] = Total
      BY <2>2, WholeTable
    <3>4. e[M] = Smaller(prdt[M], len)
      BY <1>3, <2>2, <3>1
    <3> QED
      BY <1>1, <1>2, <2>2, <3>2, <3>3, <3>4 DEF Smaller
  <2> QED
    BY <1>2, <2>1, <2>2
<1>6. LengthOf(Leading) = e[M] - e[0]
  BY <1>3, <1>4, LaidSums DEF LengthOf
<1>7. Copy(0, Leading) = {m \in Table : 0 <= m[1] /\ m[1] < e[M]}
  BY <1>3, LaidCopy
<1>8. \A m \in Table : m[1] \in Nat /\ m[1] < Total
  BY ByteNumber
<1>9. Copy(0, Leading) = {m \in Table : m[1] < e[M]}
  BY <1>7, <1>8
<1>10. \A m \in Table : m[1] < e[M] <=> m[1] < len
  BY <1>2, <1>4, <1>5, <1>8 DEF Smaller
<1>11. {m \in Table : m[1] < e[M]} = {m \in Table : m[1] < len}
  BY <1>10
<1> QED
  BY <1>3, <1>4, <1>5, <1>6, <1>9, <1>11

(* The bytes in front of a and those from a to b.                           *)
LEMMA Continued ==
  ASSUME prdt \in Seq(Nat), Growing, NEW a \in Nat, NEW b \in Nat, a <= b
  PROVE  {m \in Table : m[1] < a} \cup {m \in Table : a <= m[1] /\ m[1] < b} = {m \in Table : m[1] < b}
<1>1. \A m \in Table : m[1] \in Nat
  BY ByteNumber
<1>2. \A m \in Table : (m[1] < a \/ (a <= m[1] /\ m[1] < b)) <=> m[1] < b
  BY <1>1
<1> QED
  BY <1>2

-----------------------------------------------------------------------------
(* Regions of some size, put end to end.                                    *)
LEMMA GrowingSums ==
  ASSUME NEW sizes \in Seq(Nat \ {0}), prdt = [i \in DOMAIN sizes |-> Sums(sizes)[i]]
  PROVE  prdt \in Seq(Nat) /\ Growing
<1> DEFINE n == Len(sizes)
<1>0. n \in Nat /\ DOMAIN sizes = 1 .. n /\ sizes \in Seq(Nat) /\ \A k \in 1 .. n : sizes[k] \in Nat /\ sizes[k] > 0
  OBVIOUS
<1>1. PICK t \in [0 .. n -> Nat] : Totals(sizes, t)
  BY <1>0, TotalsExist
<1>2. \A k \in 0 .. n : Sums(sizes)[k] = t[k]
  BY <1>0, <1>1, SumsAre
<1>3. \A k \in 1 .. n : t[k] = t[k - 1] + sizes[k]
  BY <1>1 DEF Totals
<1> HIDE DEF n
<1>4. \A k \in 0 .. n : t[k] \in Nat
  BY <1>1
<1>5. \A k \in 1 .. n : k \in 0 .. n /\ k - 1 \in 0 .. n
  BY <1>0
<1>6. prdt = [i \in 1 .. n |-> t[i]]
  BY <1>0, <1>2, <1>5
<1>7. prdt \in Seq(Nat) /\ Len(prdt) = n /\ DOMAIN prdt = 1 .. n
  <2>1. prdt \in [1 .. n -> Nat]
    BY <1>4, <1>5, <1>6
  <2> QED
    BY <1>0, <2>1
<1>8. ASSUME NEW k \in 1 .. n PROVE t[k - 1] < t[k] /\ t[k] > 0 /\ t[k] \in Nat /\ t[k - 1] \in Nat
  <2>1. t[k] \in Nat /\ t[k - 1] \in Nat /\ sizes[k] \in Nat /\ sizes[k] > 0 /\ t[k] = t[k - 1] + sizes[k]
    BY <1>0, <1>3, <1>4, <1>5
  <2> QED
    BY <2>1
<1>9. ASSUME NEW i \in 1 .. n, NEW j \in i + 1 .. n PROVE t[i] < t[j]
  <2> DEFINE S == {k \in i + 1 .. n : ~ (t[i] < t[k])}
  <2>1. SUFFICES ASSUME S # {} PROVE FALSE
    OBVIOUS
  <2>2. S \subseteq Nat
    BY <1>0
  <2>3. PICK k \in S : \A y \in S : k <= y
    BY <2>1, <2>2, Smallest
  <2>4. k \in i + 1 .. n /\ ~ (t[i] < t[k]) /\ \A y \in i + 1 .. n : ~ (t[i] < t[y]) => k <= y
    BY <2>3
  <2>5. k \in 1 .. n /\ ~ (k <= k - 1) /\ (k - 1 = i \/ k - 1 \in i + 1 .. n)
    BY <1>0, <2>4
  <2>6. t[k - 1] < t[k] /\ t[k] \in Nat /\ t[k - 1] \in Nat /\ t[i] \in Nat
    BY <1>8, <2>5
  <2>7. k - 1 = i \/ t[i] < t[k - 1]
    BY <2>4, <2>5
  <2> QED
    BY <2>4, <2>6, <2>7
<1>10. \A i \in 1 .. n : prdt[i] = t[i]
  BY <1>6
<1>11. ASSUME NEW i \in 1 .. n
       PROVE  prdt[i] > 0 /\ \A j \in i + 1 .. n : prdt[i] < prdt[j]
  <2>1. prdt[i] > 0
    BY <1>8, <1>10
  <2>2. ASSUME NEW j \in i + 1 .. n PROVE prdt[i] < prdt[j]
    <3>1. j \in 1 .. n
      BY <1>0
    <3> QED
      BY <1>9, <1>10, <3>1
  <2> QED
    BY <2>1, <2>2
<1> QED
  BY <1>7, <1>11 DEF Growing

LEMMA PrdtInitInv == PrdtInit => PrdtInv
<1> SUFFICES ASSUME PrdtInit PROVE PrdtInv
  OBVIOUS
<1>1. PICK sizes \in SeqOf(Sizes, MaxPrdtl) : prdt = [i \in DOMAIN sizes |-> Sums(sizes)[i]]
  BY DEF PrdtInit
<1>2. sizes \in Seq(Nat \ {0})
  <2>1. PICK m \in 0 .. MaxPrdtl : sizes \in [1 .. m -> Sizes]
    BY <1>1 DEF SeqOf
  <2>2. m \in Nat /\ sizes \in [1 .. m -> Nat \ {0}]
    <3>1. MaxPrdtl \in Nat /\ Sizes \subseteq Nat \ {0}
      BY AhciPrdtAssumption
    <3>2. \A i \in 1 .. m : sizes[i] \in Nat \ {0}
      BY <2>1, <3>1
    <3> QED
      BY <2>1, <3>1, <3>2
  <2> QED
    BY <2>2
<1>3. prdt \in Seq(Nat) /\ Growing
  BY <1>1, <1>2, GrowingSums
<1>4. len \in Nat /\ len > 0 /\ len % SectSz = 0
  <2>1. PICK n \in 1 .. MaxSects : len = SectSz * n
    BY DEF PrdtInit
  <2>2. n \in Nat /\ n > 0 /\ SectSz \in Nat \ {0}
    BY AhciPrdtAssumption
  <2>3. SectSz * n \in Nat /\ (SectSz * n) % SectSz = 0
    BY <2>2, ModOfProduct
  <2>4. SectSz * n > 0
    BY <2>2
  <2> DEFINE top == SectSz * n
  <2>5. top \in Nat /\ top % SectSz = 0 /\ top > 0 /\ len = top
    BY <2>1, <2>3, <2>4
  <2> HIDE DEF top
  <2> QED
    BY <2>5
<1>5. /\ op \in {"rw", "pio", "list"} /\ stage = "issue" /\ done = 0 /\ more = FALSE
      /\ offset = 0 /\ iov = <<>> /\ prdbc = 0 /\ moved = {}
  BY DEF PrdtInit
<1>6. PrdtTypeOK
  <2>1. Len(iov) <= IovMax
    BY <1>5, AhciPrdtAssumption
  <2>2. {done, offset, prdbc} \subseteq 0 .. len
    BY <1>4, <1>5
  <2> QED
    BY <1>3, <1>4, <1>5, <2>1, <2>2 DEF PrdtTypeOK
<1>7. Parts
  <2>1. Total \in Nat
    BY <1>3, WholeTable
  <2> QED
    BY <1>4, <1>5, <2>1 DEF Parts
<1>8. InPlace
  <2>1. \A m \in Table : ~ (m[1] < 0)
    <3>1. \A m \in Table : m[1] \in Nat
      BY <1>3, ByteNumber
    <3> QED
      BY <3>1
  <2>2. {m \in Table : m[1] < prdbc} = {}
    BY <1>5, <2>1
  <2>3. SectSz \in Nat \ {0} /\ 0 % SectSz = 0
    <3>1. SectSz \in Nat \ {0} /\ SectSz * 0 = 0
      BY AhciPrdtAssumption
    <3> QED
      BY <3>1, ModOfProduct
  <2>4. moved = {m \in Table : m[1] < IF op = "list" /\ stage = "ended" THEN len ELSE prdbc}
    BY <1>5, <2>2
  <2> QED
    BY <1>5, <2>3, <2>4 DEF InPlace
<1>9. EndsFull /\ StopsOnTinyRegions
  BY <1>5 DEF EndsFull, StopsOnTinyRegions
<1> QED
  BY <1>3, <1>6, <1>7, <1>8, <1>9 DEF PrdtInv

-----------------------------------------------------------------------------
(* The table and the length of a command stay.                              *)
LEMMA SameTable ==
  ASSUME prdt' = prdt, len' = len
  PROVE  /\ Table' = Table /\ Total' = Total /\ (Growing => Growing') /\ (Tiny => Tiny')
<1>1. \A i : Begin(i)' = Begin(i)
  BY DEF Begin
<1> QED
  BY <1>1 DEF Table, Total, Growing, Tiny

LEMMA AhciHandleRwInv == PrdtInv /\ AhciHandleRw => PrdtInv'
<1> SUFFICES ASSUME PrdtInv, AhciHandleRw PROVE PrdtInv'
  OBVIOUS
<1> DEFINE P == Gather(done)
           t == LengthOf(P)
           x == Extra(P)
           todo == t - x
<1>1. /\ prdt \in Seq(Nat) /\ Growing /\ len \in Nat /\ len % SectSz = 0
      /\ stage = "issue" /\ op = "rw" /\ done \in Nat /\ done < len /\ done % SectSz = 0 /\ done <= Total
      /\ done = prdbc /\ prdbc \in 0 .. len /\ offset \in 0 .. len /\ more \in BOOLEAN /\ Len(iov) <= IovMax
  BY DEF PrdtInv, PrdtTypeOK, Parts, InPlace, AhciHandleRw
<1>2. BuiltWell(done, P, t, x)
  BY <1>1, BuildIov
<1>3. PICK e : Laid(P, e) /\ e[0] = done /\ e[Len(P)] = done + t
  BY <1>1, BuildIov
<1>4. /\ prdt' = prdt /\ len' = len /\ op' = op /\ prdbc' = prdbc /\ moved' = moved
      /\ IF Len(P) = IovMax /\ todo = 0
           THEN stage' = "halted" /\ UNCHANGED <<done, more, offset, iov>>
           ELSE /\ stage' = "busy" /\ offset' = done /\ iov' = TrimTail(P, x)
                /\ done' = done + todo /\ more' = More(done + todo, P)
  BY DEF AhciHandleRw
<1> HIDE DEF P, t, x, todo
<1>5. Table' = Table /\ Total' = Total /\ Growing' /\ (Tiny => Tiny')
  BY <1>1, <1>4, SameTable
<1>6. moved = {m \in Table : m[1] < prdbc}
  BY <1>1 DEF PrdtInv, InPlace
<1>7. stage' \in {"halted", "busy"}
  BY <1>4
<1>8. InPlace' /\ EndsFull'
  BY <1>4, <1>5, <1>6, <1>7 DEF InPlace, EndsFull
<1>9. CASE Len(P) = IovMax /\ todo = 0
  <2>1. stage' = "halted" /\ done' = done /\ more' = more /\ offset' = offset /\ iov' = iov
    BY <1>4, <1>9
  <2>2. Tiny
    BY <1>2, <1>9 DEF BuiltWell, todo
  <2>3. StopsOnTinyRegions'
    BY <1>5, <2>2 DEF StopsOnTinyRegions, Tiny
  <2>4. Parts' /\ PrdtTypeOK'
    BY <1>1, <1>4, <2>1 DEF Parts, PrdtTypeOK
  <2> QED
    BY <1>5, <1>8, <2>3, <2>4 DEF PrdtInv
<1>10. CASE ~ (Len(P) = IovMax /\ todo = 0)
  <2>1. /\ stage' = "busy" /\ offset' = done /\ iov' = TrimTail(P, x)
        /\ done' = done + todo /\ more' = More(done + todo, P)
    BY <1>4, <1>10
  <2>2. /\ Len(P) <= IovMax /\ t \in Nat /\ x \in Nat /\ x <= t /\ done + t <= len /\ done + t <= Total
        /\ PartEnd(done + todo, More(done + todo, P), Total, len)
    BY <1>2 DEF BuiltWell, todo
  <2>3. Total \in Nat /\ IovMax \in Nat
    BY <1>1, WholeTable, AhciPrdtAssumption
  <2>4. todo \in Nat /\ done + todo \in 0 .. len /\ done + todo <= Total /\ done <= done + todo
    BY <1>1, <2>2, <2>3 DEF todo
  <2>5. x <= e[Len(P)] - e[0]
    BY <1>1, <1>3, <2>2
  <2>6. PICK y : /\ Laid(TrimTail(P, x), y)
                 /\ Len(TrimTail(P, x)) <= Len(P)
                 /\ y[0] = e[0] /\ y[Len(TrimTail(P, x))] = e[Len(P)] - x
    BY <1>1, <1>3, <2>2, <2>5, TrimLaid
  <2>7. y[0] = done /\ y[Len(TrimTail(P, x))] = done + todo
    BY <1>1, <1>3, <2>2, <2>6 DEF todo
  <2>8. Copy(done, TrimTail(P, x)) = {m \in Table : done <= m[1] /\ m[1] < done + todo}
    BY <1>1, <2>6, <2>7, LaidCopy
  <2>9. Len(TrimTail(P, x)) <= IovMax
    <3>1. Len(TrimTail(P, x)) \in Nat /\ Len(P) \in Nat
      BY <1>3, <2>6 DEF Laid
    <3> QED
      BY <2>2, <2>3, <2>6, <3>1
  <2>10. more' \in BOOLEAN
    BY <2>1 DEF More
  <2>11. PrdtTypeOK'
    BY <1>1, <1>4, <2>1, <2>4, <2>9, <2>10 DEF PrdtTypeOK
  <2>12. Copy(offset, iov)' = {m \in Table' : offset' <= m[1] /\ m[1] < done'}
    <3>1. Copy(offset, iov)' = Copy(done, TrimTail(P, x))
      BY <2>1 DEF Copy, LengthUpTo, Sums
    <3> QED
      BY <1>5, <2>1, <2>8, <3>1
  <2>13. IF more' THEN done' % SectSz = 0 /\ done' < len'
         ELSE IF Total' >= len' THEN done' = len' ELSE done' \in {Total', Total' - (Total' % SectSz)}
    BY <1>4, <1>5, <2>1, <2>2 DEF PartEnd
  <2>14. Parts'
    BY <1>1, <1>4, <1>5, <2>1, <2>4, <2>12, <2>13 DEF Parts
  <2>15. StopsOnTinyRegions'
    BY <2>1 DEF StopsOnTinyRegions
  <2> QED
    BY <1>5, <1>8, <2>11, <2>14, <2>15 DEF PrdtInv
<1> QED
  BY <1>9, <1>10

LEMMA AtaIoreqCbInv == ASSUME PrdtInv, NEW err \in BOOLEAN, AtaIoreqCb(err) PROVE PrdtInv'
<1>1. /\ prdt \in Seq(Nat) /\ Growing /\ len \in Nat /\ len % SectSz = 0
      /\ stage = "busy" /\ op = "rw" /\ {done, offset, prdbc} \subseteq 0 .. len
      /\ more \in BOOLEAN /\ Len(iov) <= IovMax
      /\ offset = prdbc /\ offset <= done /\ done <= Total
      /\ Copy(offset, iov) = {m \in Table : offset <= m[1] /\ m[1] < done}
      /\ IF more THEN done % SectSz = 0 /\ done < len
         ELSE IF Total >= len THEN done = len ELSE done \in {Total, Total - (Total % SectSz)}
  BY DEF PrdtInv, PrdtTypeOK, Parts, AtaIoreqCb
<1>2. /\ stage' = IF err THEN "failed" ELSE IF more THEN "issue" ELSE "ended"
      /\ IF err THEN UNCHANGED <<prdbc, moved>>
         ELSE prdbc' = done /\ moved' = moved \cup Copy(offset, iov)
      /\ UNCHANGED <<prdt, op, len, done, more, offset, iov>>
  BY DEF AtaIoreqCb
<1>3. Table' = Table /\ Total' = Total /\ Growing'
  BY <1>1, <1>2, SameTable
<1>4. moved = {m \in Table : m[1] < prdbc}
  BY <1>1 DEF PrdtInv, InPlace
<1>5. PrdtTypeOK'
  BY <1>1, <1>2 DEF PrdtTypeOK
<1>6. StopsOnTinyRegions'
  BY <1>2 DEF StopsOnTinyRegions
<1>7. moved' = {m \in Table : m[1] < prdbc'}
  <2>1. CASE err
    BY <1>2, <1>4, <2>1
  <2>2. CASE ~ err
    <3>1. offset \in Nat /\ done \in Nat
      BY <1>1
    <3>2. moved' = {m \in Table : m[1] < offset} \cup {m \in Table : offset <= m[1] /\ m[1] < done}
      BY <1>1, <1>2, <1>4, <2>2
    <3>3. moved' = {m \in Table : m[1] < done}
      BY <1>1, <3>1, <3>2, Continued
    <3> QED
      BY <1>2, <2>2, <3>3
  <2> QED
    BY <2>1, <2>2
<1>8. stage' = "issue" => more /\ prdbc' = done /\ done' = done /\ done % SectSz = 0 /\ done < len
  BY <1>1, <1>2
<1>9. InPlace'
  <2>1. op' = "rw"
    BY <1>1, <1>2
  <2>2. moved' = {m \in Table' : m[1] < IF op' = "list" /\ stage' = "ended" THEN len' ELSE prdbc'}
    BY <1>3, <1>7, <2>1
  <2> QED
    BY <1>8, <2>2 DEF InPlace
<1>10. Parts'
  <2>1. stage' # "busy" /\ done' = done /\ len' = len
    BY <1>2
  <2> QED
    BY <1>1, <1>3, <1>8, <2>1 DEF Parts
<1>11. EndsFull'
  <2>1. stage' = "ended" => ~ more /\ prdbc' = done
    BY <1>2
  <2> QED
    BY <1>1, <1>2, <1>3, <2>1 DEF EndsFull
<1> QED
  BY <1>3, <1>5, <1>6, <1>9, <1>10, <1>11 DEF PrdtInv

LEMMA WholeCommandInv == PrdtInv /\ (WritePrdt \/ ReadPrdt) => PrdtInv'
<1> SUFFICES ASSUME PrdtInv, WritePrdt \/ ReadPrdt PROVE PrdtInv'
  OBVIOUS
<1>1. /\ prdt \in Seq(Nat) /\ Growing /\ len \in Nat /\ len % SectSz = 0
      /\ stage = "issue" /\ {done, offset, prdbc} \subseteq 0 .. len
      /\ more \in BOOLEAN /\ Len(iov) <= IovMax /\ done < len /\ done = prdbc
  BY DEF PrdtInv, PrdtTypeOK, Parts, InPlace, WritePrdt, ReadPrdt
<1>2. /\ stage' = "ended" /\ UNCHANGED <<prdt, op, len, done, more, offset, iov>>
      /\ moved' = Copy(0, Leading)
      /\ \/ op = "pio" /\ prdbc' = LengthOf(Leading)
         \/ op = "list" /\ prdbc' = prdbc
  BY DEF WritePrdt, ReadPrdt
<1>3. Table' = Table /\ Total' = Total /\ Growing'
  BY <1>1, <1>2, SameTable
<1>4. len > 0 /\ Total \in Nat
  BY <1>1, WholeTable
<1>5. /\ LengthOf(Leading) = Smaller(Total, len)
      /\ Copy(0, Leading) = {m \in Table : m[1] < Smaller(Total, len)}
      /\ Copy(0, Leading) = {m \in Table : m[1] < len}
  BY <1>1, <1>4, LeadingCopy
<1>6. Smaller(Total, len) \in 0 .. len
  BY <1>1, <1>4 DEF Smaller
<1>7. PrdtTypeOK'
  <2>1. prdbc' \in 0 .. len
    BY <1>1, <1>2, <1>5, <1>6
  <2> QED
    BY <1>1, <1>2, <2>1 DEF PrdtTypeOK
<1>8. Parts' /\ StopsOnTinyRegions'
  BY <1>1, <1>2 DEF Parts, StopsOnTinyRegions
<1>9. InPlace'
  <2>1. CASE op = "pio"
    <3>1. prdbc' = Smaller(Total, len) /\ op' = "pio"
      BY <1>2, <1>5, <2>1
    <3>2. moved' = {m \in Table' : m[1] < prdbc'}
      BY <1>2, <1>3, <1>5, <3>1
    <3> QED
      BY <1>2, <3>1, <3>2 DEF InPlace
  <2>2. CASE op = "list"
    <3>1. moved' = {m \in Table' : m[1] < len'}
      BY <1>2, <1>3, <1>5
    <3> QED
      BY <1>2, <2>2, <3>1 DEF InPlace
  <2> QED
    BY <1>2, <2>1, <2>2
<1>10. EndsFull'
  <2>1. op' # "list" => prdbc' = Smaller(Total, len)
    BY <1>2, <1>5
  <2> QED
    BY <1>1, <1>2, <1>3, <1>4, <2>1 DEF EndsFull, Smaller
<1> QED
  BY <1>3, <1>7, <1>8, <1>9, <1>10 DEF PrdtInv

(* However ahci_build_iov cuts a command into parts, at the end of the      *)
(* iovec, of a region or of a sector, every byte of the data goes to or     *)
(* comes from its place in the table, once, and PRDBC counts them; a        *)
(* command that ends has moved all there is room for; and assert(todo > 0)  *)
(* fails only on a table whose regions are that small.                      *)
THEOREM EveryByteInPlace == PrdtSpec => []PrdtInv
<1>1. PrdtInit => PrdtInv
  BY PrdtInitInv
<1>2. PrdtInv /\ [PrdtNext]_prdtVars => PrdtInv'
  <2> SUFFICES ASSUME PrdtInv, [PrdtNext]_prdtVars PROVE PrdtInv'
    OBVIOUS
  <2>1. CASE AhciHandleRw
    BY <2>1, AhciHandleRwInv
  <2>2. CASE \E err \in BOOLEAN : AtaIoreqCb(err)
    BY <2>2, AtaIoreqCbInv
  <2>3. CASE WritePrdt \/ ReadPrdt
    BY <2>3, WholeCommandInv
  <2>4. CASE UNCHANGED prdtVars
    <3>1. UNCHANGED <<prdt, op, len, stage, done, more, offset, iov, prdbc, moved>>
      BY <2>4 DEF prdtVars
    <3>2. Table' = Table /\ Total' = Total /\ Growing' /\ (Tiny => Tiny')
      BY <3>1, SameTable DEF PrdtInv
    <3>3. Copy(offset, iov)' = Copy(offset, iov)
      BY <3>1 DEF Copy, LengthUpTo, Sums
    <3>4. PrdtTypeOK'
      BY <3>1 DEF PrdtInv, PrdtTypeOK
    <3>5. Parts'
      BY <3>1, <3>2, <3>3 DEF PrdtInv, Parts
    <3>6. InPlace' /\ EndsFull'
      BY <3>1, <3>2 DEF PrdtInv, InPlace, EndsFull
    <3>7. StopsOnTinyRegions'
      BY <3>1, <3>2 DEF PrdtInv, StopsOnTinyRegions, Tiny
    <3> QED
      BY <3>2, <3>4, <3>5, <3>6, <3>7 DEF PrdtInv
  <2> QED
    BY <2>1, <2>2, <2>3, <2>4 DEF PrdtNext, Over
<1> QED
  BY <1>1, <1>2, PTL DEF PrdtSpec
===============================================================================
