-------------------------- MODULE E82545EepromProofs --------------------------
(***************************************************************************)
(* Proofs about E82545Eeprom for every number of address and data bits and  *)
(* every image: the state machine behind EECD is the abstract EEPROM, and   *)
(* the words e82545_init_eeprom leaves sum to NVM_SUM.                      *)
(***************************************************************************)
EXTENDS E82545Eeprom, SequenceTheorems, WellFoundedInduction, TLAPS

-----------------------------------------------------------------------------
(* Lemmas about the operators.                                              *)

LEMMA Widths ==
  /\ OpBits = 3 /\ OpAddrBits \in Nat /\ OpAddrBits = 3 + AddrBits
  /\ AddrBits \in Nat \ {0} /\ DataBits \in Nat \ {0}
  BY E82545EepromAssumption DEF OpBits, OpAddrBits

LEMMA ReadIsNotWrite == READ # WRITE
<1>1. READ[2] = 1 /\ WRITE[2] = 0
  BY DEF READ, WRITE
<1> QED
  BY <1>1

LEMMA ShiftedType ==
  ASSUME NEW n \in Nat, NEW r \in [1 .. n -> Bit], NEW b \in Bit
  PROVE  /\ Shifted(r, n, b) \in [1 .. n -> Bit]
         /\ \A i \in 1 .. n : Shifted(r, n, b)[i] = IF i < n THEN r[i + 1] ELSE b
  BY DEF Shifted, Bit

LEMMA ZerosType ==
  ASSUME NEW n \in Nat
  PROVE  Zeros(n) \in [1 .. n -> Bit] /\ \A i \in 1 .. n : Zeros(n)[i] = 0
  BY DEF Zeros, Bit

LEMMA AddrOfType ==
  ASSUME NEW r \in [1 .. OpAddrBits -> Bit]
  PROVE  AddrOf(r) \in Addr
  BY Widths DEF AddrOf, Addr

-----------------------------------------------------------------------------
(* The recursive functions of the model, each over 0 .. n: that they exist,  *)
(* and what they compute.                                                   *)

(* What holds of 0 and is handed on by every step holds up to n.            *)
LEMMA Upwards ==
  ASSUME NEW n \in Nat, NEW T, 0 \in T, \A k \in 1 .. n : k - 1 \in T => k \in T
  PROVE  \A k \in 0 .. n : k \in T
<1> DEFINE R == OpToRel(<, Nat)
           S == (0 .. n) \ T
<1>1. SUFFICES ASSUME S # {} PROVE FALSE
  OBVIOUS
<1>2. IsWellFoundedOn(R, Nat)
  BY NatLessThanWellFounded
<1>3. \A a, b \in Nat : a < b => <<a, b>> \in R
  BY DEF OpToRel
<1> HIDE DEF R
<1>4. S \subseteq Nat
  OBVIOUS
<1>5. PICK x \in S : \A y \in S : ~ (<<y, x>> \in R)
  BY <1>1, <1>2, <1>4, WFMin
<1>6. x \in 1 .. n /\ x \notin T
  BY <1>5
<1>7. x - 1 \in 0 .. n /\ x - 1 < x /\ x - 1 \in Nat /\ x \in Nat
  BY <1>6
<1>8. x - 1 \in T
  BY <1>3, <1>5, <1>7
<1> QED
  BY <1>6, <1>8

(* A function of 0 .. n defined by its first value and a step exists.       *)
Iterates(n, a, g, t) == t[0] = a /\ \A k \in 1 .. n : t[k] = g[k][t[k - 1]]

LEMMA Iterated ==
  ASSUME NEW n \in Nat, NEW S, NEW a \in S, NEW g \in [1 .. n -> [S -> S]]
  PROVE  \E t \in [0 .. n -> S] : Iterates(n, a, g, t)
<1> DEFINE T == {m \in 0 .. n : \E t \in [0 .. m -> S] : Iterates(m, a, g, t)}
<1>1. 0 \in T
  <2> DEFINE t == [k \in 0 .. 0 |-> a]
  <2>1. t \in [0 .. 0 -> S] /\ t[0] = a
    OBVIOUS
  <2>2. Iterates(0, a, g, t)
    BY <2>1 DEF Iterates
  <2> HIDE DEF t
  <2> QED
    BY <2>1, <2>2
<1>2. ASSUME NEW m \in 1 .. n, m - 1 \in T PROVE m \in T
  <2>1. PICK t \in [0 .. m - 1 -> S] : Iterates(m - 1, a, g, t)
    BY <1>2
  <2> DEFINE u == [k \in 0 .. m |-> IF k = m THEN g[m][t[m - 1]] ELSE t[k]]
  <2>2. m - 1 \in 0 .. m - 1 /\ t[m - 1] \in S /\ g[m] \in [S -> S]
    OBVIOUS
  <2>3. g[m][t[m - 1]] \in S
    BY <2>2
  <2>4. u \in [0 .. m -> S]
    BY <2>3
  <2>5. u[0] = a
    BY <2>1 DEF Iterates
  <2>6. ASSUME NEW k \in 1 .. m PROVE u[k] = g[k][u[k - 1]]
    <3>1. u[k - 1] = t[k - 1]
      OBVIOUS
    <3>2. CASE k = m
      BY <3>1, <3>2
    <3>3. CASE k # m
      <4>1. k \in 1 .. m - 1 /\ u[k] = t[k]
        BY <3>3
      <4>2. t[k] = g[k][t[k - 1]]
        BY <2>1, <4>1 DEF Iterates
      <4> QED
        BY <3>1, <4>1, <4>2
    <3> QED
      BY <3>2, <3>3
  <2>7. Iterates(m, a, g, u)
    BY <2>5, <2>6 DEF Iterates
  <2> HIDE DEF u
  <2> QED
    BY <2>4, <2>7
<1> HIDE DEF T
<1>3. \A k \in 0 .. n : k \in T
  BY <1>1, <1>2, Upwards
<1>4. n \in T
  BY <1>3
<1> QED
  BY <1>4 DEF T

-----------------------------------------------------------------------------
(* Numbers and their bits.                                                  *)

IsPow2(n, p) == p = [k \in 0 .. n |-> IF k = 0 THEN 1 ELSE 2 * p[k - 1]]

LEMMA Pow2IsIf ==
  ASSUME NEW n, NEW t, IsPow2(n, t) PROVE \E p : IsPow2(n, p) /\ Pow2(n) = p[n]
  BY Zenon DEF IsPow2, Pow2

Doubles(n, p) ==
    p \in [0 .. n -> Nat \ {0}] /\ p[0] = 1 /\ \A k \in 1 .. n : p[k] = 2 * p[k - 1]

LEMMA Pow2Is ==
  ASSUME NEW n \in Nat PROVE \E p : Doubles(n, p) /\ Pow2(n) = p[n]
<1> DEFINE S == Nat \ {0}
           g == [k \in 1 .. n |-> [x \in S |-> 2 * x]]
<1>1. g \in [1 .. n -> [S -> S]] /\ 1 \in S
  OBVIOUS
<1>2. PICK t \in [0 .. n -> S] : Iterates(n, 1, g, t)
  <2> HIDE DEF g, S
  <2> QED
    BY <1>1, Iterated
<1>3. t[0] = 1 /\ \A k \in 1 .. n : t[k] = g[k][t[k - 1]]
  BY <1>2 DEF Iterates
<1>4. ASSUME NEW k \in 1 .. n PROVE t[k] = 2 * t[k - 1]
  <2>1. k - 1 \in 0 .. n
    OBVIOUS
  <2> QED
    BY <1>2, <1>3, <2>1
<1>5. t = [k \in 0 .. n |-> IF k = 0 THEN 1 ELSE 2 * t[k - 1]]
  BY <1>2, <1>3, <1>4
<1>6. PICK p : IsPow2(n, p) /\ Pow2(n) = p[n]
  BY <1>5, Pow2IsIf DEF IsPow2
<1>7. p[0] = 1 /\ \A k \in 1 .. n : p[k] = 2 * p[k - 1]
  BY <1>6 DEF IsPow2
<1> DEFINE T == {k \in 0 .. n : p[k] \in S}
<1>8. 0 \in T
  BY <1>7
<1>9. \A k \in 1 .. n : k - 1 \in T => k \in T
  BY <1>7
<1>10. \A k \in 0 .. n : k \in T
  <2> HIDE DEF T
  <2> QED
    BY <1>8, <1>9, Upwards
<1>11. p = [k \in 0 .. n |-> p[k]]
  <2>1. p = [k \in 0 .. n |-> IF k = 0 THEN 1 ELSE 2 * p[k - 1]]
    BY <1>6 DEF IsPow2
  <2> QED
    BY <2>1, Zenon
<1>12. p \in [0 .. n -> S]
  BY <1>10, <1>11
<1> QED
  BY <1>6, <1>7, <1>12 DEF Doubles

IsShr(x, n, s) == s = [k \in 0 .. n |-> IF k = 0 THEN x ELSE s[k - 1] \div 2]
LowBits(s, n) == [i \in 1 .. n |-> IF s[n - i] % 2 = 1 THEN 1 ELSE 0]

LEMMA BitsIf ==
  ASSUME NEW x, NEW n, NEW t, IsShr(x, n, t)
  PROVE  \E s : IsShr(x, n, s) /\ BitsOf(x, n) = LowBits(s, n)
  BY Zenon DEF IsShr, BitsOf, LowBits

IsValue(w, n, v) == v = [i \in 0 .. n |-> IF i = 0 THEN 0 ELSE 2 * v[i - 1] + w[i]]

LEMMA ValueIsIf ==
  ASSUME NEW w, NEW n, NEW t, IsValue(w, n, t) PROVE \E v : IsValue(w, n, v) /\ Value(w, n) = v[n]
  BY Zenon DEF IsValue, Value

Shrinks(x, n, s) ==
    s \in [0 .. n -> Nat] /\ s[0] = x /\ \A k \in 1 .. n : s[k] = s[k - 1] \div 2

LEMMA BitsAre ==
  ASSUME NEW n \in Nat, NEW x \in Nat
  PROVE  \E s : Shrinks(x, n, s) /\ BitsOf(x, n) = LowBits(s, n)
<1> DEFINE g == [k \in 1 .. n |-> [y \in Nat |-> y \div 2]]
<1>1. g \in [1 .. n -> [Nat -> Nat]]
  <2>1. \A y \in Nat : y \div 2 \in Nat
    OBVIOUS
  <2> QED
    BY <2>1
<1>2. PICK t \in [0 .. n -> Nat] : Iterates(n, x, g, t)
  <2> HIDE DEF g
  <2> QED
    BY <1>1, Iterated
<1>3. t[0] = x /\ \A k \in 1 .. n : t[k] = g[k][t[k - 1]]
  BY <1>2 DEF Iterates
<1>4. ASSUME NEW k \in 1 .. n PROVE t[k] = t[k - 1] \div 2
  <2>1. k - 1 \in 0 .. n
    OBVIOUS
  <2> QED
    BY <1>2, <1>3, <2>1
<1>5. t = [k \in 0 .. n |-> IF k = 0 THEN x ELSE t[k - 1] \div 2]
  BY <1>2, <1>3, <1>4
<1>6. PICK s : IsShr(x, n, s) /\ BitsOf(x, n) = LowBits(s, n)
  BY <1>5, BitsIf DEF IsShr
<1>7. s[0] = x /\ \A k \in 1 .. n : s[k] = s[k - 1] \div 2
  BY <1>6 DEF IsShr
<1> DEFINE T == {k \in 0 .. n : s[k] \in Nat}
<1>8. 0 \in T
  BY <1>7
<1>9. ASSUME NEW k \in 1 .. n, k - 1 \in T PROVE k \in T
  <2>1. s[k - 1] \in Nat /\ s[k] = s[k - 1] \div 2
    BY <1>7, <1>9
  <2>2. s[k] \in Nat
    BY <2>1
  <2> QED
    BY <2>2
<1>10. \A k \in 0 .. n : k \in T
  <2> HIDE DEF T
  <2> QED
    BY <1>8, <1>9, Upwards
<1>11. s = [k \in 0 .. n |-> s[k]]
  <2>1. s = [k \in 0 .. n |-> IF k = 0 THEN x ELSE s[k - 1] \div 2]
    BY <1>6 DEF IsShr
  <2> QED
    BY <2>1, Zenon
<1>12. s \in [0 .. n -> Nat]
  BY <1>10, <1>11
<1> QED
  BY <1>6, <1>7, <1>12 DEF Shrinks

LEMMA BitsType ==
  ASSUME NEW n \in Nat, NEW x \in Nat PROVE BitsOf(x, n) \in [1 .. n -> Bit]
<1>1. PICK s : BitsOf(x, n) = LowBits(s, n)
  BY BitsAre
<1> QED
  BY <1>1 DEF LowBits, Bit

Reads(w, n, v) ==
    v \in [0 .. n -> Nat] /\ v[0] = 0 /\ \A i \in 1 .. n : v[i] = 2 * v[i - 1] + w[i]

LEMMA ValueIs ==
  ASSUME NEW n \in Nat, NEW w \in [1 .. n -> Bit]
  PROVE  \E v : Reads(w, n, v) /\ Value(w, n) = v[n]
<1> DEFINE g == [k \in 1 .. n |-> [y \in Nat |-> 2 * y + w[k]]]
<1>0. \A k \in 1 .. n : w[k] \in Nat
  BY DEF Bit
<1>1. g \in [1 .. n -> [Nat -> Nat]]
  BY <1>0
<1>2. PICK t \in [0 .. n -> Nat] : Iterates(n, 0, g, t)
  <2> HIDE DEF g
  <2> QED
    BY <1>1, Iterated
<1>3. t[0] = 0 /\ \A k \in 1 .. n : t[k] = g[k][t[k - 1]]
  BY <1>2 DEF Iterates
<1>4. ASSUME NEW k \in 1 .. n PROVE t[k] = 2 * t[k - 1] + w[k]
  <2>1. k - 1 \in 0 .. n
    OBVIOUS
  <2> QED
    BY <1>2, <1>3, <2>1
<1>5. t = [k \in 0 .. n |-> IF k = 0 THEN 0 ELSE 2 * t[k - 1] + w[k]]
  BY <1>2, <1>3, <1>4
<1>6. PICK v : IsValue(w, n, v) /\ Value(w, n) = v[n]
  BY <1>5, ValueIsIf DEF IsValue
<1>7. v[0] = 0 /\ \A k \in 1 .. n : v[k] = 2 * v[k - 1] + w[k]
  BY <1>6 DEF IsValue
<1> DEFINE T == {k \in 0 .. n : v[k] \in Nat}
<1>8. 0 \in T
  BY <1>7
<1>9. \A k \in 1 .. n : k - 1 \in T => k \in T
  BY <1>0, <1>7
<1>10. \A k \in 0 .. n : k \in T
  <2> HIDE DEF T
  <2> QED
    BY <1>8, <1>9, Upwards
<1>11. v = [k \in 0 .. n |-> v[k]]
  <2>1. v = [k \in 0 .. n |-> IF k = 0 THEN 0 ELSE 2 * v[k - 1] + w[k]]
    BY <1>6 DEF IsValue
  <2> QED
    BY <2>1, Zenon
<1>12. v \in [0 .. n -> Nat]
  BY <1>10, <1>11
<1> QED
  BY <1>6, <1>7, <1>12 DEF Reads

LEMMA ValueType ==
  ASSUME NEW n \in Nat, NEW w \in [1 .. n -> Bit] PROVE Value(w, n) \in Nat
<1>1. PICK v : Reads(w, n, v) /\ Value(w, n) = v[n]
  BY ValueIs
<1> QED
  BY <1>1 DEF Reads

(* The n bits of a number that fits in n bits hold that number.             *)
LEMMA ValueOfBits ==
  ASSUME NEW n \in Nat, NEW x \in Nat, x < Pow2(n)
  PROVE  Value(BitsOf(x, n), n) = x
<1>1. PICK p : Doubles(n, p) /\ Pow2(n) = p[n]
  BY Pow2Is
<1>2. PICK s : Shrinks(x, n, s) /\ BitsOf(x, n) = LowBits(s, n)
  BY BitsAre
<1>3. PICK v : Reads(BitsOf(x, n), n, v) /\ Value(BitsOf(x, n), n) = v[n]
  BY BitsType, ValueIs
<1>p. p \in [0 .. n -> Nat \ {0}] /\ p[0] = 1 /\ \A k \in 1 .. n : p[k] = 2 * p[k - 1]
  BY <1>1 DEF Doubles
<1>s. s \in [0 .. n -> Nat] /\ s[0] = x /\ \A k \in 1 .. n : s[k] = s[k - 1] \div 2
  BY <1>2 DEF Shrinks
<1>v. /\ v \in [0 .. n -> Nat] /\ v[0] = 0
      /\ \A i \in 1 .. n : v[i] = 2 * v[i - 1] + IF s[n - i] % 2 = 1 THEN 1 ELSE 0
  BY <1>2, <1>3 DEF Reads, LowBits
<1> DEFINE T == {k \in 0 .. n : s[k] < p[n - k]}
<1>4. 0 \in T
  BY <1>1, <1>s
<1>5. ASSUME NEW k \in 1 .. n, k - 1 \in T PROVE k \in T
  <2>1. n - (k - 1) \in 1 .. n /\ n - k \in 0 .. n /\ (n - (k - 1)) - 1 = n - k /\ k - 1 \in 0 .. n
    OBVIOUS
  <2>2. s[k - 1] < p[n - (k - 1)]
    BY <1>5
  <2>3. p[n - (k - 1)] = 2 * p[n - k]
    BY <1>p, <2>1
  <2>4. s[k] = s[k - 1] \div 2 /\ s[k - 1] \in Nat /\ p[n - k] \in Nat
    BY <1>s, <1>p, <2>1
  <2>5. s[k] < p[n - k]
    BY <2>2, <2>3, <2>4
  <2> QED
    BY <2>5
<1>6. \A k \in 0 .. n : k \in T
  <2> HIDE DEF T
  <2> QED
    BY <1>4, <1>5, Upwards
<1>7. s[n] = 0
  <2>1. n \in T /\ n - n = 0
    BY <1>6
  <2>2. s[n] < 1 /\ s[n] \in Nat
    BY <1>p, <1>s, <2>1
  <2> QED
    BY <2>2
<1> DEFINE U == {i \in 0 .. n : v[i] = s[n - i]}
<1>8. 0 \in U
  BY <1>v, <1>7
<1>9. ASSUME NEW i \in 1 .. n, i - 1 \in U PROVE i \in U
  <2>1. n - (i - 1) \in 1 .. n /\ n - i \in 0 .. n /\ (n - (i - 1)) - 1 = n - i
    OBVIOUS
  <2>2. v[i - 1] = s[n - (i - 1)]
    BY <1>9
  <2>3. s[n - (i - 1)] = s[n - i] \div 2 /\ s[n - i] \in Nat
    BY <1>s, <2>1
  <2>4. v[i] = 2 * v[i - 1] + IF s[n - i] % 2 = 1 THEN 1 ELSE 0
    BY <1>v
  <2>5. v[i] = s[n - i]
    BY <2>2, <2>3, <2>4
  <2> QED
    BY <2>5
<1>10. \A i \in 0 .. n : i \in U
  <2> HIDE DEF U
  <2> QED
    BY <1>8, <1>9, Upwards
<1>11. n \in U /\ n - n = 0
  BY <1>10
<1>12. v[n] = x
  BY <1>11, <1>s
<1> QED
  BY <1>3, <1>12

-----------------------------------------------------------------------------
(* The checksum.                                                            *)

Mod == Pow2(DataBits)

LEMMA ModType == Mod \in Nat \ {0}
<1>1. PICK p : Doubles(DataBits, p) /\ Pow2(DataBits) = p[DataBits]
  BY Widths, Pow2Is
<1> QED
  BY <1>1, Widths DEF Doubles, Mod

LEMMA AddrAtType == ASSUME NEW k \in Nat PROVE AddrAt(k) \in Addr
  BY BitsType, Widths DEF AddrAt, Addr

(* No two words have the same address.                                      *)
LEMMA AddrAtInjective ==
  ASSUME NEW j \in Nat, NEW k \in Nat, j < Pow2(AddrBits), k < Pow2(AddrBits), AddrAt(j) = AddrAt(k)
  PROVE  j = k
<1>1. Value(AddrAt(j), AddrBits) = j
  BY ValueOfBits, Widths DEF AddrAt
<1>2. Value(AddrAt(k), AddrBits) = k
  BY ValueOfBits, Widths DEF AddrAt
<1> QED
  BY <1>1, <1>2

IsSum(w, n, s) ==
    s = [k \in 0 .. n |->
           IF k = 0 THEN 0
           ELSE (s[k - 1] + Value(w[AddrAt(k - 1)], DataBits)) % Pow2(DataBits)]

LEMMA SumIsIf ==
  ASSUME NEW w, NEW n, NEW t, IsSum(w, n, t) PROVE \E s : IsSum(w, n, s) /\ Sum(w, n) = s[n]
  BY Zenon DEF IsSum, Sum

WordAt(w, k) == Value(w[AddrAt(k - 1)], DataBits)

Adds(w, n, s) ==
    /\ s \in [0 .. n -> 0 .. Mod - 1] /\ s[0] = 0
    /\ \A k \in 1 .. n : s[k] = (s[k - 1] + WordAt(w, k)) % Mod

LEMMA ModRange ==
  ASSUME NEW m \in Nat \ {0}, NEW x \in Nat PROVE x % m \in 0 .. m - 1
  OBVIOUS

LEMMA WordAtType ==
  ASSUME NEW w \in [Addr -> Word], NEW k \in Nat \ {0} PROVE WordAt(w, k) \in Nat
<1>1. k - 1 \in Nat
  OBVIOUS
<1>2. AddrAt(k - 1) \in Addr
  BY <1>1, AddrAtType
<1>3. w[AddrAt(k - 1)] \in [1 .. DataBits -> Bit] /\ DataBits \in Nat
  BY <1>2, Widths DEF Word
<1> QED
  BY <1>3, ValueType DEF WordAt

LEMMA SumIs ==
  ASSUME NEW n \in Nat, NEW w \in [Addr -> Word]
  PROVE  \E s : Adds(w, n, s) /\ Sum(w, n) = s[n]
<1> DEFINE S == 0 .. Mod - 1
           g == [k \in 1 .. n |-> [y \in S |-> (y + WordAt(w, k)) % Mod]]
<1>0. ASSUME NEW k \in 1 .. n, NEW y \in S PROVE (y + WordAt(w, k)) % Mod \in S
  <2>1. WordAt(w, k) \in Nat
    BY WordAtType
  <2>2. y + WordAt(w, k) \in Nat
    BY <2>1, ModType
  <2> QED
    BY <2>2, ModType, ModRange
<1>1. 0 \in S
  BY ModType
<1> HIDE DEF S
<1>2. g \in [1 .. n -> [S -> S]]
  BY <1>0
<1>3. PICK t \in [0 .. n -> S] : Iterates(n, 0, g, t)
  <2> HIDE DEF g
  <2> QED
    BY <1>1, <1>2, Iterated
<1>4. t[0] = 0 /\ \A k \in 1 .. n : t[k] = g[k][t[k - 1]]
  BY <1>3 DEF Iterates
<1>5. ASSUME NEW k \in 1 .. n PROVE t[k] = (t[k - 1] + WordAt(w, k)) % Mod
  <2>1. k - 1 \in 0 .. n
    OBVIOUS
  <2> QED
    BY <1>3, <1>4, <2>1
<1>6. \A k \in 0 .. n : t[k] = IF k = 0 THEN 0 ELSE (t[k - 1] + WordAt(w, k)) % Mod
  BY <1>4, <1>5
<1>7. t = [k \in 0 .. n |-> IF k = 0 THEN 0 ELSE (t[k - 1] + WordAt(w, k)) % Mod]
  BY <1>3, <1>6
<1>8. IsSum(w, n, t)
  BY <1>7, Zenon DEF IsSum, WordAt, Mod
<1>9. PICK s : IsSum(w, n, s) /\ Sum(w, n) = s[n]
  BY <1>8, SumIsIf
<1>10. s = [k \in 0 .. n |-> IF k = 0 THEN 0 ELSE (s[k - 1] + WordAt(w, k)) % Mod]
  BY <1>9, Zenon DEF IsSum, WordAt, Mod
<1>11. s[0] = 0 /\ \A k \in 1 .. n : s[k] = (s[k - 1] + WordAt(w, k)) % Mod
  BY <1>10
<1> DEFINE T == {k \in 0 .. n : s[k] \in S}
<1>12. 0 \in T
  BY <1>1, <1>11
<1>13. ASSUME NEW k \in 1 .. n, k - 1 \in T PROVE k \in T
  <2>1. (s[k - 1] + WordAt(w, k)) % Mod \in S
    BY <1>0, <1>13
  <2> QED
    BY <1>11, <2>1
<1>14. \A k \in 0 .. n : k \in T
  <2> HIDE DEF T
  <2> QED
    BY <1>12, <1>13, Upwards
<1>15. s = [k \in 0 .. n |-> s[k]]
  BY <1>10, Zenon
<1>16. s \in [0 .. n -> S]
  BY <1>14, <1>15
<1> QED
  BY <1>9, <1>11, <1>16 DEF Adds, S

(* Sums over the same words are the same.                                   *)
LEMMA SumsAgree ==
  ASSUME NEW n \in Nat, NEW m \in Nat, n <= m, NEW v, NEW w, NEW s, NEW t,
         Adds(v, n, s), Adds(w, m, t), \A k \in 1 .. n : WordAt(v, k) = WordAt(w, k)
  PROVE  s[n] = t[n]
<1> DEFINE T == {k \in 0 .. n : s[k] = t[k]}
<1>1. 0 \in T
  BY DEF Adds
<1>2. ASSUME NEW k \in 1 .. n, k - 1 \in T PROVE k \in T
  <2>1. s[k] = (s[k - 1] + WordAt(v, k)) % Mod
    BY DEF Adds
  <2>2. k \in 1 .. m
    OBVIOUS
  <2>3. t[k] = (t[k - 1] + WordAt(w, k)) % Mod
    BY <2>2 DEF Adds
  <2>4. s[k - 1] = t[k - 1] /\ WordAt(v, k) = WordAt(w, k)
    BY <1>2
  <2>5. s[k] = t[k]
    BY <2>1, <2>3, <2>4
  <2> QED
    BY <2>5
<1>3. \A k \in 0 .. n : k \in T
  <2> HIDE DEF T
  <2> QED
    BY <1>1, <1>2, Upwards
<1>4. n \in T
  BY <1>3
<1> QED
  BY <1>4

LEMMA DivMod ==
  ASSUME NEW s \in Nat \ {0}, NEW x \in Nat
  PROVE  \E q \in Nat : \E m \in 0 .. s - 1 : x % s = m /\ x = s * q + m
<1> DEFINE q == x \div s
           m == x % s
<1>1. q \in Nat /\ m \in 0 .. s - 1 /\ x = s * q + m
  OBVIOUS
<1>2. x % s = m
  OBVIOUS
<1> HIDE DEF q, m
<1> QED
  BY <1>1, <1>2

(* A number below 2 * s is its own remainder, or s more than it.            *)
LEMMA ModBelowTwice ==
  ASSUME NEW s \in Nat \ {0}, NEW r \in 0 .. s - 1, NEW x \in Nat, x = r \/ x = s + r
  PROVE  x % s = r
<1>1. PICK d \in Nat : \E m \in 0 .. s - 1 : x % s = m /\ x = s * d + m
  BY DivMod
<1>2. PICK m \in 0 .. s - 1 : x % s = m /\ x = s * d + m
  BY <1>1
<1>3. CASE d = 0
  BY <1>2, <1>3
<1>4. CASE d = 1
  BY <1>2, <1>4
<1>5. CASE d >= 2
  <2>1. s * d >= s * 2
    BY <1>5
  <2> QED
    BY <1>2, <2>1
<1> QED
  BY <1>3, <1>4, <1>5

(* What is missing makes the sum.                                           *)
LEMMA Missing ==
  ASSUME NEW m \in Nat \ {0}, NEW c \in 0 .. m - 1, NEW s \in 0 .. m - 1
  PROVE  /\ (c + m - s) % m \in 0 .. m - 1
         /\ (s + ((c + m - s) % m)) % m = c
<1>1. CASE c >= s
  <2>1. (c + m - s) % m = c - s
    <3> DEFINE x == c + m - s
               r == c - s
    <3>1. r \in 0 .. m - 1 /\ x \in Nat /\ x = m + r
      BY <1>1
    <3> HIDE DEF x, r
    <3>2. x % m = r
      BY <3>1, ModBelowTwice
    <3> QED
      BY <3>2 DEF x, r
  <2>2. s + (c - s) = c /\ c % m = c
    BY ModBelowTwice
  <2> QED
    BY <1>1, <2>1, <2>2
<1>2. CASE c < s
  <2>1. (c + m - s) % m = c + m - s
    <3> DEFINE x == c + m - s
    <3>1. x \in 0 .. m - 1 /\ x \in Nat
      BY <1>2
    <3> HIDE DEF x
    <3>2. x % m = x
      BY <3>1, ModBelowTwice
    <3> QED
      BY <3>2 DEF x
  <2>2. s + (c + m - s) = m + c /\ m + c \in Nat
    OBVIOUS
  <2>3. (m + c) % m = c
    <3> DEFINE x == m + c
    <3>1. x \in Nat /\ x = m + c
      OBVIOUS
    <3> HIDE DEF x
    <3>2. x % m = c
      BY <3>1, ModBelowTwice
    <3> QED
      BY <3>2 DEF x
  <2> QED
    BY <1>2, <2>1, <2>2, <2>3
<1> QED
  BY <1>1, <1>2

(* What a sum lacks of NVM_SUM, in a word.                                  *)
Lacks(s) == (NVM_SUM + Mod - s) % Mod

LEMMA LacksIs ==
  ASSUME NEW s \in 0 .. Mod - 1
  PROVE  Lacks(s) \in 0 .. Mod - 1 /\ (s + Lacks(s)) % Mod = NVM_SUM
<1>1. NVM_SUM \in 0 .. Mod - 1
  BY E82545EepromAssumption DEF Mod
<1> QED
  BY <1>1, ModType, Missing DEF Lacks

LEMMA ChecksumIs ==
  ASSUME NEW s \in 0 .. Mod - 1
  PROVE  Checksum(s) \in Word /\ Value(Checksum(s), DataBits) = Lacks(s)
<1>1. Lacks(s) \in Nat /\ Lacks(s) < Pow2(DataBits)
  BY LacksIs, ModType DEF Mod
<1>2. Checksum(s) = BitsOf(Lacks(s), DataBits)
  BY DEF Checksum, Lacks, Mod
<1>3. BitsOf(Lacks(s), DataBits) \in Word
  BY <1>1, BitsType, Widths DEF Word
<1>4. Value(BitsOf(Lacks(s), DataBits), DataBits) = Lacks(s)
  BY <1>1, ValueOfBits, Widths
<1> QED
  BY <1>2, <1>3, <1>4

LEMMA ChecksumRegType ==
  /\ NVM_CHECKSUM_REG \in Nat /\ NVM_CHECKSUM_REG < Pow2(AddrBits)
  /\ ChecksumReg \in Addr
<1>1. PICK p : Doubles(AddrBits, p) /\ Pow2(AddrBits) = p[AddrBits]
  BY Widths, Pow2Is
<1>2. Pow2(AddrBits) \in Nat
  BY <1>1, Widths DEF Doubles
<1>3. NVM_CHECKSUM_REG \in Nat /\ NVM_CHECKSUM_REG < Pow2(AddrBits)
  BY <1>2, E82545EepromAssumption
<1> QED
  BY <1>3, AddrAtType DEF ChecksumReg

LEMMA WrittenType ==
  ASSUME NEW w \in [Addr -> Word] PROVE Written(w) \in [Addr -> Word]
  BY E82545EepromAssumption DEF Written

(* e82545_init_eeprom leaves words of the EEPROM's width.                   *)
LEMMA InitEepromType ==
  ASSUME NEW w \in [Addr -> Word]
  PROVE  InitEeprom(w) \in [Addr -> Word]
<1> DEFINE v == Written(w)
           N == NVM_CHECKSUM_REG
<1>1. v \in [Addr -> Word] /\ N \in Nat
  BY WrittenType, ChecksumRegType
<1> HIDE DEF v, N
<1>2. PICK s : Adds(v, N, s) /\ Sum(v, N) = s[N]
  BY <1>1, SumIs
<1>3. Sum(v, N) \in 0 .. Mod - 1
  BY <1>1, <1>2 DEF Adds
<1>4. Checksum(Sum(v, N)) \in Word
  BY <1>3, ChecksumIs
<1>5. InitEeprom(w) = [v EXCEPT ![ChecksumReg] = Checksum(Sum(v, N))]
  BY DEF InitEeprom, v, N
<1> QED
  BY <1>1, <1>4, <1>5

(* ... and an image that sums to NVM_SUM.                                   *)
LEMMA InitEepromSum ==
  ASSUME NEW w \in [Addr -> Word]
  PROVE  Sum(InitEeprom(w), NVM_CHECKSUM_REG + 1) = NVM_SUM
<1> DEFINE v == Written(w)
           N == NVM_CHECKSUM_REG
           u == InitEeprom(w)
           c == Checksum(Sum(v, N))
<1>1. v \in [Addr -> Word] /\ N \in Nat /\ u \in [Addr -> Word] /\ N + 1 \in Nat /\ N < Pow2(AddrBits)
  BY WrittenType, ChecksumRegType, InitEepromType
<1>2. u = [v EXCEPT ![AddrAt(N)] = c]
  BY DEF InitEeprom, ChecksumReg
<1>b. Pow2(AddrBits) \in Nat
  <2>1. PICK p : Doubles(AddrBits, p) /\ Pow2(AddrBits) = p[AddrBits]
    BY Widths, Pow2Is
  <2> QED
    BY <2>1, Widths DEF Doubles
<1> HIDE DEF v, N, u
<1>3. PICK s : Adds(v, N, s) /\ Sum(v, N) = s[N]
  BY <1>1, SumIs
<1>4. PICK t : Adds(u, N + 1, t) /\ Sum(u, N + 1) = t[N + 1]
  BY <1>1, SumIs
<1>5. ASSUME NEW k \in 1 .. N PROVE WordAt(v, k) = WordAt(u, k)
  <2>1. k - 1 \in Nat /\ k - 1 < Pow2(AddrBits) /\ k - 1 # N
    BY <1>1, <1>b
  <2>2. AddrAt(k - 1) # AddrAt(N) /\ AddrAt(k - 1) \in Addr
    BY <1>1, <2>1, AddrAtInjective, AddrAtType
  <2>3. u[AddrAt(k - 1)] = v[AddrAt(k - 1)]
    BY <1>1, <1>2, <2>2
  <2> QED
    BY <2>3 DEF WordAt
<1>6. s[N] = t[N]
  <2>1. N <= N + 1
    BY <1>1
  <2> QED
    BY <1>1, <1>3, <1>4, <1>5, <2>1, SumsAgree
<1>7. s[N] \in 0 .. Mod - 1
  BY <1>1, <1>3 DEF Adds
<1>8. WordAt(u, N + 1) = Lacks(s[N])
  <2>1. (N + 1) - 1 = N /\ AddrAt(N) \in Addr
    BY <1>1, AddrAtType
  <2>2. u[AddrAt(N)] = c
    BY <1>1, <1>2, <2>1
  <2>3. c = Checksum(s[N])
    BY <1>3
  <2>4. WordAt(u, N + 1) = Value(Checksum(s[N]), DataBits)
    BY <2>1, <2>2, <2>3 DEF WordAt
  <2> QED
    BY <1>7, <2>4, ChecksumIs
<1>9. t[N + 1] = (t[N] + WordAt(u, N + 1)) % Mod
  <2>1. N + 1 \in 1 .. N + 1 /\ (N + 1) - 1 = N
    BY <1>1
  <2> QED
    BY <1>4, <2>1 DEF Adds
<1>10. t[N + 1] = NVM_SUM
  <2>1. (s[N] + Lacks(s[N])) % Mod = NVM_SUM
    BY <1>7, LacksIs
  <2> QED
    BY <1>6, <1>8, <1>9, <2>1
<1> QED
  BY <1>4, <1>10 DEF u, N

-----------------------------------------------------------------------------
(* The state machine's own invariant.                                       *)

(* A write of EECD is a step of one of the three branches of                *)
(* e82545_eecd_strobe, or touches the lines only.                           *)
LEMMA EecdCases ==
  ASSUME TypeOK, NEW val \in SUBSET Drives, WriteEECD(val)
  PROVE  \E b \in Bit, lines \in SUBSET (Lines \cup {"GNT", "DO"}) :
           /\ "DO" \in lines <=> "DO" \in eecd
           /\ \/ Strobe(val) /\ ShiftOut(lines \ {"DO"})
              \/ Strobe(val) /\ eecd' = lines /\ ShiftIn(b)
              \/ Strobe(val) /\ eecd' = lines /\ ShiftCommand(b)
              \/ ~ Strobe(val) /\ eecd' = lines /\ UNCHANGED <<nvm, words>>
           /\ Count("CS" \in val, Strobe(val), b)
<1> DEFINE gnt == IF "REQ" \in val THEN {"GNT"} ELSE {}
           lines == val \cup gnt \cup (eecd \cap {"DO"})
           b == IF "DI" \in val THEN 1 ELSE 0
<1>1. b \in Bit
  BY DEF Bit
<1>2. lines \in SUBSET (Lines \cup {"GNT", "DO"})
  BY E82545EepromAssumption DEF TypeOK
<1>3. "DO" \in lines <=> "DO" \in eecd
  BY E82545EepromAssumption DEF Lines
<1>4. /\ \/ Strobe(val) /\ ShiftOut(lines \ {"DO"})
         \/ Strobe(val) /\ eecd' = lines /\ ShiftIn(b)
         \/ Strobe(val) /\ eecd' = lines /\ ShiftCommand(b)
         \/ ~ Strobe(val) /\ eecd' = lines /\ UNCHANGED <<nvm, words>>
      /\ Count("CS" \in val, Strobe(val), b)
  BY DEF WriteEECD, Strobe
<1> HIDE DEF lines, b
<1> QED
  BY <1>1, <1>2, <1>3, <1>4

LEMMA OpcodeModeType ==
  ASSUME OpcodeMode
  PROVE  /\ mode' = "OPADDR" /\ bits' = OpAddrBits
         /\ bits' \in 1 .. OpAddrBits /\ opaddr' \in [1 .. OpAddrBits -> Bit]
  BY Widths, ZerosType DEF OpcodeMode

LEMMA ShiftOutIInv ==
  ASSUME IInv, NEW lines \in SUBSET (Lines \cup {"GNT", "DO"}), ShiftOut(lines),
         fresh' \in BOOLEAN
  PROVE  IInv'
<1>1. /\ eecd' \in SUBSET (Lines \cup {"GNT", "DO"}) /\ words' = words
      /\ data' = Shifted(data, DataBits, 0)
  BY DEF ShiftOut
<1>2. /\ data' \in Word
      /\ \A i \in 1 .. DataBits : data'[i] = IF i < DataBits THEN data[i + 1] ELSE 0
  <2>1. data \in [1 .. DataBits -> Bit] /\ 0 \in Bit /\ DataBits \in Nat
    BY Widths DEF IInv, TypeOK, Word, Bit
  <2> QED
    BY <1>1, <2>1, ShiftedType DEF Word
<1>3. mode = "DATAOUT" /\ bits \in 1 .. DataBits
  BY DEF ShiftOut, IInv, TypeOK
<1>4. CASE bits = 1
  <2>1. OpcodeMode
    BY <1>4 DEF ShiftOut
  <2> QED
    BY <1>1, <1>2, <2>1, OpcodeModeType
    DEF IInv, TypeOK, ReadsTheWord, WriteIsDecoded
<1>5. CASE bits # 1
  <2>1. bits' = bits - 1 /\ mode' = "DATAOUT" /\ opaddr' = opaddr
    BY <1>3, <1>5 DEF ShiftOut
  <2>2. TypeOK'
    BY <1>1, <1>2, <1>3, <1>5, <2>1, Widths DEF IInv, TypeOK
  <2>3. ReadsTheWord'
    <3> SUFFICES ASSUME NEW i \in 1 .. bits - 1
                 PROVE  data'[i] = words[AddrOf(opaddr)][DataBits - (bits - 1) + i]
      BY <1>1, <1>3, <2>1 DEF IInv, ReadsTheWord
    <3>1. data'[i] = data[i + 1] /\ i + 1 \in 1 .. bits
      BY <1>2, <1>3, Widths
    <3>2. data[i + 1] = words[AddrOf(opaddr)][DataBits - bits + (i + 1)]
      BY <1>3, <3>1 DEF IInv, ReadsTheWord
    <3>3. DataBits - bits + (i + 1) = DataBits - (bits - 1) + i
      BY <1>3, Widths
    <3> QED
      BY <3>1, <3>2, <3>3
  <2> QED
    BY <2>1, <2>2, <2>3 DEF IInv, WriteIsDecoded
<1> QED
  BY <1>4, <1>5

LEMMA ShiftInIInv ==
  ASSUME IInv, NEW b \in Bit, ShiftIn(b), eecd' \in SUBSET (Lines \cup {"GNT", "DO"}),
         fresh' \in BOOLEAN
  PROVE  IInv'
<1>1. data' \in Word /\ mode = "DATAIN" /\ bits \in 1 .. DataBits
  BY ShiftedType, Widths DEF ShiftIn, IInv, TypeOK, Word
<1>2. CASE bits = 1
  <2>1. OpcodeMode
    BY <1>2 DEF ShiftIn
  <2>2. words' \in [Addr -> Word]
    BY <1>1, <1>2 DEF ShiftIn, IInv, TypeOK
  <2> QED
    BY <1>1, <2>1, <2>2, OpcodeModeType
    DEF IInv, TypeOK, ReadsTheWord, WriteIsDecoded
<1>3. CASE bits # 1
  <2>1. bits' = bits - 1 /\ UNCHANGED <<mode, opaddr, words>>
    BY <1>3 DEF ShiftIn
  <2>2. TypeOK'
    BY <1>1, <1>3, <2>1, Widths DEF IInv, TypeOK
  <2> QED
    BY <1>1, <2>1, <2>2 DEF IInv, ReadsTheWord, WriteIsDecoded
<1> QED
  BY <1>2, <1>3

LEMMA ShiftCommandIInv ==
  ASSUME IInv, NEW b \in Bit, ShiftCommand(b),
         eecd' \in SUBSET (Lines \cup {"GNT", "DO"}), fresh' \in BOOLEAN
  PROVE  IInv'
<1> DEFINE r == Shifted(opaddr, OpAddrBits, b)
<1>1. r \in [1 .. OpAddrBits -> Bit]
  BY ShiftedType, Widths DEF IInv, TypeOK
<1>2. mode = "OPADDR" /\ words' = words /\ bits \in 1 .. OpAddrBits
  BY DEF ShiftCommand, IInv, TypeOK
<1>3. CASE bits > 1
  <2>1. bits' = bits - 1 /\ opaddr' = r /\ UNCHANGED <<mode, data>>
    BY <1>3 DEF ShiftCommand
  <2>2. TypeOK'
    BY <1>1, <1>2, <1>3, <2>1, Widths DEF IInv, TypeOK
  <2> QED
    BY <1>2, <2>1, <2>2 DEF IInv, ReadsTheWord, WriteIsDecoded
<1>4. CASE ~ (bits > 1) /\ Op(r) = READ
  <2>1. mode' = "DATAOUT" /\ bits' = DataBits /\ data' = words[AddrOf(r)] /\ opaddr' = r
    BY <1>4 DEF ShiftCommand
  <2>2. AddrOf(r) \in Addr /\ data' \in Word
    BY <1>1, <2>1, AddrOfType DEF IInv, TypeOK
  <2>3. TypeOK'
    BY <1>1, <1>2, <2>1, <2>2, Widths DEF IInv, TypeOK
  <2> HIDE DEF r
  <2>4. ReadsTheWord'
    BY <1>2, <1>4, <2>1, Widths DEF ReadsTheWord
  <2> QED
    BY <2>1, <2>3, <2>4 DEF IInv, WriteIsDecoded
<1>5. CASE ~ (bits > 1) /\ Op(r) = WRITE
  <2>1. mode' = "DATAIN" /\ bits' = DataBits /\ data' = Zeros(DataBits) /\ opaddr' = r
    BY <1>5, ReadIsNotWrite DEF ShiftCommand
  <2>2. TypeOK'
    BY <1>1, <1>2, <2>1, Widths, ZerosType DEF IInv, TypeOK, Word
  <2> QED
    BY <1>5, <2>1, <2>2 DEF IInv, ReadsTheWord, WriteIsDecoded
<1>6. CASE ~ (bits > 1) /\ Op(r) \notin {READ, WRITE}
  <2>1. OpcodeMode /\ data' = data
    BY <1>6 DEF ShiftCommand
  <2> QED
    BY <1>2, <2>1, OpcodeModeType DEF IInv, TypeOK, ReadsTheWord, WriteIsDecoded
<1> QED
  BY <1>3, <1>4, <1>5, <1>6

LEMMA CtrlResetIInv == ASSUME IInv, CtrlReset PROVE IInv'
<1>1. words' \in [Addr -> Word] /\ fresh' \in BOOLEAN
  BY InitEepromType DEF CtrlReset, IInv, TypeOK
<1>2. OpcodeMode /\ eecd' = {} /\ data' = data
  BY DEF CtrlReset
<1> QED
  BY <1>1, <1>2, OpcodeModeType DEF IInv, TypeOK, ReadsTheWord, WriteIsDecoded

LEMMA InitIInv == Init => IInv
<1> SUFFICES ASSUME Init PROVE IInv
  OBVIOUS
<1>1. words \in [Addr -> Word]
  <2>1. [a \in Addr |-> Zeros(DataBits)] \in [Addr -> Word]
    BY Widths, ZerosType DEF Word
  <2> QED
    BY <2>1, InitEepromType DEF Init
<1>2. /\ bits \in 1 .. OpAddrBits /\ opaddr \in [1 .. OpAddrBits -> Bit] /\ data \in Word
  BY Widths, ZerosType DEF Init, Word
<1> QED
  BY <1>1, <1>2 DEF Init, IInv, TypeOK, ReadsTheWord, WriteIsDecoded

LEMMA StepIInv == IInv /\ [Next]_vars => IInv'
<1> SUFFICES ASSUME IInv, [Next]_vars PROVE IInv'
  OBVIOUS
<1>1. ASSUME UNCHANGED <<nvm, words>>, eecd' \in SUBSET (Lines \cup {"GNT", "DO"}),
             fresh' \in BOOLEAN
      PROVE  IInv'
  BY <1>1 DEF nvm, IInv, TypeOK, ReadsTheWord, WriteIsDecoded
<1>2. ASSUME NEW val \in SUBSET Drives, WriteEECD(val) PROVE IInv'
  <2>1. PICK b \in Bit, lines \in SUBSET (Lines \cup {"GNT", "DO"}) :
           \/ ShiftOut(lines \ {"DO"})
           \/ eecd' = lines /\ ShiftIn(b)
           \/ eecd' = lines /\ ShiftCommand(b)
           \/ eecd' = lines /\ UNCHANGED <<nvm, words>>
    BY <1>2, EecdCases DEF IInv
  <2>2. fresh' \in BOOLEAN
    BY <1>2 DEF WriteEECD, Count
  <2> QED
    BY <1>1, <2>1, <2>2, ShiftOutIInv, ShiftInIInv, ShiftCommandIInv
<1>3. CASE UNCHANGED vars
  BY <1>1, <1>3 DEF vars, hist, IInv, TypeOK
<1> QED
  BY <1>2, <1>3, CtrlResetIInv DEF Next

(* The mode, the countdown and the two shift registers of                   *)
(* e82545_eecd_strobe fit each other and the stored words in every state.   *)
THEOREM Inductive == Spec => []IInv
  BY InitIInv, StepIInv, PTL DEF Spec

-----------------------------------------------------------------------------
(* The command under way, as a sequence of bits.                            *)

CommandShape ==
    /\ Command \in Seq(Bit) /\ Len(Command) = Received /\ Received \in Nat
    /\ mode = "OPADDR" =>
          /\ Received = OpAddrBits - bits /\ Sent = 0
          /\ \A i \in 1 .. OpAddrBits - bits : Command[i] = opaddr[bits + i]
    /\ mode = "DATAIN" =>
          /\ Received = OpAddrBits + DataBits - bits /\ Sent = 0
          /\ \A i \in 1 .. OpAddrBits : Command[i] = opaddr[i]
          /\ \A i \in 1 .. DataBits - bits : Command[OpAddrBits + i] = data[bits + i]
    /\ mode = "DATAOUT" =>
          /\ Received = OpAddrBits /\ Sent = DataBits - bits
          /\ \A i \in 1 .. OpAddrBits : Command[i] = opaddr[i]

LEMMA CommandFacts == TypeOK => CommandShape
<1> SUFFICES ASSUME TypeOK PROVE CommandShape
  OBVIOUS
<1>1. CASE mode = "OPADDR"
  <2>1. bits \in 1 .. OpAddrBits /\ opaddr \in [1 .. OpAddrBits -> Bit]
    BY <1>1 DEF TypeOK
  <2>2. Received = OpAddrBits - bits /\ Received \in Nat /\ Sent = 0
    BY <1>1, <2>1, Widths DEF Received, Sent
  <2>3. Command = [i \in 1 .. Received |-> opaddr[bits + i]]
    BY <1>1 DEF Command
  <2>4. \A i \in 1 .. Received : bits + i \in 1 .. OpAddrBits /\ opaddr[bits + i] \in Bit
    BY <2>1, <2>2, Widths
  <2>5. Command \in [1 .. Received -> Bit]
    BY <2>3, <2>4
  <2>6. Command \in Seq(Bit) /\ Len(Command) = Received
    BY <2>2, <2>5
  <2> QED
    BY <1>1, <2>2, <2>3, <2>6 DEF CommandShape
<1>2. CASE mode = "DATAIN"
  <2>1. /\ bits \in 1 .. DataBits /\ opaddr \in [1 .. OpAddrBits -> Bit]
        /\ data \in [1 .. DataBits -> Bit]
    BY <1>2 DEF TypeOK, Word
  <2>2. Received = OpAddrBits + DataBits - bits /\ Received \in Nat /\ Sent = 0
    BY <1>2, <2>1, Widths DEF Received, Sent
  <2>3. Command = [i \in 1 .. Received |-> IF i <= OpAddrBits THEN opaddr[i]
                                           ELSE data[i - OpAddrBits + bits]]
    BY <1>2 DEF Command
  <2>4. \A i \in 1 .. Received :
          /\ i <= OpAddrBits => opaddr[i] \in Bit
          /\ ~ (i <= OpAddrBits) => data[i - OpAddrBits + bits] \in Bit
    BY <2>1, <2>2, Widths
  <2>5. Command \in [1 .. Received -> Bit]
    BY <2>3, <2>4
  <2>6. Command \in Seq(Bit) /\ Len(Command) = Received
    BY <2>2, <2>5
  <2>7. \A i \in 1 .. OpAddrBits : Command[i] = opaddr[i]
    BY <2>1, <2>2, <2>3, Widths
  <2>8. ASSUME NEW i \in 1 .. DataBits - bits
        PROVE  Command[OpAddrBits + i] = data[bits + i]
    <3> DEFINE k == OpAddrBits + i
    <3>2. k \in 1 .. Received /\ ~ (k <= OpAddrBits) /\ k - OpAddrBits + bits = bits + i
      BY <2>1, <2>2, Widths
    <3> HIDE DEF k
    <3>3. Command[k] = data[k - OpAddrBits + bits]
      BY <2>3, <3>2
    <3> QED
      BY <3>2, <3>3 DEF k
  <2> QED
    BY <1>2, <2>2, <2>6, <2>7, <2>8 DEF CommandShape
<1>3. CASE mode = "DATAOUT"
  <2>1. bits \in 1 .. DataBits /\ opaddr \in [1 .. OpAddrBits -> Bit]
    BY <1>3 DEF TypeOK
  <2>2. Received = OpAddrBits /\ Received \in Nat /\ Sent = DataBits - bits
    BY <1>3, Widths DEF Received, Sent
  <2>3. Command = [i \in 1 .. OpAddrBits |-> opaddr[i]]
    BY <1>3, <2>2, Widths DEF Command
  <2>4. Command \in [1 .. OpAddrBits -> Bit]
    BY <2>1, <2>3
  <2>5. Command \in Seq(Bit) /\ Len(Command) = Received
    BY <2>2, <2>4
  <2> QED
    BY <1>3, <2>2, <2>3, <2>5 DEF CommandShape
<1> QED
  BY <1>1, <1>2, <1>3 DEF TypeOK

LEMMA CommandFactsNext == TypeOK' => CommandShape'
  BY CommandFacts, PTL

LEMMA AppendBit ==
  ASSUME NEW s \in Seq(Bit), NEW b \in Bit
  PROVE  /\ Append(s, b) \in Seq(Bit) /\ Len(s) \in Nat
         /\ Len(Append(s, b)) = Len(s) + 1
         /\ \A i \in 1 .. Len(s) : Append(s, b)[i] = s[i]
         /\ Append(s, b)[Len(s) + 1] = b
  OBVIOUS

LEMMA SameBits ==
  ASSUME NEW s \in Seq(Bit), NEW t \in Seq(Bit), Len(s) = Len(t),
         \A i \in 1 .. Len(s) : s[i] = t[i]
  PROVE  s = t
  BY SeqEqual

LEMMA SameOp ==
  ASSUME NEW s, NEW t, \A i \in 1 .. 3 : s[i] = t[i]
  PROVE  Op(s) = Op(t)
  BY DEF Op, OpBits

LEMMA SameAddr ==
  ASSUME NEW s, NEW t, \A i \in 1 .. OpAddrBits : s[i] = t[i]
  PROVE  AddrOf(s) = AddrOf(t)
<1>1. \A i \in 1 .. AddrBits : OpBits + i \in 1 .. OpAddrBits
  BY Widths
<1> QED
  BY <1>1 DEF AddrOf

LEMMA Emptied ==
  ASSUME TypeOK', OpcodeMode
  PROVE  Command' = <<>> /\ Sent' = 0
<1>1. mode' = "OPADDR" /\ bits' = OpAddrBits
  BY OpcodeModeType
<1>2. Command' \in Seq(Bit) /\ Len(Command') = 0 /\ Sent' = 0
  BY <1>1, CommandFactsNext, Widths DEF CommandShape
<1> QED
  BY <1>2, EmptySeq

(* A bit of the opcode or the address.                                      *)
LEMMA CommandBit ==
  ASSUME IInv, IInv', NEW b \in Bit, ShiftCommand(b)
  PROVE  LET c == Append(Command, b) IN
         /\ Sent = 0 /\ Sent' = 0 /\ words' = words /\ Len(Command) < OpAddrBits
         /\ \/ Len(c) < OpAddrBits /\ Command' = c
            \/ Len(c) = OpAddrBits /\ Op(c) \in {READ, WRITE} /\ Command' = c
            \/ Len(c) = OpAddrBits /\ Op(c) \notin {READ, WRITE} /\ Command' = <<>>
<1> DEFINE r == Shifted(opaddr, OpAddrBits, b)
           c == Append(Command, b)
<1>1. /\ mode = "OPADDR" /\ bits \in 1 .. OpAddrBits
      /\ opaddr \in [1 .. OpAddrBits -> Bit] /\ words' = words
  BY DEF ShiftCommand, IInv, TypeOK
<1>2. CommandShape /\ CommandShape'
  BY CommandFacts, CommandFactsNext DEF IInv
<1>3. /\ Command \in Seq(Bit) /\ Len(Command) = OpAddrBits - bits /\ Sent = 0
      /\ \A i \in 1 .. OpAddrBits - bits : Command[i] = opaddr[bits + i]
  BY <1>1, <1>2 DEF CommandShape
<1>4. /\ r \in [1 .. OpAddrBits -> Bit]
      /\ \A i \in 1 .. OpAddrBits : r[i] = IF i < OpAddrBits THEN opaddr[i + 1] ELSE b
  <2>1. OpAddrBits \in Nat
    BY Widths
  <2> QED
    BY <1>1, <2>1, ShiftedType
<1> HIDE DEF r
<1>5. /\ c \in Seq(Bit) /\ Len(c) = OpAddrBits - bits + 1
      /\ \A i \in 1 .. OpAddrBits - bits : c[i] = opaddr[bits + i]
      /\ c[OpAddrBits - bits + 1] = b
  BY <1>3, AppendBit
<1> HIDE DEF c
<1>6. \A i \in 1 .. OpAddrBits - bits + 1 : c[i] = r[bits - 1 + i]
  <2> SUFFICES ASSUME NEW i \in 1 .. OpAddrBits - bits + 1 PROVE c[i] = r[bits - 1 + i]
    OBVIOUS
  <2>1. CASE i = OpAddrBits - bits + 1
    BY <1>1, <1>4, <1>5, <2>1, Widths
  <2>2. CASE i \in 1 .. OpAddrBits - bits
    <3>1. /\ bits - 1 + i \in 1 .. OpAddrBits /\ bits - 1 + i < OpAddrBits
          /\ bits - 1 + i + 1 = bits + i
      BY <1>1, <2>2, Widths
    <3> QED
      BY <1>4, <1>5, <2>2, <3>1
  <2> QED
    BY <1>1, <2>1, <2>2, Widths
<1>7. CASE bits > 1
  <2>1. bits' = bits - 1 /\ opaddr' = r /\ mode' = "OPADDR"
    BY <1>1, <1>7 DEF ShiftCommand, r
  <2>2. /\ Command' \in Seq(Bit) /\ Len(Command') = OpAddrBits - (bits - 1) /\ Sent' = 0
        /\ \A i \in 1 .. OpAddrBits - (bits - 1) : Command'[i] = r[bits - 1 + i]
    BY <1>2, <2>1 DEF CommandShape
  <2>3. OpAddrBits - (bits - 1) = OpAddrBits - bits + 1 /\ OpAddrBits - bits + 1 < OpAddrBits
    BY <1>1, <1>7, Widths
  <2>4. Command' = c
    BY <1>5, <1>6, <2>2, <2>3, SameBits
  <2> QED
    BY <1>1, <1>3, <1>5, <1>7, <2>2, <2>3, <2>4, Widths DEF c
<1>8. CASE bits = 1
  <2>1. Len(c) = OpAddrBits /\ \A i \in 1 .. OpAddrBits : c[i] = r[i]
    BY <1>5, <1>6, <1>8, Widths
  <2>2. Op(c) = Op(r)
    BY <2>1, SameOp, Widths
  <2>3. CASE Op(r) \in {READ, WRITE}
    <3>1. /\ mode' \in {"DATAIN", "DATAOUT"} /\ bits' = DataBits /\ opaddr' = r
      BY <1>8, <2>3 DEF ShiftCommand, r
    <3>2. /\ Command' \in Seq(Bit) /\ Len(Command') = OpAddrBits /\ Sent' = 0
          /\ \A i \in 1 .. OpAddrBits : Command'[i] = r[i]
      BY <1>2, <3>1, Widths DEF CommandShape
    <3>3. Command' = c
      BY <1>5, <2>1, <3>2, SameBits
    <3> QED
      BY <1>1, <1>3, <1>8, <2>1, <2>2, <2>3, <3>2, <3>3, Widths DEF c
  <2>4. CASE Op(r) \notin {READ, WRITE}
    <3>1. OpcodeMode
      BY <1>8, <2>4 DEF ShiftCommand, r
    <3>2. Command' = <<>> /\ Sent' = 0
      BY <3>1, Emptied DEF IInv
    <3> QED
      BY <1>1, <1>3, <1>8, <2>1, <2>2, <2>4, <3>2, Widths DEF c
  <2> QED
    BY <2>3, <2>4
<1> QED
  BY <1>1, <1>7, <1>8

(* A bit of the word to be stored.                                          *)
LEMMA DataInBit ==
  ASSUME IInv, IInv', NEW b \in Bit, ShiftIn(b)
  PROVE  LET c == Append(Command, b) IN
         /\ Sent = 0 /\ Sent' = 0 /\ Len(Command) >= OpAddrBits
         /\ Op(Command) = WRITE /\ Op(c) = WRITE /\ Len(c) > OpAddrBits
         /\ \/ /\ Len(c) < OpAddrBits + DataBits /\ Command' = c /\ words' = words
            \/ /\ Len(c) = OpAddrBits + DataBits /\ Command' = <<>>
               /\ words' = [words EXCEPT ![AddrOf(c)] =
                              [i \in 1 .. DataBits |-> c[OpBits + AddrBits + i]]]
<1> DEFINE c == Append(Command, b)
<1>1. /\ mode = "DATAIN" /\ bits \in 1 .. DataBits /\ Op(opaddr) = WRITE
      /\ data \in [1 .. DataBits -> Bit]
      /\ data' = Shifted(data, DataBits, b)
  BY DEF ShiftIn, IInv, TypeOK, WriteIsDecoded, Word
<1>2. CommandShape /\ CommandShape'
  BY CommandFacts, CommandFactsNext DEF IInv
<1>3. /\ Command \in Seq(Bit) /\ Len(Command) = OpAddrBits + DataBits - bits /\ Sent = 0
      /\ \A i \in 1 .. OpAddrBits : Command[i] = opaddr[i]
      /\ \A i \in 1 .. DataBits - bits : Command[OpAddrBits + i] = data[bits + i]
  BY <1>1, <1>2 DEF CommandShape
<1>4. \A i \in 1 .. DataBits : data'[i] = IF i < DataBits THEN data[i + 1] ELSE b
  <2>1. DataBits \in Nat
    BY Widths
  <2> QED
    BY <1>1, <2>1, ShiftedType
<1>5. /\ c \in Seq(Bit) /\ Len(c) = OpAddrBits + DataBits - bits + 1
      /\ \A i \in 1 .. OpAddrBits + DataBits - bits : c[i] = Command[i]
      /\ c[OpAddrBits + DataBits - bits + 1] = b
  BY <1>3, AppendBit
<1> HIDE DEF c
<1>6. /\ Len(Command) >= OpAddrBits /\ Len(c) > OpAddrBits
      /\ \A i \in 1 .. OpAddrBits : i \in 1 .. OpAddrBits + DataBits - bits
      /\ \A i \in 1 .. 3 : i \in 1 .. OpAddrBits
  BY <1>1, <1>3, <1>5, Widths
<1>7. \A i \in 1 .. OpAddrBits : c[i] = opaddr[i]
  BY <1>3, <1>5, <1>6
<1>8. Op(Command) = WRITE /\ Op(c) = WRITE /\ AddrOf(c) = AddrOf(opaddr)
  BY <1>1, <1>3, <1>6, <1>7, SameOp, SameAddr
<1>9. ASSUME NEW i \in 1 .. DataBits - bits + 1
      PROVE  c[OpAddrBits + i] = data'[bits - 1 + i]
  <2>1. CASE i = DataBits - bits + 1
    BY <1>1, <1>4, <1>5, <2>1, Widths
  <2>2. CASE i \in 1 .. DataBits - bits
    <3>1. /\ bits - 1 + i \in 1 .. DataBits /\ bits - 1 + i < DataBits
          /\ bits - 1 + i + 1 = bits + i
          /\ OpAddrBits + i \in 1 .. OpAddrBits + DataBits - bits
      BY <1>1, <2>2, Widths
    <3>2. c[OpAddrBits + i] = data[bits + i]
      BY <1>3, <1>5, <2>2, <3>1
    <3>3. data'[bits - 1 + i] = data[bits - 1 + i + 1]
      BY <1>4, <3>1
    <3> QED
      BY <3>1, <3>2, <3>3
  <2> QED
    BY <1>1, <2>1, <2>2, Widths
<1>10. CASE bits = 1
  <2>1. OpcodeMode /\ words' = [words EXCEPT ![AddrOf(opaddr)] = data']
    BY <1>1, <1>10 DEF ShiftIn
  <2>2. Command' = <<>> /\ Sent' = 0
    BY <2>1, Emptied DEF IInv
  <2>3. ASSUME NEW i \in 1 .. DataBits PROVE c[OpBits + AddrBits + i] = data'[i]
    <3>1. /\ OpBits + AddrBits + i = OpAddrBits + i /\ 1 - 1 + i = i
          /\ i \in 1 .. DataBits - 1 + 1
      BY Widths
    <3> QED
      BY <1>9, <1>10, <3>1
  <2>4. data' = [i \in 1 .. DataBits |-> c[OpBits + AddrBits + i]]
    <3>1. data' = [i \in 1 .. DataBits |-> data'[i]]
      BY DEF IInv, TypeOK, Word
    <3> QED
      BY <2>3, <3>1
  <2>5. Len(c) = OpAddrBits + DataBits
    BY <1>5, <1>10, Widths
  <2> QED
    BY <1>3, <1>6, <1>8, <2>1, <2>2, <2>4, <2>5 DEF c
<1>11. CASE bits # 1
  <2>1. bits' = bits - 1 /\ mode' = "DATAIN" /\ opaddr' = opaddr /\ words' = words
    BY <1>1, <1>11 DEF ShiftIn
  <2>2. /\ Command' \in Seq(Bit) /\ Len(Command') = OpAddrBits + DataBits - (bits - 1)
        /\ Sent' = 0
        /\ \A i \in 1 .. OpAddrBits : Command'[i] = opaddr[i]
        /\ \A i \in 1 .. DataBits - (bits - 1) :
              Command'[OpAddrBits + i] = data'[bits - 1 + i]
    BY <1>2, <2>1 DEF CommandShape
  <2>3. Len(Command') = Len(c) /\ Len(c) < OpAddrBits + DataBits
    BY <1>1, <1>5, <1>11, <2>2, Widths
  <2>4. ASSUME NEW i \in 1 .. Len(c) PROVE Command'[i] = c[i]
    <3>1. CASE i <= OpAddrBits
      BY <1>7, <2>2, <3>1, Widths
    <3>2. CASE i > OpAddrBits
      <4> DEFINE k == i - OpAddrBits
      <4>1. /\ k \in 1 .. DataBits - (bits - 1) /\ k \in 1 .. DataBits - bits + 1
            /\ OpAddrBits + k = i
        BY <1>1, <1>5, <3>2, Widths
      <4> HIDE DEF k
      <4>2. Command'[OpAddrBits + k] = data'[bits - 1 + k]
        BY <2>2, <4>1
      <4> QED
        BY <1>9, <4>1, <4>2
    <3> QED
      BY <1>5, <3>1, <3>2, Widths
  <2>5. Command' = c
    BY <1>5, <2>2, <2>3, <2>4, SameBits
  <2> QED
    BY <1>3, <1>6, <1>8, <2>1, <2>2, <2>3, <2>5 DEF c
<1> QED
  BY <1>10, <1>11 DEF c

(* A bit of the answer.                                                     *)
LEMMA DataOutBit ==
  ASSUME IInv, IInv', NEW lines, "DO" \notin lines, ShiftOut(lines)
  PROVE  /\ Len(Command) = OpAddrBits /\ Op(Command) = READ
         /\ Command \in Seq(Bit) /\ words' = words
         /\ Sent \in 0 .. DataBits - 1
         /\ (IF "DO" \in eecd' THEN 1 ELSE 0) = words[AddrOf(Command)][Sent + 1]
         /\ \/ Sent + 1 = DataBits /\ Command' = <<>> /\ Sent' = 0
            \/ Sent + 1 # DataBits /\ Command' = Command /\ Sent' = Sent + 1
<1>1. /\ mode = "DATAOUT" /\ bits \in 1 .. DataBits /\ Op(opaddr) = READ
      /\ words' = words /\ data \in [1 .. DataBits -> Bit]
      /\ eecd' = lines \cup (IF data[1] = 1 THEN {"DO"} ELSE {})
      /\ \A i \in 1 .. bits : data[i] = words[AddrOf(opaddr)][DataBits - bits + i]
  BY DEF ShiftOut, IInv, TypeOK, ReadsTheWord, Word
<1>2. CommandShape /\ CommandShape'
  BY CommandFacts, CommandFactsNext DEF IInv
<1>3. /\ Command \in Seq(Bit) /\ Len(Command) = OpAddrBits /\ Sent = DataBits - bits
      /\ \A i \in 1 .. OpAddrBits : Command[i] = opaddr[i]
  BY <1>1, <1>2 DEF CommandShape
<1>4. Op(Command) = READ /\ AddrOf(Command) = AddrOf(opaddr)
  <2>1. \A i \in 1 .. 3 : i \in 1 .. OpAddrBits
    BY Widths
  <2> QED
    BY <1>1, <1>3, <2>1, SameOp, SameAddr
<1>5. Sent \in 0 .. DataBits - 1 /\ data[1] \in Bit /\ 1 \in 1 .. bits
  BY <1>1, <1>3, Widths
<1>6. data[1] = words[AddrOf(Command)][Sent + 1]
  BY <1>1, <1>3, <1>4, <1>5
<1>7. (IF "DO" \in eecd' THEN 1 ELSE 0) = data[1]
  BY <1>1, <1>5 DEF Bit
<1>8. CASE bits = 1
  <2>1. OpcodeMode
    BY <1>8 DEF ShiftOut
  <2>2. Command' = <<>> /\ Sent' = 0 /\ Sent + 1 = DataBits
    BY <1>3, <1>8, <2>1, Emptied, Widths DEF IInv
  <2> QED
    BY <1>1, <1>3, <1>4, <1>5, <1>6, <1>7, <2>2
<1>9. CASE bits # 1
  <2>1. bits' = bits - 1 /\ mode' = "DATAOUT" /\ opaddr' = opaddr
    BY <1>1, <1>9 DEF ShiftOut
  <2>2. /\ Command' \in Seq(Bit) /\ Len(Command') = OpAddrBits
        /\ Sent' = DataBits - (bits - 1)
        /\ \A i \in 1 .. OpAddrBits : Command'[i] = opaddr[i]
    BY <1>2, <2>1 DEF CommandShape
  <2>3. Command' = Command
    BY <1>3, <2>2, SameBits
  <2>4. Sent' = Sent + 1 /\ Sent + 1 # DataBits
    BY <1>1, <1>3, <1>9, <2>2, Widths
  <2> QED
    BY <1>1, <1>3, <1>4, <1>5, <1>6, <1>7, <2>3, <2>4
<1> QED
  BY <1>8, <1>9

-----------------------------------------------------------------------------
(* The machine and the guest count the same bits.                           *)

LEMMA NoZeros == ASSUME NEW s \in Seq(Bit) PROVE s \o Zeros(0) = s
<1>1. Zeros(0) = <<>>
  BY DEF Zeros
<1> QED
  BY <1>1

LEMMA NothingYet == <<>> \o Zeros(0) = <<>>
<1>1. <<>> \in Seq(Bit)
  OBVIOUS
<1> QED
  BY <1>1, NoZeros

LEMMA OneMoreZero ==
  ASSUME NEW s \in Seq(Bit), NEW n \in Nat
  PROVE  Append(s \o Zeros(n), 0) = s \o Zeros(n + 1)
<1> DEFINE t == Append(s \o Zeros(n), 0)
           u == s \o Zeros(n + 1)
<1>1. /\ Zeros(n) \in Seq(Bit) /\ Len(Zeros(n)) = n
      /\ Zeros(n + 1) \in Seq(Bit) /\ Len(Zeros(n + 1)) = n + 1
      /\ \A i \in 1 .. n : Zeros(n)[i] = 0
      /\ \A i \in 1 .. n + 1 : Zeros(n + 1)[i] = 0
  BY DEF Zeros, Bit
<1>2. 0 \in Bit
  BY DEF Bit
<1>3. s \o Zeros(n) \in Seq(Bit) /\ u \in Seq(Bit)
  BY <1>1
<1>4. t \in Seq(Bit) /\ Len(t) = Len(s) + n + 1 /\ Len(u) = Len(s) + n + 1
  BY <1>1, <1>2, <1>3
<1>5. \A i \in 1 .. Len(s) + n + 1 : t[i] = IF i <= Len(s) THEN s[i] ELSE 0
  BY <1>1, <1>3
<1>6. \A i \in 1 .. Len(s) + n + 1 : u[i] = IF i <= Len(s) THEN s[i] ELSE 0
  BY <1>1, <1>3
<1> HIDE DEF t, u
<1>7. t = u
  BY <1>3, <1>4, <1>5, <1>6, SameBits
<1> QED
  BY <1>7 DEF t, u

LEMMA SentPrefix ==
  ASSUME NEW s \in Seq(Bit), NEW n \in Nat, Len(s) = OpAddrBits
  PROVE  /\ s \o Zeros(n) \in Seq(Bit)
         /\ Len(s \o Zeros(n)) = OpAddrBits + n
         /\ Op(s \o Zeros(n)) = Op(s)
<1>1. Zeros(n) \in Seq(Bit) /\ Len(Zeros(n)) = n
  BY DEF Zeros, Bit
<1>2. s \o Zeros(n) \in Seq(Bit) /\ Len(s \o Zeros(n)) = OpAddrBits + n
  BY <1>1
<1>3. \A i \in 1 .. 3 : (s \o Zeros(n))[i] = s[i]
  BY <1>1, Widths
<1> DEFINE t == s \o Zeros(n)
<1> HIDE DEF t
<1>4. Op(t) = Op(s)
  <2>1. \A i \in 1 .. 3 : t[i] = s[i]
    BY <1>3 DEF t
  <2> QED
    BY <2>1, SameOp
<1> QED
  BY <1>2, <1>4 DEF t

(* What the guest has counted after a write of EECD that aborts nothing.    *)
LEMMA Counted ==
  ASSUME NEW cs, NEW strobe, NEW b, Count(cs, strobe, b), ~ aborted'
  PROVE  LET read == Len(clocked) >= OpAddrBits /\ Op(clocked) = READ
             c == Append(clocked, IF read THEN 0 ELSE b)
         IN /\ ~ aborted
            /\ ~ strobe => clocked' = clocked
            /\ strobe => clocked' = IF CommandEnds(c) THEN <<>> ELSE c
  BY Zenon DEF Count

LEMMA StrobeInStep ==
  ASSUME IInv, IInv', InStep, NEW b \in Bit, NEW lines, "DO" \notin lines,
         ShiftOut(lines) \/ ShiftIn(b) \/ ShiftCommand(b),
         NEW val \in SUBSET Drives, Count("CS" \in val, TRUE, b), ~ aborted'
  PROVE  clocked' = Command' \o Zeros(Sent')
<1> DEFINE read == Len(clocked) >= OpAddrBits /\ Op(clocked) = READ
           c == Append(clocked, IF read THEN 0 ELSE b)
<1>1. ~ aborted /\ clocked' = IF CommandEnds(c) THEN <<>> ELSE c
  BY Counted
<1>2. clocked = Command \o Zeros(Sent)
  BY <1>1 DEF InStep
<1>3. Command \in Seq(Bit) /\ Command' \in Seq(Bit)
  BY CommandFacts, CommandFactsNext DEF IInv, CommandShape
<1>4. CASE ShiftCommand(b)
  <2> DEFINE d == Append(Command, b)
  <2>1. /\ Sent = 0 /\ Sent' = 0 /\ Len(Command) < OpAddrBits
        /\ \/ Len(d) < OpAddrBits /\ Command' = d
           \/ Len(d) = OpAddrBits /\ Op(d) \in {READ, WRITE} /\ Command' = d
           \/ Len(d) = OpAddrBits /\ Op(d) \notin {READ, WRITE} /\ Command' = <<>>
    BY <1>4, CommandBit
  <2>2. clocked = Command
    BY <1>2, <1>3, <2>1, NoZeros
  <2>3. ~ read
    BY <1>3, <2>1, <2>2, Widths
  <2>4. c = d
    BY <2>2, <2>3
  <2>5. Len(d) \in Nat
    BY <1>3, AppendBit
  <2> HIDE DEF c, d
  <2>6. CommandEnds(c) <=> Len(d) = OpAddrBits /\ Op(d) \notin {READ, WRITE}
    BY <2>1, <2>4, <2>5, Widths DEF CommandEnds
  <2>7. clocked' = Command'
    BY <1>1, <2>1, <2>4, <2>5, <2>6, Widths
  <2> QED
    BY <1>3, <2>1, <2>7, NoZeros
<1>5. CASE ShiftIn(b)
  <2> DEFINE d == Append(Command, b)
  <2>1. /\ Sent = 0 /\ Sent' = 0 /\ Op(Command) = WRITE /\ Op(d) = WRITE
        /\ Len(d) > OpAddrBits
        /\ \/ Len(d) < OpAddrBits + DataBits /\ Command' = d
           \/ Len(d) = OpAddrBits + DataBits /\ Command' = <<>>
    BY <1>5, DataInBit
  <2>2. clocked = Command
    BY <1>2, <1>3, <2>1, NoZeros
  <2>3. ~ read
    BY <2>1, <2>2, ReadIsNotWrite
  <2>4. c = d
    BY <2>2, <2>3
  <2>5. Len(d) \in Nat
    BY <1>3, AppendBit
  <2> HIDE DEF c, d
  <2>6. CommandEnds(c) <=> Len(d) = OpAddrBits + DataBits
    BY <2>1, <2>4, <2>5, Widths DEF CommandEnds
  <2>7. clocked' = Command'
    BY <1>1, <2>1, <2>4, <2>5, <2>6, Widths
  <2> QED
    BY <1>3, <2>1, <2>7, NoZeros
<1>6. CASE ShiftOut(lines)
  <2> HIDE DEF c
  <2>1. /\ Len(Command) = OpAddrBits /\ Op(Command) = READ /\ Sent \in 0 .. DataBits - 1
        /\ \/ Sent + 1 = DataBits /\ Command' = <<>> /\ Sent' = 0
           \/ Sent + 1 # DataBits /\ Command' = Command /\ Sent' = Sent + 1
    BY <1>6, DataOutBit
  <2>2. Sent \in Nat /\ Sent + 1 \in Nat
    BY <2>1, Widths
  <2>3. Len(clocked) = OpAddrBits + Sent /\ Op(clocked) = READ
    BY <1>2, <1>3, <2>1, <2>2, SentPrefix
  <2>4. c = Command \o Zeros(Sent + 1)
    <3>1. read
      BY <2>2, <2>3, Widths
    <3> QED
      BY <1>2, <1>3, <2>2, <3>1, OneMoreZero DEF c
  <2>5. Len(c) = OpAddrBits + (Sent + 1) /\ Op(c) = READ
    BY <1>3, <2>1, <2>2, <2>4, SentPrefix
  <2>6. CommandEnds(c) <=> Sent + 1 = DataBits
    BY <2>2, <2>5, Widths DEF CommandEnds
  <2> QED
    BY <1>1, <2>1, <2>4, <2>6, NothingYet
<1> QED
  BY <1>4, <1>5, <1>6

LEMMA StepInStep == IInv /\ IInv' /\ InStep /\ [Next]_vars => InStep'
<1> SUFFICES ASSUME IInv, IInv', InStep, [Next]_vars, ~ aborted'
             PROVE  clocked' = Command' \o Zeros(Sent')
  BY DEF InStep
<1>1. ASSUME NEW val \in SUBSET Drives, WriteEECD(val)
      PROVE  clocked' = Command' \o Zeros(Sent')
  <2>1. PICK b \in Bit, lines \in SUBSET (Lines \cup {"GNT", "DO"}) :
           /\ "DO" \in lines <=> "DO" \in eecd
           /\ \/ Strobe(val) /\ ShiftOut(lines \ {"DO"})
              \/ Strobe(val) /\ eecd' = lines /\ ShiftIn(b)
              \/ Strobe(val) /\ eecd' = lines /\ ShiftCommand(b)
              \/ ~ Strobe(val) /\ eecd' = lines /\ UNCHANGED <<nvm, words>>
           /\ Count("CS" \in val, Strobe(val), b)
    BY <1>1, EecdCases DEF IInv
  <2>2. CASE Strobe(val)
    <3>1. Count("CS" \in val, TRUE, b)
      BY <2>1, <2>2 DEF Strobe
    <3>2. ShiftOut(lines \ {"DO"}) \/ ShiftIn(b) \/ ShiftCommand(b)
      BY <2>1, <2>2
    <3>3. "DO" \notin lines \ {"DO"}
      OBVIOUS
    <3> QED
      BY <3>1, <3>2, <3>3, StrobeInStep
  <2>3. CASE ~ Strobe(val)
    <3>1. UNCHANGED nvm /\ Count("CS" \in val, Strobe(val), b)
      BY <2>1, <2>3
    <3>2. ~ aborted /\ clocked' = clocked
      BY <2>3, <3>1, Counted
    <3>3. Command' = Command /\ Sent' = Sent
      BY <3>1 DEF nvm, Command, Sent, Received
    <3> QED
      BY <3>2, <3>3 DEF InStep
  <2> QED
    BY <2>2, <2>3
<1>2. CASE CtrlReset
  <2>1. Command' = <<>> /\ Sent' = 0 /\ clocked' = <<>>
    BY <1>2, Emptied DEF CtrlReset, IInv
  <2> QED
    BY <2>1, NothingYet
<1>3. CASE UNCHANGED vars
  <2>1. Command' = Command /\ Sent' = Sent
    BY <1>3 DEF vars, nvm, Command, Sent, Received
  <2> QED
    BY <1>3, <2>1 DEF vars, hist, InStep
<1> QED
  BY <1>1, <1>2, <1>3 DEF Next

LEMMA InitEmpty == ASSUME Init PROVE Command = <<>> /\ Sent = 0
<1>1. mode = "OPADDR" /\ bits = OpAddrBits /\ TypeOK
  BY InitIInv DEF Init, IInv
<1>2. Command \in Seq(Bit) /\ Len(Command) = 0 /\ Sent = 0
  BY <1>1, CommandFacts, Widths DEF CommandShape
<1> QED
  BY <1>2, EmptySeq

(* The machine of e82545_eecd_strobe and the guest agree on which bit of    *)
(* which command is next, for every number of address and data bits, until  *)
(* the guest drops CS inside a command.                                     *)
THEOREM StaysInStep == Spec => []InStep
<1>1. Init => InStep
  <2> SUFFICES ASSUME Init PROVE clocked = Command \o Zeros(Sent)
    BY DEF InStep
  <2>1. Command = <<>> /\ Sent = 0 /\ clocked = <<>>
    BY InitEmpty DEF Init
  <2> QED
    BY <2>1, NothingYet
<1> QED
  BY <1>1, Inductive, StepInStep, PTL DEF Spec

-----------------------------------------------------------------------------
(* The machine implements the abstract EEPROM.                              *)

LEMMA SameOperators ==
  /\ Nvm!Bit = Bit /\ Nvm!Word = Word /\ Nvm!Addr = Addr
  /\ \A c : Nvm!OpOf(c) = Op(c) /\ Nvm!AddrOf(c) = AddrOf(c)
  /\ \A c : Nvm!Decoded(c) <=> Len(c) >= OpAddrBits
  BY DEF Nvm!Bit, Bit, Nvm!Word, Word, Nvm!Addr, Addr, Nvm!OpOf, Op, Nvm!AddrOf, AddrOf,
         Nvm!Decoded, OpAddrBits

LEMMA StepImplements == IInv /\ IInv' /\ [Next]_vars => [Nvm!Next]_(Nvm!vars)
<1> SUFFICES ASSUME IInv, IInv', [Next]_vars PROVE [Nvm!Next]_(Nvm!vars)
  OBVIOUS
<1> DEFINE do == IF "DO" \in eecd THEN 1 ELSE 0
<1>c. Command \in Seq(Bit) /\ Len(Command) \in Nat
  BY CommandFacts, Widths DEF IInv, CommandShape
<1>1. ASSUME NEW val \in SUBSET Drives, WriteEECD(val)
      PROVE  [Nvm!Next]_(Nvm!vars)
  <2>1. PICK b \in Bit, lines \in SUBSET (Lines \cup {"GNT", "DO"}) :
           /\ "DO" \in lines <=> "DO" \in eecd
           /\ \/ Strobe(val) /\ ShiftOut(lines \ {"DO"})
              \/ Strobe(val) /\ eecd' = lines /\ ShiftIn(b)
              \/ Strobe(val) /\ eecd' = lines /\ ShiftCommand(b)
              \/ ~ Strobe(val) /\ eecd' = lines /\ UNCHANGED <<nvm, words>>
           /\ Count("CS" \in val, Strobe(val), b)
    BY <1>1, EecdCases DEF IInv
  <2> DEFINE c == Append(Command, b)
  <2>c. Len(c) = Len(Command) + 1 /\ Len(c) \in Nat
    BY <1>c, AppendBit
  <2> HIDE DEF c
  <2>b. b \in Nvm!Bit
    BY SameOperators
  <2>f. (Strobe(val) => fresh' = FALSE) /\ (~ Strobe(val) => fresh' = fresh)
    BY <2>1 DEF Count, IInv, TypeOK
  <2>2. CASE Strobe(val) /\ eecd' = lines /\ ShiftCommand(b)
    <3>1. do' = do /\ fresh' = FALSE
      BY <2>1, <2>2, <2>f
    <3>2. /\ Sent = 0 /\ Sent' = 0 /\ words' = words /\ Len(Command) < OpAddrBits
          /\ \/ Len(c) < OpAddrBits /\ Command' = c
             \/ Len(c) = OpAddrBits /\ Op(c) \in {READ, WRITE} /\ Command' = c
             \/ Len(c) = OpAddrBits /\ Op(c) \notin {READ, WRITE} /\ Command' = <<>>
      BY <2>2, CommandBit DEF c
    <3>3. ~ Nvm!Reading
      BY <1>c, <3>2, SameOperators, Widths DEF Nvm!Reading
    <3>4. ASSUME /\ Command' = c
                 /\ Len(c) < OpAddrBits \/ (Len(c) = OpAddrBits /\ Op(c) \in {READ, WRITE})
          PROVE  Nvm!Next
      <4>1. \/ ~ Nvm!Decoded(c)
            \/ Nvm!OpOf(c) = READ
            \/ Nvm!OpOf(c) = WRITE /\ Len(c) < OpBits + AddrBits + DataBits
        BY <2>c, <3>4, SameOperators, Widths
      <4>2. Nvm!More(b)
        BY <3>1, <3>2, <3>3, <3>4, <4>1 DEF Nvm!More, c, do
      <4> QED
        BY <2>b, <4>2 DEF Nvm!Next
    <3>5. ASSUME Command' = <<>>, Len(c) = OpAddrBits, Op(c) \notin {READ, WRITE}
          PROVE  Nvm!Next
      <4>1. Nvm!Decoded(c) /\ Nvm!OpOf(c) \notin {READ, WRITE}
        BY <2>c, <3>5, SameOperators, Widths
      <4>2. Nvm!Ignore(b)
        BY <3>1, <3>2, <3>3, <3>5, <4>1 DEF Nvm!Ignore, c, do
      <4> QED
        BY <2>b, <4>2 DEF Nvm!Next
    <3> QED
      BY <3>2, <3>4, <3>5
  <2>3. CASE Strobe(val) /\ eecd' = lines /\ ShiftIn(b)
    <3>1. do' = do /\ fresh' = FALSE
      BY <2>1, <2>3, <2>f
    <3>2. /\ Sent = 0 /\ Sent' = 0 /\ Op(Command) = WRITE /\ Op(c) = WRITE
          /\ Len(c) > OpAddrBits
          /\ \/ Len(c) < OpAddrBits + DataBits /\ Command' = c /\ words' = words
             \/ /\ Len(c) = OpAddrBits + DataBits /\ Command' = <<>>
                /\ words' = [words EXCEPT ![AddrOf(c)] =
                               [i \in 1 .. DataBits |-> c[OpBits + AddrBits + i]]]
      BY <2>3, DataInBit DEF c
    <3>3. ~ Nvm!Reading
      BY <3>2, SameOperators, ReadIsNotWrite DEF Nvm!Reading
    <3>4. CASE Len(c) < OpAddrBits + DataBits /\ Command' = c /\ words' = words
      <4>1. Nvm!OpOf(c) = WRITE /\ Len(c) < OpBits + AddrBits + DataBits
        BY <3>2, <3>4, SameOperators DEF OpAddrBits
      <4>2. Nvm!More(b)
        BY <3>1, <3>2, <3>3, <3>4, <4>1 DEF Nvm!More, c, do
      <4> QED
        BY <2>b, <4>2 DEF Nvm!Next
    <3>5. CASE /\ Len(c) = OpAddrBits + DataBits /\ Command' = <<>>
               /\ words' = [words EXCEPT ![AddrOf(c)] =
                              [i \in 1 .. DataBits |-> c[OpBits + AddrBits + i]]]
      <4>1. Nvm!Decoded(c) /\ Nvm!OpOf(c) = WRITE /\ Len(c) = OpBits + AddrBits + DataBits
        BY <2>c, <3>2, <3>5, SameOperators, Widths
      <4>2. words' = [words EXCEPT ![Nvm!AddrOf(c)] = Nvm!WordOf(c)]
        BY <3>5, SameOperators DEF Nvm!WordOf
      <4>3. Nvm!Store(b)
        BY <3>1, <3>2, <3>5, <4>1, <4>2 DEF Nvm!Store, c, do
      <4> QED
        BY <2>b, <4>3 DEF Nvm!Next
    <3> QED
      BY <3>2, <3>4, <3>5
  <2>4. CASE Strobe(val) /\ ShiftOut(lines \ {"DO"})
    <3>1. /\ Len(Command) = OpAddrBits /\ Op(Command) = READ /\ words' = words
          /\ do' = words[AddrOf(Command)][Sent + 1]
          /\ \/ Sent + 1 = DataBits /\ Command' = <<>> /\ Sent' = 0
             \/ Sent + 1 # DataBits /\ Command' = Command /\ Sent' = Sent + 1
      BY <2>4, DataOutBit
    <3>f. fresh' = FALSE
      BY <2>4, <2>f
    <3>2. Nvm!Reading /\ AddrOf(Command) = Nvm!AddrOf(Command)
      BY <1>c, <3>1, SameOperators, Widths DEF Nvm!Reading
    <3>3. Nvm!Answer
      BY <3>1, <3>2, <3>f DEF Nvm!Answer, do
    <3> QED
      BY <3>3 DEF Nvm!Next
  <2>5. CASE ~ Strobe(val) /\ eecd' = lines /\ UNCHANGED <<nvm, words>>
    <3>1. Command' = Command /\ Sent' = Sent /\ words' = words
      BY <2>5 DEF nvm, Command, Sent, Received
    <3>2. do' = do /\ fresh' = fresh
      BY <2>1, <2>5, <2>f
    <3> QED
      BY <3>1, <3>2 DEF Nvm!vars, do
  <2> QED
    BY <2>1, <2>2, <2>3, <2>4, <2>5
<1>2. CASE CtrlReset
  <2>1. Command' = <<>> /\ Sent' = 0
    BY <1>2, Emptied DEF CtrlReset, IInv
  <2>2. do' = 0 /\ fresh' = TRUE
    BY <1>2 DEF CtrlReset
  <2>3. words' = InitEeprom(words)
    BY <1>2 DEF CtrlReset
  <2>4. Nvm!Reset
    BY <2>1, <2>2, <2>3 DEF Nvm!Reset, do
  <2> QED
    BY <2>4 DEF Nvm!Next
<1>3. CASE UNCHANGED vars
  <2>1. Command' = Command /\ Sent' = Sent /\ words' = words /\ do' = do /\ fresh' = fresh
    BY <1>3 DEF vars, nvm, hist, Command, Sent, Received
  <2> QED
    BY <2>1 DEF Nvm!vars, do
<1> QED
  BY <1>1, <1>2, <1>3 DEF Next

(* e82545_eecd_strobe with its mode, its countdown and its two shift        *)
(* registers is an EEPROM, for every number of address and data bits: a     *)
(* write stores the word of its command and nothing else, a read sends the  *)
(* stored word from the top, and a reset leaves the image                   *)
(* e82545_init_eeprom makes of what was stored.                             *)
THEOREM IsAnEeprom == Spec => ImplementsNvm
<1>1. Init => Nvm!Init
  <2> SUFFICES ASSUME Init PROVE Nvm!Init
    OBVIOUS
  <2>1. /\ Command = <<>> /\ Sent = 0 /\ (IF "DO" \in eecd THEN 1 ELSE 0) = 0
        /\ fresh = TRUE
    BY InitEmpty DEF Init
  <2>2. words \in [Nvm!Addr -> Nvm!Word]
    BY InitIInv, SameOperators DEF IInv, TypeOK
  <2> QED
    BY <2>1, <2>2 DEF Nvm!Init
<1> QED
  BY <1>1, Inductive, StepImplements, PTL DEF Spec, ImplementsNvm, Nvm!Spec

-----------------------------------------------------------------------------
(* The image after a reset.                                                 *)

(* e82545_init_eeprom leaves an image whose words sum to NVM_SUM, for every *)
(* number of words and bits, whatever the guest had stored and whatever the *)
(* old checksum was.                                                        *)
THEOREM ResetLeavesAValidSum == Spec => SumsAfterReset
<1>1. IInv /\ [Next]_vars => [CtrlReset => Sum(words', NVM_CHECKSUM_REG + 1) = NVM_SUM]_vars
  <2> SUFFICES ASSUME IInv, CtrlReset PROVE Sum(words', NVM_CHECKSUM_REG + 1) = NVM_SUM
    OBVIOUS
  <2>1. words \in [Addr -> Word] /\ words' = InitEeprom(words)
    BY DEF IInv, TypeOK, CtrlReset
  <2> QED
    BY <2>1, InitEepromSum
<1> QED
  BY <1>1, Inductive, PTL DEF Spec, SumsAfterReset
===============================================================================
