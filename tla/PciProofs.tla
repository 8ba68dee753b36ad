------------------------------ MODULE PciProofs ------------------------------
(***************************************************************************)
(* Proofs about what the PCI functions share.  First PciCfg, the            *)
(* configuration space with the BARs and the registry of memory ranges, for *)
(* any set of functions with up to PCI_BARMAX + 1 memory BARs each, of any  *)
(* sizes, and for any set of addresses, accesses and values the guest       *)
(* writes.  Then AhciIntr, the AHCI controller on the pin of PciLintr, for  *)
(* every number of ports, set of causes and number of messages.             *)
(***************************************************************************)
EXTENDS PciCfg, AhciIntr, TLAPS

Registry == [tree : SUBSET AnyRange, hint : SUBSET AnyRange, halted : BOOLEAN]

(* The cache holds nothing or one range of the tree.                        *)
Cached(g) == g.hint \subseteq g.tree /\ (g.hint = {} \/ \E r \in g.tree : g.hint = {r})

RegOK(g) == g \in Registry /\ Separate(g.tree) /\ Cached(g)

(* The ranges are where the BARs ad have them, and their BARs are in S.     *)
Placed(g, ad, S) == \A r \in g.tree : r.bar \in S /\ r = RangeAt(r.bar, ad[r.bar])

(* The ranges of the BARs of S.                                             *)
RangesOf(S, ad) == {RangeAt(b, ad[b]) : b \in S}

LEMMA RangeAtType ==
  ASSUME NEW b \in Regions, NEW a \in Nat
  PROVE  /\ RangeAt(b, a) \in AnyRange
         /\ RangeAt(b, a).bar = b /\ RangeAt(b, a).base = a
         /\ RangeAt(b, a).end = a + Size[b] - 1
         /\ In(a, RangeAt(b, a))
  BY PciBarAssumption DEF RangeAt, AnyRange, In

(* An address inside of two ranges makes them overlap.                      *)
LEMMA InBothOverlap ==
  ASSUME NEW r \in AnyRange, NEW q \in AnyRange, NEW a \in Nat, In(a, r), In(a, q)
  PROVE  Overlaps(r, q)
  BY DEF Overlaps, In, AnyRange

LEMMA OverlapsSym ==
  ASSUME NEW r \in AnyRange, NEW q \in AnyRange, Overlaps(r, q)
  PROVE  Overlaps(q, r)
  BY DEF Overlaps, AnyRange

(* What a lookup finds is one range or none.                                *)
LEMMA LookupOne ==
  ASSUME NEW tree \in SUBSET AnyRange, Separate(tree), NEW a \in Nat,
         NEW r \in tree, In(a, r)
  PROVE  Lookup(tree, a) = {r}
<1>1. ASSUME NEW q \in Lookup(tree, a) PROVE q = r
  BY <1>1, InBothOverlap DEF Lookup, Separate
<1>2. r \in Lookup(tree, a)
  BY DEF Lookup
<1> QED
  BY <1>1, <1>2

LEMMA LookupCases ==
  ASSUME NEW tree \in SUBSET AnyRange, Separate(tree), NEW a \in Nat
  PROVE  Lookup(tree, a) = {} \/ \E r \in tree : Lookup(tree, a) = {r}
<1>1. CASE Lookup(tree, a) = {}
  BY <1>1
<1>2. CASE Lookup(tree, a) # {}
  <2> PICK r : r \in Lookup(tree, a)
    BY <1>2
  <2>1. r \in tree /\ In(a, r)
    BY DEF Lookup
  <2>2. Lookup(tree, a) = {r}
    BY <2>1, LookupOne
  <2> QED
    BY <2>1, <2>2
<1> QED
  BY <1>1, <1>2

-----------------------------------------------------------------------------
(* register_mem: the tree stays or gets the range, which is apart from all  *)
(* the others; the cache stays.                                             *)
LEMMA RegisterCases ==
  ASSUME NEW g \in Registry, NEW b, NEW a
  PROVE  /\ Register(g, b, a).hint = g.hint /\ Register(g, b, a).halted \in BOOLEAN
         /\ Register(g, b, a) = [tree |-> Register(g, b, a).tree, hint |-> g.hint,
                                 halted |-> Register(g, b, a).halted]
         /\ \/ Register(g, b, a).tree = g.tree
            \/ /\ Register(g, b, a).tree = g.tree \cup {RangeAt(b, a)}
               /\ \A r \in g.tree : ~ Overlaps(r, RangeAt(b, a))
         /\ ~ Register(g, b, a).halted => ~ g.halted
  BY DEF Register, Registry

LEMMA RegisterRegOK ==
  ASSUME NEW g, RegOK(g), NEW b \in Regions, NEW a \in Nat
  PROVE  RegOK(Register(g, b, a))
<1> DEFINE h == Register(g, b, a)
           new == RangeAt(b, a)
<1>1. g \in Registry /\ Separate(g.tree) /\ Cached(g) /\ g.tree \in SUBSET AnyRange
  BY DEF RegOK, Registry
<1>2. new \in AnyRange
  BY RangeAtType
<1>3. h.hint = g.hint /\ g.tree \subseteq h.tree /\ h \in Registry
  BY <1>1, <1>2, RegisterCases DEF Registry
<1>4. CASE h.tree = g.tree
  BY <1>1, <1>3, <1>4 DEF RegOK, Cached
<1>5. CASE h.tree = g.tree \cup {new} /\ \A r \in g.tree : ~ Overlaps(r, new)
  <2> HIDE DEF h, new
  <2>1. Separate(h.tree)
    <3> SUFFICES ASSUME NEW r \in h.tree, NEW q \in h.tree, r # q PROVE ~ Overlaps(r, q)
      BY DEF Separate
    <3>1. CASE r \in g.tree /\ q \in g.tree
      BY <1>1, <3>1 DEF Separate
    <3>2. CASE r \in g.tree /\ q = new
      BY <1>5, <3>2
    <3>3. CASE r = new /\ q \in g.tree
      BY <1>1, <1>2, <1>5, <3>3, OverlapsSym
    <3> QED
      BY <1>5, <3>1, <3>2, <3>3
  <2>2. Cached(h)
    BY <1>1, <1>3, <1>5 DEF Cached
  <2> QED
    BY <1>3, <2>1, <2>2 DEF RegOK, h
<1> QED
  BY <1>1, <1>4, <1>5, RegisterCases

(* A range that is registered is where its BAR is.                          *)
LEMMA RegisterPlaced ==
  ASSUME NEW g, RegOK(g), NEW S \in SUBSET Regions, NEW b \in S,
         NEW ad \in [Regions -> Nat], Placed(g, ad, S)
  PROVE  Placed(Register(g, b, ad[b]), ad, S)
<1>1. g \in Registry
  BY DEF RegOK
<1>2. b \in Regions /\ ad[b] \in Nat
  OBVIOUS
<1>3. RangeAt(b, ad[b]).bar = b
  BY <1>2, RangeAtType
<1>4. \/ Register(g, b, ad[b]).tree = g.tree
      \/ Register(g, b, ad[b]).tree = g.tree \cup {RangeAt(b, ad[b])}
  BY <1>1, RegisterCases
<1> QED
  BY <1>3, <1>4 DEF Placed

(* A BAR that is apart from all registered ranges is registered.            *)
LEMMA RegisterApart ==
  ASSUME NEW g, RegOK(g), ~ g.halted, NEW b \in Regions, NEW a \in Nat,
         \A r \in g.tree : ~ Overlaps(r, RangeAt(b, a))
  PROVE  /\ ~ Register(g, b, a).halted
         /\ Register(g, b, a).tree = g.tree \cup {RangeAt(b, a)}
<1>1. g \in Registry /\ g.tree \in SUBSET AnyRange
  BY DEF RegOK, Registry
<1>2. RangeAt(b, a) \in AnyRange /\ In(a, RangeAt(b, a))
  BY RangeAtType
<1>3. Lookup(g.tree, a) = {}
  BY <1>1, <1>2, InBothOverlap DEF Lookup
<1>4. Register(g, b, a) = [g EXCEPT !.tree = @ \cup {RangeAt(b, a)}]
  BY <1>3 DEF Register
<1> QED
  BY <1>1, <1>4 DEF Registry

-----------------------------------------------------------------------------
(* unregister_mem takes what it finds at the base out of the tree and out   *)
(* of the cache, or fails.                                                  *)
LEMMA UnregisterCases ==
  ASSUME NEW g \in Registry, NEW b, NEW a
  PROVE  /\ Unregister(g, b, a) \in Registry
         /\ ~ Unregister(g, b, a).halted => ~ g.halted
         /\ \/ /\ Unregister(g, b, a).tree = g.tree
               /\ Unregister(g, b, a).hint = g.hint
               /\ Unregister(g, b, a).halted
            \/ /\ Unregister(g, b, a).tree = g.tree \ Lookup(g.tree, a)
               /\ Unregister(g, b, a).hint = g.hint \ Lookup(g.tree, a)
  BY DEF Unregister, Registry

LEMMA UnregisterRegOK ==
  ASSUME NEW g, RegOK(g), NEW b \in Regions, NEW a \in Nat
  PROVE  RegOK(Unregister(g, b, a))
<1> DEFINE h == Unregister(g, b, a)
           found == Lookup(g.tree, a)
<1>1. g \in Registry /\ Separate(g.tree) /\ Cached(g)
  BY DEF RegOK
<1>2. h \in Registry
  BY <1>1, UnregisterCases
<1>3. \/ h.tree = g.tree /\ h.hint = g.hint
      \/ h.tree = g.tree \ found /\ h.hint = g.hint \ found
  BY <1>1, UnregisterCases
<1> HIDE DEF h, found
<1>4. Separate(h.tree)
  BY <1>1, <1>3 DEF Separate
<1>5. Cached(h)
  BY <1>1, <1>3 DEF Cached
<1> QED
  BY <1>2, <1>4, <1>5 DEF RegOK, h

(* The BAR's own range is gone, if it was there.                            *)
LEMMA UnregisterPlaced ==
  ASSUME NEW g, RegOK(g), NEW S \in SUBSET Regions, NEW b \in Regions,
         NEW ad \in [Regions -> Nat], Placed(g, ad, S),
         ~ Unregister(g, b, ad[b]).halted
  PROVE  Placed(Unregister(g, b, ad[b]), ad, S \ {b})
<1>1. g \in Registry /\ ad[b] \in Nat
  BY DEF RegOK
<1>2. Unregister(g, b, ad[b]).tree = g.tree \ Lookup(g.tree, ad[b])
  BY <1>1, UnregisterCases
<1>3. ASSUME NEW r \in g.tree, r.bar = b PROVE r \in Lookup(g.tree, ad[b])
  <2>1. r = RangeAt(b, ad[b])
    BY <1>3 DEF Placed
  <2>2. In(ad[b], r)
    BY <1>1, <2>1, RangeAtType
  <2> QED
    BY <2>2 DEF Lookup
<1> QED
  BY <1>2, <1>3 DEF Placed

(* A BAR whose range is registered is unregistered without a failure.       *)
LEMMA UnregisterOwn ==
  ASSUME NEW g, RegOK(g), ~ g.halted, NEW b \in AllBars, NEW a \in Nat,
         RangeAt(b, a) \in g.tree
  PROVE  /\ ~ Unregister(g, b, a).halted
         /\ Unregister(g, b, a).tree = g.tree \ {RangeAt(b, a)}
<1>1. g \in Registry /\ g.tree \in SUBSET AnyRange /\ Separate(g.tree)
  BY DEF RegOK, Registry
<1>2. /\ RangeAt(b, a).bar = b /\ RangeAt(b, a).base = a
      /\ In(a, RangeAt(b, a))
  BY RangeAtType DEF Regions
<1>3. Lookup(g.tree, a) = {RangeAt(b, a)}
  BY <1>1, <1>2, LookupOne
<1>4. SameParam(RangeAt(b, a), b, a)
  BY <1>2, PciBarAssumption DEF SameParam
<1>5. Unregister(g, b, a) = [g EXCEPT !.tree = @ \ {RangeAt(b, a)}, !.hint = @ \ {RangeAt(b, a)}]
  BY <1>3, <1>4 DEF Unregister
<1> QED
  BY <1>1, <1>5 DEF Registry

-----------------------------------------------------------------------------
LEMMA OwnerOf ==
  ASSUME NEW d \in Devs, NEW b \in Range(BarsOf[d])
  PROVE  b \in AllBars /\ Owner(b) = d
<1>1. b \in AllBars
  BY DEF AllBars
<1>2. \A e \in Devs : b \in Range(BarsOf[e]) => e = d
  BY PciBarAssumption
<1> QED
  BY <1>1, <1>2 DEF Owner

LEMMA OwnerType ==
  ASSUME NEW b \in AllBars
  PROVE  Owner(b) \in Devs /\ b \in Range(BarsOf[Owner(b)])
  BY DEF Owner, AllBars

(* The BARs of d the loop has been through before index i.                  *)
First(d, i) == {BarsOf[d][j] : j \in {k \in DOMAIN BarsOf[d] : k <= i}}

LEMMA FirstEnds ==
  ASSUME NEW d \in Devs
  PROVE  First(d, 0) = {} /\ First(d, 6) = Range(BarsOf[d])
<1>1. BarsOf[d] \in Seq(AllBars) /\ Len(BarsOf[d]) <= 6
  BY PciBarAssumption DEF PCI_BARMAX
<1>2. DOMAIN BarsOf[d] = 1 .. Len(BarsOf[d]) /\ Len(BarsOf[d]) \in Nat
  BY <1>1
<1>3. \A j \in DOMAIN BarsOf[d] : 0 < j /\ j <= 6
  BY <1>1, <1>2
<1> QED
  BY <1>2, <1>3 DEF First, Range

LEMMA FirstNext ==
  ASSUME NEW d \in Devs, NEW i \in 1 .. 6
  PROVE  /\ i \notin DOMAIN BarsOf[d] => First(d, i) = First(d, i - 1)
         /\ i \in DOMAIN BarsOf[d] =>
              /\ First(d, i) = First(d, i - 1) \cup {BarsOf[d][i]}
              /\ BarsOf[d][i] \notin First(d, i - 1)
              /\ BarsOf[d][i] \in Range(BarsOf[d]) /\ BarsOf[d][i] \in AllBars
<1>1. BarsOf[d] \in Seq(AllBars) /\ IsInjective(BarsOf[d])
  BY PciBarAssumption
<1>2. DOMAIN BarsOf[d] \subseteq Nat
  BY <1>1
<1>3. \A j \in DOMAIN BarsOf[d] : j <= i <=> (j <= i - 1 \/ j = i)
  BY <1>2
<1>4. i \notin DOMAIN BarsOf[d] => First(d, i) = First(d, i - 1)
  BY <1>3 DEF First
<1>5. ASSUME i \in DOMAIN BarsOf[d]
      PROVE  /\ First(d, i) = First(d, i - 1) \cup {BarsOf[d][i]}
             /\ BarsOf[d][i] \notin First(d, i - 1)
             /\ BarsOf[d][i] \in Range(BarsOf[d]) /\ BarsOf[d][i] \in AllBars
  <2>1. First(d, i) = First(d, i - 1) \cup {BarsOf[d][i]}
    BY <1>3, <1>5 DEF First
  <2>2. BarsOf[d][i] \notin First(d, i - 1)
    BY <1>1, <1>2, <1>5 DEF First, IsInjective
  <2> QED
    BY <2>1, <2>2, <1>1, <1>5 DEF Range
<1> QED
  BY <1>4, <1>5

-----------------------------------------------------------------------------
LEMMA PlacedMore ==
  ASSUME NEW g, NEW ad, NEW S, NEW T, S \subseteq T, Placed(g, ad, S)
  PROVE  Placed(g, ad, T)
  BY DEF Placed

LEMMA RangesOfMore ==
  ASSUME NEW S, NEW ad, NEW b
  PROVE  RangesOf(S \cup {b}, ad) = RangesOf(S, ad) \cup {RangeAt(b, ad[b])}
  BY DEF RangesOf

(* Ranges of different BARs are different.                                  *)
LEMMA RangesOfLess ==
  ASSUME NEW S \in SUBSET Regions, NEW ad \in [Regions -> Nat], NEW b \in Regions
  PROVE  RangesOf(S \ {b}, ad) = RangesOf(S, ad) \ {RangeAt(b, ad[b])}
<1>1. \A c \in Regions : RangeAt(c, ad[c]).bar = c
  BY RangeAtType
<1>2. \A c \in S : c # b => RangeAt(c, ad[c]) # RangeAt(b, ad[b])
  BY <1>1
<1> QED
  BY <1>2 DEF RangesOf

LEMMA RangesOfPlaced ==
  ASSUME NEW g, NEW S \in SUBSET Regions, NEW ad \in [Regions -> Nat],
         g.tree = RangesOf(S, ad)
  PROVE  Placed(g, ad, S)
<1>1. \A c \in Regions : RangeAt(c, ad[c]).bar = c
  BY RangeAtType
<1> QED
  BY <1>1 DEF RangesOf, Placed

-----------------------------------------------------------------------------
(* The loop of pci_emul_cmdsts_write over the BARs of d.  S has the BARs    *)
(* that were decoded before; Reached has those that are after i turns.      *)
Reached(S, d, i, en) == IF en THEN S \cup First(d, i) ELSE S \ First(d, i)

(* Nothing of S and of d is in the way of a BAR of d.                       *)
NoneInTheWay(S, d) ==
    \A b \in Range(BarsOf[d]) : \A c \in S \cup Range(BarsOf[d]) :
        c # b => ~ Overlaps(RangeAt(c, addr[c]), RangeAt(b, addr[b]))

(* After i turns: the tree has ranges of reached BARs only, and, if nothing *)
(* was in the way, the ranges of all of them and no assertion has failed.   *)
Turned(g, S, d, i, en, clear) ==
    /\ RegOK(g)
    /\ ~ g.halted => Placed(g, addr, Reached(S, d, i, en))
    /\ clear => ~ g.halted /\ g.tree = RangesOf(Reached(S, d, i, en), addr)

(* What is known before the loop.                                           *)
LoopStart(S, d, en, clear) ==
    /\ addr \in [Regions -> Nat] /\ S \subseteq Regions /\ d \in Devs
    /\ en \in BOOLEAN /\ clear \in BOOLEAN
    /\ en => S \cap Range(BarsOf[d]) = {}
    /\ ~ en => Range(BarsOf[d]) \subseteq S
    /\ en /\ clear => NoneInTheWay(S, d)

LEMMA TurnOn ==
  ASSUME NEW S, NEW d, NEW clear, LoopStart(S, d, TRUE, clear), NEW i \in 1 .. 6,
         NEW g, Turned(g, S, d, i - 1, TRUE, clear), i \in DOMAIN BarsOf[d]
  PROVE  Turned(Register(g, BarsOf[d][i], addr[BarsOf[d][i]]), S, d, i, TRUE, clear)
<1> DEFINE b == BarsOf[d][i]
           h == Register(g, b, addr[b])
           Old == Reached(S, d, i - 1, TRUE)
           New == Reached(S, d, i, TRUE)
<1>1. d \in Devs /\ addr \in [Regions -> Nat] /\ S \subseteq Regions
      /\ S \cap Range(BarsOf[d]) = {}
  BY DEF LoopStart
<1>2. b \in Regions /\ addr[b] \in Nat /\ b \in Range(BarsOf[d]) /\ b \notin Old
      /\ New = Old \cup {b} /\ New \subseteq Regions
      /\ Old \subseteq S \cup Range(BarsOf[d])
  <2>1. First(d, i) \subseteq Range(BarsOf[d]) /\ First(d, i - 1) \subseteq Range(BarsOf[d])
    BY DEF First, Range
  <2>2. \A c \in Range(BarsOf[d]) : c \in Regions
    BY <1>1, OwnerOf DEF Regions
  <2> QED
    BY <1>1, <2>1, <2>2, FirstNext DEF Reached, Regions
<1>3. RegOK(g) /\ (~ g.halted => Placed(g, addr, Old))
      /\ (clear => ~ g.halted /\ g.tree = RangesOf(Old, addr))
  BY DEF Turned
<1> HIDE DEF b, Old, New
<1>4. RegOK(h)
  BY <1>2, <1>3, RegisterRegOK
<1>5. ASSUME ~ h.halted PROVE Placed(h, addr, New)
  <2>1. ~ g.halted
    BY <1>3, <1>5, RegisterCases DEF RegOK
  <2>2. Placed(g, addr, New)
    BY <1>2, <1>3, <2>1, PlacedMore
  <2> QED
    BY <1>1, <1>2, <1>3, <2>2, RegisterPlaced
<1>6. ASSUME clear PROVE ~ h.halted /\ h.tree = RangesOf(New, addr)
  <2>1. \A r \in g.tree : ~ Overlaps(r, RangeAt(b, addr[b]))
    <3> SUFFICES ASSUME NEW c \in Old PROVE ~ Overlaps(RangeAt(c, addr[c]), RangeAt(b, addr[b]))
      BY <1>3, <1>6 DEF RangesOf
    <3>1. NoneInTheWay(S, d)
      BY <1>6 DEF LoopStart
    <3> QED
      BY <1>2, <3>1 DEF NoneInTheWay
  <2>2. ~ h.halted /\ h.tree = g.tree \cup {RangeAt(b, addr[b])}
    BY <1>2, <1>3, <1>6, <2>1, RegisterApart
  <2>3. RangesOf(Old \cup {b}, addr) = RangesOf(Old, addr) \cup {RangeAt(b, addr[b])}
    BY RangesOfMore
  <2> QED
    BY <1>2, <1>3, <1>6, <2>2, <2>3
<1> QED
  BY <1>4, <1>5, <1>6 DEF Turned, h, b, New

LEMMA TurnOff ==
  ASSUME NEW S, NEW d, NEW clear, LoopStart(S, d, FALSE, clear), NEW i \in 1 .. 6,
         NEW g, Turned(g, S, d, i - 1, FALSE, clear), i \in DOMAIN BarsOf[d]
  PROVE  Turned(Unregister(g, BarsOf[d][i], addr[BarsOf[d][i]]), S, d, i, FALSE, clear)
<1> DEFINE b == BarsOf[d][i]
           h == Unregister(g, b, addr[b])
           Old == Reached(S, d, i - 1, FALSE)
           New == Reached(S, d, i, FALSE)
<1>1. d \in Devs /\ addr \in [Regions -> Nat] /\ S \subseteq Regions
      /\ Range(BarsOf[d]) \subseteq S
  BY DEF LoopStart
<1>2. /\ b \in AllBars /\ b \in Regions /\ addr[b] \in Nat
      /\ b \in Old /\ New = Old \ {b} /\ Old \subseteq Regions
  BY <1>1, FirstNext DEF Reached, Regions
<1>3. RegOK(g) /\ (~ g.halted => Placed(g, addr, Old))
      /\ (clear => ~ g.halted /\ g.tree = RangesOf(Old, addr))
  BY DEF Turned
<1> HIDE DEF b, Old, New
<1>4. RegOK(h)
  BY <1>2, <1>3, UnregisterRegOK
<1>5. ASSUME ~ h.halted PROVE Placed(h, addr, New)
  <2>1. ~ g.halted
    BY <1>3, <1>5, UnregisterCases DEF RegOK
  <2> QED
    BY <1>1, <1>2, <1>3, <1>5, <2>1, UnregisterPlaced
<1>6. ASSUME clear PROVE ~ h.halted /\ h.tree = RangesOf(New, addr)
  <2>1. RangeAt(b, addr[b]) \in g.tree
    BY <1>2, <1>3, <1>6 DEF RangesOf
  <2>2. ~ h.halted /\ h.tree = g.tree \ {RangeAt(b, addr[b])}
    BY <1>2, <1>3, <1>6, <2>1, UnregisterOwn
  <2> QED
    BY <1>1, <1>2, <1>3, <1>6, <2>2, RangesOfLess
<1> QED
  BY <1>4, <1>5, <1>6 DEF Turned, h, b, New

LEMMA OneTurn ==
  ASSUME NEW S, NEW d, NEW en, NEW clear, LoopStart(S, d, en, clear), NEW i \in 1 .. 6,
         NEW g, Turned(g, S, d, i - 1, en, clear)
  PROVE  Turned(SwitchBar(g, d, i, en), S, d, i, en, clear)
<1>1. d \in Devs /\ en \in BOOLEAN
  BY DEF LoopStart
<1>2. CASE i \notin DOMAIN BarsOf[d]
  <2>1. First(d, i) = First(d, i - 1)
    BY <1>1, <1>2, FirstNext
  <2>2. SwitchBar(g, d, i, en) = g
    BY <1>2 DEF SwitchBar
  <2> QED
    BY <2>1, <2>2 DEF Turned, Reached
<1>3. CASE i \in DOMAIN BarsOf[d] /\ en = TRUE
  BY <1>3, TurnOn DEF SwitchBar
<1>4. CASE i \in DOMAIN BarsOf[d] /\ en = FALSE
  BY <1>4, TurnOff DEF SwitchBar
<1> QED
  BY <1>1, <1>2, <1>3, <1>4

LEMMA AllTurns ==
  ASSUME NEW S, NEW d, NEW en, NEW clear, LoopStart(S, d, en, clear),
         NEW g, Turned(g, S, d, 0, en, clear)
  PROVE  Turned(SwitchBars(g, d, en), S, d, 6, en, clear)
<1> DEFINE g1 == SwitchBar(g, d, 1, en)
           g2 == SwitchBar(g1, d, 2, en)
           g3 == SwitchBar(g2, d, 3, en)
           g4 == SwitchBar(g3, d, 4, en)
           g5 == SwitchBar(g4, d, 5, en)
           g6 == SwitchBar(g5, d, 6, en)
           T(h, i) == Turned(h, S, d, i, en, clear)
<1>1. SwitchBars(g, d, en) = g6
  BY DEF SwitchBars
<1>2. ASSUME NEW h, NEW i \in 1 .. 6, T(h, i - 1) PROVE T(SwitchBar(h, d, i, en), i)
  BY <1>2, OneTurn
<1>3. T(g, 0)
  OBVIOUS
<1> HIDE DEF T
<1>4. T(g1, 1)
  BY <1>2, <1>3
<1> HIDE DEF g1
<1>5. T(g2, 2)
  BY <1>2, <1>4
<1> HIDE DEF g2
<1>6. T(g3, 3)
  BY <1>2, <1>5
<1> HIDE DEF g3
<1>7. T(g4, 4)
  BY <1>2, <1>6
<1> HIDE DEF g4
<1>8. T(g5, 5)
  BY <1>2, <1>7
<1> HIDE DEF g5
<1>9. T(g6, 6)
  BY <1>2, <1>8
<1> QED
  BY <1>1, <1>9 DEF T

-----------------------------------------------------------------------------
DecodedBars == {b \in Regions : Decoded(b)}

(* The registry's part of the invariant, in the form of the lemmas above.   *)
RegInv ==
    /\ membase \in Nat /\ made \subseteq Regions /\ addr \in [Regions -> Nat]
    /\ memen \in [Devs -> BOOLEAN] /\ tidy \in BOOLEAN
    /\ RegOK(reg)
    /\ ~ reg.halted => Placed(reg, addr, DecodedBars)
    /\ Booting
    /\ tidy => ~ reg.halted /\ reg.tree = RangesOf(DecodedBars, addr)

LEMMA RegInvParts == RegInv <=> BarInv /\ TreeIsDecoded
<1>1. /\ RegOK(reg) <=> /\ reg \in Registry /\ Separate(reg.tree) /\ HintIsLive
                        /\ \A r, q \in reg.hint : r = q
  BY DEF RegOK, Cached, HintIsLive
<1>2. ASSUME reg \in Registry, made \subseteq Regions
      PROVE  RangesInUse <=> (~ reg.halted => Placed(reg, addr, DecodedBars))
  BY <1>2 DEF RangesInUse, Placed, DecodedBars, Registry, AnyRange, Decoded
<1>3. TreeIsDecoded <=> (tidy => ~ reg.halted /\ reg.tree = RangesOf(DecodedBars, addr))
  BY DEF TreeIsDecoded, RangesOf, DecodedBars
<1> QED
  BY <1>1, <1>2, <1>3 DEF RegInv, BarInv, BarTypeOK, Registry

LEMMA RegInvInit == BarInit => RegInv
<1> SUFFICES ASSUME BarInit PROVE RegInv
  OBVIOUS
<1>1. reg.tree = {} /\ reg.hint = {} /\ reg.halted = FALSE /\ reg \in Registry
  BY DEF BarInit, Registry
<1>2. RegOK(reg) /\ Placed(reg, addr, DecodedBars)
  BY <1>1 DEF RegOK, Separate, Cached, Placed
<1>3. DecodedBars = {}
  BY DEF BarInit, DecodedBars, Decoded
<1>4. Booting
  <2>1. ECFG \in Regions /\ made = {}
    BY DEF Regions, BarInit
  <2>2. ~ Booted
    BY <2>1 DEF Booted
  <2> QED
    BY <2>1, <2>2, PciBarAssumption DEF BarInit, Booting
<1> QED
  BY <1>1, <1>2, <1>3, <1>4, PciBarAssumption DEF BarInit, RegInv, RangesOf

(* The address pci_emul_alloc_resource gives is not below its base.         *)
LEMMA RoundUpAbove ==
  ASSUME NEW a \in Nat, NEW size \in Nat \ {0}
  PROVE  RoundUp(a, size) \in Nat /\ RoundUp(a, size) >= a
<1> DEFINE x == a + size - 1
           q == x \div size
           m == x % size
<1>1. x \in Nat
  OBVIOUS
<1> HIDE DEF x
<1>2. q \in Nat /\ m \in 0 .. size - 1 /\ x = size * q + m
  BY <1>1
<1> HIDE DEF q, m
<1>3. q * size \in Nat /\ q * size = size * q
  BY <1>2
<1>4. RoundUp(a, size) = q * size
  BY DEF RoundUp, q, x
<1>5. q * size >= a
  <2> DEFINE p == size * q
  <2>1. p \in Nat /\ x = p + m
    BY <1>2, <1>3
  <2> HIDE DEF p
  <2>2. p >= a
    BY <1>2, <2>1 DEF x
  <2> QED
    BY <1>3, <2>2 DEF p
<1> QED
  BY <1>3, <1>4, <1>5

-----------------------------------------------------------------------------
(* What init_pci registers goes above all that is registered.               *)
LEMMA RegisteredAbove ==
  ASSUME RegInv, NEW b \in Regions, b \notin made, b = ECFG \/ memen[Owner(b)],
         NEW a \in Nat, \A c \in made : addr[c] + Size[c] <= a,
         made' = made \cup {b}, addr' = [addr EXCEPT ![b] = a],
         reg' = Register(reg, b, a), memen' = memen, tidy' = tidy
  PROVE  /\ made' \subseteq Regions /\ addr' \in [Regions -> Nat] /\ RegOK(reg')
         /\ ~ reg'.halted => Placed(reg', addr', DecodedBars')
         /\ tidy' => ~ reg'.halted /\ reg'.tree = RangesOf(DecodedBars', addr')
<1> DEFINE new == RangeAt(b, a)
           D == DecodedBars
<1>1. Size[b] \in Nat \ {0}
  BY PciBarAssumption
<1>2. /\ made \subseteq Regions /\ addr \in [Regions -> Nat]
      /\ RegOK(reg) /\ tidy \in BOOLEAN
      /\ ~ reg.halted => Placed(reg, addr, D)
      /\ tidy => ~ reg.halted /\ reg.tree = RangesOf(D, addr)
  BY DEF RegInv
<1>3. b \notin D /\ D \subseteq made /\ D \subseteq Regions /\ DecodedBars' = D \cup {b}
  BY <1>2 DEF DecodedBars, Decoded
<1>4. /\ addr' \in [Regions -> Nat] /\ addr'[b] = a
      /\ \A c \in Regions : c # b => addr'[c] = addr[c]
  BY <1>2
<1>n. new \in AnyRange /\ new.base = a
  BY RangeAtType
<1> HIDE DEF D, new
<1>5. RegOK(reg')
  BY <1>2, RegisterRegOK
<1>6. ASSUME ~ reg'.halted PROVE Placed(reg', addr', D \cup {b})
  <2>1. ~ reg.halted
    BY <1>2, <1>6, RegisterCases DEF RegOK
  <2>2. Placed(reg, addr', D \cup {b})
    BY <1>2, <1>3, <1>4, <2>1 DEF Placed
  <2>3. Placed(Register(reg, b, addr'[b]), addr', D \cup {b})
    BY <1>2, <1>3, <1>4, <2>2, RegisterPlaced
  <2> QED
    BY <1>4, <2>3
<1>7. ASSUME tidy PROVE ~ reg'.halted /\ reg'.tree = RangesOf(D \cup {b}, addr')
  <2>1. \A r \in reg.tree : ~ Overlaps(r, new)
    <3> SUFFICES ASSUME NEW c \in D PROVE ~ Overlaps(RangeAt(c, addr[c]), new)
      BY <1>2, <1>7 DEF RangesOf
    <3>1. /\ c \in Regions /\ addr[c] \in Nat /\ Size[c] \in Nat \ {0}
          /\ addr[c] + Size[c] <= a
      BY <1>2, <1>3, PciBarAssumption
    <3>2. RangeAt(c, addr[c]).end = addr[c] + Size[c] - 1
      BY <3>1, RangeAtType
    <3>3. RangeAt(c, addr[c]).end < new.base
      BY <1>n, <3>1, <3>2
    <3> QED
      BY <3>3 DEF Overlaps
  <2>2. ~ reg'.halted /\ reg'.tree = reg.tree \cup {new}
    BY <1>2, <1>7, <2>1, RegisterApart DEF new
  <2>3. RangesOf(D \cup {b}, addr') = RangesOf(D, addr') \cup {RangeAt(b, addr'[b])}
    BY DEF RangesOf
  <2>4. RangesOf(D, addr') = RangesOf(D, addr)
    BY <1>3, <1>4 DEF RangesOf
  <2> QED
    BY <1>2, <1>4, <1>7, <2>2, <2>3, <2>4 DEF new
<1> QED
  BY <1>2, <1>3, <1>4, <1>5, <1>6, <1>7

LEMMA AllocBarInv ==
  ASSUME RegInv, NEW b \in AllBars, AllocBar(b)
  PROVE  RegInv'
<1> DEFINE a == RoundUp(membase, Size[b])
<1>0. b \in Regions /\ b # ECFG
  BY PciBarAssumption DEF Regions
<1>1. a \in Nat /\ a >= membase /\ membase \in Nat /\ Size[b] \in Nat \ {0}
  BY <1>0, PciBarAssumption, RoundUpAbove DEF RegInv
<1>2. /\ membase' = a + Size[b] /\ made' = made \cup {b} /\ b \notin made
      /\ addr' = [addr EXCEPT ![b] = a] /\ reg' = Register(reg, b, a)
      /\ memen' = memen /\ tidy' = tidy /\ a + Size[b] <= EcfgBase
  BY DEF AllocBar, Due
<1>3. /\ made \subseteq Regions /\ addr \in [Regions -> Nat] /\ memen \in [Devs -> BOOLEAN]
      /\ tidy \in BOOLEAN
  BY DEF RegInv
<1>4. /\ memen[Owner(b)] /\ (\A d \in Devs : memen[d]) /\ ECFG \notin made
      /\ \A c \in made : addr[c] + Size[c] <= membase
  BY <1>0, <1>2, OwnerType DEF RegInv, Booting, Booted
<1> HIDE DEF a
<1>5. \A c \in made : addr[c] + Size[c] <= a
  <2> SUFFICES ASSUME NEW c \in made PROVE addr[c] + Size[c] <= a
    OBVIOUS
  <2>1. addr[c] \in Nat /\ Size[c] \in Nat /\ addr[c] + Size[c] <= membase
    BY <1>3, <1>4, PciBarAssumption
  <2> QED
    BY <1>1, <2>1
<1>6. /\ made' \subseteq Regions /\ addr' \in [Regions -> Nat] /\ RegOK(reg')
      /\ ~ reg'.halted => Placed(reg', addr', DecodedBars')
      /\ tidy' => ~ reg'.halted /\ reg'.tree = RangesOf(DecodedBars', addr')
  BY <1>0, <1>1, <1>2, <1>4, <1>5, RegisteredAbove
<1>7. Booting'
  <2>1. \A c \in made : addr'[c] + Size[c] <= a + Size[b]
    <3> SUFFICES ASSUME NEW c \in made PROVE addr[c] + Size[c] <= a + Size[b]
      BY <1>2, <1>3
    <3>1. addr[c] \in Nat /\ Size[c] \in Nat /\ addr[c] + Size[c] <= a
      BY <1>3, <1>5, PciBarAssumption
    <3> QED
      BY <1>1, <3>1
  <2>2. addr'[b] + Size[b] <= a + Size[b]
    BY <1>0, <1>1, <1>2, <1>3
  <2> QED
    <3>1. ECFG \in Regions /\ ECFG \notin made'
      BY <1>0, <1>2, <1>4 DEF Regions
    <3>2. ~ Booted'
      BY <3>1 DEF Booted
    <3> QED
      BY <1>0, <1>2, <1>4, <2>1, <2>2, <3>1, <3>2 DEF Booting
<1>8. membase' \in Nat
  BY <1>1, <1>2
<1> QED
  BY <1>2, <1>3, <1>6, <1>7, <1>8 DEF RegInv

(* ECFG is above the BARs, so init_pci's assert(error == 0) holds.          *)
LEMMA RegisterEcfgInv == ASSUME RegInv, RegisterEcfg PROVE RegInv'
<1>1. /\ made = AllBars /\ made' = Regions /\ addr' = [addr EXCEPT ![ECFG] = EcfgBase]
      /\ reg' = Register(reg, ECFG, EcfgBase)
      /\ membase' = membase /\ memen' = memen /\ tidy' = tidy
  BY DEF RegisterEcfg
<1>2. ECFG \in Regions /\ ECFG \notin made /\ EcfgBase \in Nat /\ made' = made \cup {ECFG}
  BY <1>1, PciBarAssumption DEF Regions
<1>3. membase \in Nat /\ addr \in [Regions -> Nat] /\ memen \in [Devs -> BOOLEAN]
      /\ made \subseteq Regions /\ tidy \in BOOLEAN
  BY DEF RegInv
<1>4. membase <= EcfgBase /\ \A c \in made : addr[c] + Size[c] <= membase
  BY <1>2 DEF RegInv, Booting, Booted
<1>5. \A c \in made : addr[c] + Size[c] <= EcfgBase
  <2> SUFFICES ASSUME NEW c \in made PROVE addr[c] + Size[c] <= EcfgBase
    OBVIOUS
  <2>1. addr[c] \in Nat /\ Size[c] \in Nat /\ addr[c] + Size[c] <= membase
    BY <1>3, <1>4, PciBarAssumption
  <2> QED
    BY <1>2, <1>3, <1>4, <2>1
<1>6. /\ made' \subseteq Regions /\ addr' \in [Regions -> Nat] /\ RegOK(reg')
      /\ ~ reg'.halted => Placed(reg', addr', DecodedBars')
      /\ tidy' => ~ reg'.halted /\ reg'.tree = RangesOf(DecodedBars', addr')
  BY <1>1, <1>2, <1>5, RegisteredAbove
<1>7. Booting'
  BY <1>1, <1>2, <1>3 DEF Booting, Booted
<1> QED
  BY <1>1, <1>3, <1>6, <1>7 DEF RegInv

-----------------------------------------------------------------------------
(* update_bar_address for a BAR that is decoded.                            *)
LEMMA MoveDecoded ==
  ASSUME RegInv, ~ reg.halted, NEW b \in AllBars, Decoded(b), NEW a \in Nat
  PROVE  LET g == Unregister(reg, b, addr[b])
             h == Register(g, b, a)
             ad == [addr EXCEPT ![b] = a]
         IN /\ RegOK(h)
            /\ ~ h.halted => Placed(h, ad, DecodedBars)
            /\ tidy /\ Apart(b, a) => ~ h.halted /\ h.tree = RangesOf(DecodedBars, ad)
<1> DEFINE g == Unregister(reg, b, addr[b])
           h == Register(g, b, a)
           ad == [addr EXCEPT ![b] = a]
           D == DecodedBars
<1>0. b \in Regions
  BY DEF Regions
<1>1. addr \in [Regions -> Nat] /\ addr[b] \in Nat /\ RegOK(reg) /\ Placed(reg, addr, D)
      /\ (tidy => reg.tree = RangesOf(D, addr))
  BY <1>0 DEF RegInv
<1>2. b \in D /\ D \subseteq Regions /\ D = (D \ {b}) \cup {b}
  BY <1>0 DEF DecodedBars
<1>3. ad \in [Regions -> Nat] /\ ad[b] = a /\ \A c \in Regions : c # b => ad[c] = addr[c]
  BY <1>0, <1>1
<1>4. RegOK(g) /\ RegOK(h)
  BY <1>0, <1>1, UnregisterRegOK, RegisterRegOK
<1>a. RangesOf(D \ {b}, ad) = RangesOf(D \ {b}, addr)
  BY <1>2, <1>3 DEF RangesOf
<1> HIDE DEF g, ad, D
<1>5. ASSUME ~ h.halted PROVE Placed(h, ad, D)
  <2>1. ~ g.halted
    BY <1>4, <1>5, RegisterCases DEF RegOK
  <2>2. Placed(g, addr, D \ {b})
    BY <1>0, <1>1, <1>2, <2>1, UnregisterPlaced DEF g
  <2>3. Placed(g, ad, D)
    BY <1>2, <1>3, <2>2 DEF Placed
  <2> QED
    BY <1>2, <1>3, <1>4, <2>3, RegisterPlaced
<1>6. ASSUME tidy, Apart(b, a) PROVE ~ h.halted /\ h.tree = RangesOf(D, ad)
  <2>1. RangeAt(b, addr[b]) \in reg.tree
    BY <1>1, <1>2, <1>6 DEF RangesOf
  <2>2. ~ g.halted /\ g.tree = reg.tree \ {RangeAt(b, addr[b])}
    BY <1>1, <2>1, UnregisterOwn DEF g
  <2>3. g.tree = RangesOf(D \ {b}, addr)
    BY <1>0, <1>1, <1>2, <1>6, <2>2, RangesOfLess
  <2>4. \A r \in g.tree : ~ Overlaps(r, RangeAt(b, a))
    <3> SUFFICES ASSUME NEW c \in D, c # b PROVE ~ Overlaps(RangeAt(c, addr[c]), RangeAt(b, a))
      BY <2>3 DEF RangesOf
    <3> QED
      BY <1>2, <1>6 DEF Apart, D, DecodedBars
  <2>5. ~ h.halted /\ h.tree = g.tree \cup {RangeAt(b, a)}
    BY <1>0, <1>4, <2>2, <2>4, RegisterApart
  <2>6. RangesOf((D \ {b}) \cup {b}, ad) = RangesOf(D \ {b}, ad) \cup {RangeAt(b, ad[b])}
    BY RangesOfMore
  <2> QED
    BY <1>2, <1>3, <1>a, <2>3, <2>5, <2>6
<1> QED
  BY <1>4, <1>5, <1>6 DEF g, ad, D

LEMMA WriteBarInv ==
  ASSUME RegInv, NEW b \in AllBars, NEW val \in Addrs, WriteBar(b, val)
  PROVE  RegInv'
<1> DEFINE a == (val \div Size[b]) * Size[b]
           ad == [addr EXCEPT ![b] = a]
<1>1. a \in Nat
  <2>1. val \in Nat /\ Size[b] \in Nat \ {0}
    BY PciBarAssumption DEF Regions
  <2>2. val \div Size[b] \in Nat
    BY <2>1
  <2> QED
    BY <2>1, <2>2
<1> HIDE DEF a
<1>2. /\ Booted /\ ~ reg.halted
      /\ addr' = ad
      /\ reg' = IF Decoded(b) THEN Register(Unregister(reg, b, addr[b]), b, a) ELSE reg
      /\ tidy' = (tidy /\ (Decoded(b) => Clear(b, a)))
      /\ membase' = membase /\ made' = made /\ memen' = memen
  BY DEF WriteBar, UpdateBarAddress, Configurable, bootVars, a
<1>3. /\ membase \in Nat /\ made \subseteq Regions /\ addr \in [Regions -> Nat]
      /\ memen \in [Devs -> BOOLEAN] /\ tidy \in BOOLEAN /\ RegOK(reg)
      /\ Placed(reg, addr, DecodedBars)
      /\ tidy => reg.tree = RangesOf(DecodedBars, addr)
  BY <1>2 DEF RegInv
<1>4. DecodedBars' = DecodedBars
  BY <1>2 DEF DecodedBars, Decoded
<1>5. ad \in [Regions -> Nat]
  BY <1>1, <1>3
<1>6. tidy' \in BOOLEAN /\ (tidy' => tidy /\ (Decoded(b) => Apart(b, a)))
  BY <1>2 DEF Clear
<1>7. Booting'
  <2>1. b # ECFG /\ ECFG \in Regions
    BY PciBarAssumption DEF Regions
  <2> QED
    BY <1>2, <1>3, <2>1 DEF RegInv, Booting, Booted
<1>8. CASE Decoded(b)
  <2>1. RegOK(reg') /\ (~ reg'.halted => Placed(reg', ad, DecodedBars))
        /\ (tidy /\ Apart(b, a) => ~ reg'.halted /\ reg'.tree = RangesOf(DecodedBars, ad))
    BY <1>1, <1>2, <1>8, MoveDecoded
  <2> HIDE DEF ad
  <2> QED
    BY <1>2, <1>3, <1>4, <1>5, <1>6, <1>7, <1>8, <2>1 DEF RegInv
<1>9. CASE ~ Decoded(b)
  <2>1. b \notin DecodedBars /\ DecodedBars \subseteq Regions
    BY <1>9 DEF DecodedBars
  <2>2. \A c \in DecodedBars : ad[c] = addr[c]
    BY <1>3, <2>1
  <2> HIDE DEF ad
  <2>3. Placed(reg, ad, DecodedBars) /\ RangesOf(DecodedBars, ad) = RangesOf(DecodedBars, addr)
    BY <1>3, <2>2 DEF Placed, RangesOf
  <2>4. reg' = reg
    BY <1>2, <1>9
  <2> QED
    BY <1>2, <1>3, <1>4, <1>5, <1>6, <1>7, <2>3, <2>4 DEF RegInv
<1> QED
  BY <1>8, <1>9

(* pci_emul_cmdsts_write where it changes MEMEN.                            *)
LEMMA WriteCommandInv ==
  ASSUME RegInv, NEW d \in Devs, NEW en \in BOOLEAN, WriteCommand(d, en)
  PROVE  RegInv'
<1> DEFINE D == DecodedBars
           own == Range(BarsOf[d])
<1>1. /\ Booted /\ ~ reg.halted /\ en # memen[d]
      /\ memen' = [memen EXCEPT ![d] = en]
      /\ membase' = membase /\ made' = made /\ addr' = addr
      /\ tidy' = (tidy /\ (en => \A b \in own : Clear(b, addr[b])'))
      /\ reg' = SwitchBars(reg, d, en)
  BY DEF WriteCommand, Configurable, bootVars
<1>2. /\ membase \in Nat /\ made \subseteq Regions /\ addr \in [Regions -> Nat]
      /\ memen \in [Devs -> BOOLEAN] /\ tidy \in BOOLEAN /\ RegOK(reg)
      /\ Placed(reg, addr, D)
      /\ tidy => reg.tree = RangesOf(D, addr)
  BY <1>1 DEF RegInv
<1>3. \A b \in own : b \in Regions /\ b # ECFG /\ b \in AllBars /\ Owner(b) = d
  BY OwnerOf, PciBarAssumption DEF Regions
<1>4. \A b \in Regions \ {ECFG} : Owner(b) \in Devs /\ (Owner(b) = d => b \in own)
  BY OwnerType DEF Regions
<1>5. memen[d] = ~ en /\ memen' \in [Devs -> BOOLEAN]
      /\ memen'[d] = en /\ \A e \in Devs : e # d => memen'[e] = memen[e]
  BY <1>1, <1>2
<1>6. D \subseteq Regions /\ (en => D \cap own = {} /\ DecodedBars' = D \cup own)
      /\ (~ en => own \subseteq D /\ DecodedBars' = D \ own)
  BY <1>1, <1>3, <1>4, <1>5 DEF DecodedBars, Decoded, Booted
<1>7. tidy' \in BOOLEAN
  BY <1>1
<1>8. ASSUME en, tidy' PROVE NoneInTheWay(D, d)
  <2> SUFFICES ASSUME NEW b \in own, NEW c \in D \cup own, c # b
               PROVE  ~ Overlaps(RangeAt(c, addr[c]), RangeAt(b, addr[b]))
    BY DEF NoneInTheWay
  <2>1. Clear(b, addr[b])'
    BY <1>1, <1>8
  <2>2. c \in Regions \ {b} /\ Decoded(c)'
    BY <1>3, <1>6, <1>8 DEF DecodedBars
  <2> QED
    BY <1>1, <2>1, <2>2 DEF Clear, Apart
<1>9. LoopStart(D, d, en, tidy')
  BY <1>2, <1>6, <1>7, <1>8 DEF LoopStart
<1>10. Turned(reg, D, d, 0, en, tidy')
  <2>1. Reached(D, d, 0, en) = D
    BY FirstEnds DEF Reached
  <2>2. tidy' => tidy
    BY <1>1
  <2> HIDE DEF D
  <2> QED
    BY <1>1, <1>2, <2>1, <2>2 DEF Turned
<1>11. Turned(reg', D, d, 6, en, tidy')
  BY <1>1, <1>9, <1>10, AllTurns
<1>12. Reached(D, d, 6, en) = DecodedBars'
  BY <1>6, FirstEnds DEF Reached
<1>13. Booting'
  BY <1>1 DEF RegInv, Booting, Booted
<1> HIDE DEF D
<1> QED
  BY <1>1, <1>2, <1>5, <1>7, <1>11, <1>12, <1>13 DEF RegInv, Turned

(* access_memory: the cache gets what the lookup finds.                     *)
LEMMA AccessInv ==
  ASSUME RegInv, NEW a \in Window, Access(a)
  PROVE  RegInv'
<1>1. /\ reg' = AccessHint(reg, a) /\ membase' = membase /\ made' = made /\ addr' = addr
      /\ memen' = memen /\ tidy' = tidy
  BY DEF Access, bootVars
<1>2. reg \in Registry /\ Separate(reg.tree) /\ Cached(reg) /\ reg.tree \in SUBSET AnyRange
      /\ a \in Nat
  BY PciBarAssumption DEF RegInv, RegOK, Registry
<1>3. reg'.tree = reg.tree /\ reg'.halted = reg.halted /\ reg'.hint \in {reg.hint, Lookup(reg.tree, a)}
      /\ reg' = [tree |-> reg.tree, hint |-> reg'.hint, halted |-> reg.halted]
  BY <1>1, <1>2 DEF AccessHint, Routed, Registry
<1>4. Lookup(reg.tree, a) = {} \/ \E r \in reg.tree : Lookup(reg.tree, a) = {r}
  BY <1>2, LookupCases
<1>5. Cached(reg')
  BY <1>2, <1>3, <1>4 DEF Cached
<1>6. RegOK(reg')
  BY <1>2, <1>3, <1>5 DEF RegOK, Registry, Cached
<1>7. DecodedBars' = DecodedBars /\ (Booting' <=> Booting)
  BY <1>1 DEF DecodedBars, Decoded, Booting, Booted
<1>8. Placed(reg', addr', DecodedBars') <=> Placed(reg, addr, DecodedBars)
  BY <1>1, <1>3, <1>7 DEF Placed
<1> QED
  BY <1>1, <1>3, <1>6, <1>7, <1>8 DEF RegInv

LEMMA SameBarsInv == RegInv /\ UNCHANGED barVars => RegInv'
<1> SUFFICES ASSUME RegInv, UNCHANGED barVars PROVE RegInv'
  OBVIOUS
<1>1. /\ reg' = reg /\ membase' = membase /\ made' = made /\ addr' = addr
      /\ memen' = memen /\ tidy' = tidy
  BY DEF barVars, bootVars
<1>2. DecodedBars' = DecodedBars /\ (Booting' <=> Booting)
  BY <1>1 DEF DecodedBars, Decoded, Booting, Booted
<1> QED
  BY <1>1, <1>2 DEF RegInv

LEMMA RegInvStep == RegInv /\ CfgNext => RegInv'
<1> SUFFICES ASSUME RegInv, CfgNext PROVE RegInv'
  OBVIOUS
<1>1. CASE Bars
  <2>1. CASE Boot
    BY <2>1, AllocBarInv, RegisterEcfgInv DEF Boot
  <2>2. CASE BarNext
    BY <2>2, WriteBarInv, WriteCommandInv, AccessInv, SameBarsInv DEF BarNext, Halted
  <2> QED
    BY <1>1, <2>1, <2>2 DEF Bars
<1>2. ASSUME NEW acc \in Accesses, NEW v \in Values, WriteCap(acc[1], acc[2], v) PROVE RegInv'
  BY <1>2, SameBarsInv DEF WriteCap
<1>3. ASSUME NEW lane \in 0 .. 3, NEW bytes \in {1, 2, 4}, NEW v \in Values,
             CmdstsWrite(lane, bytes, v)
      PROVE  RegInv'
  <2> DEFINE mem == IF lane = 0 THEN 1 \in v[0] ELSE memen[MsiDev]
  <2>1. MsiDev \in Devs /\ mem \in BOOLEAN
    <3>1. MsiDev \in Devs /\ memen[MsiDev] \in BOOLEAN
      BY PciCfgAssumption DEF RegInv
    <3>2. CASE lane = 0 /\ 1 \in v[0]
      BY <3>1, <3>2
    <3>3. CASE lane = 0 /\ ~ (1 \in v[0])
      BY <3>1, <3>3
    <3>4. CASE lane # 0
      BY <3>1, <3>4
    <3> QED
      BY <3>2, <3>3, <3>4
  <2>2. WriteCommand(MsiDev, mem) \/ UNCHANGED barVars
    BY <1>3 DEF CmdstsWrite
  <2> HIDE DEF mem
  <2> QED
    BY <2>1, <2>2, WriteCommandInv, SameBarsInv
<1>4. CASE Device
  BY <1>4, SameBarsInv DEF Device
<1> QED
  BY <1>1, <1>2, <1>3, <1>4 DEF CfgNext

-----------------------------------------------------------------------------
(* The pin and the capability.                                              *)
PermittedInv == LintrTypeOK /\ PinAsPermitted

CapType ==
    /\ cap \in [CapOffsets -> Byte]
    /\ msi \in [addr : Seq(Byte), data : Seq(Byte), max : Nat]
    /\ bytewise \in BOOLEAN /\ late \in BOOLEAN

CapInv == CapType /\ CapsLinked /\ MsiAsConfigured

(* pci_lintr_update after a change of what permits the pin.                 *)
LEMMA UpdatePermitted ==
  ASSUME PermittedInv, pci_lintr_update, intxdis' \in BOOLEAN, msi_enabled' \in BOOLEAN
  PROVE  PermittedInv'
  BY DEF PermittedInv, PinAsPermitted, LintrTypeOK, LintrState, pci_lintr_update,
         pci_lintr_permitted

LEMMA AssertPermitted == PermittedInv /\ pci_lintr_assert => PermittedInv'
<1> SUFFICES ASSUME PermittedInv, pci_lintr_assert PROVE PermittedInv'
  OBVIOUS
<1>1. CASE lintr = "IDLE" /\ pci_lintr_permitted
  BY <1>1 DEF pci_lintr_assert, PermittedInv, LintrTypeOK, LintrState, PinAsPermitted, pci_lintr_permitted
<1>2. CASE lintr = "IDLE" /\ ~ pci_lintr_permitted
  BY <1>2 DEF pci_lintr_assert, PermittedInv, LintrTypeOK, LintrState, PinAsPermitted, pci_lintr_permitted
<1>3. CASE lintr # "IDLE"
  BY <1>3 DEF pci_lintr_assert, PermittedInv, LintrTypeOK, LintrState, PinAsPermitted, pci_lintr_permitted
<1> QED
  BY <1>1, <1>2, <1>3

LEMMA MaxMsgnumType ==
  ASSUME NEW ctrl PROVE MaxMsgnum(ctrl) \in Nat
  BY DEF MaxMsgnum

(* The word written to message control, w, with its read-only bits kept.    *)
LEMMA ControlWord ==
  ASSUME PermittedInv, CapInv, NEW v, v[0] \in Byte, MsicapCfgwrite(2, 2, v)
  PROVE  PermittedInv' /\ CapInv'
<1> DEFINE rw == MME \cup {MSI_ENABLE}
           ctrl == (cap[2] \ rw) \cup (v[0] \cap rw)
<1>1. /\ cap' = [cap EXCEPT ![2] = ctrl]
      /\ msi' = IF MSI_ENABLE \in ctrl
                  THEN [addr |-> CfgDword(cap, 4), data |-> CfgWord(cap, MsiDataAt(ctrl)),
                        max |-> MaxMsgnum(ctrl)]
                  ELSE [msi EXCEPT !.max = 0]
      /\ MsiControlWrite(MSI_ENABLE \in ctrl)
      /\ late' = FALSE /\ bytewise' = bytewise
  BY DEF MsicapCfgwrite
<1>2. ctrl \in Byte /\ ctrl \ rw = cap[2] \ rw
  BY DEF CapInv, CapType, CapOffsets, Byte
<1>3. PermittedInv'
  BY <1>1, UpdatePermitted DEF MsiControlWrite, PermittedInv, LintrTypeOK
<1>4. cap \in [CapOffsets -> Byte] /\ {0, 1, 2, 3, 4, 5, 6, 7, 12, 13} \subseteq CapOffsets
  BY DEF CapInv, CapType, CapOffsets
<1>5. /\ cap' \in [CapOffsets -> Byte] /\ cap'[2] = ctrl
      /\ \A i \in CapOffsets : i # 2 => cap'[i] = cap[i]
  BY <1>1, <1>2, <1>4
<1> HIDE DEF ctrl
<1>6. /\ msi' \in [addr : Seq(Byte), data : Seq(Byte), max : Nat]
      /\ MSI_ENABLE \in ctrl /\ MSI_64BIT \in ctrl
           => msi'.addr = CfgDword(cap, 4) /\ msi'.data = CfgWord(cap, 12)
  <2>1. CASE MSI_ENABLE \in ctrl
    <3>1. msi' = [addr |-> CfgDword(cap, 4), data |-> CfgWord(cap, MsiDataAt(ctrl)),
                  max |-> MaxMsgnum(ctrl)]
      BY <1>1, <2>1
    <3>2. CfgDword(cap, 4) \in Seq(Byte)
      BY <1>4 DEF CfgDword
    <3>3. CfgWord(cap, 12) \in Seq(Byte) /\ CfgWord(cap, 8) \in Seq(Byte)
      BY <1>4 DEF CfgWord, CapOffsets
    <3>4. CfgWord(cap, MsiDataAt(ctrl)) \in Seq(Byte)
          /\ (MSI_64BIT \in ctrl => CfgWord(cap, MsiDataAt(ctrl)) = CfgWord(cap, 12))
      BY <3>3 DEF MsiDataAt
    <3> QED
      BY <3>1, <3>2, <3>4, MaxMsgnumType
  <2>2. CASE MSI_ENABLE \notin ctrl
    BY <1>1, <2>2 DEF CapInv, CapType
  <2> QED
    BY <2>1, <2>2
<1>7. CapType'
  BY <1>1, <1>5, <1>6 DEF CapInv, CapType
<1>8. CapsLinked'
  BY <1>5, <1>4 DEF CapInv, CapsLinked
<1>9. MsiAsConfigured'
  <2> SUFFICES ASSUME ~ bytewise
               PROVE  /\ ctrl \ rw = Mmc \cup {MSI_64BIT} /\ cap'[3] = {}
                      /\ msi_enabled' <=> MSI_ENABLE \in ctrl
                      /\ msi_enabled' /\ ~ late' =>
                            msi'.addr = CfgDword(cap', 4) /\ msi'.data = CfgWord(cap', 12)
    BY <1>1, <1>5 DEF MsiAsConfigured
  <2>1. cap[2] \ rw = Mmc \cup {MSI_64BIT} /\ cap[3] = {}
    BY DEF CapInv, MsiAsConfigured
  <2>2. MSI_64BIT \in ctrl /\ ctrl \ rw = Mmc \cup {MSI_64BIT}
    BY <1>2, <2>1
  <2>3. msi_enabled' <=> MSI_ENABLE \in ctrl
    BY <1>1 DEF MsiControlWrite
  <2>4. CfgDword(cap', 4) = CfgDword(cap, 4) /\ CfgWord(cap', 12) = CfgWord(cap, 12)
    BY <1>5, <1>4 DEF CfgDword, CfgWord, CapOffsets
  <2>5. cap'[3] = {}
    BY <1>5, <1>4, <2>1
  <2> QED
    BY <1>6, <2>2, <2>3, <2>4, <2>5
<1> QED
  BY <1>3, <1>7, <1>8, <1>9 DEF CapInv

(* A write of another form or place: the capability's bytes only.           *)
LEMMA OtherBytes ==
  ASSUME PermittedInv, CapInv, NEW off \in CapOffsets, off >= 2, NEW bytes \in {1, 2, 4},
         off % bytes = 0, ~ (off = 2 /\ bytes = 2),
         NEW v \in [0 .. 3 -> Byte], MsicapCfgwrite(off, bytes, v)
  PROVE  PermittedInv' /\ CapInv'
<1>1. /\ cap' = Put(off, bytes, v)
      /\ bytewise' = (bytewise \/ off \in {2, 3}) /\ late' = (late \/ off >= 4)
      /\ msi' = msi /\ lintrVars' = lintrVars
  BY DEF MsicapCfgwrite
<1>2. PermittedInv'
  BY <1>1 DEF PermittedInv, LintrTypeOK, PinAsPermitted, pci_lintr_permitted, lintrVars
<1>3. /\ cap \in [CapOffsets -> Byte] /\ {0, 1, 2, 3} \subseteq CapOffsets
      /\ off \in Nat
  BY DEF CapInv, CapType, CapOffsets
<1>4. cap' \in [CapOffsets -> Byte]
  BY <1>1, <1>3 DEF Put
<1>5. \A i \in CapOffsets : i < off => cap'[i] = cap[i]
  BY <1>1, <1>3 DEF Put, CapOffsets
<1>6. CapType'
  BY <1>1, <1>4 DEF CapInv, CapType
<1>7. CapsLinked'
  BY <1>3, <1>5 DEF CapInv, CapsLinked
<1>8. MsiAsConfigured'
  <2> SUFFICES ASSUME ~ bytewise' PROVE MsiAsConfigured'
    BY DEF MsiAsConfigured
  <2>0. ~ bytewise /\ ~ (off \in {2, 3})
    BY <1>1, Zenon
  <2>1. ~ bytewise /\ off >= 4 /\ late'
    <3>1. off >= 4
      BY <1>3, <2>0
    <3>2. late'
      BY <1>1, <3>1, Zenon
    <3> QED
      BY <2>0, <3>1, <3>2
  <2>2. cap'[2] = cap[2] /\ cap'[3] = cap[3] /\ msi_enabled' = msi_enabled
    BY <1>1, <1>3, <1>5, <2>1 DEF lintrVars
  <2> QED
    BY <2>1, <2>2 DEF MsiAsConfigured, CapInv
<1> QED
  BY <1>2, <1>6, <1>7, <1>8 DEF CapInv

(* pci_emul_capwrite.                                                       *)
LEMMA WriteCapInv ==
  ASSUME PermittedInv, CapInv, NEW acc \in Accesses, NEW v \in Values,
         WriteCap(acc[1], acc[2], v)
  PROVE  PermittedInv' /\ CapInv'
<1> DEFINE off == acc[1]
           bytes == acc[2]
<1>1. off \in CapOffsets /\ bytes \in {1, 2, 4} /\ v \in [0 .. 3 -> Byte]
  BY PciCfgAssumption
<1>2. off % bytes = 0 /\ Capwrite(off, bytes, v)
  BY DEF WriteCap
<1> HIDE DEF off, bytes
<1>3. CASE off = 0 /\ bytes = 4
  <2> DEFINE w == [i \in 0 .. 1 |-> v[i + 2]]
  <2>1. MsicapCfgwrite(2, 2, w)
    BY <1>2, <1>3 DEF Capwrite
  <2>2. w[0] \in Byte
    BY <1>1
  <2> HIDE DEF w
  <2> QED
    BY <2>1, <2>2, ControlWord
<1>4. CASE off \in {0, 1} /\ ~ (off = 0 /\ bytes = 4)
  <2>1. UNCHANGED <<capVars, lintrVars>>
    BY <1>2, <1>4 DEF Capwrite
  <2> QED
    BY <2>1 DEF capVars, lintrVars, PermittedInv, LintrTypeOK, PinAsPermitted, pci_lintr_permitted,
                CapInv, CapType, CapsLinked, MsiAsConfigured
<1>5. CASE off = 2 /\ bytes = 2
  <2>1. MsicapCfgwrite(2, 2, v)
    BY <1>2, <1>5 DEF Capwrite
  <2>2. v[0] \in Byte
    BY <1>1
  <2> QED
    BY <2>1, <2>2, ControlWord
<1>6. CASE off \notin {0, 1} /\ ~ (off = 2 /\ bytes = 2)
  <2>1. MsicapCfgwrite(off, bytes, v)
    BY <1>2, <1>6 DEF Capwrite
  <2>2. off >= 2
    BY <1>1, <1>6 DEF CapOffsets
  <2> QED
    BY <1>1, <1>2, <1>6, <2>1, <2>2, OtherBytes
<1> QED
  BY <1>3, <1>4, <1>5, <1>6

LEMMA SameCap == CapInv /\ UNCHANGED <<capVars, msi_enabled>> => CapInv'
  BY DEF CapInv, CapType, CapsLinked, MsiAsConfigured, capVars

LEMMA SamePermitted == PermittedInv /\ UNCHANGED lintrVars => PermittedInv'
  BY DEF lintrVars, PermittedInv, LintrTypeOK, PinAsPermitted, pci_lintr_permitted

LEMMA CapInvStep ==
  RegInv /\ PermittedInv /\ CapInv /\ CfgNext => PermittedInv' /\ CapInv'
<1> SUFFICES ASSUME RegInv, PermittedInv, CapInv, CfgNext PROVE PermittedInv' /\ CapInv'
  OBVIOUS
<1>1. CASE Bars
  BY <1>1, SameCap, SamePermitted DEF Bars, lintrVars
<1>2. ASSUME NEW acc \in Accesses, NEW v \in Values, WriteCap(acc[1], acc[2], v)
      PROVE  PermittedInv' /\ CapInv'
  BY <1>2, WriteCapInv
<1>3. ASSUME NEW lane \in 0 .. 3, NEW bytes \in {1, 2, 4}, NEW v \in Values,
             CmdstsWrite(lane, bytes, v)
      PROVE  PermittedInv' /\ CapInv'
  <2> DEFINE dis == IF lane <= 1 /\ 1 < lane + bytes THEN 2 \in v[1 - lane] ELSE intxdis
  <2>1. CommandWrite(dis) /\ UNCHANGED capVars
    BY <1>3 DEF CmdstsWrite
  <2>2. dis \in BOOLEAN
    <3>1. intxdis \in BOOLEAN
      BY DEF PermittedInv, LintrTypeOK
    <3>2. CASE lane <= 1 /\ 1 < lane + bytes /\ 2 \in v[1 - lane]
      BY <3>2
    <3>3. CASE lane <= 1 /\ 1 < lane + bytes /\ ~ (2 \in v[1 - lane])
      BY <3>3
    <3>4. CASE ~ (lane <= 1 /\ 1 < lane + bytes)
      BY <3>1, <3>4
    <3> QED
      BY <3>2, <3>3, <3>4
  <2> HIDE DEF dis
  <2>3. intxdis' = dis /\ msi_enabled' = msi_enabled /\ pci_lintr_update
    BY <2>1 DEF CommandWrite
  <2>4. msi_enabled \in BOOLEAN
    BY DEF PermittedInv, LintrTypeOK
  <2> QED
    BY <2>1, <2>2, <2>3, <2>4, UpdatePermitted, SameCap
<1>4. CASE Device
  <2>1. CapInv'
    BY <1>4, SameCap DEF Device, pci_lintr_assert, pci_lintr_deassert, PlicClaim
  <2>2. PermittedInv'
    <3>1. CASE pci_lintr_assert
      BY <3>1, AssertPermitted
    <3>2. CASE pci_lintr_deassert
      BY <3>2 DEF pci_lintr_deassert, PermittedInv, LintrTypeOK, LintrState, PinAsPermitted
    <3>3. CASE PlicClaim
      BY <3>3 DEF PlicClaim, PermittedInv, LintrTypeOK, PinAsPermitted, pci_lintr_permitted
    <3> QED
      BY <1>4, <3>1, <3>2, <3>3 DEF Device
  <2> QED
    BY <2>1, <2>2
<1> QED
  BY <1>1, <1>2, <1>3, <1>4 DEF CfgNext

LEMMA CapInvInit == CfgInit => PermittedInv /\ CapInv
<1> SUFFICES ASSUME CfgInit PROVE PermittedInv /\ CapInv
  OBVIOUS
<1>1. PermittedInv
  BY DEF CfgInit, LintrInit, PermittedInv, LintrTypeOK, LintrState, PinAsPermitted, pci_lintr_permitted
<1>2. Msicap \in [0 .. 13 -> Byte] /\ Msicap[2] = Mmc \cup {MSI_64BIT} /\ Msicap[3] = {}
  BY PciCfgAssumption DEF Msicap, Byte, PCIY_MSI, MSI_64BIT
<1>3. DOMAIN Msicap = 0 .. 13
  BY DEF Msicap
<1>4. AddMsicap \in [CapOffsets -> Byte] /\ AddMsicap[2] = Mmc \cup {MSI_64BIT} /\ AddMsicap[3] = {}
  <2> HIDE DEF Msicap
  <2>1. {} \in Byte
    BY DEF Byte
  <2> QED
    BY <1>2, <1>3, <2>1 DEF AddMsicap, AddCapability, CapOffsets
<1>5. cap = AddMsicap /\ msi = NoMsi /\ bytewise = FALSE /\ late = FALSE /\ msi_enabled = FALSE
  BY DEF CfgInit, LintrInit
<1>6. NoMsi \in [addr : Seq(Byte), data : Seq(Byte), max : Nat]
  BY DEF NoMsi, Byte
<1>7. (Mmc \cup {MSI_64BIT}) \ (MME \cup {MSI_ENABLE}) = Mmc \cup {MSI_64BIT}
      /\ MSI_ENABLE \notin Mmc \cup {MSI_64BIT}
  BY PciCfgAssumption DEF MME, MSI_ENABLE, MSI_64BIT
<1> HIDE DEF AddMsicap
<1>8. MsiAsConfigured
  BY <1>4, <1>5, <1>7 DEF MsiAsConfigured
<1> QED
  BY <1>1, <1>4, <1>5, <1>6, <1>8 DEF CapInv, CapType, CapsLinked

LEMMA GuestStep == guest \in Guests /\ CfgNext => guest' \in Guests
  BY DEF CfgNext, Bars, WriteCap, CmdstsWrite, Device

LEMMA CfgInvParts ==
  RegInv /\ PermittedInv /\ CapInv /\ guest \in Guests <=>
      CfgInv /\ TreeIsDecoded /\ MsiAsConfigured
  BY RegInvParts DEF CfgInv, CfgTypeOK, CapInv, CapType, PermittedInv

(* An access goes where the tree says, also by the cache.                   *)
LEMMA RoutedInTree ==
  ASSUME RegInv, ~ reg.halted, NEW a \in Window, NEW r \in Routed(reg, a)
  PROVE  r.bar # ECFG /\ Decoded(r.bar) /\ In(a, RangeAt(r.bar, addr[r.bar]))
<1>1. Cached(reg) /\ Placed(reg, addr, DecodedBars)
  BY DEF RegInv, RegOK
<1>2. r \in reg.tree /\ In(a, r)
  BY <1>1 DEF Routed, Lookup, Cached
<1>3. Decoded(r.bar) /\ r = RangeAt(r.bar, addr[r.bar])
  BY <1>1, <1>2 DEF Placed, DecodedBars
<1>4. ASSUME r.bar = ECFG PROVE FALSE
  <2>1. addr[ECFG] = EcfgBase
    BY <1>3, <1>4 DEF RegInv, Booting, Decoded
  <2>2. ECFG \in Regions /\ EcfgBase \in Nat /\ a \in Nat /\ a < EcfgBase
    BY PciBarAssumption DEF Regions
  <2>3. r.base = EcfgBase
    BY <1>3, <1>4, <2>1, <2>2, RangeAtType
  <2> QED
    BY <1>2, <2>2, <2>3 DEF In
<1> QED
  BY <1>2, <1>3, <1>4

-----------------------------------------------------------------------------
AllInv == RegInv /\ PermittedInv /\ CapInv /\ guest \in Guests

LEMMA AllInvInit == CfgInit => AllInv
  BY RegInvInit, CapInvInit DEF CfgInit, AllInv

LEMMA AllInvStep == AllInv /\ [CfgNext]_cfgVars => AllInv'
<1>1. AllInv /\ CfgNext => AllInv'
  BY RegInvStep, CapInvStep, GuestStep DEF AllInv
<1>2. AllInv /\ UNCHANGED cfgVars => AllInv'
  BY SameBarsInv, SamePermitted, SameCap DEF AllInv, cfgVars, lintrVars
<1> QED
  BY <1>1, <1>2

LEMMA AllInvAlways == CfgSpec => []AllInv
  BY AllInvInit, AllInvStep, PTL DEF CfgSpec

(* The registry, its cache, the capability list and the pin stay consistent *)
(* under any order and size of configuration writes (pci_cfgrw,             *)
(* pci_emul_capwrite, pci_emul_cmdsts_write, mem.c), for any functions and  *)
(* any sizes of BARs, whether or not the guest keeps them apart.            *)
THEOREM ConfigurationConsistent == CfgSpec => []CfgInv
<1>1. AllInv => CfgInv
  BY CfgInvParts DEF AllInv
<1> QED
  BY <1>1, AllInvAlways, PTL

(* While the guest keeps its decoded BARs apart and out of the range        *)
(* "PCI ECFG", no assertion of modify_bar_registration fails and the tree   *)
(* holds exactly the decoded BARs, from their allocation by init_pci on,    *)
(* and that range, from its registration on.                                *)
THEOREM DecodedExactly == CfgSpec => []TreeIsDecoded
<1>1. AllInv => TreeIsDecoded
  BY CfgInvParts DEF AllInv
<1> QED
  BY <1>1, AllInvAlways, PTL

(* What access_memory finds, in mmio_hint or in the tree, is a BAR that     *)
(* decodes the address now: the assertion of pci_emul_mem_handler holds.    *)
THEOREM NoStaleRouting == CfgSpec => []RoutedToDecoder
<1>1. AllInv => RoutedToDecoder
  BY RoutedInTree DEF AllInv, RoutedToDecoder
<1> QED
  BY <1>1, AllInvAlways, PTL

(* What msicap_cfgwrite has taken over is what the capability says, as long *)
(* as the guest writes message control as a word.                           *)
THEOREM MsiFollowsCapability == CfgSpec => []MsiAsConfigured
<1>1. AllInv => MsiAsConfigured
  BY CfgInvParts DEF AllInv
<1> QED
  BY <1>1, AllInvAlways, PTL

-----------------------------------------------------------------------------
(* The AHCI controller's interrupts.                                        *)

(* What is true of the flag and the pin, whoever changes them.              *)
PinInv == LintrTypeOK /\ sc_lintr \in BOOLEAN /\ FlagIsPin

(* The two calls of pci_lintr_assert and _deassert keep flag and pin equal. *)
LEMMA LintrOnPin == PinInv /\ LintrOn => PinInv' /\ sc_lintr'
<1> SUFFICES ASSUME PinInv, LintrOn PROVE PinInv' /\ sc_lintr'
  OBVIOUS
<1>1. CASE sc_lintr
  BY <1>1 DEF LintrOn, PinInv, LintrTypeOK, FlagIsPin, lintrVars
<1>2. CASE ~ sc_lintr
  BY <1>2 DEF LintrOn, pci_lintr_assert, PinInv, LintrTypeOK, LintrState, FlagIsPin
<1> QED
  BY <1>1, <1>2

LEMMA LintrOffPin == PinInv /\ LintrOff => PinInv' /\ ~ sc_lintr'
<1> SUFFICES ASSUME PinInv, LintrOff PROVE PinInv' /\ ~ sc_lintr'
  OBVIOUS
<1>1. CASE sc_lintr
  BY <1>1 DEF LintrOff, pci_lintr_deassert, PinInv, LintrTypeOK, LintrState, FlagIsPin
<1>2. CASE ~ sc_lintr
  BY <1>2 DEF LintrOff, PinInv, LintrTypeOK, FlagIsPin, lintrVars
<1> QED
  BY <1>1, <1>2

LEMMA SamePin == PinInv /\ UNCHANGED <<sc_lintr, lintrVars>> => PinInv'
  BY DEF PinInv, LintrTypeOK, FlagIsPin, lintrVars

(* pci_lintr_update moves the pin between asserted and held back only.      *)
LEMMA UpdatePin ==
  ASSUME PinInv, pci_lintr_update, UNCHANGED sc_lintr,
         intxdis' \in BOOLEAN, msi_enabled' \in BOOLEAN
  PROVE  PinInv'
  BY DEF PinInv, LintrTypeOK, LintrState, FlagIsPin, pci_lintr_update

(* The state of the ports, without the pin and the handler.                 *)
PortsInv ==
    /\ PxIS \in [Port -> SUBSET Causes] /\ PxIE \in [Port -> SUBSET Causes]
    /\ IS \in SUBSET Port /\ IE \in BOOLEAN /\ nmsg \in MsgCounts \cup {0}
    /\ GlobalCoversPorts

LEMMA Parts == IInv <=> PinInv /\ PortsInv /\ isr \in Isr
  BY DEF IInv, TypeOK, PinInv, PortsInv

(* ahci_port_intr after a change of one port's PxIS or PxIE.                *)
LEMMA PortIntrStep ==
  ASSUME PinInv, PortsInv, NEW p \in Port, PortIntr(p), UNCHANGED <<IE, nmsg>>,
         NEW S \in SUBSET Causes, NEW T \in SUBSET Causes,
         PxIS' = [PxIS EXCEPT ![p] = S], PxIE' = [PxIE EXCEPT ![p] = T]
  PROVE  PinInv' /\ PortsInv' /\ (PinUp => PinUp')
<1>1. CASE PxIS'[p] \cap PxIE'[p] = {}
  <2>1. IS' = IS /\ sc_lintr' = sc_lintr /\ UNCHANGED lintrVars
    BY <1>1 DEF PortIntr
  <2>2. PortsInv'
    BY <1>1, <2>1 DEF PortsInv, GlobalCoversPorts, Enabled
  <2> QED
    BY <2>1, <2>2, SamePin DEF PinUp
<1>2. CASE PxIS'[p] \cap PxIE'[p] # {}
  <2>1. IS' = IS \cup {p}
    BY <1>2 DEF PortIntr
  <2>2. PortsInv'
    BY <2>1 DEF PortsInv, GlobalCoversPorts, Enabled
  <2>3. CASE nmsg = 0 /\ p \notin IS /\ IE
    <3>1. LintrOn
      BY <1>2, <2>3 DEF PortIntr
    <3> QED
      BY <3>1, <2>2, LintrOnPin DEF PinUp
  <2>4. CASE ~ (nmsg = 0 /\ p \notin IS /\ IE)
    <3>1. UNCHANGED <<sc_lintr, lintrVars>>
      BY <1>2, <2>4 DEF PortIntr
    <3>2. PinInv'
      BY <3>1, SamePin
    <3>3. PinUp => PinUp'
      BY <3>1, <2>1, <2>4 DEF PinUp
    <3> QED
      BY <3>2, <3>3, <2>2
  <2> QED
    BY <2>3, <2>4
<1> QED
  BY <1>1, <1>2

(* ahci_generate_intr after a write of IS or GHC.                           *)
LEMMA GenerateIntrStep ==
  ASSUME PinInv, PortsInv, NEW is \in SUBSET Port, NEW ie \in BOOLEAN,
         GenerateIntr(is, ie), IE' = ie, UNCHANGED <<PxIS, PxIE, nmsg>>
  PROVE  PinInv' /\ PortsInv' /\ PinUp'
<1> DEFINE now == is \cup {p \in Port : PxIS[p] \cap PxIE[p] # {}}
<1>1. IS' = now
  BY DEF GenerateIntr
<1>2. PortsInv'
  BY <1>1 DEF PortsInv, GlobalCoversPorts, Enabled
<1>3. CASE now = {} \/ ~ ie
  <2>1. LintrOff
    BY <1>3 DEF GenerateIntr
  <2> QED
    BY <2>1, <1>1, <1>2, <1>3, LintrOffPin DEF PinUp
<1>4. CASE now # {} /\ ie /\ nmsg = 0
  <2>1. LintrOn
    BY <1>4 DEF GenerateIntr
  <2> QED
    BY <2>1, <1>2, LintrOnPin DEF PinUp
<1>5. CASE now # {} /\ ie /\ nmsg # 0
  <2>1. UNCHANGED <<sc_lintr, lintrVars>>
    BY <1>5 DEF GenerateIntr
  <2>2. PinInv'
    BY <2>1, SamePin
  <2> QED
    BY <2>2, <1>2, <1>5 DEF PinUp
<1> QED
  BY <1>3, <1>4, <1>5

-----------------------------------------------------------------------------
(* The state after pci_ahci_init.                                           *)
LEMMA InitIInv == Init => IInv
<1> SUFFICES ASSUME Init PROVE IInv
  OBVIOUS
<1>1. LintrTypeOK /\ sc_lintr \in BOOLEAN /\ FlagIsPin
  BY DEF Init, LintrInit, LintrTypeOK, LintrState, FlagIsPin
<1>2. PxIS \in [Port -> SUBSET Causes] /\ PxIE \in [Port -> SUBSET Causes]
  BY DEF Init
<1>3. IS \in SUBSET Port /\ IE \in BOOLEAN /\ nmsg \in MsgCounts \cup {0}
  BY DEF Init
<1>4. GlobalCoversPorts
  BY DEF Init, GlobalCoversPorts, Enabled
<1>5. isr \in Isr
  BY DEF Init, IsrIdle, Isr
<1> QED
  BY <1>1, <1>2, <1>3, <1>4, <1>5, Parts DEF PinInv, PortsInv

(* Every step keeps the invariant, and every step but a write of the MSI    *)
(* control keeps the pin up.                                                *)
LEMMA Step ==
  ASSUME IInv, [Next]_vars
  PROVE  IInv' /\ (PinUp => PinUp' \/ \E n \in MsgCounts : GuestMsi(n))
<1> DEFINE Goal == IInv' /\ (PinUp => PinUp' \/ \E n \in MsgCounts : GuestMsi(n))
<1>0. PinInv /\ PortsInv /\ isr \in Isr
  BY Parts
<1>00. ASSUME PinInv', PortsInv', isr' \in Isr, PinUp => PinUp' PROVE Goal
  BY <1>00, Parts DEF IInv, TypeOK, PinInv, PortsInv
<1>1. ASSUME NEW p \in Port, NEW irq \in SUBSET Causes \ {{}}, PortEvent(p, irq)
      PROVE  Goal
  <2>1. /\ PxIS' = [PxIS EXCEPT ![p] = PxIS[p] \cup irq]
        /\ PxIE' = [PxIE EXCEPT ![p] = PxIE[p]]
        /\ PxIS[p] \cup irq \in SUBSET Causes /\ PxIE[p] \in SUBSET Causes
    BY <1>1, <1>0 DEF PortEvent, PortsInv
  <2>2. PortIntr(p) /\ UNCHANGED <<IE, nmsg, isr>>
    BY <1>1 DEF PortEvent
  <2>3. PinInv' /\ PortsInv' /\ (PinUp => PinUp')
    BY <1>0, <2>1, <2>2, PortIntrStep
  <2> QED
    BY <1>0, <1>00, <2>2, <2>3
<1>2. ASSUME NEW p \in Port, NEW val \in SUBSET Causes, WritePxIE(p, val)
      PROVE  Goal
  <2>1. /\ PxIE' = [PxIE EXCEPT ![p] = val]
        /\ PxIS' = [PxIS EXCEPT ![p] = PxIS[p]]
        /\ PxIS[p] \in SUBSET Causes
    BY <1>2, <1>0 DEF WritePxIE, PortsInv
  <2>2. PortIntr(p) /\ UNCHANGED <<IE, nmsg, isr>>
    BY <1>2 DEF WritePxIE
  <2>3. PinInv' /\ PortsInv' /\ (PinUp => PinUp')
    BY <1>0, <2>1, <2>2, PortIntrStep
  <2> QED
    BY <1>0, <1>00, <2>2, <2>3
<1>3. ASSUME NEW ie \in BOOLEAN, WriteGHC(ie) PROVE Goal
  <2>1. IE' = ie /\ GenerateIntr(IS, ie) /\ UNCHANGED <<PxIS, PxIE, nmsg, isr>>
    BY <1>3 DEF WriteGHC
  <2>2. IS \in SUBSET Port
    BY <1>0 DEF PortsInv
  <2>3. PinInv' /\ PortsInv' /\ PinUp'
    BY <1>0, <2>1, <2>2, GenerateIntrStep
  <2> QED
    BY <1>0, <1>00, <2>1, <2>3
<1>4. CASE HbaReset
  <2>1. PinInv' /\ ~ sc_lintr'
    BY <1>0, <1>4, LintrOffPin DEF HbaReset
  <2>2. PortsInv' /\ PinUp'
    BY <1>0, <1>4 DEF HbaReset, PortsInv, GlobalCoversPorts, Enabled, PinUp
  <2> QED
    BY <1>0, <1>00, <1>4, <2>1, <2>2 DEF HbaReset
<1>5. ASSUME NEW dis \in BOOLEAN, GuestCommand(dis) PROVE Goal
  <2>1. /\ pci_lintr_update /\ intxdis' \in BOOLEAN /\ msi_enabled' \in BOOLEAN
        /\ UNCHANGED <<ahciVars, isr>>
    BY <1>0, <1>5 DEF GuestCommand, CommandWrite, PinInv, LintrTypeOK
  <2>2. PinInv'
    BY <1>0, <2>1, UpdatePin DEF ahciVars
  <2>3. PortsInv' /\ (PinUp => PinUp')
    BY <1>0, <2>1 DEF ahciVars, PortsInv, GlobalCoversPorts, Enabled, PinUp
  <2> QED
    BY <1>0, <1>00, <2>1, <2>2, <2>3
<1>6. ASSUME NEW n \in MsgCounts, GuestMsi(n) PROVE Goal
  <2>1. /\ pci_lintr_update /\ intxdis' \in BOOLEAN /\ msi_enabled' \in BOOLEAN
        /\ UNCHANGED sc_lintr
    BY <1>0, <1>6 DEF GuestMsi, MsiControlWrite, PinInv, LintrTypeOK
  <2>2. PinInv'
    BY <1>0, <2>1, UpdatePin
  <2>3. PortsInv' /\ isr' \in Isr
    BY <1>0, <1>6 DEF GuestMsi, PortsInv, GlobalCoversPorts, Enabled
  <2> QED
    BY <1>6, <2>2, <2>3 DEF IInv, TypeOK, PinInv, PortsInv
<1>7. CASE IsrEnter
  <2>1. PinInv'
    BY <1>0, <1>7 DEF IsrEnter, PlicClaim, ahciVars, PinInv, LintrTypeOK, FlagIsPin
  <2>2. PortsInv' /\ (PinUp => PinUp') /\ isr' \in Isr
    BY <1>0, <1>7 DEF IsrEnter, ahciVars, PortsInv, GlobalCoversPorts, Enabled, PinUp,
       IsrIdle, Isr
  <2> QED
    BY <1>00, <2>1, <2>2
<1>8. ASSUME UNCHANGED <<ahciVars, lintrVars>>, isr' \in Isr PROVE Goal
  <2>1. PinInv'
    BY <1>0, <1>8, SamePin DEF ahciVars
  <2>2. PortsInv' /\ (PinUp => PinUp')
    BY <1>0, <1>8 DEF ahciVars, PortsInv, GlobalCoversPorts, Enabled, PinUp
  <2> QED
    BY <1>00, <1>8, <2>1, <2>2
<1>9. CASE IsrReadIS
  <2>1. isr' \in Isr
    BY <1>0, <1>9 DEF IsrReadIS, IsrIdle, Isr, PortsInv
  <2> QED
    BY <1>8, <1>9, <2>1 DEF IsrReadIS
<1>10. ASSUME NEW p \in Port, IsrReadPxIS(p) PROVE Goal
  <2>1. isr' \in Isr
    BY <1>0, <1>10 DEF IsrReadPxIS, Isr, PortsInv
  <2> QED
    BY <1>8, <1>10, <2>1 DEF IsrReadPxIS
<1>11. ASSUME NEW p \in Port, IsrClearPxIS(p) PROVE Goal
  <2>1. isr.val \in SUBSET Causes /\ isr' \in Isr
    BY <1>0, <1>11 DEF IsrClearPxIS, Isr
  <2>2. /\ PxIS' = [PxIS EXCEPT ![p] = PxIS[p] \ isr.val]
        /\ PxIE' = [PxIE EXCEPT ![p] = PxIE[p]]
        /\ PxIS[p] \ isr.val \in SUBSET Causes /\ PxIE[p] \in SUBSET Causes
    BY <1>0, <1>11 DEF IsrClearPxIS, ClearPxIS, PortsInv
  <2>3. PortIntr(p) /\ UNCHANGED <<IE, nmsg>>
    BY <1>11 DEF IsrClearPxIS, ClearPxIS
  <2>4. PinInv' /\ PortsInv' /\ (PinUp => PinUp')
    BY <1>0, <2>2, <2>3, PortIntrStep
  <2> QED
    BY <1>00, <2>1, <2>4
<1>12. CASE IsrClearIS
  <2>1. isr' \in Isr /\ IS \ isr.seen \in SUBSET Port /\ IE \in BOOLEAN
    BY <1>0, <1>12 DEF IsrClearIS, IsrIdle, Isr, PortsInv
  <2>2. /\ GenerateIntr(IS \ isr.seen, IE)
        /\ IE' = IE /\ UNCHANGED <<PxIS, PxIE, nmsg>>
    BY <1>12 DEF IsrClearIS, ClearIS
  <2>3. PinInv' /\ PortsInv' /\ PinUp'
    BY <1>0, <2>1, <2>2, GenerateIntrStep
  <2> QED
    BY <1>00, <2>1, <2>3
<1>13. CASE UNCHANGED vars
  BY <1>0, <1>8, <1>13 DEF vars
<1> QED
  BY <1>1, <1>2, <1>3, <1>4, <1>5, <1>6, <1>7, <1>9, <1>10, <1>11, <1>12, <1>13
  DEF Next

-----------------------------------------------------------------------------
(* In every reachable state the global IS covers the ports with an enabled  *)
(* cause (ahci_port_intr, ahci_generate_intr) and sc->lintr is the pin.     *)
THEOREM Inductive == Spec => []IInv
<1>1. Init => IInv
  BY InitIInv
<1>2. IInv /\ [Next]_vars => IInv'
  BY Step
<1> QED
  BY <1>1, <1>2, PTL DEF Spec

(* With MSI off, nothing but a write of the MSI control takes the pin down  *)
(* while an enabled IS is set: not an event, a write-back or a reset that   *)
(* comes between two steps of the guest's handler.                          *)
THEOREM OnlyMsiDropsThePin == Spec => PinStaysUp
<1>1. IInv /\ [Next]_vars => [PinUp => PinUp' \/ \E n \in MsgCounts : GuestMsi(n)]_vars
  BY Step
<1> QED
  BY <1>1, Inductive, PTL DEF Spec, PinStaysUp
===============================================================================
