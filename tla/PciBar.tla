-------------------------------- MODULE PciBar --------------------------------
(***************************************************************************)
(* Which device an access of the guest reaches: the memory BARs of the PCI  *)
(* functions and the extended configuration window (bhyve/pci_emul.c), the  *)
(* tree of registered ranges with its one-entry cache mmio_hint             *)
(* (bhyve/mem.c), and src/emul_pci.c, which takes an address no range       *)
(* claims for one of the configuration space.                               *)
(*                                                                         *)
(* The state of the registry is one record; an operator on it models one C  *)
(* function.  A range in the tree keeps the base and the BAR it was         *)
(* registered with, whatever the BAR holds by then.  The "PCI ECFG" range,  *)
(* which is in the same tree, is treated as a BAR of no function: it is     *)
(* registered last, is always decoded and never moves.                      *)
(***************************************************************************)
EXTENDS Integers, SequencesExt

CONSTANTS
    Devs,       \* the PCI functions
    BarsOf,     \* BarsOf[d] is the sequence of d's memory BARs, by index
    Size,       \* Size[b] is the size of BAR b, Size[ECFG] PCI_EMUL_ECFG_SIZE
    MemBase,    \* where pci_emul_membase32 starts
    EcfgBase,   \* PCI_EMUL_ECFG_BASE, which is PCI_EMUL_MEMLIMIT32, too
    CfgAddr,    \* the addresses of the functions' configuration space
    Window,     \* the addresses whose accesses dm_request gives to emul_pci
    Addrs       \* addresses the guest writes into BARs

PCI_BARMAX == 5   \* the index of the last BAR

AllBars == UNION {Range(BarsOf[d]) : d \in Devs}
Owner(b) == CHOOSE d \in Devs : b \in Range(BarsOf[d])

ECFG == "PCI ECFG"                \* mr.name of the immutable range
Regions == AllBars \cup {ECFG}    \* all that can be registered

ASSUME PciBarAssumption ==
    /\ \A d \in Devs : /\ BarsOf[d] \in Seq(AllBars) /\ Len(BarsOf[d]) <= PCI_BARMAX + 1
                       /\ IsInjective(BarsOf[d])
    /\ ECFG \notin AllBars
    /\ \A b \in Regions : Size[b] \in Nat \ {0}
    /\ MemBase \in Nat /\ EcfgBase \in Nat /\ MemBase <= EcfgBase
    /\ CfgAddr \in Window /\ Window \subseteq Nat /\ Addrs \subseteq Nat
    /\ \A a \in Window : a < EcfgBase
    /\ \A d, e \in Devs : d # e => Range(BarsOf[d]) \cap Range(BarsOf[e]) = {}

VARIABLES
    membase, \* pci_emul_membase32
    made,    \* the BARs that have been allocated, and ECFG once registered
    addr,    \* pi_bar[].addr, and mr.base of ECFG
    memen,   \* PCIM_CMD_MEMEN of the command register
    reg,     \* mmio_rb_root, mmio_hint, and whether an assertion has failed
    tidy     \* history: the guest has kept decoded BARs apart so far

bootVars == <<membase, made>>
barVars == <<bootVars, addr, memen, reg, tidy>>

(* struct mmio_rb_range for BAR b, or ECFG, at base a.                      *)
RangeAt(b, a) == [bar |-> b, base |-> a, end |-> a + Size[b] - 1]
In(a, r) == r.base <= a /\ a <= r.end

AnyRange == [bar : Regions, base : Nat, end : Nat]

(* mmio_rb_range_compare does not put a before or after b.                  *)
Overlaps(a, b) == ~ (a.end < b.base \/ a.base > b.end)

-----------------------------------------------------------------------------
(* mmio_rb_lookup, as the set of at most one range.                         *)
Lookup(tree, a) == {r \in tree : In(a, r)}

(* register_mem, for modify_bar_registration.  A base inside a registered   *)
(* range is not an error and registers nothing; any other overlap is EEXIST *)
(* and fails the assertion.                                                 *)
Register(g, b, a) ==
    IF g.halted \/ Lookup(g.tree, a) # {} THEN g
    ELSE IF \E r \in g.tree : Overlaps(r, RangeAt(b, a)) THEN [g EXCEPT !.halted = TRUE]
    ELSE [g EXCEPT !.tree = @ \cup {RangeAt(b, a)}]

UnregisterKeepsHint(g, b, a) ==   \* mutant: the cache is not flushed
    [g EXCEPT !.tree = @ \ {RangeAt(b, a)}]

(* unregister_mem: the range found at the base has to have the function's   *)
(* name and the BAR's base and size, or an assertion fails.                 *)
SameParam(r, b, a) ==
    /\ r.bar # ECFG /\ Owner(r.bar) = Owner(b)
    /\ r.base = a /\ r.end = RangeAt(b, a).end

Unregister(g, b, a) ==
    LET found == Lookup(g.tree, a) IN
    IF g.halted THEN g
    ELSE IF found = {} \/ \E r \in found : ~ SameParam(r, b, a)
           THEN [g EXCEPT !.halted = TRUE]
    ELSE [g EXCEPT !.tree = @ \ found, !.hint = @ \ found]

(* access_memory: the range an address is routed to, and the cache after.   *)
Routed(g, a) ==
    IF \E r \in g.hint : In(a, r) THEN g.hint ELSE Lookup(g.tree, a)

AccessHint(g, a) == [g EXCEPT !.hint = IF Routed(g, a) = {} THEN @ ELSE Routed(g, a)]

-----------------------------------------------------------------------------
(* init_pci, before the first device is initialised.                        *)
BarInit ==
    /\ membase = MemBase /\ made = {}
    /\ addr = [b \in Regions |-> 0]
    /\ memen = [d \in Devs |-> TRUE]
    /\ reg = [tree |-> {}, hint |-> {}, halted |-> FALSE]
    /\ tidy = TRUE

BarTypeOK ==
    /\ membase \in Nat /\ made \subseteq Regions
    /\ addr \in [Regions -> Nat]
    /\ memen \in [Devs -> BOOLEAN]
    /\ reg \in [tree : SUBSET AnyRange, hint : SUBSET AnyRange, halted : BOOLEAN]
    /\ \A r, q \in reg.hint : r = q
    /\ tidy \in BOOLEAN

(* init_pci initialises the functions one after the other, and each         *)
(* allocates its BARs in order.                                             *)
Due(b) ==
    LET bars(d) == Range(BarsOf[d])
        own == BarsOf[Owner(b)]
    IN /\ b \notin made
       /\ \A d \in Devs \ {Owner(b)} : bars(d) \subseteq made \/ bars(d) \cap made = {}
       /\ \A i, j \in DOMAIN own : own[i] = b /\ j < i => own[j] \in made

(* pci_emul_alloc_resource: the next address aligned to the size.           *)
RoundUp(a, size) == ((a + size - 1) \div size) * size

(* pci_emul_alloc_pbar for a 32-bit memory BAR.  Decoding is on.  The BARs  *)
(* fit below PCI_EMUL_MEMLIMIT32.                                           *)
AllocBar(b) ==
    LET a == RoundUp(membase, Size[b]) IN
    /\ Due(b)
    /\ a + Size[b] <= EcfgBase
    /\ membase' = a + Size[b]
    /\ made' = made \cup {b}
    /\ addr' = [addr EXCEPT ![b] = a]
    /\ reg' = Register(reg, b, a)
    /\ UNCHANGED <<memen, tidy>>

(* The end of init_pci.  The range is MEM_F_IMMUTABLE.                      *)
RegisterEcfg ==
    /\ made = AllBars
    /\ made' = Regions
    /\ addr' = [addr EXCEPT ![ECFG] = EcfgBase]
    /\ reg' = Register(reg, ECFG, EcfgBase)
    /\ UNCHANGED <<membase, memen, tidy>>

Booted == made = Regions

-----------------------------------------------------------------------------
Decoded(b) == b \in made /\ (b = ECFG \/ memen[Owner(b)])

Apart(b, a) ==   \* no other decoded BAR, nor ECFG, is in the way of b at a
    \A c \in Regions \ {b} : Decoded(c) => ~ Overlaps(RangeAt(c, addr[c]), RangeAt(b, a))

(* What a guest sees to that keeps its BARs apart, and out of ECFG.         *)
Clear(b, a) == Apart(b, a) /\ ~ In(CfgAddr, RangeAt(b, a))

(* An access to configuration space gets there: no BAR claims its address.  *)
Configurable == Booted /\ ~ reg.halted /\ Routed(reg, CfgAddr) = {}

UpdateForgetsOld(b, a) ==   \* mutant: the old range stays registered
    /\ addr' = [addr EXCEPT ![b] = a]
    /\ reg' = IF Decoded(b) THEN Register(reg, b, a) ELSE reg

(* update_bar_address.                                                      *)
UpdateBarAddress(b, a) ==
    /\ addr' = [addr EXCEPT ![b] = a]
    /\ reg' = IF Decoded(b) THEN Register(Unregister(reg, b, addr[b]), b, a) ELSE reg

(* pci_cfgrw, a write of a to a 32-bit memory BAR, which drops the low bits. *)
WriteBar(b, val) ==
    LET a == (val \div Size[b]) * Size[b] IN
    /\ Configurable
    /\ a # addr[b]
    /\ UpdateBarAddress(b, a)
    /\ tidy' = (tidy /\ (Decoded(b) => Clear(b, a)))
    /\ UNCHANGED <<bootVars, memen>>

(* The loop of pci_emul_cmdsts_write over the BARs of function d, from the  *)
(* first to the one with index PCI_BARMAX.                                  *)
SwitchBar(g, d, i, en) ==
    IF i \notin DOMAIN BarsOf[d] THEN g
    ELSE LET b == BarsOf[d][i]
         IN IF en THEN Register(g, b, addr[b]) ELSE Unregister(g, b, addr[b])

SwitchBars(g, d, en) ==
    LET step(h, i) == SwitchBar(h, d, i, en)
    IN step(step(step(step(step(step(g, 1), 2), 3), 4), 5), 6)

(* pci_emul_cmdsts_write where MEMEN changes.                               *)
WriteCommand(d, en) ==
    /\ Configurable
    /\ en # memen[d]
    /\ memen' = [memen EXCEPT ![d] = en]
    /\ UNCHANGED <<bootVars, addr>>
    /\ tidy' = (tidy /\ (en => \A b \in Range(BarsOf[d]) : Clear(b, addr[b])'))
    /\ reg' = SwitchBars(reg, d, en)

(* emul_pci: an access, to the range found or else to configuration space.  *)
Access(a) ==
    /\ Booted /\ ~ reg.halted
    /\ reg' = AccessHint(reg, a)
    /\ UNCHANGED <<bootVars, addr, memen, tidy>>

(* A failed assertion stops the device model.                               *)
Halted == reg.halted /\ UNCHANGED barVars

Boot == (\E b \in AllBars : AllocBar(b)) \/ RegisterEcfg

BarNext ==
    \/ \E b \in AllBars, a \in Addrs : WriteBar(b, a)
    \/ \E d \in Devs, en \in BOOLEAN : WriteCommand(d, en)
    \/ \E a \in Window : Access(a)
    \/ Halted

-----------------------------------------------------------------------------
(* A guest that keeps its BARs apart and out of the extended configuration  *)
(* window never fails an assertion, and the registry holds that window, the *)
(* ranges of the BARs that are decoded, at their present addresses, and     *)
(* nothing else, although BARs move and decoding is switched in any order.  *)
TreeIsDecoded ==
    tidy => /\ ~ reg.halted
            /\ reg.tree = {RangeAt(b, addr[b]) : b \in {c \in Regions : Decoded(c)}}

(* mmio_hint is empty or points into the tree: never to a freed range.      *)
HintIsLive == reg.hint \subseteq reg.tree

(* The ranges of the tree do not overlap, as its order needs.               *)
Separate(tree) == \A r, q \in tree : r # q => ~ Overlaps(r, q)

(* Every range is ECFG or a BAR that is decoded, at its present address.    *)
RangesInUse ==
    ~ reg.halted =>
        \A r \in reg.tree : Decoded(r.bar) /\ r = RangeAt(r.bar, addr[r.bar])

(* init_pci allocates upwards, below ECFG, with decoding on; ECFG, once     *)
(* there, stays.                                                            *)
Booting ==
    IF Booted THEN addr[ECFG] = EcfgBase
    ELSE /\ \A d \in Devs : memen[d]
         /\ ECFG \notin made /\ membase <= EcfgBase
         /\ \A b \in made : addr[b] + Size[b] <= membase

(* The inductive invariant of the registry; a guest that lets BARs overlap  *)
(* keeps it, too.                                                           *)
BarInv == BarTypeOK /\ HintIsLive /\ Separate(reg.tree) /\ RangesInUse /\ Booting

(* An access goes to a BAR that decodes its address now, cache or no cache: *)
(* pci_emul_mem_handler asserts it.                                         *)
RoutedToDecoder ==
    ~ reg.halted =>
        \A a \in Window : \A r \in Routed(reg, a) :
            r.bar # ECFG /\ Decoded(r.bar) /\ In(a, RangeAt(r.bar, addr[r.bar]))
===============================================================================
