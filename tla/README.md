# TLA+ specifications of device-model-riscv

device-model-riscv emulates PCI devices (an Intel 82545 "e1000" network card and
an AHCI disk controller) on a RISC-V core of its own, for a CheriBSD guest that
runs on another core. It is the bhyve device code, ported from a world of
threads, mutexes and kqueue events to a single bare-metal loop with a few
interrupt handlers. The port kept the code's locks and condition variables as
stubs. What makes it correct now is the *order* in which the main loop does
things, what runs with interrupts disabled, and how much of a level-triggered
interrupt survives being sent to the guest as an edge. That is what this
project specifies, model-checks with TLC and proves with TLAPS.

## 1. The system

### Main loop (`src/device-model.c`)

`dm_loop` repeats three things for ever:

1. if the guest waits on an access to the device window, serve it
   (`dm_request`, inside a critical section) and reply;
2. `e1000_poll`: with interrupts disabled, run the transmitter
   (`e82545_tx_poll`), at most a quarter of the ring;
3. `blockif_thr`: serve all queued block requests and run their callbacks, with
   interrupts on.

Two interrupt contexts preempt it outside of its critical sections: `net_intr`
(receive, then acknowledge the virtio device) and the callout
`e82545_itr_callback`. So a register access never meets another access, a
transmitter run or an interrupt handler half done; and it never meets block I/O
in flight, because the loop drains the queue first. The guest's memory (rings,
command tables) is touched by the guest's core at any moment.

`dm_request` picks PCI or IOMMU by address. `src/emul_pci.c` gives the access
to the BAR that claims the address, else to configuration space.

### Components

| component | state | operations | interacts with |
|---|---|---|---|
| legacy pin (`pci_emul.c`, `bhyve_support.c`) | pin state, INTxDIS, MSI enable | assert, deassert, update on a config write | devices call it; writes the guest's PLIC once per rising edge |
| e1000 interrupt unit (`pci_e82545.c`) | ICR, IMS, ITR, asserted flag, callout | cause set, mask/unmask, ICR read/write, reset, callout | both data paths, pin |
| e1000 transmitter | TDH, TDHr, TDT, enable/active flags, saved context; ring in guest memory | poll, transmit, write-back, enable/disable, reset | virtio backend, interrupt unit |
| e1000 receiver (with `virtio.c`) | RDH, RDT, flags; ring in guest memory | net interrupt, receive loop, RCTL, RDT, reset | virtio backend, interrupt unit |
| block interface (`block_if.c`, lock shim `pthread.c`) | element pool, pending and busy queues | submit, drain, complete, cancel | callbacks into AHCI |
| AHCI interrupts (`pci_ahci.c`) | PxIS, PxIE, IS, GHC.IE, `sc->lintr` | port event, register writes, HBA reset | command engine, pin, MSI |
| AHCI command engine | PxCI, PxSACT, pending, ccs, PxTFD, error stop, free and busy requests | issue, completion callback, stop, resets | block interface, AHCI interrupts |
| BARs (`pci_emul.c`) and MMIO registry (`mem.c`) | BAR addresses, decode bit, range tree, lookup cache | BAR write, command write, access | every access |
| configuration space (`pci_emul.c`) | command register, MSI capability, `pi_msi` | writes of 1, 2 and 4 bytes | BARs, pin |
| e1000 register file | some forty registers, address filters, multicast and VLAN tables, I/O window; ring addresses cached by the two data paths | register writes and reads, driver and device reset | all parts of the e1000 |
| e1000 EEPROM and PHY | the lines in EECD, mode, bit count, two shift registers, 64 words; MDIC | EECD and MDIC writes, reset | register file |
| AHCI data (`ahci_build_iov`, `read_prdt`, `write_prdt`) | done, more and the iovec of a request | build a part, complete it, copy PIO data | command engine, block interface |
| checksums/TSO, ATAPI, IOMMU, board code | | | not modelled (section 8) |

### What is hard

* **Interrupts.** The pin is a level in the device model, an edge outside:
  `pci_irq_deassert` is empty and `pci_irq_assert` writes the PLIC's pending
  register once. Every cause that is set while masked, throttled or already
  asserted depends on some later step looking again.
* **Callbacks that submit.** `blockif_thr` holds the lock over the completion
  callback, which submits the next part or the next command; the element being
  completed is not free yet. Sequential requests block each other.
* **Waiting that cannot end.** `pthread_cond_wait` returns at once and nobody
  signals, so every "wait until idle" loop is right only if it is never entered.
* **Rings shared with another core.** Completion is visible in memory before
  the registers move and before the interrupt.
* **Cached values.** Ring addresses, the lookup hint, `pi_msi` and the I/O
  window's offset are copies of something the guest may write again.
* **Counting.** The EEPROM counts clock edges, the AHCI code counts bytes of
  regions against sectors: off by one, everything after is shifted.
* **Resets** that leave part of the state alone and are right only because of
  what cannot be in flight then.

The list of hazards, each with its line and the properties aimed at it, is
`hazards` in `PROJECT.json`.

## 2. Modules

| module | models | kind |
|---|---|---|
| `PciLintr` | one function's legacy pin and its way to the PLIC | shared by `E82545Intr`, `AhciIntr` and `PciCfg` |
| `E82545Intr` | e1000 interrupt unit | component |
| `E82545IntrProofs` | theorems about it | proofs |
| `BlockIfAbs` | a first-in first-out server with cancellation | abstract specification |
| `BlockIf` | the block interface | component, implements `BlockIfAbs` |
| `BlockIfProofs` | theorems about it | proofs |
| `E82545TxAbs` | "frames leave in order, each once" | abstract specification |
| `E82545Tx` | e1000 transmitter | component, implements `E82545TxAbs` |
| `E82545TxProofs` | theorems about it, the refinement among them | proofs |
| `E82545Rx` | e1000 receiver with `dm_process_rx` and `net_intr` | component |
| `E82545RxProofs` | theorems about it | proofs |
| `AhciIntr` | AHCI interrupts | component |
| `AhciPort`, `MCAhciPort` | command engine of one disk port, with the loop that drains its queue; the MC module lists commands | composition |
| `AhciPrdt` | the data of one command: regions, iovec, parts | component, against the regions put end to end |
| `AhciPortProofs` | theorems about `AhciPort` and `AhciPrdt` | proofs |
| `PciBar` | BARs, registry and lookup cache | component |
| `PciCfg`, `MCPciCfg` | configuration space: BARs, command register, pin and MSI capability together; the MC module is the layout of the two devices | composes `PciBar` and `PciLintr` |
| `PciProofs` | theorems about `PciCfg` with `PciBar`, and about `AhciIntr` | proofs |
| `E82545NvmAbs` | "an EEPROM that is clocked bit by bit" | abstract specification |
| `E82545Eeprom`, `MCE82545Eeprom` | the state machine behind EECD | component, implements `E82545NvmAbs` |
| `E82545EepromProofs` | theorems about it, the refinement among them | proofs |
| `E82545Regs`, `MCE82545Regs` | the register file, the I/O window, PHY; the MC module lists kinds of guests | component |
| `E82545RegsProofs` | theorems about it | proofs |

How state and actions correspond to the code is in the header of each module,
and line by line in the `map` of `PROJECT.json`. Some conventions:

* A register with bits is a set. A C structure that many functions change
  (`struct ahci_port`, the MMIO registry) is one record, and each C function an
  operator on it; the action composes them in the order of the code.
* One action is one handler where nothing can come between (register accesses,
  the interrupt unit). Where the guest's memory is concurrent, the handler is
  cut at the points where the guest can see a difference: one step per
  `e82545_transmit`, one per turn of the receive loop, one each for the end of
  a run and the acknowledgement of the device.
* What is not in the repository is marked *external*: the guest's drivers and
  handlers, the PLIC's claim, the virtio device. Drivers are modelled as the
  e1000 and AHCI drivers the emulation serves behave: an e1000 handler reads
  ICR, an AHCI driver fills a free slot and sets PxSACT before PxCI.
* `history` variables record what was sent or done, for properties only.
* Definitions marked `mutant` are faulty variants of the definition below them.
  Each property of a passing run is violated when its mutant takes the place of
  the original.

### Abstractions worth knowing

* **Frame and disk contents** are numbers or slots; a TX frame is the sequence
  of its buffers and the offload context it is sent under. TSO and checksums
  are inside the frame.
* **A transfer in parts** is counted in `AhciPort`; how `ahci_build_iov` cuts
  it is `AhciPrdt`. There the loop over the table is in closed form: the table
  is kept as the positions where its regions end, so "skip what is done" is a
  comparison, and the pieces taken are an interval of regions. The trimming
  loop likewise keeps the pieces that begin before the cut. The reference they
  are compared with, `Table`, knows nothing of parts.
* **The e1000's registers** are sets of bit positions at their real width, so
  write masks and defaults are the code's. Starting, stopping and waiting for
  the data paths is in `E82545Tx` and `E82545Rx`.
* **The EEPROM's** width is a constant; its address check cannot fail with 64
  words and 6 address bits and is left out.
* **The BARs** are allocated one by one by `init_pci`, upwards from
  `pci_emul_membase32`; the guest comes after that. The loop over a function's
  BARs on a write of the command register has at most `PCI_BARMAX + 1` turns and
  is written as their composition.
* **Capability space** is kept by bytes. Only the AHCI function has a
  capability, and only one, so the walk of `pci_emul_capwrite` ends at once; that
  no write can change this is `CapsLinked`, a part of `CfgInv`.
* **Assertions** are compiled in: a failed one ends a behaviour in every module
  that meets one, as no build file defines `NDEBUG`.
* **Submission from the callback.** The lock shim asserts that a lock is free
  when it is taken (`pthread.c:44`), and `blockif_thr` holds it over the
  callback: the first submission from a callback stops the device model. That
  is the run `BlockIfLock` of section 4. As it would hide everything after it,
  `BlockIf` and `AhciPort` follow a build without assertions as well (`Builds`;
  what a step may do then is what the code does if the lock is taken twice), and
  every property of theirs is checked, and proved, for both. `AhciPrdt` has
  no lock: it goes on to the second part of a transfer as a build without this
  assertion does. One with it has the same behaviours up to there, so `PrdtInv`
  is about both; `TransferEnds` is about a build without it.
* **Receive buffers** hold the largest packet (2048 bytes, what the driver
  uses), so `maxpktdesc` is 1 in the run. With smaller ones `dm_process_rx`
  takes one frame per buffer and reports the last, and `RxTurn` loses the
  others as the code does. The descriptor's length field is left out.
* **The receive area** is enabled whenever an AHCI port is started, and FISes
  are host-to-device FISes, as the AHCI rules demand of a driver.
* **A device reset of the e1000** is followed by the driver setting its ring
  up; both are the action `CtrlReset` in the data-path modules.

## 3. Passing runs

| run | what it shows |
|---|---|
| `E82545Intr` | `NoLostCause`: an unmasked cause is asserted or throttled, never forgotten. `IInv`, the inductive invariant of section 7, with `ThrottleTimer` (an interval has exactly one queued callout) and `EdgeNotLost` (an asserted pin is pending in the PLIC or claimed by a handler that has not read ICR) among its conjuncts. `Delivered`: end to end, except after a reset; `OnlyResetDesyncs`: only a reset makes that exception. `CauseServed`: an unmasked cause is eventually read, masked or cleared. |
| `BlockIf` | `ImplementsFifo`: the two queues, the BLOCK states and the search for a PEND element amount to a FIFO server; `EveryRequestEnds`: a request is served or cancelled, or else the program has stopped at the assertion of `BlockIfLock`, which a build without assertions does not. `IInv`, the inductive invariant of section 7, with `BlockedHasBlocker` (nothing waits for a request that is gone) `PoolConserved` (no leak) and `LockShape` (the lock is free between calls; a build with assertions holds it through the drain, and stops only while a callback runs). `DrainsEverything`: the drain loop leaves nothing. `ExactlyOneCallback`, `CallsSucceed`: no lost or repeated callback, no refusal within `blockif_queuesz`, and never the endless wait in `blockif_cancel`. |
| `E82545Tx` | `InOrderOnce`: refinement of `E82545TxAbs`. `IInv`: types, `RestMeansSent` (the poll rests only if nothing complete is waiting) and `DoneWasSent` (DD never precedes the frame). `CompletionIsTold`: a done packet has an interrupt, a handler or the rest of the run ahead of it. `EventuallySent`: every frame is sent with no further register write; `EventuallyReclaimed`: and its descriptors reclaimed. |
| `E82545Rx` | `InOrder`: no frame lost, overwritten, repeated or reordered; the frames under way, in the ring and in the virtio device, are numbered one after the other from the one the driver expects (one the VLAN filter refuses has the number of the frame that follows). `IInv`: types, `ReceiptIsTold` and `InactiveAtAccess` (`e82545_rx_disable` never waits). `EventuallyReaped`: a received frame is reaped, unless frames the VLAN filter refuses never stop coming. |
| `E82545Eeprom` | `ImplementsNvm`: refinement of `E82545NvmAbs`: a word is stored whole, with the last bit of its command, and read as stored. `IInv`: why, namely what the shift registers hold in each mode. A reset is a step of its own, recognised by `fresh` (no clock since), with a definite outcome: the old words with the image of `e82545_init_eeprom` over them. `InStep`: machine and guest agree which bit of which command is next, as long as the guest ends the commands it starts. `SumsAfterReset`: a reset leaves a valid checksum whatever was stored. |
| `E82545Regs` | `IInv`: the flags and addresses the data paths use agree with the registers the guest reads (`EnabledAsRead`, `RxRingIsCurrent`, `TxRingIsCurrent`, `NoRingWhenOff`). `OnlyOwnWrite`: a register changes by its own write or a reset, directly or through the I/O window. |
| `AhciIntr` | `IInv`: types, `GlobalCoversPorts` and `FlagIsPin`. `PinStaysUp`, and, for a handler that reads IS until it is zero, `CauseServed`: every enabled cause of every port is served. |
| `AhciPort` | `IInv`: types, `QuietAtRequest` (no access meets I/O in flight) and `InFlightOnce`. `NothingLeftBehind`: a started port has issued everything. `OnlyIssuedCommandsRun`: nothing given up by a stop or reset runs later. `DoneMeansDone`: what the guest sees as ended, at any moment, the disk has done, entirely and once. `CompletionIsTold`: every such end has an interrupt or a handler ahead of it. `CommandEnds`: a command of a running port ends, or an error stops the port, or the program stops at the assertion of `BlockIfLock`; without assertions only the first two. |
| `AhciPrdt` | `PrdtInv`, the inductive invariant of section 7: byte n of the data is byte n of the table, however the transfer is cut (`InPlace`); a command that ends has moved everything there is room for (`EndsFull`); `assert(todo > 0)` fails only for a table with `BLOCKIF_IOV_MAX - 1` regions in a row that hold less than a sector (`StopsOnTinyRegions`). `TransferEnds`. |
| `PciCfg` | `TreeIsDecoded`: as long as the guest keeps its decoded BARs apart and out of the extended configuration window ("PCI ECFG", which `init_pci` registers in the same tree), no assertion fails and the registry is exactly the decoded ranges and that window. Whatever the guest writes: `RoutedToDecoder`, and `CfgInv` with `HintIsLive`, `CapsLinked` and `PinAsPermitted`. `MsiAsConfigured`: as long as message control is written as a word, the device's copy of the MSI capability is what the guest reads. |

## 4. The runs that find a violation, and other observations

`BlockIfLock`: in a build that keeps `assert()`, the first request a completion
callback submits stops the program. `blockif_thr` takes `bc_mtx`
(`block_if.c:306`) and holds it over the callback; the next part of a transfer
(`pci_ahci.c:1933`) and a command that waited in PxCI (`pci_ahci.c:1956`) are
submitted from there and take it again (`block_if.c:415`), against
`assert(mutex->lock == 0)` of `pthread.c:44`.

`E82545TxDisable`: disabling the transmitter, or resetting the device, before
the poll after a run never returns (`findings` in `PROJECT.json` quotes the
comment that says how the function goes on).

Observations that the passing properties carry as explicit exceptions:

* A reset with the interrupt asserted deasserts the pin and leaves
  `esc_irq_asserted` set (`pci_e82545.c:2326`); until the guest clears ICR later
  causes are silent. `Delivered` and the e1000's `CauseServed` except it, and
  `OnlyResetDesyncs` shows that nothing else has this effect.
* A port event between an AHCI handler's PxIS write and its IS write leaves
  the pin up and the PLIC untold (`pci_ahci.c:252`). `CauseServed` is for a
  handler that looks at IS again.
* Dropping CS in the middle of a command does not end it for the EEPROM
  (`pci_e82545.c:1891`): `InStep` is for guests that end what they start, until
  the next reset.
* A write of TDBAH under a running transmitter changes the register and not
  the ring it uses (`pci_e82545.c:1837`): `TxRingIsCurrent` says until when.
* A byte write of MSI message control changes read-only bits and is not taken
  over by the device (`pci_emul.c:924`): `MsiAsConfigured` is for word writes.
* Address filter 15 is in the register range and in the array, and stops the
  program (`pci_e82545.c:1676`).
* A BAR whose base is moved onto another decoded BAR or into the immutable ECFG
  range is silently not registered (`mem.c:298`) and stays so after the other
  BAR has moved; one that overlaps such a range otherwise fails an assertion, as
  does moving the unregistered BAR away again (`mem.c:343`-`345`). `PciBar` describes
  all three; `TreeIsDecoded` is therefore about guests that keep decoded BARs
  apart and out of ECFG.

Seen while modelling and without a property: the callback's "packet(s)
dropped" (`pci_e82545.c:939`, `954`) stay in the virtio device, as the loop that
drained them is compiled out; `pci_generate_msi` has an empty body, so nothing is
ever delivered in MSI mode.

## 5. Bounds

* `E82545Intr`: three causes (one to be pending, one new, one masked). Nothing
  else is bounded; `callouts` is a counter precisely so that `ThrottleTimer` has
  something to say.
* `BlockIf`: four elements, three requests; offsets and lengths such that a
  chain of three sequential requests, two with the same predecessor, and a
  request of length 0 (its own successor) occur. `OFF_MAX` is outside. Builds
  with and without assertions; `BlockIfLock` takes the one with them.
* `E82545Tx`: 8 descriptors (the smallest ring TDLEN can express, 128 bytes),
  so a run is limited to 2; up to 3 in use, so packets of two segments, an
  over-long one, a context before a packet and a packet in pieces all cross
  the end of the ring and the limit of a run.
* `E82545Rx`: 8 descriptors, 3 given to the device at a time, 2 frames waiting:
  the ring runs empty and wraps. Frames are numbered modulo 6, one more than can
  be under way.
* `AhciIntr`: two ports, two causes, MSI off and on (how many messages makes no
  difference to a `pci_generate_msi` without a body).
* `AhciPort`: two slots with nine commands: every kind, among them NCQ and not,
  in one part and in two, failing and not. Two slots are enough for one command
  to wait for another, to complete in either order and to wrap `ccs`. Builds
  with and without assertions.
* `AhciPrdt`: an iovec of 3 and sectors of 4 bytes, tables of up to 6 regions of
  1, 2, 3 and 6 bytes, commands of up to 4 sectors: parts end inside a region,
  between regions and several regions back; tables are too short, exact and
  too long; two regions in a row hold less than a sector.
* `E82545Eeprom`: addresses and words of two bits, one word fixed, one the
  checksum; nothing else is bounded. REQ only drives GNT and is left constant.
* `E82545Regs`: tables of two entries. A guest writes a handful of registers with
  a few values (none, all and single bits); there are eight kinds of it, so that
  every register is written and those that interact are together. Each kind
  resets the device.
* `PciCfg`: the real layout in units of 64 KB and the addresses around it, with
  the ECFG range moved down to just above the BARs, so that one can be moved
  onto it. The slop `init_pci` adds to `pci_emul_membase32` at the end is left out:
  nothing is allocated after it. One
  guest moves BARs, the other writes capability and command register, as the
  two together differ only where both write the command register.

No symmetry is used: the state graphs are small without it.

## 6. Fairness

Only what the loop and the hardware guarantee. A queued callout expires; the
main loop polls, drains and finishes what it started (weak fairness on each
step). A guest access that waits is served once per turn of the loop; as it is
only possible between two polls it needs strong fairness (`ReadICR`, the AHCI
handler's accesses). The guest takes a pending interrupt and its handler runs
to the end. Nothing makes a guest submit, enable, reset or reclaim anything of
its own accord, and no frame has to arrive. `AhciPrdt` runs to its end by
itself: its steps are function calls and callbacks that `BlockIf` shows to come
in a build without the assertion of `BlockIfLock`. `EventuallyReaped`
is conditional on refused frames ceasing to come: they are not counted by the
callback's limit, so an endless flood of them would keep it from returning. The
AHCI `CauseServed` excuses a cause that came while MSI was on: turning MSI off
does not raise the pin for it.

## 7. Proofs

TLAPS checks every theorem for all values of the constants, under the named
`ASSUME`s of the component modules only.

**`E82545IntrProofs`** (any set of causes). `IInv` adds two facts to the checked
invariants: a pin that is not IDLE has the flag set (`LineHasFlag`), and the pin
follows the guest's permission (`LineFollowsPermission`). Without the first,
`NoLostCause` and `Delivered` do not talk about the same thing: the flag says
"asserted", the pin says what the guest sees. Without the second, a permitted
pin could be PENDING and `EdgeNotLost` would say nothing. From it follow
`TypeCorrect`, `NeverLosesACause`, `CalloutIsUnique`, `CausesAreDelivered` and,
as an action property, `DesyncNeedsReset`.

**`BlockIfProofs`** (any pool size, offsets, lengths, operations, both builds).
`IInv` adds that pending elements are PEND or BLOCK (`PendStatus`), that at most one
element is busy, exactly while the drain loop works on it (`BusyShape`), and who
holds the lock (`LockShape`).
`BlockedHasBlocker` is the heart: unlinking an element shifts the queue, so a
lemma about `RemoveAt` says which elements still precede which. An induction
along the queue is avoided: `DrainLeavesNothing` only needs the *first* pending
element, whose blocker would have to be in front of it or busy. From it also
follows that the first PEND element is the head, so `blockif_dequeue` is
`BlockIfAbs!Start`, which gives the refinement `Fifo`.

**`PciProofs`, interrupts** (any number of ports, causes and message counts). The
`IInv` of `AhciIntr` is inductive as it stands. The proof takes it in two halves that almost never need
each other: the pin (`PinInv`, kept by every use of `LintrOn`, `LintrOff` and
`pci_lintr_update`) and the ports (`PortsInv`). One lemma each for
`ahci_port_intr` and `ahci_generate_intr` says that whoever calls them leaves both
halves and `PinUp` intact; each action then only shows what it calls them with.
From the same lemmas follows `OnlyMsiDropsThePin`, the action property
`PinStaysUp`.

**`PciProofs`, configuration space** (any functions with up to six BARs each, no
BAR twice, of any sizes; any addresses and capability accesses of the guest).
The registry, the pin and the capability need nothing of each other, so there are
three invariants. `RegInv` is `BarInv` (types, ranges that do not overlap, a hint
that points into the tree and, until an assertion fails, every range that of a
decoded BAR at its present address), which holds whatever the guest does, together
with `TreeIsDecoded`, which rests on it. The ECFG range is in the tree like a BAR of
no function that is always decoded and never moves. `Booting` says that what has
been allocated lies below `pci_emul_membase32`, and that below ECFG, so neither the
next BAR nor ECFG finds anything in its way. Register and
unregister each have lemmas on what they do to a registry that is in order; the
loop over the BARs carries `Turned`: after i turns, the tree has ranges only of BARs
that should be decoded by then and, if nothing was in the way, all of them.
`CapInv` is about bytes: a word write of message control leaves the read-only bits
and the device's copy follows, and any other write misses both. The theorems
are `ConfigurationConsistent`, `DecodedExactly`, `NoStaleRouting` and
`MsiFollowsCapability`.

**`BlockIfProofs`, callbacks.** `CallInv` follows the client's side: `outstanding`
is the set of requests in the pending queue, plus the one in service while a
callback runs, and no two elements carry the same request. With it
`EveryRequestIsCalledBackOnce` is immediate. `ClientIsNeverRefused` is a pigeonhole
argument: distinct requests in the queue are at most `blockif_queuesz`, the element
being completed is one more, and the pool has one more than that.

**`E82545EepromProofs`** (any number of address and data bits, any image). `IInv`
is inductive as it stands: what mode, countdown and shift registers hold between
two clock edges. `InStep` compares them with the bits the guest has sent since
the command began; the lemmas say what one more bit does to opcode, address and
leading zeros. Both together give `IsAnEeprom`: a clock edge is a step of
`E82545NvmAbs`, and the edge that ends a write stores the whole word. A reset is a
step of its own there: `fresh`, which only it sets, keeps a clock edge from
passing for one, and `ResetImage` says what the words are afterwards.
`ResetLeavesAValidSum` is about `e82545_init_eeprom`. Sum, value and bits are recursive
functions; that such a function exists (`Iterated`) and what its values have in
common (`Upwards`) follows from `<` being well-founded. A number that fits in n
bits is the value of its n bits (`ValueOfBits`), hence no two words share an
address, storing the checksum leaves the words before it alone, and the last
addition gives `NVM_SUM` modulo the word.

**`E82545RegsProofs`** (any table size, any kinds of guests that stay within the
BAR, `GuestsAssumption`). `IInv` is inductive as it stands. It is split into what
every register holds (`File`) and what the data paths have derived from a few of
them (`Derived`); a write that leaves the control registers alone cannot disturb
the second (`Aside`). `WritesChangeTheirOwn` is non-interference: after one write,
by either way, every other register reads as before.

**`AhciPortProofs`** (any number of slots, a free list at least as long, any set of
commands that have parts exactly if they do I/O, several only for reads and
writes, and are NCQ only if NCQ has them, both builds). `IInv` is not inductive. `PortInv` adds
what ties the lists together: a slot in flight is once on `iobhd` and once in the
queue, and the free list has the rest (`Flight`); BSY is held by a non-NCQ command
in flight, whose end will clear it (`BusyHasOwner`), so a port that is not busy
has issued everything (`AllIssued`); a stopped port has nothing in flight
(`Stopped`); what runs is the driver's (`Owned`), shows in the right register
(`Marked`) and is at the part the disk has not done (`Progress`). Each C function
on `struct ahci_port` has a lemma with the fields it changes, and each action
composes them in the order of the code. `DoneMeansDone` and `CompletionIsTold` look
at *ended* commands, of which the port keeps nothing. `EndStep` says of one step:
each command that is ended after it was so before, or ends now, done and told.

**`AhciPortProofs`, data** (any iovec length, sector size, region sizes, table and
command length). `PrdtInv` is `InPlace`, `EndsFull` and `StopsOnTinyRegions` with two
strengthenings: the ends of the regions grow (`Growing`), and a part in flight is
exactly the bytes of the table from `offset` up to `done`, whole sectors if there is more
to come (`Parts`). The proof is about `ahci_build_iov`. A sequence of pieces is
*laid* from one position to another if each begins where the one before ends
(`Laid`); the regions collected are (`RowLaid`), still are after the trimming loop
(`TrimLaid`), and what is laid copies the bytes of the table (`LaidCopy`). How much
is trimmed is arithmetic of remainders (`RoundedPart`): the part ends on a sector,
at the end of the request or at that of the table, or else the regions it has
collected hold less than a sector. The running sums exist and are unique by the
least number at which they would not be (`SumsAre`, `TotalsExist`). `EveryByteInPlace`
is the result.

**`E82545RxProofs`** (any ring, buffer size, threshold and frames). `RxInv` gives
`Inductive`: `esc_rx_active` is set exactly within the callback (`Active`), and a
frame in the ring is told by a cause collected, given or taken up (`Told`).
`FramesInOrder` is for frames that fit in one buffer (`SingleBuffer`, the driver's
set-up; with smaller ones frames are lost, see section 2). `OrderInv` needs the
place where the device writes next (`Ahead`: `head` in a run, RDH between two).
Done descriptors lie exactly between the driver and that place (`Region`);
the waiting frames and those in the ring are numbered without gaps
(`WaitingChain`, `RingChain`) and the two chains meet (`Joined`).

**`E82545TxProofs`** (any ring, any `MaxSegs`, any use of the ring that leaves one
descriptor free). `InOrderOnce` says that what e82545_transmit finds in memory is
what the driver once wrote there, and no invariant of the registers gives that. `TxInv`
therefore describes the *log*: the descriptors from the device's place
(`Ahead`) to the driver's tail. Every owed frame is in it as fragments up to an
EOP (`FrameIn`), in order (`Ordered`); every EOP ends such a frame or a packet of
too many segments (`Complete`); the frame's context is that of the last context
descriptor before it, or else the saved one (`FramesCtx`); the packet being written
is at the end (`PartAtEnd`), a context never inside a packet (`CtxBetween`), and no
descriptor is marked (`NotDone`). `Log` takes ring, place and length as arguments,
so a few lemmas about it carry the proof: the log is the same if its descriptors
are (`SameLog`), the driver adds one descriptor (`ExtendFrag`, `ExtendCtx`,
`ExtendEop`), the device goes past the first n (`PassedLog`). Beside it: the order
of driver, device and tail around the ring (`Region`), no EOP before the read
head (`Parked`, which gives `RestMeansSent`), and a marked packet is told
(`Told`). That there is a *first* EOP comes from `<` being well-founded on the
naturals, a library theorem. `FramesLeaveInOrder` is the refinement: a call of
`e82545_transmit` is `E82545TxAbs!Send` of the head of `owed`, or a stutter, and the
end of a run, after which the frame sent last is no longer remembered, `Forget`.

The runs check every property that a theorem states; the strengthenings that are
not part of one (`PortInv`, `OrderInv`, `TxInv`, `CallInv`) were checked with TLC on
the same instances.

**Only model-checked** is liveness: `CauseServed` of both devices,
`EveryRequestEnds`, `EventuallySent`, `EventuallyReclaimed`, `EventuallyReaped`,
`CommandEnds` and `TransferEnds`. Fairness and ENABLED are out of the prover's
reach. The theorems about recursive functions avoid induction with an operator
as its parameter, which the provers cannot instantiate: they take the least number
of a set, which exists because `<` is well-founded on the naturals.

## 8. Not modelled, and the plan

Not modelled: ATAPI (no CD is attached), the PCI test device, DSDT output, MSI-X
and PCI Express capabilities (no device here uses them), IOMMU programming (no
state of its own), checksums and the cutting of one frame into TSO segments
(arithmetic on the bytes of a frame), the contents of IDENTIFY and log pages,
board and CHERI set-up.

Every module is model-checked, and every safety property of a run is proved.

In the order of importance, what is left:

1. the receiver's order with packets of several descriptors, if `dm_process_rx`
   comes to hand over one frame for all of them;
2. the main loop as a module of its own that composes the devices.
