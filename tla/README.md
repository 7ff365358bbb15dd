# TLA+ models of dpdk.cr

dpdk.cr makes DPDK usable from Crystal. It contains generated bindings, the
inline functions of DPDK's headers (as C in `src/src/ext/` and, for speed, again
as Crystal macros in `src/src/dpdk/`), a small application framework
(`src/src/lib/`), and ports of DPDK's example applications (`src/examples/`).
This directory models the parts that carry logic of their own: the lock-free
ring, the packet buffers, the transmit path, the memory copy, the lookup table,
the lcore iterators, the set-up of kernel interfaces, and the applications built
from them.

Paths below are relative to the directory that holds both `src/` and `tla/`.
`PROJECT.json` maps every definition to the lines it models and lists components,
runs, seeded faults, hazards, findings and theorems.

## The system

| Component | State | Operations | Hard behaviour |
|---|---|---|---|
| Ring, `src/src/ext/rte_ring.c`, `rte_ring_extra.c`, `inlines.cr` | four 32-bit indices, an array of pointers | enqueue and dequeue: single/multi, bulk/burst, one object, peeking | any number of lcores, no lock; indices wrap; a claim is made from two loads that are already old; a later claim may be copied first |
| Mbuf, `src/src/ext/rte_mbuf.c` | per mbuf: count, links, lengths, buffer address and size; the mempools | alloc, free, attach, detach, clone, refcnt_update, prepend, append, adj, trim, chain, linearize, read | counts read 1 are changed without atomics; the last clone frees the original; a clone can fail halfway; a clone's own buffer comes back on detach |
| Transmit buffer and bursts, `inlines.cr`, `rte_ethdev.c` | array, length, error callback; callback lists; descriptors | buffer, flush, rx and tx burst, prepare, queries | store before the size test; the driver takes only part of a burst; offload flags decide which header lengths count |
| Memory copy, `rte_memcpy.c` | none between calls | rte_memcpy in three builds | blocks, ladders and moves that reach back must leave no gap; an aligned load before the source |
| LPM, `rte_lpm.c` | tbl24 and tbl8 | lookup, bulk lookup | an entry is a hop or the number of a group |
| Lcore iteration, `inlines.cr`, `rte_lcore.c` | a cursor | get_next_lcore, the foreach loops | unsigned wrap, wrap at RTE_MAX_LCORE |
| TAP, KNI and netlink, `tap.c`, `kni.c`, `ext_netlink.c`, `tap.cr`, `kni.cr` | a file descriptor or device, a socket, the union `ifreq`, a spare mbuf | create, set up addresses and routes, packets of the host to a ring | any system call may fail; the union is overwritten between uses; the kernel waits for an answer of the same thread; a full ring |
| l2fwd, `src/examples/l2fwd.cr` | port tables, per-port buffers and counters, one shared burst array, the quit flag | link check, forwarding loop, drain, signal, shutdown | several lcores on one object; drain and quit must happen |
| packet_ordering, `src/examples/packet_ordering.cr` | two rings, a reorder buffer, transmit buffers, counters | rx, worker, send and tx threads | packets overtake each other; full rings drop in the middle |
| load_balancer, `src/examples/load_balancer/` | routes, rings per worker and port, output arrays with flush flags | I/O and worker loops | a software pipeline over each burst; bulks all or nothing; arrays that wait for a flush |
| distributor, timer, basicfwd, ip_blocking, application base, packets | see `PROJECT.json` | their loops | chain of quit flags; retry loops |

How they interact: the applications start one thread per lcore (the lcore
iterators), exchange mbuf pointers through rings, own mbufs by reference count
and return them to the mempool, and hand packets to the driver through transmit
buffers. Threads share the instance variables of one Crystal object, the quit
flag among them.

What makes each correct: the ring is a FIFO queue that loses and duplicates
nothing; an mbuf returns to its pool exactly when its last reference is dropped,
as its pool made it; a transmit buffer sends or frees each packet once and hands
the driver only packets it can send; a copy writes its n bytes and no other; a
lookup finds the longest prefix; an iterator visits each lcore once; a set-up
configures the interface it made as asked; an application forwards each packet
once to the right port in the right order, does not let a packet wait for ever,
and stops when told.

## Modules

| Module | Models | State and actions |
|---|---|---|
| `RteRing` | the ring | `head`, `tail`, `ring` are the struct and its array; `pc`, `how`, `fixed`, `max`, `n`, `old`, `tbl`, `copied` the locals of each lcore's call. One action per load, store, compare-and-set and copied pointer (`LoadHead`, `LoadOppositeTail`, `MoveHead`, `Copy`, `YieldBlock`, `update_tail`, `update_sc_tail`), one per public function to enter a call. `users` is the set of lcores the application lets use the ring. |
| `RingFifo` | what the ring promises | a queue, the table each producer offers, what each consumer holds |
| `RteRingFifo` | refinement mapping from `RteRing` to `RingFifo` | reads the queue, the tables and the hands out of the ring's memory |
| `RteRingProofs` | theorems about `RteRing` and its refinement | |
| `MbufRefcnt`, `MbufRefcntProofs` | counts of one-segment packets, several lcores | every read and every update of a count is a step |
| `RteMbuf` | chains, lengths, addresses, clones from two pools, one lcore | each C function an operator from memory to memory, each call an action |
| `TxBuffer` | the transmit buffer, both versions (`Crystal`) | `length`, slots and counter; buffer and flush |
| `TxOffload` | `rte_validate_tx_offload` and the flags it tests | operators on a packet's flags and lengths |
| `EthDev`, `PacketProofs` | the functions of `rte_ethdev.c` with a body, around a `TxBuffer` | receive with callbacks, forward a packet, drain, the NIC, the clock, and a monitor that asks about any port, queue and packet; the theorems are about it and its buffer and, in the second half, about `RteMbuf` |
| `RteMemcpy`, `RteMemcpyProofs` | `rte_memcpy`, three builds | `dst`, `src`, `n` of the code; one action per label, loop turn or move; history of bytes written and read |
| `RteLpm` | the table and its lookups | operators on entry words |
| `LoadBalancer`, `LoadBalancerProofs` | load_balancer, on `RteLpm` | rules are parsed and checked, then one I/O lcore and the workers; a step is what happens between two operations on a ring |
| `Netlink` | the requests of the three netlink files | operators that lay a request out at byte offsets, and the kernel's reading of it |
| `HostIf`, `HostIfProofs` | TAP and KNI set-up and packet loops, on `Netlink` | `prog` is what is left of the call, one system call an action that may fail; `ifr` is the union with the member last written; `kni` the requests that wait for `kni_create`'s loop and the answers nobody has read, those of another process that takes the interface down (`KniDown`) among them; `status` is `crash` after the NULL of an empty pool was dereferenced |
| `LcoreIds` | the numbers of lcores | |
| `Lcore` | the iterators and queries | one step per turn of the search |
| `L2fwd` | tables, link check, forwarding loop, shutdown | one action per part of the loop: top, drain, receive, forward one packet |
| `L2fwdProofs` | theorems about `L2fwd` and, at its end, `Lcore` | |
| `PacketOrdering`, `PacketOrderingProofs` | the threads and their rings | one action per call on a ring, per insertion, per turn of `rte_reorder_fill_overflow` and per packet transmitted |

`MC...` modules give constants that a configuration cannot write, and symmetries.
`MCSequential` puts the three components that one thread runs by itself side by side:
a behaviour is one of `RteMbuf`, of `RteMemcpy` or of `Lcore`, the others at rest.
`EthDev` composes `TxBuffer` and `TxOffload`, `LoadBalancer` the lookups of `RteLpm`
with the lcores, `HostIf` the layouts of `Netlink` with the order of the calls.

Names are the source's where TLA+ allows. Code outside the repository is marked
external in the map and modelled from its use: the index moves of
`rte_ring_generic.h`, the mempool, the driver (any part of a burst) and the NIC's RSS,
librte_reorder, `rte_lpm_add`, the kernel behind ioctl and netlink.
Definitions called `Mut...` are seeded faults: each is a plausible bug in the
definition that follows it, and the run of its property must fail when it is put
in that definition's place.

`PacketOrdering`, `LoadBalancer` and `HostIf` use rings as `RingFifo` queues with one
step per burst, which `RingImplementsFifo` licenses for the order of objects; a burst that is refused in
part is refused for lack of room at the moment of the step.

## Runs

Bounds are small because the faults of interest need few actors: two lcores per
side for a race, capacity for one or two objects to be full, an index width of
twice the size so that wrap happens within the bound.

| Run | Checks | Shows | Bounds |
|---|---|---|---|
| `ring` | `ClaimsExclusive IndInv FreeCountIsRoom ImplementsFifo` | every interleaving of the steps is a behaviour of the FIFO queue; indices keep their types and cyclic order across the wrap (`IndInv`) | any non-empty choice of two producers and two consumers; 4 slots, 2 usable (RING_F_EXACT_SZ); indices modulo 8, starting at 7 so the first claim wraps; bursts up to 2; 3 objects |
| `ring_live` | `CallReturns` | compare-and-set loops and the wait for earlier claims end | 2 producers, 2 consumers, 4 slots, 2 usable, so that a side has two claims outstanding and the later one is ready before the earlier; indices modulo 8, starting at 7; one object a call, 2 objects |
| `mbuf_refcnt` | `UniqHolder PooledIsUnused CountIsExact` | stores without atomics are not raced, no double put, no drift | 2 lcores, 3 mbufs, 3 references; only direct mbufs are shared |
| `sequential` | `PacketWellFormed PooledIsClean RefcntExact FreeKeepsOthers CopyExact LoadBounds VisitsEach` | lengths, links, counts and addresses of packets agree after any sequence of calls, failed clones included; the three builds of the copy leave no gap, write nothing outside and load nothing past the end; the iterators visit each lcore once and in order, and all of them from any start | packets: 2 mbufs with room for a byte, 2 for clones with another private area and no room, up to 3 segments, 2 references: a two-segment packet and its clone fit, a longer one runs a pool dry. Copy: every length to 660, more than two 256-byte blocks and one of 512, and 1020 to 1030 around two; destinations and sources aligned and not. Lcores: every subset of 5, every master, several limits |
| `txbuffer` | `TxBufferInv SentInOrder LatencyReal DriverGetsValid` | every split of every burst by a NIC with two descriptors; every set of offload flags and lengths that the check or the demands of the flags tell apart | 3 slots, 6 packets: two full flushes; a clock of 3 ticks; one port and one that does not exist |
| `hostif` | `RequestsTarget ConfiguredAsAsked KniAnswers MbufOwned HostInOrder KniReturns` | every failure of every call during set-up, and somebody else taking the interface down; the packet loops over a full ring and an empty pool | each kind of interface with each combination of arguments, 2 routes; one failed port start (`MaxFails`), one request to take the interface down (`MaxDowns`); 4 mbufs for a spare, a ring of 2 and 2 held, so that the pool runs dry; 4 packets |
| `load_balancer` | `LpmLongest PacketOnce RoutedLongest FlowOrder ArraysFlushed` | every list of up to four of eight routes is checked and loaded; one such list is run | 2 workers, 2 queues, 6 packets, 5 of them in one queue: bursts of every length through the pipeline, once round and with a rest of three; rings of 2 |
| `l2fwd` | `ForwardedOnce TxPortMac TxQueueDedicated BufferDrains QuitCloses PrintFollows` | one lcore from the tables to the close; the tables also for every set of four lcores and every -q | 4 ports, every mask, bursts of 2, 3 packets, 5 passes of the link check for 90 |
| `ordering` | `PacketAccounted RestoredOrder StatsBalance` | all threads interleaved, with and without reordering | 2 workers, rings of 2, window of 2 numbers, 5 packets: enough to fill both rings and to jump beyond twice the window |
| `drop_counter` | `DropsCounted`, violated | see findings | `TxBuffer` with `Crystal = TRUE`, 2 slots, 3 packets |
| `ordering_early` | `NoneLost`, violated | see findings | 1 worker, so that no packet is overtaken, rings of 2, window of 2 numbers, 7 packets: full rings drop enough to make one too early |
| `l2fwd_lcores` | `TxPortMac`, violated | see findings | 2 lcores |

`SYMMETRY` permutes producers, consumers, mbufs or workers, which no definition
tells apart; it is used in safety runs only. `LiveView` of `MCSequential` leaves out
the lengths and offsets of mbufs that are in no packet: `rte_pktmbuf_reset` and
`rte_pktmbuf_attach` write them before anything reads them. The type invariant of `RteMbuf`, a
conjunct of `PacketWellFormed`, is therefore evaluated on one representative of each
such class. Deadlock is checked except where the program may stop (the applications,
the iterators, a set-up that exits) or the bound on packets ends the run (`txbuffer`).

In `load_balancer` the second list of `MCRunRules` names a port without transmit
queues; the check of the routes refuses it, so it is never run unless that check is
broken.

### Fairness

`ring_live` assumes weak fairness of each lcore inside a call; `l2fwd` of each
lcore's loop and of main; `load_balancer` of each lcore. An lcore is a thread pinned
to a core of its own that polls and never blocks, so it keeps running. `hostif`
assumes weak fairness of the one thread that sets the interface up: each of its
system calls returns, with or without success; of the kernel, that the wait of a
request to take a KNI interface down ends, by an answer or a time-out (`KniIsDown`).
The numbers of failed port starts (`MaxFails`) and of those requests (`MaxDowns`) are
bounded. Nothing is assumed of calls being made, of packets, links,
the driver or signals.
`CallReturns` is stated for a bounded number of objects: with unbounded traffic a
compare-and-set loop is lock-free and not wait-free, and one lcore may lose every
race.

## What is proved

The `...Proofs` modules hold theorems that TLAPS checks for every value of the
constants, under the assumptions named below. `PROJECT.json` says which theorem
states which property. Each property was checked by TLC first, and so was every
inductive invariant on a small instance.

### The ring

`RteRingProofs` proves, for any number of producers and consumers, any size,
capacity and index width, `RingInvariant`: `Spec => []IndInv`, and from it
`RingTypeCorrect`, `RingOrdered` and `RingClaimsExclusive`.

`RingOrder` is not inductive: whether a claim fits depends on a head and a tail
loaded earlier. `IndInv` adds what each step needs:

- `Snapshot`: if the head a call loaded has not moved since (`lag` is 0), the `n` it
  computed still fits, since the opposite tail only advances. This is why a
  compare-and-set that succeeds is safe. `lag` is a history variable.
- `ClaimsExclusive`: claims of a side lie side by side between its tail and head, so
  the claim that begins at the tail can be handed over whole by `update_tail`.
- `LoneSide`: with one lcore on a side, head and tail differ by its own claim only,
  which makes the plain stores of the single and peeking variants sound.
- `TableBound`: the copy loops stay inside the caller's table.
- `CallersAreUsers`: an lcore that is not a user has no claim.

Assumptions: producers and consumers are disjoint (`SidesAssumption`; an lcore that
does both counts as two); the size divides the index range and is smaller, the
capacity is smaller than the size (`SizeAssumption`); single functions are called
only by the one user of a side, as their comments demand ("NOT multi-producers
safe"). One is in the guard of `MoveHead`, `NoFullTurn`: an lcore does not sleep
between load and compare-and-set while the others move the head by a whole turn of
2^32 positions, which compare-and-set could not notice.

The argument: `InitInv`; one lemma per action (`EnterInv`, `LoadHeadInv`,
`LoadOppositeTailInv`, `MoveInv`, `MoveFailsInv`, `CopyInv`, `YieldBlockInv`,
`TailInv`, `ReturnInv`); the arithmetic modulo the index range is confined to the
lemmas at the head of the module (`MinusPlus`, `MinusShift`, `MinusOrigin`, ...).

The same module proves that the ring implements the queue: `RingImplementsFifo`
is `Spec => ImplementsFifo`, the refinement under the mapping of `RteRingFifo`.
`IndInv` says which positions a call owns and nothing of what is in them, so
`FifoInv` is added: `ClaimsCover` (every position between a side's tail and head is
claimed by some call, hence nothing is claimed when the indices have met) and
`TablesCopied` (the slots a producer has written hold its objects, a consumer's
table has one object for each slot it has read). `ModInjective` and `SlotsDistinct`
give that fewer than `Size` consecutive indices, wrapped or not, have different
slots, so a copy overwrites nothing that is published or claimed by another. Then
each action is a step of `RingFifo` or a stutter: entering offers a batch,
`update_tail` of a producer appends it whole, `MoveHead` of a consumer takes the
first objects, the return hands them out. From `ClaimsCover` also follows
`RingFreeCount`: `FreeCountIsRoom`.

### Reference counts

`MbufRefcntProofs`: `MbufCounts` proves `Spec => []RefInv` for any number of lcores
and mbufs, and from it `MbufUniqHolder`, `MbufPooledUnused` and `MbufCountExact`.
`CountIsExact` speaks of moments when no call is under way. `RefInv` counts at every
step: the count of an mbuf is the number of its `Holders`, where references of
lcores, clones, places in the pool and calls that stand for a unit nobody holds
(`CallHolds`) are elements of one set; each call's `Locals` say that what it read is
still so; and a count of 0 is about to be put right by exactly one call (`Kills`).
The key step is `UsesExclusive`: what a call uses and found with the count 1 is
used by no other call, which is why the code may store without an atomic
operation. The theorems assume `~ShareIndirect`: no two lcores hold one indirect
mbuf. Without it `UniqHolder` is false (see observations).

### Memory copy

`RteMemcpyProofs`: `MemcpyInvariant` (`Spec => []MemInv`), `MemcpyCopiesExactly` and
`MemcpyLoadsInBounds`, for every length, alignment of both addresses and build.
`MemInv` says at each label that the bytes behind `dst` are copied, no byte outside
the call's is, and how much is left, which is what the moves that reach back from
the end need; `AtLeft47` bounds the load before the source by the aligned unit that
the source begins in.

### Transmit buffer

`PacketProofs`, first half: for every buffer size `TxBufferInvariant` (`Spec => []TxBufferInv`:
room for the next packet, and every packet buffered, sent or freed once),
`TxBufferInOrder` (`Spec => SentInOrder`) and `TxBufferDropCounter`: with the C code the
registered counter equals the number of packets freed, with the code of `inlines.cr`
it stays 0 (see findings). `FlushSplits` says what a flush does to the three sets.
`DevKeepsBuffer` (`DevSpec => Spec`) is the refinement that carries them over: each
step of the burst functions of `EthDev` is a call of the buffer or leaves it alone.
`DevDriverGetsValid`: the driver is only reached with a valid port and queue. What a
packet must meet is taken from the descriptions of the flags in `rte_mbuf.c`
(`Demands`: an IP version with every checksum or segmentation below it, the IP
checksum with a TCP segmentation over IPv4, a segment size, headers in the first
segment, ...), and not from the check: `rte_validate_tx_offload` lets through exactly
the packets whose `Unmet` demands are among those it overlooks (`Overlooked`), for
every set of flags. These are listed under observations. The theorem assumes that the
driver has a `tx_pkt_prepare`; without one `rte_eth_tx_prepare` does not look at the
packets.

`DevLatencyReal`: the latency added up is that of the packets shown to
`calc_latency`, each from the burst that delivered it. It assumes of the two lists of
callbacks what `rxtx_callbacks.cr:81,84` registers (`Registered`: `add_timestamps` is
in one, `calc_latency` once in the other), among any others in any order. Its
invariant `LatencyInv` says that packets are numbered through the receive queue and
the burst in the order they arrived, and that every packet the lcore has taken
carries the time at which it did; with `TxBufferInv` a flush then shows only packets
that do. What the lists compute is a fold, defined by `CHOOSE` over the functions
that satisfy its recursion: `RunRxStamps` and `TxAddsOnce` give a function that
satisfies it, so the chosen one does too, and `FoldIs`, by the least element of
`LeastNat`, makes the two agree.

### Chains of mbufs

`PacketProofs`, second half, for any number of mbufs in the two pools, any data rooms,
private areas and header size, and counts of any width: `PacketWellFormedAlways`,
`PooledIsCleanAlways`, `RefcntExactAlways` and `FreeKeepsOthersAlways`.

The inductive invariant is `BufInd`: there are numbers `r` of references to each mbuf
and a sequence of segments for each packet held such that `Good` holds.

- `MemInv` is about the memory and `r` alone: what an mbuf is attached to is direct, and
  its buffer, address, length and private area are those of that mbuf; the count of an
  mbuf in use is `r` plus the mbufs attached to it; one in its pool is clean and unused.
  It says nothing of packets, so it holds between the segments that
  `rte_pktmbuf_free` has freed and those it has not, and in the middle of a clone:
  `FreeSegKeeps` and `AttachKeeps` are its steps, with `r` one less for the
  segment freed and one more for the mbuf attached.
- `Chained` relates a packet to its sequence: links, number of segments, the sum of the
  lengths, and `r` equal to the references held for each of them. Sequences of two
  packets share no mbuf, and `r` is 0 outside of all.

`PacketWellFormed`, `PooledIsClean` and `RefcntExact` follow from `Good` but are not
inductive: none says what links a shared segment or a half-freed chain has.
The loops (`Walk`, `FreeChain`, `CloneSegs`) are recursive functions. The prover cannot
use their recursion directly: `WalkIs`, `FreeTurns` and `CloneTurns` give a function
that satisfies it, by `UpTo`, and the invariant is carried along its turns
(`FreeChainKeeps`, `CloneKeeps`). `SumIs` does the same for the fold that adds lengths;
`SumChange` and `SumConcat` say what a resize and a link do to the sum.

Assumptions: `BufAssumption` (finitely many mbufs, sizes of 16 bits) and
`CountsAssumption`: the references held to a packet and the mbufs together are no more
than a count has values. The source leaves that to the application, and nothing in
it stops a count that wraps. The calls that resize, link or linearize are made on a packet with one
reference, as in the model. TLC checked `Good` too, with `r` and the sequences read off
the memory, on the constants that `sequential` gives `RteMbuf` and without its view
(902,332 states).

### Host interfaces

`HostIfProofs`: `HostRxInvariant` (`Spec => []RxInv`), `HostMbufOwned` and
`HostPacketsInOrder`, for every pool, ring and number of packets. `RxInv` puts the ring
and the batch that a KNI reader retries into one queue: `Apart` and `Complete` say
that each mbuf is in exactly one of queue, pool, worker and spare, `Ordered` that the
numbers that came out, followed by those queued, ascend (without a gap for KNI). The
pool may be too small for the ring and the held mbufs together: then the spare of the
TAP reader is NULL (`Spares`), which its next turn dereferences (see observations).
`HostIfAssumption` asks of the mbufs only that 0, the null pointer, is not among them.

About set-up, for every argument and every failure of a call:

- `HostKniAnswers`. A request to change the link is answered in a later turn of
  `kni_create`'s loop than the one that made it, so `KniInv` counts (`Lags`): one request
  or answer is under way, and one more for each time somebody took the interface
  down. And as long as nobody has, every request was to bring it up and the answer
  under way is that of the last start (`Agrees`): an interface that is up over a
  stopped port has a refusal nobody has read.
- `HostRequestsTarget`: the netlink requests read the index from the union `ifr`, so
  `TargetInv` says that the first one left to send finds the index there, and that
  each other comes behind a request, which leaves the union alone, or behind
  SIOGIFINDEX. The layout lemmas (`AddrTargets`, `RouteTargets`) put the
  index where the kernel reads it, for all addresses, any number of routes and the
  three copies of the netlink code. `CallsAssumption`: the arguments are numbers, the
  routes an array of numbers.
- `HostConfiguredAsAsked`, the whole set-up of a host interface or a mirror. `ConfInv`
  adds to `TargetInv`: `SocketInv` (what is left of the call ends by closing its socket
  and goes into the KNI wait at most once, so at most one socket is forgotten) and
  `AskedInv`: every ioctl that was asked for (`Wants`: hardware address, MTU, flags,
  address, peer, broadcast, netmask) was made with the value asked for (`OptAsked`) or
  is still to be made, no other was made, and the addresses and the routes with
  their gateways that the kernel received, together with what the calls left in
  `prog` are going to send, are those asked for. The last is what makes the property
  inductive: each call moves its request from the one side to the other (`AskedAfter`),
  and `SetupAsks`, with `TapCreates` and `KniCreates`, shows once that the program of a
  set-up asks for everything its arguments name and for nothing else. Calls of
  the functions of `tap_netlink.c` and `netlink.c`, the two copies that nothing in the
  repository calls, are outside this property; `HostRequestsTarget` covers them.

### load_balancer and its table

`LoadBalancerProofs`, for any number of workers, ports, queues and packets, any burst
and bulk sizes, ring size and rules, and any widths of the two tables:

- `LookupsFindDeepest`: `Spec => []LpmLongest`. An entry of `tbl24` or `tbl8` is unpacked
  from its word by arithmetic on powers of two, and the groups of `tbl8` are numbered by
  a count, which is one to one (`GroupIndex`). So the lookup reaches the entry of the
  address, and `Best` of the rules up to `IpHigh` decides it when no deeper one is
  below that entry. The facts about `pow2` and about finite sets of rules are by
  induction over the naturals. The library states induction with an operator as
  parameter, which no installed prover can use, so `LeastNat`, `Induct` and
  `Recursion` derive it for sets from the theorem that the naturals are well founded.
- `LoadBalancerInvariant`: `Spec => []LBInv`. Its part `Held` looks at the whole
  pipeline as a function from places (queue of the NIC, burst, array, ring, bulk,
  wire) to sequences: each place holds only packets that belong there (`Home`: by
  queue, worker, and port of the deepest rule), two packets of one flow are never
  in an order other than that in which they came, neither in one place nor in two
  of which one is further down the pipeline (`Stage`), and each packet that was not
  freed is somewhere. Every step of the program takes the first packets of some
  places to the next stage and drops a few; lemma `Move` shows that this keeps `Held`,
  and each action is shown to be a move.
- From it `PacketsInOnePlace` (`PacketOnce`), `PacketsGoByDeepestRule` (`RoutedLongest`)
  and `FlowsKeepOrder` (`FlowOrder`).

Assumptions: `LpmAssumption` (a next hop has room for the number of a group: 24 bits
each in the code), `LoadBalancerAssumption` (the number of workers is a power of two,
bursts are not empty, some port is transmitted through) and `QueuesAssumption` (a
packet comes in by a queue that was set up). `nic_ports` is the sequence of ports of
the I/O lcore, whose order the loops follow; a port may stand in it twice.

### packet_ordering

`PacketOrderingProofs`, for any number of workers and packets and any size of rings,
bursts and window; the workers are finitely many:

- `OrderingInvariant`, `OrderingRestored`. `OrderInv`: the entries of the reorder
  buffer are in its window; the ready ones ascend and are below it; the line of each
  port (sent, then buffered), what the sender is transmitting and the ready entries
  come one after another. The lemmas say what a prefix, a drain, a flush and an
  append do to `Ascends`, `Below` and `Under`.
- `OrderingAccounted`. `AccountInv`: for each packet the number of its places equals
  1 once rx_thread has numbered it and 0 before. The count is over the sequences, so a
  packet twice in one burst or one port's line counts twice. A packet given to the
  stray call of line 363 is neither sent nor freed; `astray` is a place of its own, and
  the theorem does not say that nothing is lost (run `ordering_early`). `StrayInv`
  says that those packets are as many as `early_pkts_txtd_woro` counts, and none
  without reordering. `InParts` is the lemma under it: a
  sequence in two parts has each packet as often as the two together.
- `OrderingStats`. `StatsInv` adds that only packets are in the pipeline (`Known`).
  Moving a burst into or out of a worker changes the number of packets the workers
  hold by its length because no packet is held twice (`ThoseAdded`, from
  `AccountInv`); so `StatsBalance` needs the count of places as well.

### l2fwd

`L2fwdProofs`, from `L2fwdAssumption`.

- `L2fwdTxQueueDedicated` needs no invariant but that the tables are those of the mask.
  What `main` computes port by port is a recursive function; `Recursion` gives one with
  the type the provers need, and `UpTo` carries a statement from each port to the next.
  For the pairing: the ports met so far are swapped in pairs, but for the last one when
  their number is odd (`Paired`, `PairingSwaps`: the pairing is its own inverse on the
  mask). For the lcores: the ports met so far are each in one place of one enabled
  lcore's list (`Given`, `AssignmentSplits`). Two lcores that transmitted on one port
  would poll ports with the same partner, hence the same port.
- `L2fwdTxPortMac` and `L2fwdForwardedOnce` are about the loop under `OnePolls`: one lcore
  at most has been given ports, as with -q no less than the number of ports. Without
  it both are false (`l2fwd_lcores`). `L2fwdInv` adds to them: before the launch all
  lcores wait (`Waits`, or the launch would lose a burst); an lcore in its loop points
  at a port it polls and, while it forwards, at the packets of its burst, numbered up
  to the port's rx counter (`Loops`); what is buffered at a port is for it and bears its
  address (`Buffered`). `ForwardedOnce` is then inductive. A flush and a packet that is only
  buffered are alike for it (`Moved`): the sequences of the port, counted together,
  have each packet as often as before and the new packet once more (`FlushCounts`,
  on `CardSplit`). `Room`: the bound `MaxRx` is on all ports together.

`L2fwdInv` was checked by TLC on the bounds of the run `l2fwd` before it was proved.

### Lcore iteration

At the end of `L2fwdProofs`: `LcoreInvariant` (`IterSpec => []LcoreInv`) and
`LcoreVisitsEach`, for every set of enabled lcores, master and limit
(`LcoreAssumption`). `LcoreInv`: the number of wanted lcores below the cursor is the
number of those visited; with wrap, modulo the number of lcores.

### Only model-checked

- Liveness: `CallReturns`, `BufferDrains`, `QuitCloses`, `PrintFollows`, `ArraysFlushed`,
  `KniReturns`. The prover has no rules for fairness here.

## Findings

`l2fwd_lcores`: all lcores receive into the one `@pkts_burst` (`l2fwd.cr:131`), so with
two lcores packets are forwarded by the wrong one, twice, and leave with the address
of the other port.

`drop_counter`: the Crystal flush passes the address of `error_userdata` instead of its
value to the callback (`inlines.cr:89`; the C function passes the value,
`rte_ethdev.c:4062`). The callback adds to the pointer, and the counter of dropped
packets that l2fwd registers stays 0. The trace is one buffer of which the driver
takes a part.

`ordering_early`: a packet too far ahead of the reorder window is to be "transmitted out
directly" (`packet_ordering.cr:356`), but the mbuf itself is passed where
`rte_eth_tx_burst` expects a table of mbufs (`packet_ordering.cr:363`). The packet is
neither sent nor freed, though it is counted as sent. One worker is enough: full rings
drop the packets in between.

Observations without a run of their own; where a model has the code, it has it as it
is written.

Transmit and receive:
- `rte_eth_rx_descriptor_done` never looks at the queue number.
- `rte_validate_tx_offload` overlooks four things the descriptions of the flags ask for
  (`Overlooked` of `EthDev`): PKT_TX_IPV4 with an IP checksum, PKT_TX_IPV4 and PKT_TX_IPV6
  not both, a segment size with PKT_TX_UDP_SEG, and, for a packet whose flags are
  outside `PKT_TX_OFFLOAD_MASK`, the headers. `PKT_TX_UDP_SEG` is missing from that mask,
  documented as all supported offloads (`rte_mbuf.c:313`), so a packet that asks for
  nothing else is not looked at. The outer headers count only with
  `PKT_TX_OUTER_IP_CKSUM`: a tunnel packet without it passes although its headers are
  in two segments.
- `calc_latency` sets its sums back after 100,000 packets; the model ends before.

l2fwd and packet_ordering:
- After a timeout of the link check the status is never printed: `print_flag` is set in
  the last pass of the loop (`l2fwd.cr:265`).
- A link that is down but reports other flags counts as up (`l2fwd.cr:249`).
- `rx_port_list` has 16 entries and -q is not bounded by it (`l2fwd.cr:398`).
- A burst that rx_to_workers refuses whole is counted nowhere (`packet_ordering.cr:276`).
- send_thread has no drain interval: the last packets of a burst wait in the transmit
  buffer until more come (`packet_ordering.cr:389`).

load_balancer:
- A remainder smaller than a bulk stays in a ring until more packets come
  (`runtime.cr:172`): `ArraysFlushed` is about the arrays and not about the rings.
- `runtime.cr:42` counts failures as successes, `runtime.cr:187` takes nic_ports_iters for
  the count, io.tx.mbuf_out has 16 entries and is indexed by port (up to 32), and rules
  are stored past the eighth without a test (`config.cr:101`).
- The number of workers is not checked to be a power of two, which the mask of
  `runtime.cr:112` needs; the model assumes that it is one (`LoadBalancerAssumption`).
- RSS asks for `ETH_RSS_IP` only: packets the NIC knows to be TCP or UDP may all land in
  the first queue.

Interfaces:
- `tap_rx_to_ring` takes what `rte_pktmbuf_alloc` returns untested (`tap.cr:22`). When the
  pool is empty, the next turn dereferences NULL (`tap.cr:12`); the model's status is then
  `crash`, and the run `hostif` reaches it.
- `kni_create` never closes its socket, reports "up" although the interface is not when
  socket or SIOCGIFFLAGS fails, and loops for ever for a port number that is below
  RTE_MAX_ETHPORTS but has no device.
- Requests of `kni_create` are answered a turn late, so the loop sends a second one before
  it sees the link up. That one restarts the port (stop, then start), and when the
  start fails the link is up over a stopped port and nobody reads the refusal.
  `KniAnswers` says that this is the only way as long as nobody else takes the
  interface down.
- A request to take the interface down whose sender has stopped waiting is still
  handled, after the link came up again, and its answer may be taken for that of an
  up request: the port is then stopped under an up link without a failed start.
- The results of netlink requests are ignored. `tap_netlink.c` and `netlink.c` are copies
  that nothing calls.
- `setup_tap_host` runs only if `@tap_host_fd < 0`, which starts as 0; `setup_kni_host` only
  if `@kni_host` is not null.

Others:
- The SSE copy loads up to 15 bytes before the source when only the destination is
  aligned, as its comment says (`rte_memcpy.c:755`); they are on a page of the source.
- `rte_lcore_foreach_worker(limit)` visits limit + 1 lcores. With wrap and skip_master and
  no lcore but the master, `rte_get_next_lcore` would not end; nothing calls it so.
- With `ShareIndirect = TRUE` in `MbufRefcnt`, which lets two lcores hold one indirect mbuf
  by its own count, `UniqHolder` fails: both read the owner's count as 1 when they clone
  and one update is lost (`rte_mbuf.c:780`). No code of the repository shares an indirect
  mbuf.
- `lcore_tx` of the distributor skips a packet for a port that is not enabled without
  freeing it (`distributor.cr:407`); `rte_eth_tx_burst!` retries until the driver took all
  and does not look at the quit flag (`base.cr:299`).

## Not modelled

Weak memory: loads and stores happen in program order, as on x86, the target
the Makefile names (`src/Makefile:26`); the barrier that is commented out in
`rte_ring_extra.c:19` is outside the model. Payload bytes, printing, argument parsing,
device configuration and all of librte beyond what the code calls.

What is left of the C files is declarations: of `rte_ethdev.c` the structures and
prototypes of librte_ethdev, of `rte_mbuf.c`, `rte_ring.c` and `rte_lpm.c` flag names,
prototypes and the accessors of one field. The distributor and the timer are calls of
librte_distributor and librte_timer, whose behaviour the repository does not contain.
The application base and the smaller examples repeat protocols of `L2fwd` and `EthDev`.
Bindings and runtime patches have no state of the program.

## Plan

The burst macros of `src/src/lib/base.cr` and the folded and incremental checksums of
`packets.cr` against a reference sum.

Runs are merged by module rather than multiplied, so that the whole project stays
quick enough to check after each change of the code.
