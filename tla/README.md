# CleanQ in TLA+

Models, model-checking runs and proofs for CleanQ, the queue interface that
this repository adds to DPDK 18.11.1, and for two concurrent libraries of DPDK
that its data path and its applications rest on: the ring and the timers. CleanQ passes *ownership of buffers*
between two endpoints: an application and a network card, two processes, or two
software modules stacked on each other. A buffer is named by a region id and an
offset, regions are registered first, and whoever dequeued a buffer last owns it.

Paths below are relative to `src/dpdk-stable-18.11.1/`; `cq/` stands for
`lib/libcleanq/src/`.

## 1. Inventory

| component | source | state | operations |
|---|---|---|---|
| region pool | `cq/region_pool.c` | table of regions hashed by id, its size, count, random id offset, search offset | init, add, add with id, grow, remove, destroy, bounds check, id -> base, base -> id |
| queue interface | `cq/queue_interface.c`, `queue_interface_internal.c` | a pool and a table of backend functions per queue | enqueue, dequeue, register, deregister, notify, control, destroy |
| loopback backend | `cq/backends/loopback/loopback_queue.c` | ring, head, tail, count | create, enqueue, dequeue, destroy |
| IPC backend | `cq/backends/ipc/ipcq.c` | two shared-memory rings with per-slot sequence numbers and an ack each; local sequence numbers | create (with or without clearing), enqueue, dequeue, register, deregister, destroy |
| debug module | `cq/backends/debug/cleanq_debug_module.c` | per region the list of owned chunks, a history | register, deregister, enqueue (split), dequeue (merge), destroy |
| slab allocator | `cq/slab.c` | list of slabs, free lists | init, grow, alloc, free, refill |
| DPDK glue | `cq/queue_dpdk.c`, `cleanq_pmd_ixgbe.c` | the region pool of each of the card's queues | register a mempool, mbuf <-> CleanQ buffer |
| ixgbe receive queue | `drivers/net/ixgbe/ixgbe_cleanq.c`, `ixgbe_rxtx.c` | descriptor ring shared with the card, software ring, tail and reclaim index, card registers | enqueue, dequeue, receive burst, start, stop, reset |
| ixgbe transmit queue | same, `ixgbe_rxtx_vec_common.h` | the same plus the RS and DD threshold cursors and the installed operations | enqueue, dequeue, start, stop and reset (scalar or vector) |
| UDP and IP modules | `lib/libcleanq_udp/src/` | two lower queues, a table of region addresses | register, deregister, enqueue (push header), dequeue (check header), create, destroy |
| benchmarks, tests | `src/benchmark_*`, `src/udp_bench`, `lib/libcleanq/test` | - | users of the library |
| DPDK ring | `lib/librte_ring/` | slots, a head and a tail per side, indices modulo 2^32 | enqueue and dequeue: multi or single, bulk or burst |
| DPDK timer | `lib/librte_timer/rte_timer.c` | per timer a status word, expiry and period; per lcore a list under a spinlock, its cached first expiry, the running timer | reset, stop, manage |
| rest of DPDK | everything else | - | mempool, EAL, other libraries and drivers, applications (section 7) |

How they interact. The application calls the queue interface, which consults
the region pool of that queue and then calls the backend through the function
table. A stacked module (debug, IP, UDP) is a backend whose functions call those
of the queue below directly. The ixgbe backend shares its descriptor ring with
the card; the IPC backend shares two rings with another process, and forwards
region registrations through the ring, in line with the buffers. The receive burst
that DPDK applications use is a client of the ixgbe backend inside the driver.

The mempools behind the ixgbe queues hand out mbufs through an `rte_ring`, which
any number of lcores share without a lock; the timer library is called by the
lcores' main loops and by its own callbacks.

What is hard. No CleanQ component takes a lock; each queue is used by one thread
per side, so concurrency is between that thread and the *other side*: the card, or
the other process. In the ring and the timers any lcore may be between any two
steps of another. The hard places are (`hazards` in PROJECT.json has them with
their lines):

* ring arithmetic at the wrap, where a full ring and an empty ring look alike;
* a DD bit or a sequence number left over from an earlier lap, an earlier start
  or an earlier process;
* the order of the stores that publish a slot, and of commands and buffers;
* stop and restart while buffers are in the ring, through operations written for
  another transmit path;
* the pool's hashing and growth, ids chosen elsewhere, and failed allocations;
* ids of one queue's pool looked up in the pool or the table of another;
* waits without a timeout (register on a full IPC ring, a ring call behind an
  earlier one) and polls that must eventually see every packet;
* reservations made in one step and published in another, by several threads;
* a status word and a list lock that are taken separately, callbacks that stop or
  restart their own timer, and a check made outside the lock.

Properties that make each component correct: the pool must keep every live id
resolvable and its regions disjoint; a backend must be a FIFO channel that
neither loses nor duplicates a buffer; the card must only touch buffers that
software has posted; what was sent must arrive and what was posted must come
back; the ring must be a FIFO queue of batches for any number of threads; a timer
must be where its status says, run when it has expired, and be out of the
library's hands once it is stopped.

## 2. Modules

| module | models | uses |
|---|---|---|
| `RegionPool` | `cq/region_pool.c` | - |
| `RegionPoolSlab` | `cq/slab.c` under the region pool | `RegionPool` |
| `PoolReplicas` | the two pools of an IPC queue: `ipc_reg`, `ipc_dereg`, `cleanq_register`, `cleanq_deregister` | two copies of `RegionPool` |
| `RegionPoolProofs` | theorems about the pool, its slabs and its replica | `PoolReplicas`, `RegionPoolSlab`, `SlotIndex` |
| `SlotIndex` | lemmas on indices modulo a table or ring size | TLAPS |
| `FifoChannel` | what a backend promises of one direction (abstract) | - |
| `Loopback` | `loopback_queue.c`, `cleanq_destroy` | implements `FifoChannel` |
| `Ipcq` | `ipcq.c` under `cleanq_enqueue/dequeue/register/deregister` | each direction implements `FifoChannel` |
| `IpcqProofs` | buffers, tables and the refinement, proved | `Ipcq`, `SlotIndex` |
| `IxgbeRx` | `ixgbe_rx_cleanq_enqueue/dequeue`, queue start, stop, reset, the card | - |
| `IxgbeRxBurst` | `ixgbe_recv_pkts_cleanq` | `IxgbeRx` |
| `IxgbeRxProofs` | buffers, order and refill, proved | `IxgbeRxBurst`, `SlotIndex` |
| `IxgbeTx` | `ixgbe_tx_cleanq_enqueue/dequeue`, queue start, stop and reset through the scalar and the vector operations, the card | - |
| `IxgbeTxProofs` | buffers, thresholds and the card, proved | `IxgbeTx`, `SlotIndex` |
| `DebugQ` | `cleanq_debug_module.c` under the queue interface | `FifoChannel` as the queue below |
| `BackendProofs` | the loopback ring's refinement and the debug module's chunk lists, proved | `Loopback`, `DebugQ`, `SlotIndex` |
| `UdpStack` | `cleanq_module_udp.c`, `cleanq_module_ip.c` on the card's queues, each queue with its own pool of ids | - |
| `UdpStackProofs` | its safety properties, proved | `UdpStack`, `SlotIndex` |
| `BatchFifo` | what a ring promises its threads (abstract) | - |
| `RteRing` | `rte_ring_generic.h`, `rte_ring.h` | implements `BatchFifo` |
| `RteTimer` | `rte_timer.c` | - |
| `RteProofs` | the ring's reservations and refinement, the timers' lists and status words, proved | `RteRing`, `RteTimer`, `SlotIndex` |
| `MC...` | constants and symmetry for TLC | the module named |

In every module a definition whose name extends the name of the one that
follows it (`MustGrowLate` above `MustGrow`) is a deliberately wrong variant of
it; section 4 says which property notices.

### RegionPool

Variables are the fields of `struct region_pool`; `pool` maps slots to regions
or `NULL`; `status` records whether the pool exists and whether a call has
dereferenced an empty slot; `call` is the last call and its result. One action
per function. `region_pool_grow` is part of the two adds that call it (`Pool1`,
`Size1`, `LastOffset1` are the table after the possible growth). `id & (size-1)`
is `id % size`, sizes being powers of two. The search loop of
`region_pool_add_region` is the choice of the first probe that hits an empty
slot; that one exists is the property `SlotSearchTerminates`. `U16` is the range of
`uint16_t`, shrunk in the runs so that the search offset wraps; the tables stop short
of the doubling that overflows `new_size` (`GrowFaults`). A failed
`calloc` or `slab_alloc` is an alternative of each call when `AllocMayFail`.

### RegionPoolSlab

Adds the allocator's list of slabs and the block each region lives in. Every
action is the pool's own, conjoined with what it does to the slabs: an add that
stores a region takes the first free block of the first slab that has one, after
putting a new slab in front if none has; a remove gives the block back to the
slab its address lies in. `slab_alloc` can fail only when a refill was needed.
Destroying the pool forgets the slabs.

### PoolReplicas

The pool of the registering end is `RegionPool` itself, the other end's is a second
instance `B`. A register or deregister that the first pool accepts travels through
`chan` (at most `ChanCap` commands; the ring itself is `Ipcq`'s subject) and is
applied to `B` by the dequeue. The two ends do not store the same base: the sender's
pool keeps `cap.paddr`, the command carries `cap.vaddr` (`ipcq.c:280`, `Reg`), and the
receiver puts that into both fields of its capability (`ipcq.c:239-240`,
`ReceivedCap`). `Vaddr` says where each area is mapped. So what the replica
follows is ids, lengths and slots; the bases are equal only where an area's virtual
address is its physical one. A full ring holds the caller up between the two
halves of its call, when nobody looks at its pool, so the wait comes first.

### Loopback, FifoChannel

The ring as in the code: `head`, `tail`, `num_ele`. The refinement mapping reads
the channel's contents off the ring from `tail` on. Register, deregister, notify
and control of this backend return at once and have no action. `cleanq_destroy`
is two steps because the memory the second one reads was freed by the first.

### Ipcq

`ring[e]` is the ring end `e` writes, `ack[e]` the acknowledgement its reader
stores in that ring's first cache line. End `a` is `test/main.c`, end `b` is
`test/echo.c` (which clears the memory). Every call is cut where
the other process could see the difference, not at every load and store: storing all of the slot's fields
(`StoreFields`: the reader looks at none of them before the sequence number), storing the sequence number (`Publish`), copying a slot
(`Read`), storing the ack (`Ack`), and the recursive retry after a command
(`pc = "again"`). Stores become visible in program order, as on x86 and with a
compiler that keeps them in order; the barrier in the source is commented out.
`known` is the region pool reduced to what an id resolves to; the pool's own
behaviour is the subject of `RegionPool`. Shared memory outlives processes, so `Init`
lets both rings hold the messages of an earlier session. Every buffer has a
`holder`; a buffer that fails the check of `cleanq_dequeue` is `"lost"`, since the
slot has been given up by then.

### IxgbeRx, IxgbeRxBurst, IxgbeTx

The software ring, the descriptor ring, the driver's indices, and the card's
head and tail registers. The card is external: on receive it completes the
descriptor at its head while head and tail differ; on transmit it sends the one
at its head and reports it if RS was set. An enqueue is one action: the card
sees nothing of it before the tail register is written, which is the last thing
it does; a dequeue reads one descriptor. `Stop` releases the buffers and resets
the rings as the code does; `Start` programs the registers (the card is enabled a
few register writes before that, which the model treats as one step).
`IxgbeRxBurst` cuts the burst into its loop iterations, with
the card running between any two of them; between bursts (`Direct`) the same thread
may call enqueue and dequeue itself, as the IP module does, and stop and start
the queue. A direct enqueue to the receive ring leaves one slot free, which is
the caller's duty: section 5 shows that the code does not see to it.

The transmit queue is used through enqueue and dequeue only:
`ixgbe_xmit_pkts_cleanq` is assigned at `ixgbe_rxtx.c:2538` and overwritten on every
path of `ixgbe_set_tx_function` (2554, 2557, 2567), so no burst calls it. The same
function installs the operations a stop goes through. `TxqOps` is its choice:
the vector ones for a queue without offloads whose batch has the right size (the
default), the scalar ones otherwise, or in a build without them. `ScalarReset` frees
what the software ring holds. `VectorReset` frees nothing, because
`nb_tx_free`, which the CleanQ functions never touch, says that nothing is posted; it
clears the first half of the software ring only (it takes entries of 16 bytes for ones of
8, `ClearedByVector`), and leaves `tx_recl` where it was. Enqueue has the code's full test, which does not see
the wrap, so the ring may be overfilled; a buffer whose slot is overwritten is
`"lost"`, and a dequeue of an empty slot is a `fault`. `health` is a history variable:
`"broken"` from the step on that closes the ring, for software (the tail meets
`tx_recl`) or for the card (it meets the head register, which may be behind `tx_recl`),
or that resets a ring in use with the vector operations; `"repaired"` after a scalar
reset. The properties say what holds in each case.

### DebugQ

`regions` is the module's list of regions, each with its list of chunks
`[offset, length]`. `Remains` is `remove_split_buffer`; `InsertAfter` and
`InsertBefore` are the two halves of `insert_merge_buffer`, on the list as a
sequence (the `prev` and `next` pointers are its order). The search of
`debug_dequeue` hands `insert_merge_buffer` a chunk beyond the buffer or the last
one, so the merges of the first half with a following chunk are not reached.
`region_pool` is the queue interface's own table of ids, which `cleanq_deregister` changes before
the module may refuse. The queue below is `FifoChannel`. `clobbered` marks the
step in which line 804 changes a chunk of another region; the model ends there, as
it ends where a null pointer is read (`ret = "FAULT"`).

### UdpStack

Three queues have a region pool each: the UDP queue and the card's two. `ids[q][r]`
is the id of region `r` in the pool of queue `q`; every pool starts from a random offset
of its own (`region_pool.c:129-132`), so nothing makes the ids agree. The IP queue's
pool is never asked: the UDP module calls the IP functions directly. `udp_regions`
and `ip_regions` are the modules' tables of addresses, indexed by `id % MaxRegions`
(64) with the ids of the UDP queue; `PoolSize` gives each pool a size of its own, larger than a
table too. `Found` is a look-up in a pool (by slot: ids are not compared), `Entry` one in
a table. A buffer comes up with the id of the card's queue (`IdOf`), and goes down with
the id of whichever queue the application asked, as `benchmark_cleanq_udp/main.c`
does: it fills the receive ring with the receive queue's ids, sends with the UDP queue's
and re-posts under the transmit queue's. What the program then does to memory is
`Outcome`: the right region, an address made of a missing base (`"fault"`), or
the memory of another region (`"astray"`). The last two end the model in `status`, which
`"overrun"` does as well, when a full ring looks empty or a tail register meets the head.

`rx` and `tx` are the card's rings seen from the reclaim index, with the full test of
`ixgbe_cleanq.c:104` and `:371` (`Full`) and the reclaim of `IxgbeTx` (`BatchDone`): a
transmit buffer comes back when the last descriptor of its batch carries a DD bit, also one
of an earlier lap, so `tx_pending`, what the card has still to send, may exceed
what is posted. `mem` is the two headers in each buffer: lengths, the port, and what
checking the IP header finds. One action per call of the queue
interface: the two modules run to completion inside it.

`coherent` is a history variable: every region of the UDP queue has had the same id in
all three pools, and a table entry of its own, so far. The properties that
need it say so; the others hold for pools that disagree.

### RteRing, BatchFifo

One step per access to shared memory: the read of the head (`Begin`, `ReadHead`),
of the other side's tail (`ReadTail`), the compare-and-set or store of the head
(`MoveHead`), the copy (`CopyIn`, `CopyOut`), and the store of the tail once the
earlier calls have published (`UpdateTail`). The copy is one step although the
code copies pointer by pointer: `Reservations` says that nobody else touches those
slots. Enqueue and dequeue share the actions, told apart by `Side`. Indices run
modulo `U32`. A `single` call (the sp and sc functions) is made only while nobody
else is on that side, as their documentation demands. The refinement mapping
takes the queue from the consumers' head to the producers' tail: an enqueue takes
effect at its `UpdateTail`, a dequeue at its `MoveHead`, and what a consumer took is
read off its slots until it has copied them.

### RteTimer

`status`, `expire` and `period` are the timer's fields; `list`, `head_expire` and `lock` the
pending list of each lcore (level 0 of the skip list), the expiry cached in its
dummy head and its spinlock. A reset or stop is a record `op[l]` that goes through
`config` (the compare-and-set of the status), `del` (one critical section), `add`
(link, keeping the lock) and `pending` (status, then unlock), or `stop`. `mpc` is the
place in `rte_timer_manage`: the check outside the lock, the break of the list, the
marking of each expired timer, and the callbacks, inside which the lcore may
itself reset and stop timers. Re-arming a periodical timer runs the same reset
under the lock manage already holds (`locked`). `PrevEntries` is the walk of
`timer_get_prev_entries`, which both `timer_add` and the break of the list use. `Ops` is
the set of calls in progress; `NONE`, the absence of one, is not among them.

## 3. Runs

| run | question | instance |
|---|---|---|
| `region_pool` | ids assigned by one pool and repeated by its replica: no fault, search ends, regions disjoint, translations inverse, the replica ends up with the same ids and lengths in the same slots | 2 slots growing to 4, five areas (one overlapping two others), 2 commands in flight |
| `region_pool_ids` | ids also chosen by the other end, allocations may fail, blocks come from slabs: ids resolve, count brackets, blocks conserved, nothing lost | 2 slots growing to 8, four foreign ids that collide with each other and with assigned ones, 2 blocks per slab |
| `ixgbe_rx` | burst and direct use of the receive queue: buffers, order, the refill count, delivery, refill | 3 descriptors, 3 buffers, bursts of 2 |
| `ixgbe_rx_overfill` (violation) | does the enqueue keep one descriptor free? | 4 descriptors, 4 buffers |
| `ixgbe_tx` | the transmit queue beyond its limits: buffers, thresholds and full batches also in overfilled rings and after both kinds of reset; in an intact ring the card is never blind to posted work and every buffer comes back | 6 descriptors in batches of 2, 7 buffers |
| `ixgbe_tx_early_reclaim` (violation) | is a reclaimed buffer always one the card has sent? | 6 descriptors in batches of 2, 3 buffers |
| `loopback` | the ring implements a FIFO channel of its size | 4 slots |
| `ipcq` | both directions are FIFO channels; buffers, tables, progress | 2 slots, 5 messages per end, 2 regions of 2 buffers, 2 ids |
| `debugq` | the chunk lists say exactly what is owned | a region of four buffers of one length, one foreign region with two, 3 descriptors, 2 list entries |
| `udp_stack` | three pools that may disagree: places, headers and checks in any case; while they agree, no missed look-up, no lost buffer, good frames arrive | 2 regions with 2 and 1 buffers in use, 3 ids, tables of 2, pools of 4, 2 and 4 slots, rings of 3, two packets of different length and port |
| `rte_ring` | reservations, the refinement of `BatchFifo`, progress | 3 threads: one enqueues, one dequeues, one does both; batches of 2, 4 slots (3 usable), indices modulo 8 |
| `rte_timer` | lists and status words, stopped timers, the quick check, progress | 2 lcores that manage, one of which calls from its main loop, 2 timers, delays of 1, two clock values, one call per callback |

Why the bounds are enough. Rings wrap at least twice in every ring run, so every
index meets every other, and stale descriptors of an earlier lap are present;
three or four descriptors leave room for a full ring, an empty ring, and one
that is neither. (Four receive descriptors with four buffers exceed what the
liveness check can do in minutes; the wrap and the full ring occur with three.) Transmit needs three batches, so that the batch being filled,
the one in flight and the one whose DD bit is stale can differ; seven buffers on
six descriptors fill the ring, overwrite what is posted and go on from there, and
let the tail catch the card's head. Which buffer the application posts
makes no difference to the driver, so `MCIxgbeTx` posts the one numbered like the slot
while it can. The pool grows
once with every slot taken by assigned ids and twice with foreign ones, so ids
are re-hashed out of both halves; five areas fill the first table and overflow
it. In `Ipcq` five messages per end lap a ring of two slots twice.
Batches of two in a ring that holds three make bursts cut short, bulk calls
refused and copies that wrap; with three threads two may compete on either side
while the third is suspended anywhere in its call, and indices modulo 8 wrap every
other lap. The instance of the timers lets a timer be stopped, reset, moved to the
other lcore, run and re-armed in every order; a second clock value makes expired and
unexpired timers differ. Two blocks per slab make eight regions span several
slabs, freed in any order.
Counters are bounded by `MaxSeq` (messages), `MaxTime` (the clock), `CbCalls` (calls
per callback), `ChanCap` (commands in flight) and, in `RteRing`, by `NoneOvertaken`: a
thread is not suspended while others move the head by the whole range of the
index, 2^32 objects in the code; the compare-and-set could not tell. The width of the 64-bit sequence
numbers is not reached in the life of a process. Deadlock checking is off only
in `ipcq` (processes may end, and an end that spins on a peer that has gone
never returns), in `ixgbe_tx` (a driver that dereferenced a null mbuf is gone), in `loopback`
(a destroyed queue), in `region_pool_ids` (a pool that faulted stays so), in `debugq` (the
model ends at a fault) and in `udp_stack` (the model ends when a look-up misses or a
ring is overrun).
`MaxEntries` bounds the list of `DebugQ`: two entries are an own and a foreign
region in either order. Four buffers in one region give every split (front, back,
middle, whole) and every merge (below, above, both, neither). In `udp_stack` region 1
has one id everywhere; region 2 has one of two, of which one shares region 1's table entry
although the pools, which have more slots, keep them apart. So the pools agree, differ or collide.
`MCUdpStack` registers as an application's set-up does, the card's queues first, and posts the lowest free
buffer of a region; once the pools disagree the registrations stay as they
are. Three buffers fill a ring of three descriptors, and one batch of three is enough for a
transmit buffer to come back unsent; `ixgbe_dev_tx_queue_setup` demands longer rings, of
which `ixgbe_tx` has the shortest, and the theorems cover all.

Symmetry in buffers is used in the two violation runs only, which have no
liveness property.

Fairness. `IxgbeRxBurst`: weak fairness of the burst, since applications poll in
an endless loop (`benchmark_*/main.c`); none for the card, nor for the application
freeing buffers. `IxgbeTx`: weak fairness of the dequeue, since the application's loop
polls for buffers that come back (`benchmark_cleanq_udp/main.c:246-276`), and of the card (an
enabled queue transmits); none of posting, stopping or starting. `UdpStack`: weak fairness
of the dequeue (the loop of `benchmark_cleanq_udp/main.c`), none for the card. `Ipcq`: both
processes are started, a call that can return does, and each end keeps polling, as
the two loops of the tests do; nobody is obliged to send, register or exit, and
the liveness properties excuse an end whose peer has gone. `RteRing`: weak fairness of
each thread's steps inside a call, since a ring's users are lcores that
are not preempted (`doc/guides/prog_guide/env_abstraction_layer.rst:463` rules
preemption inside a call out); nobody has to make a call. `RteTimer`: strong fairness
of each lcore's steps, because a spinlock that is freed again and again is obtained
in the end though it need not be free at every moment, and of entering
`rte_timer_manage`, which "must be called periodically" (`rte_timer.h:287`); no fairness
for the clock or for users.

## 4. What notices which mistake

| wrong variant | mistake | property |
|---|---|---|
| `MustGrowLate` | growth test off by one | `SlotSearchTerminates` |
| `ConflictsSameBase` | overlap test compares base addresses only | `RegionsDisjoint` |
| `NewIndexUnhashed` | regions keep their slot when the table grows | `LiveIdsResolve`, `TranslationsInvert` |
| `SendAlways` | a registration the pool refused is sent on | `ReplicaFollows` |
| `StoreWithIdUncounted` | add with id forgets the count | `CountBounds` |
| `SlotTakenIgnored` | add with id overwrites | `RegionsSurvive` |
| `SlabHoldingFirst` | a block is freed to the newest slab | `BlocksConserved` |
| `ReleasedOwnersForgotten` | stop leaks the posted buffers | `BuffersConserved` |
| `StartKeepsHead` | start does not reset the head register | `CardOwnsPending` (receive), `CardSeesPosted` |
| `PostDescKeepsDD` | posting does not clear DD | `DequeueInOrder`, `FullBatchReclaimSafe` |
| `RefillCountFull` / `RefillCountNoWrap` | refill one too many / ignore the wrap | `RefillFits` / `CardIsFed` |
| `CanDequeueNext` | dequeue looks at the next descriptor | `PacketsDelivered` |
| `NextDdAfterEarly` | DD cursor moves one buffer early | `ThresholdsAligned` |
| `PostDescRsEarly` | RS set on the descriptor before the last of a batch | `PostedReclaimed` |
| `FullNever` | no full test | `Loopback!ImplementsFifo` |
| `AckNext`, `AckSlot` | ack one too far, ack as a slot index | `BuffersConserved`, `RegisterReturns` |
| `SlotStoreSwapped` | sequence number stored before the fields | `ImplementsFifo` |
| `KnownAfterSticky` | a deregistration is not applied | `NoBufferLost` |
| `CanReadLate` | reader waits for the next lap | `EverythingArrives` |
| `RemainsNoTail` | split loses the second half of a chunk | `ChunksExact` |
| `InsertBeforeNoMerge` | a buffer between two chunks joins only one of them | `ChunksMerged` |
| `InBoundsNoLower` | bounds test without the lower bound | `ReturnsAccepted` |
| `RequeuedForgotten` | a dropped packet's buffer is not given back | `BuffersConserved` |
| `SlotOfShort` | table index modulo one less | `Addressable` |
| `UdpPushedShort` | UDP length includes the IP header | `HeadersInPlace` |
| `IpCheckNoProto` | protocol not checked | `FilterExact` |
| `RxReadyLate` | last completed packet not seen | `GoodFramesDelivered` |
| `FreeEntriesByHead` | producers go by the consumers' head, not their tail | `Reservations` |
| `MoveHeadStores` | the head is stored without a compare | `Reservations` |
| `UpdateTailAtOnce` | no wait for earlier reservations | `RingIsFifo` |
| `UpdateTailByRequest` | the tail moves by the request, not by the grant | `ReservationsPublished` |
| `MarkRunningAll` | a timer being configured is run | `ListsMatchStatus` |
| `ConfigGrantedUnseen` | a callback's own stop or reset is not noted | `StoppedUnreferenced` |
| `DelUncached` | removing the first timer keeps the cached expiry | `FirstExpiryCached` |
| `SetPendingUnlocksFirst` | unlock before the status is set | `ExpiredRuns` |

## 5. Where code and comments disagree

Two runs exhibit a disagreement (`findings` in PROJECT.json quotes the lines): a
reclaimed transmit buffer the card still has to send, and a receive ring filled to
the last slot by direct enqueues (the burst's refill count avoids it).

Met on the way, and the reason for an assumption above:

* `region_pool.c:297`: when `slab_alloc` fails the count stays incremented, so it is
  exact only without allocation failures and `CountBounds` is what holds with them.
  `region_pool.c:179`: the pages of the slabs are not freed with the pool.
  `region_pool.c:375` removes whatever occupies the slot of the id, and
  `region_pool.c:199` cannot double a table of 2^15 slots.
* `region_pool.c:433`: the bounds check compares no ids, so a buffer of an id that
  was never registered passes when another region occupies its slot, although
  `cleanq_debug_module.c:51` relies on the check.
* `ixgbe_cleanq.c:104`: the transmit full test misses the wrap like the receive
  one. With as many buffers as descriptors the ring fills, looks empty to software
  and to the card, and the next enqueue overwrites a posted buffer. Besides, the test looks at
  `tx_recl` only: early reclaim moves it past the card, so with fewer buffers
  too the tail register can catch the head register from behind and the card stops
  (`health` in `IxgbeTx`, `"overrun"` in `UdpStack`).
* `ixgbe_rxtx.c:5538-5541`: the default operations are the vector ones
  (`ixgbe_rxtx_vec_common.h:142-243`). A stop frees no posted buffer, clears half
  of the software ring, and keeps `tx_recl` while `tx_tail` and
  `tx_next_dd` go back, so after a restart a dequeue may hand out buffers of the
  session before or read a null pointer.
* `ixgbe_rxtx.c:2538`: the CleanQ transmit burst is assigned and always overwritten.
* `queue_interface.c:325-330`: `cleanq_destroy` reads `q->pool` after the backend
  freed `q`; `cleanq_module.h:122` describes the opposite order.
* `ipcq.c:278`: two ends that register on full rings wait for each other
  (`Registrars = {"a", "b"}` refutes `RegisterReturns`).
* `ipcq.c:174`: when both ends register, their pools may assign one id twice (equal
  seeds in the same second); the receiver then drops the command silently ("should
  not happen, but is fine!"). `ipcq` and `region_pool` let one end register, as the
  tests do; then the replica refuses nothing (`ReplicaFollows`).
* `cleanq_debug_module.c:475`: the length of the returned buffer is used for the
  chunk's. With buffers of one length `ChunksExact` holds; with `Bufs <- MCMixedBufs`,
  `RegionLen = 4` and no foreign region TLC refutes it in four calls: enqueue
  `[2,4)`, enqueue `[1,2)`, and the return of `[2,4)` makes the list claim `[0,3)`.
* `cleanq_debug_module.c:804`: the first buffer of an unknown region overwrites the
  offset of the first region's first chunk; `:250`: a deregistration while all
  buffers are lent out reads a null pointer. Both are steps of `DebugQ`.
* `queue_dpdk.c:96`, `cleanq_module_ip.c:91,254`, `cleanq_module_udp.c:73,162`: tables filled
  with the ids of the UDP queue's pool are indexed with the ids of the card's queues'
  pools, which come from random offsets of their own (`region_pool.c:129-132`). Unless
  they happen to agree, modulo 64 at least, a received header is read through a missing or a foreign
  base. Even equal ids collide when a pool has grown past 64 slots.
* `cleanq_module_ip.c:122`: `ip_deregister` removes whatever the receive queue's pool has
  under the UDP queue's id; `ip_register` does not add it (the call is commented out).
  After a region is taken away and registered again the pools disagree.
* `ipcq.c:239-240,280`: an IPC queue's two ends store different bases for a region unless
  its virtual address is its physical one.
* `cleanq_module_udp.c:251`: `udp_write_buffer` writes at `offset + 42`, while the
  headers go to `offset + valid_data + 128`: offsets count from the mbuf structure.
* `ipcq.c:356`: if the end that clears starts second, it wipes what was sent before
  (`OrderedStart = FALSE` refutes `EverythingArrives`).
* `rte_ring_generic.h:76-81` and `:146-150` say that the free and the used entries are
  "always between 0" and the capacity. A thread suspended between its two reads
  may compute more; the compare-and-set then fails, so only a refused request for
  more than the ring holds can return such a number.
* `rte_timer.c:283`: "timer must be in a list" does not hold of a timer that manage is
  about to re-arm (`:586`), nor of one it dropped because it was being configured
  (`:546`); `timer_del` copes with both.
* `rte_timer.c:468`: `rte_timer_stop_sync` repeats until it succeeds; called from a
  callback for a timer that waits behind it on the same lcore it never returns. The
  sync forms are repeated calls in `RteTimer` and carry no liveness claim.
* Arithmetic outside the bounds of the runs: `length + offset` in `region_pool.c:440`
  may wrap (`BufferCheckBounds` has the wrap; no caller builds such an offset), and
  so may `expire - 1` (`rte_timer.c:235`) for an expiry of 0.

The loopback, IPC and debug backends are not in the library's Makefile at this
commit (they use the two-argument `cleanq_init` of an earlier interface); they
are modelled as written.

## 6. Proofs

TLAPS checks the theorems of the seven `...Proofs` modules and the lemmas of
`SlotIndex` for every value of the constants that satisfies the named `ASSUME` of
the module concerned: the constants have their types, sizes are positive, `NULL` is
not a buffer or region. What a theorem needs beyond that stands in its statement
as an `ASSUME` of its own and is explained below.

| theorem | property | beyond the module's assumptions |
|---|---|---|
| `LiveIdsAlwaysResolve`, `CountAlwaysBounded`, `RegionsAlwaysSurvive` | `LiveIdsResolve`, `CountBounds`, `RegionsSurvive` | - |
| `RegionsAlwaysDisjoint`, `TranslationsAlwaysInvert` | `RegionsDisjoint`, `TranslationsInvert` | the pool assigns its ids |
| `SlotSearchAlwaysTerminates` | `SlotSearchTerminates` | the same; no failed allocation; at most `U16 / 2` areas |
| `ReplicaAlwaysFollows` | `ReplicaFollows` | no failed allocation |
| `SlabBlocksConserved` | `BlocksConserved` | - |
| `LoopbackIsFifo` | `ImplementsFifo` | - |
| `IpcqBuffersConserved`, `IpcqImplementsFifo` | `BuffersConserved`, `ImplementsFifo` | the end that clears starts first |
| `IpcqNoBufferLost` | `NoBufferLost` | the same; only the other end registers |
| `RxBuffersConserved`, `RxCardOwnsPending`, `RxDequeueInOrder`, `RxRefillFits` | the same without `Rx` | - |
| `TxBuffersConserved`, `TxThresholdsAligned`, `TxFullBatchReclaimSafe`, `TxCardSeesPosted` | the same without `Tx` | - |
| `StackBuffersConserved`, `StackAddressable`, `StackHeadersInPlace`, `StackFilterExact` | the same without `Stack` | - |
| `RingReservations`, `RingRefinesFifo` | `Reservations`, `RingIsFifo` | - |
| `TimerListsMatchStatus`, `TimerStoppedUnreferenced`, `TimerFirstExpiryCached` | the same without `Timer` | - |
| `DebugChunksExact`, `DebugChunksMerged`, `DebugReturnsAccepted` | the same without `Debug` | buffers of one length |

**Region pool.** The inductive invariant is
`IInv == TypeOK /\ LiveIdsResolve /\ CountBounds`. None of its parts is inductive
alone. A growth keeps ids resolvable only if no two regions land in one slot of
the doubled table, which follows from `LiveIdsResolve` itself: regions in different
slots `id % n` have different `id % 2n` (`ModDouble`). The count stays at or above
the number of occupied slots only because a growth keeps that number
(`GrownKeepsCount`) and a remove is refused on an empty slot. It stays at or below
the size because `MustGrow` fires at equality, and the pool that a growth
dereferences is full because the count never exceeds the size. Each operation has
one lemma; inserting a region into a possibly grown table is `InsertPreserves`.
`PowersOfTwo` is assumed of the initial size and of the `uint16_t` range. Failing
allocations are included up to here, and in `RegionsAlwaysSurvive`, which needs
besides `IInv` that a destroyed pool is empty.
Regions stay disjoint because a conflict is looked for in the whole table before it
grows, and every region is one of the areas (`DInv`); the two translations are then
inverse, since disjoint non-empty areas have different bases. Both need that the
pool assigns its ids (`AddIds = {}`): `region_pool_add_region_with_id` looks for no
conflict. The search for a slot ends because the count is exact while no allocation
fails, so that a table which did not grow has a free slot, and `Size1` successive
probes visit every slot, across the wrap of the 16-bit offset, because the size
divides its range (`SInv`, `ProbesReach`). After a failed allocation the count may
reach the size while a slot is empty, which the growth then dereferences. `FewAreas`
(at most half the range of `uint16_t`) excludes the doubling that overflows; foreign
ids are left out because only disjoint regions are as few as the areas.

**Replicas.** Comparing the two tables is not inductive while commands are under
way. `RInv` says that there is a sequence of tables, one per command in `chan`, that
leads from the receiver's table to the sender's as the receiver would have it (`Mirrored`: the same
slots, ids and lengths at the virtual addresses), each command being acceptable to
the table before it (`Joins`). A send appends a table, a receive removes the first.

**Slabs.** `Allotted` numbers the slabs from the oldest, so that a new one in front
disturbs nothing, and says that a free list holds exactly the blocks of its slab
that are nobody's home. That a region gets one home and gives up that one
comes from the pool's own invariant: an add puts at most one region into the table,
under an id no live region has, a remove takes one out (`CallsAndLive`), and a
pool is created only where a destroyed one left none.

**Loopback.** The inductive part of `TypeOK` is
`head = (tail + num_ele) % Size`; the three counters are otherwise unrelated and a
wrap would break the mapping. The refinement mapping reads the channel off the
ring, `num_ele` slots from `tail` on. An enqueue writes a slot outside that walk
(`WalkDistinct`, from `ModLap`), hence appends (`EnqueueSends`); a dequeue shifts the
walk by one (`ShiftTail`), hence takes the head (`DequeueReceives`).

**IPC queue.** `IInv` relates the four counters of a ring (the writer's sequence
number, the ack it sees, the reader's number, the slot the reader has copied but not
given up), says that no slot carries a number not yet sent, what each unread slot
holds in every intermediate step of a call, and that a buffer in flight is in
exactly one message. Two unread messages never share a slot (`ModApart`), so a write
disturbs none. `OrderedStart = TRUE` is the order in which the two tests must be started:
the other order wipes messages (section 5), and what an earlier session left in
the memory would be read as new. For `NoBufferLost` the invariant
`Follows` adds a sequence of region tables, one per message from the registering end,
that leads from the receiver's table to the sender's; each buffer the receiver may
meet, or send back, has its region in all tables from its place on. That is what
an in-line deregistration relies on. `Registrars \subseteq {"a"}` is how the tests
use the queue; with two registering ends ids may clash (section 5).

**Receive queue.** The card's head is between the reclaim index and the tail, the done bit
of a posted slot is set exactly for the slots the card has passed in this lap, and
the filled buffers hold consecutive packets (`Registers`, `Descriptors`, `Packets`).
`RefillRoom` counts what a burst under way has still to post: it is what keeps the
ring from filling to the last slot. The number of buffers is not bounded.

**Transmit queue.** Nothing is assumed of the number of buffers, so the invariant has to say what
survives an overfilled ring and either reset. Always: a buffer has one slot at most, the
tail register is the tail (`TailRegister`), and the done bit of a
posted descriptor is set only if the card has passed it (`ReportInv`), which is all that
`FullBatchReclaimSafe` needs. With the scalar operations, or in an intact ring, every slot of the
window is occupied and the cursors are aligned (`EndOf` is the end of a batch; `EndAdvance`
is why a cursor moves exactly when its index leaves the batch). In an intact ring also the
converse of `ReportInv` holds (`DoneBits`): a done bit is clear only while the card has still to pass
that descriptor, which is `CardSeesPosted`. It is lost when the tail meets the card's head: then the
card sees nothing of a full ring. `Overfills` marks exactly the two steps that close
the ring.

**UDP and IP modules.** A buffer is in at most one place (application, receive ring, transmit
ring), and while the pools agree in one (`Placed`). A dropped packet's buffer
always finds room in the ring it came from, in spite of the full test: a ring that is
not overrun has a free descriptor, the dequeue has made another, and the test errs
on the accepting side only (`HasRoom`). Addresses are right while the pools agree: `Harmony` says that
every region of the UDP queue has one id in all pools and that both tables have it in
that id's entry, from which every look-up of every call finds it (`LookUp`,
`NothingStrays`). A registration keeps that if the entry it writes is no other
region's, which is the second half of `Agree`. Frames and headers need none of this: a buffer that
is read or written through the right region is in one place only, and where the region is
not the right one the model has ended (`StraysIInv`).

**Ring.** `IInv` says that the reservations of each side tile the positions from its
tail to its head (`Tiled`), that both sides and what is stored fit the capacity
(`Fits`), and that what a thread is about to reserve is really there if the
head has not moved since it was read (`Ready`): the other side's tail may have moved,
but only to make room. All positions are distances modulo the index range, and
`NoneOvertaken` excludes a head that returns to the same value. For
the refinement, `Data` says what each thread between its reservation and its
publication has in its slots; a step of another thread writes slots of its own
reservation only, which `Tiled` keeps apart. The abstract queue
is read off the slots from the consumers' head to the producers' tail.

**Timers.** Status words change by compare-and-set, lists under a lock, and the
lock of a list is not held while the status of a timer in it changes. So neither
property is inductive: what connects them is the call in progress. `TimerInv` says
that a timer is in its CONFIG state exactly while one lcore's call is between
taking it and letting go of it (`Held`); that a timer in a list is pending there, or
is held by a call that will take it out of that list, or by one that has just linked
it and still has the lock (`ListsFit`); the same of the timers manage has broken off
(`ScansFit`); and, the other way round, that a pending timer is in its owner's list,
was broken off it, or is about to be set again (`PendingListed`). The last case is the
periodical timer that manage marks pending before it is in a list; another
lcore may take it in between, and then looks for it in a list where it is not
(`RearmsFit`). For the quick check the lists must stay ordered (`ListsOrdered`),
which relates every insertion to the walk that found its place, and deletions and
breaks to the cached expiry (`HeadsCached`). Nothing is assumed of the number
of lcores, timers or callbacks' calls. What the operations do to a list of
any length needs no induction over the list: insertion, removal and break are
concatenations of subsequences (`InsertAtIs`, `RemoveAtIs`, `SplitIs`), and the place where
the walk stops exists because a non-empty set of numbers has a least one
(`PrevEntriesIs`, `RemoveFirstIs`).

**Debug module.** `ChunksExact` compares a list with the queue. Its inductive form
`Fit` is about every entry of the list of regions: the first entry of an id
lists exactly the bytes that are not in the queue below, with the chunks ascending,
not empty and merged (`Merged`); no byte is in the queue twice (`OnceLent`); an own entry is
never marked `not_consistent`. An id may have several entries, since `cleanq_deregister`
frees the id even when the module refuses, and the region may be registered again;
`find_region` then finds the first one, and the invariant needs that the later ones
are whole (`LaterWhole`), so that the list is right when the first is removed. One
lemma says what a splice does at any place of a list of any length (`SpliceIs`,
`MergedSplice`), and from it what each of the four cuts and of the
six insertions does (`RemainsIs`, `PutInOne`, `PutInTwo`, `PutBack`). A buffer that comes
back is in no chunk, because its bytes were in the queue, so it is not refused.
`OneLength` is the hypothesis that all buffers have the same length, wherever they
lie; `NoFalseJoin` is why it is enough for line 475: a chunk that this test joins without
touching the buffer would be followed by a byte in the queue, and the buffer that
byte is in would overlap the one that comes back. Without it `ChunksExact` is false
(section 5). All three speak of the states before line 804 has overwritten another
region's list (`clobbered`), as the properties do.

`TypeOK` of the pool and of the loopback ring is established by these theorems and
is not checked again by a run.

Only model-checked: liveness, since fairness and `ENABLED` are beyond the prover
(`PacketsDelivered`, `CardIsFed`, `PostedReclaimed`, `EverythingArrives`,
`RegisterReturns`, `ReservationsPublished`, `ExpiredRuns`, `GoodFramesDelivered`). Every
invariant, action property and refinement of the passing runs has a theorem.

## 7. Not modelled

Of CleanQ: the internet checksum (vendored lwIP arithmetic), the benchmark counters
and programs, `region.c` (unused), the translation between mbufs and CleanQ buffers
beyond its pool lookups (`TranslationsInvert`, `UdpStack`), notify and control (they only
forward), and `ixgbe_xmit_pkts_cleanq`, which is never installed. Weak memory: stores are seen in program order (see `Ipcq`), and the
barriers of `rte_ring` are taken at their word; `rte_ring_c11_mem.h` is not modelled.

Of DPDK: nearly all of it. The repository vendors DPDK 18.11.1 whole, 1.27 million
lines, of which CleanQ and the code it changed are some 12,000. More than nine
tenths of the rest are drivers for other hardware, their register definitions and
generated headers, test programs and examples; their state is the device's, and
neither this repository's sources nor its tests say how a device behaves. So the
share of all lines that the models cover stays well below one percent, while about
a third of the files that hold CleanQ, the ring and the timers is covered, and of
the CleanQ library itself two thirds. Ring and timers were chosen because they
are what DPDK's data path shares between lcores; the mempool above the ring keeps
a cache per lcore, which is sequential. Further libraries (hash, vhost, event
devices) are not used by anything CleanQ adds. Of the ring, creation and release
(names and memzones) and the entry counters are left out; of the timers, callers
without an lcore id, and a `stop_sync` that waits inside a callback.

## 8. Plan

Models worth adding later: `Ipcq` with both ends registering over two pools, and
`DebugQ` over `Loopback`.
