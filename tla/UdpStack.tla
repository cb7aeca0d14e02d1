------------------------------- MODULE UdpStack -------------------------------
(***************************************************************************)
(* The UDP module on the IP module on a receive and a transmit queue of    *)
(* the card (cleanq_module_udp.c, cleanq_module_ip.c).  Both modules push  *)
(* their header into a packet on its way down and check it on its way up;  *)
(* a packet that is not for this queue goes back to the receive queue.     *)
(*                                                                         *)
(* The UDP queue and the two queues of the card each have a region pool of *)
(* their own, which gives a region an id of its own choosing.  The modules *)
(* fill a table each with the UDP queue's ids, modulo the size of the      *)
(* table, and look into it with whatever id a buffer comes along with.  A  *)
(* pool and a table are looked up by slot only: nothing compares ids.      *)
(*                                                                         *)
(* The card's rings are those of IxgbeRx and IxgbeTx, seen from tx_recl    *)
(* and rx_recl: the full test of both misses the wrap, and a transmit      *)
(* buffer may come back before it was sent.  The card and the application  *)
(* run between any two calls.                                              *)
(***************************************************************************)
EXTENDS Integers, Sequences, FiniteSets

CONSTANTS
  Regions,
  PerRegion,   \* buffers in a region; all regions are laid out alike
  Ids,         \* the region ids a pool may give out
  MaxRegions,  \* MAX_NUM_REGIONS: entries of a module's table
  PoolSize,    \* queue -> slots of its region pool
  Packets,     \* [len, port]: valid_length and port of the packets sent
  Ports,
  DstPort,     \* the port of the peer
  NbDesc,      \* descriptors of each queue of the card
  RsThresh,    \* tx_rs_thresh
  NULL

Queues == {"udp", "rx", "tx"}

(* The tables and the pools may have any sizes: a pool grows when it is    *)
(* full, a table never does.                                               *)
ASSUME StackAssumption ==
  /\ NULL \notin Regions
  /\ PerRegion \in Nat
  /\ Ids \subseteq Nat \ {0} /\ NULL \notin Ids
  /\ MaxRegions \in Nat \ {0}
  /\ PoolSize \in [Queues -> Nat \ {0}]
  /\ Packets \subseteq [len : Nat, port : Ports]
  /\ DstPort \in Ports
  /\ NbDesc \in Nat \ {0} /\ RsThresh \in Nat \ {0}
  /\ NbDesc % RsThresh = 0

Buffers == Regions \X (1 .. PerRegion)

VARIABLES
  ids,          \* queue -> region -> its id in that queue's pool, or NULL
  udp_regions,  \* slot -> the region whose address is stored there, or NULL
  ip_regions,
  app,          \* the buffers the application holds
  rx,           \* the posted receive buffers, from rx_recl to rx_tail,
  rx_done,      \* of which so many are filled
  rx_recl,
  tx,           \* the posted packets [buf, len, port], from tx_recl to tx_tail
  tx_pending,   \* how many of the packets posted last the card has to send
  tx_recl,
  mem,          \* buffer -> the headers in it
  status,       \* "ok"; or how the program left its own rules: "fault" (an
                \* address made of a missing base), "astray" (the memory of
                \* another region), "overrun" (a full ring that looks empty)
  coherent      \* history: the pools have agreed so far

regVars == <<ids, udp_regions, ip_regions, coherent>>
rxVars  == <<rx, rx_done, rx_recl>>
txVars  == <<tx, tx_pending, tx_recl>>
vars == <<ids, udp_regions, ip_regions, app, rx, rx_done, rx_recl, tx, tx_pending, tx_recl,
          mem, status, coherent>>

(***************************************************************************)
(* Headers: what checking the IP header finds ("sent": written by this     *)
(* side), the UDP destination port, and the lengths.                       *)
(***************************************************************************)

IpHeader(what, len)  == [what |-> what, len |-> len]
UdpHeader(dest, len) == [dest |-> dest, len |-> len]

(* Frames the card may receive: for any port, or failing a check of IP.    *)
RxFrames ==
  {[ip |-> IpHeader("good", 0), udp |-> UdpHeader(p, 0)] : p \in Ports} \union
  {[ip |-> IpHeader(w, 0), udp |-> UdpHeader(DstPort, 0)] : w \in {"bad_sum", "bad_ip", "bad_proto"}}

IsGood(f) == f.ip.what = "good" /\ f.udp.dest = DstPort

(* What is left in a buffer that was handed to the application, or back to *)
(* the card with the checksum ip_dequeue has corrected in it: nobody reads *)
(* it before it is overwritten.                                            *)
NoHeaders == [ip |-> IpHeader("none", 0), udp |-> UdpHeader(DstPort, 0)]

NoRegions == [s \in 0 .. MaxRegions - 1 |-> NULL]

(* ip_create: calloc leaves the table empty. *)
IpInit == ip_regions = NoRegions

(* udp_create calls ip_create.  No pool has a region yet. *)
Init ==
  /\ ids = [q \in Queues |-> [r \in Regions |-> NULL]]
  /\ udp_regions = NoRegions
  /\ IpInit
  /\ app = Buffers
  /\ rx = << >> /\ rx_done = 0 /\ rx_recl = 0
  /\ tx = << >> /\ tx_pending = 0 /\ tx_recl = 0
  /\ mem = [b \in Buffers |-> NoHeaders]
  /\ status = "ok"
  /\ coherent = TRUE

(***************************************************************************)
(* Looking up a region.                                                    *)
(***************************************************************************)

SlotOfShort(id) == id % (MaxRegions - 1)

SlotOf(id) == id % MaxRegions

(* The region in the slot of queue q's pool that id falls into, if any.    *)
Found(q, id) == {r \in Regions : ids[q][r] # NULL /\ ids[q][r] % PoolSize[q] = id % PoolSize[q]}

(* The region a module takes id to be, if any. *)
Entry(table, id) == {table[SlotOf(id)]} \ {NULL}

(* region_with_base_addr: the id of r in the pool of queue q, or 0.        *)
IdOf(q, r) == IF ids[q][r] = NULL THEN 0 ELSE ids[q][r]

(* Using what a look-up has found as the memory of region r. *)
Outcome(found, r) == IF r \in found THEN "ok" ELSE IF found = {} THEN "fault" ELSE "astray"

(* Going through the table of one module and then that of the other. *)
TablesOutcome(first, second, id, r) ==
  IF r \in Entry(first, id) THEN Outcome(Entry(second, id), r) ELSE Outcome(Entry(first, id), r)

(***************************************************************************)
(* Registration.                                                           *)
(***************************************************************************)

(* Each region that is registered at the UDP queue has one id at all three *)
(* queues and a slot of its own in the tables.                             *)
Agree(i) ==
  /\ \A r \in Regions : i["udp"][r] # NULL => i["rx"][r] = i["udp"][r] /\ i["tx"][r] = i["udp"][r]
  /\ \A r, s \in Regions :
       r # s /\ i["udp"][r] # NULL /\ i["udp"][s] # NULL =>
         i["udp"][r] % MaxRegions # i["udp"][s] % MaxRegions

(* udp_register, ip_register: each stores the region's address. *)
UdpRegister(r, id) == udp_regions' = [udp_regions EXCEPT ![SlotOf(id)] = r]
IpRegister(r, id)  == ip_regions' = [ip_regions EXCEPT ![SlotOf(id)] = r]

(* udp_deregister, ip_deregister *)
UdpDeregister(id) == udp_regions' = [udp_regions EXCEPT ![SlotOf(id)] = NULL]
IpDeregister(id)  == ip_regions' = [ip_regions EXCEPT ![SlotOf(id)] = NULL]

(* region_pool_add_region: an id that falls into a free slot. *)
PoolAdds(q, r, id) ==
  /\ ids[q][r] = NULL
  /\ Found(q, id) = {}
  /\ ids' = [ids EXCEPT ![q] = [ids[q] EXCEPT ![r] = id]]

(* cleanq_register on the UDP queue. *)
Register(r, id) ==
  /\ status = "ok"
  /\ PoolAdds("udp", r, id)
  /\ UdpRegister(r, id)
  /\ IpRegister(r, id)
  /\ coherent' = (coherent /\ Agree(ids'))
  /\ UNCHANGED <<app, rxVars, txVars, mem, status>>

(* ixgbe_dev_rx_queue_setup and cleanq_pmd_ixgbe_tx_register: a memory     *)
(* pool of the driver or the application is registered at a queue of the   *)
(* card.  Their reg functions do nothing more.                             *)
NicRegister(q, r, id) ==
  /\ status = "ok"
  /\ PoolAdds(q, r, id)
  /\ coherent' = (coherent /\ Agree(ids'))
  /\ UNCHANGED <<udp_regions, ip_regions, app, rxVars, txVars, mem, status>>

(* cleanq_pmd_ixgbe_tx_deregister *)
TxDeregister(r) ==
  /\ status = "ok"
  /\ ids["tx"][r] # NULL
  /\ ids' = [ids EXCEPT !["tx"] = [ids["tx"] EXCEPT ![r] = NULL]]
  /\ coherent' = (coherent /\ Agree(ids'))
  /\ UNCHANGED <<udp_regions, ip_regions, app, rxVars, txVars, mem, status>>

(* cleanq_deregister on the UDP queue.  ip_deregister makes the receive    *)
(* queue forget what it has under the id, although ip_register never told  *)
(* it of a region.  An application takes a region away when it has all its *)
(* buffers back.                                                           *)
Deregister(r) ==
  /\ status = "ok"
  /\ ids["udp"][r] # NULL
  /\ \A n \in 1 .. PerRegion : <<r, n>> \in app
  /\ LET id == ids["udp"][r]
     IN  /\ UdpDeregister(id)
         /\ IpDeregister(id)
         /\ ids' = [q \in Queues |-> [s \in Regions |->
                      IF (q = "udp" /\ s = r) \/ (q = "rx" /\ s \in Found("rx", id))
                        THEN NULL ELSE ids[q][s]]]
  /\ coherent' = (coherent /\ Agree(ids'))
  /\ UNCHANGED <<app, rxVars, txVars, mem, status>>

(***************************************************************************)
(* Downwards.  The application passes on the id it has for the buffer,     *)
(* from the pool of whichever queue it asked.  cleanq_enqueue refuses an   *)
(* id that falls into an empty slot of the UDP queue's pool.               *)
(***************************************************************************)

EthHlen == 14
IpHlen  == 20

MayEnqueue(b, id) ==
  /\ status = "ok"
  /\ b \in app
  /\ ids["udp"][b[1]] # NULL
  /\ Found("udp", id) # {}

(* The program goes on with memory that is not the buffer's. *)
Strays(outcome) ==
  /\ outcome # "ok"
  /\ status' = outcome
  /\ UNCHANGED <<regVars, app, rxVars, txVars, mem>>

Wrap(i) == IF i >= NbDesc THEN i - NbDesc ELSE i

(* The test both rings make, on C ints, of recl and the tail, n further.   *)
Full(n, recl) == recl - Wrap(recl + n) - 1 = 0

(* n posted buffers and one more: the tail index meets the index n behind. *)
Closes(n) == n + 1 >= NbDesc

(* cleanq_buf_to_mbuf of queue q compares lengths in the memory it finds;  *)
(* a missing base is used only once the ring, with n buffers, has taken    *)
(* the buffer.                                                             *)
RingOutcome(q, n, recl, id, r) ==
  IF Found(q, id) = {} /\ Full(n, recl) THEN "ok" ELSE Outcome(Found(q, id), r)

UdpPushedShort(p) == UdpHeader(p.port, p.len - EthHlen)

(* udp_enqueue: length and port into the header. *)
UdpPushed(p) == UdpHeader(p.port, p.len - IpHlen - EthHlen)

(* ip_enqueue: length, id and checksum into the header. *)
IpPushed(p) == IpHeader("sent", p.len - EthHlen)

Pushed(p) == [ip |-> IpPushed(p), udp |-> UdpPushed(p)]

(* udp_enqueue and ip_enqueue write through their tables, then the         *)
(* transmit queue looks for the buffer in its own pool.                    *)
TxOutcome(id, r) ==
  LET tables == TablesOutcome(udp_regions, ip_regions, id, r)
  IN  IF tables # "ok" THEN tables ELSE RingOutcome("tx", Len(tx), tx_recl, id, r)

TxPosts(b, p) ==
  /\ ~Full(Len(tx), tx_recl)
  /\ tx' = Append(tx, [buf |-> b, len |-> p.len, port |-> p.port])
  /\ tx_pending' = tx_pending + 1
  /\ app' = app \ {b}
  /\ status' = IF Closes(Len(tx)) \/ Closes(tx_pending) THEN "overrun" ELSE "ok"

TxRefuses ==
  /\ Full(Len(tx), tx_recl)
  /\ UNCHANGED <<tx, tx_pending, app, status>>

(* cleanq_enqueue with NETIF_TXFLAG.  The headers are written whether or   *)
(* not the ring then takes the packet.                                     *)
EnqueueTx(b, id, p) ==
  /\ MayEnqueue(b, id)
  /\ \/ Strays(TxOutcome(id, b[1]))
     \/ /\ TxOutcome(id, b[1]) = "ok"
        /\ mem' = [mem EXCEPT ![b] = Pushed(p)]
        /\ TxPosts(b, p) \/ TxRefuses
        /\ UNCHANGED <<regVars, rxVars, tx_recl>>

(* cleanq_enqueue with NETIF_RXFLAG: both modules pass the buffer on. *)
EnqueueRx(b, id) ==
  /\ MayEnqueue(b, id)
  /\ \/ Strays(RingOutcome("rx", Len(rx), rx_recl, id, b[1]))
     \/ /\ b[1] \in Found("rx", id)
        /\ ~Full(Len(rx), rx_recl)
        /\ rx' = Append(rx, b)
        /\ app' = app \ {b}
        /\ status' = IF Closes(Len(rx)) THEN "overrun" ELSE "ok"
        /\ UNCHANGED <<regVars, rx_done, rx_recl, txVars, mem>>

(***************************************************************************)
(* Upwards: udp_dequeue calls ip_dequeue, which asks the receive queue     *)
(* first and the transmit queue only if that has nothing.  A buffer comes  *)
(* with the id of the card's queue; cleanq_dequeue checks it against the   *)
(* pool of the UDP queue after it has left the ring.                       *)
(***************************************************************************)

Reclaimed(recl) == Wrap(recl + 1)

Delivered(b, id) == IF Found("udp", id) # {} THEN app \union {b} ELSE app

RxReadyLate == rx_done > 1
RxReady == rx_done > 0

(* The receive ring after its head b was dequeued and enqueued again; the  *)
(* result of that enqueue is ignored.                                      *)
RequeuedForgotten(b) == Tail(rx)
Requeued(b) == IF Full(Len(rx) - 1, Reclaimed(rx_recl)) THEN Tail(rx) ELSE Append(Tail(rx), b)

(* The checks of ip_dequeue: checksum, then address, then protocol. *)
IpCheckNoProto(h) ==
  IF h.what = "bad_sum" THEN "IP_CHKSUM"
  ELSE IF h.what = "bad_ip" THEN "IP_WRONG_IP" ELSE "OK"

IpCheck(h) ==
  IF h.what = "bad_sum" THEN "IP_CHKSUM"
  ELSE IF h.what = "bad_ip" THEN "IP_WRONG_IP"
  ELSE IF h.what = "bad_proto" THEN "IP_WRONG_PROTO" ELSE "OK"

(* The check of udp_dequeue, on what ip_dequeue lets through. *)
UdpCheck(h) == IF h.dest = DstPort THEN "OK" ELSE "UDP_WRONG_PORT"

Passes(f) == IpCheck(f.ip) = "OK" /\ UdpCheck(f.udp) = "OK"

(* ip_dequeue reads the header through its table and, if it passes, so     *)
(* does udp_dequeue; a packet that fails goes back to the receive queue,   *)
(* which looks for the buffer in its own pool.                             *)
RxOutcome(b, id) ==
  LET tables == IF IpCheck(mem[b].ip) = "OK"
                  THEN TablesOutcome(ip_regions, udp_regions, id, b[1])
                  ELSE Outcome(Entry(ip_regions, id), b[1])
  IN  IF tables # "ok" \/ Passes(mem[b]) THEN tables ELSE Outcome(Found("rx", id), b[1])

RxDelivers(b, id) ==
  /\ Passes(mem[b])
  /\ rx' = Tail(rx)
  /\ app' = Delivered(b, id)

RxDrops(b) ==
  /\ ~Passes(mem[b])
  /\ rx' = Requeued(b)
  /\ UNCHANGED app

DequeueRx ==
  /\ status = "ok"
  /\ RxReady
  /\ LET b  == Head(rx)
         id == IdOf("rx", b[1])
     IN  \/ Strays(RxOutcome(b, id))
         \/ /\ RxOutcome(b, id) = "ok"
            /\ RxDelivers(b, id) \/ RxDrops(b)
            /\ mem' = [mem EXCEPT ![b] = NoHeaders]
            /\ rx_done' = rx_done - 1
            /\ rx_recl' = Reclaimed(rx_recl)
            /\ UNCHANGED <<regVars, txVars, status>>

(* DD of the descriptor tx_next_dd, the last of the batch tx_recl is in:   *)
(* it is set unless that descriptor is one of those still to be sent.      *)
BatchDone ==
  LET ahead == RsThresh - 1 - (tx_recl % RsThresh)
  IN  (Len(tx) - 1 - ahead) % NbDesc >= tx_pending

DequeueTx ==
  /\ status = "ok"
  /\ ~RxReady
  /\ tx # << >>
  /\ BatchDone
  /\ LET b == Head(tx).buf
     IN  /\ app' = Delivered(b, IdOf("tx", b[1]))
         /\ mem' = [mem EXCEPT ![b] = NoHeaders]
  /\ tx' = Tail(tx)
  /\ tx_recl' = Reclaimed(tx_recl)
  /\ UNCHANGED <<regVars, rxVars, tx_pending, status>>

Dequeue == DequeueRx \/ DequeueTx

(***************************************************************************)
(* The card.                                                               *)
(***************************************************************************)

CardReceive ==
  /\ status = "ok"
  /\ rx_done < Len(rx)
  /\ \E f \in RxFrames : mem' = [mem EXCEPT ![rx[rx_done + 1]] = f]
  /\ rx_done' = rx_done + 1
  /\ UNCHANGED <<regVars, app, rx, rx_recl, txVars, status>>

CardTransmit ==
  /\ status = "ok"
  /\ tx_pending > 0
  /\ tx_pending' = tx_pending - 1
  /\ UNCHANGED <<regVars, app, rxVars, tx, tx_recl, mem, status>>

Next ==
  \/ \E r \in Regions, id \in Ids : Register(r, id)
  \/ \E q \in {"rx", "tx"}, r \in Regions, id \in Ids : NicRegister(q, r, id)
  \/ \E r \in Regions : Deregister(r) \/ TxDeregister(r)
  \/ \E b \in Buffers, q \in Queues : EnqueueRx(b, IdOf(q, b[1]))
  \/ \E b \in Buffers, q \in Queues, p \in Packets : EnqueueTx(b, IdOf(q, b[1]), p)
  \/ DequeueRx
  \/ DequeueTx
  \/ CardReceive
  \/ CardTransmit

(* The application's loop dequeues for ever. *)
Spec == Init /\ [][Next]_vars /\ WF_vars(Dequeue)

(***************************************************************************)
(* Properties.                                                             *)
(***************************************************************************)

Elements(s) == {s[i] : i \in DOMAIN s}

(* No buffer is ever in two places, and while the pools agree none is      *)
(* lost, not even one whose packet was dropped: the ignored enqueue of     *)
(* ip_dequeue and udp_dequeue succeeds, because the dequeue before it has  *)
(* made room.                                                              *)
BuffersConserved ==
  /\ \A i \in DOMAIN rx : rx[i] \notin app
  /\ \A i \in DOMAIN tx : tx[i].buf \notin app
  /\ \A i, j \in DOMAIN rx : rx[i] = rx[j] => i = j
  /\ \A i, j \in DOMAIN tx : tx[i].buf = tx[j].buf => i = j
  /\ \A i \in DOMAIN rx, j \in DOMAIN tx : rx[i] # tx[j].buf
  /\ coherent => Buffers = app \union Elements(rx) \union {t.buf : t \in Elements(tx)}

(* As long as the pools agree, whatever is in the rings can be addressed   *)
(* by both modules under the id of any queue, and no look-up misses: no    *)
(* address is made of a missing base and no other region's memory is used. *)
Addressable ==
  coherent =>
    /\ status \in {"ok", "overrun"}
    /\ \A b \in Elements(rx) \union {t.buf : t \in Elements(tx)}, q \in Queues :
         /\ Entry(ip_regions, IdOf(q, b[1])) = {b[1]}
         /\ Entry(udp_regions, IdOf(q, b[1])) = {b[1]}

(* A packet in the transmit ring carries the headers of its own enqueue:   *)
(* the lengths of each layer and the port the application gave, whatever   *)
(* was enqueued, refused or received since, and whether or not the pools   *)
(* agree.                                                                  *)
HeadersInPlace ==
  \A i \in DOMAIN tx :
    /\ mem[tx[i].buf].ip = IpHeader("sent", tx[i].len - EthHlen)
    /\ mem[tx[i].buf].udp = UdpHeader(tx[i].port, tx[i].len - EthHlen - IpHlen)

(* "all other packets received on this queue will be dropped"              *)
(* (cleanq_udp.h): only a packet whose frame passes every check reaches    *)
(* the application, and while the pools agree every such packet does.      *)
FilterExact ==
  [][DequeueRx => /\ Head(rx) \in app' => IsGood(mem[Head(rx)])
                  /\ coherent /\ IsGood(mem[Head(rx)]) => Head(rx) \in app']_vars

(* While the pools agree, packets for this queue reach an application that *)
(* keeps dequeueing, however many others are dropped in front of them,     *)
(* unless a ring is overrun first.                                         *)
GoodFramesDelivered ==
  \A b \in Buffers :
    (\E i \in 1 .. rx_done : rx[i] = b /\ IsGood(mem[b]))
      ~> (b \in app \/ ~coherent \/ status # "ok")

=============================================================================
