------------------------------- MODULE IxgbeRx -------------------------------
(***************************************************************************)
(* The receive queue of the ixgbe driver behind the CleanQ interface       *)
(* (ixgbe_cleanq.c, ixgbe_rxtx.c): a ring of NbDesc descriptors shared     *)
(* with the network card, and the software ring of the buffers in it.      *)
(*                                                                         *)
(* Software puts buffers in at rx_tail and takes completed ones out at     *)
(* rx_recl; the card fills the descriptors from its head register rdh up   *)
(* to the tail register rdt and marks each one done (DD).  The card is     *)
(* external: it is modelled from how the driver programs it.               *)
(*                                                                         *)
(* Here the queue is used directly, as the IP module does: buffers may     *)
(* be enqueued and dequeued at any time.  IxgbeRxBurst adds the driver's   *)
(* own receive function.                                                   *)
(***************************************************************************)
EXTENDS Integers, FiniteSets

CONSTANTS
  NbDesc,   \* rxq->nb_rx_desc
  Buffers,  \* the mbufs
  NULL

ASSUME RxAssumption ==
  /\ NbDesc \in Nat
  /\ NbDesc >= 2
  /\ NULL \notin Buffers

VARIABLES
  rx_tail, rx_recl,
  sw_ring,   \* slot -> the buffer posted there, or NULL
  rx_ring,   \* slot -> descriptor [pkt_addr, dd]
  started,   \* whether the card's queue is enabled
  rdh, rdt,  \* the card's head and tail registers
  owner,     \* buffer -> "pool" (free), "ring" (posted) or "app"
  pkt,       \* buffer -> the packet in its memory
  rx_seq,    \* packets received, modulo NbDesc
  app_seq    \* packets taken by the application, modulo NbDesc

swVars   == <<rx_tail, rx_recl, sw_ring, owner, app_seq>>
cardVars == <<started, rdh, pkt, rx_seq>>
vars == <<rx_tail, rx_recl, sw_ring, rx_ring, started, rdh, rdt, owner, pkt, rx_seq, app_seq>>

Desc == 0 .. NbDesc - 1

(* An index advanced by one, wrapping at the end of the ring. *)
Advance(i) == IF i + 1 >= NbDesc THEN 0 ELSE i + 1

(* The number of slots from index lo up to, not including, index hi. *)
Dist(lo, hi) == IF hi >= lo THEN hi - lo ELSE hi + NbDesc - lo

(* i is one of the slots from lo up to hi. *)
Between(i, lo, hi) == Dist(lo, i) < Dist(lo, hi)

(* ixgbe_reset_rx_queue clears every descriptor. *)
ZeroDesc == [pkt_addr |-> NULL, dd |-> FALSE]

(* ixgbe_dev_rx_queue_setup creates the queue, registers its mempool and   *)
(* resets the rings; then the queue is started.                            *)
Init ==
  /\ rx_tail = 0 /\ rx_recl = 0
  /\ sw_ring = [i \in Desc |-> NULL]
  /\ rx_ring = [i \in Desc |-> ZeroDesc]
  /\ started = TRUE
  /\ rdh = 0 /\ rdt = 0
  /\ owner = [b \in Buffers |-> "pool"]
  /\ pkt = [b \in Buffers |-> 0]
  /\ rx_seq = 0 /\ app_seq = 0

(***************************************************************************)
(* ixgbe_rx_cleanq_enqueue.                                                *)
(***************************************************************************)

(* The test is on C ints: it does not see the wrap at the end of the ring. *)
Full == rx_recl - rx_tail - 1 = 0

PostDescKeepsDD(b) == [pkt_addr |-> b, dd |-> rx_ring[rx_tail].dd]

(* Writing hdr_addr = 0 clears the DD bit of the slot's last use. *)
PostDesc(b) == [pkt_addr |-> b, dd |-> FALSE]

Enqueue(b) ==
  /\ ~Full
  /\ sw_ring' = [sw_ring EXCEPT ![rx_tail] = b]
  /\ rx_ring' = [rx_ring EXCEPT ![rx_tail] = PostDesc(b)]
  /\ rx_tail' = Advance(rx_tail)
  /\ rdt' = rx_tail'
  /\ owner' = [owner EXCEPT ![b] = "ring"]
  /\ UNCHANGED <<rx_recl, app_seq, cardVars>>

(***************************************************************************)
(* ixgbe_rx_cleanq_dequeue.                                                *)
(***************************************************************************)

CanDequeueNext  == rx_recl # rx_tail /\ rx_ring[Advance(rx_recl)].dd

CanDequeue ==
  /\ rx_recl # rx_tail
  /\ rx_ring[rx_recl].dd

Dequeue ==
  /\ CanDequeue
  /\ sw_ring[rx_recl] # NULL
  /\ sw_ring' = [sw_ring EXCEPT ![rx_recl] = NULL]
  /\ owner' = [owner EXCEPT ![sw_ring[rx_recl]] = "app"]
  /\ rx_recl' = Advance(rx_recl)
  /\ app_seq' = (app_seq + 1) % NbDesc
  /\ UNCHANGED <<rx_tail, rx_ring, rdt, cardVars>>

(* The application is done with a buffer (rte_pktmbuf_free). *)
AppFree(b) ==
  /\ owner[b] = "app"
  /\ owner' = [owner EXCEPT ![b] = "pool"]
  /\ UNCHANGED <<rx_tail, rx_recl, sw_ring, rx_ring, rdt, app_seq, cardVars>>

(***************************************************************************)
(* The card: a packet arrives and fills the buffer at the head.            *)
(***************************************************************************)

CardReceive ==
  /\ started
  /\ rdh # rdt
  /\ pkt' = [pkt EXCEPT ![rx_ring[rdh].pkt_addr] = rx_seq]
  /\ rx_ring' = [rx_ring EXCEPT ![rdh].dd = TRUE]
  /\ rdh' = Advance(rdh)
  /\ rx_seq' = (rx_seq + 1) % NbDesc
  /\ UNCHANGED <<swVars, started, rdt>>

(***************************************************************************)
(* ixgbe_dev_rx_queue_stop releases the posted buffers and resets the      *)
(* rings; packets not yet taken are dropped.  ixgbe_dev_rx_queue_start     *)
(* programs the registers for whatever was posted in between.              *)
(***************************************************************************)

ReleasedOwnersForgotten == owner

ReleasedOwners ==
  [b \in Buffers |-> IF \E i \in Desc : sw_ring[i] = b THEN "pool" ELSE owner[b]]

Stop ==
  /\ started
  /\ started' = FALSE
  /\ owner' = ReleasedOwners
  /\ sw_ring' = [i \in Desc |-> NULL]
  /\ rx_ring' = [i \in Desc |-> ZeroDesc]
  /\ rx_tail' = 0 /\ rx_recl' = 0
  /\ app_seq' = rx_seq
  /\ UNCHANGED <<rdh, rdt, pkt, rx_seq>>

StartKeepsHead ==
  /\ ~started
  /\ started' = TRUE
  /\ rdt' = rx_tail
  /\ UNCHANGED <<swVars, rx_ring, rdh, pkt, rx_seq>>

Start ==
  /\ ~started
  /\ started' = TRUE
  /\ rdh' = 0 /\ rdt' = rx_tail
  /\ UNCHANGED <<swVars, rx_ring, pkt, rx_seq>>

Next ==
  \/ \E b \in Buffers : owner[b] # "ring" /\ Enqueue(b)
  \/ Dequeue
  \/ \E b \in Buffers : AppFree(b)
  \/ CardReceive
  \/ Stop
  \/ Start

Spec == Init /\ [][Next]_vars

(***************************************************************************)
(* Properties.                                                             *)
(***************************************************************************)

(* The indices stay inside the ring, and each buffer has one owner.        *)
TypeOK ==
  /\ rx_tail \in Desc /\ rx_recl \in Desc
  /\ sw_ring \in [Desc -> Buffers \union {NULL}]
  /\ rx_ring \in [Desc -> [pkt_addr : Buffers \union {NULL}, dd : BOOLEAN]]
  /\ started \in BOOLEAN
  /\ rdh \in Desc /\ rdt \in Desc
  /\ owner \in [Buffers -> {"pool", "ring", "app"}]
  /\ pkt \in [Buffers -> Desc]
  /\ rx_seq \in Desc /\ app_seq \in Desc

(* No buffer is lost or posted twice: the software ring holds exactly the  *)
(* posted buffers, in the slots from rx_recl to rx_tail, each once.        *)
BuffersConserved ==
  /\ TypeOK
  /\ \A i \in Desc : sw_ring[i] # NULL <=> Between(i, rx_recl, rx_tail)
  /\ \A b \in Buffers : owner[b] = "ring" <=> \E i \in Desc : sw_ring[i] = b
  /\ \A i, j \in Desc : sw_ring[i] = sw_ring[j] /\ i # j => sw_ring[i] = NULL

(* The card only ever writes to buffers that software has given away: a    *)
(* descriptor it has still to fill names a posted buffer, so no packet     *)
(* lands in memory the application or the pool owns.                       *)
CardOwnsPending ==
  started =>
    \A i \in Desc :
      Between(i, rdh, rdt) => /\ rx_ring[i].pkt_addr # NULL
                              /\ owner[rx_ring[i].pkt_addr] = "ring"

(* What a dequeue hands out is the next packet in arrival order, complete, *)
(* in the very buffer the card wrote: none is skipped, repeated or stale.  *)
DequeueInOrder == CanDequeue => sw_ring[rx_recl] # NULL /\ pkt[sw_ring[rx_recl]] = app_seq

(* "Always keep one descriptor" (ixgbe_cleanq.c:368): enqueues never fill  *)
(* the last slot, so a ring whose indices meet is empty.                   *)
KeepsOneDescriptor == rx_tail = rx_recl => \A b \in Buffers : owner[b] # "ring"

=============================================================================
