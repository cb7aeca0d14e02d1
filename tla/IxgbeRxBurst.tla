---------------------------- MODULE IxgbeRxBurst ----------------------------
(***************************************************************************)
(* The receive queue as rte_eth_rx_burst uses it: ixgbe_recv_pkts_cleanq   *)
(* first refills the ring from the mempool, then takes out up to nb_pkts   *)
(* completed buffers.  The card runs between any two of its steps.         *)
(***************************************************************************)
EXTENDS IxgbeRx

CONSTANT NbPkts   \* the application's burst size

ASSUME BurstAssumption == NbPkts \in Nat \ {0}

VARIABLES
  pc,      \* "idle", "refill" or "deliver"
  nb_bufs, \* buffers still to refill in this burst
  nb_left  \* packets this burst may still deliver

burstVars == <<pc, nb_bufs, nb_left>>
allVars   == <<vars, burstVars>>

BurstInit ==
  /\ Init
  /\ pc = "idle" /\ nb_bufs = 0 /\ nb_left = 0

(* rx_recl - rx_tail - 1, modulo the ring size. *)
RefillCountFull == LET d == rx_recl - rx_tail IN IF d <= 0 THEN d + NbDesc ELSE d
RefillCountNoWrap == LET d == rx_recl - rx_tail - 1 IN IF d < 0 THEN 0 ELSE d

RefillCount == LET d == rx_recl - rx_tail - 1 IN IF d < 0 THEN d + NbDesc ELSE d

BurstBegin ==
  /\ pc = "idle"
  /\ pc' = "refill"
  /\ nb_bufs' = RefillCount
  /\ nb_left' = NbPkts
  /\ UNCHANGED vars

PoolEmpty == \A b \in Buffers : owner[b] # "pool"

(* One mbuf from the mempool into the ring. *)
RefillOne ==
  /\ pc = "refill"
  /\ nb_bufs > 0
  /\ \E b \in Buffers : owner[b] = "pool" /\ Enqueue(b)
  /\ nb_bufs' = nb_bufs - 1
  /\ UNCHANGED <<pc, nb_left>>

(* All refilled, no mbuf left, or the ring refused one (it is freed again). *)
RefillEnd ==
  /\ pc = "refill"
  /\ nb_bufs = 0 \/ PoolEmpty \/ Full
  /\ pc' = "deliver"
  /\ UNCHANGED <<vars, nb_bufs, nb_left>>

DeliverOne ==
  /\ pc = "deliver"
  /\ nb_left > 0
  /\ Dequeue
  /\ nb_left' = nb_left - 1
  /\ UNCHANGED <<pc, nb_bufs>>

DeliverEnd ==
  /\ pc = "deliver"
  /\ nb_left = 0 \/ ~CanDequeue
  /\ pc' = "idle"
  /\ UNCHANGED <<vars, nb_bufs, nb_left>>

Burst == BurstBegin \/ RefillOne \/ RefillEnd \/ DeliverOne \/ DeliverEnd

(* Between bursts the same thread may use the queue directly, as the IP    *)
(* module does, and stop and start it.  A direct user has to leave one     *)
(* slot free, since the enqueue does not see to it (KeepsOneDescriptor     *)
(* fails without that).                                                    *)
Direct ==
  /\ pc = "idle"
  /\ UNCHANGED burstVars
  /\ \/ /\ Dist(rx_recl, rx_tail) < NbDesc - 1
        /\ \E b \in Buffers : owner[b] # "ring" /\ Enqueue(b)
     \/ Dequeue
     \/ Stop
     \/ Start

BurstNext ==
  \/ Burst
  \/ Direct
  \/ CardReceive /\ UNCHANGED burstVars
  \/ (\E b \in Buffers : AppFree(b)) /\ UNCHANGED burstVars

(* The application polls for ever (the lcore loop of the benchmarks);      *)
(* neither the card nor the application's frees are assumed to happen.     *)
BurstSpec == BurstInit /\ [][BurstNext]_allVars /\ WF_allVars(Burst)

(***************************************************************************)
(* Properties.                                                             *)
(***************************************************************************)

(* Although the enqueue's own full test misses the wrap, the refill count  *)
(* keeps one slot free whatever the number of mbufs ("Never enqueue all",  *)
(* ixgbe_rxtx.c:2004), so a refill cannot overwrite a posted buffer.       *)
RefillFits ==
  /\ KeepsOneDescriptor
  /\ pc = "refill" => nb_bufs + Dist(rx_recl, rx_tail) <= NbDesc - 1

(* Every packet the card has completed reaches the application, unless     *)
(* the queue is stopped first.                                             *)
PacketsDelivered ==
  \A b \in Buffers :
    (\E i \in Desc : sw_ring[i] = b /\ Between(i, rx_recl, rdh) /\ started)
      ~> (owner[b] # "ring")

(* The card is not starved: while mbufs are free the ring gets refilled.   *)
CardIsFed == ~PoolEmpty ~> (rdh # rdt \/ ~started)

=============================================================================
