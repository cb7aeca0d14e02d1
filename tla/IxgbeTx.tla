------------------------------- MODULE IxgbeTx -------------------------------
(***************************************************************************)
(* The transmit queue of the ixgbe driver behind the CleanQ interface      *)
(* (ixgbe_cleanq.c, ixgbe_rxtx.c).                                         *)
(*                                                                         *)
(* Software posts buffers at tx_tail and reclaims sent ones at tx_recl.    *)
(* Only the last descriptor of each batch of RsThresh asks the card for a  *)
(* report (RS); its done bit (DD) stands for the whole batch.  tx_next_rs  *)
(* and tx_next_dd are the next descriptors to carry RS and to be looked    *)
(* at for DD.  The card is external; it sends from tdh up to tdt.          *)
(*                                                                         *)
(* The queue is stopped through txq->ops: the driver's own functions, or   *)
(* those of its vector path, which know nothing of tx_recl.                *)
(***************************************************************************)
EXTENDS Integers, FiniteSets

CONSTANTS
  NbDesc,    \* txq->nb_tx_desc
  RsThresh,  \* txq->tx_rs_thresh
  MaxBurst,      \* RTE_PMD_IXGBE_TX_MAX_BURST
  MaxFreeBufSz,  \* RTE_IXGBE_TX_MAX_FREE_BUF_SZ
  Buffers,
  NULL

(* What ixgbe_dev_tx_queue_setup accepts.  The CleanQ functions never use  *)
(* tx_free_thresh, but a value that passes the tests must exist.  The      *)
(* limits and the alignment the hardware sets are left out, so that rings  *)
(* may be small.                                                           *)
QueueSetupAccepts ==
  /\ NbDesc \in Nat
  /\ RsThresh \in Nat \ {0}
  /\ RsThresh < NbDesc - 2
  /\ \E tx_free_thresh \in 1 .. NbDesc - 4 : RsThresh <= tx_free_thresh
  /\ NbDesc % RsThresh = 0

ASSUME TxAssumption ==
  QueueSetupAccepts /\ NULL \notin Buffers /\ {MaxBurst, MaxFreeBufSz} \subseteq Nat

VARIABLES
  tx_tail, tx_recl, tx_next_rs, tx_next_dd,
  sw_ring,   \* slot -> the buffer posted there, or NULL
  tx_ring,   \* slot -> descriptor [buffer_addr, rs, dd]
  ops,       \* "def" or "vec": txq->ops is def_txq_ops or vec_txq_ops
  started,
  fault,     \* a null mbuf was dereferenced
  tdh, tdt,  \* the card's head and tail registers
  owner,     \* buffer -> "app", "ring", or "lost": neither has it any more
  health     \* history: "clean"; "broken" since an enqueue that the ring had
             \* no room for or a vector reset of a ring in use; "repaired"
             \* after a scalar reset of a broken ring

swVars == <<tx_tail, tx_recl, tx_next_rs, tx_next_dd, sw_ring, owner, ops, fault, health>>
vars == <<tx_tail, tx_recl, tx_next_rs, tx_next_dd, sw_ring, tx_ring, ops, started, fault,
          tdh, tdt, owner, health>>

Desc == 0 .. NbDesc - 1

Advance(i) == IF i + 1 >= NbDesc THEN 0 ELSE i + 1

(* The threshold descriptor of the batch after the one that ends at i. *)
NextBatch(i) == IF i + RsThresh >= NbDesc THEN RsThresh - 1 ELSE i + RsThresh

(* The number of slots from index lo up to, not including, index hi. *)
Dist(lo, hi) == IF hi >= lo THEN hi - lo ELSE hi + NbDesc - lo
Between(i, lo, hi) == Dist(lo, i) < Dist(lo, hi)

(* ixgbe_reset_tx_queue leaves every descriptor marked done. *)
ResetDesc == [buffer_addr |-> NULL, rs |-> FALSE, dd |-> TRUE]

(* ixgbe_set_tx_function: a queue without offloads whose batch fits the    *)
(* vector functions gets vec_txq_ops.  (A build without them behaves as if *)
(* offloads were always asked for.)                                        *)
TxqOps(offloads) ==
  IF ~offloads /\ MaxBurst <= RsThresh /\ RsThresh <= MaxFreeBufSz THEN "vec" ELSE "def"

(* ixgbe_dev_tx_queue_setup creates the queue and resets it; then it is    *)
(* started.                                                                *)
Init ==
  /\ tx_tail = 0 /\ tx_recl = 0
  /\ tx_next_rs = RsThresh - 1 /\ tx_next_dd = RsThresh - 1
  /\ sw_ring = [i \in Desc |-> NULL]
  /\ tx_ring = [i \in Desc |-> ResetDesc]
  /\ \E offloads \in BOOLEAN : ops = TxqOps(offloads)
  /\ started = TRUE
  /\ fault = FALSE
  /\ tdh = 0 /\ tdt = 0
  /\ owner = [b \in Buffers |-> "app"]
  /\ health = "clean"

(***************************************************************************)
(* ixgbe_tx_cleanq_enqueue.                                                *)
(***************************************************************************)

(* The test is on C ints: it does not see the wrap at the end of the ring. *)
Full == tx_recl - tx_tail - 1 = 0

PostDescKeepsDD(b) ==
  [buffer_addr |-> b, rs |-> tx_tail = tx_next_rs, dd |-> tx_ring[tx_tail].dd]

PostDescRsEarly(b) == [buffer_addr |-> b, rs |-> tx_tail + 1 = tx_next_rs, dd |-> FALSE]

(* olinfo_status shares its word with the write-back status: DD is cleared. *)
PostDesc(b) == [buffer_addr |-> b, rs |-> tx_tail = tx_next_rs, dd |-> FALSE]

(* Where the card is, or will be when the queue is started. *)
CardHead == IF started THEN tdh ELSE 0

(* The posted descriptor closes the ring: either index now reads as "no    *)
(* buffers" to software (tx_recl) or to the card (its head), which may be  *)
(* behind tx_recl.                                                         *)
Overfills == Advance(tx_tail) \in {tx_recl, CardHead}

(* A buffer that is still in the slot is forgotten. *)
Enqueue(b) ==
  /\ ~fault
  /\ owner[b] = "app"
  /\ ~Full
  /\ sw_ring' = [sw_ring EXCEPT ![tx_tail] = b]
  /\ owner' = [c \in Buffers |-> IF c = b THEN "ring"
                                ELSE IF c = sw_ring[tx_tail] THEN "lost" ELSE owner[c]]
  /\ tx_ring' = [tx_ring EXCEPT ![tx_tail] = PostDesc(b)]
  /\ tx_next_rs' = IF tx_tail = tx_next_rs THEN NextBatch(tx_next_rs) ELSE tx_next_rs
  /\ tx_tail' = Advance(tx_tail)
  /\ tdt' = tx_tail'
  /\ health' = IF Overfills THEN "broken" ELSE health
  /\ UNCHANGED <<tx_recl, tx_next_dd, ops, started, fault, tdh>>

(***************************************************************************)
(* ixgbe_tx_cleanq_dequeue.                                                *)
(***************************************************************************)

CanDequeue ==
  /\ tx_recl # tx_tail
  /\ tx_ring[tx_next_dd].dd

NextDdAfterEarly == IF tx_recl >= tx_next_dd - 1 THEN NextBatch(tx_next_dd) ELSE tx_next_dd

(* tx_next_dd moves on when the last buffer of its batch is taken. *)
NextDdAfter == IF tx_recl + 1 > tx_next_dd THEN NextBatch(tx_next_dd) ELSE tx_next_dd

(* The buffer's fields are read through the pointer the slot held. *)
DequeueNull ==
  /\ sw_ring[tx_recl] = NULL
  /\ fault' = TRUE
  /\ UNCHANGED <<tx_tail, tx_recl, tx_next_rs, tx_next_dd, sw_ring, tx_ring, ops, started,
                 tdh, tdt, owner, health>>

DequeueBuffer ==
  /\ sw_ring[tx_recl] # NULL
  /\ sw_ring' = [sw_ring EXCEPT ![tx_recl] = NULL]
  /\ owner' = [owner EXCEPT ![sw_ring[tx_recl]] = "app"]
  /\ tx_next_dd' = NextDdAfter
  /\ tx_recl' = Advance(tx_recl)
  /\ UNCHANGED <<tx_tail, tx_next_rs, tx_ring, ops, started, fault, tdh, tdt, health>>

Dequeue ==
  /\ ~fault
  /\ CanDequeue
  /\ DequeueBuffer \/ DequeueNull

(***************************************************************************)
(* The card sends the buffer at the head, and reports it if asked to; it   *)
(* does not look at that address again.                                    *)
(***************************************************************************)

SentDesc(d) == [buffer_addr |-> NULL, rs |-> d.rs, dd |-> d.dd \/ d.rs]

CardTransmit ==
  /\ ~fault
  /\ started
  /\ tdh # tdt
  /\ tx_ring' = [tx_ring EXCEPT ![tdh] = SentDesc(@)]
  /\ tdh' = Advance(tdh)
  /\ UNCHANGED <<swVars, started, tdt>>

(***************************************************************************)
(* ixgbe_dev_tx_queue_stop waits for the card to finish, though not for    *)
(* ever, then releases the buffers in the ring and resets it, both through *)
(* txq->ops; ixgbe_dev_tx_queue_start programs the registers again.        *)
(***************************************************************************)

ReleasedOwnersForgotten == owner

(* ixgbe_tx_queue_release_mbufs frees whatever the software ring holds.    *)
ReleasedOwners ==
  [b \in Buffers |-> IF \E i \in Desc : sw_ring[i] = b THEN "app" ELSE owner[b]]

(* ixgbe_tx_queue_release_mbufs, ixgbe_reset_tx_queue *)
ScalarReset ==
  /\ ops = "def"
  /\ owner' = ReleasedOwners
  /\ sw_ring' = [i \in Desc |-> NULL]
  /\ tx_recl' = 0
  /\ health' = IF health = "broken" THEN "repaired" ELSE health

(* _ixgbe_reset_tx_queue_vec takes the ring for one of NbDesc pointers     *)
(* without the two indices that follow each: it clears half of it.         *)
ClearedByVector(i) == 2 * i < NbDesc

(* _ixgbe_tx_queue_release_mbufs_vec frees nothing: nb_tx_free, which no   *)
(* CleanQ function touches, says that nothing is posted.  The reset then   *)
(* leaves tx_recl where it was.                                            *)
VectorReset ==
  /\ ops = "vec"
  /\ owner' = [b \in Buffers |->
                 IF \E i \in Desc : sw_ring[i] = b /\ ClearedByVector(i) THEN "lost" ELSE owner[b]]
  /\ sw_ring' = [i \in Desc |-> IF ClearedByVector(i) THEN NULL ELSE sw_ring[i]]
  /\ tx_recl' = tx_recl
  /\ health' = IF tx_recl = 0 /\ tx_tail = 0 THEN health ELSE "broken"

Stop ==
  /\ ~fault
  /\ started
  /\ started' = FALSE
  /\ ScalarReset \/ VectorReset
  /\ tx_ring' = [i \in Desc |-> ResetDesc]
  /\ tx_tail' = 0
  /\ tx_next_rs' = RsThresh - 1 /\ tx_next_dd' = RsThresh - 1
  /\ UNCHANGED <<ops, fault, tdh, tdt>>

StartKeepsHead ==
  /\ ~fault
  /\ ~started
  /\ started' = TRUE
  /\ tdt' = tx_tail
  /\ UNCHANGED <<swVars, tx_ring, tdh>>

Start ==
  /\ ~fault
  /\ ~started
  /\ started' = TRUE
  /\ tdh' = 0 /\ tdt' = tx_tail
  /\ UNCHANGED <<swVars, tx_ring>>

Next ==
  \/ \E b \in Buffers : Enqueue(b)
  \/ Dequeue
  \/ CardTransmit
  \/ Stop
  \/ Start

Spec == Init /\ [][Next]_vars

(* The application's loop polls the queue for buffers that come back, and  *)
(* an enabled card sends what is posted.                                   *)
Fairness == WF_vars(Dequeue) /\ WF_vars(CardTransmit)

(***************************************************************************)
(* Properties.                                                             *)
(***************************************************************************)

TypeOK ==
  /\ {tx_tail, tx_recl, tx_next_rs, tx_next_dd, tdh, tdt} \subseteq Desc
  /\ sw_ring \in [Desc -> Buffers \union {NULL}]
  /\ tx_ring \in [Desc -> [buffer_addr : Buffers \union {NULL}, rs : BOOLEAN, dd : BOOLEAN]]
  /\ ops \in {"def", "vec"}
  /\ started \in BOOLEAN
  /\ fault \in BOOLEAN
  /\ owner \in [Buffers -> {"ring", "app", "lost"}]
  /\ health \in {"clean", "broken", "repaired"}

Intact == health # "broken"

(* A buffer is posted in one slot at most, and those with a slot are the   *)
(* ring's, whatever has been overwritten, leaked or left behind.           *)
OneHolder ==
  /\ \A b \in Buffers : owner[b] = "ring" <=> \E i \in Desc : sw_ring[i] = b
  /\ \A i, j \in Desc : sw_ring[i] = sw_ring[j] /\ i # j => sw_ring[i] = NULL

(* No buffer is posted twice, ever, and with the scalar operations every   *)
(* slot from tx_recl to tx_tail has one, so no dequeue faults.  Until an   *)
(* enqueue overfills the ring or a vector reset meets a ring in use, no    *)
(* other slot has one, no dequeue faults and no buffer is lost; a scalar   *)
(* reset makes that so again, without what was lost before.                *)
BuffersConserved ==
  /\ TypeOK
  /\ OneHolder
  /\ Intact \/ ops = "def" =>
       ~fault /\ \A i \in Desc : Between(i, tx_recl, tx_tail) => sw_ring[i] # NULL
  /\ Intact => \A i \in Desc : sw_ring[i] # NULL => Between(i, tx_recl, tx_tail)
  /\ health = "clean" => \A b \in Buffers : owner[b] # "lost"

(* The two threshold cursors never drift from the ring indices: each is    *)
(* the last slot of the batch its index is in, through wraps, overfilled   *)
(* rings and resets, except that of the vector path, which moves           *)
(* tx_next_dd and not tx_recl.                                             *)
ThresholdsAligned ==
  /\ tx_next_rs = (tx_tail \div RsThresh) * RsThresh + RsThresh - 1
  /\ Intact \/ ops = "def" => tx_next_dd = (tx_recl \div RsThresh) * RsThresh + RsThresh - 1

(* Once the rest of its batch is posted, a buffer is handed back only      *)
(* after the card has sent it, in an overfilled ring too: the DD bit seen  *)
(* is this batch's own report.                                             *)
FullBatchReclaimSafe ==
  started /\ CanDequeue /\ Between(tx_next_dd, tx_recl, tx_tail)
    => ~Between(tx_recl, tdh, tdt)

(* While the ring is intact the card is not blind to work: once it has     *)
(* nothing left to send, what is in the ring is there to be reclaimed, so  *)
(* the two cannot wait for each other ("The HW otherwise sees the          *)
(* descriptor ring as full", ixgbe_cleanq.c:102).                          *)
CardSeesPosted == Intact /\ started /\ tdh = tdt /\ tx_recl # tx_tail => CanDequeue

(* Every posted buffer comes back to an application that keeps polling,    *)
(* the last and partial batch included, unless the queue is stopped or its *)
(* ring overfilled first.                                                  *)
PostedReclaimed ==
  \A b \in Buffers : (owner[b] = "ring" /\ started) ~> (owner[b] = "app" \/ ~started \/ ~Intact)

(* "Dequeue and free all the buffers the HW is finished with"              *)
(* (ixgbe_rxtx.c:1943): a buffer the application owns is never one the     *)
(* card has still to send.                                                 *)
CardOwnsPending ==
  started =>
    \A i \in Desc : Between(i, tdh, tdt) => owner[tx_ring[i].buffer_addr] = "ring"

=============================================================================
