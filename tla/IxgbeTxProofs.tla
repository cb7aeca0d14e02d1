---------------------------- MODULE IxgbeTxProofs ----------------------------
(***************************************************************************)
(* Proofs about the transmit queue, for every ring size, threshold and     *)
(* number of buffers, with either set of txq->ops, the card sending at any *)
(* time and the queue being stopped and started.  Nothing keeps the ring   *)
(* from being overfilled: the invariant says what holds all the same, and  *)
(* what holds until then.                                                  *)
(***************************************************************************)
EXTENDS IxgbeTx, SlotIndex, TLAPS

(***************************************************************************)
(* Batches.                                                                *)
(***************************************************************************)

(* The last slot of the batch slot i is in. *)
EndOf(i) == (i \div RsThresh) * RsThresh + RsThresh - 1

(* What ixgbe_dev_tx_queue_setup guarantees of the sizes. *)
LEMMA Sizes ==
  /\ NbDesc \in Nat /\ RsThresh \in Nat \ {0} /\ RsThresh + 2 < NbDesc
  /\ NULL \notin Buffers
  BY TxAssumption DEF QueueSetupAccepts

(* The ring is a whole number of batches. *)
LEMMA WholeBatches == \E m \in Nat : NbDesc = m * RsThresh
<1> DEFINE m == NbDesc \div RsThresh
<1>1. NbDesc % RsThresh = 0  BY TxAssumption DEF QueueSetupAccepts
<1>2. NbDesc = RsThresh * m + (NbDesc % RsThresh) /\ m \in Nat  BY Sizes, DivMod
<1> HIDE DEF m
<1>3. NbDesc = m * RsThresh  BY <1>1, <1>2, Sizes
<1> QED  BY <1>2, <1>3

(* A quotient is determined by the batch it names. *)
LEMMA QuotientUnique ==
  ASSUME NEW s \in Nat \ {0}, NEW q \in Nat, NEW i \in Nat, q * s <= i, i < q * s + s
  PROVE  i \div s = q
<1> DEFINE p == i \div s
           x == i % s
<1>1. i = s * p + x /\ p \in Nat  BY DivMod
<1>2. x \in 0 .. s - 1  BY ModRange
<1> HIDE DEF p, x
<1>3. CASE p > q
  <2>1. (p - q - 1) * s >= 0  BY <1>1, <1>3, SMT
  <2> QED  BY <1>1, <1>2, <2>1, SMT
<1>4. CASE p < q
  <2>1. (q - p - 1) * s >= 0  BY <1>1, <1>4, SMT
  <2> QED  BY <1>1, <1>2, <2>1, SMT
<1>5. CASE p = q  BY <1>5 DEF p
<1> QED  BY <1>1, <1>3, <1>4, <1>5

(* The batch of a slot: its end is in the ring, less than a batch away,    *)
(* and is its own batch's end.                                             *)
LEMMA EndFacts ==
  ASSUME NEW i \in Desc
  PROVE  /\ EndOf(i) \in Desc
         /\ EndOf(i) - RsThresh < i /\ i <= EndOf(i)
         /\ EndOf(i) + 1 - RsThresh \in Desc
         /\ EndOf(EndOf(i)) = EndOf(i)
<1> DEFINE q == i \div RsThresh
           e == q * RsThresh + RsThresh - 1
<1>1. PICK m \in Nat : NbDesc = m * RsThresh  BY WholeBatches
<1>2. i \in Nat /\ i < NbDesc  BY Sizes DEF Desc
<1>3. i = RsThresh * q + (i % RsThresh) /\ q \in Nat /\ i % RsThresh \in 0 .. RsThresh - 1
  BY <1>2, Sizes, DivMod, ModRange
<1> HIDE DEF q
<1>4. q * RsThresh <= i /\ i < q * RsThresh + RsThresh  BY <1>3, Sizes, SMT
<1>5. q < m
  <2>1. CASE q >= m
    <3>1. (q - m) * RsThresh >= 0  BY <2>1, <1>3, <1>1, Sizes, SMT
    <3> QED  BY <3>1, <1>1, <1>2, <1>3, <1>4, Sizes, SMT
  <2> QED  BY <2>1, <1>3, <1>1
<1>6. q * RsThresh + RsThresh <= NbDesc
  <2>1. (m - q - 1) * RsThresh >= 0  BY <1>5, <1>3, <1>1, Sizes, SMT
  <2> QED  BY <2>1, <1>1, <1>3, Sizes, SMT
<1>7. q * RsThresh \in Nat  BY <1>3, Sizes, SMT
<1>8. e \in Nat /\ e \div RsThresh = q
  <2>1. e \in Nat /\ q * RsThresh <= e /\ e < q * RsThresh + RsThresh  BY <1>7, Sizes
  <2> HIDE DEF e
  <2> QED  BY <2>1, <1>3, Sizes, QuotientUnique
<1>9. EndOf(i) = e  BY DEF EndOf, q
<1>10. EndOf(e) = e  BY <1>8 DEF EndOf
<1>11. e \in Desc /\ e - RsThresh < i /\ i <= e /\ e + 1 - RsThresh \in Desc
  BY <1>2, <1>4, <1>6, <1>7, Sizes DEF Desc
<1> QED  BY <1>9, <1>10, <1>11

(* Advancing an index moves its batch's end by NextBatch exactly when the  *)
(* index was the end: what the two threshold cursors rely on.              *)
LEMMA EndAdvance ==
  ASSUME NEW i \in Desc
  PROVE  EndOf(Advance(i)) = IF i = EndOf(i) THEN NextBatch(EndOf(i)) ELSE EndOf(i)
<1> DEFINE q == i \div RsThresh
<1>1. PICK m \in Nat : NbDesc = m * RsThresh  BY WholeBatches
<1>2. i \in Nat /\ i < NbDesc  BY Sizes DEF Desc
<1>3. q \in Nat /\ EndOf(i) = q * RsThresh + RsThresh - 1  BY <1>2, Sizes, DivMod DEF EndOf
<1>4. EndOf(i) \in Desc /\ EndOf(i) - RsThresh < i /\ i <= EndOf(i)  BY EndFacts
<1> HIDE DEF q
<1>5. q * RsThresh \in Nat  BY <1>3, Sizes, SMT
<1>6. CASE i # EndOf(i)
  <2>1. Advance(i) = i + 1 /\ i + 1 \in Nat
    BY <1>2, <1>4, <1>6, Sizes DEF Advance, Desc
  <2>2. q * RsThresh <= i + 1 /\ i + 1 < q * RsThresh + RsThresh
    BY <1>2, <1>3, <1>4, <1>5, <1>6, Sizes
  <2>3. (i + 1) \div RsThresh = q  BY <1>3, <2>1, <2>2, Sizes, QuotientUnique
  <2> QED  BY <1>3, <1>6, <2>1, <2>3 DEF EndOf
<1>7. CASE i = EndOf(i) /\ i + 1 = NbDesc
  <2>1. Advance(i) = 0 /\ NextBatch(EndOf(i)) = RsThresh - 1
    BY <1>2, <1>7, Sizes DEF Advance, NextBatch
  <2>2. 0 \div RsThresh = 0
    <3>1. 0 * RsThresh <= 0 /\ 0 < 0 * RsThresh + RsThresh  BY Sizes
    <3> QED  BY <3>1, Sizes, QuotientUnique
  <2> QED  BY <1>7, <2>1, <2>2, Sizes DEF EndOf
<1>8. CASE i = EndOf(i) /\ i + 1 # NbDesc
  <2>1. Advance(i) = i + 1 /\ i + 1 = (q + 1) * RsThresh /\ i + 1 \in Nat /\ q + 1 \in Nat
    BY <1>2, <1>3, <1>8, Sizes DEF Advance
  <2>2. (i + 1) \div RsThresh = q + 1
    <3>1. (q + 1) * RsThresh <= i + 1 /\ i + 1 < (q + 1) * RsThresh + RsThresh  BY <2>1, Sizes
    <3> QED  BY <2>1, <3>1, Sizes, QuotientUnique
  <2>3. EndOf(i + 1) = i + RsThresh  BY <1>2, <2>1, <2>2, Sizes DEF EndOf
  <2>4. i + 1 \in Desc  BY <1>2, <1>8, Sizes DEF Desc
  <2>5. EndOf(i + 1) \in Desc  BY <2>4, EndFacts
  <2>6. NextBatch(EndOf(i)) = i + RsThresh  BY <1>2, <1>8, <2>3, <2>5, Sizes DEF NextBatch, Desc
  <2> QED  BY <1>8, <2>1, <2>3, <2>6
<1> QED  BY <1>6, <1>7, <1>8

(***************************************************************************)
(* Arithmetic of the ring.                                                 *)
(***************************************************************************)

(* Distances are in range and tell slots apart. *)
LEMMA DistFacts ==
  ASSUME NEW r \in Desc, NEW i \in Desc
  PROVE  /\ Dist(r, i) \in Desc
         /\ Dist(r, i) = 0 <=> i = r
         /\ \A j \in Desc : Dist(r, i) = Dist(r, j) => i = j
  BY Sizes DEF Desc, Dist

(* What advancing an index does to distances from it and to it. *)
LEMMA AdvanceFacts ==
  ASSUME NEW r \in Desc, NEW i \in Desc
  PROVE  /\ Advance(i) \in Desc
         /\ Dist(r, i) < NbDesc - 1 => Dist(r, Advance(i)) = Dist(r, i) + 1
         /\ i # r => Dist(Advance(r), i) = Dist(r, i) - 1
         /\ Dist(Advance(r), r) = NbDesc - 1
  BY Sizes DEF Desc, Dist, Advance

(* A window that grows at its upper end by one slot. *)
LEMMA BetweenGrows ==
  ASSUME NEW r \in Desc, NEW t \in Desc, NEW i \in Desc, Dist(r, t) < NbDesc - 1
  PROVE  /\ Between(i, r, Advance(t)) <=> (Between(i, r, t) \/ i = t)
         /\ ~Between(t, r, t)
  BY Sizes DEF Desc, Dist, Advance, Between

(* A window that loses its lowest slot. *)
LEMMA BetweenShrinks ==
  ASSUME NEW r \in Desc, NEW t \in Desc, NEW i \in Desc, r # t
  PROVE  /\ Between(i, Advance(r), t) <=> (Between(i, r, t) /\ i # r)
         /\ Between(r, r, t)
  BY Sizes DEF Desc, Dist, Advance, Between

(* The window after an enqueue of any kind: closed, just the new slot, or  *)
(* one slot longer.                                                        *)
LEMMA WindowAfterEnqueue ==
  ASSUME NEW r \in Desc, NEW t \in Desc, NEW i \in Desc, Between(i, r, Advance(t))
  PROVE  i = t \/ (Between(i, r, t) /\ Dist(r, Advance(t)) = Dist(r, t) + 1)
  BY Sizes DEF Desc, Dist, Advance, Between

(* The batch at the start of the ring. *)
LEMMA FirstBatch ==
  /\ 0 \in Desc /\ RsThresh - 1 \in Desc /\ EndOf(0) = RsThresh - 1
<1>1. 0 \in Desc /\ RsThresh - 1 \in Desc  BY Sizes DEF Desc
<1>2. 0 \div RsThresh = 0
  <2>1. 0 * RsThresh <= 0 /\ 0 < 0 * RsThresh + RsThresh  BY Sizes
  <2> QED  BY <2>1, Sizes, QuotientUnique
<1> QED  BY <1>1, <1>2, Sizes DEF EndOf

(***************************************************************************)
(* The invariant.                                                          *)
(***************************************************************************)

(* The card's tail register is the software's index. *)
TailRegister == started => tdt = tx_tail

(* A done bit in the window stands for a descriptor the card has passed,   *)
(* on its way to tx_tail; even when the ring was overfilled, for then the  *)
(* window starts anew with descriptors whose bit was just cleared.         *)
ReportInv ==
  \A i \in Desc : Between(i, tx_recl, tx_tail) /\ tx_ring[i].dd =>
    /\ Dist(tx_recl, i) < Dist(tx_recl, CardHead)
    /\ Dist(tx_recl, CardHead) <= Dist(tx_recl, tx_tail)

(* In an intact ring the done bit of a batch is clear exactly while the    *)
(* card has still to reach the batch's end, where it finds the request to  *)
(* report.                                                                 *)
DoneBits ==
  \A i \in Desc : i = EndOf(i) =>
    /\ tx_ring[i].dd <=> ~Between(i, CardHead, tx_tail)
    /\ Between(i, CardHead, tx_tail) => tx_ring[i].rs

IInv ==
  /\ BuffersConserved
  /\ ThresholdsAligned
  /\ TailRegister
  /\ ReportInv
  /\ Intact => DoneBits

(* The thresholds as ends of batches. *)
LEMMA Aligned ==
  /\ ThresholdsAligned <=> /\ tx_next_rs = EndOf(tx_tail)
                           /\ Intact \/ ops = "def" => tx_next_dd = EndOf(tx_recl)
  BY DEF ThresholdsAligned, EndOf

(* A new queue. *)
LEMMA InitIInv == Init => IInv
<1> SUFFICES ASSUME Init PROVE IInv
  OBVIOUS
<1>1. /\ tx_tail = 0 /\ tx_recl = 0 /\ tdh = 0 /\ tdt = 0 /\ started = TRUE /\ fault = FALSE
      /\ tx_next_rs = RsThresh - 1 /\ tx_next_dd = RsThresh - 1
      /\ sw_ring = [i \in Desc |-> NULL] /\ tx_ring = [i \in Desc |-> ResetDesc]
      /\ owner = [b \in Buffers |-> "app"] /\ health = "clean"
  BY DEF Init
<1>2. ops \in {"def", "vec"}  BY DEF Init, TxqOps
<1>3. ResetDesc \in [buffer_addr : Buffers \union {NULL}, rs : BOOLEAN, dd : BOOLEAN]
  BY DEF ResetDesc
<1>4. TypeOK  BY <1>1, <1>2, <1>3, FirstBatch DEF TypeOK
<1>5. CardHead = 0  BY <1>1 DEF CardHead
<1>6. \A i \in Desc : ~Between(i, 0, 0)  BY Sizes DEF Between, Dist, Desc
<1>7. OneHolder  BY <1>1, Sizes DEF OneHolder
<1>8. BuffersConserved  BY <1>1, <1>4, <1>6, <1>7 DEF BuffersConserved
<1>9. ThresholdsAligned  BY <1>1, FirstBatch, Aligned
<1>10. \A i \in Desc : tx_ring[i].dd  BY <1>1 DEF ResetDesc
<1>11. DoneBits  BY <1>1, <1>5, <1>6, <1>10 DEF DoneBits
<1>12. TailRegister /\ ReportInv  BY <1>1, <1>6 DEF TailRegister, ReportInv
<1> QED  BY <1>8, <1>9, <1>11, <1>12 DEF IInv

(***************************************************************************)
(* ixgbe_tx_cleanq_enqueue.                                                *)
(***************************************************************************)

(* What an enqueue changes, and the types after it. *)
LEMMA EnqueueType ==
  ASSUME IInv, NEW b \in Buffers, Enqueue(b)
  PROVE  /\ TypeOK /\ TypeOK'
         /\ tx_tail' = Advance(tx_tail) /\ tdt' = tx_tail' /\ CardHead' = CardHead
         /\ \A i \in Desc : sw_ring'[i] = IF i = tx_tail THEN b ELSE sw_ring[i]
         /\ \A i \in Desc : tx_ring'[i] = IF i = tx_tail THEN PostDesc(b) ELSE tx_ring[i]
         /\ ThresholdsAligned'
<1>1. TypeOK /\ tx_tail \in Desc  BY DEF IInv, BuffersConserved, TypeOK
<1>2. /\ sw_ring' = [sw_ring EXCEPT ![tx_tail] = b]
      /\ tx_ring' = [tx_ring EXCEPT ![tx_tail] = PostDesc(b)]
      /\ tx_next_rs' = IF tx_tail = tx_next_rs THEN NextBatch(tx_next_rs) ELSE tx_next_rs
      /\ tx_tail' = Advance(tx_tail)
      /\ tdt' = tx_tail'
      /\ health' = IF Overfills THEN "broken" ELSE health
      /\ UNCHANGED <<tx_recl, tx_next_dd, ops, started, fault, tdh>>
  BY DEF Enqueue
<1>3. owner' = [c \in Buffers |-> IF c = b THEN "ring"
                                    ELSE IF c = sw_ring[tx_tail] THEN "lost" ELSE owner[c]]
  BY DEF Enqueue
<1>4. tx_tail' \in Desc  BY <1>1, <1>2, AdvanceFacts
<1>5. tx_next_rs = EndOf(tx_tail)  BY Aligned DEF IInv
<1>6. tx_next_rs' = EndOf(tx_tail') /\ tx_next_rs' \in Desc
  BY <1>1, <1>2, <1>4, <1>5, EndAdvance, EndFacts
<1>7. owner' \in [Buffers -> {"ring", "app", "lost"}]  BY <1>1, <1>3 DEF TypeOK
<1>8. PostDesc(b) \in [buffer_addr : Buffers \union {NULL}, rs : BOOLEAN, dd : BOOLEAN]
  BY DEF PostDesc
<1>9. TypeOK'  BY <1>1, <1>2, <1>4, <1>6, <1>7, <1>8 DEF TypeOK
<1>10. /\ \A i \in Desc : sw_ring'[i] = IF i = tx_tail THEN b ELSE sw_ring[i]
       /\ \A i \in Desc : tx_ring'[i] = IF i = tx_tail THEN PostDesc(b) ELSE tx_ring[i]
  BY <1>1, <1>2 DEF TypeOK
<1>11. Intact' => Intact  BY <1>2 DEF Intact
<1>12. Intact \/ ops = "def" => tx_next_dd = EndOf(tx_recl)  BY Aligned DEF IInv
<1>13. ThresholdsAligned'
  BY <1>2, <1>6, <1>11, <1>12 DEF ThresholdsAligned, EndOf
<1>14. CardHead' = CardHead  BY <1>2 DEF CardHead
<1> QED  BY <1>1, <1>2, <1>9, <1>10, <1>13, <1>14

(* No buffer gets a second slot. *)
LEMMA EnqueueOneHolder ==
  ASSUME IInv, NEW b \in Buffers, Enqueue(b)
  PROVE  OneHolder'
<1>1. TypeOK /\ tx_tail \in Desc  BY DEF IInv, BuffersConserved, TypeOK
<1>2. \A i \in Desc : sw_ring'[i] = IF i = tx_tail THEN b ELSE sw_ring[i]  BY EnqueueType
<1>3. owner[b] = "app"  BY DEF Enqueue
<1>4. /\ \A c \in Buffers : owner[c] = "ring" <=> \E i \in Desc : sw_ring[i] = c
      /\ \A i, j \in Desc : sw_ring[i] = sw_ring[j] /\ i # j => sw_ring[i] = NULL
  BY DEF IInv, BuffersConserved, OneHolder
<1>5. \A i \in Desc : sw_ring[i] # b  BY <1>3, <1>4
<1>6. NULL \notin Buffers  BY Sizes
<1>7. \A c \in Buffers : owner'[c] = IF c = b THEN "ring"
                                     ELSE IF c = sw_ring[tx_tail] THEN "lost" ELSE owner[c]
  BY DEF Enqueue
<1>8. ASSUME NEW c \in Buffers
      PROVE  owner'[c] = "ring" <=> \E i \in Desc : sw_ring'[i] = c
  <2>1. CASE c = b  BY <1>1, <1>2, <1>7, <2>1
  <2>2. CASE c # b /\ c = sw_ring[tx_tail]
    <3>1. owner'[c] = "lost"  BY <1>7, <2>2
    <3>2. \A i \in Desc : sw_ring'[i] # c  BY <1>1, <1>2, <1>4, <1>6, <2>2
    <3> QED  BY <3>1, <3>2
  <2>3. CASE c # b /\ c # sw_ring[tx_tail]
    <3>1. owner'[c] = owner[c]  BY <1>7, <2>3
    <3>2. \A i \in Desc : sw_ring'[i] = c <=> sw_ring[i] = c  BY <1>1, <1>2, <2>3
    <3> QED  BY <1>4, <3>1, <3>2
  <2> QED  BY <2>1, <2>2, <2>3
<1>9. \A i, j \in Desc : sw_ring'[i] = sw_ring'[j] /\ i # j => sw_ring'[i] = NULL
  BY <1>2, <1>4, <1>5
<1> QED  BY <1>8, <1>9 DEF OneHolder

(* The ring after an enqueue. *)
LEMMA EnqueueConserves ==
  ASSUME IInv, NEW b \in Buffers, Enqueue(b)
  PROVE  BuffersConserved'
<1>1. /\ TypeOK /\ TypeOK' /\ tx_tail' = Advance(tx_tail)
      /\ \A i \in Desc : sw_ring'[i] = IF i = tx_tail THEN b ELSE sw_ring[i]
  BY EnqueueType
<1>2. tx_tail \in Desc /\ tx_recl \in Desc /\ CardHead \in Desc
  BY <1>1, FirstBatch DEF TypeOK, CardHead
<1>3. /\ UNCHANGED <<tx_recl, ops, fault>>
      /\ health' = IF Overfills THEN "broken" ELSE health
  BY DEF Enqueue
<1>4. b # NULL  BY Sizes
<1>5. Intact' => Intact /\ ~Overfills  BY <1>3 DEF Intact
<1>6. \A i \in Desc : Between(i, tx_recl, tx_tail)' <=> Between(i, tx_recl, Advance(tx_tail))
  BY <1>1, <1>3 DEF Between, Dist
<1>7. ASSUME (Intact \/ ops = "def")', NEW i \in Desc, Between(i, tx_recl, tx_tail)'
      PROVE  sw_ring'[i] # NULL
  <2>1. Intact \/ ops = "def"  BY <1>3, <1>5, <1>7
  <2>2. i = tx_tail \/ Between(i, tx_recl, tx_tail)  BY <1>2, <1>6, <1>7, WindowAfterEnqueue
  <2> QED  BY <1>1, <1>4, <2>1, <2>2 DEF IInv, BuffersConserved
<1>8. (Intact \/ ops = "def")' => ~fault'
  BY <1>3, <1>5 DEF IInv, BuffersConserved
<1>9. ASSUME Intact' PROVE Dist(tx_recl, tx_tail) < NbDesc - 1
  <2>1. Advance(tx_tail) # tx_recl  BY <1>5, <1>9 DEF Overfills
  <2> QED  BY <1>2, <2>1, Sizes DEF Advance, Dist, Desc
<1>10. ASSUME Intact', NEW i \in Desc, sw_ring'[i] # NULL PROVE Between(i, tx_recl, tx_tail)'
  <2>1. i = tx_tail \/ Between(i, tx_recl, tx_tail)
    BY <1>1, <1>5, <1>10 DEF IInv, BuffersConserved
  <2> QED  BY <1>2, <1>6, <1>9, <1>10, <2>1, BetweenGrows
<1>11. ASSUME health' = "clean", NEW c \in Buffers PROVE owner'[c] # "lost"
  <2>1. Intact' /\ health = "clean"  BY <1>3, <1>11 DEF Intact
  <2>2. ~Between(tx_tail, tx_recl, tx_tail)  BY <1>2, <1>9, <2>1, BetweenGrows
  <2>3. sw_ring[tx_tail] = NULL  BY <1>2, <1>5, <2>1, <2>2 DEF IInv, BuffersConserved
  <2>4. c # sw_ring[tx_tail]  BY <2>3, Sizes
  <2>5. owner'[c] = IF c = b THEN "ring" ELSE owner[c]  BY <2>4 DEF Enqueue
  <2>6. owner[c] # "lost"  BY <2>1 DEF IInv, BuffersConserved
  <2> QED  BY <2>5, <2>6
<1> QED  BY <1>1, <1>7, <1>8, <1>10, <1>11, EnqueueOneHolder DEF BuffersConserved

(* The done bits after an enqueue, which clears that of its slot. *)
LEMMA EnqueueReports ==
  ASSUME IInv, NEW b \in Buffers, Enqueue(b)
  PROVE  TailRegister' /\ ReportInv' /\ (Intact' => DoneBits')
<1>1. /\ TypeOK /\ tx_tail' = Advance(tx_tail) /\ tdt' = tx_tail' /\ CardHead' = CardHead
      /\ \A i \in Desc : tx_ring'[i] = IF i = tx_tail THEN PostDesc(b) ELSE tx_ring[i]
  BY EnqueueType
<1>2. tx_tail \in Desc /\ tx_recl \in Desc /\ CardHead \in Desc
  BY <1>1, FirstBatch DEF TypeOK, CardHead
<1>3. UNCHANGED tx_recl /\ health' = IF Overfills THEN "broken" ELSE health
  BY DEF Enqueue
<1>4. /\ tx_ring'[tx_tail].dd = FALSE
      /\ tx_ring'[tx_tail].rs = (tx_tail = EndOf(tx_tail))
  BY <1>1, <1>2, Aligned DEF IInv, PostDesc
<1>5. ReportInv'
  <2> SUFFICES ASSUME NEW i \in Desc, Between(i, tx_recl, Advance(tx_tail)), tx_ring'[i].dd
               PROVE  /\ Dist(tx_recl, i) < Dist(tx_recl, CardHead)
                      /\ Dist(tx_recl, CardHead) <= Dist(tx_recl, Advance(tx_tail))
    BY <1>1, <1>3 DEF ReportInv, Between, Dist
  <2>1. i # tx_tail  BY <1>4
  <2>2. Between(i, tx_recl, tx_tail) /\ Dist(tx_recl, Advance(tx_tail)) = Dist(tx_recl, tx_tail) + 1
    BY <1>2, <2>1, WindowAfterEnqueue
  <2>3. tx_ring[i].dd  BY <1>1, <2>1
  <2>4. Dist(tx_recl, i) < Dist(tx_recl, CardHead) /\ Dist(tx_recl, CardHead) <= Dist(tx_recl, tx_tail)
    BY <2>2, <2>3 DEF IInv, ReportInv
  <2>5. Dist(tx_recl, CardHead) \in Int /\ Dist(tx_recl, tx_tail) \in Int
    BY <1>2, DistFacts DEF Desc
  <2> QED  BY <2>2, <2>4, <2>5
<1>6. ASSUME Intact' PROVE DoneBits'
  <2>1. Intact /\ ~Overfills  BY <1>3, <1>6 DEF Intact
  <2>2. Dist(CardHead, tx_tail) < NbDesc - 1
    <3>1. Advance(tx_tail) # CardHead  BY <2>1 DEF Overfills
    <3> QED  BY <1>2, <3>1, Sizes DEF Advance, Dist, Desc
  <2>3. \A i \in Desc :
          Between(i, CardHead, tx_tail)' <=> (Between(i, CardHead, tx_tail) \/ i = tx_tail)
    <3>1. \A i \in Desc : Between(i, CardHead, tx_tail)' <=> Between(i, CardHead, Advance(tx_tail))
      BY <1>1 DEF Between, Dist
    <3> QED  BY <1>2, <2>2, <3>1, BetweenGrows
  <2>4. ASSUME NEW i \in Desc, i = EndOf(i)
        PROVE  /\ tx_ring'[i].dd <=> ~Between(i, CardHead, tx_tail)'
               /\ Between(i, CardHead, tx_tail)' => tx_ring'[i].rs
    <3>1. CASE i = tx_tail  BY <1>4, <2>3, <2>4, <3>1
    <3>2. CASE i # tx_tail
      <4>1. tx_ring'[i] = tx_ring[i]  BY <1>1, <3>2
      <4> QED  BY <2>1, <2>3, <2>4, <3>2, <4>1 DEF IInv, DoneBits
    <3> QED  BY <3>1, <3>2
  <2>5. \A i \in Desc : EndOf(i)' = EndOf(i)  BY DEF EndOf
  <2> QED  BY <2>4, <2>5 DEF DoneBits
<1> QED  BY <1>1, <1>5, <1>6 DEF TailRegister

LEMMA EnqueueIInv ==
  ASSUME IInv, NEW b \in Buffers, Enqueue(b)
  PROVE  IInv'
  BY EnqueueType, EnqueueConserves, EnqueueReports DEF IInv

(***************************************************************************)
(* ixgbe_tx_cleanq_dequeue.                                                *)
(***************************************************************************)

(* A dequeue that reads through a null pointer: not in an intact ring, nor *)
(* with the scalar operations.                                             *)
LEMMA DequeueNullIInv ==
  ASSUME IInv, CanDequeue, DequeueNull
  PROVE  IInv'
<1>1. /\ UNCHANGED <<tx_tail, tx_recl, tx_next_rs, tx_next_dd, sw_ring, tx_ring, ops, started,
                     tdh, tdt, owner, health>>
      /\ fault' = TRUE /\ sw_ring[tx_recl] = NULL
  BY DEF DequeueNull
<1>2. tx_recl \in Desc /\ tx_tail \in Desc /\ tx_recl # tx_tail
  BY DEF IInv, BuffersConserved, TypeOK, CanDequeue
<1>3. Between(tx_recl, tx_recl, tx_tail)  BY <1>2, BetweenShrinks
<1>4. ~(Intact \/ ops = "def")  BY <1>1, <1>2, <1>3 DEF IInv, BuffersConserved
<1>5. health = "broken"  BY <1>4 DEF Intact
<1>6. TypeOK'  BY <1>1 DEF IInv, BuffersConserved, TypeOK
<1>7. OneHolder'  BY <1>1 DEF IInv, BuffersConserved, OneHolder
<1>8. BuffersConserved'  BY <1>1, <1>4, <1>5, <1>6, <1>7 DEF BuffersConserved, Intact
<1>9. ThresholdsAligned'  BY <1>1, <1>4 DEF IInv, ThresholdsAligned, Intact
<1>10. TailRegister' /\ ReportInv'
  BY <1>1 DEF IInv, TailRegister, ReportInv, Between, Dist, CardHead
<1> QED  BY <1>1, <1>5, <1>8, <1>9, <1>10 DEF IInv, Intact

(* The ring after a buffer was taken out. *)
LEMMA DequeueConserves ==
  ASSUME IInv, CanDequeue, DequeueBuffer
  PROVE  BuffersConserved' /\ ThresholdsAligned'
<1>1. TypeOK /\ tx_tail \in Desc /\ tx_recl \in Desc /\ tx_next_dd \in Desc
  BY DEF IInv, BuffersConserved, TypeOK
<1>2. /\ tx_recl # tx_tail /\ sw_ring[tx_recl] # NULL
      /\ sw_ring' = [sw_ring EXCEPT ![tx_recl] = NULL]
      /\ owner' = [owner EXCEPT ![sw_ring[tx_recl]] = "app"]
      /\ tx_next_dd' = NextDdAfter
      /\ tx_recl' = Advance(tx_recl)
      /\ UNCHANGED <<tx_tail, tx_next_rs, tx_ring, ops, started, fault, tdh, tdt, health>>
  BY DEF DequeueBuffer, CanDequeue
<1>3. tx_recl' \in Desc  BY <1>1, <1>2, AdvanceFacts
<1>4. tx_next_dd' \in Desc
  BY <1>1, <1>2, Sizes DEF NextDdAfter, NextBatch, Desc
<1>5. PICK b \in Buffers : b = sw_ring[tx_recl]  BY <1>1, <1>2 DEF TypeOK
<1>6. owner' = [owner EXCEPT ![b] = "app"]  BY <1>2, <1>5
<1>7. TypeOK'  BY <1>1, <1>2, <1>3, <1>4, <1>6 DEF TypeOK
<1>8. Intact' <=> Intact  BY <1>2 DEF Intact
<1>9. ThresholdsAligned'
  <2>1. tx_next_rs = EndOf(tx_tail) /\ (Intact \/ ops = "def" => tx_next_dd = EndOf(tx_recl))
    BY Aligned DEF IInv
  <2>2. ASSUME tx_next_dd = EndOf(tx_recl) PROVE tx_next_dd' = EndOf(tx_recl')
    <3>1. tx_recl <= tx_next_dd  BY <1>1, <2>2, EndFacts
    <3>2. tx_recl + 1 > tx_next_dd <=> tx_recl = EndOf(tx_recl)
      BY <1>1, <2>2, <3>1, Sizes DEF Desc
    <3>3. tx_next_dd' = IF tx_recl = EndOf(tx_recl) THEN NextBatch(EndOf(tx_recl)) ELSE EndOf(tx_recl)
      BY <1>2, <2>2, <3>2 DEF NextDdAfter
    <3> QED  BY <1>1, <1>2, <3>3, EndAdvance
  <2> QED  BY <1>2, <1>8, <2>1, <2>2 DEF ThresholdsAligned, EndOf
<1>10. \A i \in Desc : sw_ring'[i] = IF i = tx_recl THEN NULL ELSE sw_ring[i]
  BY <1>1, <1>2 DEF TypeOK
<1>11. \A c \in Buffers : owner'[c] = IF c = b THEN "app" ELSE owner[c]
  BY <1>1, <1>6 DEF TypeOK
<1>12. /\ \A c \in Buffers : owner[c] = "ring" <=> \E i \in Desc : sw_ring[i] = c
       /\ \A i, j \in Desc : sw_ring[i] = sw_ring[j] /\ i # j => sw_ring[i] = NULL
  BY DEF IInv, BuffersConserved, OneHolder
<1>13. OneHolder'
  <2>1. ASSUME NEW i \in Desc PROVE sw_ring'[i] # b
    <3>1. CASE i = tx_recl  BY <1>10, <3>1, Sizes
    <3>2. CASE i # tx_recl
      <4>1. sw_ring'[i] = sw_ring[i]  BY <1>10, <3>2
      <4>2. sw_ring[i] # sw_ring[tx_recl]  BY <1>1, <1>2, <1>12, <3>2
      <4> QED  BY <1>5, <4>1, <4>2
    <3> QED  BY <3>1, <3>2
  <2>2. ASSUME NEW c \in Buffers PROVE owner'[c] = "ring" <=> \E i \in Desc : sw_ring'[i] = c
    <3>1. CASE c = b  BY <1>11, <2>1, <3>1
    <3>2. CASE c # b
      <4>1. \A i \in Desc : sw_ring'[i] = c <=> sw_ring[i] = c  BY <1>5, <1>10, <3>2, Sizes
      <4> QED  BY <1>11, <1>12, <3>2, <4>1
    <3> QED  BY <3>1, <3>2
  <2>3. \A i, j \in Desc : sw_ring'[i] = sw_ring'[j] /\ i # j => sw_ring'[i] = NULL
    BY <1>10, <1>12
  <2> QED  BY <2>2, <2>3 DEF OneHolder
<1>14. \A i \in Desc : Between(i, tx_recl, tx_tail)' <=> (Between(i, tx_recl, tx_tail) /\ i # tx_recl)
  <2>1. \A i \in Desc : Between(i, tx_recl, tx_tail)' <=> Between(i, tx_recl', tx_tail)
    BY <1>2 DEF Between, Dist
  <2> QED  BY <1>1, <1>2, <2>1, BetweenShrinks
<1>15. BuffersConserved'
  <2>1. (Intact \/ ops = "def")' =>
          ~fault' /\ \A i \in Desc : Between(i, tx_recl, tx_tail)' => sw_ring'[i] # NULL
    BY <1>2, <1>8, <1>10, <1>14 DEF IInv, BuffersConserved
  <2>2. Intact' => \A i \in Desc : sw_ring'[i] # NULL => Between(i, tx_recl, tx_tail)'
    BY <1>8, <1>10, <1>14 DEF IInv, BuffersConserved
  <2>3. health' = "clean" => \A c \in Buffers : owner'[c] # "lost"
    BY <1>2, <1>11 DEF IInv, BuffersConserved
  <2> QED  BY <1>7, <1>13, <2>1, <2>2, <2>3 DEF BuffersConserved
<1> QED  BY <1>9, <1>15

(* The done bits do not change; the window they are seen in starts later.  *)
LEMMA DequeueReports ==
  ASSUME IInv, CanDequeue, DequeueBuffer
  PROVE  TailRegister' /\ ReportInv' /\ (Intact' => DoneBits')
<1>1. /\ tx_recl # tx_tail /\ tx_recl' = Advance(tx_recl)
      /\ UNCHANGED <<tx_tail, tx_ring, started, tdh, tdt, health>>
  BY DEF DequeueBuffer, CanDequeue
<1>2. tx_tail \in Desc /\ tx_recl \in Desc /\ CardHead \in Desc
  BY FirstBatch DEF IInv, BuffersConserved, TypeOK, CardHead
<1>3. CardHead' = CardHead  BY <1>1 DEF CardHead
<1>4. TailRegister'  BY <1>1 DEF IInv, TailRegister
<1>5. Intact' => DoneBits'
  BY <1>1, <1>3 DEF IInv, Intact, DoneBits, Between, Dist, EndOf
<1>6. ReportInv'
  <2> SUFFICES ASSUME NEW i \in Desc, Between(i, Advance(tx_recl), tx_tail), tx_ring[i].dd
               PROVE  /\ Dist(Advance(tx_recl), i) < Dist(Advance(tx_recl), CardHead)
                      /\ Dist(Advance(tx_recl), CardHead) <= Dist(Advance(tx_recl), tx_tail)
    BY <1>1, <1>3 DEF ReportInv, Between, Dist
  <2>1. Between(i, tx_recl, tx_tail) /\ i # tx_recl  BY <1>1, <1>2, BetweenShrinks
  <2>2. Dist(tx_recl, i) < Dist(tx_recl, CardHead) /\ Dist(tx_recl, CardHead) <= Dist(tx_recl, tx_tail)
    BY <2>1 DEF IInv, ReportInv
  <2>3. /\ Dist(tx_recl, i) \in Nat /\ Dist(tx_recl, CardHead) \in Nat /\ Dist(tx_recl, tx_tail) \in Nat
        /\ Dist(tx_recl, CardHead) = 0 <=> CardHead = tx_recl
    BY <1>2, DistFacts DEF Desc
  <2>4. CardHead # tx_recl  BY <2>2, <2>3
  <2>5. /\ Dist(Advance(tx_recl), i) = Dist(tx_recl, i) - 1
        /\ Dist(Advance(tx_recl), CardHead) = Dist(tx_recl, CardHead) - 1
        /\ Dist(Advance(tx_recl), tx_tail) = Dist(tx_recl, tx_tail) - 1
    BY <1>1, <1>2, <2>1, <2>4, AdvanceFacts
  <2> QED  BY <2>2, <2>3, <2>5
<1> QED  BY <1>4, <1>5, <1>6

LEMMA DequeueIInv ==
  ASSUME IInv, Dequeue
  PROVE  IInv'
  BY DequeueNullIInv, DequeueConserves, DequeueReports DEF IInv, Dequeue

(***************************************************************************)
(* The card.                                                               *)
(***************************************************************************)

LEMMA TransmitIInv ==
  ASSUME IInv, CardTransmit
  PROVE  IInv'
<1>1. /\ UNCHANGED <<tx_tail, tx_recl, tx_next_rs, tx_next_dd, sw_ring, owner, ops, fault, health>>
      /\ UNCHANGED <<started, tdt>> /\ started /\ tdh # tdt /\ tdh' = Advance(tdh)
      /\ tx_ring' = [tx_ring EXCEPT ![tdh] = SentDesc(tx_ring[tdh])]
  BY DEF CardTransmit, swVars
<1>2. TypeOK /\ tdh \in Desc /\ tx_tail \in Desc /\ tx_recl \in Desc
  BY DEF IInv, BuffersConserved, TypeOK
<1>3. tdt = tx_tail /\ CardHead = tdh /\ CardHead' = Advance(tdh) /\ Advance(tdh) \in Desc
  BY <1>1, <1>2, AdvanceFacts DEF IInv, TailRegister, CardHead
<1>4. /\ tx_ring'[tdh] = SentDesc(tx_ring[tdh])
      /\ \A i \in Desc : i # tdh => tx_ring'[i] = tx_ring[i]
  BY <1>1, <1>2 DEF TypeOK
<1>12. /\ SentDesc(tx_ring[tdh]) \in [buffer_addr : Buffers \union {NULL}, rs : BOOLEAN, dd : BOOLEAN]
       /\ tx_ring[tdh].rs => SentDesc(tx_ring[tdh]).dd
  BY <1>2 DEF TypeOK, SentDesc
<1>5. tx_ring' \in [Desc -> [buffer_addr : Buffers \union {NULL}, rs : BOOLEAN, dd : BOOLEAN]]
  BY <1>1, <1>2, <1>12 DEF TypeOK
<1>6. TypeOK'  BY <1>1, <1>2, <1>3, <1>5 DEF TypeOK
<1>7. BuffersConserved'
  BY <1>1, <1>6 DEF IInv, BuffersConserved, OneHolder, Intact, Between, Dist
<1>8. ThresholdsAligned'  BY <1>1 DEF IInv, ThresholdsAligned, Intact
<1>9. TailRegister'  BY <1>1 DEF IInv, TailRegister
<1>10. ReportInv'
  <2> SUFFICES ASSUME NEW i \in Desc, Between(i, tx_recl, tx_tail), tx_ring'[i].dd
               PROVE  /\ Dist(tx_recl, i) < Dist(tx_recl, Advance(tdh))
                      /\ Dist(tx_recl, Advance(tdh)) <= Dist(tx_recl, tx_tail)
    BY <1>1, <1>3 DEF ReportInv, Between, Dist
  <2>1. CASE i = tdh
    BY <1>2, <2>1, Sizes DEF Between, Dist, Advance, Desc
  <2>2. CASE i # tdh
    <3>1. tx_ring[i].dd  BY <1>4, <2>2
    <3>2. Dist(tx_recl, i) < Dist(tx_recl, tdh) /\ Dist(tx_recl, tdh) <= Dist(tx_recl, tx_tail)
      BY <1>3, <3>1 DEF IInv, ReportInv
    <3> QED  BY <1>1, <1>2, <1>3, <3>2, Sizes DEF Dist, Advance, Desc
  <2> QED  BY <2>1, <2>2
<1>11. ASSUME Intact' PROVE DoneBits'
  <2>1. DoneBits  BY <1>1, <1>11 DEF IInv, Intact
  <2>2. \A i \in Desc : Between(i, CardHead, tx_tail)' <=> (Between(i, CardHead, tx_tail) /\ i # tdh)
    <3>1. \A i \in Desc : Between(i, CardHead, tx_tail)' <=> Between(i, Advance(tdh), tx_tail)
      BY <1>1, <1>3 DEF Between, Dist
    <3> QED  BY <1>1, <1>2, <1>3, <3>1, BetweenShrinks
  <2>3. ASSUME NEW i \in Desc, i = EndOf(i)
        PROVE  /\ tx_ring'[i].dd <=> ~Between(i, CardHead, tx_tail)'
               /\ Between(i, CardHead, tx_tail)' => tx_ring'[i].rs
    <3>1. CASE i = tdh
      <4>1. Between(i, CardHead, tx_tail)  BY <1>1, <1>2, <1>3, <3>1, BetweenShrinks
      <4>2. tx_ring[i].rs  BY <2>1, <2>3, <4>1 DEF DoneBits
      <4>3. tx_ring'[i].dd  BY <1>4, <1>12, <3>1, <4>2
      <4> QED  BY <2>2, <3>1, <4>3
    <3>2. CASE i # tdh
      <4>1. tx_ring'[i] = tx_ring[i]  BY <1>4, <3>2
      <4> QED  BY <2>1, <2>2, <2>3, <3>2, <4>1 DEF DoneBits
    <3> QED  BY <3>1, <3>2
  <2>4. \A i \in Desc : EndOf(i)' = EndOf(i)  BY DEF EndOf
  <2> QED  BY <2>3, <2>4 DEF DoneBits
<1> QED  BY <1>7, <1>8, <1>9, <1>10, <1>11 DEF IInv

(***************************************************************************)
(* Stopping and starting.                                                  *)
(***************************************************************************)

(* Both resets leave one holder for each buffer. *)
LEMMA ResetOneHolder ==
  ASSUME IInv, ScalarReset \/ VectorReset
  PROVE  OneHolder' /\ owner' \in [Buffers -> {"ring", "app", "lost"}]
         /\ sw_ring' \in [Desc -> Buffers \union {NULL}]
<1>1. owner \in [Buffers -> {"ring", "app", "lost"}] /\ sw_ring \in [Desc -> Buffers \union {NULL}]
  BY DEF IInv, BuffersConserved, TypeOK
<1>2. /\ \A c \in Buffers : owner[c] = "ring" <=> \E i \in Desc : sw_ring[i] = c
      /\ \A i, j \in Desc : sw_ring[i] = sw_ring[j] /\ i # j => sw_ring[i] = NULL
  BY DEF IInv, BuffersConserved, OneHolder
<1>3. CASE ScalarReset
  <2>1. /\ owner' = [b \in Buffers |-> IF \E i \in Desc : sw_ring[i] = b THEN "app" ELSE owner[b]]
        /\ sw_ring' = [i \in Desc |-> NULL]
    BY <1>3 DEF ScalarReset, ReleasedOwners
  <2>2. \A b \in Buffers : owner'[b] # "ring"  BY <1>2, <2>1
  <2>3. \A i \in Desc : sw_ring'[i] = NULL  BY <2>1
  <2>4. owner' \in [Buffers -> {"ring", "app", "lost"}] /\ sw_ring' \in [Desc -> Buffers \union {NULL}]
    BY <1>1, <2>1
  <2> QED  BY <2>2, <2>3, <2>4, Sizes DEF OneHolder
<1>4. CASE VectorReset
  <2>1. /\ owner' = [b \in Buffers |->
                       IF \E i \in Desc : sw_ring[i] = b /\ ClearedByVector(i) THEN "lost" ELSE owner[b]]
        /\ sw_ring' = [i \in Desc |-> IF ClearedByVector(i) THEN NULL ELSE sw_ring[i]]
    BY <1>4 DEF VectorReset
  <2>2. owner' \in [Buffers -> {"ring", "app", "lost"}] /\ sw_ring' \in [Desc -> Buffers \union {NULL}]
    BY <1>1, <2>1
  <2>3. ASSUME NEW b \in Buffers PROVE owner'[b] = "ring" <=> \E i \in Desc : sw_ring'[i] = b
    <3>1. CASE \E i \in Desc : sw_ring[i] = b /\ ClearedByVector(i)
      <4>1. PICK k \in Desc : sw_ring[k] = b /\ ClearedByVector(k)  BY <3>1
      <4>2. \A i \in Desc : sw_ring[i] = b => i = k  BY <1>2, <4>1, Sizes
      <4>3. \A i \in Desc : sw_ring'[i] # b  BY <2>1, <4>1, <4>2, Sizes
      <4> QED  BY <2>1, <3>1, <4>3
    <3>2. CASE ~ \E i \in Desc : sw_ring[i] = b /\ ClearedByVector(i)
      <4>1. \A i \in Desc : sw_ring'[i] = b <=> sw_ring[i] = b  BY <2>1, <3>2, Sizes
      <4> QED  BY <1>2, <2>1, <3>2, <4>1
    <3> QED  BY <3>1, <3>2
  <2>4. \A i, j \in Desc : sw_ring'[i] = sw_ring'[j] /\ i # j => sw_ring'[i] = NULL
    BY <1>2, <2>1
  <2> QED  BY <2>2, <2>3, <2>4 DEF OneHolder
<1> QED  BY <1>3, <1>4

(* An empty window, or a ring broken already or by this: with the scalar   *)
(* operations tx_recl and tx_tail meet at 0.                               *)
LEMMA StopIInv ==
  ASSUME IInv, Stop
  PROVE  IInv'
<1>1. /\ ~fault /\ started' = FALSE /\ tx_ring' = [i \in Desc |-> ResetDesc]
      /\ tx_tail' = 0 /\ tx_next_rs' = RsThresh - 1 /\ tx_next_dd' = RsThresh - 1
      /\ UNCHANGED <<ops, fault, tdh, tdt>>
      /\ ScalarReset \/ VectorReset
  BY DEF Stop
<1>2. TypeOK /\ tx_recl \in Desc /\ tx_tail \in Desc  BY DEF IInv, BuffersConserved, TypeOK
<1>3. OneHolder' /\ owner' \in [Buffers -> {"ring", "app", "lost"}]
      /\ sw_ring' \in [Desc -> Buffers \union {NULL}]
  BY <1>1, ResetOneHolder
<1>4. /\ tx_recl' \in Desc /\ health' \in {"clean", "broken", "repaired"}
      /\ Intact' \/ ops' = "def" => tx_recl' = 0
      /\ Intact' => /\ \A i \in Desc : sw_ring'[i] = NULL
                    /\ health' = health \/ health' = "repaired"
  <2>1. CASE ScalarReset
    BY <1>1, <1>2, <2>1, FirstBatch DEF ScalarReset, Intact, TypeOK
  <2>2. CASE VectorReset
    <3>1. /\ ops = "vec" /\ tx_recl' = tx_recl
          /\ health' = IF tx_recl = 0 /\ tx_tail = 0 THEN health ELSE "broken"
          /\ sw_ring' = [i \in Desc |-> IF ClearedByVector(i) THEN NULL ELSE sw_ring[i]]
      BY <2>2 DEF VectorReset
    <3>2. health' \in {"clean", "broken", "repaired"}  BY <1>2, <3>1 DEF TypeOK
    <3>3. ASSUME Intact'
          PROVE  tx_recl = 0 /\ health' = health /\ \A i \in Desc : sw_ring'[i] = NULL
      <4>1. tx_recl = 0 /\ tx_tail = 0 /\ health' = health /\ Intact  BY <3>1, <3>3 DEF Intact
      <4>2. \A i \in Desc : ~Between(i, 0, 0)  BY Sizes DEF Between, Dist, Desc
      <4>3. \A i \in Desc : sw_ring[i] = NULL  BY <4>1, <4>2 DEF IInv, BuffersConserved
      <4> QED  BY <3>1, <4>1, <4>3
    <3> QED  BY <1>1, <1>2, <3>1, <3>2, <3>3
  <2> QED  BY <1>1, <2>1, <2>2
<1>5. ResetDesc \in [buffer_addr : Buffers \union {NULL}, rs : BOOLEAN, dd : BOOLEAN] /\ ResetDesc.dd
  BY DEF ResetDesc
<1>15. tx_ring' \in [Desc -> [buffer_addr : Buffers \union {NULL}, rs : BOOLEAN, dd : BOOLEAN]]
  BY <1>1, <1>5
<1>16. {tx_tail, tx_recl, tx_next_rs, tx_next_dd, tdh, tdt}' \subseteq Desc
  BY <1>1, <1>2, <1>4, FirstBatch DEF TypeOK
<1>6. TypeOK'  BY <1>1, <1>2, <1>3, <1>4, <1>15, <1>16 DEF TypeOK
<1>7. CardHead' = 0  BY <1>1 DEF CardHead
<1>8. \A i \in Desc : ~Between(i, 0, 0)  BY Sizes DEF Between, Dist, Desc
<1>9. ASSUME health' = "clean", NEW b \in Buffers PROVE owner'[b] # "lost"
  <2>1. health = "clean" /\ Intact' /\ Intact  BY <1>4, <1>9 DEF Intact
  <2>2. owner[b] # "lost"  BY <2>1 DEF IInv, BuffersConserved
  <2>3. CASE ScalarReset
    <3>1. owner'[b] \in {"app", owner[b]}  BY <2>3 DEF ScalarReset, ReleasedOwners
    <3> QED  BY <2>2, <3>1
  <2>4. CASE VectorReset
    <3>1. tx_recl = 0 /\ tx_tail = 0  BY <2>1, <2>4 DEF VectorReset, Intact
    <3>2. \A i \in Desc : sw_ring[i] = NULL  BY <1>8, <2>1, <3>1 DEF IInv, BuffersConserved
    <3>3. owner'[b] = owner[b]  BY <2>4, <3>2, Sizes DEF VectorReset
    <3> QED  BY <2>2, <3>3
  <2> QED  BY <1>1, <2>3, <2>4
<1>10. BuffersConserved'
  <2>1. (Intact \/ ops = "def")' => \A i \in Desc : ~Between(i, tx_recl, tx_tail)'
    BY <1>1, <1>4, <1>8 DEF Between, Dist
  <2> QED  BY <1>1, <1>3, <1>4, <1>6, <1>9, <2>1 DEF BuffersConserved
<1>11. ThresholdsAligned'
  BY <1>1, <1>4, FirstBatch DEF ThresholdsAligned, EndOf
<1>12. TailRegister'  BY <1>1 DEF TailRegister
<1>13. ReportInv'
  <2> SUFFICES ASSUME NEW i \in Desc, Between(i, tx_recl', 0)
               PROVE  Dist(tx_recl', i) < Dist(tx_recl', 0) /\ Dist(tx_recl', 0) <= Dist(tx_recl', 0)
    BY <1>1, <1>7 DEF ReportInv, Between, Dist
  <2>1. Dist(tx_recl', 0) \in Int  BY <1>4, FirstBatch, DistFacts DEF Desc
  <2> QED  BY <2>1 DEF Between
<1>14. DoneBits'
  <2>1. \A i \in Desc : ~Between(i, CardHead, tx_tail)' /\ tx_ring'[i].dd
    BY <1>1, <1>5, <1>7, <1>8 DEF Between, Dist
  <2> QED  BY <2>1 DEF DoneBits
<1> QED  BY <1>10, <1>11, <1>12, <1>13, <1>14 DEF IInv

LEMMA StartIInv ==
  ASSUME IInv, Start
  PROVE  IInv'
<1>1. /\ UNCHANGED <<tx_tail, tx_recl, tx_next_rs, tx_next_dd, sw_ring, owner, ops, fault, health, tx_ring>>
      /\ ~started /\ started' = TRUE /\ tdh' = 0 /\ tdt' = tx_tail
  BY DEF Start, swVars
<1>2. CardHead' = CardHead  BY <1>1 DEF CardHead
<1>3. TypeOK'  BY <1>1, FirstBatch DEF IInv, BuffersConserved, TypeOK
<1>4. BuffersConserved'
  BY <1>1, <1>3 DEF IInv, BuffersConserved, OneHolder, Intact, Between, Dist
<1>5. ThresholdsAligned' /\ TailRegister'
  BY <1>1 DEF IInv, ThresholdsAligned, Intact, TailRegister
<1>6. ReportInv' /\ (Intact' => DoneBits')
  BY <1>1, <1>2 DEF IInv, ReportInv, DoneBits, Intact, Between, Dist, EndOf
<1> QED  BY <1>4, <1>5, <1>6 DEF IInv

(***************************************************************************)
(* The theorems.                                                           *)
(***************************************************************************)

(* Every step keeps the invariant. *)
LEMMA NextIInv == IInv /\ [Next]_vars => IInv'
<1> SUFFICES ASSUME IInv, [Next]_vars PROVE IInv'
  OBVIOUS
<1>1. CASE UNCHANGED vars
  <2>1. UNCHANGED <<tx_tail, tx_recl, tx_next_rs, tx_next_dd, sw_ring, tx_ring, ops, started, fault,
                    tdh, tdt, owner, health>>
    BY <1>1 DEF vars
  <2>2. TypeOK'  BY <2>1 DEF IInv, BuffersConserved, TypeOK
  <2>3. BuffersConserved'
    BY <2>1, <2>2 DEF IInv, BuffersConserved, OneHolder, Intact, Between, Dist
  <2>4. ThresholdsAligned' /\ TailRegister'
    BY <2>1 DEF IInv, ThresholdsAligned, Intact, TailRegister
  <2>5. ReportInv' /\ (Intact' => DoneBits')
    BY <2>1 DEF IInv, ReportInv, DoneBits, Intact, Between, Dist, EndOf, CardHead
  <2> QED  BY <2>3, <2>4, <2>5 DEF IInv
<1> QED
  BY <1>1, EnqueueIInv, DequeueIInv, TransmitIInv, StopIInv, StartIInv DEF Next

(* The invariant of the transmit queue. *)
THEOREM TxInvariant == Spec => []IInv
  BY InitIInv, NextIInv, PTL DEF Spec

(* No buffer has two holders, whatever the ring has been through; until an *)
(* enqueue overfills it or a vector reset meets it in use, no buffer is    *)
(* lost, no dequeue faults, and the software ring is the window from       *)
(* tx_recl to tx_tail.                                                     *)
THEOREM TxBuffersConserved == Spec => []BuffersConserved
<1>1. IInv => BuffersConserved  BY DEF IInv
<1> QED  BY <1>1, TxInvariant, PTL

(* tx_next_rs and tx_next_dd never drift from the batches of tx_tail and   *)
(* tx_recl, but for tx_next_dd after a vector reset of a ring in use.      *)
THEOREM TxThresholdsAligned == Spec => []ThresholdsAligned
<1>1. IInv => ThresholdsAligned  BY DEF IInv
<1> QED  BY <1>1, TxInvariant, PTL

(* A full batch is handed back only after the card has sent it: the done   *)
(* bit seen is the report of this lap, in an overfilled ring too.          *)
THEOREM TxFullBatchReclaimSafe == Spec => []FullBatchReclaimSafe
<1>1. IInv => FullBatchReclaimSafe
  <2> SUFFICES ASSUME IInv, started, CanDequeue, Between(tx_next_dd, tx_recl, tx_tail)
               PROVE  ~Between(tx_recl, tdh, tdt)
    BY DEF FullBatchReclaimSafe
  <2>1. tx_recl \in Desc /\ tx_tail \in Desc /\ tdh \in Desc /\ tx_next_dd \in Desc
    BY DEF IInv, BuffersConserved, TypeOK
  <2>2. CardHead = tdh /\ tdt = tx_tail  BY DEF IInv, TailRegister, CardHead
  <2>3. Dist(tx_recl, tx_next_dd) < Dist(tx_recl, tdh) /\ Dist(tx_recl, tdh) <= Dist(tx_recl, tx_tail)
    BY <2>1, <2>2 DEF IInv, ReportInv, CanDequeue
  <2> QED  BY <2>1, <2>2, <2>3, Sizes DEF Between, Dist, Desc
<1> QED  BY <1>1, TxInvariant, PTL

(* While the ring is intact, a card that has nothing left to send has      *)
(* reported all that software waits for: the two never wait for each       *)
(* other.                                                                  *)
THEOREM TxCardSeesPosted == Spec => []CardSeesPosted
<1>1. IInv => CardSeesPosted
  <2> SUFFICES ASSUME IInv, Intact, started, tdh = tdt, tx_recl # tx_tail
               PROVE  CanDequeue
    BY DEF CardSeesPosted
  <2>1. tx_recl \in Desc /\ tx_tail \in Desc /\ tx_next_dd \in Desc
    BY DEF IInv, BuffersConserved, TypeOK
  <2>2. CardHead = tx_tail  BY DEF IInv, TailRegister, CardHead
  <2>3. tx_next_dd = EndOf(tx_recl)  BY Aligned DEF IInv
  <2>4. tx_next_dd = EndOf(tx_next_dd)  BY <2>1, <2>3, EndFacts
  <2>5. ~Between(tx_next_dd, CardHead, tx_tail)
    BY <2>1, <2>2, Sizes DEF Between, Dist, Desc
  <2> QED  BY <2>1, <2>4, <2>5 DEF IInv, DoneBits, CanDequeue
<1> QED  BY <1>1, TxInvariant, PTL

=============================================================================
