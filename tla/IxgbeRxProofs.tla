---------------------------- MODULE IxgbeRxProofs ----------------------------
(***************************************************************************)
(* Proofs about the receive queue, for every ring size, any number of      *)
(* mbufs and any burst size: IxgbeRxBurst, that is rte_eth_rx_burst and    *)
(* direct use between bursts, with the card running at any time and the    *)
(* queue being stopped and started.                                        *)
(***************************************************************************)
EXTENDS IxgbeRxBurst, SlotIndex, TLAPS

(***************************************************************************)
(* The inductive invariant.                                                *)
(***************************************************************************)

(* Index or sequence number i moved on by d, both below NbDesc. *)
Plus(i, d) == IF i + d >= NbDesc THEN i + d - NbDesc ELSE i + d

(* How many of the posted buffers the card has filled. *)
Done == IF started THEN Dist(rx_recl, rdh) ELSE 0

(* The card works inside what software has posted; while the queue is      *)
(* stopped nothing is taken out, so that the start at slot 0 is right.     *)
Registers ==
  /\ started => rdt = rx_tail /\ Dist(rx_recl, rdh) <= Dist(rx_recl, rx_tail)
  /\ ~started => rx_recl = 0

(* A posted slot's descriptor names its buffer, and its done bit is of     *)
(* this lap: set for the first Done slots and for no other.                *)
Descriptors ==
  \A i \in Desc :
    Between(i, rx_recl, rx_tail) =>
      /\ rx_ring[i].pkt_addr = sw_ring[i]
      /\ rx_ring[i].dd <=> Dist(rx_recl, i) < Done

(* The filled buffers hold consecutive packets, the next one to be taken   *)
(* first.                                                                  *)
Packets ==
  /\ rx_seq = Plus(app_seq, Done)
  /\ \A i \in Desc :
       Between(i, rx_recl, rx_tail) /\ Dist(rx_recl, i) < Done
         => pkt[sw_ring[i]] = Plus(app_seq, Dist(rx_recl, i))

QInv == BuffersConserved /\ Registers /\ Descriptors /\ Packets

(* A refill under way never needs more than the free slots but one. *)
RefillRoom ==
  /\ nb_bufs \in Nat
  /\ pc = "refill" => nb_bufs + Dist(rx_recl, rx_tail) <= NbDesc - 1

IInv == QInv /\ RefillRoom

(***************************************************************************)
(* Arithmetic of the ring.                                                 *)
(***************************************************************************)

(* Distances are in range and tell slots apart. *)
LEMMA DistFacts ==
  ASSUME NEW r \in Desc, NEW i \in Desc
  PROVE  /\ Dist(r, i) \in Desc
         /\ Dist(r, i) = 0 <=> i = r
         /\ Plus(r, Dist(r, i)) = i
         /\ \A j \in Desc : Dist(r, i) = Dist(r, j) => i = j
  BY RxAssumption DEF Desc, Dist, Plus

(* What advancing an index does to distances from it and to it. *)
LEMMA AdvanceFacts ==
  ASSUME NEW r \in Desc, NEW i \in Desc
  PROVE  /\ Advance(i) \in Desc
         /\ Dist(r, i) < NbDesc - 1 => Dist(r, Advance(i)) = Dist(r, i) + 1
         /\ i # r => Dist(Advance(r), i) = Dist(r, i) - 1
         /\ Dist(Advance(r), r) = NbDesc - 1
  BY RxAssumption DEF Desc, Dist, Advance

(* A sequence number counts modulo the ring size. *)
LEMMA SeqFacts ==
  ASSUME NEW a \in Desc
  PROVE  /\ (a + 1) % NbDesc = Plus(a, 1)
         /\ Plus(a, 0) = a
         /\ \A d \in Desc : Plus(a, d) \in Desc
         /\ \A d \in Desc : d # 0 => Plus(Plus(a, 1), d - 1) = Plus(a, d)
         /\ \A d \in Desc : d + 1 < NbDesc => Plus(Plus(a, d), 1) = Plus(a, d + 1)
<1> DEFINE x == a + 1
<1>1. x \in 0 .. 2 * NbDesc - 1 /\ NbDesc \in Nat \ {0}
  BY RxAssumption DEF Desc
<1> HIDE DEF x
<1>2. x % NbDesc = IF x < NbDesc THEN x ELSE x - NbDesc
  BY <1>1, ModLap
<1>3. (a + 1) % NbDesc = Plus(a, 1)  BY <1>1, <1>2 DEF Plus, Desc, x
<1> QED  BY <1>3, RxAssumption DEF Plus, Desc

(***************************************************************************)
(* Each operation preserves the queue's invariant.                         *)
(***************************************************************************)

(* ixgbe_dev_rx_queue_setup establishes it. *)
LEMMA InitInv == BurstInit => IInv
<1> SUFFICES ASSUME BurstInit PROVE IInv
  OBVIOUS
<1> USE RxAssumption DEF BurstInit, Init
<1>1. TypeOK  BY DEF TypeOK, Desc, ZeroDesc
<1>2. \A i \in Desc : ~Between(i, rx_recl, rx_tail)
  BY DEF Between, Dist, Desc
<1>3. BuffersConserved  BY <1>1, <1>2 DEF BuffersConserved
<1>4. Registers  BY DEF Registers, Dist
<1>5. Done = 0  BY DEF Done, Dist
<1>6. Descriptors /\ Packets  BY <1>2, <1>5 DEF Descriptors, Packets, Plus
<1>7. RefillRoom  BY DEF RefillRoom
<1> QED  BY <1>3, <1>4, <1>6, <1>7 DEF IInv, QInv

(* ixgbe_rx_cleanq_enqueue preserves it if one slot stays free. *)
LEMMA EnqueueInv ==
  ASSUME QInv, NEW b \in Buffers, owner[b] # "ring", Enqueue(b),
         Dist(rx_recl, rx_tail) < NbDesc - 1
  PROVE  QInv'
<1> DEFINE d == Dist(rx_recl, rx_tail)
<1>1. TypeOK /\ rx_tail \in Desc /\ rx_recl \in Desc /\ rdh \in Desc /\ NbDesc \in Nat
  BY RxAssumption DEF QInv, BuffersConserved, TypeOK
<1>2. /\ sw_ring' = [sw_ring EXCEPT ![rx_tail] = b]
      /\ rx_ring' = [rx_ring EXCEPT ![rx_tail] = PostDesc(b)]
      /\ rx_tail' = Advance(rx_tail)
      /\ rdt' = rx_tail'
      /\ owner' = [owner EXCEPT ![b] = "ring"]
      /\ UNCHANGED <<rx_recl, app_seq, started, rdh, pkt, rx_seq>>
  BY DEF Enqueue, cardVars
<1>3. rx_tail' \in Desc /\ Dist(rx_recl, rx_tail') = d + 1
  BY <1>1, <1>2, AdvanceFacts
<1>4. TypeOK'
  BY <1>1, <1>2, <1>3 DEF TypeOK, PostDesc, Desc
<1>5. \A i \in Desc : /\ Between(i, rx_recl, rx_tail)' <=> (Between(i, rx_recl, rx_tail) \/ i = rx_tail)
                      /\ i = rx_tail => ~Between(i, rx_recl, rx_tail)
                      /\ Dist(rx_recl, i)' = Dist(rx_recl, i)
  <2> SUFFICES ASSUME NEW i \in Desc
               PROVE  /\ Between(i, rx_recl, rx_tail)' <=> (Between(i, rx_recl, rx_tail) \/ i = rx_tail)
                      /\ i = rx_tail => ~Between(i, rx_recl, rx_tail)
                      /\ Dist(rx_recl, i)' = Dist(rx_recl, i)
    OBVIOUS
  <2>1. Dist(rx_recl, i)' = Dist(rx_recl, i)  BY <1>2 DEF Dist
  <2>2. Dist(rx_recl, rx_tail)' = d + 1  BY <1>2, <1>3 DEF Dist
  <2>3. Between(i, rx_recl, rx_tail)' <=> Dist(rx_recl, i) < d + 1  BY <2>1, <2>2 DEF Between
  <2>4. Dist(rx_recl, i) = d <=> i = rx_tail  BY <1>1, DistFacts
  <2>5. Dist(rx_recl, i) \in Int /\ d \in Int  BY <1>1, DistFacts DEF Desc
  <2> HIDE DEF d
  <2>6. Dist(rx_recl, i) < d + 1 <=> Dist(rx_recl, i) < d \/ Dist(rx_recl, i) = d
    BY <2>5
  <2>7. Between(i, rx_recl, rx_tail) <=> Dist(rx_recl, i) < d  BY DEF Between, d
  <2> QED  BY <2>1, <2>3, <2>4, <2>5, <2>6, <2>7
<1>6. sw_ring[rx_tail] = NULL /\ \A i \in Desc : sw_ring[i] # b
  BY <1>1, <1>5 DEF QInv, BuffersConserved
<1>7. BuffersConserved'
  <2>1. \A i \in Desc : sw_ring'[i] = IF i = rx_tail THEN b ELSE sw_ring[i]
    BY <1>1, <1>2 DEF TypeOK
  <2>2. \A i \in Desc : sw_ring'[i] # NULL <=> Between(i, rx_recl, rx_tail)'
    BY <1>1, <1>5, <2>1, RxAssumption DEF QInv, BuffersConserved
  <2>3. \A c \in Buffers : owner'[c] = "ring" <=> \E i \in Desc : sw_ring'[i] = c
    BY <1>1, <1>2, <1>6, <2>1, RxAssumption DEF QInv, BuffersConserved, TypeOK
  <2>4. \A i, j \in Desc : sw_ring'[i] = sw_ring'[j] /\ i # j => sw_ring'[i] = NULL
    BY <1>1, <1>6, <2>1 DEF QInv, BuffersConserved
  <2> QED  BY <1>4, <2>2, <2>3, <2>4 DEF BuffersConserved
<1>8. Registers'
  <2>1. Dist(rx_recl, rdh)' = Dist(rx_recl, rdh) /\ Dist(rx_recl, rx_tail)' = d + 1
    BY <1>2, <1>3 DEF Dist
  <2>2. Dist(rx_recl, rdh) \in Int /\ d \in Int  BY <1>1, DistFacts DEF Desc
  <2> QED  BY <1>2, <2>1, <2>2 DEF QInv, Registers
<1>9. Done' = Done /\ Done <= d /\ Done \in Int
  BY <1>1, <1>2, DistFacts DEF Done, Dist, QInv, Registers, Desc
<1>10. Descriptors'
  <2>1. ASSUME NEW i \in Desc, Between(i, rx_recl, rx_tail)'
        PROVE  rx_ring'[i].pkt_addr = sw_ring'[i] /\ (rx_ring'[i].dd <=> Dist(rx_recl, i)' < Done')
    <3>1. CASE i = rx_tail
      <4>1. rx_ring'[i] = [pkt_addr |-> b, dd |-> FALSE] /\ sw_ring'[i] = b
        BY <1>1, <1>2, <3>1 DEF TypeOK, PostDesc
      <4>2. ~(Dist(rx_recl, i)' < Done')
        <5>1. Dist(rx_recl, i)' = d /\ d \in Int  BY <1>1, <1>5, <3>1, DistFacts DEF Desc
        <5> QED  BY <1>9, <5>1
      <4> QED  BY <4>1, <4>2
    <3>2. CASE i # rx_tail
      <4>1. rx_ring'[i] = rx_ring[i] /\ sw_ring'[i] = sw_ring[i]  BY <1>1, <1>2, <3>2 DEF TypeOK
      <4> QED  BY <1>5, <1>9, <2>1, <3>2, <4>1 DEF QInv, Descriptors
    <3> QED  BY <3>1, <3>2
  <2> QED  BY <2>1 DEF Descriptors
<1>11. Packets'
  <2>1. ASSUME NEW i \in Desc, Between(i, rx_recl, rx_tail)', Dist(rx_recl, i)' < Done'
        PROVE  pkt'[sw_ring'[i]] = Plus(app_seq', Dist(rx_recl, i)')
    <3>1. i # rx_tail  BY <1>1, <1>5, <1>9, <2>1 DEF Done, Desc, Dist
    <3>2. sw_ring'[i] = sw_ring[i]  BY <1>1, <1>2, <3>1 DEF TypeOK
    <3> QED  BY <1>2, <1>5, <1>9, <2>1, <3>1, <3>2 DEF QInv, Packets
  <2>2. rx_seq' = Plus(app_seq', Done')  BY <1>2, <1>9 DEF QInv, Packets
  <2> QED  BY <2>1, <2>2 DEF Packets, Plus
<1> QED  BY <1>7, <1>8, <1>10, <1>11 DEF QInv

(* ixgbe_rx_cleanq_dequeue preserves it. *)
LEMMA DequeueInv ==
  ASSUME QInv, Dequeue
  PROVE  QInv' /\ Dist(rx_recl, rx_tail)' = Dist(rx_recl, rx_tail) - 1
<1> DEFINE d == Dist(rx_recl, rx_tail)
<1>1. TypeOK /\ rx_tail \in Desc /\ rx_recl \in Desc /\ rdh \in Desc /\ app_seq \in Desc /\ NbDesc \in Nat
  BY RxAssumption DEF QInv, BuffersConserved, TypeOK
<1>2. /\ rx_recl # rx_tail /\ rx_ring[rx_recl].dd /\ sw_ring[rx_recl] # NULL
      /\ sw_ring' = [sw_ring EXCEPT ![rx_recl] = NULL]
      /\ owner' = [owner EXCEPT ![sw_ring[rx_recl]] = "app"]
      /\ rx_recl' = Advance(rx_recl)
      /\ app_seq' = (app_seq + 1) % NbDesc
      /\ UNCHANGED <<rx_tail, rx_ring, rdt, started, rdh, pkt, rx_seq>>
  BY DEF Dequeue, CanDequeue, cardVars
<1>3. rx_recl' \in Desc /\ app_seq' = Plus(app_seq, 1) /\ app_seq' \in Desc
  BY <1>1, <1>2, AdvanceFacts, SeqFacts, RxAssumption DEF Desc, Plus
<1>4. sw_ring[rx_recl] \in Buffers  BY <1>1, <1>2 DEF TypeOK
<1>5. TypeOK'  BY <1>1, <1>2, <1>3, <1>4 DEF TypeOK
<1>6. \A i \in Desc : /\ Dist(rx_recl, i) \in Desc
                      /\ i # rx_recl => Dist(rx_recl, i)' = Dist(rx_recl, i) - 1
                      /\ i # rx_recl => Dist(rx_recl, i) > 0
                      /\ Dist(rx_recl, rx_recl) = 0
                      /\ Dist(rx_recl', rx_recl) = NbDesc - 1
  <2>1. \A i \in Desc : Dist(rx_recl, i)' = Dist(rx_recl', i)  BY DEF Dist
  <2>2. \A i \in Desc : Dist(rx_recl, i) \in Desc /\ (Dist(rx_recl, i) = 0 <=> i = rx_recl)
    BY <1>1, DistFacts
  <2>3. \A k \in Desc : k # 0 => k > 0  BY DEF Desc
  <2> QED  BY <1>1, <1>2, <2>1, <2>2, <2>3, AdvanceFacts
<1>7. Dist(rx_recl, rx_tail)' = d - 1 /\ d \in Desc /\ d > 0
  <2>1. Dist(rx_recl, rx_tail)' = Dist(rx_recl', rx_tail)  BY <1>2 DEF Dist
  <2>2. Dist(rx_recl', rx_tail) = d - 1  BY <1>1, <1>2, AdvanceFacts
  <2> QED  BY <1>1, <1>2, <1>6, <2>1, <2>2
<1>8. \A i \in Desc : /\ Between(i, rx_recl, rx_tail)' <=> (Between(i, rx_recl, rx_tail) /\ i # rx_recl)
                      /\ i = rx_recl => Between(i, rx_recl, rx_tail)
  <2> SUFFICES ASSUME NEW i \in Desc
               PROVE  /\ Between(i, rx_recl, rx_tail)' <=> (Between(i, rx_recl, rx_tail) /\ i # rx_recl)
                      /\ i = rx_recl => Between(i, rx_recl, rx_tail)
    OBVIOUS
  <2>1. Between(i, rx_recl, rx_tail)' <=> Dist(rx_recl, i)' < d - 1  BY <1>7 DEF Between
  <2>2. CASE i = rx_recl
    <3>1. Dist(rx_recl, i)' = NbDesc - 1  BY <1>1, <1>6, <2>2 DEF Dist
    <3> QED  BY <1>1, <1>6, <1>7, <2>1, <2>2, <3>1 DEF Between, Desc
  <2>3. CASE i # rx_recl
    BY <1>6, <1>7, <2>1, <2>3 DEF Between, Desc
  <2> QED  BY <2>2, <2>3
<1>9. started /\ Done \in Desc /\ Done > 0 /\ Done' = Done - 1 /\ Done <= d
  <2>1. Dist(rx_recl, rx_recl) < Done  BY <1>1, <1>2, <1>8 DEF QInv, Descriptors
  <2>2. started  BY <1>1, <1>6, <2>1 DEF Done
  <2>3. Done = Dist(rx_recl, rdh) /\ Done' = Dist(rx_recl, rdh)'
    BY <1>2, <2>2 DEF Done
  <2>4. rdh # rx_recl  BY <1>1, <1>6, <2>1, <2>3
  <2>5. Dist(rx_recl, rdh)' = Dist(rx_recl, rdh) - 1
    <3>1. Dist(rx_recl, rdh)' = Dist(rx_recl', rdh)  BY <1>2 DEF Dist
    <3> QED  BY <1>1, <1>2, <2>4, <3>1, AdvanceFacts
  <2> QED  BY <1>1, <1>6, <2>1, <2>2, <2>3, <2>5 DEF QInv, Registers
<1>10. BuffersConserved'
  <2>1. \A i \in Desc : sw_ring'[i] = IF i = rx_recl THEN NULL ELSE sw_ring[i]
    BY <1>1, <1>2 DEF TypeOK
  <2>2. \A i \in Desc : sw_ring'[i] # NULL <=> Between(i, rx_recl, rx_tail)'
    BY <1>8, <2>1 DEF QInv, BuffersConserved
  <2>3. \A c \in Buffers : owner'[c] = "ring" <=> \E i \in Desc : sw_ring'[i] = c
    <3>1. \A i \in Desc : i # rx_recl => sw_ring[i] # sw_ring[rx_recl]
      BY <1>1, <1>2 DEF QInv, BuffersConserved
    <3> QED  BY <1>1, <1>2, <1>4, <2>1, <3>1, RxAssumption DEF QInv, BuffersConserved, TypeOK
  <2>4. \A i, j \in Desc : sw_ring'[i] = sw_ring'[j] /\ i # j => sw_ring'[i] = NULL
    BY <1>1, <2>1 DEF QInv, BuffersConserved
  <2> QED  BY <1>5, <2>2, <2>3, <2>4 DEF BuffersConserved
<1>11. Registers'
  <2>1. Dist(rx_recl, rdh)' = Done'  BY <1>2, <1>9 DEF Done
  <2> QED  BY <1>2, <1>7, <1>9, <2>1 DEF QInv, Registers, Desc
<1>12. \A i \in Desc : Between(i, rx_recl, rx_tail)' => (Dist(rx_recl, i)' < Done' <=> Dist(rx_recl, i) < Done)
  BY <1>6, <1>8, <1>9 DEF Desc
<1>13. \A i \in Desc : Between(i, rx_recl, rx_tail)' => sw_ring'[i] = sw_ring[i]
  BY <1>1, <1>2, <1>8 DEF TypeOK
<1>14. Descriptors'  BY <1>2, <1>8, <1>12, <1>13 DEF QInv, Descriptors
<1>15. Packets'
  <2>1. rx_seq' = Plus(app_seq', Done')
    BY <1>1, <1>2, <1>3, <1>9, SeqFacts DEF QInv, Packets
  <2>2. ASSUME NEW i \in Desc, Between(i, rx_recl, rx_tail)', Dist(rx_recl, i)' < Done'
        PROVE  pkt'[sw_ring'[i]] = Plus(app_seq', Dist(rx_recl, i)')
    <3>1. pkt[sw_ring[i]] = Plus(app_seq, Dist(rx_recl, i))
      BY <1>8, <1>12, <2>2 DEF QInv, Packets
    <3>2. Dist(rx_recl, i) \in Desc /\ Dist(rx_recl, i) # 0 /\ Dist(rx_recl, i)' = Dist(rx_recl, i) - 1
      BY <1>6, <1>8, <2>2 DEF Desc
    <3>3. Plus(app_seq', Dist(rx_recl, i)') = Plus(app_seq, Dist(rx_recl, i))
      BY <1>1, <1>3, <3>2, SeqFacts
    <3> QED  BY <1>2, <1>13, <2>2, <3>1, <3>3
  <2> QED  BY <2>1, <2>2 DEF Packets, Plus
<1> QED  BY <1>7, <1>10, <1>11, <1>14, <1>15 DEF QInv

(* The card fills the buffer at its head, not beyond what is posted. *)
LEMMA CardReceiveInv ==
  ASSUME QInv, CardReceive
  PROVE  QInv' /\ UNCHANGED <<rx_recl, rx_tail>>
<1> DEFINE d == Dist(rx_recl, rx_tail)
           k == Dist(rx_recl, rdh)
<1>1. TypeOK /\ rx_tail \in Desc /\ rx_recl \in Desc /\ rdh \in Desc /\ app_seq \in Desc
             /\ rx_seq \in Desc /\ NbDesc \in Nat
  BY RxAssumption DEF QInv, BuffersConserved, TypeOK
<1>2. /\ started /\ rdh # rx_tail
      /\ pkt' = [pkt EXCEPT ![rx_ring[rdh].pkt_addr] = rx_seq]
      /\ rx_ring' = [rx_ring EXCEPT ![rdh].dd = TRUE]
      /\ rdh' = Advance(rdh)
      /\ rx_seq' = (rx_seq + 1) % NbDesc
      /\ UNCHANGED <<rx_tail, rx_recl, sw_ring, owner, app_seq, started, rdt>>
  BY DEF CardReceive, swVars, QInv, Registers
<1>3. /\ k \in Desc /\ d \in Desc /\ k # d /\ Done = k /\ k <= d
      /\ \A i \in Desc : Dist(rx_recl, i) \in Desc /\ (Dist(rx_recl, i) = k <=> i = rdh)
  BY <1>1, <1>2, DistFacts DEF QInv, Registers, Done
<1>4. k + 1 <= d /\ k < NbDesc - 1 /\ k + 1 \in Desc  BY <1>1, <1>3 DEF Desc
<1>5. rdh' \in Desc /\ Done' = k + 1 /\ Dist(rx_recl, rdh)' = k + 1
  <2>1. Dist(rx_recl, rdh)' = Dist(rx_recl, rdh')  BY <1>2 DEF Dist
  <2>2. Dist(rx_recl, rdh') = k + 1  BY <1>1, <1>2, <1>4, AdvanceFacts
  <2> QED  BY <1>1, <1>2, <2>1, <2>2, AdvanceFacts DEF Done
<1>6. rx_seq' = Plus(rx_seq, 1) /\ rx_seq' \in Desc
  BY <1>1, <1>2, SeqFacts, RxAssumption DEF Desc, Plus
<1>7. Between(rdh, rx_recl, rx_tail)  BY <1>3, <1>4 DEF Between, Desc
<1>8. rx_ring[rdh].pkt_addr = sw_ring[rdh] /\ sw_ring[rdh] \in Buffers
  BY <1>1, <1>7 DEF QInv, Descriptors, BuffersConserved, TypeOK
<1>9. TypeOK'  BY <1>1, <1>2, <1>5, <1>6, <1>8 DEF TypeOK
<1>10. \A i \in Desc : /\ Between(i, rx_recl, rx_tail)' <=> Between(i, rx_recl, rx_tail)
                       /\ Dist(rx_recl, i)' = Dist(rx_recl, i)
  BY <1>2 DEF Between, Dist
<1>11. BuffersConserved'
  BY <1>2, <1>9, <1>10 DEF QInv, BuffersConserved
<1>12. Registers'
  <2>1. Dist(rx_recl, rx_tail)' = d  BY <1>2 DEF Dist
  <2> QED  BY <1>2, <1>4, <1>5, <2>1 DEF QInv, Registers
<1>13. Descriptors'
  <2>1. ASSUME NEW i \in Desc, Between(i, rx_recl, rx_tail)'
        PROVE  rx_ring'[i].pkt_addr = sw_ring'[i] /\ (rx_ring'[i].dd <=> Dist(rx_recl, i)' < Done')
    <3>1. CASE i = rdh
      <4>1. rx_ring'[i].pkt_addr = rx_ring[i].pkt_addr /\ rx_ring'[i].dd = TRUE
        BY <1>1, <1>2, <3>1 DEF TypeOK
      <4>2. Dist(rx_recl, i)' < Done'  BY <1>3, <1>5, <1>10, <3>1 DEF Desc
      <4> QED  BY <1>2, <1>8, <3>1, <4>1, <4>2
    <3>2. CASE i # rdh
      <4>1. rx_ring'[i] = rx_ring[i]  BY <1>1, <1>2, <3>2 DEF TypeOK
      <4>2. Dist(rx_recl, i)' < Done' <=> Dist(rx_recl, i) < Done
        BY <1>3, <1>5, <1>10, <3>2 DEF Desc
      <4> QED  BY <1>2, <1>10, <2>1, <4>1, <4>2 DEF QInv, Descriptors
    <3> QED  BY <3>1, <3>2
  <2> QED  BY <2>1 DEF Descriptors
<1>14. Packets'
  <2>1. rx_seq' = Plus(app_seq', Done')
    <3>1. Plus(Plus(app_seq, k), 1) = Plus(app_seq, k + 1)
      BY <1>1, <1>3, <1>4, SeqFacts DEF Desc
    <3> QED  BY <1>2, <1>3, <1>5, <1>6, <3>1 DEF QInv, Packets
  <2>2. ASSUME NEW i \in Desc, Between(i, rx_recl, rx_tail)', Dist(rx_recl, i)' < Done'
        PROVE  pkt'[sw_ring'[i]] = Plus(app_seq', Dist(rx_recl, i)')
    <3>1. CASE i = rdh
      BY <1>1, <1>2, <1>3, <1>8, <1>10, <3>1 DEF QInv, Packets, TypeOK
    <3>2. CASE i # rdh
      <4>1. Between(i, rx_recl, rx_tail) /\ Dist(rx_recl, i) < Done
        BY <1>3, <1>5, <1>10, <2>2, <3>2 DEF Desc
      <4>2. sw_ring[i] \in Buffers /\ sw_ring[i] # sw_ring[rdh]
        BY <1>1, <1>8, <3>2, <4>1, RxAssumption DEF QInv, BuffersConserved, TypeOK
      <4>3. pkt'[sw_ring[i]] = pkt[sw_ring[i]]  BY <1>1, <1>2, <1>8, <4>2 DEF TypeOK
      <4> QED  BY <1>2, <1>10, <4>1, <4>3 DEF QInv, Packets
    <3> QED  BY <3>1, <3>2
  <2> QED  BY <2>1, <2>2 DEF Packets, Plus
<1> QED  BY <1>2, <1>11, <1>12, <1>13, <1>14 DEF QInv

(* ixgbe_dev_rx_queue_stop releases what is posted and resets the rings. *)
LEMMA StopInv ==
  ASSUME QInv, Stop
  PROVE  QInv'
<1>1. TypeOK /\ NbDesc \in Nat /\ 0 \in Desc  BY RxAssumption DEF QInv, BuffersConserved, TypeOK, Desc
<1>2. /\ started' = FALSE /\ owner' = ReleasedOwners
      /\ sw_ring' = [i \in Desc |-> NULL] /\ rx_ring' = [i \in Desc |-> ZeroDesc]
      /\ rx_tail' = 0 /\ rx_recl' = 0 /\ app_seq' = rx_seq
      /\ UNCHANGED <<rdh, rdt, pkt, rx_seq>>
  BY DEF Stop
<1>3. TypeOK'  BY <1>1, <1>2 DEF TypeOK, ReleasedOwners, ZeroDesc
<1>4. \A i \in Desc : ~Between(i, rx_recl, rx_tail)'
  BY <1>1, <1>2 DEF Between, Dist, Desc
<1>5. \A b \in Buffers : owner'[b] # "ring"
  BY <1>1, <1>2 DEF ReleasedOwners, QInv, BuffersConserved, TypeOK
<1>6. BuffersConserved'  BY <1>2, <1>3, <1>4, <1>5, RxAssumption DEF BuffersConserved
<1>7. Registers'  BY <1>2 DEF Registers
<1>8. Done' = 0  BY <1>2 DEF Done
<1>9. Descriptors'  BY <1>4 DEF Descriptors
<1>10. rx_seq' = Plus(app_seq', Done')  BY <1>1, <1>2, <1>8, SeqFacts DEF TypeOK
<1>11. Packets'  BY <1>4, <1>10 DEF Packets, Plus
<1> QED  BY <1>6, <1>7, <1>9, <1>11 DEF QInv

(* ixgbe_dev_rx_queue_start shows the card what was posted meanwhile. *)
LEMMA StartInv ==
  ASSUME QInv, Start
  PROVE  QInv'
<1>1. TypeOK /\ rx_tail \in Desc /\ NbDesc \in Nat /\ 0 \in Desc
  BY RxAssumption DEF QInv, BuffersConserved, TypeOK, Desc
<1>2. /\ ~started /\ started' = TRUE /\ rdh' = 0 /\ rdt' = rx_tail
      /\ UNCHANGED <<rx_tail, rx_recl, sw_ring, owner, app_seq, rx_ring, pkt, rx_seq>>
      /\ rx_recl = 0
  BY DEF Start, swVars, QInv, Registers
<1>3. TypeOK'  BY <1>1, <1>2 DEF TypeOK
<1>4. \A i \in Desc : /\ Between(i, rx_recl, rx_tail)' <=> Between(i, rx_recl, rx_tail)
                      /\ Dist(rx_recl, i)' = Dist(rx_recl, i)
  BY <1>2 DEF Between, Dist
<1>5. BuffersConserved'  BY <1>2, <1>3, <1>4 DEF QInv, BuffersConserved
<1>6. Dist(rx_recl, rdh)' = 0 /\ Dist(rx_recl, rx_tail)' = rx_tail
  BY <1>1, <1>2 DEF Dist, Desc
<1>7. Done = 0 /\ Done' = 0  BY <1>2, <1>6 DEF Done
<1>8. Registers'  BY <1>1, <1>2, <1>6 DEF Registers, Desc
<1>9. Descriptors'  BY <1>2, <1>4, <1>7 DEF QInv, Descriptors
<1>10. Packets'  BY <1>2, <1>4, <1>7 DEF QInv, Packets, Plus
<1> QED  BY <1>5, <1>8, <1>9, <1>10 DEF QInv

(* rte_pktmbuf_free concerns no posted buffer. *)
LEMMA AppFreeInv ==
  ASSUME QInv, NEW b \in Buffers, AppFree(b)
  PROVE  QInv' /\ UNCHANGED <<rx_recl, rx_tail>>
<1>1. /\ owner[b] = "app" /\ owner' = [owner EXCEPT ![b] = "pool"]
      /\ UNCHANGED <<rx_tail, rx_recl, sw_ring, rx_ring, rdt, app_seq, started, rdh, pkt, rx_seq>>
  BY DEF AppFree, cardVars
<1>2. TypeOK'  BY <1>1 DEF QInv, BuffersConserved, TypeOK
<1>3. \A i \in Desc : /\ Between(i, rx_recl, rx_tail)' <=> Between(i, rx_recl, rx_tail)
                      /\ Dist(rx_recl, i)' = Dist(rx_recl, i)
  BY <1>1 DEF Between, Dist
<1>4. \A c \in Buffers : owner'[c] = "ring" <=> owner[c] = "ring"
  BY <1>1 DEF QInv, BuffersConserved, TypeOK
<1>5. BuffersConserved'  BY <1>1, <1>2, <1>3, <1>4 DEF QInv, BuffersConserved
<1>6. Done' = Done  BY <1>1 DEF Done, Dist
<1>7. Registers' /\ Descriptors' /\ Packets'
  BY <1>1, <1>3, <1>6 DEF QInv, Registers, Descriptors, Packets, Plus, Dist
<1> QED  BY <1>1, <1>5, <1>7 DEF QInv

(***************************************************************************)
(* The burst on top: the refill count leaves one slot free, whatever is    *)
(* dequeued, received or freed before the refill is over.                  *)
(***************************************************************************)

(* The refill count is the number of free slots but one. *)
LEMMA RefillCountFits ==
  ASSUME rx_recl \in Desc, rx_tail \in Desc
  PROVE  RefillCount \in Nat /\ RefillCount + Dist(rx_recl, rx_tail) = NbDesc - 1
  BY RxAssumption DEF RefillCount, Dist, Desc

(* Every step of ixgbe_recv_pkts_cleanq preserves the invariant. *)
LEMMA BurstInv ==
  ASSUME IInv, Burst
  PROVE  IInv'
<1> DEFINE d == Dist(rx_recl, rx_tail)
<1>1. QInv /\ RefillRoom /\ rx_recl \in Desc /\ rx_tail \in Desc
  BY DEF IInv, QInv, BuffersConserved, TypeOK
<1>2. d \in Nat /\ d < NbDesc /\ NbDesc \in Nat  BY <1>1, DistFacts, RxAssumption DEF Desc
<1>3. ASSUME UNCHANGED vars PROVE QInv' /\ Dist(rx_recl, rx_tail)' = d
  BY <1>1, <1>3 DEF vars, QInv, BuffersConserved, TypeOK, Registers, Descriptors, Packets,
       Done, Dist, Between, Plus
<1>4. CASE BurstBegin
  BY <1>1, <1>2, <1>3, <1>4, RefillCountFits DEF BurstBegin, RefillRoom, IInv
<1>5. CASE RefillOne
  <2>1. PICK b \in Buffers : owner[b] = "pool" /\ Enqueue(b)  BY <1>5 DEF RefillOne
  <2>2. nb_bufs > 0 /\ nb_bufs + d <= NbDesc - 1 /\ nb_bufs \in Nat
    BY <1>1, <1>5 DEF RefillOne, RefillRoom
  <2>3. d < NbDesc - 1  BY <1>2, <2>2
  <2>4. QInv'  BY <1>1, <2>1, <2>3, EnqueueInv
  <2>5. Dist(rx_recl, rx_tail)' = d + 1
    <3>1. Dist(rx_recl, rx_tail)' = Dist(rx_recl, Advance(rx_tail))  BY <2>1 DEF Enqueue, Dist
    <3> QED  BY <1>1, <2>3, <3>1, AdvanceFacts
  <2> QED  BY <1>2, <1>5, <2>2, <2>4, <2>5 DEF RefillOne, RefillRoom, IInv
<1>6. CASE RefillEnd  BY <1>1, <1>3, <1>6 DEF RefillEnd, RefillRoom, IInv
<1>7. CASE DeliverOne
  BY <1>1, <1>7, DequeueInv DEF DeliverOne, RefillRoom, IInv
<1>8. CASE DeliverEnd  BY <1>1, <1>3, <1>8 DEF DeliverEnd, RefillRoom, IInv
<1> QED  BY <1>4, <1>5, <1>6, <1>7, <1>8 DEF Burst

(* And so does every other step. *)
LEMMA NextInv == IInv /\ [BurstNext]_allVars => IInv'
<1> SUFFICES ASSUME IInv, [BurstNext]_allVars PROVE IInv'
  OBVIOUS
<1>1. QInv /\ RefillRoom  BY DEF IInv
<1>2. CASE Burst  BY <1>2, BurstInv
<1>3. CASE Direct
  <2>1. pc = "idle" /\ UNCHANGED <<pc, nb_bufs, nb_left>>  BY <1>3 DEF Direct, burstVars
  <2>2. QInv'
    <3>1. ASSUME Dist(rx_recl, rx_tail) < NbDesc - 1, NEW b \in Buffers, owner[b] # "ring", Enqueue(b)
          PROVE  QInv'
      BY <1>1, <3>1, EnqueueInv
    <3> QED  BY <1>1, <1>3, <3>1, DequeueInv, StopInv, StartInv DEF Direct
  <2> QED  BY <1>1, <2>1, <2>2 DEF IInv, RefillRoom
<1>4. CASE CardReceive /\ UNCHANGED burstVars
  BY <1>1, <1>4, CardReceiveInv DEF IInv, RefillRoom, burstVars, Dist
<1>5. ASSUME NEW b \in Buffers, AppFree(b), UNCHANGED burstVars PROVE IInv'
  BY <1>1, <1>5, AppFreeInv DEF IInv, RefillRoom, burstVars, Dist
<1>6. CASE UNCHANGED allVars
  BY <1>1, <1>6 DEF allVars, burstVars, vars, IInv, RefillRoom, QInv, BuffersConserved, TypeOK,
       Registers, Descriptors, Packets, Done, Dist, Between, Plus
<1> QED  BY <1>2, <1>3, <1>4, <1>5, <1>6 DEF BurstNext

(* The inductive invariant holds throughout. *)
THEOREM RxInvariant == BurstSpec => []IInv
  BY InitInv, NextInv, PTL DEF BurstSpec

(* No mbuf is lost or posted twice, however bursts, direct calls, the card *)
(* and restarts interleave.                                                *)
THEOREM RxBuffersConserved == BurstSpec => []BuffersConserved
<1>1. IInv => BuffersConserved  BY DEF IInv, QInv
<1> QED  BY <1>1, RxInvariant, PTL

(* The card only writes to posted buffers. *)
THEOREM RxCardOwnsPending == BurstSpec => []CardOwnsPending
<1>1. ASSUME IInv PROVE CardOwnsPending
  <2> SUFFICES ASSUME started, NEW i \in Desc, Between(i, rdh, rdt)
               PROVE  rx_ring[i].pkt_addr # NULL /\ owner[rx_ring[i].pkt_addr] = "ring"
    BY DEF CardOwnsPending
  <2>1. QInv /\ TypeOK  BY <1>1 DEF IInv, QInv, BuffersConserved
  <2>2. rdt = rx_tail /\ Dist(rx_recl, rdh) <= Dist(rx_recl, rx_tail)  BY <2>1 DEF QInv, Registers
  <2>3. Between(i, rx_recl, rx_tail)
    BY <2>1, <2>2, RxAssumption DEF TypeOK, Between, Dist, Desc
  <2>4. rx_ring[i].pkt_addr = sw_ring[i] /\ sw_ring[i] \in Buffers /\ sw_ring[i] # NULL
    BY <2>1, <2>3 DEF QInv, Descriptors, BuffersConserved, TypeOK
  <2> QED  BY <2>1, <2>4 DEF QInv, BuffersConserved
<1> QED  BY <1>1, RxInvariant, PTL

(* Packets are handed out complete and in the order of their arrival. *)
THEOREM RxDequeueInOrder == BurstSpec => []DequeueInOrder
<1>1. ASSUME IInv PROVE DequeueInOrder
  <2> SUFFICES ASSUME CanDequeue
               PROVE  sw_ring[rx_recl] # NULL /\ pkt[sw_ring[rx_recl]] = app_seq
    BY DEF DequeueInOrder
  <2>1. QInv /\ rx_recl \in Desc /\ rx_tail \in Desc /\ app_seq \in Desc
    BY <1>1 DEF IInv, QInv, BuffersConserved, TypeOK
  <2>2. Dist(rx_recl, rx_recl) = 0  BY <2>1, DistFacts
  <2>3. Between(rx_recl, rx_recl, rx_tail)
    <3>1. Dist(rx_recl, rx_tail) \in Desc /\ Dist(rx_recl, rx_tail) # 0
      BY <2>1, DistFacts DEF CanDequeue
    <3> QED  BY <2>2, <3>1 DEF Between, Desc
  <2>4. Dist(rx_recl, rx_recl) < Done  BY <2>1, <2>3 DEF CanDequeue, QInv, Descriptors
  <2>5. pkt[sw_ring[rx_recl]] = Plus(app_seq, 0)
    BY <2>1, <2>2, <2>3, <2>4 DEF QInv, Packets
  <2>6. sw_ring[rx_recl] # NULL  BY <2>1, <2>3 DEF QInv, BuffersConserved
  <2> QED  BY <2>1, <2>5, <2>6, SeqFacts
<1> QED  BY <1>1, RxInvariant, PTL

(* A refill fits, and a ring whose indices meet is empty: the one free     *)
(* slot is kept although the enqueue's own test does not see the wrap.     *)
THEOREM RxRefillFits == BurstSpec => []RefillFits
<1>1. ASSUME IInv PROVE RefillFits
  <2>1. BuffersConserved /\ RefillRoom /\ rx_recl \in Desc
    BY <1>1 DEF IInv, QInv, BuffersConserved, TypeOK
  <2>2. ASSUME rx_tail = rx_recl, NEW b \in Buffers PROVE owner[b] # "ring"
    <3>1. \A i \in Desc : ~Between(i, rx_recl, rx_tail)
      BY <2>1, <2>2, RxAssumption DEF Between, Dist, Desc
    <3> QED  BY <2>1, <3>1, RxAssumption DEF BuffersConserved
  <2> QED  BY <2>1, <2>2 DEF RefillFits, KeepsOneDescriptor, RefillRoom
<1> QED  BY <1>1, RxInvariant, PTL

=============================================================================
