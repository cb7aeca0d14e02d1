---------------------------- MODULE BackendProofs ----------------------------
(***************************************************************************)
(* Proofs about two backends of the queue interface: Loopback, whose ring  *)
(* is a FIFO channel for every ring size and every set of descriptors; and *)
(* DebugQ, whose lists of chunks say exactly what this endpoint owns, for  *)
(* every number of regions, every region length and every set of buffers   *)
(* of one length.                                                          *)
(***************************************************************************)
EXTENDS Loopback, DebugQ, SlotIndex, SequenceTheorems, NaturalsInduction,
        WellFoundedInduction, TLAPS

(***************************************************************************)
(* Loopback: the ring is a FIFO channel.                                   *)
(***************************************************************************)

(* What a slot of the ring holds. *)
Stored == Msgs \union {NULL}

(* A slot index one further on, as loopback_enqueue and loopback_dequeue   *)
(* compute it, stays in the ring.                                          *)
LEMMA AdvanceInRing ==
  ASSUME NEW i \in Slots
  PROVE  Advance(i) \in Slots
<1>1. i + 1 \in Nat  BY DEF Slots
<1> QED  BY <1>1, ModRange, LoopbackAssumption DEF Advance, Slots

(* It is the next slot, or the first one after the last. *)
LEMMA AdvanceLap ==
  ASSUME NEW i \in Slots
  PROVE  Advance(i) = IF i + 1 < Size THEN i + 1 ELSE i + 1 - Size
<1> DEFINE y == i + 1
<1>0. Size \in Nat \ {0}  BY LoopbackAssumption
<1>1. y \in 0 .. 2 * Size - 1  BY <1>0 DEF Slots
<1>2. Advance(i) = y % Size /\ y = i + 1  BY DEF Advance
<1> HIDE DEF y
<1>3. y % Size = IF y < Size THEN y ELSE y - Size  BY <1>0, <1>1, ModLap
<1>4. Advance(i) = IF y < Size THEN y ELSE y - Size  BY <1>2, <1>3, Zenon
<1> QED  BY <1>0, <1>2, <1>4 DEF Slots

(* Walking a steps and then b more is walking a + b steps: so tail and     *)
(* head, advanced one at a time, stay num_ele apart.                       *)
LEMMA Walk ==
  ASSUME NEW t \in Slots, NEW a \in 0 .. Size - 1
  PROVE  Advance((t + a) % Size) = (t + (a + 1)) % Size
<1> DEFINE u == t + a
           v == t + (a + 1)
           x == u % Size
<1>0. Size \in Nat \ {0}  BY LoopbackAssumption
<1>1. t \in 0 .. Size - 1  BY DEF Slots
<1>2. u \in 0 .. 2 * Size - 1 /\ v \in 0 .. 2 * Size - 1 /\ v = u + 1
  BY <1>0, <1>1, SMT
<1> HIDE DEF u, v
<1>3. x = IF u < Size THEN u ELSE u - Size  BY <1>0, <1>2, ModLap
<1>4. v % Size = IF v < Size THEN v ELSE v - Size  BY <1>0, <1>2, ModLap
<1> HIDE DEF x
<1>5. x \in 0 .. Size - 1  BY <1>0, <1>2, <1>3, SMT
<1>6. Advance(x) = IF x + 1 < Size THEN x + 1 ELSE x + 1 - Size
  BY <1>5, AdvanceLap DEF Slots
<1>7. Advance(x) = v % Size
  <2> DEFINE w == v % Size
             z == Advance(x)
  <2>1. w = IF v < Size THEN v ELSE v - Size  BY <1>4
  <2>2. z = IF x + 1 < Size THEN x + 1 ELSE x + 1 - Size  BY <1>6
  <2> HIDE DEF w, z
  <2>3. w = z  BY <1>0, <1>2, <1>3, <2>1, <2>2, SMT
  <2> QED  BY <2>3 DEF w, z
<1> QED  BY <1>7 DEF u, v, x

(* Seen from the next slot, everything is one step closer. *)
LEMMA ShiftTail ==
  ASSUME NEW t \in Slots, NEW a \in 1 .. Size
  PROVE  (Advance(t) + (a - 1)) % Size = (t + a) % Size
<1> DEFINE w == Advance(t)
           u == w + (a - 1)
           v == t + a
           x == u % Size
           z == v % Size
<1>0. Size \in Nat \ {0}  BY LoopbackAssumption
<1>1. t \in 0 .. Size - 1  BY DEF Slots
<1>2. w = IF t + 1 < Size THEN t + 1 ELSE t + 1 - Size
  BY AdvanceLap
<1> HIDE DEF w
<1>3. u \in 0 .. 2 * Size - 1 /\ v \in 0 .. 2 * Size - 1
  BY <1>0, <1>1, <1>2, SMT
<1>4. u = IF t + 1 < Size THEN v ELSE v - Size  BY <1>0, <1>1, <1>2, SMT
<1> HIDE DEF u
<1>5. v \in Int /\ (t + 1 >= Size => v >= Size)  BY <1>0, <1>1, SMT
<1> HIDE DEF v
<1>6. x = IF u < Size THEN u ELSE u - Size  BY <1>0, <1>3, ModLap
<1>7. z = IF v < Size THEN v ELSE v - Size  BY <1>0, <1>3, ModLap
<1> HIDE DEF x, z
<1>8. x = z  BY <1>0, <1>1, <1>3, <1>4, <1>5, <1>6, <1>7, SMT
<1> QED  BY <1>8 DEF x, z, u, v, w

(* The ring's contents are a sequence of num_ele stored descriptors. *)
LEMMA ContentsSeq ==
  ASSUME TypeOK
  PROVE  /\ Contents \in Seq(Stored)
         /\ Len(Contents) = num_ele
         /\ \A k \in 1 .. num_ele : Contents[k] = queue[(tail + (k - 1)) % Size]
<1>1. num_ele \in Nat /\ tail \in Nat  BY LoopbackAssumption DEF TypeOK, Slots
<1>2. \A k \in 1 .. num_ele : queue[(tail + (k - 1)) % Size] \in Stored
  <2> SUFFICES ASSUME NEW k \in 1 .. num_ele
               PROVE  queue[(tail + (k - 1)) % Size] \in Stored
    OBVIOUS
  <2>1. tail + (k - 1) \in Nat  BY <1>1
  <2>2. (tail + (k - 1)) % Size \in Slots
    BY <2>1, ModRange, LoopbackAssumption DEF Slots
  <2> QED  BY <2>2 DEF TypeOK, Stored
<1>3. Contents \in [1 .. num_ele -> Stored]  BY <1>2 DEF Contents
<1>4. Contents \in Seq(Stored)  BY <1>1, <1>3, SeqDef
<1>5. Len(Contents) = num_ele  BY <1>1, <1>3, <1>4, LenProperties
<1> QED  BY <1>4, <1>5 DEF Contents

(***************************************************************************)
(* Type correctness.                                                       *)
(***************************************************************************)

(* A new queue is well typed (loopback_queue_create). *)
LEMMA InitType == Init => TypeOK
<1> SUFFICES ASSUME Init PROVE TypeOK
  OBVIOUS
<1>0. Size \in Nat \ {0}  BY LoopbackAssumption
<1>1. 0 \in Slots /\ 0 \in 0 .. Size  BY <1>0 DEF Slots
<1>2. 0 % Size = 0
  <2>1. 0 \in 0 .. 2 * Size - 1  BY <1>0
  <2> QED  BY <1>0, <2>1, ModLap
<1> QED  BY <1>1, <1>2 DEF Init, TypeOK

(* Every call keeps head num_ele slots ahead of tail. *)
LEMMA NextType == TypeOK /\ [Next]_vars => TypeOK'
<1> SUFFICES ASSUME TypeOK, [Next]_vars PROVE TypeOK'
  OBVIOUS
<1>0. Size \in Nat \ {0}  BY LoopbackAssumption
<1>1. ASSUME NEW m \in Msgs, Enqueue(m) PROVE TypeOK'
  <2>1. num_ele \in 0 .. Size - 1  BY <1>0, <1>1 DEF Enqueue, Full, TypeOK
  <2>2. head' = (tail + (num_ele + 1)) % Size  BY <2>1, <1>1, Walk DEF Enqueue, TypeOK
  <2>3. head' \in Slots  BY <1>1, AdvanceInRing DEF Enqueue, TypeOK
  <2>4. queue' \in [Slots -> Stored]  BY <1>1 DEF Enqueue, TypeOK, Stored
  <2>5. num_ele' = num_ele + 1 /\ num_ele' \in 0 .. Size /\ tail' = tail
    BY <1>0, <1>1, <2>1 DEF Enqueue
  <2>6. UNCHANGED <<tail, got, memory, pool>>  BY <1>1 DEF Enqueue
  <2> QED  BY <2>2, <2>3, <2>4, <2>5, <2>6 DEF TypeOK, Stored
<1>2. ASSUME Dequeue PROVE TypeOK'
  <2>1. num_ele \in 1 .. Size /\ num_ele - 1 \in 0 .. Size - 1
    BY <1>0, <1>2 DEF Dequeue, TypeOK
  <2>2. tail' \in Slots  BY <1>2, AdvanceInRing DEF Dequeue, TypeOK
  <2>3. head = (tail' + (num_ele - 1)) % Size
    BY <2>1, <1>2, ShiftTail DEF Dequeue, TypeOK
  <2>4. num_ele' = num_ele - 1 /\ num_ele' \in 0 .. Size
    BY <1>0, <1>2, <2>1 DEF Dequeue
  <2>5. got' \in Stored  BY <1>2 DEF Dequeue, TypeOK, Stored
  <2>6. UNCHANGED <<queue, head, memory, pool>>  BY <1>2 DEF Dequeue
  <2> QED  BY <2>2, <2>3, <2>4, <2>5, <2>6 DEF TypeOK, Stored
<1>3. CASE DestroyQueue  BY <1>3 DEF DestroyQueue, ring, TypeOK
<1>4. CASE DestroyPool  BY <1>4 DEF DestroyPool, ring, TypeOK
<1>5. CASE UNCHANGED vars  BY <1>5 DEF vars, TypeOK
<1> QED  BY <1>1, <1>2, <1>3, <1>4, <1>5 DEF Next

(* The ring keeps its bookkeeping consistent: for every size, head, tail   *)
(* and num_ele agree in every reachable state (loopback_enqueue,           *)
(* loopback_dequeue).                                                      *)
THEOREM TypeCorrect == Spec => []TypeOK
  BY InitType, NextType, PTL DEF Spec

(***************************************************************************)
(* Refinement.                                                             *)
(***************************************************************************)

(* Two descriptors of the ring are never in the same slot. *)
LEMMA WalkDistinct ==
  ASSUME NEW t \in Slots, NEW a \in 0 .. Size - 1, NEW b \in 0 .. Size - 1, a # b
  PROVE  (t + a) % Size # (t + b) % Size
<1> DEFINE u == t + a
           v == t + b
           x == u % Size
           z == v % Size
<1>0. Size \in Nat \ {0}  BY LoopbackAssumption
<1>1. u \in 0 .. 2 * Size - 1 /\ v \in 0 .. 2 * Size - 1 /\ u # v /\ u - v < Size /\ v - u < Size
  BY <1>0 DEF Slots
<1> HIDE DEF u, v
<1>2. x = IF u < Size THEN u ELSE u - Size  BY <1>0, <1>1, ModLap
<1>3. z = IF v < Size THEN v ELSE v - Size  BY <1>0, <1>1, ModLap
<1> HIDE DEF x, z
<1>4. x # z  BY <1>0, <1>1, <1>2, <1>3, SMT
<1> QED  BY <1>4 DEF x, z, u, v

(* loopback_enqueue appends to the contents. *)
LEMMA EnqueueSends ==
  ASSUME TypeOK, TypeOK', NEW m \in Msgs, Enqueue(m)
  PROVE  Fifo!Send(m)
<1>0. Size \in Nat \ {0}  BY LoopbackAssumption
<1>1. /\ num_ele \in 0 .. Size - 1 /\ num_ele' = num_ele + 1 /\ tail' = tail
      /\ tail \in Slots /\ head = (tail + num_ele) % Size /\ head \in Slots
      /\ queue' = [queue EXCEPT ![head] = m] /\ queue \in [Slots -> Stored]
  BY <1>0 DEF Enqueue, Full, TypeOK, Stored
<1>2. /\ Contents \in Seq(Stored) /\ Len(Contents) = num_ele
      /\ \A k \in 1 .. num_ele : Contents[k] = queue[(tail + (k - 1)) % Size]
  BY ContentsSeq
<1>3. /\ Contents' \in Seq(Stored) /\ Len(Contents') = num_ele + 1
      /\ \A k \in 1 .. num_ele + 1 : Contents'[k] = queue'[(tail + (k - 1)) % Size]
  <2>1. (TypeOK => /\ Contents \in Seq(Stored) /\ Len(Contents) = num_ele
                   /\ \A k \in 1 .. num_ele : Contents[k] = queue[(tail + (k - 1)) % Size])'
    BY ContentsSeq, PTL
  <2> QED  BY <2>1, <1>1 DEF Stored
<1>4. ASSUME NEW k \in 1 .. num_ele PROVE Contents'[k] = Contents[k]
  <2>1. k - 1 \in 0 .. Size - 1 /\ k - 1 # num_ele /\ k \in 1 .. num_ele + 1
    BY <1>0, <1>1
  <2>2. (tail + (k - 1)) % Size # head  BY <1>1, <2>1, WalkDistinct
  <2>3. tail + (k - 1) \in Nat  BY <1>1, <2>1 DEF Slots
  <2>4. (tail + (k - 1)) % Size \in Slots  BY <1>0, <2>3, ModRange DEF Slots
  <2>5. queue'[(tail + (k - 1)) % Size] = queue[(tail + (k - 1)) % Size]
    BY <1>1, <2>2, <2>4
  <2> QED  BY <1>2, <1>3, <2>1, <2>5
<1>5. Contents'[num_ele + 1] = m
  <2>1. num_ele + 1 \in 1 .. num_ele + 1 /\ (num_ele + 1) - 1 = num_ele  BY <1>1
  <2>2. Contents'[num_ele + 1] = queue'[(tail + num_ele) % Size]  BY <1>3, <2>1
  <2> QED  BY <1>1, <2>2
<1>6. m \in Stored  BY DEF Stored
<1>7. /\ Append(Contents, m) \in Seq(Stored)
      /\ Len(Append(Contents, m)) = num_ele + 1
      /\ \A k \in 1 .. num_ele : Append(Contents, m)[k] = Contents[k]
      /\ Append(Contents, m)[num_ele + 1] = m
  BY <1>2, <1>6, AppendProperties
<1>8. \A k \in 1 .. num_ele + 1 : Contents'[k] = Append(Contents, m)[k]
  BY <1>1, <1>4, <1>5, <1>7
<1>9. Contents' = Append(Contents, m)
  BY <1>3, <1>7, <1>8, SeqEqual
<1>10. Len(Contents) < Size /\ UNCHANGED got  BY <1>0, <1>1, <1>2 DEF Enqueue
<1> QED  BY <1>9, <1>10 DEF Fifo!Send

(* loopback_dequeue hands out and removes the oldest descriptor. *)
LEMMA DequeueReceives ==
  ASSUME TypeOK, TypeOK', Dequeue
  PROVE  Fifo!Receive
<1>0. Size \in Nat \ {0}  BY LoopbackAssumption
<1>1. /\ num_ele \in 1 .. Size /\ num_ele' = num_ele - 1 /\ queue' = queue
      /\ tail \in Slots /\ tail' = Advance(tail) /\ got' = queue[tail]
  BY <1>0 DEF Dequeue, TypeOK
<1>2. /\ Contents \in Seq(Stored) /\ Len(Contents) = num_ele
      /\ \A k \in 1 .. num_ele : Contents[k] = queue[(tail + (k - 1)) % Size]
  BY ContentsSeq
<1>3. /\ Contents' \in Seq(Stored) /\ Len(Contents') = num_ele - 1
      /\ \A k \in 1 .. num_ele - 1 : Contents'[k] = queue[(Advance(tail) + (k - 1)) % Size]
  <2>1. (TypeOK => /\ Contents \in Seq(Stored) /\ Len(Contents) = num_ele
                   /\ \A k \in 1 .. num_ele : Contents[k] = queue[(tail + (k - 1)) % Size])'
    BY ContentsSeq, PTL
  <2> QED  BY <2>1, <1>1 DEF Stored
<1>4. Contents # << >>  BY <1>1, <1>2
<1>5. /\ Tail(Contents) \in Seq(Stored)
      /\ Len(Tail(Contents)) = num_ele - 1
      /\ \A k \in 1 .. num_ele - 1 : Tail(Contents)[k] = Contents[k + 1]
  BY <1>2, <1>4, HeadTailProperties
<1>6. ASSUME NEW k \in 1 .. num_ele - 1 PROVE Contents'[k] = Tail(Contents)[k]
  <2>1. k \in 1 .. Size /\ k + 1 \in 1 .. num_ele /\ (k + 1) - 1 = k  BY <1>0, <1>1
  <2>2. (Advance(tail) + (k - 1)) % Size = (tail + k) % Size  BY <1>1, <2>1, ShiftTail
  <2>3. Contents[k + 1] = queue[(tail + k) % Size]  BY <1>2, <2>1
  <2> QED  BY <1>3, <1>5, <2>2, <2>3
<1>7. Contents' = Tail(Contents)  BY <1>1, <1>3, <1>5, <1>6, SeqEqual
<1>8. Head(Contents) = queue[tail]
  <2>1. 1 \in 1 .. num_ele /\ tail + (1 - 1) = tail /\ tail \in 0 .. 2 * Size - 1 /\ tail < Size
    BY <1>0, <1>1 DEF Slots
  <2>2. tail % Size = tail  BY <1>0, <2>1, ModLap
  <2>3. Contents[1] = queue[tail]  BY <1>2, <2>1, <2>2
  <2>4. Head(Contents) = Contents[1]  BY <1>2, <1>4
  <2> QED  BY <2>3, <2>4
<1> QED  BY <1>1, <1>4, <1>7, <1>8 DEF Fifo!Receive

(* A new ring is an empty channel. *)
LEMMA InitEmpty == Init => Fifo!Init
<1> SUFFICES ASSUME Init PROVE Contents = << >> /\ got = NULL
  BY DEF Fifo!Init
<1>1. Contents \in Seq(Stored) /\ Len(Contents) = 0
  BY InitType, ContentsSeq DEF Init
<1>2. Contents = << >>  BY <1>1, EmptySeq
<1> QED  BY <1>2 DEF Init

(* Every call, the destruction of the queue included, is a step of the     *)
(* channel or leaves it alone.                                             *)
LEMMA StepRefines ==
  TypeOK /\ TypeOK' /\ [Next]_vars => [Fifo!Next]_<<Contents, got>>
<1> SUFFICES ASSUME TypeOK, TypeOK', [Next]_vars
             PROVE  [Fifo!Next]_<<Contents, got>>
  OBVIOUS
<1>1. ASSUME NEW m \in Msgs, Enqueue(m) PROVE Fifo!Next
  BY <1>1, EnqueueSends DEF Fifo!Next
<1>2. CASE Dequeue  BY <1>2, DequeueReceives DEF Fifo!Next
<1>3. CASE UNCHANGED ring
  BY <1>3 DEF ring, Contents
<1>4. CASE DestroyQueue \/ DestroyPool \/ UNCHANGED vars
  BY <1>3, <1>4 DEF DestroyQueue, DestroyPool, vars, ring
<1> QED  BY <1>1, <1>2, <1>4 DEF Next

(* The loopback backend implements the FIFO channel every CleanQ backend   *)
(* promises, for every ring size: what is enqueued is dequeued once,       *)
(* unchanged and in order.                                                 *)
THEOREM LoopbackIsFifo == Spec => ImplementsFifo
<1>1. Init => Fifo!Init  BY InitEmpty
<1>2. TypeOK /\ TypeOK' /\ [Next]_vars => [Fifo!Next]_<<Contents, got>>  BY StepRefines
<1> QED  BY <1>1, <1>2, TypeCorrect, PTL DEF Spec, ImplementsFifo, Fifo!Spec
(***************************************************************************)
(* Lists of chunks.                                                        *)
(***************************************************************************)

(* A chunk, struct memory_ele: an offset and a length. *)
Chunks == [offset : Int, length : Int]

(* Chunks in ascending order, none of them empty, and no two that touch. *)
Merged(cs) ==
  /\ cs \in Seq(Chunks)
  /\ \A i \in 1 .. Len(cs) : cs[i].length > 0
  /\ \A i, j \in 1 .. Len(cs) : i < j => EndOf(cs[i]) < cs[j].offset

(* The list r is s with its elements i to j replaced by those of t. *)
Spliced(r, s, i, j, t, S) ==
  /\ r \in Seq(S) /\ Len(r) = (i - 1) + Len(t) + (Len(s) - j)
  /\ \A x \in 1 .. i - 1 : r[x] = s[x]
  /\ \A x \in 1 .. Len(t) : r[(i - 1) + x] = t[x]
  /\ \A x \in j + 1 .. Len(s) : r[(i - 1) + Len(t) + (x - j)] = s[x]

(* What Splice computes. *)
LEMMA SpliceIs ==
  ASSUME NEW S, NEW s \in Seq(S), NEW t \in Seq(S), NEW i \in 1 .. Len(s),
         NEW j \in i - 1 .. Len(s)
  PROVE  Spliced(Splice(s, i, j, t), s, i, j, t, S)
<1> DEFINE a == SubSeq(s, 1, i - 1)
           b == SubSeq(s, j + 1, Len(s))
           c == a \o t
           r == c \o b
<1>1. Len(s) \in Nat /\ Len(t) \in Nat /\ i \in Int /\ j \in Int  OBVIOUS
<1>2. a \in Seq(S) /\ Len(a) = i - 1 /\ \A x \in 1 .. i - 1 : a[x] = s[x]
  BY <1>1, SubSeqProperties
<1>3. b \in Seq(S) /\ Len(b) = Len(s) - j /\ \A x \in 1 .. Len(s) - j : b[x] = s[j + x]
  BY <1>1, SubSeqProperties
<1>4. Splice(s, i, j, t) = r  BY DEF Splice
<1> HIDE DEF a, b
<1>5. /\ c \in Seq(S) /\ Len(c) = (i - 1) + Len(t)
      /\ \A x \in 1 .. i - 1 : c[x] = a[x]
      /\ \A x \in 1 .. Len(t) : c[(i - 1) + x] = t[x]
  <2>1. /\ c \in Seq(S) /\ Len(c) = Len(a) + Len(t)
        /\ \A x \in 1 .. Len(a) + Len(t) : c[x] = IF x <= Len(a) THEN a[x] ELSE t[x - Len(a)]
    <3>1. a \in Seq(S) /\ t \in Seq(S)  BY <1>2
    <3> QED  BY <3>1, ConcatProperties, Zenon
  <2> HIDE DEF c
  <2>0. Len(a) = i - 1 /\ Len(s) \in Nat /\ Len(t) \in Nat /\ i \in 1 .. Len(s)
    BY <1>1, <1>2
  <2>2. ASSUME NEW x \in 1 .. i - 1 PROVE c[x] = a[x]
    <3>1. x \in 1 .. Len(a) + Len(t) /\ x <= Len(a)  BY <2>0
    <3> QED  BY <2>1, <3>1
  <2>3. ASSUME NEW x \in 1 .. Len(t) PROVE c[(i - 1) + x] = t[x]
    <3> DEFINE y == (i - 1) + x
    <3>1. y \in 1 .. Len(a) + Len(t) /\ ~(y <= Len(a)) /\ y - Len(a) = x  BY <2>0
    <3> HIDE DEF y
    <3>2. c[y] = t[x]  BY <2>1, <3>1
    <3> QED  BY <3>2 DEF y
  <2> QED  BY <1>2, <2>1, <2>2, <2>3
<1> HIDE DEF c
<1>6. /\ r \in Seq(S) /\ Len(r) = (i - 1) + Len(t) + (Len(s) - j)
      /\ \A x \in 1 .. (i - 1) + Len(t) : r[x] = c[x]
      /\ \A x \in 1 .. Len(s) - j : r[(i - 1) + Len(t) + x] = b[x]
  <2>1. /\ r \in Seq(S) /\ Len(r) = Len(c) + Len(b)
        /\ \A x \in 1 .. Len(c) + Len(b) : r[x] = IF x <= Len(c) THEN c[x] ELSE b[x - Len(c)]
    <3>1. c \in Seq(S) /\ b \in Seq(S)  BY <1>3, <1>5
    <3> QED  BY <3>1, ConcatProperties, Zenon
  <2> HIDE DEF r
  <2>0. /\ Len(c) = (i - 1) + Len(t) /\ Len(b) = Len(s) - j /\ Len(s) \in Nat /\ Len(t) \in Nat
        /\ i \in 1 .. Len(s) /\ j \in i - 1 .. Len(s)
    BY <1>1, <1>3, <1>5
  <2>2. ASSUME NEW x \in 1 .. (i - 1) + Len(t) PROVE r[x] = c[x]
    <3>1. x \in 1 .. Len(c) + Len(b) /\ x <= Len(c)  BY <2>0
    <3> QED  BY <2>1, <3>1
  <2>3. ASSUME NEW x \in 1 .. Len(s) - j PROVE r[(i - 1) + Len(t) + x] = b[x]
    <3> DEFINE y == (i - 1) + Len(t) + x
    <3>1. y \in 1 .. Len(c) + Len(b) /\ ~(y <= Len(c)) /\ y - Len(c) = x
      BY <2>0
    <3> HIDE DEF y
    <3>2. r[y] = b[x]  BY <2>1, <3>1
    <3> QED  BY <3>2 DEF y
  <2> QED  BY <1>3, <1>5, <2>1, <2>2, <2>3
<1> HIDE DEF r
<1>7. ASSUME NEW x \in 1 .. i - 1 PROVE r[x] = s[x]
  <2>1. x \in 1 .. (i - 1) + Len(t)  BY <1>1
  <2> QED  BY <1>2, <1>5, <1>6, <2>1
<1>8. ASSUME NEW x \in 1 .. Len(t) PROVE r[(i - 1) + x] = t[x]
  <2>1. (i - 1) + x \in 1 .. (i - 1) + Len(t)  BY <1>1
  <2> QED  BY <1>5, <1>6, <2>1
<1>9. ASSUME NEW x \in j + 1 .. Len(s) PROVE r[(i - 1) + Len(t) + (x - j)] = s[x]
  <2>1. x - j \in 1 .. Len(s) - j /\ j + (x - j) = x  BY <1>1
  <2> QED  BY <1>3, <1>6, <2>1
<1> QED  BY <1>4, <1>6, <1>7, <1>8, <1>9 DEF Spliced

(* Where an element of the new list comes from. *)
LEMMA SpliceFrom ==
  ASSUME NEW S, NEW s \in Seq(S), NEW t \in Seq(S), NEW i \in 1 .. Len(s),
         NEW j \in i - 1 .. Len(s), NEW r, Spliced(r, s, i, j, t, S), NEW x \in 1 .. Len(r)
  PROVE  \/ x \in 1 .. i - 1 /\ r[x] = s[x]
         \/ x \in i .. (i - 1) + Len(t) /\ x - (i - 1) \in 1 .. Len(t) /\ r[x] = t[x - (i - 1)]
         \/ /\ x > (i - 1) + Len(t) /\ x - ((i - 1) + Len(t)) + j \in j + 1 .. Len(s)
            /\ r[x] = s[x - ((i - 1) + Len(t)) + j]
<1>1. Len(s) \in Nat /\ Len(t) \in Nat /\ i \in Int /\ j \in Int /\ x \in Int  
  <2>1. r \in Seq(S)  BY DEF Spliced
  <2> QED  BY <2>1
<1>2. CASE x <= i - 1  BY <1>1, <1>2 DEF Spliced
<1>3. CASE x > i - 1 /\ x <= (i - 1) + Len(t)
  <2> DEFINE y == x - (i - 1)
  <2>1. y \in 1 .. Len(t) /\ (i - 1) + y = x  BY <1>1, <1>3
  <2>2. r[(i - 1) + y] = t[y]  BY <2>1 DEF Spliced
  <2> QED  BY <1>1, <1>3, <2>1, <2>2
<1>4. CASE x > (i - 1) + Len(t)
  <2> DEFINE y == x - ((i - 1) + Len(t)) + j
  <2>1. Len(r) = (i - 1) + Len(t) + (Len(s) - j)  BY DEF Spliced
  <2>2. y \in j + 1 .. Len(s) /\ (i - 1) + Len(t) + (y - j) = x  BY <1>1, <1>4, <2>1
  <2> HIDE DEF y
  <2>3. r[(i - 1) + Len(t) + (y - j)] = s[y]  BY <2>2 DEF Spliced
  <2>4. r[x] = s[y]  BY <2>2, <2>3
  <2> QED  BY <1>4, <2>2, <2>4 DEF y
<1> QED  BY <1>1, <1>2, <1>3, <1>4

(* A list of chunks stays merged when what is put in is, and fits between  *)
(* what is left.                                                           *)
LEMMA MergedSplice ==
  ASSUME NEW cs, Merged(cs), NEW t, Merged(t), NEW i \in 1 .. Len(cs),
         NEW j \in i - 1 .. Len(cs),
         \A x \in 1 .. i - 1, y \in 1 .. Len(t) : EndOf(cs[x]) < t[y].offset,
         \A x \in 1 .. Len(t), y \in j + 1 .. Len(cs) : EndOf(t[x]) < cs[y].offset
  PROVE  /\ Merged(Splice(cs, i, j, t))
         /\ \A v : v \in Listed(Splice(cs, i, j, t)) <=>
                     \/ \E x \in 1 .. i - 1 : v \in BytesOf(cs[x])
                     \/ v \in Listed(t)
                     \/ \E x \in j + 1 .. Len(cs) : v \in BytesOf(cs[x])
<1> DEFINE r == Splice(cs, i, j, t)
           a == i - 1
           z == (i - 1) + Len(t)
<1>0. cs \in Seq(Chunks) /\ t \in Seq(Chunks)  BY DEF Merged
<1>1. Spliced(r, cs, i, j, t, Chunks)  BY <1>0, SpliceIs
<1>2. r \in Seq(Chunks) /\ Len(r) = z + (Len(cs) - j)  BY <1>1 DEF Spliced
<1>3. Len(cs) \in Nat /\ Len(t) \in Nat /\ i \in Int /\ j \in Int /\ Len(r) \in Nat
      /\ DOMAIN r = 1 .. Len(r) /\ DOMAIN t = 1 .. Len(t)
  BY <1>0, <1>2
<1> HIDE DEF r
<1>4. ASSUME NEW x \in 1 .. Len(r)
      PROVE  \/ x \in 1 .. a /\ r[x] = cs[x]
             \/ x \in i .. z /\ x - a \in 1 .. Len(t) /\ r[x] = t[x - a]
             \/ x > z /\ x - z + j \in j + 1 .. Len(cs) /\ r[x] = cs[x - z + j]
  BY <1>0, <1>1, SpliceFrom, SMTT(60)
<1>5. ASSUME NEW x \in 1 .. Len(r) PROVE r[x].length > 0
  <2>0. (\A p \in 1 .. Len(cs) : cs[p].length > 0) /\ (\A p \in 1 .. Len(t) : t[p].length > 0)
    BY DEF Merged
  <2>1. CASE x \in 1 .. a /\ r[x] = cs[x]
    <3>1. x \in 1 .. Len(cs)  BY <1>3, <2>1
    <3> QED  BY <2>0, <2>1, <3>1
  <2>2. CASE x \in i .. z /\ x - a \in 1 .. Len(t) /\ r[x] = t[x - a]
    BY <2>0, <2>2, Zenon
  <2>3. CASE x > z /\ x - z + j \in j + 1 .. Len(cs) /\ r[x] = cs[x - z + j]
    <3>1. x - z + j \in 1 .. Len(cs)
      <4>1. \A p, q, n \in Int : p \in q + 1 .. n /\ q >= 0 => p \in 1 .. n  OBVIOUS
      <4>2. j >= 0  BY <1>3
      <4>3. x - z + j \in Int  BY <1>3
      <4> QED  BY <1>3, <2>3, <4>1, <4>2, <4>3
    <3> QED  BY <2>0, <2>3, <3>1, Zenon
  <2> QED  BY <1>4, <2>1, <2>2, <2>3, Zenon
<1>6. ASSUME NEW x \in 1 .. Len(r), NEW y \in 1 .. Len(r), x < y
      PROVE  EndOf(r[x]) < r[y].offset
  <2>0. /\ \A p, q \in 1 .. Len(cs) : p < q => EndOf(cs[p]) < cs[q].offset
        /\ \A p, q \in 1 .. Len(t) : p < q => EndOf(t[p]) < t[q].offset
    BY DEF Merged
  <2>1. CASE x \in 1 .. a /\ r[x] = cs[x]
    <3>1. CASE y \in 1 .. a /\ r[y] = cs[y]
      <4>1. x \in 1 .. Len(cs) /\ y \in 1 .. Len(cs)  BY <1>3, <2>1, <3>1
      <4> QED  BY <1>6, <2>0, <2>1, <3>1, <4>1
    <3>2. CASE y \in i .. z /\ y - a \in 1 .. Len(t) /\ r[y] = t[y - a]
      BY <2>1, <3>2
    <3>3. CASE y > z /\ y - z + j \in j + 1 .. Len(cs) /\ r[y] = cs[y - z + j]
      <4>1. x \in 1 .. Len(cs) /\ y - z + j \in 1 .. Len(cs) /\ x < y - z + j
        BY <1>3, <2>1, <3>3
      <4>2. EndOf(cs[x]) < cs[y - z + j].offset  BY <2>0, <4>1
      <4> QED  BY <2>1, <3>3, <4>2
    <3> QED  BY <1>4, <3>1, <3>2, <3>3
  <2>2. CASE x \in i .. z /\ x - a \in 1 .. Len(t) /\ r[x] = t[x - a]
    <3>1. ~(y \in 1 .. a)  BY <1>3, <1>6, <2>2
    <3>2. CASE y \in i .. z /\ y - a \in 1 .. Len(t) /\ r[y] = t[y - a]
      <4>1. x - a < y - a  BY <1>3, <1>6
      <4>2. EndOf(t[x - a]) < t[y - a].offset  BY <2>0, <2>2, <3>2, <4>1
      <4> QED  BY <2>2, <3>2, <4>2
    <3>3. CASE y > z /\ y - z + j \in j + 1 .. Len(cs) /\ r[y] = cs[y - z + j]
      <4>1. EndOf(t[x - a]) < cs[y - z + j].offset  BY <2>2, <3>3
      <4> QED  BY <2>2, <3>3, <4>1
    <3> QED  BY <1>4, <3>1, <3>2, <3>3
  <2>3. CASE x > z /\ x - z + j \in j + 1 .. Len(cs) /\ r[x] = cs[x - z + j]
    <3>1. ~(y \in 1 .. a) /\ ~(y \in i .. z)  BY <1>3, <1>6, <2>3
    <3>2. y - z + j \in j + 1 .. Len(cs) /\ r[y] = cs[y - z + j]  BY <1>4, <3>1
    <3>3. x - z + j < y - z + j /\ x - z + j \in 1 .. Len(cs) /\ y - z + j \in 1 .. Len(cs)
      BY <1>3, <1>6, <2>3, <3>2, SMTT(40)
    <3>4. EndOf(cs[x - z + j]) < cs[y - z + j].offset  BY <2>0, <3>3
    <3> QED  BY <2>3, <3>2, <3>4
  <2> QED  BY <1>4, <2>1, <2>2, <2>3
<1>7. Merged(r)  BY <1>2, <1>5, <1>6 DEF Merged
<1>8. ASSUME NEW v
      PROVE  v \in Listed(r) <=>
               \/ \E x \in 1 .. a : v \in BytesOf(cs[x])
               \/ v \in Listed(t)
               \/ \E x \in j + 1 .. Len(cs) : v \in BytesOf(cs[x])
  <2>1. v \in Listed(r) <=> \E x \in 1 .. Len(r) : v \in BytesOf(r[x])
    BY <1>3 DEF Listed
  <2>2. v \in Listed(t) <=> \E x \in 1 .. Len(t) : v \in BytesOf(t[x])
    BY <1>3 DEF Listed
  <2>3. ASSUME NEW x \in 1 .. Len(r), v \in BytesOf(r[x])
        PROVE  \/ \E y \in 1 .. a : v \in BytesOf(cs[y])
               \/ \E y \in 1 .. Len(t) : v \in BytesOf(t[y])
               \/ \E y \in j + 1 .. Len(cs) : v \in BytesOf(cs[y])
    BY <1>4, <2>3, Zenon
  <2>4. ASSUME NEW x \in 1 .. a, v \in BytesOf(cs[x])
        PROVE  \E y \in 1 .. Len(r) : v \in BytesOf(r[y])
    <3>1. x \in 1 .. Len(r) /\ r[x] = cs[x]  BY <1>1, <1>2, <1>3 DEF Spliced
    <3> QED  BY <2>4, <3>1
  <2>5. ASSUME NEW x \in 1 .. Len(t), v \in BytesOf(t[x])
        PROVE  \E y \in 1 .. Len(r) : v \in BytesOf(r[y])
    <3>1. a + x \in 1 .. Len(r)  BY <1>2, <1>3
    <3>2. r[a + x] = t[x]  BY <1>1 DEF Spliced
    <3> QED  BY <2>5, <3>1, <3>2
  <2>6. ASSUME NEW x \in j + 1 .. Len(cs), v \in BytesOf(cs[x])
        PROVE  \E y \in 1 .. Len(r) : v \in BytesOf(r[y])
    <3>1. z + (x - j) \in 1 .. Len(r)  BY <1>2, <1>3
    <3>2. r[z + (x - j)] = cs[x]  BY <1>1 DEF Spliced
    <3> QED  BY <2>6, <3>1, <3>2
  <2> QED  BY <2>1, <2>2, <2>3, <2>4, <2>5, <2>6
<1> QED  BY <1>7, <1>8 DEF r

(* A chunk is an interval of bytes. *)
LEMMA ChunkIs ==
  ASSUME NEW c \in Chunks
  PROVE  /\ c.offset \in Int /\ c.length \in Int /\ EndOf(c) \in Int
         /\ EndOf(c) = c.offset + c.length
         /\ \A v : v \in BytesOf(c) <=> v \in Int /\ c.offset <= v /\ v < EndOf(c)
<1>1. c.offset \in Int /\ c.length \in Int  BY DEF Chunks
<1> QED  BY <1>1 DEF EndOf, BytesOf

(* Two chunks that touch, as one. *)
LEMMA JoinIs ==
  ASSUME NEW c \in Chunks, NEW d \in Chunks, Joins(c, d), c.length > 0, d.length > 0
  PROVE  /\ Join(c, d) \in Chunks /\ Join(c, d).length > 0
         /\ Join(c, d).offset = c.offset /\ EndOf(Join(c, d)) = EndOf(d)
         /\ \A v : v \in BytesOf(Join(c, d)) <=> v \in BytesOf(c) \/ v \in BytesOf(d)
<1> DEFINE e == Join(c, d)
<1>1. c.offset \in Int /\ c.length \in Int /\ d.offset \in Int /\ d.length \in Int
  BY DEF Chunks
<1>2. e \in Chunks /\ e.offset = c.offset /\ e.length = c.length + d.length
  BY <1>1 DEF Join, Chunks
<1>3. d.offset = c.offset + c.length  BY DEF Joins, EndOf
<1> HIDE DEF e
<1>4. e.length > 0 /\ EndOf(e) = EndOf(d)  BY <1>1, <1>2, <1>3 DEF EndOf
<1>5. \A v : v \in BytesOf(e) <=> v \in BytesOf(c) \/ v \in BytesOf(d)
  BY <1>1, <1>2, <1>3, <1>4, ChunkIs
<1> QED  BY <1>2, <1>4, <1>5 DEF e

(* A list of no, one or two chunks. *)
LEMMA FewChunks ==
  /\ Merged(<< >>) /\ Listed(<< >>) = {}
  /\ \A c \in Chunks : c.length > 0 =>
       Merged(<<c>>) /\ Listed(<<c>>) = BytesOf(c) /\ Len(<<c>>) = 1
  /\ \A c, d \in Chunks : c.length > 0 /\ d.length > 0 /\ EndOf(c) < d.offset =>
       /\ Merged(<<c, d>>) /\ Len(<<c, d>>) = 2
       /\ \A v : v \in Listed(<<c, d>>) <=> v \in BytesOf(c) \/ v \in BytesOf(d)
<1>1. Merged(<< >>) /\ Listed(<< >>) = {}  BY DEF Merged, Listed
<1>2. ASSUME NEW c \in Chunks, c.length > 0
      PROVE  Merged(<<c>>) /\ Listed(<<c>>) = BytesOf(c) /\ Len(<<c>>) = 1
  <2>1. <<c>> \in Seq(Chunks) /\ Len(<<c>>) = 1 /\ <<c>>[1] = c /\ DOMAIN <<c>> = {1}
    OBVIOUS
  <2>2. 1 .. 1 = {1}  OBVIOUS
  <2>3. Merged(<<c>>)  BY <1>2, <2>1, <2>2 DEF Merged
  <2> QED  BY <2>1, <2>3 DEF Listed
<1>3. ASSUME NEW c \in Chunks, NEW d \in Chunks, c.length > 0, d.length > 0,
             EndOf(c) < d.offset
      PROVE  /\ Merged(<<c, d>>) /\ Len(<<c, d>>) = 2
             /\ \A v : v \in Listed(<<c, d>>) <=> v \in BytesOf(c) \/ v \in BytesOf(d)
  <2>1. /\ <<c, d>> \in Seq(Chunks) /\ Len(<<c, d>>) = 2 /\ DOMAIN <<c, d>> = 1 .. 2
        /\ <<c, d>>[1] = c /\ <<c, d>>[2] = d
    OBVIOUS
  <2>2. 1 .. 2 = {1, 2}  OBVIOUS
  <2>3. Merged(<<c, d>>)  BY <1>3, <2>1, <2>2 DEF Merged
  <2> QED  BY <2>1, <2>2, <2>3 DEF Listed
<1> QED  BY <1>1, <1>2, <1>3

(* The chunks of a list, and what is listed. *)
LEMMA MergedIs ==
  ASSUME NEW cs, Merged(cs)
  PROVE  /\ cs \in Seq(Chunks) /\ Len(cs) \in Nat /\ DOMAIN cs = 1 .. Len(cs)
         /\ \A i \in 1 .. Len(cs) : cs[i] \in Chunks /\ cs[i].length > 0
         /\ \A i, j \in 1 .. Len(cs) : i < j => EndOf(cs[i]) < cs[j].offset
         /\ \A v : v \in Listed(cs) <=> \E i \in 1 .. Len(cs) : v \in BytesOf(cs[i])
<1>1. cs \in Seq(Chunks)  BY DEF Merged
<1>2. Len(cs) \in Nat /\ DOMAIN cs = 1 .. Len(cs) /\ \A i \in 1 .. Len(cs) : cs[i] \in Chunks
  BY <1>1
<1> QED  BY <1>1, <1>2 DEF Merged, Listed

(* No byte is in two chunks. *)
LEMMA OneChunk ==
  ASSUME NEW cs, Merged(cs), NEW i \in 1 .. Len(cs), NEW j \in 1 .. Len(cs), i # j,
         NEW v, v \in BytesOf(cs[i])
  PROVE  v \notin BytesOf(cs[j])
<1>1. /\ cs[i] \in Chunks /\ cs[j] \in Chunks
      /\ i < j => EndOf(cs[i]) < cs[j].offset
      /\ j < i => EndOf(cs[j]) < cs[i].offset
      /\ Len(cs) \in Nat
  BY MergedIs
<1>2. i < j \/ j < i  BY <1>1
<1> QED  BY <1>1, <1>2, ChunkIs

(* Chunks without a common byte are one behind the other. *)
LEMMA Apart ==
  ASSUME NEW c \in Chunks, NEW b \in Chunks, c.length > 0, b.length > 0,
         \A v \in BytesOf(b) : v \notin BytesOf(c)
  PROVE  EndOf(c) <= b.offset \/ EndOf(b) <= c.offset
<1>1. /\ c.offset \in Int /\ b.offset \in Int /\ EndOf(c) \in Int /\ EndOf(b) \in Int
      /\ c.offset < EndOf(c) /\ b.offset < EndOf(b)
  BY ChunkIs
<1>2. CASE c.offset <= b.offset
  <2>1. b.offset \in BytesOf(b)  BY <1>1, ChunkIs
  <2>2. b.offset \notin BytesOf(c)  BY <2>1
  <2> QED  BY <1>1, <1>2, <2>2, ChunkIs
<1>3. CASE b.offset <= c.offset
  <2>1. c.offset \in BytesOf(c)  BY <1>1, ChunkIs
  <2>2. c.offset \notin BytesOf(b)  BY <2>1
  <2> QED  BY <1>1, <1>3, <2>2, ChunkIs
<1> QED  BY <1>1, <1>2, <1>3

(***************************************************************************)
(* A buffer is taken out of the list.                                      *)
(***************************************************************************)

(* The list t is chunk c without buffer b. *)
CutOut(t, c, b) ==
  /\ Merged(t)
  /\ \A y \in 1 .. Len(t) : c.offset <= t[y].offset /\ EndOf(t[y]) <= EndOf(c)
  /\ \A v : v \in Listed(t) <=> v \in BytesOf(c) /\ v \notin BytesOf(b)

(* remove_split_buffer leaves exactly the rest of the chunk. *)
LEMMA RemainsIs ==
  ASSUME NEW c \in Chunks, NEW b \in Chunks, c.length > 0, b.length > 0, InBounds(b, c)
  PROVE  CutOut(Remains(c, b), c, b)
<1> DEFINE before == [offset |-> c.offset, length |-> b.offset - c.offset]
           after  == [offset |-> EndOf(b), length |-> EndOf(c) - EndOf(b)]
           t == Remains(c, b)
<1>1. /\ c.offset \in Int /\ c.length \in Int /\ EndOf(c) \in Int
      /\ b.offset \in Int /\ b.length \in Int /\ EndOf(b) \in Int
      /\ EndOf(c) = c.offset + c.length /\ EndOf(b) = b.offset + b.length
      /\ c.offset <= b.offset /\ EndOf(b) <= EndOf(c)
  BY ChunkIs DEF InBounds
<1>2. /\ before \in Chunks /\ before.offset = c.offset /\ before.length = b.offset - c.offset
      /\ after \in Chunks /\ after.offset = EndOf(b) /\ after.length = EndOf(c) - EndOf(b)
  BY <1>1 DEF Chunks
<1>3. /\ c.offset = b.offset /\ c.length = b.length => t = << >>
      /\ c.offset = b.offset /\ c.length # b.length => t = <<after>>
      /\ c.offset # b.offset /\ EndOf(c) = EndOf(b) => t = <<before>>
      /\ c.offset # b.offset /\ EndOf(c) # EndOf(b) => t = <<before, after>>
  BY DEF Remains
<1> HIDE DEF before, after, t
<1>4. EndOf(before) = b.offset /\ EndOf(after) = EndOf(c)
  BY <1>1, <1>2 DEF EndOf
<1>5. \A v : /\ v \in BytesOf(c) <=> v \in Int /\ c.offset <= v /\ v < EndOf(c)
             /\ v \in BytesOf(b) <=> v \in Int /\ b.offset <= v /\ v < EndOf(b)
             /\ v \in BytesOf(before) <=> v \in Int /\ c.offset <= v /\ v < b.offset
             /\ v \in BytesOf(after) <=> v \in Int /\ EndOf(b) <= v /\ v < EndOf(c)
  BY <1>2, <1>4, ChunkIs
<1>6. CASE c.offset = b.offset /\ c.length = b.length
  <2>1. t = << >> /\ Merged(t) /\ Listed(t) = {} /\ Len(t) = 0  BY <1>3, <1>6, FewChunks
  <2>2. EndOf(c) = EndOf(b)  BY <1>1, <1>6
  <2>3. \A y \in 1 .. Len(t) : c.offset <= t[y].offset /\ EndOf(t[y]) <= EndOf(c)
    BY <2>1
  <2>4. \A v : v \in Listed(t) <=> v \in BytesOf(c) /\ v \notin BytesOf(b)
    BY <1>5, <1>6, <2>1, <2>2
  <2> QED  BY <2>1, <2>3, <2>4 DEF CutOut, t
<1>7. CASE c.offset = b.offset /\ c.length # b.length
  <2>1. after.length > 0  BY <1>1, <1>2, <1>7
  <2>2. t = <<after>> /\ Merged(t) /\ Listed(t) = BytesOf(after) /\ Len(t) = 1 /\ t[1] = after
    BY <1>2, <1>3, <1>7, <2>1, FewChunks
  <2>3. \A y \in 1 .. Len(t) : y = 1  BY <2>2
  <2>4. c.offset <= after.offset /\ EndOf(after) <= EndOf(c)
    BY <1>1, <1>2, <1>4
  <2>5. \A v : v \in Listed(t) <=> v \in BytesOf(c) /\ v \notin BytesOf(b)
    BY <1>1, <1>5, <1>7, <2>2
  <2> QED  BY <2>2, <2>3, <2>4, <2>5 DEF CutOut, t
<1>8. CASE c.offset # b.offset /\ EndOf(c) = EndOf(b)
  <2>1. before.length > 0  BY <1>1, <1>2, <1>8
  <2>2. t = <<before>> /\ Merged(t) /\ Listed(t) = BytesOf(before) /\ Len(t) = 1 /\ t[1] = before
    BY <1>2, <1>3, <1>8, <2>1, FewChunks
  <2>3. \A y \in 1 .. Len(t) : y = 1  BY <2>2
  <2>4. c.offset <= before.offset /\ EndOf(before) <= EndOf(c)
    BY <1>1, <1>2, <1>4
  <2>5. \A v : v \in Listed(t) <=> v \in BytesOf(c) /\ v \notin BytesOf(b)
    BY <1>1, <1>5, <1>8, <2>2
  <2> QED  BY <2>2, <2>3, <2>4, <2>5 DEF CutOut, t
<1>9. CASE c.offset # b.offset /\ EndOf(c) # EndOf(b)
  <2>1. before.length > 0 /\ after.length > 0 /\ EndOf(before) < after.offset
    BY <1>1, <1>2, <1>4, <1>9
  <2>2. t = <<before, after>> /\ t[1] = before /\ t[2] = after  BY <1>3, <1>9
  <2>3. /\ Merged(t) /\ Len(t) = 2
        /\ \A v : v \in Listed(t) <=> v \in BytesOf(before) \/ v \in BytesOf(after)
    BY <1>2, <2>1, <2>2, FewChunks
  <2>4. \A y \in 1 .. Len(t) : y = 1 \/ y = 2  BY <2>3
  <2>5. /\ c.offset <= before.offset /\ EndOf(before) <= EndOf(c)
        /\ c.offset <= after.offset /\ EndOf(after) <= EndOf(c)
    BY <1>1, <1>2, <1>4
  <2>6. \A v : v \in Listed(t) <=> v \in BytesOf(c) /\ v \notin BytesOf(b)
    BY <1>1, <1>5, <1>9, <2>3
  <2> QED  BY <2>2, <2>3, <2>4, <2>5, <2>6 DEF CutOut, t
<1> QED  BY <1>6, <1>7, <1>8, <1>9

(* debug_enqueue takes exactly the buffer off the list. *)
LEMMA TakeOut ==
  ASSUME NEW cs, Merged(cs), NEW i \in 1 .. Len(cs), NEW b \in Chunks, b.length > 0,
         InBounds(b, cs[i])
  PROVE  /\ Merged(Splice(cs, i, i, Remains(cs[i], b)))
         /\ Listed(Splice(cs, i, i, Remains(cs[i], b))) = Listed(cs) \ BytesOf(b)
<1> DEFINE t == Remains(cs[i], b)
           r == Splice(cs, i, i, t)
<1>0. /\ cs \in Seq(Chunks) /\ Len(cs) \in Nat
      /\ \A x \in 1 .. Len(cs) : cs[x] \in Chunks /\ cs[x].length > 0
      /\ \A x, y \in 1 .. Len(cs) : x < y => EndOf(cs[x]) < cs[y].offset
      /\ \A v : v \in Listed(cs) <=> \E x \in 1 .. Len(cs) : v \in BytesOf(cs[x])
  BY MergedIs
<1>1. cs[i] \in Chunks /\ cs[i].length > 0  BY <1>0
<1>2. CutOut(t, cs[i], b)  BY <1>1, RemainsIs
<1> HIDE DEF t
<1>3. /\ Merged(t) /\ \A v : v \in Listed(t) <=> v \in BytesOf(cs[i]) /\ v \notin BytesOf(b)
      /\ \A y \in 1 .. Len(t) : cs[i].offset <= t[y].offset /\ EndOf(t[y]) <= EndOf(cs[i])
  BY <1>2 DEF CutOut
<1>4. \A y \in 1 .. Len(t) : t[y].offset \in Int /\ EndOf(t[y]) \in Int
  BY <1>3, MergedIs, ChunkIs
<1>5. \A x \in 1 .. Len(cs) : cs[x].offset \in Int /\ EndOf(cs[x]) \in Int
  BY <1>0, ChunkIs
<1>6. ASSUME NEW x \in 1 .. i - 1, NEW y \in 1 .. Len(t) PROVE EndOf(cs[x]) < t[y].offset
  <2>1. x \in 1 .. Len(cs) /\ x < i  BY <1>0
  <2>2. EndOf(cs[x]) < cs[i].offset  BY <1>0, <2>1
  <2> QED  BY <1>3, <1>4, <1>5, <2>1, <2>2
<1>7. ASSUME NEW x \in 1 .. Len(t), NEW y \in i + 1 .. Len(cs) PROVE EndOf(t[x]) < cs[y].offset
  <2>1. y \in 1 .. Len(cs) /\ i < y  BY <1>0
  <2>2. EndOf(cs[i]) < cs[y].offset  BY <1>0, <2>1
  <2> QED  BY <1>3, <1>4, <1>5, <2>1, <2>2
<1>8. i \in i - 1 .. Len(cs)  BY <1>0
<1>9. /\ Merged(r)
      /\ \A v : v \in Listed(r) <=>
                  \/ \E x \in 1 .. i - 1 : v \in BytesOf(cs[x])
                  \/ v \in Listed(t)
                  \/ \E x \in i + 1 .. Len(cs) : v \in BytesOf(cs[x])
  BY <1>3, <1>6, <1>7, <1>8, MergedSplice
<1> HIDE DEF r
<1>10. \A v \in BytesOf(b) : v \in BytesOf(cs[i])
  BY <1>1, ChunkIs DEF InBounds
<1>11. ASSUME NEW v PROVE v \in Listed(r) <=> v \in Listed(cs) \ BytesOf(b)
  <2>1. \A x \in 1 .. Len(cs) : x # i /\ v \in BytesOf(cs[x]) => v \notin BytesOf(cs[i])
    BY OneChunk
  <2>2. \A x : x \in 1 .. Len(cs) <=> x \in 1 .. i - 1 \/ x = i \/ x \in i + 1 .. Len(cs)
    BY <1>0
  <2>3. \A x : x \in 1 .. i - 1 \/ x \in i + 1 .. Len(cs) => x # i  BY <1>0
  <2>4. v \in Listed(cs) <=> \/ \E x \in 1 .. i - 1 : v \in BytesOf(cs[x])
                             \/ v \in BytesOf(cs[i])
                             \/ \E x \in i + 1 .. Len(cs) : v \in BytesOf(cs[x])
    BY <1>0, <2>2, Zenon
  <2>5. (\E x \in 1 .. i - 1 : v \in BytesOf(cs[x])) \/ (\E x \in i + 1 .. Len(cs) : v \in BytesOf(cs[x]))
        => v \notin BytesOf(cs[i])
    BY <2>1, <2>2, <2>3, Zenon
  <2> QED  BY <1>3, <1>9, <1>10, <2>4, <2>5
<1> QED  BY <1>9, <1>11 DEF r, t

(***************************************************************************)
(* A buffer is put back into the list.                                     *)
(***************************************************************************)

(* A non-empty set of numbers has a least one. *)
LEMMA LeastNumber ==
  ASSUME NEW T, T \subseteq Nat, T # {}
  PROVE  \E x \in T : \A y \in T : x <= y
<1>1. \E x \in T : \A y \in T : ~(<<y, x>> \in OpToRel(<, Nat))
  BY NatLessThanWellFounded, WFMin
<1>2. PICK x \in T : \A y \in T : ~(<<y, x>> \in OpToRel(<, Nat))  BY <1>1
<1>3. ASSUME NEW y \in T PROVE x <= y
  <2>1. ~(y < x)  BY <1>2 DEF OpToRel
  <2> QED  BY <2>1
<1> QED  BY <1>3

(* The search of debug_dequeue finds the chunk behind the buffer, or the   *)
(* last one when there is none.                                            *)
LEMMA PositionIs ==
  ASSUME NEW cs, Merged(cs), cs # << >>, NEW b \in Chunks, b.length > 0,
         \A v \in BytesOf(b) : v \notin Listed(cs)
  PROVE  /\ Position(cs, b) \in 1 .. Len(cs)
         /\ \A x \in 1 .. Position(cs, b) - 1 : EndOf(cs[x]) <= b.offset
         /\ \/ EndOf(b) <= cs[Position(cs, b)].offset
            \/ Position(cs, b) = Len(cs) /\ EndOf(cs[Len(cs)]) <= b.offset
<1> DEFINE beyond == {x \in 1 .. Len(cs) - 1 : b.offset < cs[x].offset}
           i == Position(cs, b)
<1>0. /\ cs \in Seq(Chunks) /\ Len(cs) \in Nat
      /\ \A x \in 1 .. Len(cs) : cs[x] \in Chunks /\ cs[x].length > 0
      /\ \A v : v \in Listed(cs) <=> \E x \in 1 .. Len(cs) : v \in BytesOf(cs[x])
  BY MergedIs
<1>1. Len(cs) >= 1  BY <1>0
<1>2. \A x \in 1 .. Len(cs) : EndOf(cs[x]) <= b.offset \/ EndOf(b) <= cs[x].offset
  BY <1>0, Apart
<1>3. /\ b.offset \in Int /\ EndOf(b) \in Int /\ b.offset < EndOf(b)
      /\ \A x \in 1 .. Len(cs) : cs[x].offset \in Int /\ EndOf(cs[x]) \in Int
                                 /\ cs[x].offset < EndOf(cs[x])
  <2>1. ASSUME NEW d \in Chunks, d.length > 0
        PROVE  d.offset \in Int /\ EndOf(d) \in Int /\ d.offset < EndOf(d)
    BY <2>1, ChunkIs
  <2> QED  BY <1>0, <2>1
<1>4. i = IF beyond = {} THEN Len(cs) ELSE CHOOSE x \in beyond : \A y \in beyond : x <= y
  BY DEF Position
<1>5. CASE beyond = {}
  <2>1. i = Len(cs) /\ i \in 1 .. Len(cs)  BY <1>0, <1>1, <1>4, <1>5
  <2>2. ASSUME NEW x \in 1 .. Len(cs) - 1 PROVE EndOf(cs[x]) <= b.offset
    <3>1. x \in 1 .. Len(cs) /\ ~(b.offset < cs[x].offset)  BY <1>0, <1>5
    <3> QED  BY <1>2, <1>3, <3>1
  <2>3. Len(cs) \in 1 .. Len(cs)  BY <1>0, <1>1
  <2>4. EndOf(cs[Len(cs)]) <= b.offset \/ EndOf(b) <= cs[Len(cs)].offset  BY <1>2, <2>3
  <2> QED  BY <2>1, <2>2, <2>4
<1>6. CASE beyond # {}
  <2>1. beyond \subseteq Nat  BY <1>0
  <2>2. \E x \in beyond : \A y \in beyond : x <= y  BY <1>6, <2>1, LeastNumber
  <2>3. i \in beyond /\ \A y \in beyond : i <= y  BY <1>4, <1>6, <2>2
  <2>4. i \in 1 .. Len(cs) - 1 /\ i \in 1 .. Len(cs) /\ b.offset < cs[i].offset
    BY <1>0, <2>3
  <2> HIDE DEF i, beyond
  <2>5. EndOf(b) <= cs[i].offset  BY <1>2, <1>3, <2>4
  <2>6. ASSUME NEW x \in 1 .. i - 1 PROVE EndOf(cs[x]) <= b.offset
    <3>1. x \in 1 .. Len(cs) /\ x \in 1 .. Len(cs) - 1 /\ ~(i <= x)  BY <1>0, <2>4
    <3>2. ~(b.offset < cs[x].offset)  BY <2>3, <3>1 DEF beyond
    <3> QED  BY <1>2, <1>3, <3>1, <3>2
  <2> QED  BY <2>4, <2>5, <2>6 DEF i
<1> QED  BY <1>5, <1>6

(* The list r is cs and buffer b. *)
PutIn(r, cs, b) == Merged(r) /\ \A v : v \in Listed(r) <=> v \in Listed(cs) \/ v \in BytesOf(b)

(* The chunks i to j of a list are replaced by t, which is made of them    *)
(* and of buffer b.                                                        *)
LEMMA PutInSplice ==
  ASSUME NEW cs, Merged(cs), NEW t, Merged(t), NEW b, NEW i \in 1 .. Len(cs),
         NEW j \in i .. Len(cs),
         \A x \in 1 .. i - 1, y \in 1 .. Len(t) : EndOf(cs[x]) < t[y].offset,
         \A x \in 1 .. Len(t), y \in j + 1 .. Len(cs) : EndOf(t[x]) < cs[y].offset,
         \A v : v \in Listed(t) <=> v \in BytesOf(b) \/ \E x \in i .. j : v \in BytesOf(cs[x])
  PROVE  PutIn(Splice(cs, i, j, t), cs, b)
<1> DEFINE r == Splice(cs, i, j, t)
<1>0. /\ Len(cs) \in Nat /\ j \in i - 1 .. Len(cs)
      /\ \A v : v \in Listed(cs) <=> \E x \in 1 .. Len(cs) : v \in BytesOf(cs[x])
  <2>1. /\ Len(cs) \in Nat
        /\ \A v : v \in Listed(cs) <=> \E x \in 1 .. Len(cs) : v \in BytesOf(cs[x])
    BY MergedIs, Zenon
  <2>2. j \in i - 1 .. Len(cs)
    <3>1. \A x, y, z \in Int : x \in 1 .. z /\ y \in x .. z => y \in x - 1 .. z  OBVIOUS
    <3> QED  BY <2>1, <3>1
  <2> QED  BY <2>1, <2>2
<1>1. /\ Merged(r)
      /\ \A v : v \in Listed(r) <=>
                  \/ \E x \in 1 .. i - 1 : v \in BytesOf(cs[x])
                  \/ v \in Listed(t)
                  \/ \E x \in j + 1 .. Len(cs) : v \in BytesOf(cs[x])
  BY <1>0, MergedSplice
<1> HIDE DEF r
<1>2. \A x : x \in 1 .. Len(cs) <=> x \in 1 .. i - 1 \/ x \in i .. j \/ x \in j + 1 .. Len(cs)
  BY <1>0
<1>3. ASSUME NEW v PROVE v \in Listed(r) <=> v \in Listed(cs) \/ v \in BytesOf(b)
  <2>1. v \in Listed(cs) <=> \/ \E x \in 1 .. i - 1 : v \in BytesOf(cs[x])
                             \/ \E x \in i .. j : v \in BytesOf(cs[x])
                             \/ \E x \in j + 1 .. Len(cs) : v \in BytesOf(cs[x])
    BY <1>0, <1>2, Zenon
  <2> QED  BY <1>1, <2>1
<1> QED  BY <1>1, <1>3 DEF PutIn, r

(* The same for one chunk t. *)
LEMMA PutInOne ==
  ASSUME NEW cs, Merged(cs), NEW e \in Chunks, e.length > 0, NEW b, NEW i \in 1 .. Len(cs),
         NEW j \in i .. Len(cs),
         \A x \in 1 .. i - 1 : EndOf(cs[x]) < e.offset,
         \A y \in j + 1 .. Len(cs) : EndOf(e) < cs[y].offset,
         \A v : v \in BytesOf(e) <=> v \in BytesOf(b) \/ \E x \in i .. j : v \in BytesOf(cs[x])
  PROVE  PutIn(Splice(cs, i, j, <<e>>), cs, b)
<1>1. PICK t : t = <<e>>  OBVIOUS
<1>2. Merged(t) /\ Listed(t) = BytesOf(e) /\ Len(t) = 1 /\ t[1] = e
  BY <1>1, FewChunks
<1>3. \A y \in 1 .. Len(t) : t[y] = e  BY <1>2
<1>4. PutIn(Splice(cs, i, j, t), cs, b)  BY <1>2, <1>3, PutInSplice
<1> QED  BY <1>1, <1>4

(* The same for two chunks in place of one. *)
LEMMA PutInTwo ==
  ASSUME NEW cs, Merged(cs), NEW c \in Chunks, NEW d \in Chunks, c.length > 0, d.length > 0,
         EndOf(c) < d.offset, NEW b, NEW i \in 1 .. Len(cs),
         \A x \in 1 .. i - 1 : EndOf(cs[x]) < c.offset,
         \A y \in i + 1 .. Len(cs) : EndOf(d) < cs[y].offset,
         (b = c /\ cs[i] = d) \/ (b = d /\ cs[i] = c)
  PROVE  PutIn(Splice(cs, i, i, <<c, d>>), cs, b)
<1>0. /\ c.offset \in Int /\ d.offset \in Int /\ EndOf(c) \in Int /\ EndOf(d) \in Int
      /\ c.offset < EndOf(c) /\ d.offset < EndOf(d)
  BY ChunkIs
<1>1. PICK t : t = <<c, d>>  OBVIOUS
<1>2. t[1] = c /\ t[2] = d  BY <1>1
<1>3. /\ Merged(t) /\ Len(t) = 2
      /\ \A v : v \in Listed(t) <=> v \in BytesOf(c) \/ v \in BytesOf(d)
  BY <1>1, FewChunks
<1>4. \A y \in 1 .. Len(t) : t[y] = c \/ t[y] = d  BY <1>2, <1>3
<1>5. /\ Len(cs) \in Nat /\ \A x \in 1 .. Len(cs) : cs[x] \in Chunks
  BY MergedIs
<1>6. \A x \in 1 .. Len(cs) : cs[x].offset \in Int /\ EndOf(cs[x]) \in Int
  BY <1>5, ChunkIs
<1>7. ASSUME NEW x \in 1 .. i - 1, NEW y \in 1 .. Len(t) PROVE EndOf(cs[x]) < t[y].offset
  <2>1. x \in 1 .. Len(cs) /\ EndOf(cs[x]) < c.offset  BY <1>5
  <2>2. EndOf(cs[x]) < d.offset  BY <1>0, <1>6, <2>1
  <2> QED  BY <1>4, <2>1, <2>2
<1>8. ASSUME NEW x \in 1 .. Len(t), NEW y \in i + 1 .. Len(cs) PROVE EndOf(t[x]) < cs[y].offset
  <2>1. y \in 1 .. Len(cs) /\ EndOf(d) < cs[y].offset  BY <1>5
  <2>2. EndOf(c) < cs[y].offset  BY <1>0, <1>6, <2>1
  <2> QED  BY <1>4, <2>1, <2>2
<1>9. \A v : v \in Listed(t) <=> v \in BytesOf(b) \/ \E x \in i .. i : v \in BytesOf(cs[x])
  <2>1. i .. i = {i}  BY <1>5
  <2> QED  BY <1>3, <2>1
<1>10. i \in i .. Len(cs)  BY <1>5
<1>11. PutIn(Splice(cs, i, i, t), cs, b)  BY <1>3, <1>7, <1>8, <1>9, <1>10, PutInSplice
<1> QED  BY <1>1, <1>11

(* insert_merge_buffer puts exactly the buffer into the list, and merges   *)
(* it with its neighbours, if its first test does not take a short last    *)
(* chunk for one that ends where the buffer begins.                        *)
LEMMA PutBack ==
  ASSUME NEW cs, Merged(cs), cs # << >>, NEW b \in Chunks, b.length > 0,
         \A v \in BytesOf(b) : v \notin Listed(cs),
         LET c == cs[Len(cs)]
         IN  EndOf(c) <= b.offset /\ c.offset + b.length = b.offset => Joins(c, b)
  PROVE  PutIn(InsertMerge(cs, Position(cs, b), b), cs, b)
<1>0. /\ cs \in Seq(Chunks) /\ Len(cs) \in Nat
      /\ \A x \in 1 .. Len(cs) : cs[x] \in Chunks /\ cs[x].length > 0
      /\ \A x, y \in 1 .. Len(cs) : x < y => EndOf(cs[x]) < cs[y].offset
  BY MergedIs
<1>1. PICK i \in 1 .. Len(cs) :
        /\ i = Position(cs, b)
        /\ \A x \in 1 .. i - 1 : EndOf(cs[x]) <= b.offset
        /\ EndOf(b) <= cs[i].offset \/ (i = Len(cs) /\ EndOf(cs[i]) <= b.offset)
  BY PositionIs
<1>2. /\ b.offset \in Int /\ EndOf(b) \in Int /\ b.offset < EndOf(b)
      /\ \A x \in 1 .. Len(cs) : cs[x].offset \in Int /\ EndOf(cs[x]) \in Int
                                 /\ cs[x].offset < EndOf(cs[x])
  <2>1. ASSUME NEW d \in Chunks, d.length > 0
        PROVE  d.offset \in Int /\ EndOf(d) \in Int /\ d.offset < EndOf(d)
    BY <2>1, ChunkIs
  <2> QED  BY <1>0, <2>1
<1>3. PICK c \in Chunks : c = cs[i] /\ c.length > 0  BY <1>0
<1>4. \A x \in 1 .. i - 1 : x \in 1 .. Len(cs) /\ EndOf(cs[x]) < c.offset
  BY <1>0, <1>3
<1>5. \A y \in i + 1 .. Len(cs) : y \in 1 .. Len(cs) /\ EndOf(c) < cs[y].offset
  BY <1>0, <1>3
<1>6. i .. i = {i} /\ i \in i .. Len(cs)  BY <1>0
<1>7. CASE EndOf(c) <= b.offset
  <2>1. i = Len(cs)  BY <1>1, <1>2, <1>3, <1>7
  <2>2. InsertMerge(cs, i, b) = InsertAfter(cs, i, b)  BY <1>2, <1>3, <1>7 DEF InsertMerge
  <2>3. c.offset + b.length = b.offset => Joins(c, b)  BY <1>3, <1>7, <2>1
  <2>4. CASE Joins(c, b)
    <3>1. InsertAfter(cs, i, b) = Splice(cs, i, i, <<Join(c, b)>>)
      BY <1>3, <2>4 DEF InsertAfter
    <3>2. PICK e \in Chunks : e = Join(c, b) /\ e.length > 0 /\ e.offset = c.offset
      BY <1>3, <2>4, JoinIs
    <3>3. \A v : v \in BytesOf(e) <=> v \in BytesOf(c) \/ v \in BytesOf(b)
      BY <1>3, <2>4, <3>2, JoinIs
    <3>4. \A v : v \in BytesOf(e) <=> v \in BytesOf(b) \/ \E x \in i .. i : v \in BytesOf(cs[x])
      BY <1>3, <1>6, <3>3
    <3>5. \A y \in i + 1 .. Len(cs) : EndOf(e) < cs[y].offset  BY <1>0, <2>1
    <3>6. \A x \in 1 .. i - 1 : EndOf(cs[x]) < e.offset  BY <1>4, <3>2
    <3>7. PutIn(Splice(cs, i, i, <<e>>), cs, b)  BY <1>6, <3>2, <3>4, <3>5, <3>6, PutInOne
    <3> QED  BY <1>1, <2>2, <3>1, <3>2, <3>7
  <2>5. CASE ~Joins(c, b)
    <3>1. InsertAfter(cs, i, b) = Splice(cs, i, i, <<c, b>>)
      BY <1>3, <2>3, <2>5 DEF InsertAfter
    <3>2. EndOf(c) < b.offset  BY <1>2, <1>3, <1>7, <2>5 DEF Joins
    <3>3. \A y \in i + 1 .. Len(cs) : EndOf(b) < cs[y].offset  BY <1>0, <2>1
    <3>4. PutIn(Splice(cs, i, i, <<c, b>>), cs, b)  BY <1>3, <1>4, <3>2, <3>3, PutInTwo
    <3> QED  BY <1>1, <2>2, <3>1, <3>4
  <2> QED  BY <2>4, <2>5
<1>8. CASE ~(EndOf(c) <= b.offset)
  <2>1. EndOf(b) <= c.offset  BY <1>1, <1>3, <1>8
  <2>2. InsertMerge(cs, i, b) = InsertBefore(cs, i, b)  BY <1>2, <1>3, <1>8 DEF InsertMerge
  <2> DEFINE low  == i > 1 /\ Joins(cs[i - 1], b)
             high == Joins(b, c)
  <2>3. \A x \in 1 .. i - 1 : x # i - 1 => EndOf(cs[x]) < b.offset
    <3> SUFFICES ASSUME NEW x \in 1 .. i - 1, x # i - 1 PROVE EndOf(cs[x]) < b.offset
      OBVIOUS
    <3>1. x \in 1 .. Len(cs) /\ i - 1 \in 1 .. Len(cs) /\ i - 1 \in 1 .. i - 1 /\ x < i - 1
      BY <1>0
    <3>2. EndOf(cs[x]) < cs[i - 1].offset /\ EndOf(cs[i - 1]) <= b.offset
      BY <1>0, <1>1, <3>1
    <3> QED  BY <1>2, <3>1, <3>2, SMTT(40)
  <2>4. ~low => \A x \in 1 .. i - 1 : EndOf(cs[x]) < b.offset
    <3> SUFFICES ASSUME ~low, NEW x \in 1 .. i - 1 PROVE EndOf(cs[x]) < b.offset
      OBVIOUS
    <3>1. CASE x = i - 1
      <4>1. i > 1 /\ x \in 1 .. Len(cs) /\ EndOf(cs[x]) <= b.offset  BY <1>0, <1>1, <3>1
      <4>2. EndOf(cs[x]) # b.offset  BY <3>1, <4>1 DEF Joins
      <4> QED  BY <1>2, <4>1, <4>2
    <3> QED  BY <2>3, <3>1
  <2>5. \A y \in i + 1 .. Len(cs) : EndOf(b) < cs[y].offset
    BY <1>2, <1>3, <1>5, <2>1
  <2>6. CASE ~low /\ high
    <3>1. InsertBefore(cs, i, b) = Splice(cs, i, i, <<Join(b, c)>>)
      BY <1>3, <2>6 DEF InsertBefore
    <3>2. PICK e \in Chunks : /\ e = Join(b, c) /\ e.length > 0 /\ e.offset = b.offset
                              /\ EndOf(e) = EndOf(c)
      BY <1>3, <2>6, JoinIs
    <3>3. \A v : v \in BytesOf(e) <=> v \in BytesOf(b) \/ v \in BytesOf(c)
      BY <1>3, <2>6, <3>2, JoinIs
    <3>4. \A v : v \in BytesOf(e) <=> v \in BytesOf(b) \/ \E x \in i .. i : v \in BytesOf(cs[x])
      BY <1>3, <1>6, <3>3
    <3>5. \A y \in i + 1 .. Len(cs) : EndOf(e) < cs[y].offset  BY <1>5, <3>2
    <3>6. \A x \in 1 .. i - 1 : EndOf(cs[x]) < e.offset  BY <2>4, <2>6, <3>2
    <3>7. PutIn(Splice(cs, i, i, <<e>>), cs, b)  BY <1>6, <3>2, <3>4, <3>5, <3>6, PutInOne
    <3> QED  BY <1>1, <2>2, <3>1, <3>2, <3>7
  <2>7. CASE ~low /\ ~high
    <3>1. InsertBefore(cs, i, b) = Splice(cs, i, i, <<b, c>>)
      BY <1>3, <2>7 DEF InsertBefore
    <3>2. EndOf(b) < c.offset  BY <1>2, <1>3, <2>1, <2>7 DEF Joins
    <3>3. \A x \in 1 .. i - 1 : EndOf(cs[x]) < b.offset  BY <2>4, <2>7
    <3>4. PutIn(Splice(cs, i, i, <<b, c>>), cs, b)  BY <1>3, <1>5, <3>2, <3>3, PutInTwo
    <3> QED  BY <1>1, <2>2, <3>1, <3>4
  <2>8. CASE low
    <3>1. PICK h \in 1 .. Len(cs) : h = i - 1  BY <1>0, <2>8
    <3>2. PICK p \in Chunks : p = cs[h] /\ p.length > 0 /\ Joins(p, b)  BY <1>0, <2>8, <3>1
    <3>3. PICK e \in Chunks : /\ e = Join(p, b) /\ e.length > 0 /\ e.offset = p.offset
                              /\ EndOf(e) = EndOf(b)
      BY <3>2, JoinIs
    <3>4. \A v : v \in BytesOf(e) <=> v \in BytesOf(p) \/ v \in BytesOf(b)
      BY <3>2, <3>3, JoinIs
    <3>5. \A x \in 1 .. h - 1 : EndOf(cs[x]) < p.offset  BY <1>0, <3>1, <3>2
    <3>6. h .. h = {h} /\ h .. i = {h, i} /\ h \in h .. Len(cs) /\ i \in h .. Len(cs)
      BY <1>0, <3>1
    <3>7. CASE high
      <4>1. InsertBefore(cs, i, b) = Splice(cs, h, i, <<Join(e, c)>>)
        BY <1>3, <2>8, <3>1, <3>2, <3>3, <3>7 DEF InsertBefore
      <4>2. Joins(e, c)  BY <3>3, <3>7 DEF Joins
      <4>3. PICK f \in Chunks : /\ f = Join(e, c) /\ f.length > 0 /\ f.offset = p.offset
                                /\ EndOf(f) = EndOf(c)
        BY <1>3, <3>3, <4>2, JoinIs
      <4>4. \A v : v \in BytesOf(f) <=> v \in BytesOf(e) \/ v \in BytesOf(c)
        BY <1>3, <3>3, <4>2, <4>3, JoinIs
      <4>5. \A v : v \in BytesOf(f) <=> v \in BytesOf(b) \/ \E x \in h .. i : v \in BytesOf(cs[x])
        BY <1>3, <3>2, <3>4, <3>6, <4>4
      <4>6. \A y \in i + 1 .. Len(cs) : EndOf(f) < cs[y].offset  BY <1>5, <4>3
      <4>7. \A x \in 1 .. h - 1 : EndOf(cs[x]) < f.offset  BY <3>5, <4>3
      <4>8. PutIn(Splice(cs, h, i, <<f>>), cs, b)  BY <3>6, <4>3, <4>5, <4>6, <4>7, PutInOne
      <4> QED  BY <1>1, <2>2, <4>1, <4>3, <4>8
    <3>8. CASE ~high
      <4>1. InsertBefore(cs, i, b) = Splice(cs, h, h, <<e>>)
        BY <1>3, <2>8, <3>1, <3>2, <3>3, <3>8 DEF InsertBefore
      <4>2. EndOf(b) < c.offset  BY <1>2, <1>3, <2>1, <3>8 DEF Joins
      <4>3. \A v : v \in BytesOf(e) <=> v \in BytesOf(b) \/ \E x \in h .. h : v \in BytesOf(cs[x])
        BY <3>2, <3>4, <3>6
      <4>4. ASSUME NEW y \in h + 1 .. Len(cs) PROVE EndOf(e) < cs[y].offset
        <5>1. y = i \/ y \in i + 1 .. Len(cs)  BY <1>0, <3>1
        <5> QED  BY <1>3, <2>5, <3>3, <4>2, <5>1
      <4>5. \A x \in 1 .. h - 1 : EndOf(cs[x]) < e.offset  BY <3>3, <3>5
      <4>6. PutIn(Splice(cs, h, h, <<e>>), cs, b)  BY <3>3, <3>6, <4>3, <4>4, <4>5, PutInOne
      <4> QED  BY <1>1, <2>2, <4>1, <4>6
    <3> QED  BY <3>7, <3>8
  <2> QED  BY <2>6, <2>7, <2>8
<1> QED  BY <1>7, <1>8

(***************************************************************************)
(* The lists of the regions and the queue below.                           *)
(***************************************************************************)

(* Entries of the list of regions. *)
Entries ==
  [rid : Rids, length : Int, not_consistent : BOOLEAN, buffers : Seq(Chunks)]

(* Entry k of list s is the one find_region finds. *)
FirstOf(s, k, rid) ==
  k \in 1 .. Len(s) /\ s[k].rid = rid /\ \A j \in 1 .. k - 1 : s[j].rid # rid

(* Byte v of region rid is in queue q. *)
InQueue(q, rid, v) == \E i \in 1 .. Len(q) : q[i].rid = rid /\ v \in BytesOf(q[i].buf)

(* The bytes of a region. *)
Bytes == 0 .. RegionLen - 1

(* What holds of the entry of a region registered here. *)
OwnEntry(r) == r.not_consistent = FALSE /\ r.length = RegionLen /\ Merged(r.buffers)

(* It holds of all of them. *)
OwnEntries(s) == \A k \in 1 .. Len(s) : s[k].rid \in OwnRids => OwnEntry(s[k])

(* A region that is registered again before its first entry is gone has    *)
(* had none of its memory used through the new entry.                      *)
LaterWhole(s) ==
  \A j, k \in 1 .. Len(s) :
    j < k /\ s[j].rid = s[k].rid /\ s[k].rid \in OwnRids => IsWhole(s[k])

(* What is listed is what is not in the queue. *)
Exact(s, q) ==
  \A rid \in OwnRids :
    /\ (\A k \in 1 .. Len(s) : s[k].rid # rid) => \A v : ~InQueue(q, rid, v)
    /\ \A k : FirstOf(s, k, rid) =>
         \A v : v \in Listed(s[k].buffers) <=> v \in Bytes /\ ~InQueue(q, rid, v)

(* No byte is in the queue twice. *)
OnceLent(q) ==
  \A i, j \in 1 .. Len(q) :
    i < j /\ q[i].rid = q[j].rid /\ q[i].rid \in OwnRids =>
      \A v \in BytesOf(q[i].buf) : v \notin BytesOf(q[j].buf)

(* The lists of the regions, s, fit what is in the queue below, q. *)
Fit(s, q) ==
  /\ s \in Seq(Entries) /\ q \in Seq(Descs)
  /\ OwnEntries(s) /\ LaterWhole(s) /\ Exact(s, q) /\ OnceLent(q)

(* A buffer is a piece of the region. *)
LEMMA BufIs ==
  ASSUME NEW b \in Bufs
  PROVE  b \in Chunks /\ b.length > 0 /\ \A v \in BytesOf(b) : v \in Bytes
<1>1. /\ RegionLen \in Nat \ {0} /\ b \in [offset : 0 .. RegionLen - 1, length : 1 .. RegionLen]
      /\ b.offset + b.length <= RegionLen
  BY DebugAssumption
<1>2. b.offset \in Int /\ b.length \in Int /\ b.offset >= 0 /\ b.length > 0  BY <1>1
<1>3. b \in Chunks  BY <1>1 DEF Chunks
<1> QED  BY <1>1, <1>2, <1>3, ChunkIs DEF Bytes

(* A descriptor. *)
LEMMA DescIs ==
  ASSUME NEW m \in Descs
  PROVE  m.rid \in Rids /\ m.buf \in Bufs /\ m.buf \in Chunks /\ m.buf.length > 0
<1>1. m.rid \in Rids /\ m.buf \in Bufs  BY DEF Descs
<1> QED  BY <1>1, BufIs

(* debug_register lists the whole region. *)
LEMMA WholeIs ==
  /\ Merged(<<[offset |-> 0, length |-> RegionLen]>>)
  /\ \A v : v \in Listed(<<[offset |-> 0, length |-> RegionLen]>>) <=> v \in Bytes
<1>0. RegionLen \in Nat \ {0}  BY DebugAssumption
<1>1. PICK c \in Chunks : /\ c = [offset |-> 0, length |-> RegionLen]
                          /\ c.offset = 0 /\ c.length = RegionLen
  <2>1. [offset |-> 0, length |-> RegionLen] \in Chunks  BY <1>0 DEF Chunks
  <2> QED  BY <2>1
<1>2. Merged(<<c>>) /\ Listed(<<c>>) = BytesOf(c)  BY <1>0, <1>1, FewChunks
<1>3. \A v : v \in BytesOf(c) <=> v \in Bytes  BY <1>0, <1>1, ChunkIs DEF Bytes
<1> QED  BY <1>1, <1>2, <1>3

(* A descriptor enters the queue. *)
LEMMA QueueAppend ==
  ASSUME NEW q \in Seq(Descs), NEW m \in Descs
  PROVE  /\ Append(q, m) \in Seq(Descs)
         /\ \A rid, v : InQueue(Append(q, m), rid, v) <=>
                          InQueue(q, rid, v) \/ (m.rid = rid /\ v \in BytesOf(m.buf))
<1> DEFINE r == Append(q, m)
<1>1. /\ r \in Seq(Descs) /\ Len(r) = Len(q) + 1 /\ r[Len(q) + 1] = m /\ Len(q) \in Nat
      /\ \A i \in 1 .. Len(q) : r[i] = q[i]
  OBVIOUS
<1> HIDE DEF r
<1>2. \A i : i \in 1 .. Len(r) <=> i \in 1 .. Len(q) \/ i = Len(q) + 1  BY <1>1
<1>3. ASSUME NEW rid, NEW v
      PROVE  InQueue(r, rid, v) <=> InQueue(q, rid, v) \/ (m.rid = rid /\ v \in BytesOf(m.buf))
  BY <1>1, <1>2 DEF InQueue
<1> QED  BY <1>1, <1>3 DEF r

(* The oldest descriptor leaves the queue. *)
LEMMA QueueTail ==
  ASSUME NEW q \in Seq(Descs), q # << >>, OnceLent(q)
  PROVE  /\ Head(q) \in Descs /\ Tail(q) \in Seq(Descs) /\ OnceLent(Tail(q))
         /\ \A rid \in OwnRids : \A v :
              InQueue(Tail(q), rid, v) <=>
                InQueue(q, rid, v) /\ ~(Head(q).rid = rid /\ v \in BytesOf(Head(q).buf))
         /\ \A v \in BytesOf(Head(q).buf) : InQueue(q, Head(q).rid, v)
<1> DEFINE r == Tail(q)
<1>1. /\ r \in Seq(Descs) /\ Len(r) = Len(q) - 1 /\ Len(q) \in Nat /\ Len(q) >= 1
      /\ Head(q) = q[1] /\ q[1] \in Descs /\ \A i \in 1 .. Len(q) - 1 : r[i] = q[i + 1]
  OBVIOUS
<1> HIDE DEF r
<1>2. OnceLent(r)
  <2> SUFFICES ASSUME NEW i \in 1 .. Len(r), NEW j \in 1 .. Len(r), i < j,
                      r[i].rid = r[j].rid, r[i].rid \in OwnRids,
                      NEW v \in BytesOf(r[i].buf)
               PROVE  v \notin BytesOf(r[j].buf)
    BY DEF OnceLent
  <2>1. i + 1 \in 1 .. Len(q) /\ j + 1 \in 1 .. Len(q) /\ i + 1 < j + 1  BY <1>1
  <2>2. r[i] = q[i + 1] /\ r[j] = q[j + 1]  BY <1>1
  <2> QED  BY <2>1, <2>2 DEF OnceLent
<1>3. ASSUME NEW rid \in OwnRids, NEW v
      PROVE  InQueue(r, rid, v) <=>
               InQueue(q, rid, v) /\ ~(q[1].rid = rid /\ v \in BytesOf(q[1].buf))
  <2>1. ASSUME InQueue(r, rid, v)
        PROVE  InQueue(q, rid, v) /\ ~(q[1].rid = rid /\ v \in BytesOf(q[1].buf))
    <3>1. PICK i \in 1 .. Len(r) : r[i].rid = rid /\ v \in BytesOf(r[i].buf)
      BY <2>1 DEF InQueue
    <3>2. i + 1 \in 1 .. Len(q) /\ r[i] = q[i + 1] /\ 1 \in 1 .. Len(q) /\ 1 < i + 1  BY <1>1
    <3>3. InQueue(q, rid, v)  BY <3>1, <3>2 DEF InQueue
    <3>4. ASSUME q[1].rid = rid, v \in BytesOf(q[1].buf) PROVE FALSE
      BY <3>1, <3>2, <3>4 DEF OnceLent
    <3> QED  BY <3>3, <3>4
  <2>2. ASSUME InQueue(q, rid, v), ~(q[1].rid = rid /\ v \in BytesOf(q[1].buf))
        PROVE  InQueue(r, rid, v)
    <3>1. PICK i \in 1 .. Len(q) : q[i].rid = rid /\ v \in BytesOf(q[i].buf)
      BY <2>2 DEF InQueue
    <3>2. i # 1  BY <2>2, <3>1
    <3>3. PICK j \in 1 .. Len(q) - 1 : j + 1 = i
      <4>1. i - 1 \in 1 .. Len(q) - 1 /\ (i - 1) + 1 = i  BY <1>1, <3>2
      <4> QED  BY <4>1
    <3>4. j \in 1 .. Len(r) /\ r[j] = q[i]  BY <1>1, <3>3
    <3> QED  BY <3>1, <3>4 DEF InQueue
  <2> QED  BY <2>1, <2>2
<1>4. ASSUME NEW v \in BytesOf(q[1].buf) PROVE InQueue(q, q[1].rid, v)
  <2>1. 1 \in 1 .. Len(q)  BY <1>1
  <2> QED  BY <2>1 DEF InQueue
<1> QED  BY <1>1, <1>2, <1>3, <1>4 DEF r

(***************************************************************************)
(* Each way a list of entries or the queue changes.                        *)
(***************************************************************************)

(* An entry is appended, one of a region registered here with all of its   *)
(* memory.                                                                 *)
LEMMA FitAppendEntry ==
  ASSUME NEW s, NEW q, Fit(s, q), NEW r \in Entries,
         r.rid \in OwnRids => OwnEntry(r) /\ IsWhole(r)
  PROVE  Fit(Append(s, r), q)
<1> DEFINE u == Append(s, r)
<1>0. /\ s \in Seq(Entries) /\ q \in Seq(Descs)
      /\ OwnEntries(s) /\ LaterWhole(s) /\ Exact(s, q) /\ OnceLent(q)
  BY DEF Fit
<1>1. /\ u \in Seq(Entries) /\ Len(u) = Len(s) + 1 /\ u[Len(s) + 1] = r /\ Len(s) \in Nat
      /\ \A k \in 1 .. Len(s) : u[k] = s[k]
  BY <1>0
<1> HIDE DEF u
<1>2. \A k : k \in 1 .. Len(u) <=> k \in 1 .. Len(s) \/ k = Len(s) + 1  BY <1>1
<1>3. OwnEntries(u)  BY <1>0, <1>1, <1>2 DEF OwnEntries
<1>4. LaterWhole(u)
  <2> SUFFICES ASSUME NEW j \in 1 .. Len(u), NEW k \in 1 .. Len(u), j < k,
                      u[j].rid = u[k].rid, u[k].rid \in OwnRids
               PROVE  IsWhole(u[k])
    BY DEF LaterWhole
  <2>1. CASE k = Len(s) + 1  BY <1>1, <2>1
  <2>2. CASE k \in 1 .. Len(s)
    <3>1. j \in 1 .. Len(s)  BY <1>1, <2>2
    <3> QED  BY <1>0, <1>1, <2>2, <3>1 DEF LaterWhole
  <2> QED  BY <1>2, <2>1, <2>2
<1>5. Exact(u, q)
  <2> SUFFICES ASSUME NEW rid \in OwnRids
               PROVE  /\ (\A k \in 1 .. Len(u) : u[k].rid # rid) => \A v : ~InQueue(q, rid, v)
                      /\ \A k : FirstOf(u, k, rid) =>
                           \A v : v \in Listed(u[k].buffers) <=> v \in Bytes /\ ~InQueue(q, rid, v)
    BY DEF Exact
  <2>1. /\ (\A k \in 1 .. Len(s) : s[k].rid # rid) => \A v : ~InQueue(q, rid, v)
        /\ \A k : FirstOf(s, k, rid) =>
             \A v : v \in Listed(s[k].buffers) <=> v \in Bytes /\ ~InQueue(q, rid, v)
    BY <1>0 DEF Exact
  <2>2. (\A k \in 1 .. Len(u) : u[k].rid # rid) => \A k \in 1 .. Len(s) : s[k].rid # rid
    BY <1>1, <1>2
  <2>3. ASSUME NEW k, FirstOf(u, k, rid), NEW v
        PROVE  v \in Listed(u[k].buffers) <=> v \in Bytes /\ ~InQueue(q, rid, v)
    <3>0. k \in 1 .. Len(u) /\ u[k].rid = rid /\ \A j \in 1 .. k - 1 : u[j].rid # rid
      BY <2>3 DEF FirstOf
    <3>1. CASE k \in 1 .. Len(s)
      <4>1. \A j \in 1 .. k - 1 : j \in 1 .. Len(s)  BY <1>1, <3>1
      <4>2. FirstOf(s, k, rid)  BY <1>1, <3>0, <3>1, <4>1 DEF FirstOf
      <4> QED  BY <1>1, <2>1, <3>1, <4>2
    <3>2. CASE k = Len(s) + 1
      <4>1. k - 1 = Len(s)  BY <1>1, <3>2
      <4>2. \A j \in 1 .. Len(s) : s[j].rid # rid  BY <1>1, <3>0, <4>1
      <4>3. ~InQueue(q, rid, v)  BY <2>1, <4>2
      <4>4. r.rid = rid /\ u[k] = r  BY <1>1, <3>0, <3>2
      <4>5. r.buffers = <<[offset |-> 0, length |-> RegionLen]>>
        BY <4>4 DEF OwnEntry, IsWhole
      <4>6. v \in Listed(r.buffers) <=> v \in Bytes  BY <4>5, WholeIs
      <4> QED  BY <4>3, <4>4, <4>6
    <3> QED  BY <1>2, <3>0, <3>1, <3>2
  <2> QED  BY <2>1, <2>2, <2>3
<1> QED  BY <1>0, <1>1, <1>3, <1>4, <1>5 DEF Fit, u

(* The entry that find_region finds changes, together with the queue.      *)
LEMMA FitUpdate ==
  ASSUME NEW s, NEW q, Fit(s, q), NEW rid, NEW k, FirstOf(s, k, rid),
         NEW e \in Entries, e.rid = rid,
         NEW p \in Seq(Descs), OnceLent(p),
         \A o \in OwnRids : o # rid => \A v : InQueue(p, o, v) <=> InQueue(q, o, v),
         rid \in OwnRids =>
           /\ OwnEntry(e)
           /\ \A v : v \in Listed(e.buffers) <=> v \in Bytes /\ ~InQueue(p, rid, v)
  PROVE  Fit([s EXCEPT ![k] = e], p)
<1> DEFINE u == [s EXCEPT ![k] = e]
<1>0. /\ s \in Seq(Entries) /\ OwnEntries(s) /\ LaterWhole(s) /\ Exact(s, q)
  BY DEF Fit
<1>1. k \in 1 .. Len(s) /\ s[k].rid = rid /\ \A j \in 1 .. k - 1 : s[j].rid # rid
  BY DEF FirstOf
<1>2. /\ u \in Seq(Entries) /\ Len(u) = Len(s) /\ Len(s) \in Nat /\ u[k] = e
      /\ \A j \in 1 .. Len(s) : j # k => u[j] = s[j]
  <2>1. Len(s) \in Nat /\ DOMAIN s = 1 .. Len(s) /\ s \in [1 .. Len(s) -> Entries]  BY <1>0
  <2>2. u \in [1 .. Len(s) -> Entries]  BY <1>1, <2>1
  <2>3. u \in Seq(Entries) /\ Len(u) = Len(s)  BY <2>1, <2>2
  <2> QED  BY <1>1, <2>1, <2>3
<1> HIDE DEF u
<1>3. \A j \in 1 .. Len(s) : u[j].rid = s[j].rid  BY <1>1, <1>2
<1>4. OwnEntries(u)  BY <1>0, <1>1, <1>2 DEF OwnEntries
<1>5. LaterWhole(u)
  <2> SUFFICES ASSUME NEW i \in 1 .. Len(s), NEW j \in 1 .. Len(s), i < j,
                      s[i].rid = s[j].rid, s[j].rid \in OwnRids
               PROVE  IsWhole(u[j])
    BY <1>2, <1>3 DEF LaterWhole
  <2>1. j # k
    <3>1. j = k => i \in 1 .. k - 1  BY <1>2
    <3> QED  BY <1>1, <3>1
  <2> QED  BY <1>0, <1>2, <2>1 DEF LaterWhole
<1>6. \A o, j : FirstOf(u, j, o) => FirstOf(s, j, o)
  <2> SUFFICES ASSUME NEW o, NEW j, FirstOf(u, j, o) PROVE FirstOf(s, j, o)  OBVIOUS
  <2>1. j \in 1 .. Len(s) /\ u[j].rid = o /\ \A i \in 1 .. j - 1 : u[i].rid # o
    BY <1>2 DEF FirstOf
  <2>2. \A i \in 1 .. j - 1 : i \in 1 .. Len(s)  BY <1>2, <2>1
  <2> QED  BY <1>3, <2>1, <2>2 DEF FirstOf
<1>7. Exact(u, p)
  <2> SUFFICES ASSUME NEW o \in OwnRids
               PROVE  /\ (\A j \in 1 .. Len(u) : u[j].rid # o) => \A v : ~InQueue(p, o, v)
                      /\ \A j : FirstOf(u, j, o) =>
                           \A v : v \in Listed(u[j].buffers) <=> v \in Bytes /\ ~InQueue(p, o, v)
    BY DEF Exact
  <2>1. /\ (\A j \in 1 .. Len(s) : s[j].rid # o) => \A v : ~InQueue(q, o, v)
        /\ \A j : FirstOf(s, j, o) =>
             \A v : v \in Listed(s[j].buffers) <=> v \in Bytes /\ ~InQueue(q, o, v)
    BY <1>0 DEF Exact
  <2>2. CASE o = rid
    <3>1. ~\A j \in 1 .. Len(u) : u[j].rid # o  BY <1>1, <1>2, <1>3, <2>2
    <3>2. ASSUME NEW j, FirstOf(u, j, o) PROVE j = k
      <4>1. FirstOf(s, j, o)  BY <1>6, <3>2
      <4>2. j \in 1 .. Len(s) /\ s[j].rid = o /\ \A i \in 1 .. j - 1 : s[i].rid # o
        BY <4>1 DEF FirstOf
      <4>3. j < k => j \in 1 .. k - 1  BY <1>1, <1>2, <4>2
      <4>4. k < j => k \in 1 .. j - 1  BY <1>1, <1>2, <4>2
      <4>5. ~(j < k) /\ ~(k < j)  BY <1>1, <2>2, <4>2, <4>3, <4>4
      <4> QED  BY <1>1, <1>2, <4>2, <4>5
    <3> QED  BY <1>2, <2>2, <3>1, <3>2
  <2>3. CASE o # rid
    <3>1. \A v : InQueue(p, o, v) <=> InQueue(q, o, v)  BY <2>3
    <3>2. (\A j \in 1 .. Len(u) : u[j].rid # o) => \A v : ~InQueue(p, o, v)
      BY <1>2, <1>3, <2>1, <3>1
    <3>3. ASSUME NEW j, FirstOf(u, j, o), NEW v
          PROVE  v \in Listed(u[j].buffers) <=> v \in Bytes /\ ~InQueue(p, o, v)
      <4>1. FirstOf(s, j, o)  BY <1>6, <3>3
      <4>2. j \in 1 .. Len(s) /\ s[j].rid = o  BY <4>1 DEF FirstOf
      <4>3. u[j] = s[j]  BY <1>1, <1>2, <2>3, <4>2
      <4> QED  BY <2>1, <3>1, <4>1, <4>3
    <3> QED  BY <3>2, <3>3
  <2> QED  BY <2>2, <2>3
<1> QED  BY <1>2, <1>4, <1>5, <1>7 DEF Fit, u

(* A descriptor of another endpoint's region enters the queue. *)
LEMMA FitSendForeign ==
  ASSUME NEW s, NEW q, Fit(s, q), NEW m \in Descs, m.rid \notin OwnRids
  PROVE  Fit(s, Append(q, m))
<1> DEFINE p == Append(q, m)
<1>0. /\ s \in Seq(Entries) /\ q \in Seq(Descs)
      /\ OwnEntries(s) /\ LaterWhole(s) /\ Exact(s, q) /\ OnceLent(q)
  BY DEF Fit
<1>1. /\ p \in Seq(Descs)
      /\ \A rid, v : InQueue(p, rid, v) <=>
                       InQueue(q, rid, v) \/ (m.rid = rid /\ v \in BytesOf(m.buf))
  BY <1>0, QueueAppend
<1>2. /\ Len(p) = Len(q) + 1 /\ p[Len(q) + 1] = m /\ Len(q) \in Nat
      /\ \A i \in 1 .. Len(q) : p[i] = q[i]
  BY <1>0
<1> HIDE DEF p
<1>3. OnceLent(p)
  <2> SUFFICES ASSUME NEW i \in 1 .. Len(p), NEW j \in 1 .. Len(p), i < j,
                      p[i].rid = p[j].rid, p[i].rid \in OwnRids,
                      NEW v \in BytesOf(p[i].buf)
               PROVE  v \notin BytesOf(p[j].buf)
    BY DEF OnceLent
  <2>1. i # Len(q) + 1 /\ j # Len(q) + 1  BY <1>2
  <2>2. i \in 1 .. Len(q) /\ j \in 1 .. Len(q)  BY <1>2, <2>1
  <2> QED  BY <1>0, <1>2, <2>2 DEF OnceLent
<1>4. \A rid \in OwnRids : \A v : InQueue(p, rid, v) <=> InQueue(q, rid, v)  BY <1>1
<1>5. Exact(s, p)  BY <1>0, <1>4 DEF Exact
<1> QED  BY <1>0, <1>1, <1>3, <1>5 DEF Fit, p

(* A descriptor of another endpoint's region leaves the queue. *)
LEMMA FitTailForeign ==
  ASSUME NEW s, NEW q, Fit(s, q), q # << >>, Head(q).rid \notin OwnRids
  PROVE  Fit(s, Tail(q))
<1>0. /\ s \in Seq(Entries) /\ q \in Seq(Descs)
      /\ OwnEntries(s) /\ LaterWhole(s) /\ Exact(s, q) /\ OnceLent(q)
  BY DEF Fit
<1>1. /\ Tail(q) \in Seq(Descs) /\ OnceLent(Tail(q))
      /\ \A rid \in OwnRids : \A v : InQueue(Tail(q), rid, v) <=> InQueue(q, rid, v)
  BY <1>0, QueueTail
<1>2. Exact(s, Tail(q))  BY <1>0, <1>1 DEF Exact
<1> QED  BY <1>0, <1>1, <1>2 DEF Fit

(* debug_deregister removes an entry whose region is all here again. *)
LEMMA FitRemove ==
  ASSUME NEW s, NEW q, Fit(s, q), NEW rid, NEW k, FirstOf(s, k, rid), IsWhole(s[k])
  PROVE  Fit(Splice(s, k, k, << >>), q)
<1> DEFINE u == Splice(s, k, k, << >>)
           old(x) == IF x < k THEN x ELSE x + 1
<1>0. /\ s \in Seq(Entries) /\ q \in Seq(Descs)
      /\ OwnEntries(s) /\ LaterWhole(s) /\ Exact(s, q) /\ OnceLent(q)
  BY DEF Fit
<1>1. k \in 1 .. Len(s) /\ s[k].rid = rid /\ (\A j \in 1 .. k - 1 : s[j].rid # rid)
      /\ Len(s) \in Nat
  BY <1>0 DEF FirstOf
<1>2. << >> \in Seq(Entries) /\ Len(<< >>) = 0 /\ k \in k - 1 .. Len(s)  BY <1>1
<1>3. Spliced(u, s, k, k, << >>, Entries)  BY <1>0, <1>1, <1>2, SpliceIs
<1> HIDE DEF u
<1>4. u \in Seq(Entries) /\ Len(u) = Len(s) - 1 /\ Len(u) \in Nat
      /\ (\A x \in 1 .. k - 1 : u[x] = s[x])
  BY <1>1, <1>2, <1>3 DEF Spliced
<1>5. ASSUME NEW x \in k .. Len(u) PROVE u[x] = s[x + 1]
  <2>1. x + 1 \in k + 1 .. Len(s) /\ (k - 1) + 0 + ((x + 1) - k) = x  BY <1>1, <1>4
  <2>2. u[(k - 1) + 0 + ((x + 1) - k)] = s[x + 1]  BY <1>2, <1>3, <2>1 DEF Spliced
  <2> QED  BY <2>1, <2>2
<1>6. ASSUME NEW x \in 1 .. Len(u)
      PROVE  old(x) \in 1 .. Len(s) /\ old(x) # k /\ u[x] = s[old(x)]
  <2>1. CASE x < k  BY <1>1, <1>4, <2>1
  <2>2. CASE ~(x < k)
    <3>1. x \in k .. Len(u)  BY <1>1, <1>4, <2>2
    <3>2. u[x] = s[x + 1]  BY <1>5, <3>1
    <3> QED  BY <1>1, <1>4, <2>2, <3>2
  <2> QED  BY <2>1, <2>2
<1>7. ASSUME NEW y \in 1 .. Len(s), y # k PROVE \E x \in 1 .. Len(u) : old(x) = y
  <2>1. CASE y < k
    <3>1. y \in 1 .. Len(u) /\ old(y) = y  BY <1>1, <1>4, <2>1
    <3> QED  BY <3>1
  <2>2. CASE y > k
    <3>1. y - 1 \in 1 .. Len(u) /\ old(y - 1) = y  BY <1>1, <1>4, <2>2
    <3> QED  BY <3>1
  <2> QED  BY <1>1, <1>7, <2>1, <2>2
<1>8. \A x, y \in 1 .. Len(u) : x < y <=> old(x) < old(y)  BY <1>1, <1>4
<1> HIDE DEF old
<1>9. OwnEntries(u)  BY <1>0, <1>6 DEF OwnEntries
<1>10. LaterWhole(u)
  <2> SUFFICES ASSUME NEW i \in 1 .. Len(u), NEW j \in 1 .. Len(u), i < j,
                      u[i].rid = u[j].rid, u[j].rid \in OwnRids
               PROVE  IsWhole(u[j])
    BY DEF LaterWhole
  <2> QED  BY <1>0, <1>6, <1>8 DEF LaterWhole
<1>11. rid \in OwnRids => \A v : ~InQueue(q, rid, v)
  <2> SUFFICES ASSUME rid \in OwnRids, NEW v, InQueue(q, rid, v) PROVE FALSE  OBVIOUS
  <2>1. v \in Listed(s[k].buffers) <=> v \in Bytes /\ ~InQueue(q, rid, v)
    BY <1>0 DEF Exact
  <2>2. s[k].buffers = <<[offset |-> 0, length |-> RegionLen]>>
    BY <1>0, <1>1 DEF OwnEntries, OwnEntry, IsWhole
  <2>3. v \in Listed(s[k].buffers) <=> v \in Bytes  BY <2>2, WholeIs
  <2>4. PICK i \in 1 .. Len(q) : v \in BytesOf(q[i].buf)  BY DEF InQueue
  <2>5. q[i] \in Descs  BY <1>0
  <2>6. v \in Bytes  BY <2>4, <2>5, DescIs, BufIs
  <2> QED  BY <2>1, <2>3, <2>6
<1>12. Exact(u, q)
  <2> SUFFICES ASSUME NEW o \in OwnRids
               PROVE  /\ (\A j \in 1 .. Len(u) : u[j].rid # o) => \A v : ~InQueue(q, o, v)
                      /\ \A j : FirstOf(u, j, o) =>
                           \A v : v \in Listed(u[j].buffers) <=> v \in Bytes /\ ~InQueue(q, o, v)
    BY DEF Exact
  <2>1. /\ (\A j \in 1 .. Len(s) : s[j].rid # o) => \A v : ~InQueue(q, o, v)
        /\ \A j : FirstOf(s, j, o) =>
             \A v : v \in Listed(s[j].buffers) <=> v \in Bytes /\ ~InQueue(q, o, v)
    BY <1>0 DEF Exact
  <2>2. CASE o = rid
    <3>1. ASSUME NEW j, FirstOf(u, j, o), NEW v
          PROVE  v \in Listed(u[j].buffers) <=> v \in Bytes /\ ~InQueue(q, o, v)
      <4>1. j \in 1 .. Len(u) /\ u[j].rid = o  BY <3>1 DEF FirstOf
      <4>2. old(j) \in 1 .. Len(s) /\ old(j) # k /\ u[j] = s[old(j)]  BY <1>6, <4>1
      <4>3. ~(old(j) \in 1 .. k - 1)  BY <1>1, <2>2, <4>1, <4>2
      <4>4. k < old(j)  BY <1>1, <4>2, <4>3
      <4>5. IsWhole(s[old(j)])  BY <1>0, <1>1, <2>2, <4>1, <4>2, <4>4 DEF LaterWhole
      <4>6. u[j].buffers = <<[offset |-> 0, length |-> RegionLen]>>
        BY <1>9, <4>1, <4>2, <4>5 DEF OwnEntries, OwnEntry, IsWhole
      <4>7. v \in Listed(u[j].buffers) <=> v \in Bytes  BY <4>6, WholeIs
      <4> QED  BY <1>11, <2>2, <4>7
    <3> QED  BY <1>11, <2>2, <3>1
  <2>3. CASE o # rid
    <3>1. (\A j \in 1 .. Len(u) : u[j].rid # o) => \A v : ~InQueue(q, o, v)
      <4> SUFFICES ASSUME \A j \in 1 .. Len(u) : u[j].rid # o
                   PROVE  \A j \in 1 .. Len(s) : s[j].rid # o
        BY <2>1
      <4> SUFFICES ASSUME NEW j \in 1 .. Len(s) PROVE s[j].rid # o  OBVIOUS
      <4>1. CASE j = k  BY <1>1, <2>3, <4>1
      <4>2. CASE j # k
        <5>1. PICK x \in 1 .. Len(u) : old(x) = j  BY <1>7, <4>2
        <5> QED  BY <1>6, <5>1
      <4> QED  BY <4>1, <4>2
    <3>2. ASSUME NEW j, FirstOf(u, j, o), NEW v
          PROVE  v \in Listed(u[j].buffers) <=> v \in Bytes /\ ~InQueue(q, o, v)
      <4>1. j \in 1 .. Len(u) /\ u[j].rid = o /\ \A i \in 1 .. j - 1 : u[i].rid # o
        BY <3>2 DEF FirstOf
      <4>2. old(j) \in 1 .. Len(s) /\ u[j] = s[old(j)]  BY <1>6, <4>1
      <4>3. ASSUME NEW i \in 1 .. old(j) - 1, s[i].rid = o PROVE FALSE
        <5>1. i \in 1 .. Len(s) /\ i < old(j) /\ i # k  BY <1>1, <2>3, <4>2, <4>3
        <5>2. PICK x \in 1 .. Len(u) : old(x) = i  BY <1>7, <5>1
        <5>3. x < j /\ u[x] = s[i]  BY <1>6, <1>8, <4>1, <5>1, <5>2
        <5>4. x \in 1 .. j - 1  BY <1>4, <4>1, <5>3
        <5> QED  BY <4>1, <4>3, <5>3, <5>4
      <4>4. FirstOf(s, old(j), o)  BY <4>1, <4>2, <4>3 DEF FirstOf
      <4> QED  BY <2>1, <4>2, <4>4
    <3> QED  BY <3>1, <3>2
  <2> QED  BY <2>2, <2>3
<1> QED  BY <1>0, <1>4, <1>9, <1>10, <1>12 DEF Fit, u

(***************************************************************************)
(* The lists of every region, the other endpoint's too, are lists of       *)
(* chunks.                                                                 *)
(***************************************************************************)

(* find_region returns the first entry of an id. *)
LEMMA FindRegionIs ==
  ASSUME regions \in Seq(Entries), NEW rid
  PROVE  \/ FindRegion(rid) = 0 /\ \A k \in 1 .. Len(regions) : regions[k].rid # rid
         \/ FindRegion(rid) # 0 /\ FirstOf(regions, FindRegion(rid), rid)
<1> DEFINE hits == {k \in DOMAIN regions : regions[k].rid = rid}
<1>1. DOMAIN regions = 1 .. Len(regions) /\ Len(regions) \in Nat  OBVIOUS
<1>2. CASE hits = {}
  <2>1. FindRegion(rid) = 0  BY <1>2 DEF FindRegion
  <2> QED  BY <1>1, <1>2, <2>1
<1>3. CASE hits # {}
  <2>1. FindRegion(rid) = CHOOSE k \in hits : \A j \in hits : k <= j
    BY <1>3 DEF FindRegion
  <2>2. hits \subseteq Nat  BY <1>1
  <2>3. \E k \in hits : \A j \in hits : k <= j
    <3> HIDE DEF hits
    <3> QED  BY <1>3, <2>2, LeastNumber
  <2>4. PICK k : k = FindRegion(rid)  OBVIOUS
  <2>5. k \in hits /\ \A j \in hits : k <= j
    <3> HIDE DEF hits
    <3> QED  BY <2>1, <2>3, <2>4
  <2>6. k \in 1 .. Len(regions) /\ regions[k].rid = rid  BY <1>1, <2>5
  <2>7. ASSUME NEW j \in 1 .. k - 1 PROVE regions[j].rid # rid
    <3>1. j \in 1 .. Len(regions) /\ ~(k <= j)  BY <1>1, <2>6
    <3> QED  BY <1>1, <2>5, <3>1
  <2> QED  BY <2>4, <2>6, <2>7 DEF FirstOf
<1> QED  BY <1>2, <1>3

(* The search of debug_dequeue ends inside the list. *)
LEMMA PositionInList ==
  ASSUME NEW cs \in Seq(Chunks), cs # << >>, NEW b
  PROVE  Position(cs, b) \in 1 .. Len(cs)
<1> DEFINE beyond == {i \in 1 .. Len(cs) - 1 : b.offset < cs[i].offset}
<1>1. Len(cs) \in Nat /\ Len(cs) # 0  OBVIOUS
<1>2. CASE beyond = {}
  <2>1. Position(cs, b) = Len(cs)  BY <1>2 DEF Position
  <2> QED  BY <1>1, <2>1
<1>3. CASE beyond # {}
  <2>1. Position(cs, b) = CHOOSE i \in beyond : \A j \in beyond : i <= j
    BY <1>3 DEF Position
  <2>2. beyond \subseteq Nat  BY <1>1
  <2>3. \A x \in beyond : x \in 1 .. Len(cs)  BY <1>1
  <2> HIDE DEF beyond
  <2>4. \E i \in beyond : \A j \in beyond : i <= j  BY <1>3, <2>2, LeastNumber
  <2>5. Position(cs, b) \in beyond  BY <2>1, <2>4
  <2> QED  BY <2>3, <2>5
<1> QED  BY <1>2, <1>3

(* insert_merge_buffer makes a list of chunks, whatever it is given. *)
LEMMA InsertMergeType ==
  ASSUME NEW cs \in Seq(Chunks), NEW i \in 1 .. Len(cs), NEW b \in Chunks
  PROVE  InsertMerge(cs, i, b) \in Seq(Chunks)
<1>1. Len(cs) \in Nat /\ cs[i] \in Chunks  OBVIOUS
<1>2. \A c, d \in Chunks : Join(c, d) \in Chunks
  <2> TAKE c, d \in Chunks
  <2>1. c.offset \in Int /\ c.length \in Int /\ d.length \in Int  BY ChunkIs
  <2>2. c.length + d.length \in Int  BY <2>1
  <2> QED  BY <2>1, <2>2 DEF Join, Chunks
<1>3. ASSUME NEW h \in {i - 1, i}, h # 0, NEW j \in {h, i}, NEW t \in Seq(Chunks)
      PROVE  Splice(cs, h, j, t) \in Seq(Chunks)
  <2>1. h \in 1 .. Len(cs) /\ j \in h - 1 .. Len(cs)  BY <1>1, <1>3
  <2> QED  BY <2>1, SpliceIs DEF Spliced
<1>4. \A c \in Chunks : <<c>> \in Seq(Chunks)  OBVIOUS
<1>5. \A c, d \in Chunks : <<c, d>> \in Seq(Chunks)  OBVIOUS
<1>6. i # 0 /\ (i > 1 => i - 1 # 0 /\ cs[i - 1] \in Chunks)  BY <1>1
<1>7. InsertAfter(cs, i, b) \in Seq(Chunks)
  <2>1. Splice(cs, i, i, <<Join(cs[i], b)>>) \in Seq(Chunks)
    <3>1. <<Join(cs[i], b)>> \in Seq(Chunks)  BY <1>1, <1>2, <1>4
    <3> QED  BY <1>3, <1>6, <3>1
  <2>2. Splice(cs, i, i, <<cs[i], b>>) \in Seq(Chunks)
    <3>1. <<cs[i], b>> \in Seq(Chunks)  BY <1>1, <1>5
    <3> QED  BY <1>3, <1>6, <3>1
  <2> QED  BY <2>1, <2>2, Zenon DEF InsertAfter
<1>8. InsertBefore(cs, i, b) \in Seq(Chunks)
  <2> DEFINE low  == i > 1 /\ Joins(cs[i - 1], b)
             high == Joins(b, cs[i])
  <2>1. ASSUME low PROVE Splice(cs, i - 1, i, <<Join(Join(cs[i - 1], b), cs[i])>>) \in Seq(Chunks)
    <3>1. <<Join(Join(cs[i - 1], b), cs[i])>> \in Seq(Chunks)  BY <1>1, <1>2, <1>4, <1>6, <2>1
    <3> QED  BY <1>3, <1>6, <2>1, <3>1
  <2>2. Splice(cs, i, i, <<Join(b, cs[i])>>) \in Seq(Chunks)
    <3>1. <<Join(b, cs[i])>> \in Seq(Chunks)  BY <1>1, <1>2, <1>4
    <3> QED  BY <1>3, <1>6, <3>1
  <2>3. ASSUME low PROVE Splice(cs, i - 1, i - 1, <<Join(cs[i - 1], b)>>) \in Seq(Chunks)
    <3>1. <<Join(cs[i - 1], b)>> \in Seq(Chunks)  BY <1>1, <1>2, <1>4, <1>6, <2>3
    <3> QED  BY <1>3, <1>6, <2>3, <3>1
  <2>4. Splice(cs, i, i, <<b, cs[i]>>) \in Seq(Chunks)
    <3>1. <<b, cs[i]>> \in Seq(Chunks)  BY <1>1, <1>5
    <3> QED  BY <1>3, <1>6, <3>1
  <2>5. CASE low /\ high
    <3>1. InsertBefore(cs, i, b) = Splice(cs, i - 1, i, <<Join(Join(cs[i - 1], b), cs[i])>>)
      BY <2>5 DEF InsertBefore
    <3> QED  BY <2>1, <2>5, <3>1
  <2>6. CASE ~low /\ high
    <3>1. InsertBefore(cs, i, b) = Splice(cs, i, i, <<Join(b, cs[i])>>)
      BY <2>6 DEF InsertBefore
    <3> QED  BY <2>2, <3>1
  <2>7. CASE low /\ ~high
    <3>1. InsertBefore(cs, i, b) = Splice(cs, i - 1, i - 1, <<Join(cs[i - 1], b)>>)
      BY <2>7 DEF InsertBefore
    <3> QED  BY <2>3, <2>7, <3>1
  <2>8. CASE ~low /\ ~high
    <3>1. InsertBefore(cs, i, b) = Splice(cs, i, i, <<b, cs[i]>>)
      BY <2>8 DEF InsertBefore
    <3> QED  BY <2>4, <3>1
  <2> QED  BY <2>5, <2>6, <2>7, <2>8
<1> QED  BY <1>7, <1>8 DEF InsertMerge

(***************************************************************************)
(* A buffer leaves the lists, and comes back.                              *)
(***************************************************************************)

(* All buffers have the same length, as the tests and the benchmarks use   *)
(* them.                                                                   *)
OneLength == \A b, c \in Bufs : b.length = c.length

(* debug_enqueue: the chunk that contains the buffer loses it, and the     *)
(* buffer is in the queue.                                                 *)
LEMMA FitEnqueue ==
  ASSUME NEW s, NEW q, Fit(s, q), NEW rid \in Rids, NEW b \in Bufs,
         NEW k, FirstOf(s, k, rid),
         NEW i \in 1 .. Len(s[k].buffers), InBounds(b, s[k].buffers[i])
  PROVE  Fit([s EXCEPT ![k].buffers = Splice(@, i, i, Remains(@[i], b))],
             Append(q, [rid |-> rid, buf |-> b]))
<1>0. /\ s \in Seq(Entries) /\ q \in Seq(Descs)
      /\ OwnEntries(s) /\ LaterWhole(s) /\ Exact(s, q) /\ OnceLent(q)
  BY DEF Fit
<1>1. k \in 1 .. Len(s) /\ s[k].rid = rid /\ s[k] \in Entries /\ Len(s) \in Nat
  BY <1>0 DEF FirstOf
<1>2. PICK cs : cs = s[k].buffers /\ cs \in Seq(Chunks)  BY <1>1 DEF Entries
<1>3. b \in Chunks /\ b.length > 0  BY BufIs
<1>4. PICK c \in Chunks : c = cs[i]  BY <1>2
<1>5. c.length > 0
  <2>1. b.length <= c.length  BY <1>2, <1>4 DEF InBounds
  <2> QED  BY <1>3, <1>4, <2>1, ChunkIs
<1>6. PICK t \in Seq(Chunks) : t = Splice(cs, i, i, Remains(cs[i], b))
  <2>1. Remains(c, b) \in Seq(Chunks)
    BY <1>2, <1>3, <1>4, <1>5, RemainsIs, Zenon DEF CutOut, Merged
  <2>2. Len(cs) \in Nat /\ i \in 1 .. Len(cs) /\ i \in i - 1 .. Len(cs)  BY <1>2
  <2>3. Spliced(Splice(cs, i, i, Remains(cs[i], b)), cs, i, i, Remains(cs[i], b), Chunks)
    BY <1>2, <1>4, <2>1, <2>2, SpliceIs
  <2> QED  BY <2>3 DEF Spliced
<1>7. PICK e \in Entries : e = [s[k] EXCEPT !.buffers = t]
  BY <1>1 DEF Entries
<1>8. /\ e.rid = rid /\ e.length = s[k].length /\ e.not_consistent = s[k].not_consistent
      /\ e.buffers = t
  BY <1>1, <1>7 DEF Entries
<1>9. [s EXCEPT ![k].buffers = Splice(@, i, i, Remains(@[i], b))] = [s EXCEPT ![k] = e]
  BY <1>2, <1>6, <1>7
<1>10. PICK m \in Descs : m = [rid |-> rid, buf |-> b] /\ m.rid = rid /\ m.buf = b
  <2>1. [rid |-> rid, buf |-> b] \in Descs  BY DEF Descs
  <2> QED  BY <2>1
<1>11. PICK p \in Seq(Descs) :
         /\ p = Append(q, m)
         /\ \A o, v : InQueue(p, o, v) <=> InQueue(q, o, v) \/ (rid = o /\ v \in BytesOf(b))
  BY <1>0, <1>10, QueueAppend, ZenonT(60)
<1>12. ASSUME rid \in OwnRids
       PROVE  /\ Merged(cs) /\ OwnEntry(e) /\ \A v \in BytesOf(b) : ~InQueue(q, rid, v)
              /\ \A v : v \in Listed(e.buffers) <=> v \in Bytes /\ ~InQueue(p, rid, v)
  <2>1. OwnEntry(s[k])  BY <1>0, <1>1, <1>12 DEF OwnEntries
  <2>2. Merged(cs)  BY <1>2, <2>1 DEF OwnEntry
  <2>3. Merged(t) /\ Listed(t) = Listed(cs) \ BytesOf(b)
    BY <1>2, <1>3, <1>6, <2>2, TakeOut
  <2>4. \A v : v \in Listed(cs) <=> v \in Bytes /\ ~InQueue(q, rid, v)
    BY <1>0, <1>2, <1>12 DEF Exact
  <2>5. ASSUME NEW v \in BytesOf(b) PROVE v \in Listed(cs)
    <3>1. v \in BytesOf(c)
      <4>1. b.offset >= c.offset /\ EndOf(b) <= EndOf(c)  BY <1>2, <1>4 DEF InBounds
      <4>2. v \in Int /\ b.offset <= v /\ v < EndOf(b)  BY <1>3, ChunkIs
      <4>3. b.offset \in Int /\ c.offset \in Int /\ EndOf(b) \in Int /\ EndOf(c) \in Int
        BY <1>3, ChunkIs
      <4>4. c.offset <= v /\ v < EndOf(c)  BY <4>1, <4>2, <4>3
      <4> QED  BY <4>2, <4>4, ChunkIs
    <3>2. i \in 1 .. Len(cs) /\ v \in BytesOf(cs[i])  BY <1>2, <1>4, <3>1
    <3> QED  BY <2>2, <3>2, MergedIs
  <2>6. OwnEntry(e)  BY <1>8, <2>1, <2>3 DEF OwnEntry
  <2> QED  BY <1>8, <1>11, <2>2, <2>3, <2>4, <2>5, <2>6
<1>13. OnceLent(p)
  <2> SUFFICES ASSUME NEW x \in 1 .. Len(p), NEW y \in 1 .. Len(p), x < y,
                      p[x].rid = p[y].rid, p[x].rid \in OwnRids,
                      NEW v \in BytesOf(p[x].buf), v \in BytesOf(p[y].buf)
               PROVE  FALSE
    BY DEF OnceLent
  <2>1. /\ Len(p) = Len(q) + 1 /\ p[Len(q) + 1] = m /\ Len(q) \in Nat
        /\ \A z \in 1 .. Len(q) : p[z] = q[z]
    BY <1>0, <1>11
  <2>2. x \in 1 .. Len(q) /\ p[x] = q[x]  BY <2>1
  <2>3. CASE y \in 1 .. Len(q)
    <3>1. p[y] = q[y]  BY <2>1, <2>3
    <3> QED  BY <1>0, <2>2, <2>3, <3>1 DEF OnceLent
  <2>4. CASE y = Len(q) + 1
    <3>1. p[y].rid = rid /\ p[y].buf = b  BY <1>10, <2>1, <2>4
    <3>2. InQueue(q, rid, v)  BY <2>2, <3>1 DEF InQueue
    <3> QED  BY <1>12, <3>1, <3>2
  <2> QED  BY <2>1, <2>3, <2>4
<1>14. \A o \in OwnRids : o # rid => \A v : InQueue(p, o, v) <=> InQueue(q, o, v)
  BY <1>11
<1>15. Fit([s EXCEPT ![k] = e], p)
  BY <1>8, <1>12, <1>13, <1>14, FitUpdate
<1> QED  BY <1>9, <1>10, <1>11, <1>15

(* The first test of insert_merge_buffer takes the buffer's length for the *)
(* chunk's.  With buffers of one length it does not join what does not     *)
(* touch: the byte behind the chunk would be in the queue, in a buffer     *)
(* that reaches into this one.                                             *)
LEMMA NoFalseJoin ==
  ASSUME OneLength, NEW s, NEW q, Fit(s, q), q # << >>, Head(q).rid \in OwnRids,
         NEW k, FirstOf(s, k, Head(q).rid), s[k].buffers # << >>,
         NEW c, c = s[k].buffers[Len(s[k].buffers)],
         NEW b, b = Head(q).buf,
         EndOf(c) <= b.offset, c.offset + b.length = b.offset
  PROVE  Joins(c, b)
<1> SUFFICES ASSUME EndOf(c) # b.offset PROVE FALSE  BY DEF Joins
<1>0. /\ s \in Seq(Entries) /\ q \in Seq(Descs)
      /\ OwnEntries(s) /\ LaterWhole(s) /\ Exact(s, q) /\ OnceLent(q)
  BY DEF Fit
<1>1. PICK rid \in OwnRids : rid = Head(q).rid  OBVIOUS
<1>2. k \in 1 .. Len(s) /\ s[k].rid = rid  BY <1>1 DEF FirstOf
<1>3. PICK cs : cs = s[k].buffers /\ Merged(cs)
  BY <1>0, <1>2 DEF OwnEntries, OwnEntry
<1>4. /\ cs \in Seq(Chunks) /\ Len(cs) \in Nat
      /\ (\A i \in 1 .. Len(cs) : cs[i] \in Chunks /\ cs[i].length > 0)
      /\ (\A i, j \in 1 .. Len(cs) : i < j => EndOf(cs[i]) < cs[j].offset)
      /\ \A v : v \in Listed(cs) <=> \E i \in 1 .. Len(cs) : v \in BytesOf(cs[i])
  BY <1>3, MergedIs
<1>5. Len(cs) \in 1 .. Len(cs)  BY <1>3, <1>4
<1>6. c = cs[Len(cs)] /\ c \in Chunks /\ c.length > 0  BY <1>3, <1>4, <1>5
<1>7. q[1] = Head(q) /\ q[1] \in Descs /\ 1 \in 1 .. Len(q) /\ Len(q) \in Nat  BY <1>0
<1>8. b \in Bufs /\ b \in Chunks /\ b.length > 0  BY <1>7, DescIs
<1>9. \A v : v \in Listed(cs) <=> v \in Bytes /\ ~InQueue(q, rid, v)
  BY <1>0, <1>1, <1>3 DEF Exact
<1>10. /\ c.offset \in Int /\ c.length \in Int /\ EndOf(c) = c.offset + c.length
       /\ b.offset \in Int /\ b.length \in Int /\ EndOf(b) = b.offset + b.length
       /\ RegionLen \in Nat
  BY <1>6, <1>8, ChunkIs, DebugAssumption
<1>11. PICK w \in Int : w = EndOf(c)  BY <1>10
<1>12. c.offset <= w - 1 /\ w - 1 < w /\ w < b.offset  BY <1>6, <1>10, <1>11, SMTT(40)
<1>13. w - 1 \in Listed(cs) /\ w - 1 \in Bytes
  <2>1. w - 1 \in BytesOf(c)  BY <1>6, <1>11, <1>12, ChunkIs
  <2>2. w - 1 \in Listed(cs)  BY <1>4, <1>5, <1>6, <2>1
  <2> QED  BY <1>9, <2>2
<1>14. w \notin Listed(cs)
  <2> SUFFICES ASSUME NEW i \in 1 .. Len(cs), w \in BytesOf(cs[i]) PROVE FALSE  BY <1>4
  <2>1. cs[i] \in Chunks  BY <1>4
  <2>2. w < EndOf(cs[i]) /\ EndOf(cs[i]) \in Int  BY <2>1, ChunkIs
  <2>3. CASE i = Len(cs)  BY <1>6, <1>11, <2>2, <2>3
  <2>4. CASE i < Len(cs)
    <3>1. EndOf(cs[i]) < c.offset  BY <1>4, <1>5, <1>6, <2>4
    <3> QED  BY <1>10, <1>12, <2>2, <3>1
  <2> QED  BY <1>4, <2>3, <2>4
<1>15. b.offset \in BytesOf(b) /\ b.offset \in Bytes
  <2>1. b.offset \in BytesOf(b)  BY <1>8, <1>10, ChunkIs, SMTT(40)
  <2> QED  BY <1>8, <2>1, BufIs
<1>16. w \in Bytes  BY <1>10, <1>12, <1>13, <1>15 DEF Bytes
<1>17. PICK i \in 1 .. Len(q) : q[i].rid = rid /\ w \in BytesOf(q[i].buf)
  BY <1>9, <1>14, <1>16 DEF InQueue
<1>18. PICK d \in Bufs : d = q[i].buf /\ d \in Chunks
  <2>1. q[i] \in Descs  BY <1>0
  <2> QED  BY <2>1, DescIs
<1>19. /\ d.offset \in Int /\ d.offset <= w /\ w < EndOf(d) /\ EndOf(d) = d.offset + d.length
       /\ d.length = b.length
  BY <1>8, <1>17, <1>18, ChunkIs DEF OneLength
<1>20. d.offset = w
  <2> SUFFICES ASSUME d.offset # w PROVE FALSE  OBVIOUS
  <2>1. d.offset <= w - 1 /\ w - 1 < EndOf(d) /\ w - 1 \in Int  BY <1>10, <1>19, SMTT(40)
  <2>2. w - 1 \in BytesOf(d)  BY <1>18, <2>1, ChunkIs
  <2>3. InQueue(q, rid, w - 1)  BY <1>17, <1>18, <2>2 DEF InQueue
  <2> QED  BY <1>9, <1>13, <2>3
<1>21. b.offset \in BytesOf(d)
  <2>1. EndOf(d) = w + b.length  BY <1>19, <1>20
  <2>2. c.offset + b.length < w + b.length
    <3>1. \A x, y, z \in Int : x <= y - 1 => x + z < y + z  OBVIOUS
    <3> QED  BY <1>10, <1>11, <1>12, <3>1, Zenon
  <2>3. d.offset <= b.offset /\ b.offset < EndOf(d)  BY <1>10, <1>12, <1>20, <2>1, <2>2
  <2> QED  BY <1>10, <1>18, <2>3, ChunkIs
<1>22. i # 1  BY <1>7, <1>12, <1>18, <1>20
<1>23. 1 < i  BY <1>7, <1>22
<1>24. /\ q[1].rid = q[i].rid /\ q[1].rid \in OwnRids
       /\ b.offset \in BytesOf(q[1].buf) /\ b.offset \in BytesOf(q[i].buf)
  BY <1>1, <1>7, <1>15, <1>17, <1>18, <1>21
<1> QED  BY <1>0, <1>7, <1>23, <1>24 DEF OnceLent

(* debug_dequeue of a buffer whose region is in the list: the buffer joins *)
(* the chunks, and one of a region registered here is never found among    *)
(* them.                                                                   *)
LEMMA FitDequeue ==
  ASSUME OneLength, NEW s, NEW q, Fit(s, q), q # << >>,
         NEW m, m = Head(q), NEW k, FirstOf(s, k, m.rid),
         NEW cs, cs = s[k].buffers, NEW i, i = Position(cs, m.buf),
         NEW r \in Entries, r.rid = m.rid, r.buffers = cs,
         m.rid \in OwnRids => r = s[k]
  PROVE  /\ cs = << >> => Fit([s EXCEPT ![k] = [r EXCEPT !.buffers = <<m.buf>>]], Tail(q))
         /\ cs # << >> /\ InBounds(m.buf, cs[i]) =>
              m.rid \notin OwnRids /\ Fit([s EXCEPT ![k] = r], Tail(q))
         /\ cs # << >> /\ ~InBounds(m.buf, cs[i]) =>
              Fit([s EXCEPT ![k] = [r EXCEPT !.buffers = InsertMerge(cs, i, m.buf)]], Tail(q))
<1>0. /\ s \in Seq(Entries) /\ q \in Seq(Descs)
      /\ OwnEntries(s) /\ LaterWhole(s) /\ Exact(s, q) /\ OnceLent(q)
  BY DEF Fit
<1>1. k \in 1 .. Len(s) /\ s[k].rid = m.rid /\ s[k] \in Entries  BY <1>0 DEF FirstOf
<1>2. cs \in Seq(Chunks)  BY <1>1 DEF Entries
<1>3. PICK p \in Seq(Descs) :
        /\ p = Tail(q) /\ OnceLent(p) /\ m \in Descs
        /\ \A rid \in OwnRids : \A v :
             InQueue(p, rid, v) <=>
               InQueue(q, rid, v) /\ ~(m.rid = rid /\ v \in BytesOf(m.buf))
        /\ \A v \in BytesOf(m.buf) : InQueue(q, m.rid, v)
  BY <1>0, QueueTail
<1>4. PICK b \in Bufs : b = m.buf /\ b \in Chunks /\ b.length > 0  BY <1>3, DescIs
<1>5. \A rid \in OwnRids : rid # m.rid => \A v : InQueue(p, rid, v) <=> InQueue(q, rid, v)
  BY <1>3
<1>6. \A v \in BytesOf(b) : v \in Bytes  BY BufIs
<1>7. ASSUME m.rid \in OwnRids
      PROVE  /\ OwnEntry(r) /\ Merged(cs)
             /\ \A v \in BytesOf(b) : v \notin Listed(cs)
             /\ \A v : v \in Bytes /\ ~InQueue(p, m.rid, v) <=> v \in Listed(cs) \/ v \in BytesOf(b)
  <2>1. OwnEntry(r) /\ Merged(cs)  BY <1>0, <1>1, <1>7 DEF OwnEntries, OwnEntry
  <2>2. \A v : v \in Listed(cs) <=> v \in Bytes /\ ~InQueue(q, m.rid, v)
    BY <1>0, <1>7 DEF Exact
  <2>3. \A v : InQueue(p, m.rid, v) <=> InQueue(q, m.rid, v) /\ ~(v \in BytesOf(b))
    BY <1>3, <1>4, <1>7
  <2>4. \A v \in BytesOf(b) : InQueue(q, m.rid, v)  BY <1>3, <1>4
  <2> QED  BY <1>6, <2>1, <2>2, <2>3, <2>4
<1>8. ASSUME NEW t \in Seq(Chunks), m.rid \in OwnRids => PutIn(t, cs, b)
      PROVE  Fit([s EXCEPT ![k] = [r EXCEPT !.buffers = t]], p)
  <2>1. PICK e \in Entries : e = [r EXCEPT !.buffers = t]  BY DEF Entries
  <2>2. /\ e.rid = m.rid /\ e.length = r.length /\ e.not_consistent = r.not_consistent
        /\ e.buffers = t
    BY <2>1 DEF Entries
  <2>3. ASSUME m.rid \in OwnRids
        PROVE  /\ OwnEntry(e)
               /\ \A v : v \in Listed(e.buffers) <=> v \in Bytes /\ ~InQueue(p, m.rid, v)
    <3>1. Merged(t) /\ \A v : v \in Listed(t) <=> v \in Listed(cs) \/ v \in BytesOf(b)
      BY <1>8, <2>3 DEF PutIn
    <3>2. OwnEntry(e)  BY <1>7, <2>2, <2>3, <3>1 DEF OwnEntry
    <3> QED  BY <1>7, <2>2, <2>3, <3>1, <3>2
  <2>4. Fit([s EXCEPT ![k] = e], p)  BY <1>3, <1>5, <2>2, <2>3, FitUpdate
  <2> QED  BY <2>1, <2>4
<1>9. ASSUME cs = << >> PROVE Fit([s EXCEPT ![k] = [r EXCEPT !.buffers = <<b>>]], p)
  <2>1. <<b>> \in Seq(Chunks)  BY <1>4
  <2>2. PutIn(<<b>>, cs, b)
    <3>1. Merged(<<b>>) /\ Listed(<<b>>) = BytesOf(b) /\ Listed(cs) = {}
      BY <1>4, <1>9, FewChunks
    <3> QED  BY <3>1 DEF PutIn
  <2> QED  BY <1>8, <2>1, <2>2
<1>10. ASSUME cs # << >> PROVE i \in 1 .. Len(cs)
  BY <1>2, <1>10, PositionInList
<1>11. ASSUME cs # << >>, InBounds(b, cs[i])
       PROVE  m.rid \notin OwnRids /\ Fit([s EXCEPT ![k] = r], p)
  <2>1. ASSUME m.rid \in OwnRids PROVE FALSE
    <3>1. PICK c \in Chunks : c = cs[i]  BY <1>2, <1>10, <1>11
    <3>2. c.offset <= b.offset /\ EndOf(b) <= EndOf(c)
      <4>1. b.offset >= c.offset /\ EndOf(b) <= EndOf(c)  BY <1>11, <3>1 DEF InBounds
      <4> QED  BY <1>4, <3>1, <4>1, ChunkIs
    <3>3. b.offset \in Int /\ b.offset < EndOf(b) /\ EndOf(b) \in Int /\ EndOf(c) \in Int
      BY <1>4, <3>1, ChunkIs
    <3>4. b.offset < EndOf(c)  BY <3>2, <3>3
    <3>5. b.offset \in BytesOf(b) /\ b.offset \in BytesOf(c)
      BY <1>4, <3>2, <3>3, <3>4, ChunkIs
    <3>6. b.offset \in Listed(cs)
      BY <1>7, <1>10, <1>11, <2>1, <3>1, <3>5, MergedIs
    <3> QED  BY <1>7, <2>1, <3>5, <3>6
  <2>2. m.rid \notin OwnRids  BY <2>1
  <2>3. Fit([s EXCEPT ![k] = r], p)  BY <1>3, <1>5, <2>2, FitUpdate
  <2> QED  BY <2>2, <2>3
<1>12. ASSUME cs # << >>
       PROVE  Fit([s EXCEPT ![k] = [r EXCEPT !.buffers = InsertMerge(cs, i, b)]], p)
  <2>1. InsertMerge(cs, i, b) \in Seq(Chunks)
    BY <1>2, <1>4, <1>10, <1>12, InsertMergeType
  <2>2. ASSUME m.rid \in OwnRids PROVE PutIn(InsertMerge(cs, i, b), cs, b)
    <3>1. PICK c : c = cs[Len(cs)]  OBVIOUS
    <3>2. EndOf(c) <= b.offset /\ c.offset + b.length = b.offset => Joins(c, b)
      <4> SUFFICES ASSUME EndOf(c) <= b.offset, c.offset + b.length = b.offset
                   PROVE  Joins(c, b)
        OBVIOUS
      <4>1. Head(q).rid \in OwnRids /\ FirstOf(s, k, Head(q).rid)  BY <2>2
      <4>2. s[k].buffers # << >> /\ c = s[k].buffers[Len(s[k].buffers)] /\ b = Head(q).buf
        BY <1>4, <1>12, <3>1
      <4> QED  BY <4>1, <4>2, NoFalseJoin
    <3>3. Merged(cs) /\ \A v \in BytesOf(b) : v \notin Listed(cs)  BY <1>7, <2>2
    <3>4. PutIn(InsertMerge(cs, Position(cs, b), b), cs, b)
      BY <1>4, <1>12, <3>1, <3>2, <3>3, PutBack
    <3> QED  BY <1>4, <3>4
  <2> QED  BY <1>8, <2>1, <2>2
<1> QED  BY <1>3, <1>4, <1>9, <1>11, <1>12

(***************************************************************************)
(* The invariant: the lists fit the queue below as long as no other        *)
(* region's list was overwritten.  ReturnsAccepted then says of the last   *)
(* call what the lists say of the next one.                                *)
(***************************************************************************)

DebugInv == (~clobbered => Fit(regions, chan)) /\ ReturnsAccepted

(* The entry of a region that is all here. *)
LEMMA WholeEntry ==
  ASSUME NEW rid \in Rids, NEW len \in Int, NEW foreign \in BOOLEAN
  PROVE  /\ WholeRegion(rid, len, foreign) \in Entries
         /\ WholeRegion(rid, len, foreign).rid = rid
         /\ IsWhole(WholeRegion(rid, len, foreign))
         /\ len = RegionLen /\ foreign = FALSE => OwnEntry(WholeRegion(rid, len, foreign))
<1>1. [offset |-> 0, length |-> len] \in Chunks  BY DEF Chunks
<1>2. PICK cs \in Seq(Chunks) : cs = <<[offset |-> 0, length |-> len]>>
  <2>1. \A c \in Chunks : <<c>> \in Seq(Chunks)  OBVIOUS
  <2> QED  BY <1>1, <2>1
<1>3. PICK r : r = WholeRegion(rid, len, foreign)  OBVIOUS
<1>4. r = [rid |-> rid, length |-> len, not_consistent |-> foreign, buffers |-> cs]
  BY <1>2, <1>3 DEF WholeRegion
<1>5. r \in Entries  BY <1>4 DEF Entries
<1>6. r.rid = rid /\ r.length = len /\ r.not_consistent = foreign /\ r.buffers = cs
  BY <1>4
<1>7. IsWhole(r)  BY <1>2, <1>6 DEF IsWhole
<1>8. len = RegionLen /\ foreign = FALSE => OwnEntry(r)
  BY <1>2, <1>6, WholeIs DEF OwnEntry
<1> QED  BY <1>3, <1>5, <1>6, <1>7, <1>8

(* The empty lists of debug_create. *)
LEMMA DebugInitInv == DebugInit => DebugInv
<1> SUFFICES ASSUME DebugInit PROVE DebugInv  OBVIOUS
<1>1. regions = << >> /\ chan = << >> /\ ret = "OK"  BY DEF DebugInit, Below!Init
<1>2. << >> \in Seq(Entries) /\ << >> \in Seq(Descs) /\ Len(<< >>) = 0  OBVIOUS
<1>3. \A x : x \notin 1 .. 0  OBVIOUS
<1>4. OwnEntries(<< >>) /\ LaterWhole(<< >>) /\ OnceLent(<< >>)
  BY <1>2, <1>3 DEF OwnEntries, LaterWhole, OnceLent
<1>5. Exact(<< >>, << >>)  BY <1>2, <1>3 DEF Exact, InQueue, FirstOf
<1>6. Fit(<< >>, << >>)  BY <1>2, <1>4, <1>5 DEF Fit
<1>7. ret # "BUFFER_NOT_IN_USE"  BY <1>1
<1> QED  BY <1>1, <1>6, <1>7 DEF DebugInv, ReturnsAccepted

(* debug_register. *)
LEMMA RegisterKeepsInv ==
  ASSUME DebugInv, NEW rid \in OwnRids, Register(rid)
  PROVE  DebugInv'
<1>1. Fit(regions, chan)  BY DEF DebugInv, Register, Running
<1>2. RegionLen \in Int /\ rid \in Rids  BY DebugAssumption DEF Rids
<1>3. PICK r \in Entries : r = WholeRegion(rid, RegionLen, FALSE) /\ OwnEntry(r) /\ IsWhole(r)
  BY <1>2, WholeEntry
<1>4. Fit(Append(regions, r), chan)  BY <1>1, <1>3, FitAppendEntry
<1>5. regions' = Append(regions, r) /\ chan' = chan /\ ret' = "OK"
  BY <1>3 DEF Register, Return
<1>6. Fit(regions', chan')  BY <1>4, <1>5
<1>7. ret' # "BUFFER_NOT_IN_USE"  BY <1>5
<1> QED  BY <1>6, <1>7 DEF DebugInv, ReturnsAccepted

(* debug_deregister. *)
LEMMA DeregisterKeepsInv ==
  ASSUME DebugInv, NEW rid \in Rids, Deregister(rid)
  PROVE  DebugInv'
<1>1. Fit(regions, chan)  BY DEF DebugInv, Deregister, Running
<1>2. PICK k : k = FindRegion(rid)  OBVIOUS
<1>3. chan' = chan  BY DEF Deregister
<1>4. /\ ret' # "BUFFER_NOT_IN_USE"
      /\ \/ regions' = regions
         \/ k # 0 /\ IsWhole(regions[k]) /\ regions' = Splice(regions, k, k, << >>)
  BY <1>2 DEF Deregister, Return
<1>5. k # 0 => FirstOf(regions, k, rid)  BY <1>1, <1>2, FindRegionIs DEF Fit
<1>6. Fit(regions', chan')
  <2>1. CASE regions' = regions  BY <1>1, <1>3, <2>1
  <2>2. CASE k # 0 /\ IsWhole(regions[k]) /\ regions' = Splice(regions, k, k, << >>)
    <3>1. Fit(Splice(regions, k, k, << >>), chan)  BY <1>1, <1>5, <2>2, FitRemove
    <3> QED  BY <1>3, <2>2, <3>1
  <2> QED  BY <1>4, <2>1, <2>2
<1> QED  BY <1>4, <1>6 DEF DebugInv, ReturnsAccepted

(* debug_add_region, debug_remove_region. *)
LEMMA PoolStepKeepsInv ==
  ASSUME DebugInv, NEW rid, AddRegion(rid) \/ RemoveRegion(rid)
  PROVE  DebugInv'
<1>1. Fit(regions, chan)  BY DEF DebugInv, AddRegion, RemoveRegion, Running
<1>2. regions' = regions /\ chan' = chan /\ ret' = "OK"
  BY DEF AddRegion, RemoveRegion, Return
<1>3. Fit(regions', chan')  BY <1>1, <1>2
<1>4. ret' # "BUFFER_NOT_IN_USE"  BY <1>2
<1> QED  BY <1>3, <1>4 DEF DebugInv, ReturnsAccepted

(* debug_enqueue. *)
LEMMA EnqueueKeepsInv ==
  ASSUME DebugInv, NEW rid \in Rids, NEW b \in Bufs, DebugEnqueue(rid, b)
  PROVE  DebugInv'
<1>1. Fit(regions, chan)  BY DEF DebugInv, DebugEnqueue, Running
<1>2. PICK k : k = FindRegion(rid)  OBVIOUS
<1>3. PICK found : found = IF k = 0 THEN {} ELSE Containing(regions[k].buffers, b)
  OBVIOUS
<1>4. PICK i : i = CHOOSE j \in found : \A l \in found : j <= l  OBVIOUS
<1>5. \/ ret' \in {"REFUSED", "QUEUE_FULL"} /\ regions' = regions /\ chan' = chan
      \/ /\ found # {} /\ chan' = Append(chan, [rid |-> rid, buf |-> b])
         /\ regions' = [regions EXCEPT ![k].buffers = Splice(@, i, i, Remains(@[i], b))]
         /\ ret' = "OK"
  BY <1>2, <1>3, <1>4 DEF DebugEnqueue, Return, Below!Send
<1>6. CASE ret' \in {"REFUSED", "QUEUE_FULL"} /\ regions' = regions /\ chan' = chan
  <2>1. Fit(regions', chan')  BY <1>1, <1>6
  <2>2. ret' # "BUFFER_NOT_IN_USE"  BY <1>6
  <2> QED  BY <2>1, <2>2 DEF DebugInv, ReturnsAccepted
<1>7. CASE /\ found # {} /\ chan' = Append(chan, [rid |-> rid, buf |-> b])
           /\ regions' = [regions EXCEPT ![k].buffers = Splice(@, i, i, Remains(@[i], b))]
           /\ ret' = "OK"
  <2>1. k # 0  BY <1>3, <1>7
  <2>2. FirstOf(regions, k, rid)  BY <1>1, <1>2, <2>1, FindRegionIs DEF Fit
  <2>3. PICK cs \in Seq(Chunks) : cs = regions[k].buffers
    <3>1. regions[k] \in Entries  BY <1>1, <2>2 DEF Fit, FirstOf
    <3> QED  BY <3>1 DEF Entries
  <2>4. \A x \in found : x \in 1 .. Len(cs) /\ InBounds(b, cs[x])
    BY <1>3, <2>1, <2>3 DEF Containing
  <2>5. found \subseteq Nat
    <3>1. Len(cs) \in Nat  BY <2>3
    <3> QED  BY <2>4, <3>1
  <2>6. \E j \in found : \A l \in found : j <= l  BY <1>7, <2>5, LeastNumber
  <2>7. i \in found  BY <1>4, <2>6
  <2>8. i \in 1 .. Len(regions[k].buffers) /\ InBounds(b, regions[k].buffers[i])
    BY <2>3, <2>4, <2>7
  <2>9. Fit([regions EXCEPT ![k].buffers = Splice(@, i, i, Remains(@[i], b))],
            Append(chan, [rid |-> rid, buf |-> b]))
    BY <1>1, <2>2, <2>8, FitEnqueue
  <2>10. Fit(regions', chan')  BY <1>7, <2>9
  <2>11. ret' # "BUFFER_NOT_IN_USE"  BY <1>7
  <2> QED  BY <2>10, <2>11 DEF DebugInv, ReturnsAccepted
<1> QED  BY <1>5, <1>6, <1>7

(* debug_dequeue, the region is in the list. *)
LEMMA DequeueKnownKeepsInv ==
  ASSUME OneLength, DebugInv, DequeueKnown
  PROVE  DebugInv'
<1>1. Fit(regions, chan)  BY DEF DebugInv, DequeueKnown, Running
<1>2. PICK m : m = Head(chan)  OBVIOUS
<1>3. chan # << >> /\ taken' = m /\ chan' = Tail(chan)
  BY <1>2 DEF DequeueKnown, Below!Receive
<1>4. m \in Descs
  <2>1. chan \in Seq(Descs)  BY <1>1 DEF Fit
  <2> QED  BY <1>2, <1>3, <2>1
<1>5. PICK k : k = FindRegion(m.rid)  OBVIOUS
<1>6. PICK cs : cs = regions[k].buffers  OBVIOUS
<1>7. PICK i : i = Position(cs, m.buf)  OBVIOUS
<1>8. PICK r : r = [regions[k] EXCEPT !.length =
                 IF regions[k].not_consistent /\ EndOf(m.buf) > @ THEN EndOf(m.buf) ELSE @]
  OBVIOUS
<1>9. DequeueResult(m.rid) # "BUFFER_NOT_IN_USE"  BY DEF DequeueResult
<1>10. /\ k # 0
       /\ \/ /\ cs = << >>
             /\ regions' = [regions EXCEPT ![k] = [r EXCEPT !.buffers = <<m.buf>>]]
             /\ ret' # "BUFFER_NOT_IN_USE"
          \/ /\ cs # << >> /\ InBounds(m.buf, cs[i])
             /\ regions' = [regions EXCEPT ![k] = r]
          \/ /\ cs # << >> /\ ~InBounds(m.buf, cs[i])
             /\ regions' = [regions EXCEPT ![k] = [r EXCEPT !.buffers = InsertMerge(cs, i, m.buf)]]
             /\ ret' # "BUFFER_NOT_IN_USE"
  <2>1. /\ FindRegion(taken'.rid) = k /\ taken'.buf = m.buf
        /\ DequeueResult(taken'.rid) = DequeueResult(m.rid)
    BY <1>3, <1>5
  <2> QED  BY <1>6, <1>7, <1>8, <1>9, <2>1 DEF DequeueKnown, Return
<1>11. FirstOf(regions, k, m.rid)  BY <1>1, <1>5, <1>10, FindRegionIs DEF Fit
<1>12. regions[k] \in Entries /\ regions[k].rid = m.rid  BY <1>1, <1>11 DEF Fit, FirstOf
<1>13. r \in Entries /\ r.rid = m.rid /\ r.buffers = cs
  <2>1. EndOf(m.buf) \in Int  BY <1>4, DescIs, ChunkIs
  <2> QED  BY <1>6, <1>8, <1>12, <2>1 DEF Entries
<1>14. ASSUME m.rid \in OwnRids PROVE r = regions[k]
  <2>1. regions[k].not_consistent = FALSE
    BY <1>1, <1>11, <1>12, <1>14 DEF Fit, FirstOf, OwnEntries, OwnEntry
  <2>2. r = [regions[k] EXCEPT !.length = @]  BY <1>8, <2>1
  <2> QED  BY <1>12, <2>2 DEF Entries
<1>15. /\ cs = << >> =>
            Fit([regions EXCEPT ![k] = [r EXCEPT !.buffers = <<m.buf>>]], Tail(chan))
       /\ cs # << >> /\ InBounds(m.buf, cs[i]) =>
            m.rid \notin OwnRids /\ Fit([regions EXCEPT ![k] = r], Tail(chan))
       /\ cs # << >> /\ ~InBounds(m.buf, cs[i]) =>
            Fit([regions EXCEPT ![k] = [r EXCEPT !.buffers = InsertMerge(cs, i, m.buf)]],
                Tail(chan))
  BY <1>1, <1>2, <1>3, <1>6, <1>7, <1>11, <1>13, <1>14, FitDequeue, ZenonT(60)
<1>16. Fit(regions', Tail(chan)) /\ (m.rid \in OwnRids => ret' # "BUFFER_NOT_IN_USE")
  BY <1>10, <1>15, Zenon
<1>17. Fit(regions', chan')  BY <1>3, <1>16
<1> QED  BY <1>3, <1>16, <1>17 DEF DebugInv, ReturnsAccepted

(* debug_dequeue, the region is not in the list: it is one of the other    *)
(* endpoint's.                                                             *)
LEMMA DequeueUnknownKeepsInv ==
  ASSUME DebugInv, DequeueUnknown
  PROVE  DebugInv'
<1>1. Fit(regions, chan)  BY DEF DebugInv, DequeueUnknown, Running
<1>2. PICK m : m = Head(chan)  OBVIOUS
<1>3. chan # << >> /\ taken' = m /\ chan' = Tail(chan)
  BY <1>2 DEF DequeueUnknown, Below!Receive
<1>4. /\ regions \in Seq(Entries) /\ chan \in Seq(Descs) /\ Exact(regions, chan)
      /\ OnceLent(chan)
  BY <1>1 DEF Fit
<1>5. m \in Descs /\ m.rid \in Rids /\ m.buf \in Chunks /\ m.buf.length > 0
  <2>1. m \in Descs  BY <1>2, <1>3, <1>4
  <2> QED  BY <2>1, DescIs
<1>6. FindRegion(m.rid) = 0
  <2>1. FindRegion(taken'.rid) = FindRegion(m.rid)  BY <1>3
  <2> QED  BY <2>1 DEF DequeueUnknown
<1>7. m.rid \notin OwnRids
  <2>1. \A k \in 1 .. Len(regions) : regions[k].rid # m.rid  BY <1>4, <1>6, FindRegionIs
  <2>2. m.buf.offset \in BytesOf(m.buf)  BY <1>5, ChunkIs
  <2>3. InQueue(chan, m.rid, m.buf.offset)  BY <1>2, <1>3, <1>4, <2>2, QueueTail
  <2> QED  BY <1>4, <2>1, <2>3 DEF Exact
<1>8. PICK e \in Entries : e = WholeRegion(m.rid, EndOf(m.buf), TRUE) /\ e.rid = m.rid
  <2>1. EndOf(m.buf) \in Int  BY <1>5, ChunkIs
  <2> QED  BY <1>5, <2>1, WholeEntry
<1>9. Fit(regions, Tail(chan)) /\ Fit(Append(regions, e), Tail(chan))
  <2>1. Fit(regions, Tail(chan))  BY <1>1, <1>2, <1>3, <1>7, FitTailForeign
  <2> QED  BY <1>7, <1>8, <2>1, FitAppendEntry
<1>10. \/ regions = << >> /\ regions' = <<e>>
       \/ /\ regions # << >> /\ regions[1].buffers # << >>
          /\ regions' = Append([regions EXCEPT ![1].buffers[1].offset = 0], e)
          /\ clobbered' = (regions[1].buffers[1].offset # 0)
       \/ regions' = regions
  <2>1. WholeRegion(taken'.rid, EndOf(taken'.buf), TRUE) = e  BY <1>3, <1>8
  <2> QED  BY <2>1 DEF DequeueUnknown
<1>11. ASSUME ~clobbered' PROVE Fit(regions', Tail(chan))
  <2>1. CASE regions = << >> /\ regions' = <<e>>
    <3>1. Append(<< >>, e) = <<e>>  OBVIOUS
    <3> QED  BY <1>9, <2>1, <3>1
  <2>2. CASE /\ regions # << >> /\ regions[1].buffers # << >>
             /\ regions' = Append([regions EXCEPT ![1].buffers[1].offset = 0], e)
             /\ clobbered' = (regions[1].buffers[1].offset # 0)
    <3>1. PICK r \in Entries : r = regions[1]  BY <1>4, <2>2
    <3>2. PICK cs \in Seq(Chunks) : cs = r.buffers  BY DEF Entries
    <3>3. PICK c \in Chunks : c = cs[1]  BY <2>2, <3>1, <3>2
    <3>4. c.offset = 0  BY <1>11, <2>2, <3>1, <3>2, <3>3
    <3>5. [c EXCEPT !.offset = 0] = c  BY <3>4 DEF Chunks
    <3>6. [cs EXCEPT ![1] = c] = cs  BY <3>2, <3>3
    <3>7. [r EXCEPT !.buffers = cs] = r  BY <3>2 DEF Entries
    <3>8. [regions EXCEPT ![1] = r] = regions  BY <1>4, <3>1
    <3>9. [regions EXCEPT ![1].buffers[1].offset = 0] = regions
      BY <3>1, <3>2, <3>3, <3>5, <3>6, <3>7, <3>8
    <3> QED  BY <1>9, <2>2, <3>9
  <2>3. CASE regions' = regions  BY <1>9, <2>3
  <2> QED  BY <1>10, <2>1, <2>2, <2>3
<1>12. taken'.rid \notin OwnRids  BY <1>3, <1>7
<1>13. ~clobbered' => Fit(regions', chan')  BY <1>3, <1>11
<1> QED  BY <1>12, <1>13 DEF DebugInv, ReturnsAccepted

(* The other endpoint sends a buffer of its own. *)
LEMMA PeerSendKeepsInv ==
  ASSUME DebugInv, NEW m \in [rid : ForeignRids, buf : PeerBufs], PeerSend(m)
  PROVE  DebugInv'
<1>1. Fit(regions, chan)  BY DEF DebugInv, PeerSend, Running
<1>2. m \in Descs /\ m.rid \notin OwnRids  BY DebugAssumption DEF Descs, Rids
<1>3. Fit(regions, Append(chan, m))  BY <1>1, <1>2, FitSendForeign
<1>4. /\ chan' = Append(chan, m) /\ regions' = regions
      /\ taken' = taken /\ ret' = ret /\ clobbered' = clobbered
  BY DEF PeerSend, Below!Send
<1>5. Fit(regions', chan')  BY <1>3, <1>4
<1>6. ReturnsAccepted'  BY <1>4 DEF DebugInv, ReturnsAccepted
<1> QED  BY <1>5, <1>6 DEF DebugInv

(* The lists of the debug module fit the queue below in every state,       *)
(* through any sequence of registrations, splits and merges and whatever   *)
(* the other endpoint sends, as long as no other region's list was         *)
(* overwritten.                                                            *)
THEOREM DebugInvHolds ==
  ASSUME OneLength
  PROVE  DebugSpec => []DebugInv
<1>1. DebugInit => DebugInv  BY DebugInitInv
<1>2. DebugInv /\ [DebugNext]_debugVars => DebugInv'
  <2> SUFFICES ASSUME DebugInv, [DebugNext]_debugVars PROVE DebugInv'  OBVIOUS
  <2>1. ASSUME NEW rid \in OwnRids, Register(rid) PROVE DebugInv'
    BY <2>1, RegisterKeepsInv
  <2>2. ASSUME NEW rid \in Rids, Deregister(rid) PROVE DebugInv'
    BY <2>2, DeregisterKeepsInv
  <2>3. ASSUME NEW rid \in ForeignRids, AddRegion(rid) \/ RemoveRegion(rid) PROVE DebugInv'
    BY <2>3, PoolStepKeepsInv
  <2>4. ASSUME NEW rid \in Rids, NEW b \in Bufs, DebugEnqueue(rid, b) PROVE DebugInv'
    BY <2>4, EnqueueKeepsInv
  <2>5. CASE DequeueKnown  BY <2>5, DequeueKnownKeepsInv
  <2>6. CASE DequeueUnknown  BY <2>6, DequeueUnknownKeepsInv
  <2>7. ASSUME NEW m \in [rid : ForeignRids, buf : PeerBufs], PeerSend(m) PROVE DebugInv'
    BY <2>7, PeerSendKeepsInv
  <2>8. CASE UNCHANGED debugVars
    <3>1. /\ regions' = regions /\ chan' = chan /\ taken' = taken /\ ret' = ret
          /\ clobbered' = clobbered
      BY <2>8 DEF debugVars
    <3>2. (~clobbered => Fit(regions, chan))' /\ ReturnsAccepted'
      BY <3>1 DEF DebugInv, ReturnsAccepted
    <3> QED  BY <3>2 DEF DebugInv
  <2> QED  BY <2>1, <2>2, <2>3, <2>4, <2>5, <2>6, <2>7, <2>8 DEF DebugNext
<1> QED  BY <1>1, <1>2, PTL DEF DebugSpec

(* The bytes of a region that are in the queue. *)
LEMMA LentIs ==
  ASSUME chan \in Seq(Descs), NEW rid
  PROVE  \A v : v \in Lent(rid) <=> InQueue(chan, rid, v)
<1>1. DOMAIN chan = 1 .. Len(chan)  OBVIOUS
<1> QED  BY <1>1 DEF Lent, InQueue

(* What this endpoint owns of a region is what its list says: a byte is in *)
(* a chunk if and only if it is not in the queue below, and a region is    *)
(* only forgotten when nothing of it is lent out.                          *)
THEOREM DebugChunksExact ==
  ASSUME OneLength
  PROVE  DebugSpec => []ChunksExact
<1>1. DebugInv => ChunksExact
  <2> SUFFICES ASSUME Fit(regions, chan), NEW rid \in OwnRids, NEW k, k = FindRegion(rid)
               PROVE  IF k = 0 THEN Lent(rid) = {}
                      ELSE Listed(regions[k].buffers) = (0 .. RegionLen - 1) \ Lent(rid)
    BY DEF DebugInv, ChunksExact
  <2>1. regions \in Seq(Entries) /\ chan \in Seq(Descs) /\ Exact(regions, chan)  BY DEF Fit
  <2>2. \A v : v \in Lent(rid) <=> InQueue(chan, rid, v)  BY <2>1, LentIs
  <2>3. CASE k = 0
    <3>1. \A j \in 1 .. Len(regions) : regions[j].rid # rid  BY <2>1, <2>3, FindRegionIs
    <3>2. \A v : ~InQueue(chan, rid, v)  BY <2>1, <3>1 DEF Exact
    <3> QED  BY <2>2, <2>3, <3>2
  <2>4. CASE k # 0
    <3>1. FirstOf(regions, k, rid)  BY <2>1, <2>4, FindRegionIs
    <3>2. \A v : v \in Listed(regions[k].buffers) <=> v \in Bytes /\ ~InQueue(chan, rid, v)
      BY <2>1, <3>1 DEF Exact
    <3>3. \A v : v \in Listed(regions[k].buffers) <=> v \in (0 .. RegionLen - 1) \ Lent(rid)
      BY <2>2, <3>2 DEF Bytes
    <3> QED  BY <2>4, <3>3
  <2> QED  BY <2>3, <2>4
<1> QED  BY <1>1, DebugInvHolds, PTL

(* The chunks of a region registered here are in ascending order, none is  *)
(* empty and two that touch have been merged.                              *)
THEOREM DebugChunksMerged ==
  ASSUME OneLength
  PROVE  DebugSpec => []ChunksMerged
<1>1. DebugInv => ChunksMerged
  <2> SUFFICES ASSUME Fit(regions, chan), NEW k \in DOMAIN regions, regions[k].rid \in OwnRids,
                      NEW cs, cs = regions[k].buffers
               PROVE  /\ \A i \in DOMAIN cs : cs[i].length > 0
                      /\ \A i \in 1 .. Len(cs) - 1 : EndOf(cs[i]) < cs[i + 1].offset
    BY DEF DebugInv, ChunksMerged
  <2>1. k \in 1 .. Len(regions) /\ OwnEntries(regions)  BY DEF Fit
  <2>2. Merged(cs)  BY <2>1 DEF OwnEntries, OwnEntry
  <2>3. /\ Len(cs) \in Nat /\ DOMAIN cs = 1 .. Len(cs)
        /\ (\A i \in 1 .. Len(cs) : cs[i].length > 0)
        /\ \A i, j \in 1 .. Len(cs) : i < j => EndOf(cs[i]) < cs[j].offset
    BY <2>2, MergedIs
  <2>4. \A i \in 1 .. Len(cs) - 1 : i \in 1 .. Len(cs) /\ i + 1 \in 1 .. Len(cs) /\ i < i + 1
    BY <2>3
  <2> QED  BY <2>3, <2>4
<1> QED  BY <1>1, DebugInvHolds, PTL

(* A buffer that debug_enqueue accepted is not refused when it comes back. *)
THEOREM DebugReturnsAccepted ==
  ASSUME OneLength
  PROVE  DebugSpec => []ReturnsAccepted
<1>1. DebugInv => ReturnsAccepted  BY DEF DebugInv
<1> QED  BY <1>1, DebugInvHolds, PTL

=============================================================================
