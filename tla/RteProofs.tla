------------------------------- MODULE RteProofs -------------------------------
(***************************************************************************)
(* Proofs about the two libraries of DPDK that are modelled: RteRing, for  *)
(* any set of threads, any calls, any ring size and capacity and any range *)
(* of the indices; and RteTimer, for any sets of lcores and timers, any    *)
(* delays and any bound on the clock.                                      *)
(***************************************************************************)
EXTENDS RteRing, RteTimer, SlotIndex, SequenceTheorems, NaturalsInduction,
        WellFoundedInduction, TLAPS

(***************************************************************************)
(* Indices and the distances between them.                                 *)
(***************************************************************************)

Index == 0 .. U32 - 1

(* Euclidean division of any integer. *)
LEMMA IntDivMod ==
  ASSUME NEW a \in Int, NEW s \in Nat \ {0}
  PROVE  a = s * (a \div s) + (a % s) /\ a \div s \in Int /\ a % s \in 0 .. s - 1
  BY SMT

(* What is left beside a multiple of s is the remainder, of negative       *)
(* numbers too: unsigned subtraction wraps.                                *)
LEMMA IntModIs ==
  ASSUME NEW s \in Nat \ {0}, NEW a \in Int, NEW p \in Int, NEW x \in 0 .. s - 1,
         a = s * p + x
  PROVE  a % s = x
<1> DEFINE y == a % s
           q == a \div s
<1>1. a = s * q + y /\ q \in Int /\ y \in 0 .. s - 1  BY IntDivMod
<1> HIDE DEF y, q
<1>2. s * q + y = s * p + x  BY <1>1
<1>3. y = x  BY <1>1, <1>2, ModUnique, Zenon
<1> QED  BY <1>3 DEF y

(* The constants of the ring. *)
LEMMA RingSizes ==
  /\ Size \in Nat \ {0} /\ Capacity \in Nat \ {0} /\ Capacity < Size
  /\ U32 \in Nat \ {0} /\ Size < U32 /\ Capacity < U32
  BY RingAssumption

(* The distance between two indices, without the modulus. *)
LEMMA AheadIs ==
  ASSUME NEW a \in Index, NEW b \in Index
  PROVE  /\ Ahead(a, b) = IF b >= a THEN b - a ELSE b - a + U32
         /\ Ahead(a, b) \in Index
<1>0. U32 \in Nat \ {0}  BY RingSizes
<1>1. CASE b >= a
  <2>1. b - a \in 0 .. U32 - 1 /\ b - a = U32 * 0 + (b - a)  BY <1>0, <1>1 DEF Index
  <2>2. (b - a) % U32 = b - a  BY <1>0, <2>1, IntModIs
  <2> QED  BY <1>1, <2>1, <2>2 DEF Ahead, Index
<1>2. CASE b < a
  <2>1. b - a + U32 \in 0 .. U32 - 1 /\ b - a = U32 * (-1) + (b - a + U32) /\ b - a \in Int
    BY <1>0, <1>2 DEF Index
  <2>2. (b - a) % U32 = b - a + U32  BY <1>0, <2>1, IntModIs
  <2>3. ~(b >= a)  BY <1>2 DEF Index
  <2> QED  BY <2>1, <2>2, <2>3 DEF Ahead, Index
<1> QED  BY <1>1, <1>2 DEF Index

(* An index moved on, without the modulus. *)
LEMMA MovedIs ==
  ASSUME NEW a \in Index, NEW k \in Index
  PROVE  /\ (a + k) % U32 = IF a + k < U32 THEN a + k ELSE a + k - U32
         /\ (a + k) % U32 \in Index
<1>0. U32 \in Nat \ {0} /\ a + k \in 0 .. 2 * U32 - 1 /\ a + k \in Nat  BY RingSizes DEF Index
<1>1. PICK c \in 0 .. 2 * U32 - 1 : c = a + k  BY <1>0
<1>2. c % U32 = IF c < U32 THEN c ELSE c - U32  BY <1>0, ModLap
<1> QED  BY <1>0, <1>1, <1>2 DEF Index

(* Moving the far index on adds to the distance, moving the near one on    *)
(* takes from it.                                                          *)
LEMMA AheadMoved ==
  ASSUME NEW a \in Index, NEW b \in Index, NEW k \in Index
  PROVE  /\ Ahead(a, b) + k < U32 => Ahead(a, (b + k) % U32) = Ahead(a, b) + k
         /\ k <= Ahead(a, b) => Ahead((a + k) % U32, b) = Ahead(a, b) - k
<1> DEFINE c == (b + k) % U32
           d == (a + k) % U32
<1>1. c \in Index /\ c = IF b + k < U32 THEN b + k ELSE b + k - U32  BY MovedIs
<1>2. d \in Index /\ d = IF a + k < U32 THEN a + k ELSE a + k - U32  BY MovedIs
<1>3. U32 \in Nat \ {0}  BY RingSizes
<1> HIDE DEF c, d
<1>4. Ahead(a, b) = IF b >= a THEN b - a ELSE b - a + U32  BY AheadIs
<1>5. Ahead(a, c) = IF c >= a THEN c - a ELSE c - a + U32  BY <1>1, AheadIs
<1>6. Ahead(d, b) = IF b >= d THEN b - d ELSE b - d + U32  BY <1>2, AheadIs
<1>7. Ahead(a, b) + k < U32 => Ahead(a, c) = Ahead(a, b) + k
  BY <1>1, <1>3, <1>4, <1>5 DEF Index
<1>8. k <= Ahead(a, b) => Ahead(d, b) = Ahead(a, b) - k
  BY <1>2, <1>3, <1>4, <1>6 DEF Index
<1> QED  BY <1>7, <1>8 DEF c, d

(* Distances add up, as long as they are less than a lap together. *)
LEMMA AheadAdds ==
  ASSUME NEW a \in Index, NEW b \in Index, NEW c \in Index
  PROVE  /\ Ahead(a, b) + Ahead(b, c) < U32 => Ahead(a, c) = Ahead(a, b) + Ahead(b, c)
         /\ Ahead(a, b) = 0 <=> (a = b)
<1>1. U32 \in Nat \ {0}  BY RingSizes
<1>2. Ahead(a, b) = IF b >= a THEN b - a ELSE b - a + U32  BY AheadIs
<1>3. Ahead(b, c) = IF c >= b THEN c - b ELSE c - b + U32  BY AheadIs
<1>4. Ahead(a, c) = IF c >= a THEN c - a ELSE c - a + U32  BY AheadIs
<1> QED  BY <1>1, <1>2, <1>3, <1>4 DEF Index

(* free_entries, as the code computes it in unsigned arithmetic. *)
LEMMA FreeEntriesIs ==
  ASSUME NEW old \in Index, tail["cons"] \in Index, Ahead(tail["cons"], old) <= Capacity
  PROVE  FreeEntries(old) = Capacity - Ahead(tail["cons"], old)
<1> DEFINE a == tail["cons"]
           d == Ahead(a, old)
           x == Capacity - d
           v == Capacity + a - old
<1>0. U32 \in Nat \ {0} /\ Capacity \in Nat \ {0} /\ Capacity < U32  BY RingSizes
<1>1. d \in Index /\ d = IF old >= a THEN old - a ELSE old - a + U32  BY AheadIs
<1> HIDE DEF d
<1>2. x \in 0 .. U32 - 1 /\ v \in Int  BY <1>0, <1>1 DEF Index, d
<1>3. CASE old >= a
  <2>1. v = U32 * 0 + x  BY <1>0, <1>1, <1>3 DEF Index
  <2> HIDE DEF v, x
  <2>2. v % U32 = x  BY <1>0, <1>2, <2>1, IntModIs
  <2> QED  BY <2>2 DEF FreeEntries, v, x, d
<1>4. CASE ~(old >= a)
  <2>1. v = U32 * 1 + x  BY <1>0, <1>1, <1>4 DEF Index
  <2> HIDE DEF v, x
  <2>2. v % U32 = x  BY <1>0, <1>2, <2>1, IntModIs
  <2> QED  BY <2>2 DEF FreeEntries, v, x, d
<1> QED  BY <1>3, <1>4

(***************************************************************************)
(* The inductive invariant.                                                *)
(***************************************************************************)

Busy(t) == pc[t] # "idle"

TypeOK ==
  /\ head \in [Sides -> Index] /\ tail \in [Sides -> Index]
  /\ pc \in [Threads -> {"idle", "head", "tail", "cas", "copy", "publish"}]
  /\ old_head \in [Threads -> Index] /\ n \in [Threads -> Nat]
  /\ DOMAIN call = Threads
  /\ \A t \in Threads : Busy(t) => call[t] \in Calls(t) /\ call[t] \in Call

(* A single call has its side to itself, so the head it has read is the    *)
(* head.                                                                   *)
Singles ==
  /\ \A t, u \in Threads :
       t # u /\ Busy(t) /\ Busy(u) /\ Side(t) = Side(u) => ~call[t].single
  /\ \A t \in Threads : Busy(t) /\ call[t].single =>
       /\ pc[t] # "head"
       /\ pc[t] \in {"tail", "cas"} => head[Side(t)] = old_head[t]

Res(t, s) == pc[t] \in {"copy", "publish"} /\ Side(t) = s

From(t) == Ahead(tail[Side(t)], old_head[t])

InFlight(s) == Ahead(tail[s], head[s])

(* The reservations of a side tile the positions from its tail to its      *)
(* head.                                                                   *)
Tiled(s) ==
  /\ \A t \in Threads : Res(t, s) => n[t] >= 1 /\ From(t) + n[t] <= InFlight(s)
  /\ \A t, u \in Threads : Res(t, s) /\ Res(u, s) /\ t # u =>
       From(t) + n[t] <= From(u) \/ From(u) + n[u] <= From(t)
  /\ \A x \in 0 .. InFlight(s) - 1 : \E t \in Threads : Res(t, s) /\ x \in From(t) .. From(t) + n[t] - 1

Stored == Ahead(head["cons"], tail["prod"])

Fits == InFlight("cons") + Stored + InFlight("prod") <= Capacity

(* What a thread is about to reserve is there, if nobody has moved the     *)
(* head since the thread read it: the other side's tail may have moved,    *)
(* but only to make more room.                                             *)
Room(t) ==
  IF Side(t) = "prod" THEN Capacity - (InFlight("cons") + Stored + InFlight("prod")) ELSE Stored

Ready ==
  \A t \in Threads : pc[t] = "cas" =>
    /\ n[t] >= 1
    /\ old_head[t] = head[Side(t)] => n[t] <= Room(t)

IInv == TypeOK /\ Singles /\ Tiled("prod") /\ Tiled("cons") /\ Fits /\ Ready

(* The range of the distances. *)
LEMMA Ranges ==
  ASSUME TypeOK
  PROVE  /\ \A s \in Sides : head[s] \in Index /\ tail[s] \in Index /\ InFlight(s) \in Index
         /\ Stored \in Index
         /\ \A t \in Threads : /\ old_head[t] \in Index /\ n[t] \in Nat
                               /\ Busy(t) => call[t] \in Call /\ Side(t) \in Sides /\ From(t) \in Index
                               /\ Busy(t) => call[t].max \in Nat \ {0} /\ call[t].single \in BOOLEAN
         /\ Index \subseteq Nat
<1>1. Index \subseteq Nat  BY DEF Index
<1>2. \A s \in Sides : head[s] \in Index /\ tail[s] \in Index  BY DEF TypeOK
<1>3. "prod" \in Sides /\ "cons" \in Sides  BY DEF Sides
<1>4. Stored \in Index /\ \A s \in Sides : InFlight(s) \in Index
  BY <1>2, <1>3, AheadIs DEF Stored, InFlight
<1>5. \A t \in Threads : old_head[t] \in Index /\ n[t] \in Nat  BY DEF TypeOK
<1>6. ASSUME NEW t \in Threads, Busy(t)
      PROVE  /\ call[t] \in Call /\ Side(t) \in Sides /\ From(t) \in Index
             /\ call[t].max \in Nat \ {0} /\ call[t].single \in BOOLEAN
  <2>1. call[t] \in Call  BY <1>6 DEF TypeOK
  <2>2. Side(t) \in Sides /\ call[t].max \in Nat \ {0} /\ call[t].single \in BOOLEAN
    BY <2>1 DEF Call, Side
  <2> QED  BY <1>2, <1>5, <2>1, <2>2, AheadIs DEF From
<1> QED  BY <1>1, <1>2, <1>4, <1>5, <1>6

(* The invariant gives Reservations. *)
LEMMA TiledReservations ==
  ASSUME IInv
  PROVE  Reservations
<1>1. TypeOK  BY DEF IInv
<1>2. ASSUME NEW s \in Sides
      PROVE  /\ UNION {Span(t) : t \in Reserved(s)} = 0 .. Ahead(tail[s], head[s]) - 1
             /\ \A t, u \in Reserved(s) : t # u => Span(t) \intersect Span(u) = {}
  <2>1. Tiled(s)  BY DEF IInv, Sides
  <2>2. \A t \in Threads : t \in Reserved(s) <=> Res(t, s)  BY DEF Reserved, Res
  <2>3. ASSUME NEW t \in Reserved(s)
        PROVE  /\ Res(t, s) /\ t \in Threads /\ Span(t) = From(t) .. From(t) + n[t] - 1
               /\ From(t) \in Nat /\ n[t] \in Nat
    <3>1. t \in Threads /\ Res(t, s)  BY <2>2 DEF Reserved
    <3>2. Busy(t)  BY <3>1 DEF Res, Busy
    <3> QED  BY <1>1, <3>1, <3>2, Ranges DEF Span, From
  <2>4. InFlight(s) \in Nat /\ InFlight(s) = Ahead(tail[s], head[s])  BY <1>1, Ranges DEF InFlight
  <2>5. ASSUME NEW t \in Reserved(s), NEW x \in Span(t) PROVE x \in 0 .. InFlight(s) - 1
    BY <2>1, <2>3, <2>4 DEF Tiled
  <2>6. ASSUME NEW x \in 0 .. InFlight(s) - 1 PROVE \E t \in Reserved(s) : x \in Span(t)
    <3>1. PICK t \in Threads : Res(t, s) /\ x \in From(t) .. From(t) + n[t] - 1
      BY <2>1 DEF Tiled
    <3> QED  BY <2>2, <2>3, <3>1
  <2>7. ASSUME NEW t \in Reserved(s), NEW u \in Reserved(s), t # u
        PROVE  Span(t) \intersect Span(u) = {}
    <3>1. From(t) + n[t] <= From(u) \/ From(u) + n[u] <= From(t)
      BY <2>1, <2>3, <2>7 DEF Tiled
    <3>2. \A a, b, c, d \in Nat : a + b <= c \/ c + d <= a =>
            \A x \in a .. a + b - 1 : x \notin c .. c + d - 1
      OBVIOUS
    <3>3. /\ From(t) \in Nat /\ n[t] \in Nat /\ Span(t) = From(t) .. From(t) + n[t] - 1
          /\ From(u) \in Nat /\ n[u] \in Nat /\ Span(u) = From(u) .. From(u) + n[u] - 1
      BY <2>3, Zenon
    <3>4. \A x \in Span(t) : x \notin Span(u)  BY <3>1, <3>2, <3>3, Zenon
    <3> QED  BY <3>4, Zenon
  <2> QED  BY <2>4, <2>5, <2>6, <2>7
<1> QED  BY <1>2 DEF Reservations, IInv, Fits, InFlight, Stored

(***************************************************************************)
(* Steps.                                                                  *)
(***************************************************************************)

OthersKeep(t) ==
  \A u \in Threads : u # t =>
    pc'[u] = pc[u] /\ call'[u] = call[u] /\ old_head'[u] = old_head[u] /\ n'[u] = n[u]

(* A step of a thread that neither makes nor ends a reservation and moves  *)
(* no index leaves the tiling alone.                                       *)
LEMMA LocalStep ==
  ASSUME IInv, TypeOK', NEW t \in Threads, OthersKeep(t), UNCHANGED <<head, tail>>,
         \/ pc[t] \notin {"copy", "publish"} /\ pc'[t] \notin {"copy", "publish"}
         \/ /\ pc[t] \in {"copy", "publish"} /\ pc'[t] \in {"copy", "publish"}
            /\ call'[t] = call[t] /\ old_head'[t] = old_head[t] /\ n'[t] = n[t]
  PROVE  /\ Tiled("prod")' /\ Tiled("cons")' /\ Fits'
         /\ Stored' = Stored /\ \A s \in Sides : InFlight(s)' = InFlight(s)
<1>1. Stored' = Stored /\ \A s \in Sides : InFlight(s)' = InFlight(s)
  BY DEF Stored, InFlight
<1>2. "prod" \in Sides /\ "cons" \in Sides  BY DEF Sides
<1>3. Fits'  BY <1>1, <1>2 DEF IInv, Fits
<1>4. \A s \in Sides, u \in Threads :
         /\ Res(u, s)' <=> Res(u, s)
         /\ Res(u, s) => From(u)' = From(u) /\ n'[u] = n[u]
  BY DEF OthersKeep, Res, From, Side
<1>5. ASSUME NEW s \in Sides, Tiled(s) PROVE Tiled(s)'
  BY <1>1, <1>4, <1>5 DEF Tiled
<1> QED  BY <1>1, <1>2, <1>3, <1>5 DEF IInv

(* Threads that are not about to reserve, and those whose head and room    *)
(* are unchanged, stay ready.                                              *)
LEMMA ReadyStep ==
  ASSUME IInv, NEW t \in Threads, OthersKeep(t), UNCHANGED head,
         Stored' >= Stored,
         InFlight("cons")' + Stored' + InFlight("prod")' <= InFlight("cons") + Stored + InFlight("prod"),
         TypeOK',
         pc'[t] = "cas" => /\ n'[t] >= 1
                           /\ old_head'[t] = head'[Side(t)'] => n'[t] <= Room(t)'
  PROVE  Ready'
<1> SUFFICES ASSUME NEW u \in Threads, pc'[u] = "cas"
             PROVE  /\ n'[u] >= 1
                    /\ old_head'[u] = head'[Side(u)'] => n'[u] <= Room(u)'
  BY DEF Ready
<1> SUFFICES ASSUME u # t
             PROVE  /\ n'[u] >= 1
                    /\ old_head'[u] = head'[Side(u)'] => n'[u] <= Room(u)'
  OBVIOUS
<1>2. pc[u] = "cas" /\ call'[u] = call[u] /\ old_head'[u] = old_head[u] /\ n'[u] = n[u]
  BY DEF OthersKeep
<1>3. Side(u)' = Side(u)  BY <1>2 DEF Side
<1>4. n[u] >= 1 /\ (old_head[u] = head[Side(u)] => n[u] <= Room(u))  BY <1>2 DEF IInv, Ready
<1>5. /\ Stored \in Nat /\ InFlight("cons") \in Nat /\ InFlight("prod") \in Nat /\ n[u] \in Nat
      /\ Stored' \in Nat /\ InFlight("cons")' \in Nat /\ InFlight("prod")' \in Nat
  <2>1. "prod" \in Sides /\ "cons" \in Sides /\ Index \subseteq Nat  BY DEF Sides, Index
  <2>2. TypeOK  BY DEF IInv
  <2>3. Stored \in Index /\ InFlight("cons") \in Index /\ InFlight("prod") \in Index /\ n[u] \in Nat
    BY <2>1, <2>2, Ranges
  <2>4. /\ head'["prod"] \in Index /\ head'["cons"] \in Index
        /\ tail'["prod"] \in Index /\ tail'["cons"] \in Index
    BY <2>1 DEF TypeOK
  <2>5. /\ Ahead(head'["cons"], tail'["prod"]) \in Index
        /\ Ahead(tail'["cons"], head'["cons"]) \in Index
        /\ Ahead(tail'["prod"], head'["prod"]) \in Index
    BY <2>4, AheadIs
  <2>6. Stored' \in Index /\ InFlight("cons")' \in Index /\ InFlight("prod")' \in Index
    BY <2>5 DEF Stored, InFlight, Ahead
  <2> QED  BY <2>1, <2>3, <2>6
<1>6. Capacity \in Nat  BY RingSizes
<1>7. Room(u) <= Room(u)'  BY <1>3, <1>5, <1>6 DEF Room
<1>8. Room(u) \in Int /\ Room(u)' \in Int  BY <1>5, <1>6 DEF Room
<1> QED  BY <1>2, <1>3, <1>4, <1>5, <1>7, <1>8

(* A call begins. *)
LEMMA BeginIInv ==
  ASSUME IInv, NEW t \in Threads, Begin(t)
  PROVE  IInv'
<1>1. PICK c \in Calls(t) : /\ MayCall(t, c)
                            /\ call' = [call EXCEPT ![t] = c]
                            /\ old_head' = [old_head EXCEPT ![t] = head[c.side]]
  BY DEF Begin
<1>2. /\ pc[t] = "idle" /\ pc' = [pc EXCEPT ![t] = "tail"]
      /\ UNCHANGED <<ring, head, tail, n, table>>
  BY DEF Begin, Goto
<1>3. TypeOK  BY DEF IInv
<1>4. c \in Call /\ c.side \in Sides  BY RingAssumption DEF Call
<1>5. TypeOK'  BY <1>1, <1>2, <1>3, <1>4 DEF TypeOK, Busy
<1>6. OthersKeep(t)  BY <1>1, <1>2, <1>3 DEF OthersKeep, TypeOK
<1>7. pc'[t] = "tail" /\ call'[t] = c /\ old_head'[t] = head[c.side]
  BY <1>1, <1>2, <1>3 DEF TypeOK
<1>8. /\ Tiled("prod")' /\ Tiled("cons")' /\ Fits'
      /\ Stored' = Stored /\ \A s \in Sides : InFlight(s)' = InFlight(s)
  BY <1>2, <1>5, <1>6, <1>7, LocalStep
<1>9. Ready'
  <2>1. /\ Stored \in Nat /\ InFlight("cons") \in Nat /\ InFlight("prod") \in Nat
        /\ InFlight("cons")' = InFlight("cons") /\ InFlight("prod")' = InFlight("prod")
    BY <1>3, <1>8, Ranges DEF Sides
  <2> QED  BY <1>2, <1>5, <1>6, <1>7, <1>8, <2>1, ReadyStep
<1>10. Singles'
  <2>1. ASSUME NEW u \in Threads, u # t, Busy(u), Side(u) = c.side
        PROVE  ~c.single /\ ~call[u].single
    BY <1>1, <2>1 DEF MayCall, Busy
  <2>2. \A u \in Threads : u # t => (Busy(u)' <=> Busy(u)) /\ Side(u)' = Side(u)
    BY <1>6 DEF OthersKeep, Busy, Side
  <2>3. Side(t)' = c.side  BY <1>7 DEF Side
  <2>4. ASSUME NEW u \in Threads, NEW w \in Threads, u # w, Busy(u)', Busy(w)', Side(u)' = Side(w)'
        PROVE  ~call'[u].single
    <3>1. CASE u = t  BY <1>7, <2>1, <2>2, <2>3, <2>4, <3>1
    <3>2. CASE w = t  BY <1>6, <2>1, <2>2, <2>3, <2>4, <3>2 DEF OthersKeep
    <3>3. CASE u # t /\ w # t  BY <1>6, <2>2, <2>4, <3>3 DEF OthersKeep, IInv, Singles
    <3> QED  BY <3>1, <3>2, <3>3
  <2>5. ASSUME NEW u \in Threads, Busy(u)', call'[u].single
        PROVE  /\ pc'[u] # "head"
               /\ pc'[u] \in {"tail", "cas"} => head'[Side(u)'] = old_head'[u]
    <3>1. CASE u = t  BY <1>2, <1>7, <2>3, <3>1
    <3>2. CASE u # t  BY <1>2, <1>6, <2>2, <2>5, <3>2 DEF OthersKeep, IInv, Singles
    <3> QED  BY <3>1, <3>2
  <2> QED  BY <2>4, <2>5 DEF Singles
<1> QED  BY <1>5, <1>8, <1>9, <1>10 DEF IInv

(* A step of a call in progress leaves the calls as they are, so single    *)
(* calls keep their side to themselves.                                    *)
LEMMA SinglesStep ==
  ASSUME IInv, NEW t \in Threads, OthersKeep(t), Busy(t),
         \A u \in Threads : u # t /\ Busy(u) /\ call[u].single => head'[Side(u)] = head[Side(u)],
         Busy(t)' => /\ call'[t] = call[t]
                     /\ call[t].single => /\ pc'[t] # "head"
                                          /\ pc'[t] \in {"tail", "cas"} =>
                                               head'[Side(t)] = old_head'[t]
  PROVE  Singles'
<1>1. \A u \in Threads : u # t => (Busy(u)' <=> Busy(u)) /\ Side(u)' = Side(u)
  BY DEF OthersKeep, Busy, Side
<1>2. \A u \in Threads : Busy(u)' => Busy(u) /\ Side(u)' = Side(u) /\ call'[u] = call[u]
  BY <1>1 DEF OthersKeep, Side
<1>3. ASSUME NEW u \in Threads, NEW w \in Threads, u # w, Busy(u)', Busy(w)', Side(u)' = Side(w)'
      PROVE  ~call'[u].single
  BY <1>2, <1>3 DEF IInv, Singles
<1>4. ASSUME NEW u \in Threads, Busy(u)', call'[u].single
      PROVE  /\ pc'[u] # "head"
             /\ pc'[u] \in {"tail", "cas"} => head'[Side(u)'] = old_head'[u]
  <2>1. CASE u = t  BY <1>2, <1>4, <2>1
  <2>2. CASE u # t
    <3>1. Busy(u) /\ call[u].single /\ pc'[u] = pc[u] /\ old_head'[u] = old_head[u] /\ Side(u)' = Side(u)
      BY <1>1, <1>2, <1>4, <2>2 DEF OthersKeep
    <3>2. head'[Side(u)] = head[Side(u)]  BY <2>2, <3>1
    <3> QED  BY <3>1, <3>2 DEF IInv, Singles
  <2> QED  BY <2>1, <2>2
<1> QED  BY <1>3, <1>4 DEF Singles

(* The head is read again. *)
LEMMA ReadHeadIInv ==
  ASSUME IInv, NEW t \in Threads, ReadHead(t)
  PROVE  IInv'
<1>1. /\ pc[t] = "head" /\ pc' = [pc EXCEPT ![t] = "tail"]
      /\ old_head' = [old_head EXCEPT ![t] = head[Side(t)]]
      /\ n' = [n EXCEPT ![t] = 0]
      /\ UNCHANGED <<ring, head, tail, call, table>>
  BY DEF ReadHead, Goto
<1>2. TypeOK /\ Busy(t)  BY <1>1 DEF IInv, Busy
<1>3. head[Side(t)] \in Index /\ Side(t) \in Sides  BY <1>2, Ranges
<1>4. TypeOK'  BY <1>1, <1>2, <1>3 DEF TypeOK, Busy
<1>5. OthersKeep(t)  BY <1>1, <1>2 DEF OthersKeep, TypeOK
<1>6. pc'[t] = "tail" /\ old_head'[t] = head[Side(t)]  BY <1>1, <1>2 DEF TypeOK
<1>7. /\ Tiled("prod")' /\ Tiled("cons")' /\ Fits'
      /\ Stored' = Stored /\ \A s \in Sides : InFlight(s)' = InFlight(s)
  BY <1>1, <1>4, <1>5, <1>6, LocalStep
<1>8. Ready'
  <2>1. /\ Stored \in Nat /\ InFlight("cons") \in Nat /\ InFlight("prod") \in Nat
        /\ InFlight("cons")' = InFlight("cons") /\ InFlight("prod")' = InFlight("prod")
    BY <1>2, <1>7, Ranges DEF Sides
  <2> QED  BY <1>1, <1>4, <1>5, <1>6, <1>7, <2>1, ReadyStep
<1>9. Singles'  BY <1>1, <1>2, <1>5, <1>6, SinglesStep
<1> QED  BY <1>4, <1>7, <1>8, <1>9 DEF IInv

(* What is granted is there, as long as the head is the one that was read. *)
LEMMA GrantedFits ==
  ASSUME IInv, NEW t \in Threads, pc[t] = "tail"
  PROVE  /\ Granted(call[t], Avail(t)) \in Nat /\ Granted(call[t], Avail(t)) <= call[t].max
         /\ old_head[t] = head[Side(t)] => Granted(call[t], Avail(t)) <= Room(t)
<1>1. TypeOK /\ Busy(t)  BY DEF IInv, Busy
<1>2. /\ call[t].max \in Nat \ {0} /\ old_head[t] \in Index /\ Side(t) \in Sides
      /\ \A s \in Sides : head[s] \in Index /\ tail[s] \in Index /\ InFlight(s) \in Index
      /\ Stored \in Index /\ Index \subseteq Nat
  BY <1>1, Ranges
<1>3. U32 \in Nat \ {0} /\ Capacity \in Nat /\ Capacity < U32  BY RingSizes
<1>4. "prod" \in Sides /\ "cons" \in Sides  BY DEF Sides
<1>5. Avail(t) \in Nat /\ (old_head[t] = head[Side(t)] => Avail(t) <= Room(t))
  <2>1. CASE Side(t) = "prod"
    <3>1. Avail(t) = FreeEntries(old_head[t])  BY <2>1 DEF Avail
    <3>2. Avail(t) \in Nat
      <4>1. tail["cons"] \in Nat /\ old_head[t] \in Nat  BY <1>2, <1>4
      <4>2. PICK v \in Int : v = Capacity + tail["cons"] - old_head[t]  BY <1>3, <4>1
      <4>3. v % U32 \in 0 .. U32 - 1  BY <1>3, IntDivMod
      <4> QED  BY <3>1, <4>2, <4>3 DEF FreeEntries
    <3>3. ASSUME old_head[t] = head[Side(t)] PROVE Avail(t) <= Room(t)
      <4>1. InFlight("cons") + Stored + InFlight("prod") <= Capacity  BY DEF IInv, Fits
      <4>2. PICK a \in Nat : a = InFlight("cons")  BY <1>2, <1>4
      <4>3. PICK b \in Nat : b = Stored  BY <1>2
      <4>4. PICK c \in Nat : c = InFlight("prod")  BY <1>2, <1>4
      <4>5. /\ tail["cons"] \in Index /\ head["cons"] \in Index
            /\ tail["prod"] \in Index /\ head["prod"] \in Index
        BY <1>2, <1>4
      <4>6. Ahead(tail["cons"], tail["prod"]) = a + b
        <5>1. Ahead(tail["cons"], head["cons"]) = a /\ Ahead(head["cons"], tail["prod"]) = b
          BY <4>2, <4>3 DEF InFlight, Stored
        <5>2. a + b < U32  BY <1>3, <4>1, <4>2, <4>3, <4>4
        <5> QED  BY <4>5, <5>1, <5>2, AheadAdds
      <4>7. Ahead(tail["cons"], head["prod"]) = a + b + c
        <5>1. Ahead(tail["prod"], head["prod"]) = c  BY <4>4 DEF InFlight
        <5>2. a + b + c < U32  BY <1>3, <4>1, <4>2, <4>3, <4>4
        <5> QED  BY <4>5, <4>6, <5>1, <5>2, AheadAdds
      <4>8. old_head[t] = head["prod"]  BY <2>1, <3>3
      <4>9. Ahead(tail["cons"], old_head[t]) = a + b + c  BY <4>7, <4>8
      <4>10. a + b + c <= Capacity  BY <4>1, <4>2, <4>3, <4>4
      <4>11. FreeEntries(old_head[t]) = Capacity - (a + b + c)
        BY <1>2, <4>5, <4>9, <4>10, FreeEntriesIs
      <4>12. Room(t) = Capacity - (a + b + c)  BY <2>1, <4>2, <4>3, <4>4 DEF Room
      <4> QED  BY <1>3, <3>1, <4>11, <4>12
    <3> QED  BY <3>2, <3>3
  <2>2. CASE Side(t) # "prod"
    <3>1. Side(t) = "cons"  BY <1>2, <2>2 DEF Sides
    <3>2. Avail(t) = Ahead(old_head[t], tail["prod"])  BY <2>2 DEF Avail, Entries
    <3>3. tail["prod"] \in Index  BY <1>2, <1>4
    <3>4. Avail(t) \in Nat  BY <1>2, <3>2, <3>3, AheadIs
    <3>5. ASSUME old_head[t] = head[Side(t)] PROVE Avail(t) = Stored /\ Room(t) = Stored
      BY <2>2, <3>1, <3>2, <3>5 DEF Stored, Room
    <3> QED  BY <1>2, <3>4, <3>5
  <2> QED  BY <2>1, <2>2
<1>6. Room(t) \in Int
  <2>1. InFlight("cons") \in Nat /\ InFlight("prod") \in Nat /\ Stored \in Nat  BY <1>2, <1>4
  <2> QED  BY <1>3, <2>1 DEF Room
<1> QED  BY <1>2, <1>5, <1>6 DEF Granted

(* The other side's tail is read: the call is refused or goes on. *)
LEMMA ReadTailIInv ==
  ASSUME IInv, NEW t \in Threads, ReadTail(t)
  PROVE  IInv'
<1> DEFINE k == Granted(call[t], Avail(t))
<1>1. pc[t] = "tail" /\ UNCHANGED <<ring, head, tail>>  BY DEF ReadTail
<1>2. TypeOK /\ Busy(t)  BY <1>1 DEF IInv, Busy
<1>3. k \in Nat /\ (old_head[t] = head[Side(t)] => k <= Room(t))  BY <1>1, GrantedFits
<1>4. 0 \in Index  BY RingSizes DEF Index
<1>5. CASE k = 0
  <2>1. /\ pc' = [pc EXCEPT ![t] = "idle"] /\ call' = [call EXCEPT ![t] = NULL]
        /\ old_head' = [old_head EXCEPT ![t] = 0] /\ n' = [n EXCEPT ![t] = 0]
    BY <1>5 DEF ReadTail, Return, Goto
  <2>2. TypeOK'  BY <1>1, <1>2, <1>4, <2>1 DEF TypeOK, Busy
  <2>3. OthersKeep(t)  BY <1>2, <2>1 DEF OthersKeep, TypeOK
  <2>4. pc'[t] = "idle"  BY <1>2, <2>1 DEF TypeOK
  <2>5. /\ Tiled("prod")' /\ Tiled("cons")' /\ Fits'
        /\ Stored' = Stored /\ \A s \in Sides : InFlight(s)' = InFlight(s)
    BY <1>1, <2>2, <2>3, <2>4, LocalStep
  <2>6. Ready'
    <3>1. /\ Stored \in Nat /\ InFlight("cons") \in Nat /\ InFlight("prod") \in Nat
          /\ InFlight("cons")' = InFlight("cons") /\ InFlight("prod")' = InFlight("prod")
      BY <1>2, <2>5, Ranges DEF Sides
    <3> QED  BY <1>1, <2>2, <2>3, <2>4, <2>5, <3>1, ReadyStep
  <2>7. Singles'  BY <1>1, <1>2, <2>3, <2>4, SinglesStep DEF Busy
  <2> QED  BY <2>2, <2>5, <2>6, <2>7 DEF IInv
<1>6. CASE k # 0
  <2>1. /\ pc' = [pc EXCEPT ![t] = "cas"] /\ n' = [n EXCEPT ![t] = k]
        /\ UNCHANGED <<call, old_head>>
    BY <1>6 DEF ReadTail, Goto
  <2>2. TypeOK'
    <3> HIDE DEF k
    <3> QED  BY <1>1, <1>2, <1>3, <2>1 DEF TypeOK, Busy
  <2>3. OthersKeep(t)  BY <1>2, <2>1 DEF OthersKeep, TypeOK
  <2>4. pc'[t] = "cas" /\ n'[t] = k  BY <1>2, <2>1 DEF TypeOK
  <2>5. /\ Tiled("prod")' /\ Tiled("cons")' /\ Fits'
        /\ Stored' = Stored /\ \A s \in Sides : InFlight(s)' = InFlight(s)
    BY <1>1, <2>2, <2>3, <2>4, LocalStep
  <2>6. Ready'
    <3>1. /\ Stored \in Nat /\ InFlight("cons") \in Nat /\ InFlight("prod") \in Nat
          /\ InFlight("cons")' = InFlight("cons") /\ InFlight("prod")' = InFlight("prod")
      BY <1>2, <2>5, Ranges DEF Sides
    <3>2. Side(t)' = Side(t)  BY <2>1 DEF Side
    <3>3. Room(t)' = Room(t)  BY <2>5, <3>1, <3>2 DEF Room
    <3>4. n'[t] >= 1  BY <1>3, <1>6, <2>4
    <3>5. old_head'[t] = head'[Side(t)'] => n'[t] <= Room(t)'
      BY <1>1, <1>3, <2>1, <2>4, <3>2, <3>3
    <3> QED  BY <1>1, <2>2, <2>3, <2>5, <3>1, <3>4, <3>5, ReadyStep
  <2>7. Singles'
    <3>1. call[t].single => head[Side(t)] = old_head[t]  BY <1>1, <1>2 DEF IInv, Singles
    <3> QED  BY <1>1, <1>2, <2>1, <2>3, <2>4, <3>1, SinglesStep
  <2> QED  BY <2>2, <2>5, <2>6, <2>7 DEF IInv
<1> QED  BY <1>5, <1>6

(* The pointers are copied into the reserved slots, or out of them. *)
LEMMA CopyIInv ==
  ASSUME IInv, NEW t \in Threads, CopyIn(t) \/ CopyOut(t)
  PROVE  IInv'
<1>1. /\ pc[t] = "copy" /\ pc' = [pc EXCEPT ![t] = "publish"]
      /\ UNCHANGED <<head, tail, call, old_head, n>>
  BY DEF CopyIn, CopyOut, Goto
<1>2. TypeOK /\ Busy(t)  BY <1>1 DEF IInv, Busy
<1>3. TypeOK'  BY <1>1, <1>2 DEF TypeOK, Busy
<1>4. OthersKeep(t)  BY <1>1, <1>2 DEF OthersKeep, TypeOK
<1>5. pc'[t] = "publish"  BY <1>1, <1>2 DEF TypeOK
<1>6. /\ Tiled("prod")' /\ Tiled("cons")' /\ Fits'
      /\ Stored' = Stored /\ \A s \in Sides : InFlight(s)' = InFlight(s)
  BY <1>1, <1>3, <1>4, <1>5, LocalStep
<1>7. Ready'
  <2>1. /\ Stored \in Nat /\ InFlight("cons") \in Nat /\ InFlight("prod") \in Nat
        /\ InFlight("cons")' = InFlight("cons") /\ InFlight("prod")' = InFlight("prod")
    BY <1>2, <1>6, Ranges DEF Sides
  <2> QED  BY <1>1, <1>3, <1>4, <1>5, <1>6, <2>1, ReadyStep
<1>8. Singles'  BY <1>1, <1>2, <1>4, <1>5, SinglesStep
<1> QED  BY <1>3, <1>6, <1>7, <1>8 DEF IInv

(* A compare-and-set that finds the head moved. *)
LEMMA MoveHeadFails ==
  ASSUME IInv, NEW t \in Threads, pc[t] = "cas", ~call[t].single, Goto(t, "head"),
         UNCHANGED <<ring, head, tail, call, old_head, n, table>>
  PROVE  IInv'
<1>1. pc' = [pc EXCEPT ![t] = "head"]  BY DEF Goto
<1>2. TypeOK /\ Busy(t)  BY DEF IInv, Busy
<1>3. TypeOK'  BY <1>1, <1>2 DEF TypeOK, Busy
<1>4. OthersKeep(t)  BY <1>1, <1>2 DEF OthersKeep, TypeOK
<1>5. pc'[t] = "head"  BY <1>1, <1>2 DEF TypeOK
<1>6. /\ Tiled("prod")' /\ Tiled("cons")' /\ Fits'
      /\ Stored' = Stored /\ \A s \in Sides : InFlight(s)' = InFlight(s)
  BY <1>3, <1>4, <1>5, LocalStep
<1>7. Ready'
  <2>1. /\ Stored \in Nat /\ InFlight("cons") \in Nat /\ InFlight("prod") \in Nat
        /\ InFlight("cons")' = InFlight("cons") /\ InFlight("prod")' = InFlight("prod")
    BY <1>2, <1>6, Ranges DEF Sides
  <2> QED  BY <1>3, <1>4, <1>5, <1>6, <2>1, ReadyStep
<1>8. Singles'  BY <1>2, <1>4, <1>5, SinglesStep
<1> QED  BY <1>3, <1>6, <1>7, <1>8 DEF IInv

(* How a reservation of k slots changes the distances. *)
LEMMA ReserveDistances ==
  ASSUME TypeOK, Fits, NEW s \in Sides, NEW k \in Nat, UNCHANGED tail,
         head' = [head EXCEPT ![s] = (head[s] + k) % U32],
         s = "prod" => k <= Capacity - (InFlight("cons") + Stored + InFlight("prod")),
         s = "cons" => k <= Stored
  PROVE  /\ head'[s] \in Index /\ k \in Index
         /\ InFlight(s)' = InFlight(s) + k
         /\ \A x \in Sides : x # s => InFlight(x)' = InFlight(x)
         /\ s = "prod" => Stored' = Stored
         /\ s = "cons" => Stored' = Stored - k
<1>1. "prod" \in Sides /\ "cons" \in Sides /\ (s = "prod" \/ s = "cons") /\ "prod" # "cons"
  BY DEF Sides
<1>2. /\ \A x \in Sides : head[x] \in Index /\ tail[x] \in Index /\ InFlight(x) \in Index
      /\ Stored \in Index /\ Index \subseteq Nat
  BY Ranges
<1>3. U32 \in Nat /\ Capacity \in Nat /\ Capacity < U32  BY RingSizes
<1>4. PICK a \in Nat : a = InFlight("cons")  BY <1>1, <1>2
<1>5. PICK b \in Nat : b = Stored  BY <1>2
<1>6. PICK c \in Nat : c = InFlight("prod")  BY <1>1, <1>2
<1>7. a + b + c <= Capacity  BY <1>4, <1>5, <1>6 DEF Fits
<1>8. k \in Index  BY <1>1, <1>3, <1>4, <1>5, <1>6, <1>7 DEF Index
<1>9. PICK h \in Index : h = (head[s] + k) % U32  BY <1>2, <1>8, MovedIs
<1>10. head'[s] = h /\ \A x \in Sides : x # s => head'[x] = head[x]  BY <1>9 DEF TypeOK
<1>11. Ahead(tail[s], head[s]) + k < U32
  <2>1. CASE s = "prod"  BY <1>3, <1>4, <1>5, <1>6, <1>7, <2>1 DEF InFlight
  <2>2. CASE s = "cons"  BY <1>3, <1>4, <1>5, <1>6, <1>7, <2>2 DEF InFlight
  <2> QED  BY <1>1, <2>1, <2>2
<1>12. Ahead(tail[s], h) = Ahead(tail[s], head[s]) + k
  <2>1. PICK x \in Index : x = tail[s]  BY <1>2
  <2>2. PICK y \in Index : y = head[s]  BY <1>2
  <2>3. Ahead(x, y) + k < U32 => Ahead(x, (y + k) % U32) = Ahead(x, y) + k
    BY <1>8, <2>1, <2>2, AheadMoved
  <2> QED  BY <1>9, <1>11, <2>1, <2>2, <2>3
<1>13. InFlight(s)' = InFlight(s) + k
  <2>1. InFlight(s)' = Ahead(tail[s], h)  BY <1>10 DEF InFlight, Ahead
  <2> QED  BY <1>12, <2>1 DEF InFlight
<1>14. \A x \in Sides : x # s => InFlight(x)' = InFlight(x)  BY <1>10 DEF InFlight, Ahead
<1>15. ASSUME s = "prod" PROVE Stored' = Stored
  BY <1>1, <1>10, <1>15 DEF Stored, Ahead
<1>16. ASSUME s = "cons" PROVE Stored' = Stored - k
  <2>1. Stored' = Ahead(h, tail["prod"])  BY <1>10, <1>16 DEF Stored, Ahead
  <2>2. h = (head["cons"] + k) % U32 /\ k <= Ahead(head["cons"], tail["prod"])
    BY <1>9, <1>16 DEF Stored
  <2>3. Ahead(h, tail["prod"]) = Ahead(head["cons"], tail["prod"]) - k
    <3>1. PICK x \in Index : x = head["cons"]  BY <1>1, <1>2
    <3>2. PICK y \in Index : y = tail["prod"]  BY <1>1, <1>2
    <3>3. k <= Ahead(x, y) => Ahead((x + k) % U32, y) = Ahead(x, y) - k
      BY <1>8, <3>1, <3>2, AheadMoved
    <3> QED  BY <2>2, <3>1, <3>2, <3>3
  <2> QED  BY <2>1, <2>3 DEF Stored
<1> QED  BY <1>8, <1>9, <1>10, <1>13, <1>14, <1>15, <1>16

(* The head moves: a reservation is made behind all others of its side. *)
LEMMA MoveHeadReserves ==
  ASSUME IInv, NEW t \in Threads, pc[t] = "cas",
         call[t].single \/ head[Side(t)] = old_head[t],
         NoneOvertaken(t),
         head' = [head EXCEPT ![Side(t)] = (old_head[t] + n[t]) % U32],
         Goto(t, "copy"),
         UNCHANGED <<ring, tail, call, old_head, n, table>>
  PROVE  IInv'
<1>1. TypeOK /\ Busy(t)  BY DEF IInv, Busy
<1>2. /\ Side(t) \in Sides /\ old_head[t] \in Index /\ n[t] \in Nat
      /\ \A x \in Sides : head[x] \in Index /\ tail[x] \in Index /\ InFlight(x) \in Index
      /\ Stored \in Index /\ Index \subseteq Nat
  BY <1>1, Ranges
<1>3. PICK s \in Sides : s = Side(t)  BY <1>2
<1>4. PICK k \in Nat : k = n[t]  BY <1>2
<1>5. head[s] = old_head[t]  BY <1>1, <1>3 DEF IInv, Singles
<1>6. k >= 1 /\ k <= Room(t)  BY <1>3, <1>4, <1>5 DEF IInv, Ready
<1>7. head' = [head EXCEPT ![s] = (head[s] + k) % U32]  BY <1>3, <1>4, <1>5
<1>8. /\ s = "prod" => k <= Capacity - (InFlight("cons") + Stored + InFlight("prod"))
      /\ s = "cons" => k <= Stored
  BY <1>3, <1>6 DEF Room
<1>9. /\ head'[s] \in Index /\ k \in Index
      /\ InFlight(s)' = InFlight(s) + k
      /\ \A x \in Sides : x # s => InFlight(x)' = InFlight(x)
      /\ s = "prod" => Stored' = Stored
      /\ s = "cons" => Stored' = Stored - k
  <2>1. Fits  BY DEF IInv
  <2> QED  BY <1>1, <1>7, <1>8, <2>1, ReserveDistances
<1>10. "prod" \in Sides /\ "cons" \in Sides /\ (s = "prod" \/ s = "cons") /\ "prod" # "cons"
  BY DEF Sides
<1>11. PICK a \in Nat : a = InFlight("cons")  BY <1>2, <1>10
<1>12. PICK b \in Nat : b = Stored  BY <1>2
<1>13. PICK c \in Nat : c = InFlight("prod")  BY <1>2, <1>10
<1>14. Capacity \in Nat  BY RingSizes
<1>15. \/ /\ s = "prod" /\ InFlight("cons")' = a /\ Stored' = b /\ InFlight("prod")' = c + k
          /\ k <= Capacity - (a + b + c)
       \/ /\ s = "cons" /\ InFlight("cons")' = a + k /\ Stored' = b - k /\ InFlight("prod")' = c
          /\ k <= b
  BY <1>8, <1>9, <1>10, <1>11, <1>12, <1>13
<1>16. Fits'
  <2>1. a + b + c <= Capacity  BY <1>11, <1>12, <1>13 DEF IInv, Fits
  <2>2. InFlight("cons")' + Stored' + InFlight("prod")' <= Capacity
    BY <1>14, <1>15, <2>1
  <2> QED  BY <2>2 DEF Fits
<1>17. pc' = [pc EXCEPT ![t] = "copy"]  BY DEF Goto
<1>18. TypeOK'
  <2>1. head' \in [Sides -> Index]
    <3>1. (head[s] + k) % U32 \in Index  BY <1>2, <1>9, MovedIs
    <3>2. PICK h \in Index : h = (head[s] + k) % U32  BY <3>1
    <3>3. head' = [head EXCEPT ![s] = h]  BY <1>7, <3>2
    <3> QED  BY <1>1, <3>3 DEF TypeOK
  <2> QED  BY <1>1, <1>17, <2>1 DEF TypeOK, Busy
<1>19. OthersKeep(t)  BY <1>1, <1>17 DEF OthersKeep, TypeOK
<1>20. pc'[t] = "copy"  BY <1>1, <1>17 DEF TypeOK
<1>21. Singles'
  <2>1. ASSUME NEW u \in Threads, u # t, Busy(u), call[u].single
        PROVE  head'[Side(u)] = head[Side(u)]
    <3>1. Side(u) # Side(t)  BY <1>1, <2>1 DEF IInv, Singles
    <3>2. Side(u) \in Sides  BY <1>1, <2>1, Ranges
    <3> QED  BY <1>1, <1>3, <1>7, <3>1, <3>2 DEF TypeOK
  <2> QED  BY <1>1, <1>19, <1>20, <2>1, SinglesStep
<1>22. ASSUME NEW u \in Threads, pc'[u] = "cas"
       PROVE  /\ n'[u] >= 1
              /\ old_head'[u] = head'[Side(u)'] => n'[u] <= Room(u)'
  <2>1. u # t /\ pc[u] = "cas"  BY <1>19, <1>20, <1>22 DEF OthersKeep
  <2>2. Side(u)' = Side(u) /\ n'[u] = n[u] /\ old_head'[u] = old_head[u]  BY DEF Side
  <2>3. n[u] >= 1 /\ (old_head[u] = head[Side(u)] => n[u] <= Room(u))  BY <2>1 DEF IInv, Ready
  <2>4. Side(u) \in Sides /\ old_head[u] \in Index  BY <1>1, <2>1, Ranges DEF Busy
  <2>5. CASE Side(u) = s
    <3>1. Ahead(old_head[u], head[s]) + k < U32
      BY <1>3, <1>4, <2>1, <2>5 DEF NoneOvertaken, InLoop
    <3>2. Ahead(old_head[u], head[s]) \in Nat  BY <1>2, <2>4, AheadIs
    <3>3. PICK h \in Index : h = (head[s] + k) % U32 /\ h = head'[s]
      <4>1. head'[s] = (head[s] + k) % U32  BY <1>1, <1>7 DEF TypeOK
      <4> QED  BY <1>9, <4>1
    <3>4. Ahead(old_head[u], h) = Ahead(old_head[u], head[s]) + k
      BY <1>2, <1>9, <2>4, <3>1, <3>3, AheadMoved
    <3>5. Ahead(old_head[u], h) # 0  BY <1>6, <3>2, <3>4
    <3>6. old_head[u] # h  BY <2>4, <3>3, <3>5, AheadAdds
    <3> QED  BY <2>2, <2>3, <2>5, <3>3, <3>6
  <2>6. CASE Side(u) # s
    <3>1. head'[Side(u)] = head[Side(u)]  BY <1>1, <1>7, <2>4, <2>6 DEF TypeOK
    <3>2. Room(u)' = Room(u)
      <4>1. CASE s = "prod"
        <5>1. Side(u) = "cons"  BY <2>4, <2>6, <4>1 DEF Sides
        <5> QED  BY <1>10, <1>12, <1>15, <2>2, <4>1, <5>1 DEF Room
      <4>2. CASE s = "cons"
        <5>1. Side(u) = "prod"  BY <2>4, <2>6, <4>2 DEF Sides
        <5>2. Room(u) = Capacity - (a + b + c)  BY <5>1, <1>11, <1>12, <1>13 DEF Room
        <5>3. Room(u)' = Capacity - ((a + k) + (b - k) + c)
          BY <1>10, <1>15, <2>2, <4>2, <5>1 DEF Room
        <5> QED  BY <1>14, <5>2, <5>3
      <4> QED  BY <1>10, <4>1, <4>2
    <3> QED  BY <2>2, <2>3, <3>1, <3>2
  <2> QED  BY <2>5, <2>6
<1>23. Ready'  BY <1>22 DEF Ready
<1>24. ASSUME NEW x \in Sides, Tiled(x) PROVE Tiled(x)'
  <2>1. \A u \in Threads : u # t =>
           /\ Res(u, x)' <=> Res(u, x)
           /\ From(u)' = From(u) /\ n'[u] = n[u]
    BY <1>19 DEF OthersKeep, Res, From, Side, Ahead
  <2>2. CASE x # s
    <3>1. ~Res(t, x) /\ ~Res(t, x)'  BY <1>3, <2>2 DEF Res, Side
    <3>2. InFlight(x)' = InFlight(x)  BY <1>9, <2>2
    <3> QED  BY <1>24, <2>1, <3>1, <3>2 DEF Tiled
  <2>3. CASE x = s
    <3>1. ~Res(t, s) /\ Res(t, s)' /\ n'[t] = k /\ From(t)' = InFlight(s)
      <4>1. Side(t)' = s /\ old_head'[t] = head[s]  BY <1>3, <1>5 DEF Side
      <4> QED  BY <1>4, <1>20, <4>1 DEF Res, From, InFlight, Side, Ahead
    <3>2. PICK q \in Nat : q = InFlight(s)  BY <1>2
    <3>3. InFlight(s)' = q + k  BY <1>9, <3>2
    <3>4. \A u \in Threads : Res(u, s) => From(u) \in Nat /\ n[u] \in Nat
      BY <1>1, Ranges DEF Res, Busy
    <3>5. Tiled(s)  BY <1>24, <2>3
    <3>6. ASSUME NEW u \in Threads, Res(u, s)'
          PROVE  n'[u] >= 1 /\ From(u)' + n'[u] <= q + k
      <4>1. CASE u = t  BY <1>6, <3>1, <3>2, <4>1
      <4>2. CASE u # t
        <5>1. Res(u, s) /\ From(u)' = From(u) /\ n'[u] = n[u]  BY <2>1, <2>3, <3>6, <4>2
        <5> QED  BY <3>2, <3>4, <3>5, <5>1 DEF Tiled
      <4> QED  BY <4>1, <4>2
    <3>7. ASSUME NEW u \in Threads, NEW w \in Threads, Res(u, s)', Res(w, s)', u # w
          PROVE  From(u)' + n'[u] <= From(w)' \/ From(w)' + n'[w] <= From(u)'
      <4>1. \A y \in Threads : y # t /\ Res(y, s)' =>
                Res(y, s) /\ From(y)' = From(y) /\ n'[y] = n[y] /\ From(y) + n[y] <= q
        BY <2>1, <2>3, <3>2, <3>5 DEF Tiled
      <4>2. CASE u = t  BY <3>1, <3>2, <3>7, <4>1, <4>2
      <4>3. CASE w = t  BY <3>1, <3>2, <3>7, <4>1, <4>3
      <4>4. CASE u # t /\ w # t
        <5>1. /\ Res(u, s) /\ From(u)' = From(u) /\ n'[u] = n[u]
              /\ Res(w, s) /\ From(w)' = From(w) /\ n'[w] = n[w]
          BY <3>7, <4>1, <4>4
        <5>2. From(u) + n[u] <= From(w) \/ From(w) + n[w] <= From(u)
          BY <3>5, <3>7, <5>1 DEF Tiled
        <5> QED  BY <5>1, <5>2
      <4> QED  BY <4>2, <4>3, <4>4
    <3>8. ASSUME NEW y \in 0 .. (q + k) - 1
          PROVE  \E u \in Threads : Res(u, s)' /\ y \in From(u)' .. From(u)' + n'[u] - 1
      <4>1. CASE y < q
        <5>1. y \in 0 .. InFlight(s) - 1  BY <3>2, <4>1
        <5>2. PICK u \in Threads : Res(u, s) /\ y \in From(u) .. From(u) + n[u] - 1
          BY <3>5, <5>1 DEF Tiled
        <5>3. u # t  BY <3>1, <5>2
        <5>4. Res(u, s)' /\ From(u)' = From(u) /\ n'[u] = n[u]  BY <2>1, <2>3, <5>2, <5>3
        <5> QED  BY <5>2, <5>4
      <4>2. CASE ~(y < q)
        <5>1. y \in From(t)' .. From(t)' + n'[t] - 1  BY <3>1, <3>2, <4>2
        <5> QED  BY <3>1, <5>1
      <4> QED  BY <4>1, <4>2
    <3> QED  BY <2>3, <3>3, <3>6, <3>7, <3>8 DEF Tiled
  <2> QED  BY <2>2, <2>3
<1> QED  BY <1>10, <1>16, <1>18, <1>21, <1>23, <1>24 DEF IInv

(* How publishing k slots changes the distances. *)
LEMMA PublishDistances ==
  ASSUME TypeOK, Fits, NEW s \in Sides, NEW k \in Nat, UNCHANGED head,
         tail' = [tail EXCEPT ![s] = (tail[s] + k) % U32],
         k <= InFlight(s)
  PROVE  /\ tail'[s] \in Index /\ k \in Index
         /\ InFlight(s)' = InFlight(s) - k
         /\ \A x \in Sides : x # s => InFlight(x)' = InFlight(x)
         /\ s = "prod" => Stored' = Stored + k
         /\ s = "cons" => Stored' = Stored
<1>1. "prod" \in Sides /\ "cons" \in Sides /\ (s = "prod" \/ s = "cons") /\ "prod" # "cons"
  BY DEF Sides
<1>2. /\ \A x \in Sides : head[x] \in Index /\ tail[x] \in Index /\ InFlight(x) \in Index
      /\ Stored \in Index /\ Index \subseteq Nat
  BY Ranges
<1>3. U32 \in Nat /\ Capacity \in Nat /\ Capacity < U32  BY RingSizes
<1>4. PICK a \in Nat : a = InFlight("cons")  BY <1>1, <1>2
<1>5. PICK b \in Nat : b = Stored  BY <1>2
<1>6. PICK c \in Nat : c = InFlight("prod")  BY <1>1, <1>2
<1>7. a + b + c <= Capacity  BY <1>4, <1>5, <1>6 DEF Fits
<1>8. k \in Index
  <2>1. InFlight(s) \in Index  BY <1>2
  <2> QED  BY <1>3, <2>1 DEF Index
<1>9. PICK h \in Index : h = (tail[s] + k) % U32  BY <1>2, <1>8, MovedIs
<1>10. tail'[s] = h /\ \A x \in Sides : x # s => tail'[x] = tail[x]  BY <1>9 DEF TypeOK
<1>11. InFlight(s)' = InFlight(s) - k
  <2>1. InFlight(s)' = Ahead(h, head[s])  BY <1>10 DEF InFlight, Ahead
  <2>2. PICK x \in Index : x = tail[s]  BY <1>2
  <2>3. PICK y \in Index : y = head[s]  BY <1>2
  <2>4. k <= Ahead(x, y) => Ahead((x + k) % U32, y) = Ahead(x, y) - k
    BY <1>8, <2>2, <2>3, AheadMoved
  <2>5. k <= Ahead(x, y) /\ InFlight(s) = Ahead(x, y)  BY <2>2, <2>3 DEF InFlight
  <2> QED  BY <1>9, <2>1, <2>2, <2>3, <2>4, <2>5
<1>12. \A x \in Sides : x # s => InFlight(x)' = InFlight(x)  BY <1>10 DEF InFlight, Ahead
<1>13. ASSUME s = "cons" PROVE Stored' = Stored
  BY <1>1, <1>10, <1>13 DEF Stored, Ahead
<1>14. ASSUME s = "prod" PROVE Stored' = Stored + k
  <2>1. Stored' = Ahead(head["cons"], h)  BY <1>10, <1>14 DEF Stored, Ahead
  <2>2. PICK x \in Index : x = head["cons"]  BY <1>1, <1>2
  <2>3. PICK y \in Index : y = tail["prod"]  BY <1>1, <1>2
  <2>4. Ahead(x, y) + k < U32 => Ahead(x, (y + k) % U32) = Ahead(x, y) + k
    BY <1>8, <2>2, <2>3, AheadMoved
  <2>5. Ahead(x, y) = b  BY <1>5, <2>2, <2>3 DEF Stored
  <2>6. b + k < U32  BY <1>3, <1>6, <1>7, <1>14
  <2> QED  BY <1>5, <1>9, <1>14, <2>1, <2>2, <2>3, <2>4, <2>5, <2>6
<1> QED  BY <1>8, <1>9, <1>10, <1>11, <1>12, <1>13, <1>14

(* A call that publishes is the one right behind the tail: it waited for   *)
(* that, or it is alone.                                                   *)
LEMMA PublisherIsFirst ==
  ASSUME IInv, NEW t \in Threads, pc[t] = "publish",
         call[t].single \/ tail[Side(t)] = old_head[t]
  PROVE  /\ tail[Side(t)] = old_head[t] /\ From(t) = 0
         /\ n[t] >= 1 /\ n[t] <= InFlight(Side(t))
<1>1. TypeOK /\ Busy(t)  BY DEF IInv, Busy
<1>2. /\ Side(t) \in Sides /\ old_head[t] \in Index /\ n[t] \in Nat /\ From(t) \in Index
      /\ tail[Side(t)] \in Index /\ InFlight(Side(t)) \in Index /\ Index \subseteq Nat
  BY <1>1, Ranges
<1>3. Tiled(Side(t)) /\ Res(t, Side(t))  BY <1>2 DEF IInv, Sides, Res
<1>4. n[t] >= 1 /\ From(t) + n[t] <= InFlight(Side(t))  BY <1>3 DEF Tiled
<1>5. From(t) = 0 <=> tail[Side(t)] = old_head[t]  BY <1>2, AheadAdds, ZenonT(60) DEF From
<1>6. ASSUME call[t].single PROVE From(t) = 0
  <2>0. From(t) \in Nat /\ InFlight(Side(t)) \in Nat  BY <1>2
  <2>1. 0 \in 0 .. InFlight(Side(t)) - 1  BY <1>2, <1>4, <2>0
  <2>2. PICK u \in Threads : Res(u, Side(t)) /\ 0 \in From(u) .. From(u) + n[u] - 1
    BY <1>3, <2>1 DEF Tiled
  <2>3. Busy(u) /\ Side(u) = Side(t)  BY <2>2 DEF Res, Busy
  <2>4. u = t  BY <1>1, <1>6, <2>3 DEF IInv, Singles
  <2> QED  BY <1>2, <2>0, <2>2, <2>4
<1>7. From(t) = 0  BY <1>5, <1>6
<1> QED  BY <1>2, <1>4, <1>5, <1>7

(* The tail moves: the first reservation of its side ends. *)
LEMMA UpdateTailIInv ==
  ASSUME IInv, NEW t \in Threads, UpdateTail(t)
  PROVE  IInv'
<1>1. TypeOK /\ Busy(t) /\ pc[t] = "publish"  BY DEF IInv, Busy, UpdateTail
<1>2. /\ pc' = [pc EXCEPT ![t] = "idle"] /\ call' = [call EXCEPT ![t] = NULL]
      /\ old_head' = [old_head EXCEPT ![t] = 0] /\ n' = [n EXCEPT ![t] = 0]
      /\ UNCHANGED <<ring, head>>
  BY DEF UpdateTail, Return, Goto
<1>3. /\ Side(t) \in Sides /\ n[t] \in Nat
      /\ \A x \in Sides : head[x] \in Index /\ tail[x] \in Index /\ InFlight(x) \in Index
      /\ Stored \in Index /\ Index \subseteq Nat
  BY <1>1, Ranges
<1>4. PICK s \in Sides : s = Side(t)  BY <1>3
<1>5. PICK k \in Nat : k = n[t]  BY <1>3
<1>6. tail[s] = old_head[t] /\ From(t) = 0 /\ k >= 1 /\ k <= InFlight(s)
  BY <1>1, <1>4, <1>5, PublisherIsFirst DEF UpdateTail
<1>7. tail' = [tail EXCEPT ![s] = (tail[s] + k) % U32]  BY <1>4, <1>5, <1>6 DEF UpdateTail
<1>8. /\ tail'[s] \in Index /\ k \in Index
      /\ InFlight(s)' = InFlight(s) - k
      /\ \A x \in Sides : x # s => InFlight(x)' = InFlight(x)
      /\ s = "prod" => Stored' = Stored + k
      /\ s = "cons" => Stored' = Stored
  <2>1. Fits  BY DEF IInv
  <2> QED  BY <1>1, <1>2, <1>6, <1>7, <2>1, PublishDistances
<1>9. "prod" \in Sides /\ "cons" \in Sides /\ (s = "prod" \/ s = "cons") /\ "prod" # "cons"
  BY DEF Sides
<1>10. PICK a \in Nat : a = InFlight("cons")  BY <1>3, <1>9
<1>11. PICK b \in Nat : b = Stored  BY <1>3
<1>12. PICK c \in Nat : c = InFlight("prod")  BY <1>3, <1>9
<1>13. Capacity \in Nat  BY RingSizes
<1>14. \/ /\ s = "prod" /\ InFlight("cons")' = a /\ Stored' = b + k /\ InFlight("prod")' = c - k
       \/ /\ s = "cons" /\ InFlight("cons")' = a - k /\ Stored' = b /\ InFlight("prod")' = c
  BY <1>8, <1>9, <1>10, <1>11, <1>12
<1>15. /\ Stored' >= Stored
       /\ InFlight("cons")' + Stored' + InFlight("prod")' <= InFlight("cons") + Stored + InFlight("prod")
  BY <1>10, <1>11, <1>12, <1>14
<1>16. Fits'
  <2>1. a + b + c <= Capacity  BY <1>10, <1>11, <1>12 DEF IInv, Fits
  <2>2. InFlight("cons")' + Stored' + InFlight("prod")' <= Capacity  BY <1>13, <1>14, <2>1
  <2> QED  BY <2>2 DEF Fits
<1>17. TypeOK'
  <2>1. tail' \in [Sides -> Index]
    <3>1. (tail[s] + k) % U32 \in Index  BY <1>3, <1>8, MovedIs
    <3>2. PICK h \in Index : h = (tail[s] + k) % U32  BY <3>1
    <3>3. tail' = [tail EXCEPT ![s] = h]  BY <1>7, <3>2
    <3> QED  BY <1>1, <3>3 DEF TypeOK
  <2>2. 0 \in Index  BY RingSizes DEF Index
  <2> QED  BY <1>1, <1>2, <2>1, <2>2 DEF TypeOK, Busy
<1>18. OthersKeep(t)  BY <1>1, <1>2 DEF OthersKeep, TypeOK
<1>19. pc'[t] = "idle"  BY <1>1, <1>2 DEF TypeOK
<1>20. Ready'  BY <1>2, <1>15, <1>17, <1>18, <1>19, ReadyStep
<1>21. Singles'  BY <1>1, <1>2, <1>18, <1>19, SinglesStep DEF Busy
<1>22. ASSUME NEW x \in Sides, Tiled(x) PROVE Tiled(x)'
  <2>1. \A u \in Threads : u # t =>
           (Res(u, x)' <=> Res(u, x)) /\ n'[u] = n[u]
    BY <1>18 DEF OthersKeep, Res, Side
  <2>2. ~Res(t, x)'  BY <1>19 DEF Res
  <2>3. CASE x # s
    <3>1. ~Res(t, x)  BY <1>4, <2>3 DEF Res
    <3>2. InFlight(x)' = InFlight(x) /\ tail'[x] = tail[x]  BY <1>1, <1>7, <1>8, <2>3 DEF TypeOK
    <3>3. \A u \in Threads : u # t /\ Res(u, x) => From(u)' = From(u)
      BY <1>18, <3>2 DEF OthersKeep, Res, Side, From, Ahead
    <3> QED  BY <1>22, <2>1, <2>2, <3>1, <3>2, <3>3 DEF Tiled
  <2>4. CASE x = s
    <3>1. Tiled(s) /\ Res(t, s) /\ n[t] = k /\ From(t) = 0
      BY <1>1, <1>4, <1>5, <1>6, <1>22, <2>4 DEF Res
    <3>2. PICK q \in Nat : q = InFlight(s)  BY <1>3
    <3>3. InFlight(s)' = q - k /\ k <= q  BY <1>6, <1>8, <3>2
    <3>4. \A u \in Threads : Res(u, s) => From(u) \in Nat /\ n[u] \in Nat /\ old_head[u] \in Index
      BY <1>1, Ranges DEF Res, Busy
    <3>5. ASSUME NEW u \in Threads, u # t, Res(u, s)
          PROVE  k <= From(u) /\ From(u)' = From(u) - k
      <4>1. From(t) + n[t] <= From(u) \/ From(u) + n[u] <= From(t)  BY <3>1, <3>5 DEF Tiled
      <4>2. n[u] >= 1  BY <3>1, <3>5 DEF Tiled
      <4>3. k <= From(u)  BY <3>1, <3>4, <3>5, <4>1, <4>2
      <4>4. Side(u) = s /\ Side(u)' = s /\ old_head'[u] = old_head[u]
        BY <1>18, <3>5 DEF OthersKeep, Res, Side
      <4>5. PICK y \in Index : y = tail[s]  BY <1>3
      <4>6. PICK z \in Index : z = old_head[u]  BY <3>4, <3>5
      <4>7. k <= Ahead(y, z) => Ahead((y + k) % U32, z) = Ahead(y, z) - k
        BY <1>8, <4>5, <4>6, AheadMoved
      <4>8. From(u) = Ahead(y, z)  BY <4>4, <4>5, <4>6 DEF From
      <4>9. tail'[s] = (y + k) % U32  BY <1>1, <1>7, <4>5 DEF TypeOK
      <4>10. From(u)' = Ahead((y + k) % U32, z)  BY <4>4, <4>6, <4>9 DEF From, Ahead
      <4> QED  BY <4>3, <4>7, <4>8, <4>10
    <3>6. \A u \in Threads : Res(u, s)' =>
             /\ u # t /\ Res(u, s) /\ n'[u] = n[u] /\ From(u) \in Nat /\ n[u] \in Nat
             /\ k <= From(u) /\ From(u)' = From(u) - k
      BY <2>1, <2>2, <2>4, <3>4, <3>5
    <3>7. ASSUME NEW u \in Threads, Res(u, s)'
          PROVE  n'[u] >= 1 /\ From(u)' + n'[u] <= q - k
      BY <3>1, <3>2, <3>6, <3>7 DEF Tiled
    <3>8. ASSUME NEW u \in Threads, NEW w \in Threads, Res(u, s)', Res(w, s)', u # w
          PROVE  From(u)' + n'[u] <= From(w)' \/ From(w)' + n'[w] <= From(u)'
      <4>1. From(u) + n[u] <= From(w) \/ From(w) + n[w] <= From(u)
        BY <3>1, <3>6, <3>8 DEF Tiled
      <4> QED  BY <3>6, <3>8, <4>1
    <3>9. ASSUME NEW y \in 0 .. (q - k) - 1
          PROVE  \E u \in Threads : Res(u, s)' /\ y \in From(u)' .. From(u)' + n'[u] - 1
      <4>1. y + k \in 0 .. InFlight(s) - 1  BY <3>2
      <4>2. PICK u \in Threads : Res(u, s) /\ y + k \in From(u) .. From(u) + n[u] - 1
        BY <3>1, <4>1 DEF Tiled
      <4>3. u # t  BY <3>1, <4>2
      <4>4. Res(u, s)'  BY <2>1, <2>4, <4>2, <4>3
      <4> QED  BY <3>6, <4>2, <4>4
    <3> QED  BY <2>4, <3>3, <3>7, <3>8, <3>9 DEF Tiled
  <2> QED  BY <2>3, <2>4
<1> QED  BY <1>9, <1>16, <1>17, <1>20, <1>21, <1>22 DEF IInv

(* The head of the ring moves, or its move fails. *)
LEMMA MoveHeadIInv ==
  ASSUME IInv, NEW t \in Threads, MoveHead(t)
  PROVE  IInv'
<1>1. pc[t] = "cas" /\ UNCHANGED <<ring, tail, call, old_head, n, table>>  BY DEF MoveHead
<1>2. CASE /\ call[t].single \/ head[Side(t)] = old_head[t]
           /\ NoneOvertaken(t)
           /\ head' = [head EXCEPT ![Side(t)] = (old_head[t] + n[t]) % U32]
           /\ Goto(t, "copy")
  BY <1>1, <1>2, MoveHeadReserves
<1>3. CASE ~call[t].single /\ head[Side(t)] # old_head[t] /\ Goto(t, "head") /\ UNCHANGED head
  BY <1>1, <1>3, MoveHeadFails
<1> QED  BY <1>2, <1>3 DEF MoveHead

(* rte_ring_init establishes the invariant. *)
LEMMA InitIInv ==
  ASSUME Init
  PROVE  IInv
<1>1. 0 \in Index /\ U32 \in Nat \ {0} /\ Capacity \in Nat  BY RingSizes DEF Index
<1>2. TypeOK  BY <1>1 DEF Init, TypeOK, Busy
<1>3. \A t \in Threads : pc[t] = "idle"  BY DEF Init
<1>4. Ahead(0, 0) = 0  BY <1>1, AheadAdds
<1>5. Stored = 0 /\ \A s \in Sides : InFlight(s) = 0  BY <1>4 DEF Init, Stored, InFlight, Sides
<1>6. \A s \in Sides : Tiled(s)  BY <1>3, <1>5 DEF Tiled, Res
<1>7. InFlight("cons") = 0 /\ InFlight("prod") = 0 /\ Tiled("prod") /\ Tiled("cons")
  BY <1>5, <1>6 DEF Sides
<1>8. Fits  BY <1>1, <1>5, <1>7 DEF Fits
<1> QED  BY <1>2, <1>3, <1>7, <1>8 DEF IInv, Singles, Ready, Busy

(* The invariant is preserved by every step. *)
LEMMA NextIInv ==
  ASSUME IInv, [Next]_vars
  PROVE  IInv'
<1>1. CASE UNCHANGED vars
  BY <1>1 DEF vars, IInv, TypeOK, Singles, Tiled, Fits, Ready, Busy, Side, Res, From, InFlight,
              Stored, Room, Ahead
<1>2. CASE Next
  <2>1. PICK t \in Threads : Begin(t) \/ Step(t)  BY <1>2 DEF Next
  <2>2. CASE Begin(t)  BY <2>2, BeginIInv
  <2>3. CASE ReadHead(t)  BY <2>3, ReadHeadIInv
  <2>4. CASE ReadTail(t)  BY <2>4, ReadTailIInv
  <2>5. CASE MoveHead(t)  BY <2>5, MoveHeadIInv
  <2>6. CASE CopyIn(t) \/ CopyOut(t)  BY <2>6, CopyIInv
  <2>7. CASE UpdateTail(t)  BY <2>7, UpdateTailIInv
  <2> QED  BY <2>1, <2>2, <2>3, <2>4, <2>5, <2>6, <2>7 DEF Step
<1> QED  BY <1>1, <1>2

(* The invariant holds throughout. *)
THEOREM RingInvariant == Spec => []IInv
<1>1. Init => IInv  BY InitIInv
<1>2. IInv /\ [Next]_vars => IInv'  BY NextIInv
<1> QED  BY <1>1, <1>2, PTL DEF Spec

(* The reservations of each side of the ring tile what lies between its    *)
(* tail and its head, and consumers' reservations, stored objects and      *)
(* producers' reservations never exceed the capacity: no two threads ever  *)
(* copy into or out of one slot, for any number of threads and any width   *)
(* of the indices.                                                         *)
THEOREM RingReservations == Spec => []Reservations
<1>1. IInv => Reservations  BY TiledReservations
<1> QED  BY <1>1, RingInvariant, PTL

(***************************************************************************)
(* The slots behind the indices.                                           *)
(***************************************************************************)

(* The i-th slot from an index on. *)
Slot(from, i) == (from + (i - 1)) % Size

(* A multiple of the size more or less is the same slot. *)
LEMMA ModShift ==
  ASSUME NEW s \in Nat \ {0}, NEW x \in Int, NEW p \in Int
  PROVE  (x - s * p) % s = x % s
<1>1. PICK q \in Int, r \in 0 .. s - 1 : x = s * q + r /\ x % s = r  BY IntDivMod
<1>2. PICK y \in Int : y = x - s * p  OBVIOUS
<1>3. y = s * (q - p) + r
  <2>1. y = s * q - s * p + r  BY <1>1, <1>2
  <2>2. s * q - s * p = s * (q - p)  BY SMT
  <2> QED  BY <2>1, <2>2
<1>4. PICK z \in Int : z = q - p  OBVIOUS
<1>5. y % s = r  BY <1>3, <1>4, IntModIs
<1> QED  BY <1>1, <1>2, <1>5

(* A wrap of the index is no jump among the slots, because the size        *)
(* divides the range of the index.                                         *)
LEMMA SlotMoved ==
  ASSUME NEW a \in Index, NEW k \in Index, NEW i \in Nat \ {0}
  PROVE  Slot((a + k) % U32, i) = Slot(a, k + i)
<1>1. Size \in Nat \ {0} /\ U32 \in Nat  BY RingSizes
<1>2. PICK m \in Int : U32 = Size * m
  <2>1. U32 = Size * (U32 \div Size) + (U32 % Size) /\ U32 \div Size \in Int  BY <1>1, IntDivMod
  <2>2. U32 % Size = 0  BY RingAssumption
  <2>3. PICK m \in Int : m = U32 \div Size  BY <2>1
  <2>4. U32 = Size * m + 0  BY <2>1, <2>2, <2>3
  <2>5. Size * m \in Int  BY <1>1
  <2> QED  BY <2>4, <2>5
<1>3. PICK b \in Index : b = (a + k) % U32  BY MovedIs
<1>4. b = IF a + k < U32 THEN a + k ELSE a + k - U32  BY <1>3, MovedIs
<1>5. a \in Nat /\ k \in Nat /\ b \in Nat  BY DEF Index
<1>6. PICK x \in Int : x = a + ((k + i) - 1)  BY <1>5
<1>7. CASE a + k < U32
  <2>1. b + (i - 1) = x  BY <1>4, <1>5, <1>6, <1>7
  <2> QED  BY <1>3, <1>6, <2>1 DEF Slot
<1>8. CASE ~(a + k < U32)
  <2>1. b + (i - 1) = x - Size * m  BY <1>1, <1>2, <1>4, <1>5, <1>6, <1>8
  <2>2. (x - Size * m) % Size = x % Size  BY <1>1, ModShift
  <2> QED  BY <1>3, <1>6, <2>1, <2>2 DEF Slot
<1> QED  BY <1>7, <1>8

(* The same from an index behind. *)
LEMMA SlotFrom ==
  ASSUME NEW a \in Index, NEW b \in Index, NEW i \in Nat \ {0}
  PROVE  Slot(b, i) = Slot(a, Ahead(a, b) + i)
<1>1. PICK d \in Index : d = Ahead(a, b)  BY AheadIs
<1>2. d = IF b >= a THEN b - a ELSE b - a + U32  BY <1>1, AheadIs
<1>3. (a + d) % U32 = IF a + d < U32 THEN a + d ELSE a + d - U32  BY MovedIs
<1>4. U32 \in Nat  BY RingSizes
<1>5. (a + d) % U32 = b  BY <1>2, <1>3, <1>4 DEF Index
<1>6. Slot((a + d) % U32, i) = Slot(a, d + i)  BY SlotMoved
<1> QED  BY <1>1, <1>5, <1>6

(* Less than a lap apart, two positions have two slots. *)
LEMMA SlotsDiffer ==
  ASSUME NEW a \in Index, NEW i \in 1 .. Capacity, NEW j \in 1 .. Capacity, i # j
  PROVE  Slot(a, i) # Slot(a, j)
<1>1. Size \in Nat \ {0} /\ Capacity \in Nat /\ Capacity < Size  BY RingSizes
<1>2. SUFFICES ASSUME Slot(a, i) = Slot(a, j) PROVE FALSE
  OBVIOUS
<1>3. PICK x \in Int, y \in Int : x = a + (i - 1) /\ y = a + (j - 1)
  <2>1. a \in Int /\ i \in Int /\ j \in Int  BY <1>1 DEF Index
  <2> QED  BY <2>1
<1>4. PICK p \in Int, r \in 0 .. Size - 1 : x = Size * p + r /\ x % Size = r  BY <1>1, IntDivMod
<1>5. PICK q \in Int, z \in 0 .. Size - 1 : y = Size * q + z /\ y % Size = z  BY <1>1, IntDivMod
<1>6. r = z  BY <1>2, <1>3, <1>4, <1>5 DEF Slot
<1>7. x - y = Size * (p - q)
  <2>1. x - y = Size * p - Size * q  BY <1>1, <1>4, <1>5, <1>6
  <2>2. Size * p - Size * q = Size * (p - q)  BY <1>1, SMT
  <2> QED  BY <2>1, <2>2
<1>8. x - y = i - j  BY <1>1, <1>3 DEF Index
<1>9. i - j \in Int /\ i - j # 0 /\ i - j < Size /\ j - i < Size  BY <1>1
<1>10. PICK m \in Int : m = p - q  OBVIOUS
<1>11. i - j = Size * m  BY <1>7, <1>8, <1>10
<1>12. CASE m >= 1
  <2>1. Size * m >= Size  BY <1>1, <1>12
  <2> QED  BY <1>1, <1>9, <1>11, <2>1
<1>13. CASE m <= -1
  <2>1. Size * m <= -Size  BY <1>1, <1>13
  <2> QED  BY <1>1, <1>9, <1>11, <2>1
<1>14. CASE m = 0  BY <1>1, <1>9, <1>11, <1>14
<1> QED  BY <1>12, <1>13, <1>14

Vals == Objs \cup {NULL}

(* What the k slots of r from an index on hold. *)
Read(r, from, k) == [i \in 1 .. k |-> r[Slot(from, i)]]

(* A slot is one of the ring's. *)
LEMMA SlotRange ==
  ASSUME NEW a \in Index, NEW i \in Nat \ {0}
  PROVE  Slot(a, i) \in 0 .. Size - 1
<1>1. Size \in Nat \ {0} /\ a \in Nat  BY RingSizes DEF Index
<1>2. PICK x \in Int : x = a + (i - 1)  BY <1>1
<1>3. x % Size \in 0 .. Size - 1  BY <1>1, IntDivMod
<1> QED  BY <1>2, <1>3 DEF Slot

(* It is a sequence of that length. *)
LEMMA ReadIs ==
  ASSUME NEW r \in [0 .. Size - 1 -> Vals], NEW a \in Index, NEW k \in Nat
  PROVE  /\ Read(r, a, k) \in Seq(Vals) /\ Len(Read(r, a, k)) = k
         /\ \A i \in 1 .. k : Read(r, a, k)[i] = r[Slot(a, i)]
<1>1. \A i \in 1 .. k : Slot(a, i) \in 0 .. Size - 1  BY SlotRange
<1>2. \A i \in 1 .. k : r[Slot(a, i)] \in Vals  BY <1>1
<1>3. Read(r, a, k) \in [1 .. k -> Vals]  BY <1>2 DEF Read
<1>4. Read(r, a, k) \in Seq(Vals) /\ Len(Read(r, a, k)) = k
  <2>1. PICK f \in [1 .. k -> Vals] : f = Read(r, a, k)  BY <1>3
  <2>2. f \in Seq(Vals) /\ Len(f) = k  OBVIOUS
  <2> QED  BY <2>1, <2>2
<1>5. \A i \in 1 .. k : Read(r, a, k)[i] = r[Slot(a, i)]  BY DEF Read
<1> QED  BY <1>4, <1>5

(* A part of a sequence: the elements from m + 1 on. *)
LEMMA SubSeqIs ==
  ASSUME NEW S, NEW s \in Seq(S), NEW m \in Nat, NEW e \in Nat, m <= e, e <= Len(s)
  PROVE  /\ SubSeq(s, m + 1, e) \in Seq(S) /\ Len(SubSeq(s, m + 1, e)) = e - m
         /\ \A i \in 1 .. e - m : SubSeq(s, m + 1, e)[i] = s[m + i]
<1>1. SubSeq(s, m + 1, e) \in Seq(S)  OBVIOUS
<1>2. Len(SubSeq(s, m + 1, e)) = e - m  OBVIOUS
<1>3. \A i \in 1 .. e - m : SubSeq(s, m + 1, e)[i] = s[m + i]  OBVIOUS
<1> QED  BY <1>1, <1>2, <1>3, Zenon

(* The first e elements. *)
LEMMA PrefixIs ==
  ASSUME NEW S, NEW s \in Seq(S), NEW e \in Nat, e <= Len(s)
  PROVE  /\ SubSeq(s, 1, e) \in Seq(S) /\ Len(SubSeq(s, 1, e)) = e
         /\ \A i \in 1 .. e : SubSeq(s, 1, e)[i] = s[i]
<1>1. SubSeq(s, 1, e) \in Seq(S)  OBVIOUS
<1>2. Len(SubSeq(s, 1, e)) = e  OBVIOUS
<1>3. \A i \in 1 .. e : SubSeq(s, 1, e)[i] = s[i]  OBVIOUS
<1> QED  BY <1>1, <1>2, <1>3, Zenon

(* The first k of b objects, and those behind them. *)
LEMMA ReadSplits ==
  ASSUME NEW r \in [0 .. Size - 1 -> Vals], NEW a \in Index, NEW b \in Nat,
         NEW k \in Index, k <= b
  PROVE  /\ Read(r, a, k) = SubSeq(Read(r, a, b), 1, k)
         /\ Read(r, (a + k) % U32, b - k) = SubSeq(Read(r, a, b), k + 1, b)
<1>0. k \in Nat /\ b - k \in Nat /\ k + 1 \in Nat  BY DEF Index
<1>1. PICK q \in Seq(Vals) : /\ q = Read(r, a, b) /\ Len(q) = b
                             /\ \A i \in 1 .. b : q[i] = r[Slot(a, i)]
  BY ReadIs
<1>3. Read(r, a, k) = SubSeq(q, 1, k)
  <2>1. PICK x \in Seq(Vals) : /\ x = Read(r, a, k) /\ Len(x) = k
                               /\ \A i \in 1 .. k : x[i] = r[Slot(a, i)]
    BY <1>0, ReadIs
  <2>2. k <= Len(q)  BY <1>1
  <2>3. PICK y : y = SubSeq(q, 1, k)  OBVIOUS
  <2>4. y \in Seq(Vals) /\ Len(y) = k /\ \A i \in 1 .. k : y[i] = q[i]
    BY <1>0, <2>2, <2>3, PrefixIs, Zenon
  <2>5. \A i \in 1 .. k : x[i] = y[i]  BY <1>0, <1>1, <2>1, <2>4
  <2>6. x = y  BY <2>1, <2>4, <2>5, SeqEqual
  <2> QED  BY <2>1, <2>3, <2>6
<1>4. Read(r, (a + k) % U32, b - k) = SubSeq(q, k + 1, b)
  <2>0. PICK h \in Index : h = (a + k) % U32  BY MovedIs
  <2>1. PICK x \in Seq(Vals) : /\ x = Read(r, h, b - k) /\ Len(x) = b - k
                               /\ \A i \in 1 .. b - k : x[i] = r[Slot(h, i)]
    BY <1>0, ReadIs
  <2>2. b <= Len(q)  BY <1>1
  <2>3. PICK y : y = SubSeq(q, k + 1, b)  OBVIOUS
  <2>4. y \in Seq(Vals) /\ Len(y) = b - k /\ \A i \in 1 .. b - k : y[i] = q[k + i]
    BY <1>0, <2>2, <2>3, SubSeqIs, ZenonT(60)
  <2>5. ASSUME NEW i \in 1 .. b - k PROVE x[i] = y[i]
    <3>1. y[i] = q[k + i] /\ k + i \in 1 .. b  BY <1>0, <2>4
    <3>2. q[k + i] = r[Slot(a, k + i)]  BY <1>1, <3>1
    <3>3. i \in Nat \ {0}  BY <1>0
    <3>4. Slot(h, i) = Slot(a, k + i)  BY <2>0, <3>3, SlotMoved
    <3> QED  BY <2>1, <3>1, <3>2, <3>4
  <2>6. x = y  BY <2>1, <2>4, <2>5, SeqEqual
  <2> QED  BY <2>0, <2>1, <2>3, <2>6
<1> QED  BY <1>1, <1>3, <1>4

(* Objects in the slots behind b stored ones append to them. *)
LEMMA ReadAppends ==
  ASSUME NEW r \in [0 .. Size - 1 -> Vals], NEW a \in Index, NEW b \in Index,
         NEW objs \in Seq(Objs), NEW k \in Nat, k <= Len(objs),
         \A i \in 1 .. k : r[Slot((a + b) % U32, i)] = objs[i]
  PROVE  Read(r, a, b + k) = Read(r, a, b) \o SubSeq(objs, 1, k)
<1>0. b \in Nat /\ b + k \in Nat  BY DEF Index
<1>1. PICK q \in Seq(Vals) : /\ q = Read(r, a, b) /\ Len(q) = b
                             /\ \A i \in 1 .. b : q[i] = r[Slot(a, i)]
  BY <1>0, ReadIs
<1>2. PICK x \in Seq(Vals) : /\ x = Read(r, a, b + k) /\ Len(x) = b + k
                             /\ \A i \in 1 .. b + k : x[i] = r[Slot(a, i)]
  BY <1>0, ReadIs
<1>3. objs \in Seq(Vals)  BY SeqMonotonic DEF Vals
<1>4. PICK y : y = SubSeq(objs, 1, k)  OBVIOUS
<1>5. y \in Seq(Vals) /\ Len(y) = k /\ \A i \in 1 .. k : y[i] = objs[i]
  BY <1>3, <1>4, PrefixIs, Zenon
<1>6. PICK z \in Seq(Vals) : /\ z = q \o y /\ Len(z) = b + k
                             /\ \A i \in 1 .. b + k : z[i] = IF i <= b THEN q[i] ELSE y[i - b]
  <2>1. /\ q \o y \in Seq(Vals) /\ Len(q \o y) = Len(q) + Len(y)
        /\ \A i \in 1 .. Len(q) + Len(y) : (q \o y)[i] = IF i <= Len(q) THEN q[i] ELSE y[i - Len(q)]
    BY <1>5, ConcatProperties, Zenon
  <2>2. PICK z : z = q \o y  OBVIOUS
  <2>3. /\ z \in Seq(Vals) /\ Len(z) = b + k
        /\ \A i \in 1 .. b + k : z[i] = IF i <= b THEN q[i] ELSE y[i - b]
    BY <1>1, <1>5, <2>1, <2>2, Zenon
  <2> QED  BY <2>2, <2>3, Zenon
<1>7. ASSUME NEW i \in 1 .. b + k PROVE x[i] = z[i]
  <2>1. CASE i <= b
    <3>1. i \in 1 .. b  BY <1>0, <2>1
    <3>2. z[i] = q[i]  BY <1>6, <2>1
    <3> QED  BY <1>1, <1>2, <3>1, <3>2
  <2>2. CASE ~(i <= b)
    <3>1. PICK j \in 1 .. k : i = b + j
      <4>1. i - b \in 1 .. k /\ i = b + (i - b)  BY <1>0, <2>2
      <4> QED  BY <4>1
    <3>2. z[i] = objs[j]  BY <1>0, <1>5, <1>6, <2>2, <3>1
    <3>3. j \in Nat \ {0}  OBVIOUS
    <3>4. Slot((a + b) % U32, j) = Slot(a, b + j)  BY <3>3, SlotMoved
    <3>5. r[Slot(a, b + j)] = objs[j]  BY <3>4
    <3> QED  BY <1>2, <3>1, <3>2, <3>5
  <2> QED  BY <2>1, <2>2
<1>8. x = z  BY <1>2, <1>6, <1>7, SeqEqual
<1> QED  BY <1>1, <1>2, <1>4, <1>6, <1>8

(* Every reservation and every stored object has its place, counted from   *)
(* the consumers' tail, and all of them lie within the capacity.           *)
Place(t) == IF Side(t) = "cons" THEN From(t) ELSE InFlight("cons") + Stored + From(t)

(* The slots of a reservation, and of the stored objects, are those of     *)
(* their places.                                                           *)
LEMMA Places ==
  ASSUME IInv
  PROVE  /\ \A t \in Threads : pc[t] \in {"copy", "publish"} =>
              /\ Place(t) \in Nat /\ Place(t) + n[t] <= Capacity
              /\ Side(t) = "cons" => Place(t) + n[t] <= InFlight("cons")
              /\ Side(t) = "prod" => Place(t) >= InFlight("cons") + Stored
              /\ \A i \in Nat \ {0} : Slot(old_head[t], i) = Slot(tail["cons"], Place(t) + i)
         /\ \A i \in Nat \ {0} : Slot(head["cons"], i) = Slot(tail["cons"], InFlight("cons") + i)
<1>1. TypeOK  BY DEF IInv
<1>2. "prod" \in Sides /\ "cons" \in Sides  BY DEF Sides
<1>3. /\ \A x \in Sides : head[x] \in Index /\ tail[x] \in Index /\ InFlight(x) \in Index
      /\ Stored \in Index /\ Index \subseteq Nat
  BY <1>1, Ranges
<1>4. /\ tail["cons"] \in Index /\ head["cons"] \in Index
      /\ tail["prod"] \in Index /\ head["prod"] \in Index
  BY <1>2, <1>3
<1>5. PICK a \in Nat : a = InFlight("cons")  BY <1>2, <1>3
<1>6. PICK b \in Nat : b = Stored  BY <1>3
<1>7. PICK c \in Nat : c = InFlight("prod")  BY <1>2, <1>3
<1>8. a + b + c <= Capacity  BY <1>5, <1>6, <1>7 DEF IInv, Fits
<1>9. U32 \in Nat /\ Capacity \in Nat /\ Capacity < U32  BY RingSizes
<1>10. Ahead(tail["cons"], tail["prod"]) = a + b
  <2>1. Ahead(tail["cons"], head["cons"]) = a /\ Ahead(head["cons"], tail["prod"]) = b
    BY <1>5, <1>6 DEF InFlight, Stored
  <2>2. a + b < U32  BY <1>8, <1>9
  <2> QED  BY <1>4, <2>1, <2>2, AheadAdds
<1>11. \A i \in Nat \ {0} : Slot(head["cons"], i) = Slot(tail["cons"], InFlight("cons") + i)
  BY <1>4, SlotFrom DEF InFlight
<1>12. ASSUME NEW t \in Threads, pc[t] \in {"copy", "publish"}
       PROVE  /\ Place(t) \in Nat /\ Place(t) + n[t] <= Capacity
              /\ Side(t) = "cons" => Place(t) + n[t] <= InFlight("cons")
              /\ Side(t) = "prod" => Place(t) >= InFlight("cons") + Stored
              /\ \A i \in Nat \ {0} : Slot(old_head[t], i) = Slot(tail["cons"], Place(t) + i)
  <2>1. Busy(t)  BY <1>12 DEF Busy
  <2>2. Side(t) \in Sides /\ old_head[t] \in Index /\ n[t] \in Nat /\ From(t) \in Nat
    BY <1>1, <1>3, <2>1, Ranges
  <2>3. From(t) + n[t] <= InFlight(Side(t))
    BY <1>12, <2>2 DEF IInv, Tiled, Res, Sides
  <2>4. CASE Side(t) = "cons"
    <3>1. Place(t) = From(t) /\ Place(t) = Ahead(tail["cons"], old_head[t])
      BY <2>4 DEF Place, From
    <3>2. \A i \in Nat \ {0} : Slot(old_head[t], i) = Slot(tail["cons"], Place(t) + i)
      BY <1>4, <2>2, <3>1, SlotFrom
    <3> QED  BY <1>5, <1>6, <1>7, <1>8, <1>9, <2>2, <2>3, <2>4, <3>1, <3>2
  <2>5. CASE Side(t) = "prod"
    <3>1. PICK f \in Nat : f = From(t)  BY <2>2
    <3>2. Place(t) = a + b + f /\ f = Ahead(tail["prod"], old_head[t])
      BY <1>5, <1>6, <2>5, <3>1 DEF Place, From
    <3>3. f + n[t] <= c  BY <1>7, <2>3, <2>5, <3>1
    <3>4. Ahead(tail["cons"], old_head[t]) = a + b + f
      <4>1. (a + b) + f < U32  BY <1>8, <1>9, <2>2, <3>3
      <4> QED  BY <1>4, <1>10, <2>2, <3>2, <4>1, AheadAdds
    <3>5. \A i \in Nat \ {0} : Slot(old_head[t], i) = Slot(tail["cons"], Place(t) + i)
      BY <1>4, <2>2, <3>2, <3>4, SlotFrom
    <3> QED  BY <1>5, <1>6, <1>7, <1>8, <1>9, <2>2, <2>5, <3>2, <3>3, <3>5
  <2> QED  BY <2>2, <2>4, <2>5 DEF Sides
<1> QED  BY <1>11, <1>12

(* A producer's reserved slots hold no stored object and belong to no      *)
(* other reservation.                                                      *)
LEMMA Apart ==
  ASSUME IInv, NEW t \in Threads, pc[t] \in {"copy", "publish"}, Side(t) = "prod",
         NEW i \in 1 .. n[t]
  PROVE  /\ \A j \in 1 .. Stored : Slot(old_head[t], i) # Slot(head["cons"], j)
         /\ \A u \in Threads : u # t /\ pc[u] \in {"copy", "publish"} =>
              \A j \in 1 .. n[u] : Slot(old_head[t], i) # Slot(old_head[u], j)
         /\ \A j \in 1 .. n[t] : j # i => Slot(old_head[t], i) # Slot(old_head[t], j)
<1>1. TypeOK  BY DEF IInv
<1>2. /\ tail["cons"] \in Index /\ InFlight("cons") \in Nat /\ Stored \in Nat /\ n[t] \in Nat
  <2>1. "cons" \in Sides  BY DEF Sides
  <2> QED  BY <1>1, <2>1, Ranges
<1>3. Capacity \in Nat  BY RingSizes
<1>4. PICK a \in Nat, b \in Nat : a = InFlight("cons") /\ b = Stored  BY <1>2
<1>5. PICK x \in Nat : x = Place(t)  BY Places
<1>6. x + n[t] <= Capacity /\ x >= a + b  BY <1>4, <1>5, Places
<1>7. PICK y \in 1 .. Capacity : y = x + i  BY <1>2, <1>3, <1>5, <1>6
<1>8. i \in Nat \ {0}  BY <1>2
<1>9. Slot(old_head[t], i) = Slot(tail["cons"], y)  BY <1>5, <1>7, <1>8, Places
<1>10. \A z \in 1 .. Capacity : z # y => Slot(tail["cons"], y) # Slot(tail["cons"], z)
  BY <1>2, SlotsDiffer
<1>11. ASSUME NEW j \in 1 .. Stored PROVE Slot(old_head[t], i) # Slot(head["cons"], j)
  <2>1. j \in Nat \ {0} /\ j <= b  BY <1>2, <1>4
  <2>2. Slot(head["cons"], j) = Slot(tail["cons"], a + j)  BY <1>4, <2>1, Places
  <2>3. a + j \in 1 .. Capacity /\ a + j # y  BY <1>2, <1>3, <1>6, <1>7, <2>1
  <2> QED  BY <1>9, <1>10, <2>2, <2>3
<1>12. ASSUME NEW j \in 1 .. n[t], j # i PROVE Slot(old_head[t], i) # Slot(old_head[t], j)
  <2>1. j \in Nat \ {0}  BY <1>2
  <2>2. Slot(old_head[t], j) = Slot(tail["cons"], x + j)  BY <1>5, <2>1, Places
  <2>3. x + j \in 1 .. Capacity /\ x + j # y  BY <1>2, <1>3, <1>6, <1>7, <1>8, <1>12, <2>1
  <2> QED  BY <1>9, <1>10, <2>2, <2>3
<1>13. ASSUME NEW u \in Threads, u # t, pc[u] \in {"copy", "publish"}, NEW j \in 1 .. n[u]
       PROVE  Slot(old_head[t], i) # Slot(old_head[u], j)
  <2>1. n[u] \in Nat /\ Side(u) \in Sides  BY <1>1, <1>13, Ranges DEF Busy
  <2>2. j \in Nat \ {0} /\ j <= n[u]  BY <2>1
  <2>3. PICK w \in Nat : w = Place(u)  BY <1>13, Places
  <2>4. w + n[u] <= Capacity  BY <1>13, <2>3, Places
  <2>5. Slot(old_head[u], j) = Slot(tail["cons"], w + j)  BY <1>13, <2>2, <2>3, Places
  <2>6. w + j # y
    <3>1. CASE Side(u) = "cons"
      <4>1. w + n[u] <= a  BY <1>4, <1>13, <2>3, <3>1, Places
      <4> QED  BY <1>2, <1>6, <1>7, <1>8, <2>1, <2>2, <4>1
    <3>2. CASE Side(u) = "prod"
      <4>1. Res(t, "prod") /\ Res(u, "prod")  BY <1>13, <3>2 DEF Res
      <4>2. From(t) + n[t] <= From(u) \/ From(u) + n[u] <= From(t)
        BY <1>13, <4>1 DEF IInv, Tiled
      <4>3. From(t) \in Nat /\ From(u) \in Nat
        <5>1. Busy(t) /\ Busy(u) /\ Index \subseteq Nat  BY <1>13 DEF Busy, Index
        <5> QED  BY <1>1, <5>1, Ranges
      <4>4. x = a + b + From(t) /\ w = a + b + From(u)
        BY <1>4, <1>5, <2>3, <3>2 DEF Place
      <4>5. x + n[t] <= w \/ w + n[u] <= x  BY <1>2, <2>1, <4>2, <4>3, <4>4
      <4> QED  BY <1>2, <1>7, <1>8, <2>1, <2>2, <4>5
    <3> QED  BY <2>1, <3>1, <3>2 DEF Sides
  <2>7. w + j \in 1 .. Capacity  BY <1>3, <2>1, <2>2, <2>4
  <2> QED  BY <1>9, <1>10, <2>5, <2>6, <2>7
<1> QED  BY <1>11, <1>12, <1>13

(* The invariant of what the slots hold: a producer waiting to publish has *)
(* all its objects in place, and a consumer has nothing before it has      *)
(* copied.                                                                 *)
HasData(t) ==
  /\ pc[t] \in {"cas", "copy", "publish"} /\ Side(t) = "prod" => n[t] <= Len(call[t].objs)
  /\ pc[t] = "publish" /\ Side(t) = "prod" =>
       \A i \in 1 .. n[t] : ring[Slot(old_head[t], i)] = call[t].objs[i]
  /\ IF pc[t] = "publish" /\ Side(t) = "cons" THEN table[t] # << >> ELSE table[t] = << >>

Data ==
  /\ ring \in [0 .. Size - 1 -> Vals]
  /\ DOMAIN table = Threads
  /\ \A t \in Threads : HasData(t)

(* A step that leaves the slots alone leaves the other threads' data       *)
(* alone.                                                                  *)
LEMMA DataStep ==
  ASSUME Data, NEW t \in Threads, OthersKeep(t), UNCHANGED ring,
         DOMAIN table' = Threads, \A u \in Threads : u # t => table'[u] = table[u],
         HasData(t)'
  PROVE  Data'
<1>1. ASSUME NEW u \in Threads, u # t PROVE HasData(u)'
  BY <1>1 DEF Data, HasData, OthersKeep, Side
<1> QED  BY <1>1 DEF Data

(* The objects of a call. *)
LEMMA CallObjs ==
  ASSUME TypeOK, NEW t \in Threads, Busy(t)
  PROVE  /\ call[t].objs \in Seq(Objs)
         /\ Side(t) = "prod" => Len(call[t].objs) = call[t].max /\ call[t].objs # << >>
         /\ Side(t) = "cons" => call[t].objs = << >>
<1>1. call[t] \in Calls(t) /\ call[t] \in Call  BY DEF TypeOK
<1>2. call[t].objs \in Seq(Objs) /\ call[t].max \in Nat \ {0}  BY <1>1 DEF Call
<1>3. IF Side(t) = "prod" THEN Len(call[t].objs) = call[t].max ELSE call[t].objs = << >>
  BY <1>1, RingAssumption DEF Side
<1>4. Side(t) = "prod" => call[t].objs # << >>
  <2>1. Len(<< >>) = 0  BY EmptySeq
  <2> QED  BY <1>2, <1>3, <2>1
<1> QED  BY <1>2, <1>3, <1>4

(***************************************************************************)
(* The refinement mapping of Fifo, thread by thread.                       *)
(***************************************************************************)

Queue == Contents(head["cons"], Ahead(head["cons"], tail["prod"]))

Offers == [t \in Threads |-> IF pc[t] = "idle" THEN << >> ELSE call[t].objs]

Takens == [t \in Threads |-> IF pc[t] = "copy" /\ Side(t) = "cons"
                               THEN Contents(old_head[t], n[t]) ELSE table[t]]

OfferOf(t) == IF pc[t] = "idle" THEN << >> ELSE call[t].objs

TakenOf(t) ==
  IF pc[t] = "copy" /\ Side(t) = "cons" THEN Read(ring, old_head[t], n[t]) ELSE table[t]

(* The mapping, read off the slots. *)
LEMMA Views ==
  /\ Queue = Read(ring, head["cons"], Stored)
  /\ Queue' = Read(ring', head'["cons"], Stored')
  /\ Offers = [t \in Threads |-> OfferOf(t)] /\ Offers' = [t \in Threads |-> OfferOf(t)']
  /\ Takens = [t \in Threads |-> TakenOf(t)] /\ Takens' = [t \in Threads |-> TakenOf(t)']
<1>1. \A a, k : Contents(a, k) = Read(ring, a, k)  BY DEF Contents, SlotsOf, Read, Slot
<1>2. Queue = Read(ring, head["cons"], Stored)  BY <1>1 DEF Queue, Stored
<1>3. Offers = [t \in Threads |-> OfferOf(t)]  BY DEF Offers, OfferOf
<1>4. Takens = [t \in Threads |-> TakenOf(t)]
  <2>1. \A t \in Threads : TakenOf(t) = IF pc[t] = "copy" /\ Side(t) = "cons"
                                          THEN Contents(old_head[t], n[t]) ELSE table[t]
    BY <1>1 DEF TakenOf
  <2> QED  BY <2>1 DEF Takens
<1>5. Queue' = Read(ring', head'["cons"], Stored')
  BY DEF Queue, Stored, Contents, SlotsOf, Read, Slot, Ahead
<1>6. Offers' = [t \in Threads |-> OfferOf(t)']  BY DEF Offers, OfferOf
<1>7. Takens' = [t \in Threads |-> TakenOf(t)']
  <2>1. \A t \in Threads : TakenOf(t)' = IF pc'[t] = "copy" /\ Side(t)' = "cons"
                                          THEN Contents(old_head[t], n[t])' ELSE table'[t]
    BY DEF TakenOf, Contents, SlotsOf, Read, Slot
  <2> QED  BY <2>1 DEF Takens
<1> QED  BY <1>2, <1>3, <1>4, <1>5, <1>6, <1>7

(* A step that leaves the slots alone changes only its own thread's view. *)
LEMMA ViewStep ==
  ASSUME NEW t \in Threads, OthersKeep(t), UNCHANGED ring,
         \A u \in Threads : u # t => table'[u] = table[u]
  PROVE  /\ Offers' = [Offers EXCEPT ![t] = OfferOf(t)']
         /\ Takens' = [Takens EXCEPT ![t] = TakenOf(t)']
<1>1. ASSUME NEW u \in Threads, u # t
      PROVE  OfferOf(u)' = OfferOf(u) /\ TakenOf(u)' = TakenOf(u)
  BY <1>1 DEF OthersKeep, OfferOf, TakenOf, Side, Read, Slot
<1> QED  BY <1>1, Views

Fifos == <<Queue, Offers, Takens>>

(* An enqueue begins. *)
LEMMA FifoOffer ==
  ASSUME NEW t \in Threads, Offers[t] = << >>, Offers'[t] # << >>,
         Offers' = [Offers EXCEPT ![t] = Offers'[t]], Queue' = Queue, Takens' = Takens
  PROVE  Fifo!Next
<1>1. Fifo!Offer(t)  BY Zenon DEF Fifo!Offer, Queue, Offers, Takens
<1> QED  BY <1>1, Zenon DEF Fifo!Next

(* An enqueue ends. *)
LEMMA FifoPut ==
  ASSUME NEW t \in Threads, NEW k \in 0 .. Len(Offers[t]), Offers[t] # << >>,
         Len(Queue) + k <= Capacity, Queue' = Queue \o SubSeq(Offers[t], 1, k),
         Offers' = [Offers EXCEPT ![t] = << >>], Takens' = Takens
  PROVE  Fifo!Next
<1>1. Fifo!Put(t, k)  BY Zenon DEF Fifo!Put, Queue, Offers, Takens
<1> QED  BY <1>1, Zenon DEF Fifo!Next, Offers

(* A dequeue takes its objects. *)
LEMMA FifoTake ==
  ASSUME NEW t \in Threads, NEW k \in 1 .. Len(Queue), Takens[t] = << >>,
         Takens' = [Takens EXCEPT ![t] = SubSeq(Queue, 1, k)],
         Queue' = SubSeq(Queue, k + 1, Len(Queue)), Offers' = Offers
  PROVE  Fifo!Next
<1>1. Fifo!Take(t, k)  BY Zenon DEF Fifo!Take, Queue, Offers, Takens
<1> QED  BY <1>1, Zenon DEF Fifo!Next, Queue

(* A dequeue ends. *)
LEMMA FifoHandOver ==
  ASSUME NEW t \in Threads, Takens[t] # << >>, Takens' = [Takens EXCEPT ![t] = << >>],
         Queue' = Queue, Offers' = Offers
  PROVE  Fifo!Next
<1>1. Fifo!HandOver(t)  BY Zenon DEF Fifo!HandOver, Queue, Offers, Takens
<1> QED  BY <1>1, Zenon DEF Fifo!Next

(* A step that leaves the slots, the queue and its own view alone is       *)
(* invisible.                                                              *)
LEMMA Invisible ==
  ASSUME NEW t \in Threads, OthersKeep(t), UNCHANGED ring,
         \A u \in Threads : u # t => table'[u] = table[u],
         head'["cons"] = head["cons"], tail'["prod"] = tail["prod"],
         OfferOf(t)' = OfferOf(t), TakenOf(t)' = TakenOf(t)
  PROVE  UNCHANGED Fifos
<1>1. Queue' = Queue
  <2>1. Stored' = Stored  BY DEF Stored, Ahead
  <2> QED  BY <2>1, Views
<1>2. Offers' = Offers /\ Takens' = Takens  BY ViewStep, Views
<1> QED  BY <1>1, <1>2 DEF Fifos

(* The queue, as a sequence. *)
LEMMA QueueIs ==
  ASSUME IInv, Data
  PROVE  /\ head["cons"] \in Index /\ Stored \in Index /\ Stored \in Nat
         /\ Queue \in Seq(Vals) /\ Len(Queue) = Stored /\ Stored <= Capacity
<1>1. TypeOK /\ "cons" \in Sides /\ "prod" \in Sides  BY DEF IInv, Sides
<1>2. /\ head["cons"] \in Index /\ Stored \in Index /\ Stored \in Nat
      /\ InFlight("cons") \in Nat /\ InFlight("prod") \in Nat
  BY <1>1, Ranges
<1>3. Stored <= Capacity  BY <1>2, RingSizes DEF IInv, Fits
<1>4. Queue = Read(ring, head["cons"], Stored)  BY Views
<1>5. ring \in [0 .. Size - 1 -> Vals]  BY DEF Data
<1>6. Queue \in Seq(Vals) /\ Len(Queue) = Stored  BY <1>2, <1>4, <1>5, ReadIs
<1> QED  BY <1>2, <1>3, <1>6

(* A call begins: an enqueue offers its objects, a dequeue does nothing    *)
(* visible.                                                                *)
LEMMA BeginRefines ==
  ASSUME IInv, Data, NEW t \in Threads, Begin(t)
  PROVE  Data' /\ [Fifo!Next]_Fifos
<1>1. PICK c \in Calls(t) : call' = [call EXCEPT ![t] = c] /\ UNCHANGED <<ring, head, tail, n, table>>
  BY DEF Begin
<1>2. pc[t] = "idle" /\ pc' = [pc EXCEPT ![t] = "tail"]  BY DEF Begin, Goto
<1>3. TypeOK  BY DEF IInv
<1>4. OthersKeep(t)
  <2>1. \A u \in Threads : u # t => old_head'[u] = old_head[u]  BY <1>3 DEF Begin, TypeOK
  <2> QED  BY <1>1, <1>2, <1>3, <2>1 DEF OthersKeep, TypeOK
<1>5. pc'[t] = "tail" /\ call'[t] = c  BY <1>1, <1>2, <1>3 DEF TypeOK
<1>6. table[t] = << >>  BY <1>2 DEF Data, HasData
<1>7. HasData(t)'  BY <1>1, <1>5, <1>6 DEF HasData
<1>8. Data'
  <2>1. DOMAIN table' = Threads  BY <1>1 DEF Data
  <2> QED  BY <1>1, <1>4, <1>7, <2>1, DataStep
<1>9. TakenOf(t)' = TakenOf(t)  BY <1>1, <1>2, <1>5 DEF TakenOf
<1>10. OfferOf(t) = << >> /\ OfferOf(t)' = c.objs  BY <1>2, <1>5 DEF OfferOf
<1>11. /\ c.objs \in Seq(Objs) /\ c.side \in Sides /\ c.max \in Nat \ {0}
       /\ IF c.side = "prod" THEN Len(c.objs) = c.max ELSE c.objs = << >>
  <2>1. c \in Call  BY RingAssumption
  <2> QED  BY <2>1, RingAssumption DEF Call
<1>12. CASE c.objs = << >>
  <2>1. OfferOf(t)' = OfferOf(t)  BY <1>10, <1>12
  <2>2. UNCHANGED Fifos  BY <1>1, <1>4, <1>9, <2>1, Invisible
  <2> QED  BY <1>8, <2>2
<1>13. CASE c.objs # << >>
  <2>1. Offers' = [Offers EXCEPT ![t] = OfferOf(t)'] /\ Takens' = [Takens EXCEPT ![t] = TakenOf(t)']
    BY <1>1, <1>4, ViewStep
  <2>2. Takens' = Takens  BY <1>9, <2>1, Views
  <2>3. Offers[t] = << >> /\ Offers'[t] = c.objs  BY <1>10, Views
  <2>4. Offers' = [Offers EXCEPT ![t] = Offers'[t]]  BY <1>10, <2>1, <2>3
  <2>5. Queue' = Queue
    <3>1. Stored' = Stored  BY <1>1 DEF Stored, Ahead
    <3> QED  BY <1>1, <3>1, Views
  <2>6. Fifo!Next  BY <1>13, <2>2, <2>3, <2>4, <2>5, FifoOffer
  <2> QED  BY <1>8, <2>6
<1> QED  BY <1>12, <1>13

(* The re-read of the head is invisible. *)
LEMMA ReadHeadRefines ==
  ASSUME IInv, Data, NEW t \in Threads, ReadHead(t)
  PROVE  Data' /\ [Fifo!Next]_Fifos
<1>1. /\ pc[t] = "head" /\ pc' = [pc EXCEPT ![t] = "tail"]
      /\ old_head' = [old_head EXCEPT ![t] = head[Side(t)]]
      /\ n' = [n EXCEPT ![t] = 0]
      /\ UNCHANGED <<ring, head, tail, call, table>>
  BY DEF ReadHead, Goto
<1>2. TypeOK  BY DEF IInv
<1>3. OthersKeep(t)  BY <1>1, <1>2 DEF OthersKeep, TypeOK
<1>4. pc'[t] = "tail"  BY <1>1, <1>2 DEF TypeOK
<1>5. table[t] = << >>  BY <1>1 DEF Data, HasData
<1>6. HasData(t)'  BY <1>1, <1>4, <1>5 DEF HasData
<1>7. Data'
  <2>1. DOMAIN table' = Threads  BY <1>1 DEF Data
  <2> QED  BY <1>1, <1>3, <1>6, <2>1, DataStep
<1>8. OfferOf(t)' = OfferOf(t) /\ TakenOf(t)' = TakenOf(t)  BY <1>1, <1>4 DEF OfferOf, TakenOf
<1>9. UNCHANGED Fifos  BY <1>1, <1>3, <1>8, Invisible
<1> QED  BY <1>7, <1>9

(* The read of the tail is invisible, unless it refuses an enqueue. *)
LEMMA ReadTailRefines ==
  ASSUME IInv, Data, NEW t \in Threads, ReadTail(t)
  PROVE  Data' /\ [Fifo!Next]_Fifos
<1> DEFINE k == Granted(call[t], Avail(t))
<1>1. pc[t] = "tail" /\ UNCHANGED <<ring, head, tail>>  BY DEF ReadTail
<1>2. TypeOK /\ Busy(t)  BY <1>1 DEF IInv, Busy
<1>3. k \in Nat /\ k <= call[t].max  BY <1>1, GrantedFits
<1>4. table[t] = << >>  BY <1>1 DEF Data, HasData
<1>5. /\ call[t].objs \in Seq(Objs) /\ Side(t) \in Sides
      /\ Side(t) = "prod" => Len(call[t].objs) = call[t].max /\ call[t].objs # << >>
      /\ Side(t) = "cons" => call[t].objs = << >>
  BY <1>2, CallObjs, Ranges
<1>6. CASE k = 0
  <2>1. /\ pc' = [pc EXCEPT ![t] = "idle"] /\ call' = [call EXCEPT ![t] = NULL]
        /\ old_head' = [old_head EXCEPT ![t] = 0] /\ n' = [n EXCEPT ![t] = 0]
        /\ table' = [table EXCEPT ![t] = << >>]
    BY <1>6 DEF ReadTail, Return, Goto
  <2>2. OthersKeep(t)  BY <1>2, <2>1 DEF OthersKeep, TypeOK
  <2>3. pc'[t] = "idle"  BY <1>2, <2>1 DEF TypeOK
  <2>4. DOMAIN table' = Threads /\ table'[t] = << >> /\ \A u \in Threads : u # t => table'[u] = table[u]
    BY <2>1 DEF Data
  <2>5. HasData(t)'  BY <2>3, <2>4 DEF HasData
  <2>6. Data'  BY <1>1, <2>2, <2>4, <2>5, DataStep
  <2>7. TakenOf(t)' = TakenOf(t)  BY <1>1, <1>4, <2>3, <2>4 DEF TakenOf
  <2>8. OfferOf(t)' = << >> /\ OfferOf(t) = call[t].objs  BY <1>1, <2>3 DEF OfferOf
  <2>9. CASE Side(t) = "cons"
    <3>1. OfferOf(t)' = OfferOf(t)  BY <1>5, <2>8, <2>9
    <3>2. UNCHANGED Fifos  BY <1>1, <2>2, <2>4, <2>7, <3>1, Invisible
    <3> QED  BY <2>6, <3>2
  <2>10. CASE Side(t) = "prod"
    <3>1. Offers' = [Offers EXCEPT ![t] = OfferOf(t)'] /\ Takens' = [Takens EXCEPT ![t] = TakenOf(t)']
      BY <1>1, <2>2, <2>4, ViewStep
    <3>2. Takens' = Takens  BY <2>7, <3>1, Views
    <3>3. Offers[t] = call[t].objs  BY <2>8, Views
    <3>4. Offers' = [Offers EXCEPT ![t] = << >>]  BY <2>8, <3>1
    <3>5. Queue' = Queue
      <4>1. Stored' = Stored  BY <1>1 DEF Stored, Ahead
      <4> QED  BY <1>1, <4>1, Views
    <3>6. Queue \in Seq(Vals) /\ Len(Queue) + 0 <= Capacity  BY QueueIs
    <3>7. SubSeq(Offers[t], 1, 0) = << >>
      <4>1. call[t].objs \in Seq(Objs) /\ 0 <= Len(call[t].objs)  BY <1>5, LenProperties
      <4>2. PICK y : y = SubSeq(call[t].objs, 1, 0)  OBVIOUS
      <4>3. y \in Seq(Objs) /\ Len(y) = 0  BY <4>1, <4>2, PrefixIs
      <4>4. y = << >>  BY <4>3, EmptySeq
      <4> QED  BY <3>3, <4>2, <4>4
    <3>8. Queue' = Queue \o SubSeq(Offers[t], 1, 0)  BY <3>5, <3>6, <3>7, ConcatEmptySeq
    <3>9. 0 \in 0 .. Len(Offers[t]) /\ Offers[t] # << >>
      <4>1. Len(call[t].objs) \in Nat  BY <1>5, LenProperties
      <4> QED  BY <1>5, <2>10, <3>3, <4>1
    <3>10. Fifo!Next  BY <3>2, <3>4, <3>6, <3>8, <3>9, FifoPut, Zenon
    <3> QED  BY <2>6, <3>10
  <2> QED  BY <1>5, <2>9, <2>10 DEF Sides
<1>7. CASE k # 0
  <2>1. /\ pc' = [pc EXCEPT ![t] = "cas"] /\ n' = [n EXCEPT ![t] = k]
        /\ UNCHANGED <<call, old_head, table>>
    BY <1>7 DEF ReadTail, Goto
  <2>2. OthersKeep(t)  BY <1>2, <2>1 DEF OthersKeep, TypeOK
  <2>3. pc'[t] = "cas" /\ n'[t] = k  BY <1>2, <2>1 DEF TypeOK
  <2>4. HasData(t)'
    <3>1. Side(t)' = Side(t)  BY <2>1 DEF Side
    <3>2. Side(t) = "prod" => n'[t] <= Len(call'[t].objs)  BY <1>3, <1>5, <2>1, <2>3
    <3> QED  BY <1>4, <2>1, <2>3, <3>1, <3>2 DEF HasData
  <2>5. Data'
    <3>1. DOMAIN table' = Threads  BY <2>1 DEF Data
    <3> QED  BY <1>1, <2>1, <2>2, <2>4, <3>1, DataStep
  <2>6. OfferOf(t)' = OfferOf(t) /\ TakenOf(t)' = TakenOf(t)
    BY <1>1, <2>1, <2>3 DEF OfferOf, TakenOf
  <2>7. UNCHANGED Fifos  BY <1>1, <2>1, <2>2, <2>6, Invisible
  <2> QED  BY <2>5, <2>7
<1> QED  BY <1>6, <1>7

(* The move of the consumers' head takes the oldest objects; the           *)
(* producers', and a move that fails, are invisible.                       *)
LEMMA MoveHeadRefines ==
  ASSUME IInv, Data, NEW t \in Threads, MoveHead(t)
  PROVE  Data' /\ [Fifo!Next]_Fifos
<1>1. pc[t] = "cas" /\ UNCHANGED <<ring, tail, call, old_head, n, table>>  BY DEF MoveHead
<1>2. TypeOK /\ Busy(t)  BY <1>1 DEF IInv, Busy
<1>3. Side(t) \in Sides /\ n[t] \in Nat /\ old_head[t] \in Index  BY <1>2, Ranges
<1>4. PICK l \in {"copy", "head"} : pc' = [pc EXCEPT ![t] = l]  BY DEF MoveHead, Goto
<1>5. OthersKeep(t) /\ pc'[t] = l  BY <1>1, <1>2, <1>4 DEF OthersKeep, TypeOK
<1>6. table[t] = << >> /\ (Side(t) = "prod" => n[t] <= Len(call[t].objs))
  BY <1>1 DEF Data, HasData
<1>7. HasData(t)'
  <2>1. Side(t)' = Side(t)  BY <1>1 DEF Side
  <2> QED  BY <1>1, <1>5, <1>6, <2>1 DEF HasData
<1>8. Data'
  <2>1. DOMAIN table' = Threads  BY <1>1 DEF Data
  <2> QED  BY <1>1, <1>5, <1>7, <2>1, DataStep
<1>9. OfferOf(t)' = OfferOf(t)  BY <1>1, <1>5 DEF OfferOf
<1>10. CASE l = "head"
  <2>1. UNCHANGED head
    <3>1. "copy" # "head"  OBVIOUS
    <3>2. ~Goto(t, "copy")  BY <1>2, <1>5, <1>10, <3>1 DEF Goto, TypeOK
    <3> QED  BY <3>2 DEF MoveHead
  <2>2. TakenOf(t)' = TakenOf(t)  BY <1>1, <1>5, <1>10 DEF TakenOf
  <2>3. UNCHANGED Fifos  BY <1>1, <1>5, <1>9, <2>1, <2>2, Invisible
  <2> QED  BY <1>8, <2>3
<1>11. CASE l = "copy"
  <2>1. /\ call[t].single \/ head[Side(t)] = old_head[t]
        /\ head' = [head EXCEPT ![Side(t)] = (old_head[t] + n[t]) % U32]
    <3>1. "copy" # "head"  OBVIOUS
    <3>2. ~Goto(t, "head")  BY <1>2, <1>5, <1>11, <3>1 DEF Goto, TypeOK
    <3> QED  BY <3>2 DEF MoveHead
  <2>2. head[Side(t)] = old_head[t]  BY <1>1, <1>2, <2>1 DEF IInv, Singles
  <2>3. n[t] >= 1 /\ n[t] <= Room(t)  BY <1>1, <2>2 DEF IInv, Ready
  <2>4. CASE Side(t) = "prod"
    <3>1. head'["cons"] = head["cons"]
      <4>1. "cons" \in Sides /\ "cons" # "prod"  BY DEF Sides
      <4> QED  BY <1>2, <2>1, <2>4, <4>1 DEF TypeOK
    <3>2. Side(t)' = "prod"  BY <1>1, <2>4 DEF Side
    <3>3. TakenOf(t)' = TakenOf(t)  BY <1>1, <1>5, <2>4, <3>2 DEF TakenOf
    <3>4. UNCHANGED Fifos  BY <1>1, <1>5, <1>9, <3>1, <3>3, Invisible
    <3> QED  BY <1>8, <3>4
  <2>5. CASE Side(t) = "cons"
    <3>1. PICK k \in Nat : k = n[t]  BY <1>3
    <3>2. k >= 1 /\ k <= Stored
      <4>1. Room(t) = Stored  BY <2>5 DEF Room
      <4> QED  BY <2>3, <3>1, <4>1
    <3>3. PICK a \in Index : a = head["cons"]  BY QueueIs
    <3>4. head' = [head EXCEPT !["cons"] = (head["cons"] + k) % U32] /\ old_head[t] = a
      BY <2>1, <2>2, <2>5, <3>1, <3>3
    <3>5. Stored' = Stored - k /\ k \in Index
      <4>1. "cons" \in Sides /\ "cons" # "prod" /\ Fits  BY DEF Sides, IInv
      <4> QED  BY <1>1, <1>2, <3>2, <3>4, <4>1, ReserveDistances
    <3>6. PICK b \in Nat : b = Stored  BY QueueIs
    <3>7. head'["cons"] = (a + k) % U32
      <4>1. "cons" \in Sides  BY DEF Sides
      <4> QED  BY <1>2, <3>3, <3>4, <4>1 DEF TypeOK
    <3>8. Queue = Read(ring, a, b) /\ Queue' = Read(ring, (a + k) % U32, b - k)
      BY <1>1, <3>3, <3>5, <3>6, <3>7, Views
    <3>9. Read(ring, a, k) = SubSeq(Queue, 1, k) /\ Queue' = SubSeq(Queue, k + 1, b)
      <4>1. ring \in [0 .. Size - 1 -> Vals]  BY DEF Data
      <4> QED  BY <3>2, <3>5, <3>6, <3>8, <4>1, ReadSplits
    <3>10. Len(Queue) = b  BY <3>6, QueueIs
    <3>11. Offers' = [Offers EXCEPT ![t] = OfferOf(t)'] /\ Takens' = [Takens EXCEPT ![t] = TakenOf(t)']
      BY <1>1, <1>5, ViewStep
    <3>12. Offers' = Offers  BY <1>9, <3>11, Views
    <3>13. Side(t)' = "cons"  BY <1>1, <2>5 DEF Side
    <3>14. TakenOf(t)' = Read(ring, a, k)
      <4>1. TakenOf(t)' = Read(ring', old_head'[t], n'[t])
        BY <1>5, <1>11, <3>13 DEF TakenOf, Read, Slot
      <4> QED  BY <1>1, <3>1, <3>4, <4>1
    <3>15. Takens[t] = << >>
      <4>1. TakenOf(t) = << >>  BY <1>1, <1>6 DEF TakenOf
      <4> QED  BY <4>1, Views
    <3>16. Takens' = [Takens EXCEPT ![t] = SubSeq(Queue, 1, k)]  BY <3>9, <3>11, <3>14
    <3>17. k \in 1 .. Len(Queue) /\ Queue' = SubSeq(Queue, k + 1, Len(Queue))
      BY <3>2, <3>6, <3>9, <3>10
    <3>18. Fifo!Next  BY <3>12, <3>15, <3>16, <3>17, FifoTake, Zenon
    <3> QED  BY <1>8, <3>18
  <2> QED  BY <1>3, <2>4, <2>5 DEF Sides
<1> QED  BY <1>10, <1>11

(* The copy out of the slots is invisible: the objects were taken when the *)
(* head moved, and the slots have kept them.                               *)
LEMMA CopyOutRefines ==
  ASSUME IInv, Data, NEW t \in Threads, CopyOut(t)
  PROVE  Data' /\ [Fifo!Next]_Fifos
<1>1. /\ pc[t] = "copy" /\ Side(t) = "cons" /\ pc' = [pc EXCEPT ![t] = "publish"]
      /\ table' = [table EXCEPT ![t] = Contents(old_head[t], n[t])]
      /\ UNCHANGED <<ring, head, tail, call, old_head, n>>
  BY DEF CopyOut, Goto
<1>2. TypeOK /\ Busy(t)  BY <1>1 DEF IInv, Busy
<1>3. OthersKeep(t) /\ pc'[t] = "publish"  BY <1>1, <1>2 DEF OthersKeep, TypeOK
<1>4. Contents(old_head[t], n[t]) = Read(ring, old_head[t], n[t])
  BY DEF Contents, SlotsOf, Read, Slot
<1>5. /\ DOMAIN table' = Threads /\ table'[t] = Read(ring, old_head[t], n[t])
      /\ \A u \in Threads : u # t => table'[u] = table[u]
  BY <1>1, <1>4 DEF Data
<1>6. table'[t] # << >>
  <2>1. n[t] \in Nat /\ old_head[t] \in Index  BY <1>2, Ranges
  <2>2. n[t] >= 1
    <3>1. Res(t, "cons")  BY <1>1 DEF Res
    <3> QED  BY <3>1 DEF IInv, Tiled
  <2>3. ring \in [0 .. Size - 1 -> Vals]  BY DEF Data
  <2>4. Len(table'[t]) = n[t]  BY <1>5, <2>1, <2>3, ReadIs
  <2>5. Len(<< >>) = 0  BY EmptySeq
  <2> QED  BY <2>1, <2>2, <2>4, <2>5
<1>7. Side(t)' = "cons"  BY <1>1 DEF Side
<1>8. HasData(t)'  BY <1>3, <1>6, <1>7 DEF HasData
<1>9. Data'  BY <1>1, <1>3, <1>5, <1>8, DataStep
<1>10. OfferOf(t)' = OfferOf(t)  BY <1>1, <1>3 DEF OfferOf
<1>11. TakenOf(t)' = TakenOf(t)  BY <1>1, <1>3, <1>5 DEF TakenOf
<1>12. UNCHANGED Fifos  BY <1>1, <1>3, <1>5, <1>10, <1>11, Invisible
<1> QED  BY <1>9, <1>12

(* What the copy into the slots does. *)
LEMMA CopiedIn ==
  ASSUME IInv, Data, NEW t \in Threads, CopyIn(t)
  PROVE  /\ ring' \in [0 .. Size - 1 -> Vals]
         /\ \A i \in 1 .. n[t] : ring'[Slot(old_head[t], i)] = call[t].objs[i]
         /\ \A s \in 0 .. Size - 1 :
              (\A i \in 1 .. n[t] : Slot(old_head[t], i) # s) => ring'[s] = ring[s]
<1> DEFINE slots == SlotsOf(old_head[t], n[t])
           new(s) == IF \E i \in DOMAIN slots : slots[i] = s
                       THEN call[t].objs[CHOOSE i \in DOMAIN slots : slots[i] = s]
                       ELSE ring[s]
<1>1. pc[t] = "copy" /\ Side(t) = "prod" /\ ring' = [s \in DOMAIN ring |-> new(s)]  BY DEF CopyIn
<1>2. TypeOK /\ Busy(t)  BY <1>1 DEF IInv, Busy
<1>3. n[t] \in Nat /\ old_head[t] \in Index  BY <1>2, Ranges
<1>4. ring \in [0 .. Size - 1 -> Vals] /\ DOMAIN ring = 0 .. Size - 1  BY DEF Data
<1>5. DOMAIN slots = 1 .. n[t] /\ \A i \in 1 .. n[t] : slots[i] = Slot(old_head[t], i)
  BY DEF SlotsOf, Slot
<1>6. call[t].objs \in Seq(Objs) /\ n[t] <= Len(call[t].objs)
  BY <1>1, <1>2, CallObjs DEF Data, HasData
<1>7. \A i \in 1 .. n[t] : call[t].objs[i] \in Vals
  <2>1. Len(call[t].objs) \in Nat  BY <1>6, LenProperties
  <2>2. \A i \in 1 .. Len(call[t].objs) : call[t].objs[i] \in Objs  BY <1>6, ElementOfSeq
  <2> QED  BY <1>3, <1>6, <2>1, <2>2 DEF Vals
<1> HIDE DEF slots
<1>8. \A s \in 0 .. Size - 1 : new(s) \in Vals
  <2> SUFFICES ASSUME NEW s \in 0 .. Size - 1 PROVE new(s) \in Vals
    OBVIOUS
  <2>1. CASE \E i \in DOMAIN slots : slots[i] = s
    <3>1. PICK j : j = CHOOSE i \in DOMAIN slots : slots[i] = s  OBVIOUS
    <3>2. j \in DOMAIN slots  BY <2>1, <3>1
    <3>3. new(s) = call[t].objs[j]  BY <2>1, <3>1
    <3> QED  BY <1>5, <1>7, <3>2, <3>3
  <2>2. CASE ~\E i \in DOMAIN slots : slots[i] = s
    <3>1. new(s) = ring[s]  BY <2>2
    <3> QED  BY <1>4, <3>1
  <2> QED  BY <2>1, <2>2
<1>9. ASSUME NEW i \in 1 .. n[t] PROVE ring'[Slot(old_head[t], i)] = call[t].objs[i]
  <2>1. i \in Nat \ {0}  BY <1>3
  <2>2. PICK s \in 0 .. Size - 1 : s = Slot(old_head[t], i)  BY <1>3, <2>1, SlotRange
  <2>3. \A j \in 1 .. n[t] : j # i => Slot(old_head[t], i) # Slot(old_head[t], j)
    BY <1>1, Apart
  <2>4. \A j \in DOMAIN slots : slots[j] = s <=> j = i  BY <1>5, <2>2, <2>3
  <2>5. PICK j : j = CHOOSE x \in DOMAIN slots : slots[x] = s  OBVIOUS
  <2>6. j \in DOMAIN slots /\ slots[j] = s  BY <1>5, <2>4, <2>5
  <2>7. j = i  BY <2>4, <2>6
  <2>8. new(s) = call[t].objs[i]  BY <1>5, <2>4, <2>5, <2>6, <2>7
  <2> QED  BY <1>1, <1>4, <2>2, <2>8
<1>10. ASSUME NEW s \in 0 .. Size - 1, \A i \in 1 .. n[t] : Slot(old_head[t], i) # s
       PROVE  ring'[s] = ring[s]
  <2>1. ~\E i \in DOMAIN slots : slots[i] = s  BY <1>5, <1>10
  <2>2. new(s) = ring[s]  BY <2>1
  <2> QED  BY <1>1, <1>4, <2>2
<1>11. ring' \in [0 .. Size - 1 -> Vals]
  <2> HIDE DEF new
  <2> QED  BY <1>1, <1>4, <1>8
<1> QED  BY <1>9, <1>10, <1>11

(* The copy into the slots is invisible: no stored object, and no object a *)
(* consumer still copies or another producer has copied, is overwritten.   *)
LEMMA CopyInRefines ==
  ASSUME IInv, Data, NEW t \in Threads, CopyIn(t)
  PROVE  Data' /\ [Fifo!Next]_Fifos
<1>1. /\ pc[t] = "copy" /\ Side(t) = "prod" /\ pc' = [pc EXCEPT ![t] = "publish"]
      /\ UNCHANGED <<head, tail, call, old_head, n, table>>
  BY DEF CopyIn, Goto
<1>2. TypeOK /\ Busy(t)  BY <1>1 DEF IInv, Busy
<1>3. OthersKeep(t) /\ pc'[t] = "publish"  BY <1>1, <1>2 DEF OthersKeep, TypeOK
<1>4. /\ ring' \in [0 .. Size - 1 -> Vals]
      /\ \A i \in 1 .. n[t] : ring'[Slot(old_head[t], i)] = call[t].objs[i]
      /\ \A s \in 0 .. Size - 1 :
           (\A i \in 1 .. n[t] : Slot(old_head[t], i) # s) => ring'[s] = ring[s]
  BY CopiedIn
<1>5. ASSUME NEW u \in Threads, u # t, pc[u] \in {"copy", "publish"}
      PROVE  \A j \in 1 .. n[u] : ring'[Slot(old_head[u], j)] = ring[Slot(old_head[u], j)]
  <2> SUFFICES ASSUME NEW j \in 1 .. n[u]
               PROVE  ring'[Slot(old_head[u], j)] = ring[Slot(old_head[u], j)]
    OBVIOUS
  <2>1. n[u] \in Nat /\ old_head[u] \in Index  BY <1>2, Ranges
  <2>2. j \in Nat \ {0}  BY <2>1
  <2>3. Slot(old_head[u], j) \in 0 .. Size - 1  BY <2>1, <2>2, SlotRange
  <2>4. \A i \in 1 .. n[t] : Slot(old_head[t], i) # Slot(old_head[u], j)  BY <1>1, <1>5, Apart
  <2> QED  BY <1>4, <2>3, <2>4
<1>6. \A j \in 1 .. Stored : ring'[Slot(head["cons"], j)] = ring[Slot(head["cons"], j)]
  <2> SUFFICES ASSUME NEW j \in 1 .. Stored
               PROVE  ring'[Slot(head["cons"], j)] = ring[Slot(head["cons"], j)]
    OBVIOUS
  <2>1. j \in Nat \ {0} /\ head["cons"] \in Index  BY QueueIs
  <2>2. Slot(head["cons"], j) \in 0 .. Size - 1  BY <2>1, SlotRange
  <2>3. \A i \in 1 .. n[t] : Slot(old_head[t], i) # Slot(head["cons"], j)  BY <1>1, Apart
  <2> QED  BY <1>4, <2>2, <2>3
<1>7. Queue' = Queue
  <2>1. Stored' = Stored  BY <1>1 DEF Stored, Ahead
  <2>2. Read(ring', head["cons"], Stored) = Read(ring, head["cons"], Stored)  BY <1>6 DEF Read
  <2> QED  BY <1>1, <2>1, <2>2, Views
<1>8. \A u \in Threads : OfferOf(u)' = OfferOf(u)
  BY <1>1, <1>3 DEF OthersKeep, OfferOf
<1>9. \A u \in Threads : TakenOf(u)' = TakenOf(u)
  <2> SUFFICES ASSUME NEW u \in Threads PROVE TakenOf(u)' = TakenOf(u)
    OBVIOUS
  <2>1. Side(u)' = Side(u) /\ table'[u] = table[u] /\ old_head'[u] = old_head[u] /\ n'[u] = n[u]
    BY <1>1 DEF Side
  <2>2. CASE u = t  BY <1>1, <1>3, <2>1, <2>2 DEF TakenOf
  <2>3. CASE u # t
    <3>1. pc'[u] = pc[u]  BY <1>3, <2>3 DEF OthersKeep
    <3>2. CASE pc[u] = "copy" /\ Side(u) = "cons"
      <4>1. TakenOf(u)' = Read(ring', old_head[u], n[u]) /\ TakenOf(u) = Read(ring, old_head[u], n[u])
        BY <2>1, <3>1, <3>2 DEF TakenOf, Read, Slot
      <4>2. Read(ring', old_head[u], n[u]) = Read(ring, old_head[u], n[u])
        BY <1>5, <2>3, <3>2 DEF Read
      <4> QED  BY <4>1, <4>2
    <3>3. CASE ~(pc[u] = "copy" /\ Side(u) = "cons")  BY <2>1, <3>1, <3>3 DEF TakenOf
    <3> QED  BY <3>2, <3>3
  <2> QED  BY <2>2, <2>3
<1>10. UNCHANGED Fifos
  <2>1. Offers' = Offers /\ Takens' = Takens  BY <1>8, <1>9, Views
  <2> QED  BY <1>7, <2>1 DEF Fifos
<1>11. ASSUME NEW u \in Threads PROVE HasData(u)'
  <2>1. /\ Side(u)' = Side(u) /\ table'[u] = table[u] /\ call'[u] = call[u]
        /\ \A i : Slot(old_head[u], i)' = Slot(old_head[u], i) /\ n'[u] = n[u]
    BY <1>1 DEF Side, Slot
  <2>2. HasData(u)  BY DEF Data
  <2>3. CASE u = t
    <3>1. table[t] = << >> /\ n[t] <= Len(call[t].objs)  BY <1>1, <2>2, <2>3 DEF HasData
    <3>2. \A i \in 1 .. n'[t] : ring'[Slot(old_head[t], i)'] = call'[t].objs[i]
      BY <1>4, <2>1, <2>3
    <3> QED  BY <1>1, <1>3, <2>1, <2>3, <3>1, <3>2 DEF HasData
  <2>4. CASE u # t
    <3>1. pc'[u] = pc[u]  BY <1>3, <2>4 DEF OthersKeep
    <3>2. pc[u] = "publish" /\ Side(u) = "prod" =>
             \A i \in 1 .. n'[u] : ring'[Slot(old_head[u], i)'] = call'[u].objs[i]
      BY <1>5, <2>1, <2>2, <2>4 DEF HasData
    <3> QED  BY <2>1, <2>2, <3>1, <3>2 DEF HasData
  <2> QED  BY <2>3, <2>4
<1>12. Data'  BY <1>1, <1>4, <1>11 DEF Data
<1> QED  BY <1>10, <1>12

(* The move of the producers' tail appends the objects, whole and in one   *)
(* piece; that of the consumers' hands the taken ones over.                *)
LEMMA UpdateTailRefines ==
  ASSUME IInv, Data, NEW t \in Threads, UpdateTail(t)
  PROVE  Data' /\ [Fifo!Next]_Fifos
<1>1. /\ pc[t] = "publish" /\ pc' = [pc EXCEPT ![t] = "idle"] /\ call' = [call EXCEPT ![t] = NULL]
      /\ old_head' = [old_head EXCEPT ![t] = 0] /\ n' = [n EXCEPT ![t] = 0]
      /\ table' = [table EXCEPT ![t] = << >>]
      /\ UNCHANGED <<ring, head>>
  BY DEF UpdateTail, Return, Goto
<1>2. TypeOK /\ Busy(t)  BY <1>1 DEF IInv, Busy
<1>3. OthersKeep(t) /\ pc'[t] = "idle"  BY <1>1, <1>2 DEF OthersKeep, TypeOK
<1>4. DOMAIN table' = Threads /\ table'[t] = << >> /\ \A u \in Threads : u # t => table'[u] = table[u]
  BY <1>1 DEF Data
<1>5. HasData(t)'  BY <1>3, <1>4 DEF HasData
<1>6. Data'  BY <1>1, <1>3, <1>4, <1>5, DataStep
<1>7. /\ Side(t) \in Sides /\ n[t] \in Nat
      /\ call[t].objs \in Seq(Objs)
      /\ Side(t) = "prod" => Len(call[t].objs) = call[t].max /\ call[t].objs # << >>
      /\ Side(t) = "cons" => call[t].objs = << >>
  BY <1>2, CallObjs, Ranges
<1>8. /\ tail[Side(t)] = old_head[t] /\ n[t] <= InFlight(Side(t))
      /\ tail' = [tail EXCEPT ![Side(t)] = (tail[Side(t)] + n[t]) % U32]
  BY <1>1, PublisherIsFirst DEF UpdateTail
<1>9. PICK k \in Nat : k = n[t]  BY <1>7
<1>10. /\ Side(t) = "prod" => Stored' = Stored + k
       /\ Side(t) = "cons" => Stored' = Stored
  <2>1. Fits  BY DEF IInv
  <2> QED  BY <1>1, <1>2, <1>7, <1>8, <1>9, <2>1, PublishDistances
<1>11. OfferOf(t)' = << >> /\ OfferOf(t) = call[t].objs  BY <1>1, <1>3 DEF OfferOf
<1>12. TakenOf(t)' = << >> /\ TakenOf(t) = table[t]  BY <1>1, <1>3, <1>4 DEF TakenOf
<1>13. Offers' = [Offers EXCEPT ![t] = << >>] /\ Takens' = [Takens EXCEPT ![t] = << >>]
  BY <1>1, <1>3, <1>4, <1>11, <1>12, ViewStep
<1>14. Offers[t] = call[t].objs /\ Takens[t] = table[t]  BY <1>11, <1>12, Views
<1>15. CASE Side(t) = "cons"
  <2>1. Takens[t] # << >>  BY <1>1, <1>14, <1>15 DEF Data, HasData
  <2>2. Offers' = Offers  BY <1>7, <1>13, <1>14, <1>15, Views
  <2>3. Queue' = Queue  BY <1>1, <1>10, <1>15, Views
  <2>4. Fifo!Next  BY <1>13, <2>1, <2>2, <2>3, FifoHandOver, Zenon
  <2> QED  BY <1>6, <2>4
<1>16. CASE Side(t) = "prod"
  <2>1. table[t] = << >> /\ k <= Len(call[t].objs)
        /\ \A i \in 1 .. k : ring[Slot(old_head[t], i)] = call[t].objs[i]
    <3>1. "prod" # "cons"  OBVIOUS
    <3> QED  BY <1>1, <1>9, <1>16, <3>1 DEF Data, HasData
  <2>2. Takens' = Takens  BY <1>13, <1>14, <2>1, Views
  <2>3. PICK a \in Index, b \in Index : a = head["cons"] /\ b = Stored  BY QueueIs
  <2>4. ASSUME NEW i \in 1 .. k PROVE ring[Slot((a + b) % U32, i)] = call[t].objs[i]
    <3>1. i \in Nat \ {0}  OBVIOUS
    <3>2. PICK z \in Index : z = tail["prod"] /\ z = old_head[t]  BY <1>2, <1>8, <1>16, Ranges
    <3>3. b = Ahead(a, z)  BY <2>3, <3>2 DEF Stored
    <3>4. Slot(z, i) = Slot(a, b + i)  BY <3>1, <3>3, SlotFrom
    <3>5. Slot((a + b) % U32, i) = Slot(a, b + i)  BY <3>1, SlotMoved
    <3> QED  BY <2>1, <3>2, <3>4, <3>5
  <2>5. Queue = Read(ring, a, b) /\ Queue' = Read(ring, a, b + k)
    BY <1>1, <1>10, <1>16, <2>3, Views
  <2>6. Queue' = Queue \o SubSeq(Offers[t], 1, k)
    <3>1. ring \in [0 .. Size - 1 -> Vals]  BY DEF Data
    <3>2. Read(ring, a, b + k) = Read(ring, a, b) \o SubSeq(call[t].objs, 1, k)
      BY <1>7, <2>1, <2>4, <3>1, ReadAppends
    <3> QED  BY <1>14, <2>5, <3>2, Zenon
  <2>7. Len(Queue) + k <= Capacity
    <3>1. Len(Queue) = Stored /\ Stored \in Nat  BY QueueIs
    <3>2. "cons" \in Sides /\ "prod" \in Sides  BY DEF Sides
    <3>3. InFlight("cons") \in Nat /\ InFlight("prod") \in Nat  BY <1>2, <3>2, Ranges
    <3>4. InFlight("cons") + Stored + InFlight("prod") <= Capacity  BY DEF IInv, Fits
    <3>5. k <= InFlight("prod")  BY <1>8, <1>9, <1>16
    <3>6. Capacity \in Nat  BY RingSizes
    <3> QED  BY <3>1, <3>3, <3>4, <3>5, <3>6
  <2>8. k \in 0 .. Len(Offers[t]) /\ Offers[t] # << >>
    <3>1. Len(call[t].objs) \in Nat  BY <1>7, LenProperties
    <3> QED  BY <1>7, <1>14, <1>16, <2>1, <3>1
  <2>9. Fifo!Next  BY <1>13, <2>2, <2>6, <2>7, <2>8, FifoPut, Zenon
  <2> QED  BY <1>6, <2>9
<1> QED  BY <1>7, <1>15, <1>16 DEF Sides

(* Every step of the ring is a step of the queue of batches or invisible.  *)
LEMMA StepRefines ==
  ASSUME IInv, Data, [Next]_vars
  PROVE  Data' /\ [Fifo!Next]_Fifos
<1>1. CASE UNCHANGED vars
  <2>1. Data'
    BY <1>1 DEF vars, Data, HasData, Side, Slot
  <2>2. UNCHANGED Fifos
    BY <1>1 DEF vars, Fifos, Queue, Offers, Takens, Contents, SlotsOf, Ahead, Side
  <2> QED  BY <2>1, <2>2
<1>2. CASE Next
  <2>1. PICK t \in Threads : Begin(t) \/ Step(t)  BY <1>2 DEF Next
  <2>2. CASE Begin(t)  BY <2>2, BeginRefines
  <2>3. CASE ReadHead(t)  BY <2>3, ReadHeadRefines
  <2>4. CASE ReadTail(t)  BY <2>4, ReadTailRefines
  <2>5. CASE MoveHead(t)  BY <2>5, MoveHeadRefines
  <2>6. CASE CopyIn(t)  BY <2>6, CopyInRefines
  <2>7. CASE CopyOut(t)  BY <2>7, CopyOutRefines
  <2>8. CASE UpdateTail(t)  BY <2>8, UpdateTailRefines
  <2> QED  BY <2>1, <2>2, <2>3, <2>4, <2>5, <2>6, <2>7, <2>8 DEF Step
<1> QED  BY <1>1, <1>2

(* The empty ring is the empty queue. *)
LEMMA InitRefines ==
  ASSUME Init
  PROVE  Data /\ Fifo!Init
<1>1. Data  BY DEF Init, Data, HasData, Vals
<1>2. IInv  BY InitIInv
<1>3. Queue = << >>
  <2>1. Ahead(0, 0) = 0
    <3>1. 0 \in Index  BY RingSizes DEF Index
    <3> QED  BY <3>1, AheadAdds
  <2>2. Stored = 0  BY <2>1 DEF Init, Stored, Sides
  <2>3. Queue \in Seq(Vals) /\ Len(Queue) = 0  BY <1>1, <1>2, <2>2, QueueIs
  <2> QED  BY <2>3, EmptySeq
<1>4. \A t \in Threads : OfferOf(t) = << >> /\ TakenOf(t) = << >>  BY DEF Init, OfferOf, TakenOf
<1>5. Offers = [t \in Threads |-> << >>] /\ Takens = [t \in Threads |-> << >>]  BY <1>4, Views
<1>6. Fifo!Init  BY <1>3, <1>5, Zenon DEF Fifo!Init, Queue, Offers, Takens
<1> QED  BY <1>1, <1>6

(* The lock-free ring is a FIFO queue of batches for any number of         *)
(* threads, single or competing, any sizes and any width of the indices:   *)
(* an enqueue takes effect when the producers' tail passes its slots, a    *)
(* dequeue when it moves the consumers' head, and nothing the other        *)
(* threads do in between changes what either has copied.                   *)
THEOREM RingRefinesFifo == Spec => RingIsFifo
<1>1. Init => Data /\ Fifo!Init  BY InitRefines
<1>2. IInv /\ Data /\ [Next]_vars => Data' /\ [Fifo!Next]_Fifos  BY StepRefines
<1>3. [Fifo!Next]_Fifos <=>
        [Fifo!Next]_<<Contents(head["cons"], Ahead(head["cons"], tail["prod"])),
                      [t \in Threads |-> IF pc[t] = "idle" THEN << >> ELSE call[t].objs],
                      [t \in Threads |-> IF pc[t] = "copy" /\ Side(t) = "cons"
                                           THEN Contents(old_head[t], n[t]) ELSE table[t]]>>
  BY Zenon DEF Fifos, Queue, Offers, Takens
<1> QED  BY <1>1, <1>2, <1>3, RingInvariant, PTL DEF Spec, RingIsFifo, Fifo!Spec
(***************************************************************************)
(* The timers' lists.                                                      *)
(***************************************************************************)

(* A list without repetitions in the order of the expiry times f. *)
OrderedBy(s, f) ==
  \A i, j \in DOMAIN s : i < j => s[i] # s[j] /\ f[s[i]] <= f[s[j]]

(* The expiry of a list's first timer, 0 for an empty list. *)
FirstBy(s, f) == IF s = << >> THEN 0 ELSE f[Head(s)]

(* A non-empty set of numbers has a least one. *)
LEMMA LeastNumber ==
  ASSUME NEW T, T \subseteq Nat, T # {}
  PROVE  \E x \in T : \A y \in T : x <= y
<1>1. \E x \in T : \A y \in T : ~(<<y, x>> \in OpToRel(<, Nat))
  BY NatLessThanWellFounded, WFMin
<1>2. PICK x \in T : \A y \in T : ~(<<y, x>> \in OpToRel(<, Nat))  BY <1>1
<1>3. ASSUME NEW y \in T PROVE x <= y
  <2>1. x \in Nat /\ y \in Nat  OBVIOUS
  <2>2. y < x => <<y, x>> \in OpToRel(<, Nat)  BY <2>1 DEF OpToRel
  <2>3. ~(y < x)  BY <1>2, <2>2, Zenon
  <2> QED  BY <2>1, <2>3
<1> QED  BY <1>3

(* timer_get_prev_entries stops somewhere. *)
LEMMA PrevEntriesIs ==
  ASSUME NEW s \in Seq(Timers), expire \in [Timers -> Nat], NEW e \in Nat
  PROVE  LET p == PrevEntries(s, e)
         IN  /\ p \in 0 .. Len(s)
             /\ \A i \in 1 .. p : expire[s[i]] <= e
             /\ p < Len(s) => expire[s[p + 1]] > e
<1> DEFINE late == {i \in 1 .. Len(s) : expire[s[i]] > e}
           Stops(p) == /\ \A i \in 1 .. p : expire[s[i]] <= e
                       /\ p < Len(s) => expire[s[p + 1]] > e
<1>1. Len(s) \in Nat /\ \A i \in 1 .. Len(s) : expire[s[i]] \in Nat  OBVIOUS
<1>2. \E p \in 0 .. Len(s) : Stops(p)
  <2>1. CASE late = {}
    <3>1. Stops(Len(s))  BY <1>1, <2>1
    <3> QED  BY <1>1, <3>1
  <2>2. CASE late # {}
    <3>1. late \subseteq Nat  BY <1>1
    <3>2. PICK x \in late : \A y \in late : x <= y  BY <2>2, <3>1, LeastNumber
    <3> HIDE DEF late
    <3>3. x \in 1 .. Len(s) /\ expire[s[x]] > e  BY <3>2 DEF late
    <3>4. ASSUME NEW i \in 1 .. x - 1 PROVE expire[s[i]] <= e
      <4>1. i \in 1 .. Len(s) /\ ~(x <= i)  BY <1>1, <3>3
      <4>2. i \notin late  BY <3>2, <4>1
      <4> QED  BY <1>1, <4>1, <4>2 DEF late
    <3>5. (x - 1) + 1 = x /\ x - 1 \in 0 .. Len(s)  BY <1>1, <3>3
    <3>6. Stops(x - 1)  BY <3>3, <3>4, <3>5
    <3> QED  BY <3>5, <3>6
  <2> QED  BY <2>1, <2>2
<1> HIDE DEF Stops
<1>3. PrevEntries(s, e) = CHOOSE p \in 0 .. Len(s) : Stops(p)  BY DEF PrevEntries, Stops
<1>4. PrevEntries(s, e) \in 0 .. Len(s) /\ Stops(PrevEntries(s, e))  BY <1>2, <1>3, Zenon
<1> QED  BY <1>4 DEF Stops

(* The positions of a list r that is s with t put in behind the first p    *)
(* elements, or with element x taken out.                                  *)
PutIn(r, s, p, t) ==
  /\ r \in Seq(Timers) /\ Len(r) = Len(s) + 1 /\ r[p + 1] = t
  /\ \A i \in 1 .. p : r[i] = s[i]
  /\ \A i \in p + 1 .. Len(s) : r[i + 1] = s[i]

TakenOut(r, s, x) ==
  /\ r \in Seq(Timers) /\ Len(r) = Len(s) - 1
  /\ \A i \in 1 .. x - 1 : r[i] = s[i]
  /\ \A i \in x .. Len(s) - 1 : r[i] = s[i + 1]

(* InsertAt puts an element in. *)
LEMMA InsertAtIs ==
  ASSUME NEW s \in Seq(Timers), NEW p \in 0 .. Len(s), NEW t \in Timers
  PROVE  PutIn(InsertAt(s, p + 1, t), s, p, t)
<1> DEFINE a == SubSeq(s, 1, p)
           b == SubSeq(s, p + 1, Len(s))
           c == a \o <<t>>
<1>1. Len(s) \in Nat /\ p \in Int /\ (p + 1) - 1 = p  OBVIOUS
<1>2. a \in Seq(Timers) /\ Len(a) = p /\ \A i \in 1 .. p : a[i] = s[i]
  BY <1>1, SubSeqProperties
<1>3. /\ b \in Seq(Timers) /\ Len(b) = Len(s) - p
      /\ \A i \in 1 .. Len(s) - p : b[i] = s[p + i]
  BY <1>1, SubSeqProperties
<1>4. InsertAt(s, p + 1, t) = c \o b  BY <1>1 DEF InsertAt
<1> HIDE DEF a, b
<1>5. /\ c \in Seq(Timers) /\ Len(c) = p + 1 /\ c[p + 1] = t
      /\ \A i \in 1 .. p : c[i] = a[i]
  BY <1>1, <1>2
<1> HIDE DEF c
<1> DEFINE r == c \o b
<1>6. /\ r \in Seq(Timers) /\ Len(r) = Len(s) + 1
      /\ \A i \in 1 .. p + 1 : r[i] = c[i]
      /\ \A i \in 1 .. Len(s) - p : r[p + 1 + i] = b[i]
  BY <1>1, <1>3, <1>5
<1> HIDE DEF r
<1>7. ASSUME NEW i \in p + 1 .. Len(s) PROVE r[i + 1] = s[i]
  <2>1. PICK j \in 1 .. Len(s) - p : j = i - p  BY <1>1
  <2>2. p + 1 + j = i + 1 /\ p + j = i  BY <1>1, <2>1
  <2>3. r[p + 1 + j] = b[j] /\ b[j] = s[p + j]  BY <1>3, <1>6
  <2> QED  BY <2>2, <2>3
<1>8. r[p + 1] = t /\ \A i \in 1 .. p : r[i] = s[i]  BY <1>1, <1>2, <1>5, <1>6
<1>9. PutIn(r, s, p, t)  BY <1>6, <1>7, <1>8 DEF PutIn
<1> QED  BY <1>4, <1>9 DEF r

(* RemoveAt takes one out. *)
LEMMA RemoveAtIs ==
  ASSUME NEW s \in Seq(Timers), NEW x \in 1 .. Len(s)
  PROVE  TakenOut(RemoveAt(s, x), s, x)
<1> DEFINE a == SubSeq(s, 1, x - 1)
           b == SubSeq(s, x + 1, Len(s))
<1>1. Len(s) \in Nat /\ x \in Int  OBVIOUS
<1>2. a \in Seq(Timers) /\ Len(a) = x - 1 /\ \A i \in 1 .. x - 1 : a[i] = s[i]
  BY <1>1, SubSeqProperties
<1>3. /\ b \in Seq(Timers) /\ Len(b) = Len(s) - x
      /\ \A i \in 1 .. Len(s) - x : b[i] = s[x + i]
  BY <1>1, SubSeqProperties
<1>4. RemoveAt(s, x) = a \o b  BY <1>1 DEF RemoveAt
<1> HIDE DEF a, b
<1> DEFINE r == a \o b
<1>5. /\ r \in Seq(Timers) /\ Len(r) = Len(s) - 1
      /\ \A i \in 1 .. x - 1 : r[i] = a[i]
      /\ \A i \in 1 .. Len(s) - x : r[x - 1 + i] = b[i]
  <2>1. /\ r \in Seq(Timers) /\ Len(r) = Len(a) + Len(b)
        /\ \A i \in 1 .. Len(a) + Len(b) : r[i] = IF i <= Len(a) THEN a[i] ELSE b[i - Len(a)]
    BY <1>2, <1>3, ConcatProperties
  <2> HIDE DEF r
  <2>2. Len(a) = x - 1 /\ Len(a) + Len(b) = Len(s) - 1  BY <1>1, <1>2, <1>3
  <2>3. \A i \in 1 .. Len(s) - 1 : r[i] = IF i <= x - 1 THEN a[i] ELSE b[i - (x - 1)]
    BY <2>1, <2>2
  <2>4. ASSUME NEW i \in 1 .. Len(s) - x PROVE r[x - 1 + i] = b[i]
    <3>1. PICK j \in 1 .. Len(s) - 1 : j = x - 1 + i  BY <1>1
    <3>2. ~(j <= x - 1) /\ j - (x - 1) = i  BY <1>1, <3>1
    <3>3. r[j] = b[j - (x - 1)]  BY <2>3, <3>2
    <3> QED  BY <3>1, <3>2, <3>3
  <2>5. ASSUME NEW i \in 1 .. x - 1 PROVE r[i] = a[i]
    <3>1. i \in 1 .. Len(s) - 1 /\ i <= x - 1  BY <1>1
    <3> QED  BY <2>3, <3>1
  <2> QED  BY <2>1, <2>2, <2>4, <2>5
<1> HIDE DEF r
<1>6. ASSUME NEW i \in x .. Len(s) - 1 PROVE r[i] = s[i + 1]
  <2>1. PICK j \in 1 .. Len(s) - x : j = i - x + 1  BY <1>1
  <2>2. x - 1 + j = i /\ x + j = i + 1  BY <1>1, <2>1
  <2>3. r[x - 1 + j] = b[j] /\ b[j] = s[x + j]  BY <1>3, <1>5
  <2> QED  BY <2>2, <2>3
<1>7. TakenOut(r, s, x)  BY <1>2, <1>5, <1>6 DEF TakenOut
<1> QED  BY <1>4, <1>7 DEF r

(* The list r is s with t, in the order of f. *)
Inserted(r, s, t, f) ==
  r \in Seq(Timers) /\ ToSet(r) = ToSet(s) \union {t} /\ OrderedBy(r, f)

(* timer_add keeps the list in order, under the new expiry of the timer. *)
LEMMA InsertKeepsOrder ==
  ASSUME NEW s \in Seq(Timers), expire \in [Timers -> Nat], OrderedBy(s, expire),
         NEW t \in Timers, t \notin ToSet(s), NEW e \in Nat
  PROVE  Inserted(Insert(s, t, e), s, t, [expire EXCEPT ![t] = e])
<1> DEFINE p == PrevEntries(s, e)
           r == Insert(s, t, e)
           f == [expire EXCEPT ![t] = e]
<1>1. /\ p \in 0 .. Len(s)
      /\ \A i \in 1 .. p : expire[s[i]] <= e
      /\ p < Len(s) => expire[s[p + 1]] > e
  BY PrevEntriesIs
<1>2. r = InsertAt(s, p + 1, t)  BY DEF Insert
<1>3. Len(s) \in Nat /\ DOMAIN s = 1 .. Len(s) /\ \A i \in 1 .. Len(s) : s[i] \in Timers
  OBVIOUS
<1> HIDE DEF p, r
<1>4. /\ r \in Seq(Timers) /\ Len(r) = Len(s) + 1 /\ r[p + 1] = t
      /\ \A i \in 1 .. p : r[i] = s[i]
      /\ \A i \in p + 1 .. Len(s) : r[i + 1] = s[i]
  <2>1. p \in 0 .. Len(s)  BY <1>1
  <2>2. PutIn(InsertAt(s, p + 1, t), s, p, t)  BY <2>1, InsertAtIs
  <2>3. PutIn(r, s, p, t)  BY <1>2, <2>2
  <2> QED  BY <2>3 DEF PutIn
<1>5. DOMAIN r = 1 .. Len(s) + 1  BY <1>3, <1>4
<1>6. ASSUME NEW x \in 1 .. Len(s) + 1
      PROVE  \/ x < p + 1 /\ x \in 1 .. Len(s) /\ r[x] = s[x]
             \/ x = p + 1 /\ r[x] = t
             \/ x > p + 1 /\ \E v \in p + 1 .. Len(s) : v = x - 1 /\ r[x] = s[v]
  <2>1. CASE x < p + 1
    <3>1. x \in 1 .. p /\ x \in 1 .. Len(s)  BY <1>1, <1>3, <2>1
    <3>2. r[x] = s[x]  BY <1>4, <3>1
    <3> QED  BY <2>1, <3>1, <3>2
  <2>2. CASE x = p + 1  BY <1>4, <2>2
  <2>3. CASE x > p + 1
    <3>1. PICK y \in p + 1 .. Len(s) : y = x - 1  BY <1>1, <1>3, <2>3
    <3>2. r[y + 1] = s[y]  BY <1>4
    <3>3. y + 1 = x  BY <1>1, <1>3, <3>1
    <3> QED  BY <2>3, <3>1, <3>2, <3>3
  <2> QED  BY <1>1, <1>3, <2>1, <2>2, <2>3
<1>7. \A i \in 1 .. Len(s) : s[i] # t  BY <1>3 DEF ToSet
<1>8. /\ \A i \in 1 .. Len(s) : f[s[i]] = expire[s[i]] /\ expire[s[i]] \in Nat
      /\ f[t] = e
  BY <1>3, <1>7
<1>9. \A i \in p + 1 .. Len(s) : expire[s[i]] > e
  <2> SUFFICES ASSUME NEW i \in p + 1 .. Len(s) PROVE expire[s[i]] > e  OBVIOUS
  <2>1. p + 1 \in 1 .. Len(s) /\ i \in 1 .. Len(s) /\ p < Len(s)  BY <1>1, <1>3
  <2>2. expire[s[p + 1]] > e /\ expire[s[p + 1]] \in Nat  BY <1>1, <1>8, <2>1
  <2>3. expire[s[p + 1]] <= expire[s[i]]
    <3>1. CASE i = p + 1  BY <1>8, <2>1, <3>1
    <3>2. CASE i # p + 1
      <4>1. p + 1 < i  BY <1>1, <1>3, <3>2
      <4> QED  BY <1>3, <2>1, <4>1 DEF OrderedBy
    <3> QED  BY <3>1, <3>2
  <2> QED  BY <1>8, <2>1, <2>2, <2>3
<1> HIDE DEF f
<1>10. OrderedBy(r, f)
  <2> SUFFICES ASSUME NEW x \in 1 .. Len(s) + 1, NEW y \in 1 .. Len(s) + 1, x < y
               PROVE  r[x] # r[y] /\ f[r[x]] <= f[r[y]]
    BY <1>5 DEF OrderedBy
  <2>0. \A i, j \in 1 .. Len(s) : i < j => s[i] # s[j] /\ expire[s[i]] <= expire[s[j]]
    BY <1>3 DEF OrderedBy
  <2>1. CASE y < p + 1
    <3>1. /\ x \in 1 .. Len(s) /\ y \in 1 .. Len(s) /\ r[x] = s[x] /\ r[y] = s[y]
      BY <1>1, <1>3, <1>6, <2>1
    <3> QED  BY <1>8, <2>0, <3>1
  <2>2. CASE y = p + 1
    <3>1. x \in 1 .. p /\ x \in 1 .. Len(s) /\ r[x] = s[x] /\ r[y] = t
      BY <1>1, <1>3, <1>6, <2>2, SMTT(40)
    <3> QED  BY <1>1, <1>7, <1>8, <3>1
  <2>3. CASE y > p + 1
    <3>1. PICK v \in p + 1 .. Len(s) : v = y - 1 /\ r[y] = s[v]
      <4>1. ~(y < p + 1) /\ y # p + 1  BY <1>1, <1>3, <2>3
      <4> QED  BY <1>6, <4>1
    <3>2. v \in 1 .. Len(s) /\ f[r[y]] = expire[s[v]] /\ expire[s[v]] > e /\ expire[s[v]] \in Nat
      BY <1>1, <1>3, <1>8, <1>9, <3>1
    <3>3. CASE x < p + 1
      <4>0. ~(x = p + 1) /\ ~(x > p + 1)  BY <1>1, <1>3, <3>3
      <4>1. x \in 1 .. Len(s) /\ r[x] = s[x]  BY <1>6, <4>0
      <4>2. x < v  BY <1>1, <1>3, <3>1, <3>3
      <4> QED  BY <1>8, <2>0, <3>1, <3>2, <4>1, <4>2
    <3>4. CASE x = p + 1
      <4>1. r[x] = t  BY <1>4, <3>4
      <4> QED  BY <1>7, <1>8, <3>1, <3>2, <4>1
    <3>5. CASE x > p + 1
      <4>1. PICK u \in p + 1 .. Len(s) : u = x - 1 /\ r[x] = s[u]
        <5>1. ~(x < p + 1) /\ x # p + 1  BY <1>1, <1>3, <3>5
        <5> QED  BY <1>6, <5>1
      <4>2. u \in 1 .. Len(s) /\ u < v  BY <1>1, <1>3, <3>1, <4>1
      <4> QED  BY <1>8, <2>0, <3>1, <3>2, <4>1, <4>2, ZenonT(60)
    <3> QED  BY <1>1, <1>3, <3>3, <3>4, <3>5
  <2> QED  BY <1>1, <1>3, <2>1, <2>2, <2>3
<1>11. ToSet(r) = ToSet(s) \union {t}
  <2>1. ASSUME NEW u \in ToSet(r) PROVE u \in ToSet(s) \union {t}
    <3>1. PICK x \in 1 .. Len(s) + 1 : u = r[x]  BY <1>5 DEF ToSet
    <3>2. u = t \/ \E y \in 1 .. Len(s) : u = s[y]
      <4>1. CASE x < p + 1  BY <1>1, <1>3, <1>6, <3>1, <4>1
      <4>2. CASE x = p + 1  BY <1>4, <3>1, <4>2
      <4>3. CASE x > p + 1
        <5>1. PICK v \in p + 1 .. Len(s) : v = x - 1 /\ r[x] = s[v]  BY <1>1, <1>3, <1>6, <4>3
        <5>2. v \in 1 .. Len(s)  BY <1>1, <1>3
        <5> QED  BY <3>1, <5>1, <5>2
      <4> QED  BY <1>1, <1>3, <4>1, <4>2, <4>3
    <3> QED  BY <1>3, <3>2 DEF ToSet
  <2>2. ASSUME NEW u \in ToSet(s) PROVE u \in ToSet(r)
    <3>1. PICK i \in 1 .. Len(s) : u = s[i]  BY <1>3 DEF ToSet
    <3>2. i \in 1 .. p \/ i \in p + 1 .. Len(s)  BY <1>1, <1>3
    <3>3. \E j \in 1 .. Len(s) + 1 : r[j] = u
      <4>1. CASE i \in 1 .. p
        <5>1. r[i] = u /\ i \in 1 .. Len(s) + 1  BY <1>1, <1>3, <1>4, <3>1, <4>1
        <5> QED  BY <5>1
      <4>2. CASE i \in p + 1 .. Len(s)
        <5>1. r[i + 1] = u /\ i + 1 \in 1 .. Len(s) + 1  BY <1>1, <1>3, <1>4, <3>1, <4>2
        <5> QED  BY <5>1
      <4> QED  BY <3>2, <4>1, <4>2
    <3> QED  BY <1>5, <3>3 DEF ToSet
  <2>3. t \in ToSet(r)
    <3>1. p + 1 \in 1 .. Len(s) + 1  BY <1>1, <1>3
    <3> QED  BY <1>4, <1>5, <3>1 DEF ToSet
  <2> QED  BY <2>1, <2>2, <2>3
<1> QED  BY <1>4, <1>10, <1>11 DEF r, f, Inserted

(* An empty list. *)
LEMMA EmptyList ==
  /\ << >> \in Seq(Timers) /\ ToSet(<< >>) = {} /\ IsInjective(<< >>)
  /\ \A f : OrderedBy(<< >>, f) /\ FirstBy(<< >>, f) = 0
<1>1. << >> \in Seq(Timers) /\ DOMAIN << >> = {}  OBVIOUS
<1>2. ToSet(<< >>) = {}  BY <1>1 DEF ToSet
<1>3. IsInjective(<< >>)  BY <1>1, Zenon DEF IsInjective
<1> QED  BY <1>1, <1>2, <1>3 DEF OrderedBy, FirstBy

(* A list holds timers, and its order and first expiry depend only on the  *)
(* expiry of its own timers.                                               *)
LEMMA ListOf ==
  ASSUME NEW s \in Seq(Timers)
  PROVE  ToSet(s) \subseteq Timers /\ (s # << >> => Head(s) \in ToSet(s))
<1>1. DOMAIN s = 1 .. Len(s) /\ Len(s) \in Nat /\ \A i \in 1 .. Len(s) : s[i] \in Timers
  OBVIOUS
<1>2. s # << >> => Head(s) = s[1] /\ 1 \in 1 .. Len(s)  BY <1>1
<1> QED  BY <1>1, <1>2 DEF ToSet

(* An order is only about the timers in the list. *)
LEMMA SameOrder ==
  ASSUME NEW s \in Seq(Timers), NEW f, NEW g, \A t \in ToSet(s) : f[t] = g[t],
         OrderedBy(s, f)
  PROVE  OrderedBy(s, g) /\ FirstBy(s, g) = FirstBy(s, f)
<1>1. \A i \in DOMAIN s : s[i] \in ToSet(s)  BY DEF ToSet
<1>2. OrderedBy(s, g)  BY <1>1 DEF OrderedBy
<1>3. s # << >> => Head(s) \in ToSet(s)  BY ListOf
<1> QED  BY <1>2, <1>3 DEF FirstBy

(* Taking the first timer off a list. *)
LEMMA TailIs ==
  ASSUME NEW s \in Seq(Timers), s # << >>, IsInjective(s)
  PROVE  /\ Tail(s) \in Seq(Timers) /\ IsInjective(Tail(s))
         /\ ToSet(Tail(s)) = ToSet(s) \ {Head(s)}
<1>1. /\ DOMAIN s = 1 .. Len(s) /\ Len(s) \in Nat
      /\ Tail(s) \in Seq(Timers) /\ Len(Tail(s)) = Len(s) - 1 /\ Head(s) = s[1]
      /\ DOMAIN Tail(s) = 1 .. Len(s) - 1
      /\ \A x \in 1 .. Len(s) - 1 : Tail(s)[x] = s[x + 1]
  OBVIOUS
<1>2. IsInjective(Tail(s))  BY <1>1 DEF IsInjective
<1>3. ASSUME NEW x \in ToSet(s), x # Head(s) PROVE x \in ToSet(Tail(s))
  <2>1. PICK i \in 1 .. Len(s) : x = s[i]  BY <1>1, <1>3 DEF ToSet
  <2>2. i - 1 \in 1 .. Len(s) - 1 /\ (i - 1) + 1 = i  BY <1>1, <1>3, <2>1
  <2>3. x = Tail(s)[i - 1]  BY <1>1, <2>1, <2>2
  <2> QED  BY <1>1, <2>2, <2>3 DEF ToSet
<1>4. ASSUME NEW x \in ToSet(Tail(s)) PROVE x \in ToSet(s) /\ x # Head(s)
  <2>1. PICK i \in 1 .. Len(s) - 1 : x = s[i + 1]  BY <1>1, <1>4 DEF ToSet
  <2>2. i + 1 \in 1 .. Len(s) /\ i + 1 # 1 /\ 1 \in 1 .. Len(s)  BY <1>1
  <2> QED  BY <1>1, <2>1, <2>2 DEF ToSet, IsInjective
<1> QED  BY <1>1, <1>2, <1>3, <1>4

(* Appending a timer to a list. *)
LEMMA AppendIs ==
  ASSUME NEW s \in Seq(Timers), NEW t \in Timers, t \notin ToSet(s), IsInjective(s)
  PROVE  /\ Append(s, t) \in Seq(Timers) /\ IsInjective(Append(s, t))
         /\ ToSet(Append(s, t)) = ToSet(s) \union {t}
<1> DEFINE r == Append(s, t)
<1>1. /\ DOMAIN s = 1 .. Len(s) /\ Len(s) \in Nat
      /\ r \in Seq(Timers) /\ Len(r) = Len(s) + 1 /\ r[Len(s) + 1] = t
      /\ DOMAIN r = 1 .. Len(s) + 1
      /\ \A x \in 1 .. Len(s) : r[x] = s[x]
  OBVIOUS
<1> HIDE DEF r
<1>2. \A x \in 1 .. Len(s) + 1 : x \in 1 .. Len(s) \/ x = Len(s) + 1  BY <1>1
<1>3. \A x \in 1 .. Len(s) : s[x] # t  BY <1>1 DEF ToSet
<1>4. IsInjective(r)
  <2> SUFFICES ASSUME NEW x \in 1 .. Len(s) + 1, NEW y \in 1 .. Len(s) + 1, r[x] = r[y]
               PROVE  x = y
    BY <1>1 DEF IsInjective
  <2> QED  BY <1>1, <1>2, <1>3 DEF IsInjective
<1>5. ToSet(r) = ToSet(s) \union {t}
  <2>1. 1 .. Len(s) \subseteq 1 .. Len(s) + 1 /\ Len(s) + 1 \in 1 .. Len(s) + 1  BY <1>1
  <2> QED  BY <1>1, <1>2, <2>1 DEF ToSet
<1> QED  BY <1>1, <1>4, <1>5 DEF r

(* The list s is cut into a and b. *)
Cut(s, a, b, f) ==
  /\ a \in Seq(Timers) /\ b \in Seq(Timers)
  /\ ToSet(s) = ToSet(a) \union ToSet(b) /\ ToSet(a) \intersect ToSet(b) = {}
  /\ IsInjective(a) /\ OrderedBy(b, f)

(* rte_timer_manage breaks a list in two. *)
LEMMA SplitIs ==
  ASSUME NEW s \in Seq(Timers), NEW f, OrderedBy(s, f), NEW p \in 0 .. Len(s)
  PROVE  Cut(s, SubSeq(s, 1, p), SubSeq(s, p + 1, Len(s)), f)
<1> DEFINE a == SubSeq(s, 1, p)
           b == SubSeq(s, p + 1, Len(s))
<1>1. /\ Len(s) \in Nat /\ DOMAIN s = 1 .. Len(s)
      /\ \A i \in 1 .. Len(s) : s[i] \in Timers
      /\ \A i, j \in 1 .. Len(s) : i < j => s[i] # s[j] /\ f[s[i]] <= f[s[j]]
  BY DEF OrderedBy
<1>0. Len(s) \in Nat /\ \A i \in 1 .. Len(s) : s[i] \in Timers  OBVIOUS
<1>2. a \in Seq(Timers) /\ Len(a) = p /\ \A i \in 1 .. p : a[i] = s[i]
  BY <1>0, SubSeqProperties
<1>3. /\ b \in Seq(Timers) /\ Len(b) = Len(s) - p
      /\ \A i \in 1 .. Len(s) - p : b[i] = s[p + i]
  BY <1>0, SubSeqProperties
<1> HIDE DEF a, b
<1>4. DOMAIN a = 1 .. p /\ DOMAIN b = 1 .. Len(s) - p  BY <1>2, <1>3
<1>5. \A i, j \in 1 .. Len(s) : s[i] = s[j] => i = j
  <2> SUFFICES ASSUME NEW i \in 1 .. Len(s), NEW j \in 1 .. Len(s), i # j PROVE s[i] # s[j]
    OBVIOUS
  <2>1. i < j \/ j < i  BY <1>1
  <2> QED  BY <1>1, <2>1
<1>6. IsInjective(a)
  <2>1. \A i \in 1 .. p : i \in 1 .. Len(s)  BY <1>1
  <2>2. \A i, j \in 1 .. p : a[i] = a[j] => i = j  BY <1>2, <1>5, <2>1
  <2> QED  BY <1>4, <2>2, Zenon DEF IsInjective
<1>7. OrderedBy(b, f)
  <2> SUFFICES ASSUME NEW i \in 1 .. Len(s) - p, NEW j \in 1 .. Len(s) - p, i < j
               PROVE  b[i] # b[j] /\ f[b[i]] <= f[b[j]]
    BY <1>4 DEF OrderedBy
  <2>1. PICK u \in 1 .. Len(s), v \in 1 .. Len(s) : u = p + i /\ v = p + j /\ u < v
    BY <1>1
  <2>2. b[i] = s[u] /\ b[j] = s[v]  BY <1>3, <2>1
  <2> QED  BY <1>1, <2>1, <2>2
<1>8. ASSUME NEW t
      PROVE  /\ t \in ToSet(a) <=> \E i \in 1 .. p : t = s[i]
             /\ t \in ToSet(b) <=> \E i \in p + 1 .. Len(s) : t = s[i]
             /\ t \in ToSet(s) <=> \E i \in 1 .. Len(s) : t = s[i]
  <2>1. t \in ToSet(a) <=> \E i \in 1 .. p : t = s[i]  BY <1>2, <1>4 DEF ToSet
  <2>2. t \in ToSet(s) <=> \E i \in 1 .. Len(s) : t = s[i]  BY <1>1 DEF ToSet
  <2>3. ASSUME t \in ToSet(b) PROVE \E i \in p + 1 .. Len(s) : t = s[i]
    <3>1. PICK j \in 1 .. Len(s) - p : t = b[j]  BY <1>4, <2>3 DEF ToSet
    <3>2. p + j \in p + 1 .. Len(s)  BY <1>1
    <3> QED  BY <1>3, <3>1, <3>2
  <2>4. ASSUME NEW i \in p + 1 .. Len(s), t = s[i] PROVE t \in ToSet(b)
    <3>1. PICK j \in 1 .. Len(s) - p : j = i - p  BY <1>1
    <3>2. p + j = i  BY <1>1, <3>1
    <3>3. t = b[j]  BY <1>3, <2>4, <3>2
    <3> QED  BY <1>4, <3>3 DEF ToSet
  <2> QED  BY <2>1, <2>2, <2>3, <2>4
<1>9. ToSet(s) = ToSet(a) \union ToSet(b)
  <2>1. \A i : i \in 1 .. Len(s) <=> i \in 1 .. p \/ i \in p + 1 .. Len(s)  BY <1>1
  <2>2. \A t : t \in ToSet(s) <=> t \in ToSet(a) \/ t \in ToSet(b)  BY <1>8, <2>1, Zenon
  <2> QED  BY <2>2
<1>10. ToSet(a) \intersect ToSet(b) = {}
  <2> SUFFICES ASSUME NEW t \in ToSet(a), t \in ToSet(b) PROVE FALSE  OBVIOUS
  <2>1. PICK i \in 1 .. p, j \in p + 1 .. Len(s) : t = s[i] /\ t = s[j]  BY <1>8, Zenon
  <2>2. i \in 1 .. Len(s) /\ j \in 1 .. Len(s) /\ i # j  BY <1>1
  <2> QED  BY <1>5, <2>1, <2>2
<1> QED  BY <1>2, <1>3, <1>6, <1>7, <1>9, <1>10 DEF a, b, Cut

(* The ordered list r is s without t, and its first expiry is the one that *)
(* timer_del caches.                                                       *)
Without(r, s, t, f) ==
  /\ r \in Seq(Timers) /\ OrderedBy(r, f) /\ ToSet(r) = ToSet(s) \ {t}
  /\ FirstBy(r, f) = IF s # << >> /\ Head(s) = t THEN FirstBy(Tail(s), f) ELSE FirstBy(s, f)

(* timer_del takes a timer out of a list it may be in. *)
LEMMA RemoveFirstIs ==
  ASSUME NEW s \in Seq(Timers), NEW f, OrderedBy(s, f), NEW t \in Timers
  PROVE  Without(RemoveFirst(s, t), s, t, f)
<1> DEFINE r == RemoveFirst(s, t)
<1>1. /\ Len(s) \in Nat /\ DOMAIN s = 1 .. Len(s)
      /\ \A i \in 1 .. Len(s) : s[i] \in Timers
      /\ \A i, j \in 1 .. Len(s) : i < j => s[i] # s[j] /\ f[s[i]] <= f[s[j]]
  BY DEF OrderedBy
<1>2. s # << >> => Head(s) = s[1] /\ 1 \in 1 .. Len(s)  BY <1>1
<1>3. CASE ~\E i \in 1 .. Len(s) : s[i] = t
  <2>1. r = s  BY <1>3 DEF RemoveFirst
  <2>2. t \notin ToSet(s)  BY <1>1, <1>3 DEF ToSet
  <2>3. ~(s # << >> /\ Head(s) = t)  BY <1>2, <1>3
  <2> QED  BY <2>1, <2>2, <2>3 DEF Without
<1>4. CASE \E i \in 1 .. Len(s) : s[i] = t
  <2>1. PICK x \in 1 .. Len(s) : s[x] = t  BY <1>4
  <2>2. ASSUME NEW i \in 1 .. Len(s), s[i] = t PROVE i = x
    <3>1. i < x \/ x < i \/ i = x  BY <1>1
    <3> QED  BY <1>1, <2>1, <2>2, <3>1
  <2>3. r = RemoveAt(s, x)
    <3>1. {i \in 1 .. Len(s) : s[i] = t} = {x}  BY <2>1, <2>2
    <3>2. SelectInSeq(s, LAMBDA v : v = t) = Min({x})  BY <3>1 DEF SelectInSeq
    <3>3. Min({x}) = x
      <4>1. \A y \in {x} : x <= y  BY <1>1
      <4> QED  BY <4>1 DEF Min
    <3> QED  BY <1>4, <3>2, <3>3 DEF RemoveFirst
  <2>4. TakenOut(r, s, x)  BY <2>3, RemoveAtIs
  <2> HIDE DEF r
  <2>5. /\ r \in Seq(Timers) /\ Len(r) = Len(s) - 1 /\ DOMAIN r = 1 .. Len(s) - 1
        /\ \A i \in 1 .. x - 1 : r[i] = s[i]
        /\ \A i \in x .. Len(s) - 1 : r[i] = s[i + 1]
    BY <1>1, <2>4 DEF TakenOut
  <2> DEFINE place(i) == IF i < x THEN i ELSE i + 1
  <2>6. ASSUME NEW i \in 1 .. Len(s) - 1
        PROVE  place(i) \in 1 .. Len(s) /\ place(i) # x /\ r[i] = s[place(i)]
    <3>1. CASE i < x
      <4>1. i \in 1 .. x - 1 /\ place(i) = i  BY <1>1, <3>1
      <4> QED  BY <1>1, <2>5, <4>1
    <3>2. CASE ~(i < x)
      <4>1. i \in x .. Len(s) - 1 /\ place(i) = i + 1  BY <1>1, <3>2
      <4> QED  BY <1>1, <2>5, <4>1
    <3> QED  BY <3>1, <3>2
  <2>7. OrderedBy(r, f)
    <3> SUFFICES ASSUME NEW i \in 1 .. Len(s) - 1, NEW j \in 1 .. Len(s) - 1, i < j
                 PROVE  r[i] # r[j] /\ f[r[i]] <= f[r[j]]
      BY <2>5 DEF OrderedBy
    <3>1. place(i) < place(j)  BY <1>1
    <3> HIDE DEF place
    <3> QED  BY <1>1, <2>6, <3>1
  <2>8. ToSet(r) = ToSet(s) \ {t}
    <3>1. ASSUME NEW u \in ToSet(r) PROVE u \in ToSet(s) \ {t}
      <4>1. PICK i \in 1 .. Len(s) - 1 : u = r[i]  BY <2>5 DEF ToSet
      <4> HIDE DEF place
      <4> QED  BY <1>1, <2>2, <2>6, <4>1 DEF ToSet
    <3>2. ASSUME NEW u \in ToSet(s), u # t PROVE u \in ToSet(r)
      <4>1. PICK j \in 1 .. Len(s) : u = s[j]  BY <1>1 DEF ToSet
      <4>2. j # x  BY <2>1, <3>2, <4>1
      <4>3. PICK i \in 1 .. Len(s) - 1 : place(i) = j
        <5>1. CASE j < x
          <6>1. j \in 1 .. Len(s) - 1 /\ place(j) = j  BY <1>1, <5>1
          <6> QED  BY <6>1
        <5>2. CASE ~(j < x)
          <6>1. j - 1 \in 1 .. Len(s) - 1 /\ place(j - 1) = j  BY <1>1, <4>2, <5>2
          <6> QED  BY <6>1
        <5> QED  BY <5>1, <5>2
      <4> HIDE DEF place
      <4>4. u = r[i]  BY <2>6, <4>1, <4>3
      <4> QED  BY <2>5, <4>4 DEF ToSet
    <3> QED  BY <3>1, <3>2
  <2>9. FirstBy(r, f) = IF s # << >> /\ Head(s) = t THEN FirstBy(Tail(s), f) ELSE FirstBy(s, f)
    <3>1. s # << >> /\ Head(s) = s[1] /\ 1 \in 1 .. Len(s)  BY <1>1
    <3>2. CASE x = 1
      <4>1. Head(s) = t  BY <2>1, <3>1, <3>2
      <4>2. r = Tail(s)
        <5>1. /\ Tail(s) \in Seq(Timers) /\ Len(Tail(s)) = Len(s) - 1
              /\ \A i \in 1 .. Len(s) - 1 : Tail(s)[i] = s[i + 1]
          BY <3>1
        <5>2. \A i \in 1 .. Len(s) - 1 : r[i] = Tail(s)[i]  BY <2>5, <3>2, <5>1
        <5> QED  BY <2>5, <5>1, <5>2, SeqEqual
      <4> QED  BY <3>1, <4>1, <4>2
    <3>3. CASE x # 1
      <4>1. Head(s) # t  BY <2>2, <3>1, <3>3
      <4>2. 1 \in 1 .. x - 1 /\ Len(s) - 1 > 0  BY <1>1, <3>3
      <4>3. r # << >> /\ Head(r) = r[1] /\ r[1] = s[1]  BY <2>5, <4>2
      <4> QED  BY <3>1, <4>1, <4>3 DEF FirstBy
    <3> QED  BY <3>2, <3>3
  <2> QED  BY <2>5, <2>7, <2>8, <2>9 DEF r, Without
<1> QED  BY <1>3, <1>4

(***************************************************************************)
(* The inductive invariant of the timers.                                  *)
(***************************************************************************)

(* Lcore o has taken timer t, and is still to take it out of lcore k's     *)
(* list.                                                                   *)
Deleting(o, t, k) ==
  op[o] # NONE /\ op[o].pc = "del" /\ op[o].tim = t /\ op[o].prev = k

(* Lcore o has put timer t into lcore k's list, and is still to mark it    *)
(* pending.                                                                *)
Linking(o, t, k) ==
  op[o] # NONE /\ op[o].pc = "pending" /\ op[o].tim = t /\ op[o].dest = k

(* Lcore o is between taking timer t and letting go of it. *)
Holding(o, t) ==
  op[o] # NONE /\ op[o].pc \in {"del", "add", "pending", "stop"} /\ op[o].tim = t

(* Lcore k has marked its periodical timer t pending, and is still to take *)
(* it again in order to put it into the list.                              *)
Rearming(k, t) ==
  mpc[k] = "rearm" /\ op[k] # NONE /\ op[k].pc = "config" /\ op[k].tim = t

(* The status words. *)
StatusWord == {Stopped} \union {Pending(l) : l \in Lcores}
                \union {Running(l) : l \in Lcores} \union {Config(l) : l \in Lcores}

(* The types of the variables. *)
TimerTypes ==
  /\ now \in Nat
  /\ status \in [Timers -> StatusWord]
  /\ expire \in [Timers -> Nat] /\ period \in [Timers -> Nat]
  /\ list \in [Lcores -> Seq(Timers)]
  /\ head_expire \in [Lcores -> Nat]
  /\ lock \in [Lcores -> Lcores \union {NONE}]
  /\ updated \in [Lcores -> BOOLEAN]
  /\ running_tim \in [Lcores -> Timers \union {NONE}]
  /\ mpc \in [Lcores -> {"idle", "lock", "scan", "run", "callback", "rearm"}]
  /\ cur_time \in [Lcores -> Nat]
  /\ scan \in [Lcores -> Seq(Timers)] /\ run \in [Lcores -> Seq(Timers)]
  /\ cb_left \in [Lcores -> Nat]
  /\ op \in [Lcores -> Ops \union {NONE}]

(* A call in progress comes from the main loop, a callback or manage       *)
(* itself, which alone has no need of the lock.  Only a reset has a        *)
(* destination, only a timer that was pending is taken out of a list, and  *)
(* whoever has linked a timer still has the lock of that list.             *)
OpsFit ==
  \A l \in Lcores : op[l] # NONE =>
    /\ mpc[l] \in {"idle", "callback", "rearm"}
    /\ op[l].locked <=> mpc[l] = "rearm"
    /\ mpc[l] = "rearm" => op[l].dest = l /\ op[l].kind = "reset"
    /\ op[l].kind = "reset" => op[l].dest \in Lcores
    /\ op[l].pc = "del" => op[l].prev \in Lcores
    /\ op[l].pc \in {"add", "pending"} => op[l].kind = "reset"
    /\ op[l].pc = "stop" => op[l].kind = "stop"
    /\ op[l].pc = "pending" =>
         lock[op[l].dest] = l /\ op[l].tim \in ToSet(list[op[l].dest])

(* The compare-and-set decides: a timer is in the configuration state      *)
(* exactly while one lcore's call is between taking it and letting go of   *)
(* it, and the word names that lcore.                                      *)
Held == \A l \in Lcores, t \in Timers : Holding(l, t) <=> status[t] = Config(l)

(* A periodical timer that manage marked pending without linking it is     *)
(* still pending, or somebody has taken it and will look for it in the     *)
(* list of this lcore, in vain.                                            *)
RearmsFit ==
  \A l \in Lcores : mpc[l] = "rearm" /\ op[l] # NONE =>
    /\ op[l].pc = "config" =>
         \/ status[op[l].tim] = Pending(l)
         \/ \E o \in Lcores : Deleting(o, op[l].tim, l)
    /\ op[l].pc = "del" => op[l].prev = l

(* Manage has its own lock while it walks the expired timers and while it  *)
(* sets a periodical one again.                                            *)
LocksFit ==
  \A k \in Lcores :
    /\ mpc[k] \in {"scan", "rearm"} => lock[k] = k
    /\ mpc[k] # "scan" => scan[k] = << >>

(* A timer in a list is pending there, about to be taken out of it, or     *)
(* just put into it.                                                       *)
ListsFit ==
  \A k \in Lcores : \A t \in ToSet(list[k]) :
    status[t] = Pending(k) \/ \E o \in Lcores : Deleting(o, t, k) \/ Linking(o, t, k)

(* The same of a timer broken off a list, which is no longer in it. *)
ScansFit ==
  \A k \in Lcores : \A t \in ToSet(scan[k]) :
    /\ status[t] = Pending(k) \/ \E o \in Lcores : Deleting(o, t, k)
    /\ t \notin ToSet(list[k])

(* A timer that waits for its callback is running, and so is the one of    *)
(* the callback that runs, unless the callback itself has reset or stopped *)
(* it.                                                                     *)
RunsFit ==
  \A k \in Lcores :
    /\ \A t \in ToSet(run[k]) : status[t] = Running(k)
    /\ run[k] # << >> => mpc[k] \in {"scan", "run", "callback", "rearm"}
    /\ mpc[k] = "callback" =>
         running_tim[k] \in Timers /\ running_tim[k] \notin ToSet(run[k])
    /\ mpc[k] \in {"idle", "lock", "scan"} => running_tim[k] = NONE
    /\ mpc[k] = "callback" /\ ~updated[k] => status[running_tim[k]] = Running(k)

(* A pending timer is in its owner's list, was broken off it, or is about  *)
(* to be set again.                                                        *)
PendingListed ==
  \A t \in Timers, k \in Lcores :
    status[t] = Pending(k) =>
      t \in ToSet(list[k]) \/ t \in ToSet(scan[k]) \/ Rearming(k, t)

(* The lists are in the order of the expiry times, and nothing in them, or *)
(* broken off them, occurs twice.                                          *)
ListsOrdered ==
  \A k \in Lcores :
    /\ OrderedBy(list[k], expire)
    /\ IsInjective(scan[k]) /\ IsInjective(run[k])

(* The cached expiry is the list's first one, unless manage is walking the *)
(* list or a timer was just put into it.                                   *)
HeadsCached ==
  \A k \in Lcores :
    mpc[k] # "scan" /\ (\A o \in Lcores, t \in Timers : ~Linking(o, t, k)) =>
      head_expire[k] = FirstBy(list[k], expire)

(* What every step of the library keeps. *)
TimerInv ==
  /\ TimerTypes /\ OpsFit /\ Held /\ RearmsFit /\ LocksFit /\ ListsFit /\ ScansFit
  /\ RunsFit /\ PendingListed /\ ListsOrdered /\ HeadsCached

(***************************************************************************)
(* Status words.                                                           *)
(***************************************************************************)

(* What the constructors of a status word put into it. *)
LEMMA StatusFields ==
  /\ Stopped.state = "stop" /\ Stopped.owner = NONE
  /\ \A l : /\ Pending(l).state = "pending" /\ Pending(l).owner = l
            /\ Running(l).state = "running" /\ Running(l).owner = l
            /\ Config(l).state = "config" /\ Config(l).owner = l
  BY DEF Stopped, Pending, Running, Config

(* A status word is what its fields say. *)
LEMMA WordIs ==
  ASSUME NEW w \in StatusWord
  PROVE  /\ w.state \in {"stop", "pending", "running", "config"}
         /\ w.state = "stop" => w = Stopped
         /\ w.state = "pending" => w.owner \in Lcores /\ w = Pending(w.owner)
         /\ w.state = "running" => w.owner \in Lcores /\ w = Running(w.owner)
         /\ w.state = "config" => w.owner \in Lcores /\ w = Config(w.owner)
         /\ w.owner \in Lcores \union {NONE}
<1>1. \/ w = Stopped
      \/ \E l \in Lcores : w = Pending(l) \/ w = Running(l) \/ w = Config(l)
  BY DEF StatusWord
<1> QED  BY <1>1, StatusFields

(* The words the code writes. *)
LEMMA WordsWritten ==
  Stopped \in StatusWord
  /\ \A l \in Lcores : Pending(l) \in StatusWord /\ Running(l) \in StatusWord
                        /\ Config(l) \in StatusWord
  BY DEF StatusWord

(* What a call begins with, and it is not mistaken for no call. *)
LEMMA NewOpIs ==
  ASSUME NEW kind \in {"reset", "stop"}, NEW t \in Timers, NEW e \in Nat, NEW p \in Nat,
         NEW dest \in Lcores \union {NONE}, NEW locked \in BOOLEAN,
         NEW o, o = NewOp(kind, t, e, p, dest, locked)
  PROVE  /\ o \in Ops /\ o # NONE /\ o.pc = "config" /\ o.kind = kind /\ o.tim = t
         /\ o.dest = dest /\ o.locked = locked
<1>1. o \in Ops  BY DEF NewOp, Ops
<1> QED  BY <1>1, TimerAssumption DEF NewOp

(* The first expiry of a list is a time. *)
LEMMA FirstIs ==
  ASSUME NEW s \in Seq(Timers), NEW f \in [Timers -> Nat]
  PROVE  FirstBy(s, f) \in Nat
<1>1. s # << >> => Head(s) \in Timers  OBVIOUS
<1> QED  BY <1>1 DEF FirstBy

(* The lists hold timers. *)
LEMMA ListedTimers ==
  ASSUME TimerTypes, NEW k \in Lcores
  PROVE  /\ list[k] \in Seq(Timers) /\ scan[k] \in Seq(Timers) /\ run[k] \in Seq(Timers)
         /\ ToSet(list[k]) \subseteq Timers /\ ToSet(scan[k]) \subseteq Timers
         /\ ToSet(run[k]) \subseteq Timers
<1>1. list[k] \in Seq(Timers) /\ scan[k] \in Seq(Timers) /\ run[k] \in Seq(Timers)
  BY DEF TimerTypes
<1> QED  BY <1>1, ListOf

(***************************************************************************)
(* Every step keeps the invariant.                                         *)
(***************************************************************************)

(* Time passes. *)
LEMMA TickKeepsInv ==
  ASSUME TimerInv, Tick
  PROVE  TimerInv'
<1>0. /\ TimerTypes /\ OpsFit /\ Held /\ RearmsFit /\ LocksFit /\ ListsFit /\ ScansFit
      /\ RunsFit /\ PendingListed /\ ListsOrdered /\ HeadsCached
  BY DEF TimerInv
<1> USE DEF Tick, statusVars, listVars, manageVars
<1>1. TimerTypes'  BY <1>0 DEF TimerTypes
<1>2. OpsFit'  BY <1>0 DEF OpsFit
<1>3. Held' /\ RearmsFit'  BY <1>0 DEF Held, RearmsFit, Holding, Deleting
<1>4. LocksFit' /\ ListsFit' /\ ScansFit'
  BY <1>0 DEF LocksFit, ListsFit, ScansFit, Deleting, Linking
<1>5. RunsFit' /\ PendingListed'  BY <1>0 DEF RunsFit, PendingListed, Rearming
<1>6. ListsOrdered' /\ HeadsCached'  BY <1>0 DEF ListsOrdered, HeadsCached, Linking
<1> QED  BY <1>1, <1>2, <1>3, <1>4, <1>5, <1>6 DEF TimerInv

(* rte_timer_reset or rte_timer_stop is called. *)
LEMMA CallKeepsInv ==
  ASSUME TimerInv, NEW l \in Lcores, NEW o \in Ops, o.pc = "config", ~o.locked,
         o.kind = "reset" => o.dest \in Lcores, CallsTimer(l, o)
  PROVE  TimerInv'
<1>0. /\ TimerTypes /\ OpsFit /\ Held /\ RearmsFit /\ LocksFit /\ ListsFit /\ ScansFit
      /\ RunsFit /\ PendingListed /\ ListsOrdered /\ HeadsCached
  BY DEF TimerInv
<1>1. /\ op[l] = NONE /\ mpc[l] \in {"idle", "callback"}
      /\ op'[l] = o /\ \A k \in Lcores : k # l => op'[k] = op[k]
  BY <1>0 DEF CallsTimer, MayCallTimer, TimerTypes
<1>2. /\ UNCHANGED <<now, status, expire, period, list, head_expire, lock, updated>>
      /\ UNCHANGED <<mpc, cur_time, scan, run, running_tim>>
  BY DEF CallsTimer, statusVars, listVars
<1>3. TimerTypes'
  <2>1. op' \in [Lcores -> Ops \union {NONE}]  BY <1>0 DEF CallsTimer, TimerTypes
  <2>2. cb_left' \in [Lcores -> Nat]  BY <1>0 DEF CallsTimer, TimerTypes
  <2> QED  BY <1>0, <1>2, <2>1, <2>2 DEF TimerTypes
<1>4. OpsFit'  BY <1>0, <1>1, <1>2 DEF OpsFit
<1>5. Held'  BY <1>0, <1>1, <1>2 DEF Held, Holding
<1>6. RearmsFit'  BY <1>0, <1>1, <1>2 DEF RearmsFit, Deleting
<1>7. LocksFit' /\ ListsFit' /\ ScansFit'
  BY <1>0, <1>1, <1>2 DEF LocksFit, ListsFit, ScansFit, Deleting, Linking
<1>8. RunsFit' /\ PendingListed'  BY <1>0, <1>1, <1>2 DEF RunsFit, PendingListed, Rearming
<1>9. ListsOrdered' /\ HeadsCached'
  BY <1>0, <1>1, <1>2 DEF ListsOrdered, HeadsCached, Linking
<1> QED  BY <1>3, <1>4, <1>5, <1>6, <1>7, <1>8, <1>9 DEF TimerInv

(* timer_set_config_state refuses. *)
LEMMA RefusalKeepsInv ==
  ASSUME TimerInv, NEW l \in Lcores, SetConfigState(l), ConfigRefused(l)
  PROVE  TimerInv'
<1>0. /\ TimerTypes /\ OpsFit /\ Held /\ RearmsFit /\ LocksFit /\ ListsFit /\ ScansFit
      /\ RunsFit /\ PendingListed /\ ListsOrdered /\ HeadsCached
  BY DEF TimerInv
<1>1. /\ op[l] # NONE /\ op[l].pc = "config" /\ ~MayConfig(l, op[l].tim)
      /\ op'[l] = NONE /\ \A k \in Lcores : k # l => op'[k] = op[k]
  BY <1>0 DEF SetConfigState, ConfigRefused, TimerTypes
<1>2. /\ UNCHANGED <<now, status, expire, period, list, head_expire, lock, updated>>
      /\ UNCHANGED <<mpc, cur_time, scan, run, running_tim, cb_left>>
  BY DEF SetConfigState, ConfigRefused, listVars, manageVars
<1>3. TimerTypes'
  <2>1. op' \in [Lcores -> Ops \union {NONE}]  BY <1>0 DEF ConfigRefused, TimerTypes
  <2> QED  BY <1>0, <1>2, <2>1 DEF TimerTypes
<1>4. OpsFit'  BY <1>0, <1>1, <1>2 DEF OpsFit
<1>5. Held'  BY <1>0, <1>1, <1>2 DEF Held, Holding
<1>6. RearmsFit'  BY <1>0, <1>1, <1>2 DEF RearmsFit, Deleting
<1>7. LocksFit' /\ ListsFit' /\ ScansFit'
  BY <1>0, <1>1, <1>2 DEF LocksFit, ListsFit, ScansFit, Deleting, Linking
<1>8. RunsFit'  BY <1>0, <1>1, <1>2 DEF RunsFit
<1>9. PendingListed'
  <2> SUFFICES ASSUME NEW t \in Timers, NEW k \in Lcores, status[t] = Pending(k),
                      ~(t \in ToSet(list[k]) \/ t \in ToSet(scan[k]))
               PROVE  Rearming(k, t)'
    BY <1>2 DEF PendingListed
  <2>1. Rearming(k, t)  BY <1>0 DEF PendingListed
  <2>2. k # l
    <3>1. MayConfig(k, t)  BY StatusFields DEF MayConfig
    <3> QED  BY <1>1, <2>1, <3>1 DEF Rearming
  <2> QED  BY <1>1, <1>2, <2>1, <2>2 DEF Rearming
<1>10. ListsOrdered' /\ HeadsCached'
  BY <1>0, <1>1, <1>2 DEF ListsOrdered, HeadsCached, Linking
<1> QED  BY <1>3, <1>4, <1>5, <1>6, <1>7, <1>8, <1>9, <1>10 DEF TimerInv

(* rte_timer_manage goes beyond its quick check. *)
LEMMA ManageBeginKeepsInv ==
  ASSUME TimerInv, NEW l \in Lcores, ManageBegin(l)
  PROVE  TimerInv'
<1>0. /\ TimerTypes /\ OpsFit /\ Held /\ RearmsFit /\ LocksFit /\ ListsFit /\ ScansFit
      /\ RunsFit /\ PendingListed /\ ListsOrdered /\ HeadsCached
  BY DEF TimerInv
<1>1. /\ mpc[l] = "idle" /\ op[l] = NONE
      /\ mpc'[l] = "lock" /\ \A k \in Lcores : k # l => mpc'[k] = mpc[k]
  BY <1>0 DEF ManageBegin, TimerTypes
<1>2. /\ UNCHANGED <<now, status, expire, period, list, head_expire, lock, updated>>
      /\ UNCHANGED <<scan, run, running_tim, cb_left, op>>
  BY DEF ManageBegin, statusVars, listVars
<1>3. TimerTypes'
  <2>1. mpc' \in [Lcores -> {"idle", "lock", "scan", "run", "callback", "rearm"}]
    BY <1>0 DEF ManageBegin, TimerTypes
  <2>2. cur_time' \in [Lcores -> Nat]  BY <1>0 DEF ManageBegin, TimerTypes
  <2> QED  BY <1>0, <1>2, <2>1, <2>2 DEF TimerTypes
<1>4. OpsFit'  BY <1>0, <1>1, <1>2 DEF OpsFit
<1>5. Held'  BY <1>0, <1>1, <1>2 DEF Held, Holding
<1>6. RearmsFit'  BY <1>0, <1>1, <1>2 DEF RearmsFit, Deleting
<1>7. LocksFit' /\ ListsFit' /\ ScansFit'
  BY <1>0, <1>1, <1>2 DEF LocksFit, ListsFit, ScansFit, Deleting, Linking
<1>8. RunsFit' /\ PendingListed'  BY <1>0, <1>1, <1>2 DEF RunsFit, PendingListed, Rearming
<1>9. ListsOrdered' /\ HeadsCached'
  BY <1>0, <1>1, <1>2 DEF ListsOrdered, HeadsCached, Linking
<1> QED  BY <1>3, <1>4, <1>5, <1>6, <1>7, <1>8, <1>9 DEF TimerInv

(* timer_set_config_state takes the timer. *)
LEMMA GrantKeepsInv ==
  ASSUME TimerInv, NEW l \in Lcores, SetConfigState(l), ConfigGranted(l)
  PROVE  TimerInv'
<1>0. /\ TimerTypes /\ OpsFit /\ Held /\ RearmsFit /\ LocksFit /\ ListsFit /\ ScansFit
      /\ RunsFit /\ PendingListed /\ ListsOrdered /\ HeadsCached
  BY DEF TimerInv
<1>1. PICK t \in Timers, w \in StatusWord :
        /\ t = op[l].tim /\ w = status[t] /\ op[l].kind \in {"reset", "stop"}
        /\ op[l] # NONE /\ op[l].pc = "config" /\ op[l] \in Ops /\ MayConfig(l, t)
  <2>1. op[l] # NONE /\ op[l].pc = "config" /\ op[l] \in Ops /\ MayConfig(l, op[l].tim)
    BY <1>0 DEF SetConfigState, ConfigGranted, TimerTypes
  <2>2. op[l].tim \in Timers /\ op[l].kind \in {"reset", "stop"}  BY <2>1 DEF Ops
  <2> QED  BY <1>0, <2>1, <2>2 DEF TimerTypes
<1>3. /\ w.state \in {"stop", "pending", "running"}
      /\ w.state = "pending" => w.owner \in Lcores /\ w = Pending(w.owner)
      /\ w.state = "running" => w = Running(l) /\ running_tim[l] = t
      /\ w.owner \in Lcores \union {NONE}
  BY <1>1, WordIs DEF MayConfig
<1>4. /\ status'[t] = Config(l)
      /\ \A u \in Timers : u # t => status'[u] = status[u]
      /\ status' \in [Timers -> StatusWord]
  BY <1>0, <1>1, WordsWritten DEF ConfigGranted, TimerTypes
<1>5. op'[l] = [op[l] EXCEPT !.prev = w.owner,
                            !.pc = IF w.state = "pending" THEN "del" ELSE AfterDel(l)]
      /\ \A k \in Lcores : k # l => op'[k] = op[k]
  BY <1>0, <1>1 DEF ConfigGranted, TimerTypes
<1>6. /\ op'[l] \in Ops /\ op'[l] # NONE /\ op'[l].prev = w.owner
      /\ op'[l].pc = IF w.state = "pending" THEN "del" ELSE AfterDel(l)
      /\ op'[l].tim = t /\ op'[l].kind = op[l].kind /\ op'[l].dest = op[l].dest
      /\ op'[l].locked = op[l].locked
  <2>1. AfterDel(l) \in {"add", "stop"}  BY DEF AfterDel
  <2>2. op'[l] \in Ops  BY <1>1, <1>3, <1>5, <2>1 DEF Ops
  <2> QED  BY <1>1, <1>5, <2>2, TimerAssumption DEF Ops
<1>7. /\ UNCHANGED <<now, expire, period, list, head_expire, lock>>
      /\ UNCHANGED <<mpc, cur_time, scan, run, running_tim, cb_left>>
  BY DEF SetConfigState, ConfigGranted, listVars, manageVars
<1>8. /\ updated' \in [Lcores -> BOOLEAN]
      /\ \A k \in Lcores : ~updated'[k] => ~updated[k]
      /\ w.state = "running" => updated'[l]
  BY <1>0, <1>1 DEF ConfigGranted, TimerTypes
<1>9. TimerTypes'
  <2>1. op' \in [Lcores -> Ops \union {NONE}]  BY <1>0, <1>5, <1>6 DEF ConfigGranted, TimerTypes
  <2> QED  BY <1>0, <1>4, <1>7, <1>8, <2>1 DEF TimerTypes
<1>10. OpsFit'
  <2> SUFFICES ASSUME NEW k \in Lcores, op'[k] # NONE
               PROVE  /\ mpc[k] \in {"idle", "callback", "rearm"}
                      /\ op'[k].locked <=> mpc[k] = "rearm"
                      /\ mpc[k] = "rearm" => op'[k].dest = k /\ op'[k].kind = "reset"
                      /\ op'[k].kind = "reset" => op'[k].dest \in Lcores
                      /\ op'[k].pc = "del" => op'[k].prev \in Lcores
                      /\ op'[k].pc \in {"add", "pending"} => op'[k].kind = "reset"
                      /\ op'[k].pc = "stop" => op'[k].kind = "stop"
                      /\ op'[k].pc = "pending" =>
                           /\ lock[op'[k].dest] = k
                           /\ op'[k].tim \in ToSet(list[op'[k].dest])
    BY <1>7 DEF OpsFit
  <2>1. CASE k # l  BY <1>0, <1>5, <2>1 DEF OpsFit
  <2>2. CASE k = l  BY <1>0, <1>1, <1>3, <1>6, <2>2 DEF OpsFit, AfterDel
  <2> QED  BY <2>1, <2>2
<1>11. /\ \A k \in Lcores : ~Holding(k, t)
       /\ \A k \in Lcores, u \in Timers : status[u] = Config(k) => k # l /\ u # t
  BY <1>0, <1>1, <1>3, StatusFields DEF Held, Holding
<1>12. Held'
  <2> SUFFICES ASSUME NEW k \in Lcores, NEW u \in Timers
               PROVE  Holding(k, u)' <=> status'[u] = Config(k)
    BY DEF Held
  <2>1. CASE k # l
    <3>1. Holding(k, u)' <=> Holding(k, u)  BY <1>5, <2>1 DEF Holding
    <3>2. status'[u] = Config(k) <=> status[u] = Config(k)
      BY <1>1, <1>4, <1>11, <2>1, StatusFields
    <3> QED  BY <1>0, <3>1, <3>2 DEF Held
  <2>2. CASE k = l
    <3>1. Holding(l, u)' <=> u = t  BY <1>6 DEF Holding, AfterDel
    <3> QED  BY <1>4, <1>11, <2>2, <3>1
  <2> QED  BY <2>1, <2>2
<1>13. /\ \A k \in Lcores : w = Pending(k) => Deleting(l, t, k)'
       /\ \A o, k \in Lcores, u \in Timers :
            /\ Deleting(o, u, k) => u # t /\ Deleting(o, u, k)'
            /\ Linking(o, u, k) => u # t /\ Linking(o, u, k)'
  <2>1. \A k \in Lcores : w = Pending(k) => Deleting(l, t, k)'
    BY <1>6, StatusFields DEF Deleting
  <2>2. ASSUME NEW o \in Lcores, NEW k \in Lcores, NEW u \in Timers,
               Deleting(o, u, k) \/ Linking(o, u, k)
        PROVE  Holding(o, u) /\ o # l
    BY <1>1, <2>2 DEF Deleting, Linking, Holding
  <2> QED  BY <1>5, <1>11, <2>1, <2>2 DEF Deleting, Linking
<1>14. RearmsFit'
  <2> SUFFICES ASSUME NEW k \in Lcores, mpc[k] = "rearm", op'[k] # NONE
               PROVE  /\ op'[k].pc = "config" =>
                           \/ status'[op'[k].tim] = Pending(k)
                           \/ \E o \in Lcores : Deleting(o, op[k].tim, k)'
                      /\ op'[k].pc = "del" => op'[k].prev = k
    BY <1>7 DEF RearmsFit
  <2>1. CASE k # l
    <3>1. op[k] # NONE /\ op'[k] = op[k] /\ op[k].tim \in Timers
      BY <1>0, <1>5, <2>1 DEF TimerTypes, Ops
    <3> QED  BY <1>0, <1>1, <1>4, <1>13, <2>1, <3>1 DEF RearmsFit
  <2>2. CASE k = l
    <3>1. w = Pending(l)
      <4>1. w = Pending(l) \/ \E o \in Lcores : Deleting(o, t, l)
        BY <1>0, <1>1, <2>2 DEF RearmsFit
      <4> QED  BY <1>1, <1>13, <4>1
    <3> QED  BY <1>6, <2>2, <3>1, StatusFields
  <2> QED  BY <2>1, <2>2
<1>15. LocksFit'  BY <1>0, <1>7 DEF LocksFit
<1>16. \A k \in Lcores : ToSet(list[k]) \subseteq Timers /\ ToSet(scan[k]) \subseteq Timers
                         /\ ToSet(run[k]) \subseteq Timers
  BY <1>0, ListedTimers
<1>17. ListsFit'
  <2> SUFFICES ASSUME NEW k \in Lcores, NEW u \in ToSet(list[k])
               PROVE  \/ status'[u] = Pending(k)
                      \/ \E o \in Lcores : Deleting(o, u, k)' \/ Linking(o, u, k)'
    BY <1>7 DEF ListsFit
  <2>1. \/ status[u] = Pending(k)
        \/ \E o \in Lcores : Deleting(o, u, k) \/ Linking(o, u, k)
    BY <1>0 DEF ListsFit
  <2> QED  BY <1>1, <1>4, <1>13, <1>16, <2>1
<1>18. ScansFit'
  <2> SUFFICES ASSUME NEW k \in Lcores, NEW u \in ToSet(scan[k])
               PROVE  /\ status'[u] = Pending(k) \/ \E o \in Lcores : Deleting(o, u, k)'
                      /\ u \notin ToSet(list[k])
    BY <1>7 DEF ScansFit
  <2>1. /\ status[u] = Pending(k) \/ \E o \in Lcores : Deleting(o, u, k)
        /\ u \notin ToSet(list[k])
    BY <1>0 DEF ScansFit
  <2> QED  BY <1>1, <1>4, <1>13, <1>16, <2>1
<1>19. RunsFit'
  <2>1. ASSUME NEW k \in Lcores, NEW u \in ToSet(run[k]) PROVE status'[u] = Running(k)
    <3>1. status[u] = Running(k) /\ u \in Timers  BY <1>0, <1>16 DEF RunsFit
    <3>2. u # t
      <4> SUFFICES ASSUME u = t PROVE FALSE  OBVIOUS
      <4>1. w = Running(l) /\ running_tim[l] = t /\ k = l
        BY <1>1, <1>3, <3>1, StatusFields
      <4>2. mpc[l] = "callback" => t \notin ToSet(run[l])  BY <1>0, <4>1 DEF RunsFit
      <4>3. mpc[l] = "idle" => running_tim[l] = NONE  BY <1>0 DEF RunsFit
      <4>4. mpc[l] = "rearm" => w.state # "running"
        <5>1. mpc[l] = "rearm" => w = Pending(l) \/ \E o \in Lcores : Deleting(o, t, l)
          BY <1>0, <1>1 DEF RearmsFit
        <5> QED  BY <1>1, <1>13, <5>1, StatusFields
      <4>5. mpc[l] \in {"idle", "callback", "rearm"}  BY <1>0, <1>1 DEF OpsFit
      <4> QED  BY <1>1, <4>1, <4>2, <4>3, <4>4, <4>5, StatusFields, TimerAssumption
    <3> QED  BY <1>4, <3>1, <3>2
  <2>2. ASSUME NEW k \in Lcores, mpc[k] = "callback", ~updated'[k]
        PROVE  status'[running_tim[k]] = Running(k)
    <3>1. status[running_tim[k]] = Running(k) /\ running_tim[k] \in Timers
      BY <1>0, <1>8, <2>2 DEF RunsFit
    <3>2. running_tim[k] # t
      <4> SUFFICES ASSUME running_tim[k] = t PROVE FALSE  OBVIOUS
      <4>1. w = Running(l) /\ k = l /\ w.state = "running"
        BY <1>1, <1>3, <3>1, StatusFields
      <4> QED  BY <1>8, <2>2, <4>1
    <3> QED  BY <1>4, <3>1, <3>2
  <2> QED  BY <1>0, <1>7, <2>1, <2>2 DEF RunsFit
<1>20. PendingListed'
  <2> SUFFICES ASSUME NEW u \in Timers, NEW k \in Lcores, status'[u] = Pending(k)
               PROVE  u \in ToSet(list[k]) \/ u \in ToSet(scan[k]) \/ Rearming(k, u)'
    BY <1>7 DEF PendingListed
  <2>1. u # t /\ status[u] = Pending(k)  BY <1>4, StatusFields
  <2>2. u \in ToSet(list[k]) \/ u \in ToSet(scan[k]) \/ Rearming(k, u)
    BY <1>0, <2>1 DEF PendingListed
  <2>3. Rearming(k, u) => k # l  BY <1>1, <2>1 DEF Rearming
  <2> QED  BY <1>5, <1>7, <2>2, <2>3 DEF Rearming
<1>21. ListsOrdered'  BY <1>0, <1>7 DEF ListsOrdered
<1>22. HeadsCached'
  BY <1>0, <1>1, <1>3, <1>5, <1>6, <1>7 DEF HeadsCached, Linking, AfterDel
<1> QED
  BY <1>9, <1>10, <1>12, <1>14, <1>15, <1>17, <1>18, <1>19, <1>20, <1>21, <1>22 DEF TimerInv

(* Whoever has the lock of a list, or needs none, is alone with it. *)
LEMMA LockedOut ==
  ASSUME TimerTypes, OpsFit, LocksFit, NEW l \in Lcores, NEW o \in Lcores,
         op[l] # NONE, op[l].pc # "pending", CanLock(l, o)
  PROVE  /\ mpc[o] # "scan" /\ (mpc[o] = "rearm" => o = l)
         /\ \A q \in Lcores, u \in Timers : ~Linking(q, u, o)
<1>1. CASE lock[o] = NONE
  <2>1. \A q \in Lcores : q # NONE  BY TimerAssumption
  <2> QED  BY <1>1, <2>1 DEF OpsFit, LocksFit, Linking
<1>2. CASE lock[o] # NONE
  <2>1. o = l /\ mpc[l] = "rearm" /\ lock[l] = l  BY <1>2 DEF CanLock, OpsFit, LocksFit
  <2> QED  BY <2>1 DEF OpsFit, Linking
<1> QED  BY <1>1, <1>2

(* Only the lcore that configures a timer deletes or links it. *)
LEMMA OneHolder ==
  ASSUME Held, NEW l \in Lcores, NEW t \in Timers, Holding(l, t),
         NEW q \in Lcores, NEW k, Deleting(q, t, k) \/ Linking(q, t, k)
  PROVE  q = l
<1>1. Holding(q, t)  BY DEF Deleting, Linking, Holding
<1>2. status[t] = Config(l) /\ status[t] = Config(q)  BY <1>1 DEF Held
<1>3. Config(l).owner = l /\ Config(q).owner = q  BY StatusFields
<1> QED  BY <1>2, <1>3

(* timer_del *)
LEMMA DelKeepsInv ==
  ASSUME TimerInv, NEW l \in Lcores, Del(l)
  PROVE  TimerInv'
<1>0. /\ TimerTypes /\ OpsFit /\ Held /\ RearmsFit /\ LocksFit /\ ListsFit /\ ScansFit
      /\ RunsFit /\ PendingListed /\ ListsOrdered /\ HeadsCached
  BY DEF TimerInv
<1>1. PICK t \in Timers, o \in Lcores :
        /\ t = op[l].tim /\ o = op[l].prev /\ op[l].kind \in {"reset", "stop"}
        /\ op[l] # NONE /\ op[l].pc = "del" /\ op[l] \in Ops /\ CanLock(l, o)
  <2>1. op[l] # NONE /\ op[l].pc = "del" /\ op[l] \in Ops /\ CanLock(l, op[l].prev)
    BY <1>0 DEF Del, TimerTypes
  <2>2. op[l].tim \in Timers /\ op[l].kind \in {"reset", "stop"}  BY <2>1 DEF Ops
  <2>3. op[l].prev \in Lcores  BY <1>0, <2>1 DEF OpsFit
  <2> QED  BY <2>1, <2>2, <2>3
<1>2. /\ mpc[o] # "scan" /\ (mpc[o] = "rearm" => o = l)
      /\ \A q \in Lcores, u \in Timers : ~Linking(q, u, o)
  BY <1>0, <1>1, LockedOut
<1>3. /\ Holding(l, t) /\ status[t] = Config(l) /\ Deleting(l, t, o)
      /\ \A q, k \in Lcores :
           Deleting(q, t, k) \/ Linking(q, t, k) => q = l /\ k = o
  <2>1. Holding(l, t) /\ Deleting(l, t, o)  BY <1>1 DEF Holding, Deleting
  <2>2. status[t] = Config(l)  BY <1>0, <2>1 DEF Held
  <2>3. ASSUME NEW q \in Lcores, NEW k \in Lcores, Deleting(q, t, k) \/ Linking(q, t, k)
        PROVE  q = l /\ k = o
    <3>1. q = l  BY <1>0, <2>1, <2>3, OneHolder
    <3> QED  BY <1>1, <2>3, <3>1 DEF Deleting, Linking
  <2> QED  BY <2>1, <2>2, <2>3
<1>4. list[o] \in Seq(Timers) /\ OrderedBy(list[o], expire)
  BY <1>0 DEF TimerTypes, ListsOrdered
<1>5. /\ list'[o] = RemoveFirst(list[o], t)
      /\ head_expire'[o] = IF list[o] # << >> /\ Head(list[o]) = t
                           THEN FirstBy(Tail(list[o]), expire) ELSE head_expire[o]
      /\ \A k \in Lcores : k # o => list'[k] = list[k] /\ head_expire'[k] = head_expire[k]
  BY <1>0, <1>1 DEF Del, TimerTypes, First, FirstBy
<1>6. /\ list'[o] \in Seq(Timers) /\ OrderedBy(list'[o], expire)
      /\ ToSet(list'[o]) = ToSet(list[o]) \ {t}
      /\ FirstBy(list'[o], expire) = IF list[o] # << >> /\ Head(list[o]) = t
                                     THEN FirstBy(Tail(list[o]), expire)
                                     ELSE FirstBy(list[o], expire)
  <2>1. Without(RemoveFirst(list[o], t), list[o], t, expire)  BY <1>4, RemoveFirstIs
  <2>2. Without(list'[o], list[o], t, expire)  BY <1>5, <2>1
  <2> QED  BY <2>2 DEF Without
<1>7. head_expire'[o] = FirstBy(list'[o], expire)
  <2>1. head_expire[o] = FirstBy(list[o], expire)  BY <1>0, <1>2 DEF HeadsCached
  <2> QED  BY <1>5, <1>6, <2>1
<1>8. /\ op'[l] \in Ops /\ op'[l] # NONE /\ op'[l].pc = AfterDel(l) /\ op'[l].prev = o
      /\ op'[l].tim = t /\ op'[l].kind = op[l].kind /\ op'[l].dest = op[l].dest
      /\ op'[l].locked = op[l].locked
      /\ \A k \in Lcores : k # l => op'[k] = op[k]
  <2>1. AfterDel(l) \in {"add", "stop"}  BY DEF AfterDel
  <2>2. op'[l] = [op[l] EXCEPT !.pc = AfterDel(l)] /\ \A k \in Lcores : k # l => op'[k] = op[k]
    BY <1>0 DEF Del, TimerTypes
  <2>3. op'[l] \in Ops  BY <1>1, <2>1, <2>2 DEF Ops
  <2> QED  BY <1>1, <2>2, <2>3, TimerAssumption DEF Ops
<1>9. /\ UNCHANGED <<now, status, expire, period, lock, updated>>
      /\ UNCHANGED <<mpc, cur_time, scan, run, running_tim, cb_left>>
  BY DEF Del, statusVars, manageVars
<1>10. \A q, k \in Lcores, u \in Timers :
         /\ Deleting(q, u, k)' <=> q # l /\ Deleting(q, u, k)
         /\ Linking(q, u, k)' <=> Linking(q, u, k)
         /\ Linking(q, u, k) => q # l
         /\ Holding(q, u)' <=> Holding(q, u)
  <2>1. AfterDel(l) \in {"add", "stop"}  BY DEF AfterDel
  <2> QED  BY <1>1, <1>8, <2>1 DEF Deleting, Linking, Holding
<1>11. \A k \in Lcores : ToSet(list[k]) \subseteq Timers /\ ToSet(scan[k]) \subseteq Timers
  BY <1>0, ListedTimers
<1>12. TimerTypes'
  <2>1. op' \in [Lcores -> Ops \union {NONE}]  BY <1>0, <1>8 DEF Del, TimerTypes
  <2>2. list' \in [Lcores -> Seq(Timers)]  BY <1>0, <1>1, <1>6 DEF Del, TimerTypes
  <2>3. head_expire' \in [Lcores -> Nat]
    <3>1. expire \in [Timers -> Nat]  BY <1>0 DEF TimerTypes
    <3>2. head_expire'[o] \in Nat  BY <1>6, <1>7, <3>1, FirstIs
    <3> QED  BY <1>0, <1>1, <3>2 DEF Del, TimerTypes
  <2> QED  BY <1>0, <1>9, <2>1, <2>2, <2>3 DEF TimerTypes
<1>13. OpsFit'
  <2> SUFFICES ASSUME NEW k \in Lcores, op'[k] # NONE
               PROVE  /\ mpc[k] \in {"idle", "callback", "rearm"}
                      /\ op'[k].locked <=> mpc[k] = "rearm"
                      /\ mpc[k] = "rearm" => op'[k].dest = k /\ op'[k].kind = "reset"
                      /\ op'[k].kind = "reset" => op'[k].dest \in Lcores
                      /\ op'[k].pc = "del" => op'[k].prev \in Lcores
                      /\ op'[k].pc \in {"add", "pending"} => op'[k].kind = "reset"
                      /\ op'[k].pc = "stop" => op'[k].kind = "stop"
                      /\ op'[k].pc = "pending" =>
                           /\ lock[op'[k].dest] = k
                           /\ op'[k].tim \in ToSet(list'[op'[k].dest])
    BY <1>9 DEF OpsFit
  <2>1. CASE k # l
    <3>1. op[k].pc = "pending" => op[k].dest # o /\ op[k].dest \in Lcores
      <4>1. op[k] # NONE /\ op[k].tim \in Timers  BY <1>0, <1>8, <2>1 DEF TimerTypes, Ops
      <4> QED  BY <1>0, <1>2, <4>1 DEF Linking, OpsFit
    <3> QED  BY <1>0, <1>5, <1>8, <2>1, <3>1 DEF OpsFit
  <2>2. CASE k = l  BY <1>0, <1>1, <1>8, <2>2 DEF OpsFit, AfterDel
  <2> QED  BY <2>1, <2>2
<1>14. Held'  BY <1>0, <1>9, <1>10 DEF Held
<1>15. RearmsFit'
  <2> SUFFICES ASSUME NEW k \in Lcores, mpc[k] = "rearm", op'[k] # NONE
               PROVE  /\ op'[k].pc = "config" =>
                           \/ status[op'[k].tim] = Pending(k)
                           \/ \E q \in Lcores : Deleting(q, op[k].tim, k)'
                      /\ op'[k].pc = "del" => op'[k].prev = k
    BY <1>9 DEF RearmsFit
  <2>1. CASE k # l
    <3>1. op[k] # NONE /\ op'[k] = op[k] /\ op[k].tim \in Timers
      BY <1>0, <1>8, <2>1 DEF TimerTypes, Ops
    <3>2. k # o  BY <1>2, <2>1
    <3>3. \A q \in Lcores : Deleting(q, op[k].tim, k) => q # l
      BY <1>1, <3>1, <3>2 DEF Deleting
    <3> QED  BY <1>0, <1>10, <2>1, <3>1, <3>3 DEF RearmsFit
  <2>2. CASE k = l  BY <1>8, <2>2 DEF AfterDel
  <2> QED  BY <2>1, <2>2
<1>16. LocksFit'  BY <1>0, <1>9 DEF LocksFit
<1>17. \A k \in Lcores : ToSet(list'[k]) = ToSet(list[k]) \ {t}
  <2> SUFFICES ASSUME NEW k \in Lcores, k # o PROVE t \notin ToSet(list[k])
    BY <1>5, <1>6
  <2>1. status[t] # Pending(k)  BY <1>3, StatusFields
  <2> QED  BY <1>0, <1>3, <2>1 DEF ListsFit
<1>18. ListsFit'
  <2> SUFFICES ASSUME NEW k \in Lcores, NEW u \in ToSet(list[k]), u # t
               PROVE  \/ status[u] = Pending(k)
                      \/ \E q \in Lcores : Deleting(q, u, k)' \/ Linking(q, u, k)'
    BY <1>9, <1>17 DEF ListsFit
  <2>1. \A q \in Lcores : Deleting(q, u, k) => q # l  BY <1>1 DEF Deleting
  <2>2. \/ status[u] = Pending(k)
        \/ \E q \in Lcores : Deleting(q, u, k) \/ Linking(q, u, k)
    BY <1>0 DEF ListsFit
  <2> QED  BY <1>10, <1>11, <2>1, <2>2
<1>19. ScansFit'
  <2> SUFFICES ASSUME NEW k \in Lcores, NEW u \in ToSet(scan[k])
               PROVE  /\ status[u] = Pending(k) \/ \E q \in Lcores : Deleting(q, u, k)'
                      /\ u \notin ToSet(list'[k])
    BY <1>9 DEF ScansFit
  <2>1. /\ status[u] = Pending(k) \/ \E q \in Lcores : Deleting(q, u, k)
        /\ u \notin ToSet(list[k])
    BY <1>0 DEF ScansFit
  <2>2. scan[o] = << >>  BY <1>0, <1>2 DEF LocksFit
  <2>3. k # o  BY <2>2, EmptyList
  <2>4. \A q \in Lcores : Deleting(q, u, k) => q # l  BY <1>1, <2>3 DEF Deleting
  <2> QED  BY <1>10, <1>11, <1>17, <2>1, <2>4
<1>20. RunsFit'  BY <1>0, <1>9 DEF RunsFit
<1>21. PendingListed'
  <2> SUFFICES ASSUME NEW u \in Timers, NEW k \in Lcores, status[u] = Pending(k)
               PROVE  u \in ToSet(list'[k]) \/ u \in ToSet(scan[k]) \/ Rearming(k, u)'
    BY <1>9 DEF PendingListed
  <2>1. u # t  BY <1>3, StatusFields
  <2>2. u \in ToSet(list[k]) \/ u \in ToSet(scan[k]) \/ Rearming(k, u)
    BY <1>0 DEF PendingListed
  <2>3. Rearming(k, u) => Rearming(k, u)'  BY <1>1, <1>8, <1>9, <2>1 DEF Rearming
  <2> QED  BY <1>17, <2>1, <2>2, <2>3
<1>22. ListsOrdered'  BY <1>0, <1>5, <1>6, <1>9 DEF ListsOrdered
<1>23. HeadsCached'  BY <1>0, <1>5, <1>7, <1>9, <1>10 DEF HeadsCached
<1> QED
  BY <1>12, <1>13, <1>14, <1>15, <1>16, <1>18, <1>19, <1>20, <1>21, <1>22, <1>23 DEF TimerInv

(* __rte_timer_reset links the timer into the destination's list. *)
LEMMA AddKeepsInv ==
  ASSUME TimerInv, NEW l \in Lcores, Add(l)
  PROVE  TimerInv'
<1>0. /\ TimerTypes /\ OpsFit /\ Held /\ RearmsFit /\ LocksFit /\ ListsFit /\ ScansFit
      /\ RunsFit /\ PendingListed /\ ListsOrdered /\ HeadsCached
  BY DEF TimerInv
<1>1. PICK t \in Timers, d \in Lcores, e \in Nat :
        /\ t = op[l].tim /\ d = op[l].dest /\ e = op[l].expire /\ op[l].kind = "reset"
        /\ op[l] # NONE /\ op[l].pc = "add" /\ op[l] \in Ops /\ CanLock(l, d)
        /\ op[l].period \in Nat
  <2>1. op[l] # NONE /\ op[l].pc = "add" /\ op[l] \in Ops /\ CanLock(l, op[l].dest)
    BY <1>0 DEF Add, TimerTypes
  <2>2. op[l].tim \in Timers /\ op[l].expire \in Nat /\ op[l].period \in Nat
    BY <2>1 DEF Ops
  <2>3. op[l].kind = "reset" /\ op[l].dest \in Lcores  BY <1>0, <2>1 DEF OpsFit
  <2> QED  BY <2>1, <2>2, <2>3
<1>2. /\ mpc[d] # "scan" /\ (mpc[d] = "rearm" => d = l)
      /\ \A q \in Lcores, u \in Timers : ~Linking(q, u, d)
  BY <1>0, <1>1, LockedOut
<1>3. /\ status[t] = Config(l)
      /\ \A q, k \in Lcores : ~Deleting(q, t, k) /\ ~Linking(q, t, k)
  <2>1. Holding(l, t)  BY <1>1 DEF Holding
  <2>2. status[t] = Config(l)  BY <1>0, <2>1 DEF Held
  <2>3. ASSUME NEW q \in Lcores, NEW k \in Lcores, Deleting(q, t, k) \/ Linking(q, t, k)
        PROVE  FALSE
    <3>1. q = l  BY <1>0, <2>1, <2>3, OneHolder
    <3> QED  BY <1>1, <2>3, <3>1 DEF Deleting, Linking
  <2> QED  BY <2>2, <2>3
<1>4. \A k \in Lcores : t \notin ToSet(list[k]) /\ t \notin ToSet(scan[k])
  <2>1. \A k \in Lcores : status[t] # Pending(k)  BY <1>3, StatusFields
  <2> QED  BY <1>0, <1>3, <2>1 DEF ListsFit, ScansFit
<1>5. \A k \in Lcores : /\ list[k] \in Seq(Timers) /\ OrderedBy(list[k], expire)
                        /\ ToSet(list[k]) \subseteq Timers
                        /\ ToSet(scan[k]) \subseteq Timers
  BY <1>0, ListedTimers DEF ListsOrdered
<1>6. expire \in [Timers -> Nat] /\ expire' = [expire EXCEPT ![t] = e]
  BY <1>0, <1>1 DEF Add, TimerTypes
<1>7. /\ list'[d] = Insert(list[d], t, e) /\ lock'[d] = l
      /\ \A k \in Lcores : k # d => list'[k] = list[k] /\ lock'[k] = lock[k]
  BY <1>0, <1>1 DEF Add, TimerTypes
<1>8. /\ list'[d] \in Seq(Timers) /\ ToSet(list'[d]) = ToSet(list[d]) \union {t}
      /\ OrderedBy(list'[d], expire')
  <2>1. Inserted(Insert(list[d], t, e), list[d], t, [expire EXCEPT ![t] = e])
    BY <1>4, <1>5, <1>6, InsertKeepsOrder
  <2>2. Inserted(list'[d], list[d], t, expire')  BY <1>6, <1>7, <2>1
  <2> QED  BY <2>2 DEF Inserted
<1>9. ASSUME NEW k \in Lcores
      PROVE  /\ OrderedBy(list[k], expire')
             /\ FirstBy(list[k], expire') = FirstBy(list[k], expire)
  <2>1. \A u \in ToSet(list[k]) : expire[u] = expire'[u]  BY <1>4, <1>5, <1>6
  <2> QED  BY <1>5, <2>1, SameOrder
<1>10. /\ op'[l] \in Ops /\ op'[l] # NONE /\ op'[l].pc = "pending" /\ op'[l].prev = op[l].prev
       /\ op'[l].tim = t /\ op'[l].kind = op[l].kind /\ op'[l].dest = d
       /\ op'[l].locked = op[l].locked
       /\ \A k \in Lcores : k # l => op'[k] = op[k]
  <2>1. op'[l] = [op[l] EXCEPT !.pc = "pending"] /\ \A k \in Lcores : k # l => op'[k] = op[k]
    BY <1>0 DEF Add, TimerTypes
  <2>2. op'[l] \in Ops  BY <1>1, <2>1 DEF Ops
  <2> QED  BY <1>1, <2>1, <2>2, TimerAssumption DEF Ops
<1>11. /\ UNCHANGED <<now, status, head_expire, updated>>
       /\ UNCHANGED <<mpc, cur_time, scan, run, running_tim, cb_left>>
  BY DEF Add, manageVars
<1>12. \A q, k \in Lcores, u \in Timers :
         /\ Deleting(q, u, k)' <=> Deleting(q, u, k)
         /\ Linking(q, u, k) => Linking(q, u, k)'
         /\ Holding(q, u)' <=> Holding(q, u)
  BY <1>1, <1>10 DEF Deleting, Linking, Holding
<1>13. Linking(l, t, d)'  BY <1>10 DEF Linking
<1>14. TimerTypes'
  <2>1. op' \in [Lcores -> Ops \union {NONE}]  BY <1>0, <1>10 DEF Add, TimerTypes
  <2>2. list' \in [Lcores -> Seq(Timers)]  BY <1>0, <1>1, <1>8 DEF Add, TimerTypes
  <2>3. expire' \in [Timers -> Nat]  BY <1>6
  <2>4. period' \in [Timers -> Nat] /\ lock' \in [Lcores -> Lcores \union {NONE}]
    BY <1>0, <1>1 DEF Add, TimerTypes
  <2> QED  BY <1>0, <1>11, <2>1, <2>2, <2>3, <2>4 DEF TimerTypes
<1>15. OpsFit'
  <2> SUFFICES ASSUME NEW k \in Lcores, op'[k] # NONE
               PROVE  /\ mpc[k] \in {"idle", "callback", "rearm"}
                      /\ op'[k].locked <=> mpc[k] = "rearm"
                      /\ mpc[k] = "rearm" => op'[k].dest = k /\ op'[k].kind = "reset"
                      /\ op'[k].kind = "reset" => op'[k].dest \in Lcores
                      /\ op'[k].pc = "del" => op'[k].prev \in Lcores
                      /\ op'[k].pc \in {"add", "pending"} => op'[k].kind = "reset"
                      /\ op'[k].pc = "stop" => op'[k].kind = "stop"
                      /\ op'[k].pc = "pending" =>
                           /\ lock'[op'[k].dest] = k
                           /\ op'[k].tim \in ToSet(list'[op'[k].dest])
    BY <1>11 DEF OpsFit
  <2>1. CASE k # l
    <3>1. op[k].pc = "pending" => op[k].dest # d /\ op[k].dest \in Lcores
      <4>1. op[k] # NONE /\ op[k].tim \in Timers  BY <1>0, <1>10, <2>1 DEF TimerTypes, Ops
      <4> QED  BY <1>0, <1>2, <4>1 DEF Linking, OpsFit
    <3> QED  BY <1>0, <1>7, <1>10, <2>1, <3>1 DEF OpsFit
  <2>2. CASE k = l  BY <1>0, <1>1, <1>7, <1>8, <1>10, <2>2 DEF OpsFit
  <2> QED  BY <2>1, <2>2
<1>16. Held'  BY <1>0, <1>11, <1>12 DEF Held
<1>17. RearmsFit'
  <2> SUFFICES ASSUME NEW k \in Lcores, mpc[k] = "rearm", op'[k] # NONE
               PROVE  /\ op'[k].pc = "config" =>
                           \/ status[op'[k].tim] = Pending(k)
                           \/ \E q \in Lcores : Deleting(q, op[k].tim, k)'
                      /\ op'[k].pc = "del" => op'[k].prev = k
    BY <1>11 DEF RearmsFit
  <2>1. CASE k # l
    <3>1. op[k] # NONE /\ op'[k] = op[k] /\ op[k].tim \in Timers
      BY <1>0, <1>10, <2>1 DEF TimerTypes, Ops
    <3> QED  BY <1>0, <1>12, <2>1, <3>1 DEF RearmsFit
  <2>2. CASE k = l  BY <1>10, <2>2
  <2> QED  BY <2>1, <2>2
<1>18. LocksFit'
  <2>1. mpc[d] = "rearm" => lock'[d] = d  BY <1>2, <1>7
  <2> QED  BY <1>0, <1>2, <1>7, <1>11, <2>1 DEF LocksFit
<1>19. ListsFit'
  <2> SUFFICES ASSUME NEW k \in Lcores, NEW u \in ToSet(list'[k])
               PROVE  \/ status[u] = Pending(k)
                      \/ \E q \in Lcores : Deleting(q, u, k)' \/ Linking(q, u, k)'
    BY <1>11 DEF ListsFit
  <2>1. CASE u = t
    <3>1. k = d  BY <1>4, <1>7, <2>1
    <3> QED  BY <1>13, <2>1, <3>1
  <2>2. CASE u # t
    <3>1. u \in ToSet(list[k])  BY <1>7, <1>8, <2>2
    <3>2. \/ status[u] = Pending(k)
          \/ \E q \in Lcores : Deleting(q, u, k) \/ Linking(q, u, k)
      BY <1>0, <3>1 DEF ListsFit
    <3> QED  BY <1>5, <1>12, <3>1, <3>2
  <2> QED  BY <2>1, <2>2
<1>20. ScansFit'
  <2> SUFFICES ASSUME NEW k \in Lcores, NEW u \in ToSet(scan[k])
               PROVE  /\ status[u] = Pending(k) \/ \E q \in Lcores : Deleting(q, u, k)'
                      /\ u \notin ToSet(list'[k])
    BY <1>11 DEF ScansFit
  <2>1. /\ status[u] = Pending(k) \/ \E q \in Lcores : Deleting(q, u, k)
        /\ u \notin ToSet(list[k])
    BY <1>0 DEF ScansFit
  <2>2. u # t  BY <1>4
  <2> QED  BY <1>5, <1>7, <1>8, <1>12, <2>1, <2>2
<1>21. RunsFit'  BY <1>0, <1>11 DEF RunsFit
<1>22. PendingListed'
  <2> SUFFICES ASSUME NEW u \in Timers, NEW k \in Lcores, status[u] = Pending(k)
               PROVE  u \in ToSet(list'[k]) \/ u \in ToSet(scan[k]) \/ Rearming(k, u)'
    BY <1>11 DEF PendingListed
  <2>1. u \in ToSet(list[k]) \/ u \in ToSet(scan[k]) \/ Rearming(k, u)
    BY <1>0 DEF PendingListed
  <2>2. Rearming(k, u) => Rearming(k, u)'  BY <1>1, <1>10, <1>11 DEF Rearming
  <2> QED  BY <1>7, <1>8, <2>1, <2>2
<1>23. ListsOrdered'  BY <1>0, <1>7, <1>8, <1>9, <1>11 DEF ListsOrdered
<1>24. HeadsCached'
  <2> SUFFICES ASSUME NEW k \in Lcores, mpc[k] # "scan",
                      \A q \in Lcores, u \in Timers : ~Linking(q, u, k)'
               PROVE  head_expire[k] = FirstBy(list'[k], expire')
    BY <1>11 DEF HeadsCached
  <2>1. k # d  BY <1>13
  <2>2. \A q \in Lcores, u \in Timers : ~Linking(q, u, k)  BY <1>12
  <2> QED  BY <1>0, <1>7, <1>9, <2>1, <2>2 DEF HeadsCached
<1> QED
  BY <1>14, <1>15, <1>16, <1>17, <1>18, <1>19, <1>20, <1>21, <1>22, <1>23, <1>24 DEF TimerInv

(* __rte_timer_reset marks the timer pending and unlocks. *)
LEMMA SetPendingKeepsInv ==
  ASSUME TimerInv, NEW l \in Lcores, SetPending(l)
  PROVE  TimerInv'
<1>0. /\ TimerTypes /\ OpsFit /\ Held /\ RearmsFit /\ LocksFit /\ ListsFit /\ ScansFit
      /\ RunsFit /\ PendingListed /\ ListsOrdered /\ HeadsCached
  BY DEF TimerInv
<1>1. PICK t \in Timers, d \in Lcores :
        /\ t = op[l].tim /\ d = op[l].dest /\ op[l] # NONE /\ op[l].pc = "pending"
        /\ lock[d] = l /\ t \in ToSet(list[d])
  <2>1. op[l] # NONE /\ op[l].pc = "pending" /\ op[l].tim \in Timers
    BY <1>0 DEF SetPending, TimerTypes, Ops
  <2> QED  BY <1>0, <2>1 DEF OpsFit
<1>2. /\ status[t] = Config(l) /\ Linking(l, t, d)
      /\ \A q, k \in Lcores :
           Deleting(q, t, k) \/ Linking(q, t, k) => q = l /\ k = d /\ Linking(q, t, k)
  <2>1. Holding(l, t) /\ Linking(l, t, d)  BY <1>1 DEF Holding, Linking
  <2>2. status[t] = Config(l)  BY <1>0, <2>1 DEF Held
  <2>3. ASSUME NEW q \in Lcores, NEW k \in Lcores, Deleting(q, t, k) \/ Linking(q, t, k)
        PROVE  q = l /\ k = d /\ Linking(q, t, k)
    <3>1. q = l  BY <1>0, <2>1, <2>3, OneHolder
    <3> QED  BY <1>1, <2>3, <3>1 DEF Deleting, Linking
  <2> QED  BY <2>1, <2>2, <2>3
<1>3. /\ status'[t] = Pending(d) /\ status' \in [Timers -> StatusWord]
      /\ \A u \in Timers : u # t => status'[u] = status[u]
  BY <1>0, <1>1, WordsWritten DEF SetPending, TimerTypes
<1>4. /\ head_expire'[d] = FirstBy(list[d], expire)
      /\ lock'[d] = IF op[l].locked THEN lock[d] ELSE NONE
      /\ \A k \in Lcores : k # d => lock'[k] = lock[k] /\ head_expire'[k] = head_expire[k]
  BY <1>0, <1>1 DEF SetPending, TimerTypes, First, FirstBy
<1>5. op'[l] = NONE /\ \A k \in Lcores : k # l => op'[k] = op[k]
  BY <1>0 DEF SetPending, TimerTypes
<1>6. /\ UNCHANGED <<now, expire, period, list, updated>>
      /\ UNCHANGED <<mpc, cur_time, scan, run, running_tim, cb_left>>
  BY DEF SetPending, manageVars
<1>7. \A q, k \in Lcores, u \in Timers :
        /\ Deleting(q, u, k)' <=> Deleting(q, u, k)
        /\ Linking(q, u, k)' <=> q # l /\ Linking(q, u, k)
        /\ Linking(l, u, k) => u = t /\ k = d
        /\ Holding(q, u)' <=> q # l /\ Holding(q, u)
        /\ Holding(l, u) => u = t
  BY <1>1, <1>5 DEF Deleting, Linking, Holding
<1>8. \A k \in Lcores : ToSet(list[k]) \subseteq Timers /\ ToSet(scan[k]) \subseteq Timers
                        /\ ToSet(run[k]) \subseteq Timers
  BY <1>0, ListedTimers
<1>9. /\ mpc[l] # "scan" /\ mpc[d] # "scan" /\ (mpc[d] = "rearm" => d = l)
      /\ op[l].locked <=> mpc[l] = "rearm"
  BY <1>0, <1>1 DEF OpsFit, LocksFit
<1>10. TimerTypes'
  <2>1. op' \in [Lcores -> Ops \union {NONE}]  BY <1>0 DEF SetPending, TimerTypes
  <2>2. head_expire' \in [Lcores -> Nat]
    <3>1. list[d] \in Seq(Timers) /\ expire \in [Timers -> Nat]  BY <1>0 DEF TimerTypes
    <3>2. head_expire'[d] \in Nat  BY <1>4, <3>1, FirstIs
    <3> QED  BY <1>0, <1>1, <3>2 DEF SetPending, TimerTypes
  <2>3. lock' \in [Lcores -> Lcores \union {NONE}]
    <3>1. lock'[d] \in Lcores \union {NONE}  BY <1>0, <1>4 DEF TimerTypes
    <3> QED  BY <1>0, <1>1, <3>1 DEF SetPending, TimerTypes
  <2> QED  BY <1>0, <1>3, <1>6, <2>1, <2>2, <2>3 DEF TimerTypes
<1>11. OpsFit'
  <2> SUFFICES ASSUME NEW k \in Lcores, op[k] # NONE, k # l
               PROVE  /\ mpc[k] \in {"idle", "callback", "rearm"}
                      /\ op[k].locked <=> mpc[k] = "rearm"
                      /\ mpc[k] = "rearm" => op[k].dest = k /\ op[k].kind = "reset"
                      /\ op[k].kind = "reset" => op[k].dest \in Lcores
                      /\ op[k].pc = "del" => op[k].prev \in Lcores
                      /\ op[k].pc \in {"add", "pending"} => op[k].kind = "reset"
                      /\ op[k].pc = "stop" => op[k].kind = "stop"
                      /\ op[k].pc = "pending" =>
                           lock'[op[k].dest] = k /\ op[k].tim \in ToSet(list[op[k].dest])
    BY <1>5, <1>6 DEF OpsFit
  <2>1. op[k].pc = "pending" => op[k].dest \in Lcores /\ op[k].dest # d
    BY <1>0, <1>1 DEF OpsFit
  <2> QED  BY <1>0, <1>4, <2>1 DEF OpsFit
<1>12. Held'
  <2> SUFFICES ASSUME NEW k \in Lcores, NEW u \in Timers
               PROVE  Holding(k, u)' <=> status'[u] = Config(k)
    BY DEF Held
  <2>1. Holding(k, u) <=> status[u] = Config(k)  BY <1>0 DEF Held
  <2>2. CASE u = t
    <3>1. status'[u] # Config(k)  BY <1>3, <2>2, StatusFields
    <3>2. Holding(k, u) => k = l  BY <1>2, <2>1, <2>2, StatusFields
    <3> QED  BY <1>7, <3>1, <3>2
  <2>3. CASE u # t  BY <1>3, <1>7, <2>1, <2>3
  <2> QED  BY <2>2, <2>3
<1>13. RearmsFit'
  <2> SUFFICES ASSUME NEW k \in Lcores, mpc[k] = "rearm", op[k] # NONE, k # l
               PROVE  /\ op[k].pc = "config" =>
                           \/ status'[op[k].tim] = Pending(k)
                           \/ \E q \in Lcores : Deleting(q, op[k].tim, k)'
                      /\ op[k].pc = "del" => op[k].prev = k
    BY <1>5, <1>6 DEF RearmsFit
  <2>1. op'[k] = op[k] /\ op[k].tim \in Timers  BY <1>0, <1>5 DEF TimerTypes, Ops
  <2>2. op[k].pc = "config" => op[k].tim # t
    <3> SUFFICES ASSUME op[k].pc = "config", op[k].tim = t PROVE FALSE  OBVIOUS
    <3>1. status[t] = Pending(k) \/ \E q \in Lcores : Deleting(q, t, k)
      BY <1>0 DEF RearmsFit
    <3>2. status[t] # Pending(k)  BY <1>2, StatusFields
    <3>3. PICK q \in Lcores : Deleting(q, t, k)  BY <3>1, <3>2
    <3> QED  BY <1>2, <3>3 DEF Deleting, Linking
  <2> QED  BY <1>0, <1>3, <1>7, <2>1, <2>2 DEF RearmsFit
<1>14. LocksFit'  BY <1>0, <1>4, <1>6, <1>9 DEF LocksFit
<1>15. ListsFit'
  <2> SUFFICES ASSUME NEW k \in Lcores, NEW u \in ToSet(list[k])
               PROVE  \/ status'[u] = Pending(k)
                      \/ \E q \in Lcores : Deleting(q, u, k)' \/ Linking(q, u, k)'
    BY <1>6 DEF ListsFit
  <2>1. \/ status[u] = Pending(k)
        \/ \E q \in Lcores : Deleting(q, u, k) \/ Linking(q, u, k)
    BY <1>0 DEF ListsFit
  <2>2. CASE u = t
    <3>1. k = d  BY <1>2, <2>1, <2>2, StatusFields
    <3> QED  BY <1>3, <2>2, <3>1
  <2>3. CASE u # t  BY <1>3, <1>7, <1>8, <2>1, <2>3
  <2> QED  BY <2>2, <2>3
<1>16. ScansFit'
  <2> SUFFICES ASSUME NEW k \in Lcores, NEW u \in ToSet(scan[k])
               PROVE  /\ status'[u] = Pending(k) \/ \E q \in Lcores : Deleting(q, u, k)'
                      /\ u \notin ToSet(list[k])
    BY <1>6 DEF ScansFit
  <2>1. /\ status[u] = Pending(k) \/ \E q \in Lcores : Deleting(q, u, k)
        /\ u \notin ToSet(list[k])
    BY <1>0 DEF ScansFit
  <2>2. u # t
    <3> SUFFICES ASSUME u = t PROVE FALSE  OBVIOUS
    <3>1. status[t] # Pending(k)  BY <1>2, StatusFields
    <3>2. PICK q \in Lcores : Deleting(q, t, k)  BY <2>1, <3>1
    <3> QED  BY <1>2, <3>2 DEF Deleting, Linking
  <2> QED  BY <1>3, <1>7, <1>8, <2>1, <2>2
<1>17. RunsFit'
  <2>1. ASSUME NEW k \in Lcores, NEW u \in Timers, status[u] = Running(k)
        PROVE  status'[u] = Running(k)
    <3>1. u # t  BY <1>2, <2>1, StatusFields
    <3> QED  BY <1>3, <2>1, <3>1
  <2> QED  BY <1>0, <1>6, <1>8, <2>1 DEF RunsFit
<1>18. PendingListed'
  <2> SUFFICES ASSUME NEW u \in Timers, NEW k \in Lcores, status'[u] = Pending(k)
               PROVE  u \in ToSet(list[k]) \/ u \in ToSet(scan[k]) \/ Rearming(k, u)'
    BY <1>6 DEF PendingListed
  <2>1. CASE u = t
    <3>1. Pending(k) = Pending(d)  BY <1>3, <2>1
    <3>2. Pending(k).owner = k /\ Pending(d).owner = d  BY StatusFields
    <3> QED  BY <1>1, <2>1, <3>1, <3>2
  <2>2. CASE u # t
    <3>1. u \in ToSet(list[k]) \/ u \in ToSet(scan[k]) \/ Rearming(k, u)
      BY <1>0, <1>3, <2>2 DEF PendingListed
    <3>2. Rearming(k, u) => Rearming(k, u)'  BY <1>1, <1>5, <1>6 DEF Rearming
    <3> QED  BY <3>1, <3>2
  <2> QED  BY <2>1, <2>2
<1>19. ListsOrdered'  BY <1>0, <1>6 DEF ListsOrdered
<1>20. HeadsCached'
  <2> SUFFICES ASSUME NEW k \in Lcores, mpc[k] # "scan",
                      \A q \in Lcores, u \in Timers : ~Linking(q, u, k)'
               PROVE  head_expire'[k] = FirstBy(list[k], expire)
    BY <1>6 DEF HeadsCached
  <2>1. CASE k = d  BY <1>4, <2>1
  <2>2. CASE k # d
    <3>1. \A q \in Lcores, u \in Timers : ~Linking(q, u, k)  BY <1>7, <2>2
    <3> QED  BY <1>0, <1>4, <2>2, <3>1 DEF HeadsCached
  <2> QED  BY <2>1, <2>2
<1> QED
  BY <1>10, <1>11, <1>12, <1>13, <1>14, <1>15, <1>16, <1>17, <1>18, <1>19, <1>20 DEF TimerInv

(* rte_timer_stop marks the timer stopped. *)
LEMMA SetStoppedKeepsInv ==
  ASSUME TimerInv, NEW l \in Lcores, SetStopped(l)
  PROVE  TimerInv'
<1>0. /\ TimerTypes /\ OpsFit /\ Held /\ RearmsFit /\ LocksFit /\ ListsFit /\ ScansFit
      /\ RunsFit /\ PendingListed /\ ListsOrdered /\ HeadsCached
  BY DEF TimerInv
<1>1. PICK t \in Timers : t = op[l].tim /\ op[l] # NONE /\ op[l].pc = "stop"
  BY <1>0 DEF SetStopped, TimerTypes, Ops
<1>2. /\ status[t] = Config(l)
      /\ \A q, k \in Lcores : ~Deleting(q, t, k) /\ ~Linking(q, t, k)
  <2>1. Holding(l, t)  BY <1>1 DEF Holding
  <2>2. status[t] = Config(l)  BY <1>0, <2>1 DEF Held
  <2>3. ASSUME NEW q \in Lcores, NEW k \in Lcores, Deleting(q, t, k) \/ Linking(q, t, k)
        PROVE  FALSE
    <3>1. q = l  BY <1>0, <2>1, <2>3, OneHolder
    <3> QED  BY <1>1, <2>3, <3>1 DEF Deleting, Linking
  <2> QED  BY <2>2, <2>3
<1>3. /\ status'[t] = Stopped /\ status' \in [Timers -> StatusWord]
      /\ \A u \in Timers : u # t => status'[u] = status[u]
  BY <1>0, <1>1, WordsWritten DEF SetStopped, TimerTypes
<1>4. op'[l] = NONE /\ \A k \in Lcores : k # l => op'[k] = op[k]
  BY <1>0 DEF SetStopped, TimerTypes
<1>5. /\ UNCHANGED <<now, expire, period, list, head_expire, lock, updated>>
      /\ UNCHANGED <<mpc, cur_time, scan, run, running_tim, cb_left>>
  BY DEF SetStopped, listVars, manageVars
<1>6. \A q, k \in Lcores, u \in Timers :
        /\ Deleting(q, u, k)' <=> Deleting(q, u, k)
        /\ Linking(q, u, k)' <=> Linking(q, u, k)
        /\ Holding(q, u)' <=> q # l /\ Holding(q, u)
        /\ Holding(l, u) => u = t
  BY <1>1, <1>4 DEF Deleting, Linking, Holding
<1>7. \A k \in Lcores : ToSet(list[k]) \subseteq Timers /\ ToSet(scan[k]) \subseteq Timers
                        /\ ToSet(run[k]) \subseteq Timers
  BY <1>0, ListedTimers
<1>8. \A k \in Lcores, u \in Timers :
        /\ status[u] = Pending(k) <=> status'[u] = Pending(k)
        /\ status[u] = Running(k) <=> status'[u] = Running(k)
  BY <1>2, <1>3, StatusFields
<1>9. TimerTypes'
  <2>1. op' \in [Lcores -> Ops \union {NONE}]  BY <1>0 DEF SetStopped, TimerTypes
  <2> QED  BY <1>0, <1>3, <1>5, <2>1 DEF TimerTypes
<1>10. OpsFit'  BY <1>0, <1>4, <1>5 DEF OpsFit
<1>11. Held'
  <2> SUFFICES ASSUME NEW k \in Lcores, NEW u \in Timers
               PROVE  Holding(k, u)' <=> status'[u] = Config(k)
    BY DEF Held
  <2>1. Holding(k, u) <=> status[u] = Config(k)  BY <1>0 DEF Held
  <2>2. CASE u = t
    <3>1. status'[u] # Config(k)  BY <1>3, <2>2, StatusFields
    <3>2. Holding(k, u) => k = l  BY <1>2, <2>1, <2>2, StatusFields
    <3> QED  BY <1>6, <3>1, <3>2
  <2>3. CASE u # t  BY <1>3, <1>6, <2>1, <2>3
  <2> QED  BY <2>2, <2>3
<1>12. RearmsFit'
  <2> SUFFICES ASSUME NEW k \in Lcores, mpc[k] = "rearm", op[k] # NONE, k # l
               PROVE  /\ op[k].pc = "config" =>
                           \/ status'[op[k].tim] = Pending(k)
                           \/ \E q \in Lcores : Deleting(q, op[k].tim, k)'
                      /\ op[k].pc = "del" => op[k].prev = k
    BY <1>4, <1>5 DEF RearmsFit
  <2>1. op'[k] = op[k] /\ op[k].tim \in Timers  BY <1>0, <1>4 DEF TimerTypes, Ops
  <2> QED  BY <1>0, <1>6, <1>8, <2>1 DEF RearmsFit
<1>13. LocksFit' /\ ListsOrdered'  BY <1>0, <1>5 DEF LocksFit, ListsOrdered
<1>14. ListsFit'  BY <1>0, <1>5, <1>6, <1>7, <1>8 DEF ListsFit
<1>15. ScansFit'  BY <1>0, <1>5, <1>6, <1>7, <1>8 DEF ScansFit
<1>16. RunsFit'  BY <1>0, <1>5, <1>7, <1>8 DEF RunsFit
<1>17. PendingListed'
  <2>1. \A u \in Timers, k \in Lcores : Rearming(k, u) => Rearming(k, u)'
    BY <1>1, <1>4, <1>5 DEF Rearming
  <2> QED  BY <1>0, <1>5, <1>8, <2>1 DEF PendingListed
<1>18. HeadsCached'  BY <1>0, <1>5, <1>6 DEF HeadsCached
<1> QED
  BY <1>9, <1>10, <1>11, <1>12, <1>13, <1>14, <1>15, <1>16, <1>17, <1>18 DEF TimerInv

(* rte_timer_manage takes its lock and breaks off the expired timers. *)
LEMMA BreakKeepsInv ==
  ASSUME TimerInv, NEW l \in Lcores, Break(l)
  PROVE  TimerInv'
<1>0. /\ TimerTypes /\ OpsFit /\ Held /\ RearmsFit /\ LocksFit /\ ListsFit /\ ScansFit
      /\ RunsFit /\ PendingListed /\ ListsOrdered /\ HeadsCached
  BY DEF TimerInv
<1>1. mpc[l] = "lock" /\ lock[l] = NONE  BY DEF Break
<1>2. UNCHANGED <<now, status, expire, period, head_expire, updated, run, running_tim, cb_left, op>>
  BY DEF Break, statusVars
<1>3. op[l] = NONE /\ scan[l] = << >> /\ running_tim[l] = NONE /\ run[l] = << >>
  BY <1>0, <1>1 DEF OpsFit, LocksFit, RunsFit
<1>4. \A q, k \in Lcores, u \in Timers :
        /\ Deleting(q, u, k)' <=> Deleting(q, u, k)
        /\ Linking(q, u, k)' <=> Linking(q, u, k)
        /\ Holding(q, u)' <=> Holding(q, u)
  BY <1>2 DEF Deleting, Linking, Holding
<1>5. \A q \in Lcores, u \in Timers : ~Linking(q, u, l)
  BY <1>0, <1>1, TimerAssumption DEF OpsFit, Linking
<1>6. Held'  BY <1>0, <1>2, <1>4 DEF Held
<1>7. CASE ~FirstExpired(l)
  <2>1. /\ mpc'[l] = "idle" /\ \A k \in Lcores : k # l => mpc'[k] = mpc[k]
        /\ UNCHANGED <<list, lock, scan>>
    BY <1>0, <1>7 DEF Break, TimerTypes
  <2>2. TimerTypes'
    <3>1. mpc' \in [Lcores -> {"idle", "lock", "scan", "run", "callback", "rearm"}]
      BY <1>0, <1>7 DEF Break, TimerTypes
    <3>2. cur_time' \in [Lcores -> Nat]
      <4>1. cur_time' = [cur_time EXCEPT ![l] = 0]  BY <1>7 DEF Break
      <4>2. cur_time \in [Lcores -> Nat]  BY <1>0 DEF TimerTypes
      <4> QED  BY <4>1, <4>2
    <3> QED  BY <1>0, <1>2, <2>1, <3>1, <3>2 DEF TimerTypes
  <2>3. OpsFit'  BY <1>0, <1>2, <1>3, <2>1 DEF OpsFit
  <2>4. RearmsFit'  BY <1>0, <1>2, <2>1 DEF RearmsFit, Deleting
  <2>5. LocksFit' /\ ListsFit' /\ ScansFit'
    BY <1>0, <1>1, <1>2, <2>1 DEF LocksFit, ListsFit, ScansFit, Deleting, Linking
  <2>6. RunsFit' /\ PendingListed'
    BY <1>0, <1>1, <1>2, <1>3, <2>1 DEF RunsFit, PendingListed, Rearming
  <2>7. ListsOrdered' /\ HeadsCached'
    BY <1>0, <1>1, <1>2, <2>1 DEF ListsOrdered, HeadsCached, Linking
  <2> QED  BY <1>6, <2>2, <2>3, <2>4, <2>5, <2>6, <2>7 DEF TimerInv
<1>8. CASE FirstExpired(l)
  <2>1. list[l] \in Seq(Timers) /\ expire \in [Timers -> Nat] /\ cur_time[l] \in Nat
    BY <1>0 DEF TimerTypes
  <2>2. PICK p \in 0 .. Len(list[l]) : p = PrevEntries(list[l], cur_time[l])
    BY <2>1, PrevEntriesIs
  <2>3. /\ scan'[l] = SubSeq(list[l], 1, p) /\ list'[l] = SubSeq(list[l], p + 1, Len(list[l]))
        /\ mpc'[l] = "scan" /\ lock'[l] = l /\ cur_time' = cur_time
        /\ \A k \in Lcores : k # l => /\ scan'[k] = scan[k] /\ list'[k] = list[k]
                                      /\ mpc'[k] = mpc[k] /\ lock'[k] = lock[k]
    BY <1>0, <1>8, <2>2 DEF Break, TimerTypes
  <2>4. Cut(list[l], scan'[l], list'[l], expire)
    <3>1. OrderedBy(list[l], expire)  BY <1>0 DEF ListsOrdered
    <3>2. Cut(list[l], SubSeq(list[l], 1, p), SubSeq(list[l], p + 1, Len(list[l])), expire)
      BY <2>1, <3>1, SplitIs
    <3> QED  BY <2>3, <3>2
  <2>5. /\ scan'[l] \in Seq(Timers) /\ list'[l] \in Seq(Timers)
        /\ ToSet(list[l]) = ToSet(scan'[l]) \union ToSet(list'[l])
        /\ ToSet(scan'[l]) \intersect ToSet(list'[l]) = {}
        /\ IsInjective(scan'[l]) /\ OrderedBy(list'[l], expire)
    BY <2>4 DEF Cut
  <2>6. TimerTypes'
    <3>1. mpc' \in [Lcores -> {"idle", "lock", "scan", "run", "callback", "rearm"}]
      BY <1>0, <1>8 DEF Break, TimerTypes
    <3>2. list' \in [Lcores -> Seq(Timers)]  BY <1>0, <1>8, <2>5 DEF Break, TimerTypes
    <3>3. scan' \in [Lcores -> Seq(Timers)]  BY <1>0, <1>8, <2>5 DEF Break, TimerTypes
    <3>4. lock' \in [Lcores -> Lcores \union {NONE}]
      <4>1. lock' = [lock EXCEPT ![l] = l]  BY <1>8 DEF Break
      <4>2. lock \in [Lcores -> Lcores \union {NONE}]  BY <1>0 DEF TimerTypes
      <4> QED  BY <4>1, <4>2
    <3> QED  BY <1>0, <1>2, <2>3, <3>1, <3>2, <3>3, <3>4 DEF TimerTypes
  <2>7. OpsFit'
    <3> SUFFICES ASSUME NEW k \in Lcores, op[k] # NONE
                 PROVE  /\ mpc'[k] \in {"idle", "callback", "rearm"}
                        /\ op[k].locked <=> mpc'[k] = "rearm"
                        /\ mpc'[k] = "rearm" => op[k].dest = k /\ op[k].kind = "reset"
                        /\ op[k].kind = "reset" => op[k].dest \in Lcores
                        /\ op[k].pc = "del" => op[k].prev \in Lcores
                        /\ op[k].pc \in {"add", "pending"} => op[k].kind = "reset"
                        /\ op[k].pc = "stop" => op[k].kind = "stop"
                        /\ op[k].pc = "pending" =>
                             /\ lock'[op[k].dest] = k
                             /\ op[k].tim \in ToSet(list'[op[k].dest])
      BY <1>2 DEF OpsFit
    <3>1. k # l  BY <1>3
    <3>2. op[k].pc = "pending" => op[k].dest # l /\ op[k].dest \in Lcores
      <4>1. op[k].tim \in Timers  BY <1>0 DEF TimerTypes, Ops
      <4> QED  BY <1>0, <1>5, <4>1 DEF Linking, OpsFit
    <3> QED  BY <1>0, <2>3, <3>1, <3>2 DEF OpsFit
  <2>8. RearmsFit'  BY <1>0, <1>2, <1>3, <2>3 DEF RearmsFit, Deleting
  <2>9. LocksFit'  BY <1>0, <2>3 DEF LocksFit
  <2>10. ListsFit'
    <3> SUFFICES ASSUME NEW k \in Lcores, NEW u \in ToSet(list'[k])
                 PROVE  \/ status[u] = Pending(k)
                        \/ \E q \in Lcores : Deleting(q, u, k)' \/ Linking(q, u, k)'
      BY <1>2 DEF ListsFit
    <3>1. u \in ToSet(list[k])  BY <2>3, <2>5
    <3>2. u \in Timers  BY <1>0, <3>1, ListedTimers
    <3> QED  BY <1>0, <1>4, <3>1, <3>2 DEF ListsFit
  <2>11. ScansFit'
    <3> SUFFICES ASSUME NEW k \in Lcores, NEW u \in ToSet(scan'[k])
                 PROVE  /\ status[u] = Pending(k) \/ \E q \in Lcores : Deleting(q, u, k)'
                        /\ u \notin ToSet(list'[k])
      BY <1>2 DEF ScansFit
    <3>1. CASE k = l
      <4>1. u \in ToSet(list[l]) /\ u \notin ToSet(list'[l])  BY <2>5, <3>1
      <4>2. u \in Timers  BY <1>0, <4>1, ListedTimers
      <4> QED  BY <1>0, <1>4, <1>5, <3>1, <4>1, <4>2 DEF ListsFit
    <3>2. CASE k # l
      <4>1. u \in ToSet(scan[k]) /\ u \in Timers  BY <1>0, <2>3, <3>2, ListedTimers
      <4> QED  BY <1>0, <1>4, <2>3, <3>2, <4>1 DEF ScansFit
    <3> QED  BY <3>1, <3>2
  <2>12. RunsFit'  BY <1>0, <1>1, <1>2, <1>3, <2>3 DEF RunsFit
  <2>13. PendingListed'
    <3> SUFFICES ASSUME NEW u \in Timers, NEW k \in Lcores, status[u] = Pending(k)
                 PROVE  u \in ToSet(list'[k]) \/ u \in ToSet(scan'[k]) \/ Rearming(k, u)'
      BY <1>2 DEF PendingListed
    <3>1. u \in ToSet(list[k]) \/ u \in ToSet(scan[k]) \/ Rearming(k, u)
      BY <1>0 DEF PendingListed
    <3>2. CASE k = l
      <4>1. u \in ToSet(list[l])  BY <1>3, <3>1, <3>2, EmptyList DEF Rearming
      <4> QED  BY <2>5, <3>2, <4>1
    <3>3. CASE k # l  BY <1>2, <2>3, <3>1, <3>3 DEF Rearming
    <3> QED  BY <3>2, <3>3
  <2>14. ListsOrdered'
    <3>1. ASSUME NEW k \in Lcores
          PROVE  OrderedBy(list'[k], expire) /\ IsInjective(scan'[k])
      BY <1>0, <2>3, <2>5 DEF ListsOrdered
    <3> QED  BY <1>0, <1>2, <3>1 DEF ListsOrdered
  <2>15. HeadsCached'  BY <1>0, <1>2, <2>3 DEF HeadsCached, Linking
  <2> QED
    BY <1>6, <2>6, <2>7, <2>8, <2>9, <2>10, <2>11, <2>12, <2>13, <2>14, <2>15 DEF TimerInv
<1> QED  BY <1>7, <1>8

(* timer_set_running_state, of one of the timers broken off. *)
LEMMA MarkRunningKeepsInv ==
  ASSUME TimerInv, NEW l \in Lcores, MarkRunning(l)
  PROVE  TimerInv'
<1>0. /\ TimerTypes /\ OpsFit /\ Held /\ RearmsFit /\ LocksFit /\ ListsFit /\ ScansFit
      /\ RunsFit /\ PendingListed /\ ListsOrdered /\ HeadsCached
  BY DEF TimerInv
<1>1. mpc[l] = "scan" /\ scan[l] # << >> /\ scan[l] \in Seq(Timers) /\ IsInjective(scan[l])
  BY <1>0 DEF MarkRunning, TimerTypes, ListsOrdered
<1>2. PICK t \in Timers : t = Head(scan[l]) /\ t \in ToSet(scan[l])
  <2>1. Head(scan[l]) \in ToSet(scan[l]) /\ ToSet(scan[l]) \subseteq Timers  BY <1>1, ListOf
  <2> QED  BY <2>1
<1>3. /\ UNCHANGED <<now, expire, period, list, head_expire, lock, updated>>
      /\ UNCHANGED <<mpc, cur_time, running_tim, cb_left, op>>
  BY DEF MarkRunning, listVars
<1>4. /\ scan'[l] = Tail(scan[l]) /\ \A k \in Lcores : k # l => scan'[k] = scan[k]
  BY <1>0 DEF MarkRunning, TimerTypes
<1>5. /\ scan'[l] \in Seq(Timers) /\ IsInjective(scan'[l])
      /\ ToSet(scan'[l]) = ToSet(scan[l]) \ {t}
  BY <1>1, <1>2, <1>4, TailIs
<1>6. scan' \in [Lcores -> Seq(Timers)]
  <2>1. scan' = [scan EXCEPT ![l] = Tail(scan[l])]  BY DEF MarkRunning
  <2>2. scan \in [Lcores -> Seq(Timers)]  BY <1>0 DEF TimerTypes
  <2> QED  BY <1>4, <1>5, <2>1, <2>2
<1>7. op[l] = NONE  BY <1>0, <1>1 DEF OpsFit
<1>8. \A q, k \in Lcores, u \in Timers :
        /\ Deleting(q, u, k)' <=> Deleting(q, u, k)
        /\ Linking(q, u, k)' <=> Linking(q, u, k)
        /\ Holding(q, u)' <=> Holding(q, u)
        /\ Rearming(k, u)' <=> Rearming(k, u)
  BY <1>3 DEF Deleting, Linking, Holding, Rearming
<1>9. \A k \in Lcores : ToSet(list[k]) \subseteq Timers /\ ToSet(scan[k]) \subseteq Timers
                        /\ ToSet(run[k]) \subseteq Timers
  BY <1>0, ListedTimers
<1>10. OpsFit' /\ HeadsCached'
  BY <1>0, <1>3 DEF OpsFit, HeadsCached, Linking
<1>11. LocksFit'  BY <1>0, <1>1, <1>3, <1>4 DEF LocksFit
<1>12. \A k \in Lcores : OrderedBy(list'[k], expire') /\ IsInjective(scan'[k])
  BY <1>0, <1>3, <1>4, <1>5 DEF ListsOrdered
<1>13. CASE status[t].state = "pending"
  <2>1. /\ status'[t] = Running(l) /\ \A u \in Timers : u # t => status'[u] = status[u]
        /\ status' \in [Timers -> StatusWord]
        /\ run'[l] = Append(run[l], t) /\ \A k \in Lcores : k # l => run'[k] = run[k]
        /\ run' = [run EXCEPT ![l] = Append(run[l], t)]
    BY <1>0, <1>2, <1>13, WordsWritten DEF MarkRunning, TimerTypes
  <2>2. \A q, k \in Lcores : ~Deleting(q, t, k) /\ ~Linking(q, t, k) /\ ~Holding(q, t)
    <3>1. \A q \in Lcores : ~Holding(q, t)  BY <1>0, <1>13, StatusFields DEF Held
    <3> QED  BY <3>1 DEF Deleting, Linking, Holding
  <2>3. status[t] = Pending(l)  BY <1>0, <1>2, <2>2 DEF ScansFit
  <2>4. \A k \in Lcores : status[t] = Pending(k) => k = l
    <3>1. ASSUME NEW k \in Lcores, Pending(k) = Pending(l) PROVE k = l
      <4>1. Pending(k).owner = k /\ Pending(l).owner = l  BY StatusFields
      <4> QED  BY <3>1, <4>1
    <3> QED  BY <2>3, <3>1
  <2>5. \A k \in Lcores : status[t] # Running(k) /\ status[t] # Config(k)
    BY <2>3, StatusFields
  <2>6. t \notin ToSet(run[l]) /\ IsInjective(run[l]) /\ run[l] \in Seq(Timers)
    BY <1>0, <2>5 DEF RunsFit, ListsOrdered, TimerTypes
  <2>7. /\ run'[l] \in Seq(Timers) /\ IsInjective(run'[l])
        /\ ToSet(run'[l]) = ToSet(run[l]) \union {t}
    BY <2>1, <2>6, AppendIs
  <2>8. TimerTypes'
    <3>1. run' \in [Lcores -> Seq(Timers)]
      <4>1. run \in [Lcores -> Seq(Timers)]  BY <1>0 DEF TimerTypes
      <4> QED  BY <2>1, <2>7, <4>1
    <3> QED  BY <1>0, <1>3, <1>6, <2>1, <3>1 DEF TimerTypes
  <2>9. Held'
    <3> SUFFICES ASSUME NEW k \in Lcores, NEW u \in Timers
                 PROVE  Holding(k, u)' <=> status'[u] = Config(k)
      BY DEF Held
    <3>1. Holding(k, u) <=> status[u] = Config(k)  BY <1>0 DEF Held
    <3>2. CASE u = t
      <4>1. status'[u] # Config(k)  BY <2>1, <3>2, StatusFields
      <4> QED  BY <1>8, <2>2, <3>2, <4>1
    <3>3. CASE u # t  BY <1>8, <2>1, <3>1, <3>3
    <3> QED  BY <3>2, <3>3
  <2>10. RearmsFit'
    <3> SUFFICES ASSUME NEW k \in Lcores, mpc[k] = "rearm", op[k] # NONE
                 PROVE  /\ op[k].pc = "config" =>
                             \/ status'[op[k].tim] = Pending(k)
                             \/ \E q \in Lcores : Deleting(q, op[k].tim, k)'
                        /\ op[k].pc = "del" => op[k].prev = k
      BY <1>3 DEF RearmsFit
    <3>1. op'[k] = op[k] /\ op[k].tim \in Timers  BY <1>0, <1>3 DEF TimerTypes, Ops
    <3>2. op[k].pc = "config" => op[k].tim # t
      <4>1. k # l  BY <1>7
      <4>2. status[t] # Pending(k)  BY <2>4, <4>1
      <4> QED  BY <1>0, <2>2, <4>2 DEF RearmsFit
    <3> QED  BY <1>0, <1>8, <2>1, <3>1, <3>2 DEF RearmsFit
  <2>11. ListsFit'
    <3> SUFFICES ASSUME NEW k \in Lcores, NEW u \in ToSet(list[k])
                 PROVE  \/ status'[u] = Pending(k)
                        \/ \E q \in Lcores : Deleting(q, u, k)' \/ Linking(q, u, k)'
      BY <1>3 DEF ListsFit
    <3>1. \/ status[u] = Pending(k)
          \/ \E q \in Lcores : Deleting(q, u, k) \/ Linking(q, u, k)
      BY <1>0 DEF ListsFit
    <3>2. t \notin ToSet(list[l])  BY <1>0, <1>2 DEF ScansFit
    <3>3. u # t  BY <2>2, <2>4, <3>1, <3>2
    <3> QED  BY <1>8, <1>9, <2>1, <3>1, <3>3
  <2>12. ScansFit'
    <3> SUFFICES ASSUME NEW k \in Lcores, NEW u \in ToSet(scan'[k])
                 PROVE  /\ status'[u] = Pending(k) \/ \E q \in Lcores : Deleting(q, u, k)'
                        /\ u \notin ToSet(list[k])
      BY <1>3 DEF ScansFit
    <3>1. u \in ToSet(scan[k]) /\ u \in Timers /\ (k = l => u # t)  BY <1>4, <1>5, <1>9
    <3>2. /\ status[u] = Pending(k) \/ \E q \in Lcores : Deleting(q, u, k)
          /\ u \notin ToSet(list[k])
      BY <1>0, <3>1 DEF ScansFit
    <3>3. u # t  BY <2>2, <2>4, <3>1, <3>2
    <3> QED  BY <1>8, <2>1, <3>1, <3>2, <3>3
  <2>13. RunsFit'
    <3> SUFFICES ASSUME NEW k \in Lcores
                 PROVE  /\ \A u \in ToSet(run'[k]) : status'[u] = Running(k)
                        /\ run'[k] # << >> => mpc[k] \in {"scan", "run", "callback", "rearm"}
                        /\ mpc[k] = "callback" =>
                             running_tim[k] \in Timers /\ running_tim[k] \notin ToSet(run'[k])
                        /\ mpc[k] \in {"idle", "lock", "scan"} => running_tim[k] = NONE
                        /\ mpc[k] = "callback" /\ ~updated[k] =>
                             status'[running_tim[k]] = Running(k)
      BY <1>3 DEF RunsFit
    <3>1. ASSUME NEW u \in Timers, status[u] = Running(k)
          PROVE  status'[u] = Running(k)
      BY <2>1, <2>5, <3>1
    <3>2. CASE k = l  BY <1>0, <1>1, <1>9, <2>1, <2>7, <3>1, <3>2 DEF RunsFit
    <3>3. CASE k # l  BY <1>0, <1>9, <2>1, <3>1, <3>3 DEF RunsFit
    <3> QED  BY <3>2, <3>3
  <2>14. PendingListed'
    <3> SUFFICES ASSUME NEW u \in Timers, NEW k \in Lcores, status'[u] = Pending(k)
                 PROVE  u \in ToSet(list[k]) \/ u \in ToSet(scan'[k]) \/ Rearming(k, u)'
      BY <1>3 DEF PendingListed
    <3>1. u # t  BY <2>1, StatusFields
    <3>2. u \in ToSet(list[k]) \/ u \in ToSet(scan[k]) \/ Rearming(k, u)
      BY <1>0, <2>1, <3>1 DEF PendingListed
    <3> QED  BY <1>4, <1>5, <1>8, <3>1, <3>2
  <2>15. ListsOrdered'
    <3>1. \A k \in Lcores : IsInjective(run'[k])  BY <1>0, <2>1, <2>7 DEF ListsOrdered
    <3> QED  BY <1>12, <3>1 DEF ListsOrdered
  <2> QED
    BY <1>10, <1>11, <2>8, <2>9, <2>10, <2>11, <2>12, <2>13, <2>14, <2>15 DEF TimerInv
<1>14. CASE status[t].state # "pending"
  <2>1. UNCHANGED <<status, run>>  BY <1>2, <1>14 DEF MarkRunning
  <2>2. TimerTypes'  BY <1>0, <1>3, <1>6, <2>1 DEF TimerTypes
  <2>3. Held'  BY <1>0, <1>8, <2>1 DEF Held
  <2>4. RearmsFit'  BY <1>0, <1>3, <2>1 DEF RearmsFit, Deleting
  <2>5. ListsFit'  BY <1>0, <1>3, <2>1 DEF ListsFit, Deleting, Linking
  <2>6. ScansFit'
    <3> SUFFICES ASSUME NEW k \in Lcores, NEW u \in ToSet(scan'[k])
                 PROVE  /\ status[u] = Pending(k) \/ \E q \in Lcores : Deleting(q, u, k)'
                        /\ u \notin ToSet(list[k])
      BY <1>3, <2>1 DEF ScansFit
    <3>1. u \in ToSet(scan[k]) /\ u \in Timers  BY <1>4, <1>5, <1>9
    <3> QED  BY <1>0, <1>8, <3>1 DEF ScansFit
  <2>7. RunsFit'  BY <1>0, <1>3, <2>1 DEF RunsFit
  <2>8. PendingListed'
    <3> SUFFICES ASSUME NEW u \in Timers, NEW k \in Lcores, status[u] = Pending(k)
                 PROVE  u \in ToSet(list[k]) \/ u \in ToSet(scan'[k]) \/ Rearming(k, u)'
      BY <1>3, <2>1 DEF PendingListed
    <3>1. u # t  BY <1>14, StatusFields
    <3>2. u \in ToSet(list[k]) \/ u \in ToSet(scan[k]) \/ Rearming(k, u)
      BY <1>0 DEF PendingListed
    <3> QED  BY <1>4, <1>5, <1>8, <3>1, <3>2
  <2>9. ListsOrdered'  BY <1>0, <1>12, <2>1 DEF ListsOrdered
  <2> QED
    BY <1>10, <1>11, <2>2, <2>3, <2>4, <2>5, <2>6, <2>7, <2>8, <2>9 DEF TimerInv
<1> QED  BY <1>13, <1>14

(* rte_timer_manage saves the first expiry and unlocks. *)
LEMMA ScanEndKeepsInv ==
  ASSUME TimerInv, NEW l \in Lcores, ScanEnd(l)
  PROVE  TimerInv'
<1>0. /\ TimerTypes /\ OpsFit /\ Held /\ RearmsFit /\ LocksFit /\ ListsFit /\ ScansFit
      /\ RunsFit /\ PendingListed /\ ListsOrdered /\ HeadsCached
  BY DEF TimerInv
<1>1. mpc[l] = "scan" /\ scan[l] = << >>  BY DEF ScanEnd
<1>2. /\ UNCHANGED <<now, status, expire, period, list, updated>>
      /\ UNCHANGED <<scan, run, running_tim, cb_left, op>>
  BY DEF ScanEnd, statusVars
<1>3. /\ mpc'[l] = "run" /\ lock'[l] = NONE /\ head_expire'[l] = FirstBy(list[l], expire)
      /\ \A k \in Lcores : k # l => /\ mpc'[k] = mpc[k] /\ lock'[k] = lock[k]
                                    /\ head_expire'[k] = head_expire[k]
  BY <1>0 DEF ScanEnd, TimerTypes, First, FirstBy
<1>4. op[l] = NONE /\ lock[l] = l  BY <1>0, <1>1 DEF OpsFit, LocksFit
<1>5. TimerTypes'
  <2>1. mpc' \in [Lcores -> {"idle", "lock", "scan", "run", "callback", "rearm"}]
    BY <1>0 DEF ScanEnd, TimerTypes
  <2>2. cur_time' \in [Lcores -> Nat]
    <3>1. cur_time' = [cur_time EXCEPT ![l] = 0]  BY DEF ScanEnd
    <3>2. cur_time \in [Lcores -> Nat]  BY <1>0 DEF TimerTypes
    <3> QED  BY <3>1, <3>2
  <2>3. lock' \in [Lcores -> Lcores \union {NONE}]
    <3>1. lock' = [lock EXCEPT ![l] = NONE]  BY DEF ScanEnd
    <3>2. lock \in [Lcores -> Lcores \union {NONE}]  BY <1>0 DEF TimerTypes
    <3> QED  BY <3>1, <3>2
  <2>4. head_expire' \in [Lcores -> Nat]
    <3>1. head_expire' = [head_expire EXCEPT ![l] = First(list[l])]  BY DEF ScanEnd
    <3>2. /\ head_expire \in [Lcores -> Nat]
          /\ list[l] \in Seq(Timers) /\ expire \in [Timers -> Nat]
      BY <1>0 DEF TimerTypes
    <3>3. First(list[l]) \in Nat  BY <3>2, FirstIs DEF First, FirstBy
    <3> QED  BY <3>1, <3>2, <3>3
  <2> QED  BY <1>0, <1>2, <2>1, <2>2, <2>3, <2>4 DEF TimerTypes
<1>6. OpsFit'
  <2> SUFFICES ASSUME NEW k \in Lcores, op[k] # NONE
               PROVE  /\ mpc'[k] \in {"idle", "callback", "rearm"}
                      /\ op[k].locked <=> mpc'[k] = "rearm"
                      /\ mpc'[k] = "rearm" => op[k].dest = k /\ op[k].kind = "reset"
                      /\ op[k].kind = "reset" => op[k].dest \in Lcores
                      /\ op[k].pc = "del" => op[k].prev \in Lcores
                      /\ op[k].pc \in {"add", "pending"} => op[k].kind = "reset"
                      /\ op[k].pc = "stop" => op[k].kind = "stop"
                      /\ op[k].pc = "pending" =>
                           lock'[op[k].dest] = k /\ op[k].tim \in ToSet(list[op[k].dest])
    BY <1>2 DEF OpsFit
  <2>1. k # l  BY <1>4
  <2>2. op[k].pc = "pending" => op[k].dest \in Lcores /\ op[k].dest # l
    BY <1>0, <1>4, <2>1 DEF OpsFit
  <2> QED  BY <1>0, <1>3, <2>1, <2>2 DEF OpsFit
<1>7. Held'  BY <1>0, <1>2 DEF Held, Holding
<1>8. RearmsFit'  BY <1>0, <1>2, <1>3, <1>4 DEF RearmsFit, Deleting
<1>9. LocksFit'  BY <1>0, <1>1, <1>2, <1>3 DEF LocksFit
<1>10. ListsFit' /\ ScansFit' /\ ListsOrdered'
  BY <1>0, <1>2 DEF ListsFit, ScansFit, ListsOrdered, Deleting, Linking
<1>11. RunsFit'  BY <1>0, <1>2, <1>3 DEF RunsFit
<1>12. PendingListed'
  <2>1. \A u \in Timers, k \in Lcores : Rearming(k, u) => Rearming(k, u)'
    BY <1>1, <1>2, <1>3 DEF Rearming
  <2> QED  BY <1>0, <1>2, <2>1 DEF PendingListed
<1>13. HeadsCached'
  <2> SUFFICES ASSUME NEW k \in Lcores, mpc'[k] # "scan",
                      \A q \in Lcores, u \in Timers : ~Linking(q, u, k)
               PROVE  head_expire'[k] = FirstBy(list[k], expire)
    BY <1>2 DEF HeadsCached, Linking
  <2> QED  BY <1>0, <1>3 DEF HeadsCached
<1> QED  BY <1>5, <1>6, <1>7, <1>8, <1>9, <1>10, <1>11, <1>12, <1>13 DEF TimerInv

(* rte_timer_manage calls back. *)
LEMMA CallbackBeginKeepsInv ==
  ASSUME TimerInv, NEW l \in Lcores, CallbackBegin(l)
  PROVE  TimerInv'
<1>0. /\ TimerTypes /\ OpsFit /\ Held /\ RearmsFit /\ LocksFit /\ ListsFit /\ ScansFit
      /\ RunsFit /\ PendingListed /\ ListsOrdered /\ HeadsCached
  BY DEF TimerInv
<1>1. mpc[l] = "run" /\ run[l] # << >> /\ run[l] \in Seq(Timers) /\ IsInjective(run[l])
  BY <1>0 DEF CallbackBegin, TimerTypes, ListsOrdered
<1>2. PICK t \in Timers : t = Head(run[l]) /\ t \in ToSet(run[l])
  <2>1. Head(run[l]) \in ToSet(run[l]) /\ ToSet(run[l]) \subseteq Timers  BY <1>1, ListOf
  <2> QED  BY <2>1
<1>3. /\ UNCHANGED <<now, status, expire, period, list, head_expire, lock>>
      /\ UNCHANGED <<cur_time, scan, op>>
  BY DEF CallbackBegin, statusVars, listVars
<1>4. /\ mpc'[l] = "callback" /\ running_tim'[l] = t /\ run'[l] = Tail(run[l])
      /\ \A k \in Lcores : k # l => /\ mpc'[k] = mpc[k] /\ run'[k] = run[k]
                                    /\ running_tim'[k] = running_tim[k]
                                    /\ updated'[k] = updated[k]
  BY <1>0, <1>2 DEF CallbackBegin, TimerTypes
<1>5. /\ run'[l] \in Seq(Timers) /\ IsInjective(run'[l])
      /\ ToSet(run'[l]) = ToSet(run[l]) \ {t}
  BY <1>1, <1>2, <1>4, TailIs
<1>6. op[l] = NONE  BY <1>0, <1>1 DEF OpsFit
<1>7. TimerTypes'
  <2>1. mpc' \in [Lcores -> {"idle", "lock", "scan", "run", "callback", "rearm"}]
    BY <1>0 DEF CallbackBegin, TimerTypes
  <2>2. run' \in [Lcores -> Seq(Timers)]
    <3>1. run' = [run EXCEPT ![l] = Tail(run[l])]  BY DEF CallbackBegin
    <3>2. run \in [Lcores -> Seq(Timers)]  BY <1>0 DEF TimerTypes
    <3> QED  BY <1>4, <1>5, <3>1, <3>2
  <2>3. running_tim' \in [Lcores -> Timers \union {NONE}]
    <3>1. running_tim' = [running_tim EXCEPT ![l] = t]  BY <1>2 DEF CallbackBegin
    <3>2. running_tim \in [Lcores -> Timers \union {NONE}]  BY <1>0 DEF TimerTypes
    <3> QED  BY <3>1, <3>2
  <2>4. updated' \in [Lcores -> BOOLEAN]  BY <1>0, Zenon DEF CallbackBegin, TimerTypes
  <2>5. cb_left' \in [Lcores -> Nat]
    <3>1. cb_left' = [cb_left EXCEPT ![l] = CbCalls]  BY DEF CallbackBegin
    <3>2. cb_left \in [Lcores -> Nat]  BY <1>0 DEF TimerTypes
    <3> QED  BY <3>1, <3>2, TimerAssumption
  <2> QED  BY <1>0, <1>3, <2>1, <2>2, <2>3, <2>4, <2>5 DEF TimerTypes
<1>8. OpsFit'  BY <1>0, <1>3, <1>4, <1>6 DEF OpsFit
<1>9. Held'  BY <1>0, <1>3 DEF Held, Holding
<1>10. RearmsFit'  BY <1>0, <1>3, <1>4, <1>6 DEF RearmsFit, Deleting
<1>11. LocksFit'  BY <1>0, <1>1, <1>3, <1>4 DEF LocksFit
<1>12. ListsFit' /\ ScansFit'
  BY <1>0, <1>3 DEF ListsFit, ScansFit, Deleting, Linking
<1>13. RunsFit'
  <2>1. ASSUME NEW k \in Lcores
        PROVE  /\ \A u \in ToSet(run'[k]) : status[u] = Running(k)
               /\ run'[k] # << >> => mpc'[k] \in {"scan", "run", "callback", "rearm"}
               /\ mpc'[k] = "callback" =>
                    running_tim'[k] \in Timers /\ running_tim'[k] \notin ToSet(run'[k])
               /\ mpc'[k] \in {"idle", "lock", "scan"} => running_tim'[k] = NONE
               /\ mpc'[k] = "callback" /\ ~updated'[k] => status[running_tim'[k]] = Running(k)
    <3>1. CASE k = l  BY <1>0, <1>2, <1>4, <1>5, <3>1 DEF RunsFit
    <3>2. CASE k # l  BY <1>0, <1>4, <3>2 DEF RunsFit
    <3> QED  BY <3>1, <3>2
  <2> QED  BY <1>3, <2>1 DEF RunsFit
<1>14. PendingListed'
  <2>1. \A u \in Timers, k \in Lcores : Rearming(k, u) => Rearming(k, u)'
    BY <1>1, <1>3, <1>4 DEF Rearming
  <2> QED  BY <1>0, <1>3, <2>1 DEF PendingListed
<1>15. ListsOrdered'
  <2>1. \A k \in Lcores : IsInjective(run'[k])  BY <1>0, <1>4, <1>5 DEF ListsOrdered
  <2> QED  BY <1>0, <1>3, <2>1 DEF ListsOrdered
<1>16. HeadsCached'  BY <1>0, <1>1, <1>3, <1>4 DEF HeadsCached, Linking
<1> QED
  BY <1>7, <1>8, <1>9, <1>10, <1>11, <1>12, <1>13, <1>14, <1>15, <1>16 DEF TimerInv

(* The periodical timer is set again, and manage unlocks. *)
LEMMA RearmEndKeepsInv ==
  ASSUME TimerInv, NEW l \in Lcores, RearmEnd(l)
  PROVE  TimerInv'
<1>0. /\ TimerTypes /\ OpsFit /\ Held /\ RearmsFit /\ LocksFit /\ ListsFit /\ ScansFit
      /\ RunsFit /\ PendingListed /\ ListsOrdered /\ HeadsCached
  BY DEF TimerInv
<1>1. mpc[l] = "rearm" /\ op[l] = NONE  BY DEF RearmEnd
<1>2. /\ UNCHANGED <<now, status, expire, period, list, head_expire, updated>>
      /\ UNCHANGED <<cur_time, scan, run, running_tim, cb_left, op>>
  BY DEF RearmEnd, statusVars
<1>3. /\ mpc'[l] = "run" /\ lock'[l] = NONE
      /\ \A k \in Lcores : k # l => mpc'[k] = mpc[k] /\ lock'[k] = lock[k]
  BY <1>0 DEF RearmEnd, TimerTypes
<1>4. lock[l] = l  BY <1>0, <1>1 DEF LocksFit
<1>5. TimerTypes'
  <2>1. mpc' \in [Lcores -> {"idle", "lock", "scan", "run", "callback", "rearm"}]
    BY <1>0 DEF RearmEnd, TimerTypes
  <2>2. lock' \in [Lcores -> Lcores \union {NONE}]
    <3>1. lock' = [lock EXCEPT ![l] = NONE]  BY DEF RearmEnd
    <3>2. lock \in [Lcores -> Lcores \union {NONE}]  BY <1>0 DEF TimerTypes
    <3> QED  BY <3>1, <3>2
  <2> QED  BY <1>0, <1>2, <2>1, <2>2 DEF TimerTypes
<1>6. OpsFit'
  <2> SUFFICES ASSUME NEW k \in Lcores, op[k] # NONE
               PROVE  /\ mpc'[k] \in {"idle", "callback", "rearm"}
                      /\ op[k].locked <=> mpc'[k] = "rearm"
                      /\ mpc'[k] = "rearm" => op[k].dest = k /\ op[k].kind = "reset"
                      /\ op[k].kind = "reset" => op[k].dest \in Lcores
                      /\ op[k].pc = "del" => op[k].prev \in Lcores
                      /\ op[k].pc \in {"add", "pending"} => op[k].kind = "reset"
                      /\ op[k].pc = "stop" => op[k].kind = "stop"
                      /\ op[k].pc = "pending" =>
                           lock'[op[k].dest] = k /\ op[k].tim \in ToSet(list[op[k].dest])
    BY <1>2 DEF OpsFit
  <2>1. k # l  BY <1>1
  <2>2. op[k].pc = "pending" => op[k].dest \in Lcores /\ op[k].dest # l
    BY <1>0, <1>4, <2>1 DEF OpsFit
  <2> QED  BY <1>0, <1>3, <2>1, <2>2 DEF OpsFit
<1>7. Held'  BY <1>0, <1>2 DEF Held, Holding
<1>8. RearmsFit'  BY <1>0, <1>1, <1>2, <1>3 DEF RearmsFit, Deleting
<1>9. LocksFit'  BY <1>0, <1>1, <1>2, <1>3 DEF LocksFit
<1>10. ListsFit' /\ ScansFit' /\ ListsOrdered'
  BY <1>0, <1>2 DEF ListsFit, ScansFit, ListsOrdered, Deleting, Linking
<1>11. RunsFit'  BY <1>0, <1>2, <1>3 DEF RunsFit
<1>12. PendingListed'
  <2>1. \A u \in Timers, k \in Lcores : Rearming(k, u) => Rearming(k, u)'
    BY <1>1, <1>2, <1>3 DEF Rearming
  <2> QED  BY <1>0, <1>2, <2>1 DEF PendingListed
<1>13. HeadsCached'  BY <1>0, <1>1, <1>2, <1>3 DEF HeadsCached, Linking
<1> QED  BY <1>5, <1>6, <1>7, <1>8, <1>9, <1>10, <1>11, <1>12, <1>13 DEF TimerInv

(* rte_timer_manage returns. *)
LEMMA ManageEndKeepsInv ==
  ASSUME TimerInv, NEW l \in Lcores, ManageEnd(l)
  PROVE  TimerInv'
<1>0. /\ TimerTypes /\ OpsFit /\ Held /\ RearmsFit /\ LocksFit /\ ListsFit /\ ScansFit
      /\ RunsFit /\ PendingListed /\ ListsOrdered /\ HeadsCached
  BY DEF TimerInv
<1>1. mpc[l] = "run" /\ run[l] = << >>  BY DEF ManageEnd
<1>2. /\ UNCHANGED <<now, status, expire, period, list, head_expire, lock, updated>>
      /\ UNCHANGED <<cur_time, scan, run, cb_left, op>>
  BY DEF ManageEnd, statusVars, listVars
<1>3. /\ mpc'[l] = "idle" /\ running_tim'[l] = NONE
      /\ \A k \in Lcores : k # l => mpc'[k] = mpc[k] /\ running_tim'[k] = running_tim[k]
  BY <1>0 DEF ManageEnd, TimerTypes
<1>4. op[l] = NONE  BY <1>0, <1>1 DEF OpsFit
<1>5. TimerTypes'
  <2>1. mpc' \in [Lcores -> {"idle", "lock", "scan", "run", "callback", "rearm"}]
    BY <1>0 DEF ManageEnd, TimerTypes
  <2>2. running_tim' \in [Lcores -> Timers \union {NONE}]
    <3>1. running_tim' = [running_tim EXCEPT ![l] = NONE]  BY DEF ManageEnd
    <3>2. running_tim \in [Lcores -> Timers \union {NONE}]  BY <1>0 DEF TimerTypes
    <3> QED  BY <3>1, <3>2
  <2> QED  BY <1>0, <1>2, <2>1, <2>2 DEF TimerTypes
<1>6. OpsFit'  BY <1>0, <1>2, <1>3, <1>4 DEF OpsFit
<1>7. Held'  BY <1>0, <1>2 DEF Held, Holding
<1>8. RearmsFit'  BY <1>0, <1>2, <1>3 DEF RearmsFit, Deleting
<1>9. LocksFit'  BY <1>0, <1>1, <1>2, <1>3 DEF LocksFit
<1>10. ListsFit' /\ ScansFit' /\ ListsOrdered'
  BY <1>0, <1>2 DEF ListsFit, ScansFit, ListsOrdered, Deleting, Linking
<1>11. RunsFit'  BY <1>0, <1>1, <1>2, <1>3 DEF RunsFit
<1>12. PendingListed'
  <2>1. \A u \in Timers, k \in Lcores : Rearming(k, u) => Rearming(k, u)'
    BY <1>1, <1>2, <1>3 DEF Rearming
  <2> QED  BY <1>0, <1>2, <2>1 DEF PendingListed
<1>13. HeadsCached'  BY <1>0, <1>1, <1>2, <1>3 DEF HeadsCached, Linking
<1> QED  BY <1>5, <1>6, <1>7, <1>8, <1>9, <1>10, <1>11, <1>12, <1>13 DEF TimerInv

(* A callback returns. *)
LEMMA CallbackEndKeepsInv ==
  ASSUME TimerInv, NEW l \in Lcores, CallbackEnd(l)
  PROVE  TimerInv'
<1>0. /\ TimerTypes /\ OpsFit /\ Held /\ RearmsFit /\ LocksFit /\ ListsFit /\ ScansFit
      /\ RunsFit /\ PendingListed /\ ListsOrdered /\ HeadsCached
  BY DEF TimerInv
<1>1. PICK t \in Timers :
        /\ t = running_tim[l] /\ mpc[l] = "callback" /\ op[l] = NONE
        /\ t \notin ToSet(run[l]) /\ (~updated[l] => status[t] = Running(l))
  BY <1>0 DEF CallbackEnd, RunsFit
<1>2. /\ UNCHANGED <<now, expire, period, list, head_expire, updated>>
      /\ UNCHANGED <<cur_time, scan, run, running_tim>>
  BY DEF CallbackEnd
<1>3. cb_left' \in [Lcores -> Nat]
  <2>1. cb_left' = [cb_left EXCEPT ![l] = 0]  BY DEF CallbackEnd
  <2>2. cb_left \in [Lcores -> Nat]  BY <1>0 DEF TimerTypes
  <2> QED  BY <2>1, <2>2
<1>4. \A k \in Lcores : ToSet(list[k]) \subseteq Timers /\ ToSet(scan[k]) \subseteq Timers
                        /\ ToSet(run[k]) \subseteq Timers
  BY <1>0, ListedTimers
<1>5. ListsOrdered'  BY <1>0, <1>2 DEF ListsOrdered
<1>6. scan[l] = << >>  BY <1>0, <1>1 DEF LocksFit
<1>7. CASE updated[l]
  <2>1. /\ mpc'[l] = "run" /\ \A k \in Lcores : k # l => mpc'[k] = mpc[k]
        /\ mpc' \in [Lcores -> {"idle", "lock", "scan", "run", "callback", "rearm"}]
    BY <1>0, <1>7 DEF CallbackEnd, TimerTypes
  <2>2. UNCHANGED <<status, lock, op>>  BY <1>7 DEF CallbackEnd
  <2>3. TimerTypes'  BY <1>0, <1>2, <1>3, <2>1, <2>2 DEF TimerTypes
  <2>4. OpsFit'  BY <1>0, <1>1, <1>2, <2>1, <2>2 DEF OpsFit
  <2>5. Held'  BY <1>0, <2>2 DEF Held, Holding
  <2>6. RearmsFit'  BY <1>0, <2>1, <2>2 DEF RearmsFit, Deleting
  <2>7. LocksFit'  BY <1>0, <1>1, <1>2, <2>1, <2>2 DEF LocksFit
  <2>8. ListsFit' /\ ScansFit'
    BY <1>0, <1>2, <2>2 DEF ListsFit, ScansFit, Deleting, Linking
  <2>9. RunsFit'  BY <1>0, <1>1, <1>2, <2>1, <2>2 DEF RunsFit
  <2>10. PendingListed'
    <3>1. \A u \in Timers, k \in Lcores : Rearming(k, u) => Rearming(k, u)'
      BY <1>1, <2>1, <2>2 DEF Rearming
    <3> QED  BY <1>0, <1>2, <2>2, <3>1 DEF PendingListed
  <2>11. HeadsCached'  BY <1>0, <1>1, <1>2, <2>1, <2>2 DEF HeadsCached, Linking
  <2> QED
    BY <1>5, <2>3, <2>4, <2>5, <2>6, <2>7, <2>8, <2>9, <2>10, <2>11 DEF TimerInv
<1>8. CASE ~updated[l]
  <2>1. status[t] = Running(l) /\ \A k \in Lcores : status[t] # Pending(k) /\ status[t] # Config(k)
    BY <1>1, <1>8, StatusFields
  <2>2. \A k \in Lcores : status[t] = Running(k) => k = l
    <3>1. ASSUME NEW k \in Lcores, Running(k) = Running(l) PROVE k = l
      <4>1. Running(k).owner = k /\ Running(l).owner = l  BY StatusFields
      <4> QED  BY <3>1, <4>1
    <3> QED  BY <2>1, <3>1
  <2>3. \A q, k \in Lcores : ~Deleting(q, t, k) /\ ~Linking(q, t, k) /\ ~Holding(q, t)
    <3>1. \A q \in Lcores : ~Holding(q, t)  BY <1>0, <2>1 DEF Held
    <3> QED  BY <3>1 DEF Deleting, Linking, Holding
  <2>4. \A k \in Lcores : t \notin ToSet(list[k]) /\ t \notin ToSet(scan[k])
    BY <1>0, <2>1, <2>3 DEF ListsFit, ScansFit
  <2>5. \A k \in Lcores : t \notin ToSet(run[k])
    <3>1. ASSUME NEW k \in Lcores, t \in ToSet(run[k]) PROVE FALSE
      <4>1. status[t] = Running(k)  BY <1>0, <3>1 DEF RunsFit
      <4> QED  BY <1>1, <2>2, <3>1, <4>1
    <3> QED  BY <3>1
  <2>6. \A k \in Lcores : k # l /\ mpc[k] = "callback" /\ ~updated[k] => running_tim[k] # t
    BY <1>0, <2>2 DEF RunsFit
  <2>7. \A k \in Lcores : mpc[k] = "rearm" /\ op[k] # NONE /\ op[k].pc = "config" => op[k].tim # t
    BY <1>0, <2>1, <2>3 DEF RearmsFit
  <2>8. CASE period[t] = 0
    <3>1. /\ status'[t] = Stopped /\ \A u \in Timers : u # t => status'[u] = status[u]
          /\ status' \in [Timers -> StatusWord]
      <4>1. status' = [status EXCEPT ![t] = Stopped]  BY <1>1, <1>8, <2>8 DEF CallbackEnd
      <4>2. status \in [Timers -> StatusWord]  BY <1>0 DEF TimerTypes
      <4> QED  BY <4>1, <4>2, WordsWritten
    <3>2. /\ mpc'[l] = "run" /\ \A k \in Lcores : k # l => mpc'[k] = mpc[k]
          /\ mpc' \in [Lcores -> {"idle", "lock", "scan", "run", "callback", "rearm"}]
      BY <1>0, <1>1, <1>8, <2>8 DEF CallbackEnd, TimerTypes
    <3>3. UNCHANGED <<lock, op>>  BY <1>1, <1>8, <2>8 DEF CallbackEnd
    <3>4. \A q, k \in Lcores, u \in Timers :
            /\ Deleting(q, u, k)' <=> Deleting(q, u, k)
            /\ Linking(q, u, k)' <=> Linking(q, u, k)
            /\ Holding(q, u)' <=> Holding(q, u)
            /\ Rearming(k, u)' <=> Rearming(k, u)
      BY <1>1, <3>2, <3>3 DEF Deleting, Linking, Holding, Rearming
    <3>5. \A k \in Lcores : status'[t] # Pending(k) /\ status'[t] # Config(k)
      BY <3>1, StatusFields
    <3>6. TimerTypes'  BY <1>0, <1>2, <1>3, <3>1, <3>2, <3>3 DEF TimerTypes
    <3>7. OpsFit'  BY <1>0, <1>1, <1>2, <3>2, <3>3 DEF OpsFit
    <3>8. Held'
      <4> SUFFICES ASSUME NEW k \in Lcores, NEW u \in Timers
                   PROVE  Holding(k, u)' <=> status'[u] = Config(k)
        BY DEF Held
      <4>1. CASE u = t  BY <2>3, <3>4, <3>5, <4>1
      <4>2. CASE u # t  BY <1>0, <3>1, <3>4, <4>2 DEF Held
      <4> QED  BY <4>1, <4>2
    <3>9. RearmsFit'
      <4> SUFFICES ASSUME NEW k \in Lcores, mpc'[k] = "rearm", op[k] # NONE
                   PROVE  /\ op[k].pc = "config" =>
                               \/ status'[op[k].tim] = Pending(k)
                               \/ \E q \in Lcores : Deleting(q, op[k].tim, k)'
                          /\ op[k].pc = "del" => op[k].prev = k
        BY <3>3 DEF RearmsFit
      <4>1. op'[k] = op[k] /\ op[k].tim \in Timers  BY <1>0, <3>3 DEF TimerTypes, Ops
      <4>2. mpc[k] = "rearm"  BY <3>2
      <4> QED  BY <1>0, <2>7, <3>1, <3>4, <4>1, <4>2 DEF RearmsFit
    <3>10. LocksFit'  BY <1>0, <1>1, <1>2, <3>2, <3>3 DEF LocksFit
    <3>11. ListsFit'  BY <1>0, <1>2, <1>4, <2>4, <3>1, <3>4 DEF ListsFit
    <3>12. ScansFit'  BY <1>0, <1>2, <1>4, <2>4, <3>1, <3>4 DEF ScansFit
    <3>13. RunsFit'
      <4>1. ASSUME NEW k \in Lcores
            PROVE  /\ \A u \in ToSet(run[k]) : status'[u] = Running(k)
                   /\ mpc'[k] = "callback" /\ ~updated[k] => status'[running_tim[k]] = Running(k)
        <5>1. \A u \in ToSet(run[k]) : status'[u] = Running(k)
          BY <1>0, <1>4, <2>5, <3>1 DEF RunsFit
        <5>2. ASSUME mpc'[k] = "callback", ~updated[k]
              PROVE  status'[running_tim[k]] = Running(k)
          <6>1. k # l /\ mpc[k] = "callback"  BY <3>2, <5>2
          <6> QED  BY <1>0, <2>6, <3>1, <5>2, <6>1 DEF RunsFit
        <5> QED  BY <5>1, <5>2
      <4> QED  BY <1>0, <1>1, <1>2, <3>2, <4>1 DEF RunsFit
    <3>14. PendingListed'
      <4> SUFFICES ASSUME NEW u \in Timers, NEW k \in Lcores, status'[u] = Pending(k)
                   PROVE  u \in ToSet(list[k]) \/ u \in ToSet(scan[k]) \/ Rearming(k, u)'
        BY <1>2 DEF PendingListed
      <4>1. status[u] = Pending(k)  BY <3>1, <3>5
      <4> QED  BY <1>0, <3>4, <4>1 DEF PendingListed
    <3>15. HeadsCached'  BY <1>0, <1>1, <1>2, <3>2, <3>3 DEF HeadsCached, Linking
    <3> QED
      BY <1>5, <3>6, <3>7, <3>8, <3>9, <3>10, <3>11, <3>12, <3>13, <3>14, <3>15 DEF TimerInv
  <2>9. CASE period[t] # 0
    <3>1. /\ status'[t] = Pending(l) /\ \A u \in Timers : u # t => status'[u] = status[u]
          /\ status' \in [Timers -> StatusWord]
      <4>1. status' = [status EXCEPT ![t] = Pending(l)]  BY <1>1, <1>8, <2>9 DEF CallbackEnd
      <4>2. status \in [Timers -> StatusWord]  BY <1>0 DEF TimerTypes
      <4> QED  BY <4>1, <4>2, WordsWritten
    <3>2. /\ mpc'[l] = "rearm" /\ \A k \in Lcores : k # l => mpc'[k] = mpc[k]
          /\ mpc' \in [Lcores -> {"idle", "lock", "scan", "run", "callback", "rearm"}]
      BY <1>0, <1>1, <1>8, <2>9 DEF CallbackEnd, TimerTypes
    <3>3. lock[l] = NONE /\ lock' = [lock EXCEPT ![l] = l]
      BY <1>1, <1>8, <2>9 DEF CallbackEnd
    <3>4. /\ lock'[l] = l /\ \A k \in Lcores : k # l => lock'[k] = lock[k]
          /\ lock' \in [Lcores -> Lcores \union {NONE}]
      <4>1. lock \in [Lcores -> Lcores \union {NONE}]  BY <1>0 DEF TimerTypes
      <4> QED  BY <3>3, <4>1
    <3>5. PICK o \in Ops :
            /\ op' = [op EXCEPT ![l] = o]
            /\ o # NONE /\ o.pc = "config" /\ o.kind = "reset" /\ o.tim = t
            /\ o.dest = l /\ o.locked
      <4> DEFINE o == NewOp("reset", t, expire[t] + period[t], period[t], l, TRUE)
      <4>1. op' = [op EXCEPT ![l] = o]  BY <1>1, <1>8, <2>9 DEF CallbackEnd
      <4>2. expire[t] + period[t] \in Nat /\ period[t] \in Nat  BY <1>0 DEF TimerTypes
      <4>3. /\ o \in Ops /\ o # NONE /\ o.pc = "config" /\ o.kind = "reset" /\ o.tim = t
            /\ o.dest = l /\ o.locked = TRUE
        <5>1. PICK b \in BOOLEAN : b = TRUE  OBVIOUS
        <5>2. PICK x : x = NewOp("reset", t, expire[t] + period[t], period[t], l, b)
          OBVIOUS
        <5>3. /\ x \in Ops /\ x # NONE /\ x.pc = "config" /\ x.kind = "reset" /\ x.tim = t
              /\ x.dest = l /\ x.locked = b
          BY <4>2, <5>2, NewOpIs
        <5> QED  BY <5>1, <5>2, <5>3, Zenon
      <4> HIDE DEF o
      <4> QED  BY <4>1, <4>3
    <3>6. op'[l] = o /\ \A k \in Lcores : k # l => op'[k] = op[k]
      BY <1>0, <3>5 DEF TimerTypes
    <3>7. \A q, k \in Lcores, u \in Timers :
            /\ Deleting(q, u, k)' <=> Deleting(q, u, k)
            /\ Linking(q, u, k)' <=> Linking(q, u, k)
            /\ Holding(q, u)' <=> Holding(q, u)
            /\ Rearming(k, u) => Rearming(k, u)'
      BY <1>1, <3>2, <3>5, <3>6 DEF Deleting, Linking, Holding, Rearming
    <3>8. \A k \in Lcores : status'[t] # Running(k) /\ status'[t] # Config(k)
      BY <3>1, StatusFields
    <3>9. TimerTypes'
      <4>1. op' \in [Lcores -> Ops \union {NONE}]
        <5>1. op \in [Lcores -> Ops \union {NONE}]  BY <1>0 DEF TimerTypes
        <5> QED  BY <3>5, <5>1
      <4> QED  BY <1>0, <1>2, <1>3, <3>1, <3>2, <3>4, <4>1 DEF TimerTypes
    <3>10. OpsFit'
      <4>1. ASSUME NEW k \in Lcores, k # l, op[k] # NONE
            PROVE  /\ mpc'[k] \in {"idle", "callback", "rearm"}
                   /\ op[k].locked <=> mpc'[k] = "rearm"
                   /\ mpc'[k] = "rearm" => op[k].dest = k /\ op[k].kind = "reset"
                   /\ op[k].kind = "reset" => op[k].dest \in Lcores
                   /\ op[k].pc = "del" => op[k].prev \in Lcores
                   /\ op[k].pc \in {"add", "pending"} => op[k].kind = "reset"
                   /\ op[k].pc = "stop" => op[k].kind = "stop"
                   /\ op[k].pc = "pending" =>
                        lock'[op[k].dest] = k /\ op[k].tim \in ToSet(list[op[k].dest])
        <5>1. op[k].pc = "pending" => op[k].dest \in Lcores /\ op[k].dest # l
          BY <1>0, <3>3, <4>1, TimerAssumption DEF OpsFit
        <5> QED  BY <1>0, <3>2, <3>4, <4>1, <5>1 DEF OpsFit
      <4>2. \A k \in Lcores : k # l => op'[k] = op[k]  BY <3>6
      <4>3. /\ op'[l].pc = "config" /\ op'[l].kind = "reset" /\ op'[l].dest = l
            /\ op'[l].locked /\ mpc'[l] = "rearm"
        BY <3>2, <3>5, <3>6
      <4> SUFFICES ASSUME NEW k \in Lcores, op'[k] # NONE
                   PROVE  /\ mpc'[k] \in {"idle", "callback", "rearm"}
                          /\ op'[k].locked <=> mpc'[k] = "rearm"
                          /\ mpc'[k] = "rearm" => op'[k].dest = k /\ op'[k].kind = "reset"
                          /\ op'[k].kind = "reset" => op'[k].dest \in Lcores
                          /\ op'[k].pc = "del" => op'[k].prev \in Lcores
                          /\ op'[k].pc \in {"add", "pending"} => op'[k].kind = "reset"
                          /\ op'[k].pc = "stop" => op'[k].kind = "stop"
                          /\ op'[k].pc = "pending" =>
                               /\ lock'[op'[k].dest] = k
                               /\ op'[k].tim \in ToSet(list'[op'[k].dest])
        BY DEF OpsFit
      <4>4. CASE k = l  BY <4>3, <4>4
      <4>5. CASE k # l  BY <1>2, <4>1, <4>2, <4>5
      <4> QED  BY <4>4, <4>5
    <3>11. Held'
      <4> SUFFICES ASSUME NEW k \in Lcores, NEW u \in Timers
                   PROVE  Holding(k, u)' <=> status'[u] = Config(k)
        BY DEF Held
      <4>1. CASE u = t  BY <2>3, <3>7, <3>8, <4>1
      <4>2. CASE u # t  BY <1>0, <3>1, <3>7, <4>2 DEF Held
      <4> QED  BY <4>1, <4>2
    <3>12. RearmsFit'
      <4> SUFFICES ASSUME NEW k \in Lcores, mpc'[k] = "rearm", op'[k] # NONE
                   PROVE  /\ op'[k].pc = "config" =>
                               \/ status'[op'[k].tim] = Pending(k)
                               \/ \E q \in Lcores : Deleting(q, op[k].tim, k)'
                          /\ op'[k].pc = "del" => op'[k].prev = k
        BY DEF RearmsFit
      <4>1. CASE k = l  BY <3>1, <3>5, <3>6, <4>1
      <4>2. CASE k # l
        <5>1. op'[k] = op[k] /\ op[k].tim \in Timers /\ mpc[k] = "rearm" /\ op[k] # NONE
          BY <1>0, <3>2, <3>6, <4>2 DEF TimerTypes, Ops
        <5> QED  BY <1>0, <2>7, <3>1, <3>7, <5>1 DEF RearmsFit
      <4> QED  BY <4>1, <4>2
    <3>13. LocksFit'  BY <1>0, <1>1, <1>2, <1>6, <3>2, <3>4 DEF LocksFit
    <3>14. ListsFit'  BY <1>0, <1>2, <1>4, <2>4, <3>1, <3>7 DEF ListsFit
    <3>15. ScansFit'  BY <1>0, <1>2, <1>4, <2>4, <3>1, <3>7 DEF ScansFit
    <3>16. RunsFit'
      <4>1. ASSUME NEW k \in Lcores
            PROVE  /\ \A u \in ToSet(run[k]) : status'[u] = Running(k)
                   /\ mpc'[k] = "callback" /\ ~updated[k] => status'[running_tim[k]] = Running(k)
        <5>1. \A u \in ToSet(run[k]) : status'[u] = Running(k)
          BY <1>0, <1>4, <2>5, <3>1 DEF RunsFit
        <5>2. ASSUME mpc'[k] = "callback", ~updated[k]
              PROVE  status'[running_tim[k]] = Running(k)
          <6>1. k # l /\ mpc[k] = "callback"  BY <3>2, <5>2
          <6> QED  BY <1>0, <2>6, <3>1, <5>2, <6>1 DEF RunsFit
        <5> QED  BY <5>1, <5>2
      <4> QED  BY <1>0, <1>1, <1>2, <3>2, <4>1 DEF RunsFit
    <3>17. PendingListed'
      <4> SUFFICES ASSUME NEW u \in Timers, NEW k \in Lcores, status'[u] = Pending(k)
                   PROVE  u \in ToSet(list[k]) \/ u \in ToSet(scan[k]) \/ Rearming(k, u)'
        BY <1>2 DEF PendingListed
      <4>1. CASE u = t
        <5>1. Pending(k) = Pending(l)  BY <3>1, <4>1
        <5>2. Pending(k).owner = k /\ Pending(l).owner = l  BY StatusFields
        <5>3. Rearming(l, t)'  BY <3>2, <3>5, <3>6 DEF Rearming
        <5> QED  BY <4>1, <5>1, <5>2, <5>3
      <4>2. CASE u # t  BY <1>0, <3>1, <3>7, <4>2 DEF PendingListed
      <4> QED  BY <4>1, <4>2
    <3>18. HeadsCached'
      <4> SUFFICES ASSUME NEW k \in Lcores, mpc'[k] # "scan",
                          \A q \in Lcores, u \in Timers : ~Linking(q, u, k)'
                   PROVE  head_expire[k] = FirstBy(list[k], expire)
        BY <1>2 DEF HeadsCached
      <4>1. mpc[k] # "scan" /\ \A q \in Lcores, u \in Timers : ~Linking(q, u, k)
        BY <1>1, <3>2, <3>7
      <4> QED  BY <1>0, <4>1 DEF HeadsCached
    <3> QED
      BY <1>5, <3>9, <3>10, <3>11, <3>12, <3>13, <3>14, <3>15, <3>16, <3>17, <3>18
      DEF TimerInv
  <2> QED  BY <2>8, <2>9
<1> QED  BY <1>7, <1>8

(* The timers begin stopped, in empty lists nobody has locked. *)
LEMMA TimerInitInv ==
  ASSUME TimerInit
  PROVE  TimerInv
<1>0. NONE \notin Lcores /\ NONE \notin Timers  BY TimerAssumption
<1>1. TimerTypes
  <2>1. Stopped \in StatusWord /\ << >> \in Seq(Timers)  BY WordsWritten, EmptyList
  <2>2. updated \in [Lcores -> BOOLEAN]  BY Zenon DEF TimerInit
  <2> QED  BY <2>1, <2>2 DEF TimerInit, TimerTypes
<1>2. \A k \in Lcores :
        /\ op[k] = NONE /\ mpc[k] = "idle" /\ scan[k] = << >> /\ run[k] = << >>
        /\ list[k] = << >> /\ lock[k] = NONE /\ head_expire[k] = 0
        /\ running_tim[k] = NONE
  BY DEF TimerInit
<1>3. \A t \in Timers : status[t] = Stopped  BY DEF TimerInit
<1>4. \A t \in Timers, k \in Lcores : status[t] # Pending(k) /\ status[t] # Config(k)
  BY <1>3, StatusFields
<1>5. OpsFit /\ RearmsFit  BY <1>2 DEF OpsFit, RearmsFit
<1>6. Held  BY <1>2, <1>4 DEF Held, Holding
<1>7. LocksFit  BY <1>2 DEF LocksFit
<1>8. ListsFit /\ ScansFit  BY <1>2, EmptyList DEF ListsFit, ScansFit
<1>9. RunsFit  BY <1>2, EmptyList DEF RunsFit
<1>10. PendingListed  BY <1>4 DEF PendingListed
<1>11. ListsOrdered /\ HeadsCached  BY <1>2, EmptyList DEF ListsOrdered, HeadsCached
<1> QED
  BY <1>1, <1>5, <1>6, <1>7, <1>8, <1>9, <1>10, <1>11 DEF TimerInv

(* rte_timer_reset and rte_timer_stop begin with a call that fits. *)
LEMMA BeginKeepsInv ==
  ASSUME TimerInv, NEW l \in Lcores, ResetBegin(l) \/ StopBegin(l)
  PROVE  TimerInv'
<1>0. now \in Nat  BY DEF TimerInv, TimerTypes
<1>1. PICK b \in BOOLEAN : b = FALSE  OBVIOUS
<1>2. CASE ResetBegin(l)
  <2>1. PICK t \in Timers, d \in Ticks, dest \in Lcores : \E p \in {0, d} :
          CallsTimer(l, NewOp("reset", t, now + d, p, dest, FALSE))
    BY <1>2 DEF ResetBegin
  <2>2. PICK p \in {0, d} : CallsTimer(l, NewOp("reset", t, now + d, p, dest, FALSE))
    BY <2>1
  <2>3. d \in Nat /\ now + d \in Nat /\ p \in Nat  BY <1>0, TimerAssumption
  <2>4. PICK o : o = NewOp("reset", t, now + d, p, dest, b)  OBVIOUS
  <2>5. o \in Ops /\ o.pc = "config" /\ o.dest = dest /\ o.locked = b
    BY <2>3, <2>4, NewOpIs
  <2>6. ~o.locked  BY <1>1, <2>5
  <2>7. CallsTimer(l, o)  BY <1>1, <2>2, <2>4, Zenon
  <2> QED  BY <2>5, <2>6, <2>7, CallKeepsInv
<1>3. CASE StopBegin(l)
  <2>1. PICK t \in Timers : CallsTimer(l, NewOp("stop", t, 0, 0, NONE, FALSE))
    BY <1>3 DEF StopBegin
  <2>2. PICK o : o = NewOp("stop", t, 0, 0, NONE, b)  OBVIOUS
  <2>3. o \in Ops /\ o.pc = "config" /\ o.kind = "stop" /\ o.locked = b
    BY <2>2 DEF NewOp, Ops
  <2>4. ~o.locked /\ o.kind # "reset"  BY <1>1, <2>3
  <2>5. CallsTimer(l, o)  BY <1>1, <2>1, <2>2, Zenon
  <2> QED  BY <2>3, <2>4, <2>5, CallKeepsInv
<1> QED  BY <1>2, <1>3

(* The library's steps and the users' calls all keep the invariant. *)
THEOREM TimerInvHolds == TimerSpec => []TimerInv
<1>1. TimerInit => TimerInv  BY TimerInitInv
<1>2. TimerInv /\ [TimerNext]_timerVars => TimerInv'
  <2> SUFFICES ASSUME TimerInv, [TimerNext]_timerVars
               PROVE  TimerInv'
    OBVIOUS
  <2>1. CASE Tick  BY <2>1, TickKeepsInv
  <2>2. ASSUME NEW l \in Lcores, ResetBegin(l) \/ StopBegin(l)
        PROVE  TimerInv'
    BY <2>2, BeginKeepsInv
  <2>3. ASSUME NEW l \in Lcores, ManageBegin(l)
        PROVE  TimerInv'
    BY <2>3, ManageBeginKeepsInv
  <2>4. ASSUME NEW l \in Lcores, OpStep(l)
        PROVE  TimerInv'
    <3>1. CASE SetConfigState(l)
      <4>1. ConfigRefused(l) \/ ConfigGranted(l)  BY <3>1 DEF SetConfigState
      <4> QED  BY <3>1, <4>1, RefusalKeepsInv, GrantKeepsInv
    <3>2. CASE Del(l)  BY <3>2, DelKeepsInv
    <3>3. CASE Add(l)  BY <3>3, AddKeepsInv
    <3>4. CASE SetPending(l)  BY <3>4, SetPendingKeepsInv
    <3>5. CASE SetStopped(l)  BY <3>5, SetStoppedKeepsInv
    <3> QED  BY <2>4, <3>1, <3>2, <3>3, <3>4, <3>5 DEF OpStep
  <2>5. ASSUME NEW l \in Lcores, ManageStep(l)
        PROVE  TimerInv'
    <3>1. CASE Break(l)  BY <3>1, BreakKeepsInv
    <3>2. CASE MarkRunning(l)  BY <3>2, MarkRunningKeepsInv
    <3>3. CASE ScanEnd(l)  BY <3>3, ScanEndKeepsInv
    <3>4. CASE CallbackBegin(l)  BY <3>4, CallbackBeginKeepsInv
    <3>5. CASE CallbackEnd(l)  BY <3>5, CallbackEndKeepsInv
    <3>6. CASE RearmEnd(l)  BY <3>6, RearmEndKeepsInv
    <3>7. CASE ManageEnd(l)  BY <3>7, ManageEndKeepsInv
    <3> QED  BY <2>5, <3>1, <3>2, <3>3, <3>4, <3>5, <3>6, <3>7 DEF ManageStep
  <2>6. CASE UNCHANGED timerVars
    <3>0. /\ TimerTypes /\ OpsFit /\ Held /\ RearmsFit /\ LocksFit /\ ListsFit /\ ScansFit
          /\ RunsFit /\ PendingListed /\ ListsOrdered /\ HeadsCached
      BY DEF TimerInv
    <3> USE <2>6 DEF timerVars, statusVars, listVars, manageVars
    <3>1. TimerTypes'  BY <3>0 DEF TimerTypes
    <3>2. OpsFit'  BY <3>0 DEF OpsFit
    <3>3. Held' /\ RearmsFit'  BY <3>0 DEF Held, RearmsFit, Holding, Deleting
    <3>4. LocksFit' /\ ListsFit' /\ ScansFit'
      BY <3>0 DEF LocksFit, ListsFit, ScansFit, Deleting, Linking
    <3>5. RunsFit' /\ PendingListed'  BY <3>0 DEF RunsFit, PendingListed, Rearming
    <3>6. ListsOrdered' /\ HeadsCached'  BY <3>0 DEF ListsOrdered, HeadsCached, Linking
    <3> QED  BY <3>1, <3>2, <3>3, <3>4, <3>5, <3>6 DEF TimerInv
  <2> QED  BY <2>1, <2>2, <2>3, <2>4, <2>5, <2>6 DEF TimerNext, LcoreStep
<1> QED  BY <1>1, <1>2, PTL DEF TimerSpec

(* Whoever holds a timer's status word, nobody holds a list that is        *)
(* unlocked: its lcore is not walking it or setting a timer again, and no  *)
(* call is between linking a timer and marking it pending.                 *)
LEMMA Unlocked ==
  ASSUME TimerInv, NEW l \in Lcores, lock[l] = NONE
  PROVE  /\ mpc[l] \notin {"scan", "rearm"} /\ ToSet(scan[l]) = {}
         /\ \A q \in Lcores, u \in Timers : ~Linking(q, u, l)
<1>1. OpsFit /\ LocksFit  BY DEF TimerInv
<1>2. mpc[l] \notin {"scan", "rearm"} /\ scan[l] = << >>
  BY <1>1, TimerAssumption DEF LocksFit
<1>3. \A q \in Lcores, u \in Timers : ~Linking(q, u, l)
  BY <1>1, TimerAssumption DEF OpsFit, Linking
<1> QED  BY <1>2, <1>3, EmptyList

(* A timer that is being taken out of a list, or put into one, is in the   *)
(* configuration state, held by the lcore that does so.                    *)
LEMMA ListWork ==
  ASSUME TimerInv, NEW q \in Lcores, NEW k \in Lcores, NEW t \in Timers,
         Deleting(q, t, k) \/ Linking(q, t, k)
  PROVE  Holding(q, t) /\ status[t] = Config(q)
<1>1. Holding(q, t)  BY DEF Deleting, Linking, Holding
<1> QED  BY <1>1 DEF TimerInv, Held

(* rte_timer.c's status words and lists agree, for any number of lcores    *)
(* and timers.                                                             *)
THEOREM TimerListsMatchStatus == TimerSpec => []ListsMatchStatus
<1>1. TimerInv => ListsMatchStatus
  <2> SUFFICES ASSUME TimerInv PROVE ListsMatchStatus  OBVIOUS
  <2>0. TimerTypes /\ Held /\ ListsFit /\ RunsFit /\ PendingListed  BY DEF TimerInv
  <2>1. ASSUME NEW l \in Lcores, lock[l] = NONE, NEW t \in Timers
        PROVE  /\ status[t] = Pending(l) => t \in ToSet(list[l])
               /\ t \in ToSet(list[l]) =>
                    status[t] = Pending(l) \/ (status[t].state = "config" /\ Removing(t, l))
    <3>1. /\ mpc[l] \notin {"scan", "rearm"} /\ ToSet(scan[l]) = {}
          /\ \A q \in Lcores, u \in Timers : ~Linking(q, u, l)
      BY <2>1, Unlocked
    <3>2. status[t] = Pending(l) => t \in ToSet(list[l])
      BY <2>0, <3>1 DEF PendingListed, Rearming
    <3>3. ASSUME t \in ToSet(list[l]), status[t] # Pending(l)
          PROVE  status[t].state = "config" /\ Removing(t, l)
      <4>1. PICK q \in Lcores : Deleting(q, t, l)  BY <2>0, <3>1, <3>3 DEF ListsFit
      <4>2. status[t] = Config(q)  BY <4>1, ListWork
      <4> QED  BY <4>1, <4>2, StatusFields DEF Deleting, Removing
    <3> QED  BY <3>2, <3>3
  <2>2. ASSUME NEW l \in Lcores, NEW t \in ToSet(run[l])
        PROVE  status[t] = Running(l) /\ \A k \in Lcores : t \notin ToSet(list[k])
    <3>1. t \in Timers  BY <2>0, ListedTimers
    <3>2. status[t] = Running(l)  BY <2>0 DEF RunsFit
    <3>3. \A k \in Lcores : status[t] # Pending(k) /\ status[t] # Config(k)
      BY <3>2, StatusFields
    <3>4. ASSUME NEW k \in Lcores, t \in ToSet(list[k]) PROVE FALSE
      <4>1. PICK q \in Lcores : Deleting(q, t, k) \/ Linking(q, t, k)
        BY <2>0, <3>3, <3>4 DEF ListsFit
      <4> QED  BY <3>1, <3>3, <4>1, ListWork
    <3> QED  BY <3>2, <3>4
  <2>3. ASSUME NEW t \in Timers, NEW k \in Lcores, NEW l \in Lcores, k # l,
               t \in ToSet(list[k]), t \in ToSet(list[l])
        PROVE  FALSE
    <3>1. /\ status[t] = Pending(k) \/ \E q \in Lcores : Deleting(q, t, k) \/ Linking(q, t, k)
          /\ status[t] = Pending(l) \/ \E q \in Lcores : Deleting(q, t, l) \/ Linking(q, t, l)
      BY <2>0, <2>3 DEF ListsFit
    <3>2. CASE status[t] = Pending(k)
      <4>1. status[t].owner = k /\ \A q \in Lcores : status[t] # Config(q)
        BY <3>2, StatusFields
      <4>2. status[t] = Pending(l)  BY <3>1, <4>1, ListWork
      <4>3. Pending(l).owner = l  BY StatusFields
      <4> QED  BY <2>3, <4>1, <4>2, <4>3
    <3>3. CASE status[t] # Pending(k)
      <4>1. PICK q \in Lcores : Deleting(q, t, k) \/ Linking(q, t, k)  BY <3>1, <3>3
      <4>2. Holding(q, t) /\ status[t] = Config(q)  BY <4>1, ListWork
      <4>3. status[t] # Pending(l)  BY <4>2, StatusFields
      <4>4. PICK o \in Lcores : Deleting(o, t, l) \/ Linking(o, t, l)  BY <3>1, <4>3
      <4>5. o = q  BY <2>0, <4>2, <4>4, OneHolder
      <4> QED  BY <2>3, <4>1, <4>4, <4>5 DEF Deleting, Linking
    <3> QED  BY <3>2, <3>3
  <2> QED  BY <2>1, <2>2, <2>3 DEF ListsMatchStatus
<1> QED  BY <1>1, TimerInvHolds, PTL

(* A timer whose stop succeeded is not referenced by any list or callback  *)
(* bookkeeping of any lcore.                                               *)
THEOREM TimerStoppedUnreferenced == TimerSpec => []StoppedUnreferenced
<1>1. TimerInv => StoppedUnreferenced
  <2> SUFFICES ASSUME TimerInv, NEW t \in Timers, status[t] = Stopped, NEW l \in Lcores
               PROVE  /\ t \notin ToSet(list[l]) \union ToSet(scan[l]) \union ToSet(run[l])
                      /\ mpc[l] = "callback" /\ running_tim[l] = t => updated[l]
    BY DEF StoppedUnreferenced
  <2>0. ListsFit /\ ScansFit /\ RunsFit  BY DEF TimerInv
  <2>1. \A k \in Lcores : status[t] # Pending(k) /\ status[t] # Config(k) /\ status[t] # Running(k)
    BY StatusFields
  <2>2. \A q \in Lcores : ~Deleting(q, t, l) /\ ~Linking(q, t, l)  BY <2>1, ListWork
  <2>3. t \notin ToSet(list[l])  BY <2>0, <2>1, <2>2 DEF ListsFit
  <2>4. t \notin ToSet(scan[l])  BY <2>0, <2>1, <2>2 DEF ScansFit
  <2>5. t \notin ToSet(run[l])  BY <2>0, <2>1 DEF RunsFit
  <2>6. mpc[l] = "callback" /\ running_tim[l] = t => updated[l]  BY <2>0, <2>1 DEF RunsFit
  <2> QED  BY <2>3, <2>4, <2>5, <2>6
<1> QED  BY <1>1, TimerInvHolds, PTL

(* The expiry that rte_timer_manage checks outside the lock is the         *)
(* earliest of the list.                                                   *)
THEOREM TimerFirstExpiryCached == TimerSpec => []FirstExpiryCached
<1>1. TimerInv => FirstExpiryCached
  <2> SUFFICES ASSUME TimerInv, NEW l \in Lcores, lock[l] = NONE
               PROVE  /\ head_expire[l] = First(list[l])
                      /\ \A i, j \in DOMAIN list[l] :
                           i < j => /\ list[l][i] # list[l][j]
                                    /\ expire[list[l][i]] <= expire[list[l][j]]
    BY DEF FirstExpiryCached
  <2>0. ListsOrdered /\ HeadsCached  BY DEF TimerInv
  <2>1. mpc[l] # "scan" /\ \A q \in Lcores, u \in Timers : ~Linking(q, u, l)  BY Unlocked
  <2>2. head_expire[l] = First(list[l])  BY <2>0, <2>1 DEF HeadsCached, First, FirstBy
  <2>3. OrderedBy(list[l], expire)  BY <2>0 DEF ListsOrdered
  <2> QED  BY <2>2, <2>3 DEF OrderedBy
<1> QED  BY <1>1, TimerInvHolds, PTL

=============================================================================
