-------------------------------- MODULE RteRing --------------------------------
(***************************************************************************)
(* The lock-free ring of DPDK (rte_ring.h, rte_ring_generic.h), through    *)
(* which its mempools hand out every packet buffer.  Each side, "prod" and *)
(* "cons", has a head, which a call moves to reserve slots, and a tail,    *)
(* which it moves to publish them once they are copied.  The indices run   *)
(* modulo U32 and are masked to find a slot.                               *)
(*                                                                         *)
(* A thread's call is a sequence of steps, one per access to shared        *)
(* memory, and any other thread may run between two of them.  The copy of  *)
(* the pointers is one step: Reservations shows that no other thread       *)
(* touches those slots meanwhile.  The barriers of the code make the order *)
(* of the accesses the program's, so memory is sequentially consistent.    *)
(***************************************************************************)
EXTENDS Integers, Sequences

CONSTANTS
  Threads,               \* the lcores that use the ring
  Size,                  \* slots, a power of two
  Capacity,              \* usable slots: Size - 1, or less with RING_F_EXACT_SZ
  U32,                   \* the range of an index, a multiple of Size
  Objs,                  \* the object pointers
  Calls(_),              \* the calls a thread makes
  NULL

Sides == {"prod", "cons"}

(* A call: an enqueue ("prod") of the objects objs, or a dequeue ("cons")  *)
(* of max objects; bulk calls are RTE_RING_QUEUE_FIXED, burst calls        *)
(* _VARIABLE; the sp and sc functions are single.                          *)
Call == [side : Sides, objs : Seq(Objs), max : Nat \ {0},
         fixed : BOOLEAN, single : BOOLEAN]

ASSUME RingAssumption ==
  /\ Size \in Nat \ {0} /\ Capacity \in 1 .. Size - 1
  /\ U32 \in Nat /\ U32 % Size = 0 /\ U32 >= 2 * Size
  /\ NULL \notin Objs
  /\ \A t \in Threads : Calls(t) \subseteq Call
  /\ \A t \in Threads : \A c \in Calls(t) :
       IF c.side = "prod" THEN Len(c.objs) = c.max ELSE c.objs = << >>

VARIABLES
  ring,        \* the slots
  head, tail,  \* per side
  pc,          \* per thread: the access to shared memory it does next
  call,        \* per thread: its call in progress
  old_head,    \* per thread: the head it read
  n,           \* per thread: the slots it reserves
  table        \* per thread: the objects it dequeued

vars == <<ring, head, tail, pc, call, old_head, n, table>>

Side(t) == call[t].side

(* rte_ring_init *)
Init ==
  /\ ring = [i \in 0 .. Size - 1 |-> NULL]
  /\ head = [s \in Sides |-> 0]
  /\ tail = [s \in Sides |-> 0]
  /\ pc = [t \in Threads |-> "idle"]
  /\ call = [t \in Threads |-> NULL]
  /\ old_head = [t \in Threads |-> 0]
  /\ n = [t \in Threads |-> 0]
  /\ table = [t \in Threads |-> << >>]

Goto(t, l) == pc' = [pc EXCEPT ![t] = l]

(* A call ends; its locals are gone. *)
Return(t) ==
  /\ Goto(t, "idle")
  /\ call' = [call EXCEPT ![t] = NULL]
  /\ old_head' = [old_head EXCEPT ![t] = 0]
  /\ n' = [n EXCEPT ![t] = 0]
  /\ table' = [table EXCEPT ![t] = << >>]

(* The sp and sc functions are "NOT multi-producers safe": a caller uses   *)
(* them only while no other thread is on its side of the ring.             *)
MayCall(t, c) ==
  \A u \in Threads \ {t} :
    pc[u] # "idle" /\ Side(u) = c.side => ~c.single /\ ~call[u].single

(* A call begins; its first access to the ring is the read of the head. *)
Begin(t) ==
  /\ pc[t] = "idle"
  /\ \E c \in Calls(t) :
       /\ MayCall(t, c)
       /\ call' = [call EXCEPT ![t] = c]
       /\ old_head' = [old_head EXCEPT ![t] = head[c.side]]
  /\ Goto(t, "tail")
  /\ UNCHANGED <<ring, head, tail, n, table>>

(* The head is read again after a failed compare-and-set. *)
ReadHead(t) ==
  /\ pc[t] = "head"
  /\ old_head' = [old_head EXCEPT ![t] = head[Side(t)]]
  /\ n' = [n EXCEPT ![t] = 0]
  /\ Goto(t, "tail")
  /\ UNCHANGED <<ring, head, tail, call, table>>

(* How far index b is ahead of index a. *)
Ahead(a, b) == (b - a) % U32

(* The slots this thread may still reserve, by the tail of the other side. *)
FreeEntriesByHead(old) == (Capacity + head["cons"] - old) % U32

FreeEntries(old) == (Capacity + tail["cons"] - old) % U32

Entries(old) == Ahead(old, tail["prod"])

Avail(t) ==
  IF Side(t) = "prod" THEN FreeEntries(old_head[t]) ELSE Entries(old_head[t])

(* A request for more than that is refused, or cut if it is a burst. *)
Granted(c, avail) ==
  IF c.max <= avail THEN c.max ELSE IF c.fixed THEN 0 ELSE avail

ReadTail(t) ==
  LET k == Granted(call[t], Avail(t)) IN
  /\ pc[t] = "tail"
  /\ IF k = 0
       THEN Return(t)
       ELSE /\ n' = [n EXCEPT ![t] = k]
            /\ Goto(t, "cas")
            /\ UNCHANGED <<call, old_head, table>>
  /\ UNCHANGED <<ring, head, tail>>

(* The bound on suspension: while a thread is between its read of the head *)
(* and its compare-and-set, the others do not move that head U32 positions *)
(* (2^32 objects), so an equal head is an unmoved one.                     *)
InLoop(t, s) == pc[t] \in {"tail", "cas"} /\ Side(t) = s

NoneOvertaken(t) ==
  \A u \in Threads \ {t} :
    InLoop(u, Side(t)) => Ahead(old_head[u], head[Side(t)]) + n[t] < U32

(* The head is moved by a compare-and-set, by a store if single; another   *)
(* thread's move sends this one back to read it again.                     *)
MoveHeadStores(t) ==
  /\ pc[t] = "cas"
  /\ NoneOvertaken(t)
  /\ head' = [head EXCEPT ![Side(t)] = (old_head[t] + n[t]) % U32]
  /\ Goto(t, "copy")
  /\ UNCHANGED <<ring, tail, call, old_head, n, table>>

MoveHead(t) ==
  /\ pc[t] = "cas"
  /\ \/ /\ call[t].single \/ head[Side(t)] = old_head[t]
        /\ NoneOvertaken(t)
        /\ head' = [head EXCEPT ![Side(t)] = (old_head[t] + n[t]) % U32]
        /\ Goto(t, "copy")
     \/ /\ ~call[t].single /\ head[Side(t)] # old_head[t]
        /\ Goto(t, "head")
        /\ UNCHANGED head
  /\ UNCHANGED <<ring, tail, call, old_head, n, table>>

(* The slots from index from on, and what they hold. *)
SlotsOf(from, k) == [i \in 1 .. k |-> (from + (i - 1)) % Size]
Contents(from, k) == [i \in 1 .. k |-> ring[SlotsOf(from, k)[i]]]

(* ENQUEUE_PTRS *)
CopyIn(t) ==
  /\ pc[t] = "copy" /\ Side(t) = "prod"
  /\ LET slots == SlotsOf(old_head[t], n[t]) IN
     ring' = [s \in DOMAIN ring |->
                IF \E i \in DOMAIN slots : slots[i] = s
                  THEN call[t].objs[CHOOSE i \in DOMAIN slots : slots[i] = s]
                  ELSE ring[s]]
  /\ Goto(t, "publish")
  /\ UNCHANGED <<head, tail, call, old_head, n, table>>

(* DEQUEUE_PTRS *)
CopyOut(t) ==
  /\ pc[t] = "copy" /\ Side(t) = "cons"
  /\ table' = [table EXCEPT ![t] = Contents(old_head[t], n[t])]
  /\ Goto(t, "publish")
  /\ UNCHANGED <<ring, head, tail, call, old_head, n>>

(* update_tail: a call that is not single waits for the calls that         *)
(* reserved before it to publish.                                          *)
UpdateTailAtOnce(t) ==
  /\ pc[t] = "publish"
  /\ tail' = [tail EXCEPT ![Side(t)] = (old_head[t] + n[t]) % U32]
  /\ Return(t)
  /\ UNCHANGED <<ring, head>>

UpdateTailByRequest(t) ==
  /\ pc[t] = "publish"
  /\ call[t].single \/ tail[Side(t)] = old_head[t]
  /\ tail' = [tail EXCEPT ![Side(t)] = (old_head[t] + call[t].max) % U32]
  /\ Return(t)
  /\ UNCHANGED <<ring, head>>

UpdateTail(t) ==
  /\ pc[t] = "publish"
  /\ call[t].single \/ tail[Side(t)] = old_head[t]
  /\ tail' = [tail EXCEPT ![Side(t)] = (old_head[t] + n[t]) % U32]
  /\ Return(t)
  /\ UNCHANGED <<ring, head>>

Step(t) ==
  \/ ReadHead(t)
  \/ ReadTail(t)
  \/ MoveHead(t)
  \/ CopyIn(t)
  \/ CopyOut(t)
  \/ UpdateTail(t)

Next == \E t \in Threads : Begin(t) \/ Step(t)

(* A call in progress keeps running: the ring's users are lcores, and      *)
(* preempting one inside a call is ruled out by the programmer's guide     *)
(* (env_abstraction_layer.rst:463).  No thread has to make another call.   *)
Spec == Init /\ [][Next]_vars /\ \A t \in Threads : WF_vars(Step(t))

(***************************************************************************)
(* Properties.                                                             *)
(***************************************************************************)

Reserved(s) == {t \in Threads : pc[t] \in {"copy", "publish"} /\ Side(t) = s}

(* The positions a reservation covers, counted from the side's tail. *)
Span(t) ==
  LET from == Ahead(tail[Side(t)], old_head[t]) IN from .. from + n[t] - 1

(* The reservations of a side are disjoint and together are exactly what   *)
(* lies between its tail and its head, so a side at rest has head = tail   *)
(* and no slot is lost; and the consumers' reservations, the published     *)
(* objects and the producers' reservations, one behind the other, never    *)
(* exceed the capacity, so no two of them share a slot, across every wrap  *)
(* of the indices.                                                         *)
Reservations ==
  /\ \A s \in Sides :
       /\ UNION {Span(t) : t \in Reserved(s)} = 0 .. Ahead(tail[s], head[s]) - 1
       /\ \A t, u \in Reserved(s) : t # u => Span(t) \intersect Span(u) = {}
  /\ Ahead(tail["cons"], head["cons"]) + Ahead(head["cons"], tail["prod"])
       + Ahead(tail["prod"], head["prod"]) <= Capacity

Fifo == INSTANCE BatchFifo WITH
  queue <- Contents(head["cons"], Ahead(head["cons"], tail["prod"])),
  offer <- [t \in Threads |-> IF pc[t] = "idle" THEN << >> ELSE call[t].objs],
  taken <- [t \in Threads |-> IF pc[t] = "copy" /\ Side(t) = "cons"
                                THEN Contents(old_head[t], n[t]) ELSE table[t]],
  Cap <- Capacity

(* The ring is a FIFO queue of batches: an enqueue takes effect when the   *)
(* tail passes its slots, whole and in one piece, a dequeue when it moves  *)
(* the consumers' head, and what a consumer copies is what was there then, *)
(* whatever the other threads do in between.                               *)
RingIsFifo == Fifo!Spec

(* A thread that has reserved slots publishes them and returns: the wait   *)
(* for earlier reservations never becomes a circle.                        *)
ReservationsPublished ==
  \A t \in Threads : pc[t] = "copy" ~> pc[t] = "idle"

=============================================================================
