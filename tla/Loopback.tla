------------------------------- MODULE Loopback -------------------------------
(***************************************************************************)
(* The loopback backend (loopback_queue.c): a ring of Size descriptors     *)
(* with head, tail and a count, filled and emptied by one process, and     *)
(* the destruction of a queue by the library (queue_interface.c).          *)
(*                                                                         *)
(* The register, deregister, notify and control handlers of this backend   *)
(* change nothing and have no action.                                      *)
(***************************************************************************)
EXTENDS Integers, Sequences

CONSTANTS
  Size,  \* LOOPBACK_QUEUE_SIZE
  Msgs,  \* the descriptors
  NULL

ASSUME LoopbackAssumption ==
  /\ Size \in Nat \ {0}
  /\ NULL \notin Msgs

VARIABLES
  queue, head, tail, num_ele,
  got,     \* the descriptor the last dequeue returned
  memory,  \* the struct loopback_queue: "live" or "freed"
  pool     \* its region pool: "live", "destroyed", or "fault"

ring == <<queue, head, tail, num_ele, got>>
vars == <<queue, head, tail, num_ele, got, memory, pool>>

Slots == 0 .. Size - 1

(* loopback_queue_create, on zeroed memory. *)
Init ==
  /\ queue = [i \in Slots |-> NULL]
  /\ head = 0 /\ tail = 0 /\ num_ele = 0
  /\ got = NULL
  /\ memory = "live" /\ pool = "live"

Advance(i) == (i + 1) % Size

(* loopback_enqueue *)
FullNever == FALSE

Full == num_ele = Size

Enqueue(m) ==
  /\ memory = "live"
  /\ ~Full
  /\ queue' = [queue EXCEPT ![head] = m]
  /\ head' = Advance(head)
  /\ num_ele' = num_ele + 1
  /\ UNCHANGED <<tail, got, memory, pool>>

(* loopback_dequeue *)
Dequeue ==
  /\ memory = "live"
  /\ num_ele # 0
  /\ got' = queue[tail]
  /\ tail' = Advance(tail)
  /\ num_ele' = num_ele - 1
  /\ UNCHANGED <<queue, head, memory, pool>>

(* cleanq_destroy calls loopback_destroy, which frees the queue ...        *)
DestroyQueue ==
  /\ memory = "live"
  /\ memory' = "freed"
  /\ UNCHANGED <<ring, pool>>

(* ... and then destroys the pool it finds in the queue.  Freed memory may *)
(* still hold the pointer, or anything.                                    *)
DestroyPool ==
  /\ memory = "freed" /\ pool = "live"
  /\ pool' \in {"destroyed", "fault"}
  /\ UNCHANGED <<ring, memory>>

Next ==
  \/ \E m \in Msgs : Enqueue(m)
  \/ Dequeue
  \/ DestroyQueue
  \/ DestroyPool

Spec == Init /\ [][Next]_vars

(***************************************************************************)
(* Properties.                                                             *)
(***************************************************************************)

(* The three ways the ring's fill is recorded agree: head is num_ele slots *)
(* ahead of tail, so the count alone tells a full ring from an empty one.  *)
TypeOK ==
  /\ queue \in [Slots -> Msgs \union {NULL}]
  /\ head \in Slots /\ tail \in Slots
  /\ num_ele \in 0 .. Size
  /\ head = (tail + num_ele) % Size
  /\ got \in Msgs \union {NULL}
  /\ memory \in {"live", "freed"}
  /\ pool \in {"live", "destroyed", "fault"}

(* The descriptors from tail on, oldest first. *)
Contents == [k \in 1 .. num_ele |-> queue[(tail + (k - 1)) % Size]]

Fifo == INSTANCE FifoChannel WITH chan <- Contents, Cap <- Size

(* The ring implements a FIFO channel of all Size slots: every descriptor  *)
(* enqueued is dequeued once, unchanged and in order, across every wrap of *)
(* head and tail.                                                          *)
ImplementsFifo == Fifo!Spec

=============================================================================
