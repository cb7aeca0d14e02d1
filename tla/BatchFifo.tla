------------------------------- MODULE BatchFifo -------------------------------
(***************************************************************************)
(* What a ring promises its callers: a bounded queue shared by several     *)
(* producers and consumers.  A call moves a whole batch at once: an        *)
(* accepted enqueue appends a prefix of the objects offered, a dequeue     *)
(* takes the oldest ones, and what a consumer took does not change while   *)
(* its call is still copying it.                                           *)
(***************************************************************************)
EXTENDS Naturals, Sequences

CONSTANTS
  Threads,  \* its users
  Objs,     \* the object pointers
  Cap       \* the most objects in the ring

VARIABLES
  queue,    \* the objects in the ring, oldest first
  offer,    \* per thread, the objects its enqueue in progress offers
  taken     \* per thread, the objects its dequeue in progress took

Init ==
  /\ queue = << >>
  /\ offer = [t \in Threads |-> << >>]
  /\ taken = [t \in Threads |-> << >>]

(* An enqueue begins, with at least one object. *)
Offer(t) ==
  /\ offer[t] = << >>
  /\ offer'[t] # << >>
  /\ offer' = [offer EXCEPT ![t] = offer'[t]]
  /\ UNCHANGED <<queue, taken>>

(* It ends having appended the first k objects; k = 0 is a refusal. *)
Put(t, k) ==
  /\ offer[t] # << >>
  /\ Len(queue) + k <= Cap
  /\ queue' = queue \o SubSeq(offer[t], 1, k)
  /\ offer' = [offer EXCEPT ![t] = << >>]
  /\ UNCHANGED taken

(* A dequeue takes the k oldest objects ... *)
Take(t, k) ==
  /\ taken[t] = << >>
  /\ taken' = [taken EXCEPT ![t] = SubSeq(queue, 1, k)]
  /\ queue' = SubSeq(queue, k + 1, Len(queue))
  /\ UNCHANGED offer

(* ... and hands them to its caller. *)
HandOver(t) ==
  /\ taken[t] # << >>
  /\ taken' = [taken EXCEPT ![t] = << >>]
  /\ UNCHANGED <<queue, offer>>

Next ==
  \E t \in Threads :
    \/ Offer(t)
    \/ \E k \in 0 .. Len(offer[t]) : Put(t, k)
    \/ \E k \in 1 .. Len(queue) : Take(t, k)
    \/ HandOver(t)

Spec == Init /\ [][Next]_<<queue, offer, taken>>

=============================================================================
