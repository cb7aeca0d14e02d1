------------------------------ MODULE FifoChannel ------------------------------
(***************************************************************************)
(* What every CleanQ backend promises of one direction of a queue: a       *)
(* bounded first-in first-out channel.  An accepted enqueue appends one    *)
(* descriptor; a dequeue hands out the oldest one, exactly as it was       *)
(* enqueued, and removes it.  Nothing is lost, repeated, reordered or      *)
(* altered, and at most Cap descriptors are in flight.                     *)
(***************************************************************************)
EXTENDS Naturals, Sequences

CONSTANTS
  Msgs,  \* the descriptors
  Cap,   \* the most descriptors in flight
  NULL

VARIABLES
  chan,  \* the descriptors in flight, oldest first
  got    \* the descriptor handed out last

Init == chan = << >> /\ got = NULL

Send(m) ==
  /\ Len(chan) < Cap
  /\ chan' = Append(chan, m)
  /\ UNCHANGED got

Receive ==
  /\ chan # << >>
  /\ got' = Head(chan)
  /\ chan' = Tail(chan)

Next == (\E m \in Msgs : Send(m)) \/ Receive

Spec == Init /\ [][Next]_<<chan, got>>

=============================================================================
