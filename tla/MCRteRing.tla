------------------------------ MODULE MCRteRing ------------------------------
(* Model-checking instance of RteRing: what each thread calls. *)
EXTENDS RteRing

CONSTANTS t1, t2, t3, o1, o2

Enqueue(objs, fixed, single) ==
  [side |-> "prod", objs |-> objs, max |-> Len(objs), fixed |-> fixed, single |-> single]

Dequeue(k, fixed, single) ==
  [side |-> "cons", objs |-> << >>, max |-> k, fixed |-> fixed, single |-> single]

(* t1 enqueues bursts, at times as the only producer; t3 dequeues          *)
(* likewise; t2 moves full batches, in competition with either.            *)
MCCalls(t) ==
  CASE t = t1 -> {Enqueue(<<o1, o2>>, FALSE, FALSE), Enqueue(<<o1, o2>>, FALSE, TRUE)}
    [] t = t2 -> {Enqueue(<<o2, o1>>, TRUE, FALSE), Dequeue(2, TRUE, FALSE)}
    [] t = t3 -> {Dequeue(2, FALSE, FALSE), Dequeue(2, FALSE, TRUE)}

=============================================================================
