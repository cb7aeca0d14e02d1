--------------------------- MODULE MCPoolReplicas ---------------------------
(* A small instance of PoolReplicas for TLC. *)
EXTENDS PoolReplicas

(* Four disjoint areas and one that overlaps the first two: enough to fill *)
(* the first table and to grow it.                                         *)
MCAreas == {[paddr |-> 1, len |-> 1], [paddr |-> 2, len |-> 2], [paddr |-> 4, len |-> 1],
            [paddr |-> 5, len |-> 1], [paddr |-> 1, len |-> 2]}

(* Every slot of a table of four, and two ids that alias. *)
MCIds == 0 .. 5

(* Mapped somewhere else, in another order, without overlaps. *)
MCVaddr == [a \in MCAreas |-> 30 - 3 * a.paddr]
=============================================================================
