-------------------------- MODULE MCRegionPoolSlab --------------------------
(* A small instance of RegionPoolSlab for TLC. *)
EXTENDS RegionPoolSlab

(* With caller-chosen ids areas may repeat: four such regions fill a table *)
(* of four, and the next add makes it eight.                               *)
MCTwoAreas == {[paddr |-> 1, len |-> 1], [paddr |-> 1, len |-> 2]}

(* Every slot of a table of eight. *)
MCEightIds == 0 .. 7
=============================================================================
