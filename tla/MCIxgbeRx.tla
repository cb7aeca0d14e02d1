------------------------------ MODULE MCIxgbeRx ------------------------------
(* Instances of IxgbeRx: buffers are interchangeable. *)
EXTENDS IxgbeRx, TLC

MCSymmetry == Permutations(Buffers)
=============================================================================
