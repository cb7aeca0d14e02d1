------------------------------- MODULE MCDebugQ -------------------------------
(* Instances of DebugQ. *)
EXTENDS DebugQ

(* A region cut into buffers of one length, as the applications do. *)
MCBufs == {[offset |-> 2 * n, length |-> 2] : n \in 0 .. RegionLen \div 2 - 1}

(* The other endpoint sends the first and the last of them. *)
MCPeerBufs == {b \in MCBufs : b.offset = 0 \/ b.offset + b.length = RegionLen}

(* Buffers of two lengths. *)
MCMixedBufs == {[offset |-> 0, length |-> 1], [offset |-> 1, length |-> 1], [offset |-> 2, length |-> 2]}

NoBufs == {}
=============================================================================
