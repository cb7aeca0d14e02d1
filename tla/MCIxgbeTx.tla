------------------------------ MODULE MCIxgbeTx ------------------------------
(* Instances of IxgbeTx: buffers are interchangeable. *)
EXTENDS IxgbeTx, TLC

MCSymmetry == Permutations(Buffers)

(* Which of its buffers the application posts next makes no difference to  *)
(* the driver: in ixgbe_tx it prefers the one numbered like the slot, and  *)
(* a ring that works as it should always has buffer i in slot i.           *)
AppBuffers == {b \in Buffers : owner[b] = "app"}

Post ==
  /\ AppBuffers # {}
  /\ Enqueue(IF tx_tail \in AppBuffers THEN tx_tail ELSE CHOOSE b \in AppBuffers : TRUE)

MCNext == Post \/ Dequeue \/ CardTransmit \/ Stop \/ Start

PolledSpec == Init /\ [][MCNext]_vars /\ Fairness
=============================================================================
