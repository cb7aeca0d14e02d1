------------------------------ MODULE MCUdpStack ------------------------------
(* An instance of UdpStack: region 1 has two buffers in use, region 2 one. *)
EXTENDS UdpStack

MCPoolSize == [q \in Queues |-> IF q = "rx" THEN 2 ELSE 4]

MCPackets == {[len |-> 64, port |-> "peer"], [len |-> 128, port |-> "other"]}

(* Region 1 has the same id everywhere; region 2 has one of two, of which  *)
(* the second shares region 1's entry in the tables.                       *)
MCIds(r) == {id \in Ids : id \in r .. 2 * r - 1}

(* Which of a region's buffers the application uses next makes no          *)
(* difference to the modules.                                              *)
Free(r) == {n \in 1 .. PerRegion - r + 1 : <<r, n>> \in app}
Pick(r) == <<r, CHOOSE n \in Free(r) : \A m \in Free(r) : n <= m>>

(* The set-up of an application registers its regions at the card's queues *)
(* and then at the UDP queue.  It fills the receive queue under the id     *)
(* that queue has for a buffer, sends under the id of the UDP queue, and   *)
(* posts a sent buffer for receiving under the id the transmit queue gave  *)
(* it.  Once the pools disagree the registrations stay as they are.        *)
SetUp == udp_regions = NoRegions

MCNext ==
  \/ \E r \in Regions : SetUp /\ coherent /\ NicRegister("rx", r, r)
  \/ \E r \in Regions : \E id \in MCIds(r) : SetUp /\ coherent /\ NicRegister("tx", r, id)
  \/ \E r \in Regions : \E id \in MCIds(r) : coherent /\ Register(r, id)
  \/ \E r \in Regions : coherent /\ (Deregister(r) \/ TxDeregister(r))
  \/ \E r \in Regions, q \in {"rx", "tx"} : Free(r) # {} /\ EnqueueRx(Pick(r), IdOf(q, r))
  \/ \E r \in Regions, p \in Packets : Free(r) # {} /\ EnqueueTx(Pick(r), IdOf("udp", r), p)
  \/ DequeueRx
  \/ DequeueTx
  \/ CardReceive
  \/ CardTransmit

MCSpec == Init /\ [][MCNext]_vars /\ WF_vars(Dequeue)
=============================================================================
