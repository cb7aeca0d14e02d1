------------------------------ MODULE IpcqProofs ------------------------------
(***************************************************************************)
(* Proofs about Ipcq for any number of slots, messages, regions, buffers   *)
(* and ids, and any content of the shared memory at the start.  IInv says  *)
(* where each message and each buffer is; Follows, for the case that one   *)
(* end registers, how the other end's table comes to agree with its own.   *)
(***************************************************************************)
EXTENDS Ipcq, SlotIndex, SequenceTheorems, TLAPS

(* The next message the reader of e's ring takes, and the oldest whose     *)
(* slot it has not given up.                                               *)
NextRead(e) == rx_seq[Peer(e)]

Oldest(e) == IF pc[Peer(e)] = "ack" THEN NextRead(e) - 1 ELSE NextRead(e)

Msg(e, s) == ring[e][s % Slots].msg

(* A message not yet given up carries b. *)
At(e, s, b) == s \in Oldest(e) .. tx_seq[e] - 1 /\ Carries(Msg(e, s), b)

Typed ==
  /\ ring \in [End -> [Slot -> [seq : 0 .. MaxSeq + Slots, msg : Msgs \union {ZeroMsg}]]]
  /\ state \in [End -> {"down", "up", "gone"}]
  /\ pc \in [End -> {"idle", "publish", "spin", "ack", "again"}]
  /\ out \in [End -> Msgs \union {NULL}]
  /\ got \in [End -> Msgs \union {NULL}]
  /\ known \in [End -> [Rids -> Regions \union {NULL}]]
  /\ holder \in [Buffers -> End \union {"none", "flight", "lost"}]
  /\ ack \in [End -> Nat] /\ tx_seq \in [End -> Nat \ {0}] /\ rx_seq \in [End -> Nat \ {0}]

(* The writer never laps what the reader has not given up. *)
Indices ==
  \A e \in End :
    /\ NextRead(e) <= tx_seq[e]
    /\ ack[e] <= Oldest(e) /\ tx_seq[e] - ack[e] <= Slots
    /\ tx_seq[e] <= MaxSeq + 1
    /\ pc[e] = "publish" => tx_seq[e] - ack[e] < Slots
    /\ pc[e] \in {"publish", "spin"} => tx_seq[e] <= MaxSeq

(* An end that is down has done nothing, and "b" is started first. *)
Down ==
  /\ state["b"] = "down" => state["a"] = "down"
  /\ \A e \in End : state[e] = "down" =>
       pc[e] = "idle" /\ tx_seq[e] = 1 /\ rx_seq[e] = 1 /\ ack[Peer(e)] = 0

(* Once "b" has cleared the memory, no slot has a number not yet sent. *)
Numbers ==
  state["b"] # "down" => \A e \in End : \A i \in Slot : ring[e][i].seq < tx_seq[e]

(* What is in the slots. *)
Fields ==
  \A e \in End :
    /\ \A s \in Oldest(e) .. tx_seq[e] - 1 : Msg(e, s) \in Msgs
    /\ pc[e] \in {"publish", "spin"} => out[e] \in Msgs
    /\ pc[e] = "spin" => out[e].cmd # "data"
    /\ pc[e] = "publish" => Msg(e, tx_seq[e]) = out[e]
    /\ pc[Peer(e)] = "ack" => got[Peer(e)] = Msg(e, Oldest(e))

(* A buffer in flight is in one message, any other in none. *)
Holds ==
  /\ \A b \in Buffers : holder[b] = "flight" <=> \E e \in End, s \in Nat : At(e, s, b)
  /\ \A b \in Buffers, d \in End, e \in End, r \in Nat, s \in Nat :
       At(d, r, b) /\ At(e, s, b) => d = e /\ r = s
  /\ \A e \in End, b \in Buffers : pc[e] = "publish" /\ Carries(out[e], b) => holder[b] = e

IInv == Typed /\ Indices /\ Down /\ Numbers /\ Fields /\ Holds

(* A step that sends nothing, reads nothing and leaves the messages not    *)
(* yet given up in their slots.                                            *)
Kept ==
  /\ UNCHANGED <<got, tx_seq, rx_seq>>
  /\ \A e \in End : \A s \in Oldest(e) .. tx_seq[e] - 1 :
       ring'[e][s % Slots].msg = ring[e][s % Slots].msg

(***************************************************************************)
(* The two ends, and the slots of the messages not yet given up.           *)
(***************************************************************************)

(* Each end is the other's peer. *)
LEMMA PeerIs ==
  /\ Peer("a") = "b" /\ Peer("b") = "a"
  /\ \A e \in End : /\ Peer(e) \in End /\ Peer(e) # e /\ Peer(Peer(e)) = e
                    /\ \A d \in End : d = e \/ d = Peer(e)
<1>1. Peer("a") = "b" /\ Peer("b") = "a"  BY DEF Peer, End
<1> QED  BY <1>1 DEF End

(* A sequence number's slot is one of the ring. *)
LEMMA SlotOf ==
  ASSUME NEW s \in Nat
  PROVE  s % Slots \in Slot
<1>1. Slots \in Nat \ {0}  BY IpcqAssumption
<1> QED  BY <1>1, ModRange DEF Slot

(* The writer's next slot holds no message not yet given up. *)
LEMMA NextSlotFree ==
  ASSUME IInv, NEW e \in End, tx_seq[e] - ack[e] < Slots,
         NEW s \in Oldest(e) .. tx_seq[e] - 1
  PROVE  s \in Nat /\ s % Slots \in Slot /\ s % Slots # tx_seq[e] % Slots
<1>1. Slots \in Nat \ {0}  BY IpcqAssumption
<1>2. ack[e] \in Nat /\ tx_seq[e] \in Nat /\ rx_seq[Peer(e)] \in Nat \ {0}
  BY PeerIs DEF IInv, Typed
<1>3. ack[e] <= Oldest(e)  BY DEF IInv, Indices
<1>4. Oldest(e) \in Nat  BY <1>2 DEF Oldest, NextRead
<1>5. PICK t \in Nat : t = tx_seq[e]  BY <1>2
<1>6. s \in Nat /\ s < t /\ t - s < Slots  BY <1>1, <1>2, <1>3, <1>4, <1>5
<1>7. s % Slots # t % Slots  BY <1>1, <1>6, ModApart
<1> QED  BY <1>5, <1>6, <1>7, SlotOf

(* The indices of a ring are numbers, in order. *)
LEMMA Numbered ==
  ASSUME IInv, NEW e \in End
  PROVE  /\ Oldest(e) \in Nat /\ tx_seq[e] \in Nat \ {0} /\ ack[e] \in Nat
         /\ rx_seq[e] \in Nat \ {0} /\ rx_seq[Peer(e)] \in Nat \ {0}
         /\ Oldest(e) <= rx_seq[Peer(e)] /\ rx_seq[Peer(e)] <= tx_seq[e]
         /\ ack[e] <= Oldest(e)
BY PeerIs DEF IInv, Typed, Indices, Oldest, NextRead

(***************************************************************************)
(* Each step keeps the invariant.                                          *)
(***************************************************************************)

(* Nothing is under way at first, whatever the memory holds. *)
LEMMA InitIInv ==
  ASSUME Init
  PROVE  IInv
<1>0. Slots \in Nat /\ Slots >= 2 /\ MaxSeq \in Nat  BY IpcqAssumption
<1>1. ring \in [End -> [Slot -> [seq : 0 .. MaxSeq + Slots, msg : Msgs \union {ZeroMsg}]]]
  <2>1. PICK r \in {ZeroRing} \union {StaleRing(m) : m \in DataMsgs} : ring = [e \in End |-> r]
    BY DEF Init
  <2>2. r \in [Slot -> [seq : 0 .. MaxSeq + Slots, msg : Msgs \union {ZeroMsg}]]
    <3>1. CASE r = ZeroRing  BY <3>1, <1>0 DEF ZeroRing
    <3>2. ASSUME NEW m \in DataMsgs, r = StaleRing(m)
          PROVE  r \in [Slot -> [seq : 0 .. MaxSeq + Slots, msg : Msgs \union {ZeroMsg}]]
      <4>1. m \in Msgs \union {ZeroMsg}  BY DEF Msgs
      <4> HIDE DEF DataMsgs
      <4>2. \A i \in Slot : (IF i = 0 THEN Slots ELSE i) \in 0 .. MaxSeq + Slots
        BY <1>0 DEF Slot
      <4> QED  BY <3>2, <4>1, <4>2 DEF StaleRing
    <3> QED  BY <2>1, <3>1, <3>2
  <2> QED  BY <2>1, <2>2
<1>2. Typed
  BY <1>1 DEF Init, Typed, End
<1>3. \A e \in End : Oldest(e) = 1 /\ NextRead(e) = 1 /\ tx_seq[e] = 1 /\ pc[e] = "idle" /\ ack[e] = 0
  BY PeerIs DEF Init, Oldest, NextRead
<1>4. Indices  BY <1>0, <1>3 DEF Indices
<1>5. Down  BY PeerIs DEF Init, Down, End
<1>6. Numbers  BY DEF Init, Numbers, End
<1>7. \A e \in End, s \in Nat, b \in Buffers : ~At(e, s, b)  BY <1>3 DEF At
<1>8. Fields
  <2>1. \A e \in End : pc[Peer(e)] = "idle"  BY <1>3, PeerIs
  <2>2. \A e \in End : Oldest(e) .. tx_seq[e] - 1 = {}  BY <1>3
  <2> QED  BY <1>3, <2>1, <2>2 DEF Fields
<1>9. Holds
  <2>1. \A b \in Buffers : holder[b] = "none"  BY DEF Init
  <2> QED  BY <1>3, <1>7, <2>1 DEF Holds
<1> QED  BY <1>2, <1>4, <1>5, <1>6, <1>8, <1>9 DEF IInv

(* The messages not yet given up are those they were, if neither the       *)
(* indices nor the slots of these messages change.                         *)
LEMMA SameWindow ==
  ASSUME IInv, UNCHANGED <<tx_seq, rx_seq>>,
         \A e \in End : pc'[e] = "ack" <=> pc[e] = "ack",
         \A e \in End : \A s \in Oldest(e) .. tx_seq[e] - 1 :
           ring'[e][s % Slots].msg = ring[e][s % Slots].msg
  PROVE  /\ \A e \in End : Oldest(e)' = Oldest(e) /\ NextRead(e)' = NextRead(e)
         /\ \A e \in End : \A s \in Oldest(e) .. tx_seq[e] - 1 : Msg(e, s)' = Msg(e, s)
         /\ \A e \in End, s \in Nat, b \in Buffers : At(e, s, b)' <=> At(e, s, b)
<1>1. \A e \in End : Oldest(e)' = Oldest(e) /\ NextRead(e)' = NextRead(e)
  BY PeerIs DEF Oldest, NextRead, Peer
<1>2. \A e \in End : \A s \in Oldest(e) .. tx_seq[e] - 1 : Msg(e, s)' = Msg(e, s)
  BY DEF Msg
<1>3. ASSUME NEW e \in End, NEW s \in Nat, NEW b \in Buffers
      PROVE  At(e, s, b)' <=> At(e, s, b)
  <2>1. At(e, s, b)' <=> s \in Oldest(e) .. tx_seq[e] - 1 /\ Carries(Msg(e, s)', b)
    BY <1>1 DEF At, Carries
  <2> QED  BY <1>2, <2>1 DEF At
<1> QED  BY <1>1, <1>2, <1>3

(* While the messages under way stay, buffers only move between the ends. *)
LEMMA SameHolds ==
  ASSUME IInv,
         \A e \in End, s \in Nat, b \in Buffers : At(e, s, b)' <=> At(e, s, b),
         \A b \in Buffers : holder'[b] = "flight" <=> holder[b] = "flight",
         \A e \in End, b \in Buffers :
           pc'[e] = "publish" /\ Carries(out'[e], b) => holder'[b] = e
  PROVE  Holds'
<1>1. \A b \in Buffers : holder'[b] = "flight" <=> \E e \in End, s \in Nat : At(e, s, b)'
  BY Zenon DEF IInv, Holds
<1>2. \A b \in Buffers, d \in End, e \in End, r \in Nat, s \in Nat :
        At(d, r, b)' /\ At(e, s, b)' => d = e /\ r = s
  <2> SUFFICES ASSUME NEW b \in Buffers, NEW d \in End, NEW e \in End, NEW r \in Nat, NEW s \in Nat,
                      At(d, r, b)', At(e, s, b)'
               PROVE  d = e /\ r = s
    OBVIOUS
  <2>1. At(d, r, b) /\ At(e, s, b)  OBVIOUS
  <2> QED  BY <2>1 DEF IInv, Holds
<1>3. \A e \in End, b \in Buffers : (pc[e] = "publish" /\ Carries(out[e], b) => holder[b] = e)'
  BY DEF Carries
<1> QED  BY <1>1, <1>2, <1>3, Zenon DEF Holds

(* Starting a process: "b" before anything has happened, "a" while the     *)
(* slots "b" may have filled stay as they are.                             *)
LEMMA CreateIInv ==
  ASSUME IInv, OrderedStart = TRUE, NEW e \in End, Create(e)
  PROVE  IInv' /\ Kept
<1>0. Slots \in Nat /\ Slots >= 2 /\ MaxSeq \in Nat  BY IpcqAssumption
<1>1. /\ state[e] = "down" /\ state' = [state EXCEPT ![e] = "up"]
      /\ ring' = Cleared(e) /\ ack' = [d \in End |-> 0]
      /\ UNCHANGED <<pc, out, got, tx_seq, rx_seq, known, holder>>
      /\ e = "a" => state["b"] # "down"
  BY DEF Create
<1>t. Typed  BY DEF IInv
<1>2. e = "b" => \A d \in End : state[d] = "down" /\ pc[d] = "idle" /\ tx_seq[d] = 1 /\ rx_seq[d] = 1
  BY <1>1 DEF IInv, Down, End
<1>3. e = "a" => ring' = ring  BY <1>1 DEF Cleared
<1>4. \A d \in End : \A s \in Oldest(d) .. tx_seq[d] - 1 :
        ring'[d][s % Slots].msg = ring[d][s % Slots].msg
  <2>1. CASE e = "a"  BY <2>1, <1>3
  <2>2. CASE e = "b"
    <3>1. \A d \in End : Oldest(d) = 1 /\ tx_seq[d] = 1
      BY <2>2, <1>2, PeerIs DEF Oldest, NextRead
    <3> QED  BY <3>1
  <2> QED  BY <2>1, <2>2 DEF End
<1>5. /\ \A d \in End : Oldest(d)' = Oldest(d) /\ NextRead(d)' = NextRead(d)
      /\ \A d \in End : \A s \in Oldest(d) .. tx_seq[d] - 1 : Msg(d, s)' = Msg(d, s)
      /\ \A d \in End, s \in Nat, b \in Buffers : At(d, s, b)' <=> At(d, s, b)
  <2>1. \A d \in End : pc'[d] = "ack" <=> pc[d] = "ack"  BY <1>1
  <2>2. UNCHANGED <<tx_seq, rx_seq>>  BY <1>1
  <2> QED  BY <2>1, <2>2, <1>4, SameWindow, Zenon
<1>6. Typed'
  <2>1. ring' \in [End -> [Slot -> [seq : 0 .. MaxSeq + Slots, msg : Msgs \union {ZeroMsg}]]]
    <3>1. ZeroRing \in [Slot -> [seq : 0 .. MaxSeq + Slots, msg : Msgs \union {ZeroMsg}]]
      BY <1>0 DEF ZeroRing
    <3> QED  BY <3>1, <1>1, <1>t DEF Cleared, Typed
  <2> QED  BY <2>1, <1>1, <1>t DEF Typed
<1>7. Down'
  <2>1. \A d \in End : state'[d] = "down" => ack'[Peer(d)] = 0  BY <1>1, PeerIs
  <2>2. \A d \in End : state'[d] = "down" => state[d] = "down"  BY <1>1, <1>t DEF Typed
  <2>3. state'["b"] = "down" => state'["a"] = "down"
    BY <1>1, <1>t DEF End, Typed
  <2> QED  BY <2>1, <2>2, <2>3, <1>1 DEF IInv, Down, Peer
<1>8. Numbers'
  <2>1. CASE e = "a"
    BY <2>1, <1>1, <1>3, <1>t DEF IInv, Numbers, End, Typed
  <2>2. CASE e = "b"
    <3>1. \A d \in End : \A i \in Slot : ring'[d][i].seq = 0
      BY <2>2, <1>1 DEF Cleared, ZeroRing
    <3> QED  BY <3>1, <1>1, <1>t DEF Numbers, Typed
  <2> QED  BY <2>1, <2>2 DEF End
<1>9. Indices'
  <2> SUFFICES ASSUME NEW d \in End
               PROVE  /\ NextRead(d) <= tx_seq[d]
                      /\ 0 <= Oldest(d) /\ tx_seq[d] <= Slots
                      /\ tx_seq[d] <= MaxSeq + 1
                      /\ pc[d] = "publish" => tx_seq[d] < Slots
                      /\ pc[d] \in {"publish", "spin"} => tx_seq[d] <= MaxSeq
    <3>1. \A d \in End : tx_seq[d] \in Nat /\ ack'[d] = 0  BY <1>1, <1>t DEF Typed
    <3> QED  BY <1>1, <1>5, <3>1 DEF Indices
  <2>1. Oldest(d) \in Nat  BY Numbered
  <2>2. NextRead(d) <= tx_seq[d] /\ tx_seq[d] <= MaxSeq + 1
        /\ (pc[d] \in {"publish", "spin"} => tx_seq[d] <= MaxSeq)
    BY DEF IInv, Indices
  <2>3. tx_seq[d] <= Slots /\ (pc[d] = "publish" => tx_seq[d] < Slots)
    <3>1. CASE state[d] = "down"
      BY <1>0, <3>1 DEF IInv, Down
    <3>2. CASE state[d] # "down"
      <4>1. d # e /\ d = Peer(e)  BY <1>1, <3>2, PeerIs
      <4>2. ack[d] = 0  BY <4>1, <1>1 DEF IInv, Down
      <4>3. tx_seq[d] \in Nat  BY <1>t DEF Typed
      <4> QED  BY <1>0, <4>2, <4>3 DEF IInv, Indices
    <3> QED  BY <3>1, <3>2
  <2> QED  BY <2>1, <2>2, <2>3
<1>10. Fields'
  <2>1. \A d \in End : \A s \in Oldest(d) .. tx_seq[d] - 1 : Msg(d, s)' \in Msgs
    BY <1>5 DEF IInv, Fields
  <2>2. \A d \in End : /\ pc[d] \in {"publish", "spin"} => out[d] \in Msgs
                       /\ pc[d] = "spin" => out[d].cmd # "data"
    BY DEF IInv, Fields
  <2>3. \A d \in End : pc[d] = "publish" => Msg(d, tx_seq[d])' = out[d]
    <3>1. CASE e = "a"
      <4>1. \A d \in End : Msg(d, tx_seq[d])' = Msg(d, tx_seq[d])  BY <3>1, <1>1, <1>3 DEF Msg
      <4> QED  BY <4>1 DEF IInv, Fields
    <3>2. CASE e = "b"  BY <3>2, <1>2
    <3> QED  BY <3>1, <3>2 DEF End
  <2>4. \A d \in End : pc[Peer(d)] = "ack" => got[Peer(d)] = Msg(d, Oldest(d))'
    <3>1. CASE e = "a"
      <4>1. \A d \in End : Msg(d, Oldest(d))' = Msg(d, Oldest(d))  BY <3>1, <1>1, <1>3, <1>5 DEF Msg
      <4> QED  BY <4>1 DEF IInv, Fields
    <3>2. CASE e = "b"  BY <3>2, <1>2, PeerIs
    <3> QED  BY <3>1, <3>2 DEF End
  <2> QED  BY <1>1, <1>5, <2>1, <2>2, <2>3, <2>4 DEF Fields, Peer
<1>11. Holds'
  <2>1. \A d \in End, b \in Buffers :
          pc'[d] = "publish" /\ Carries(out'[d], b) => holder'[b] = d
    BY <1>1 DEF IInv, Holds
  <2>2. \A b \in Buffers : holder'[b] = "flight" <=> holder[b] = "flight"  BY <1>1
  <2> QED  BY <1>5, <2>1, <2>2, SameHolds, Zenon
<1>12. Kept  BY <1>1, <1>4 DEF Kept
<1> QED  BY <1>6, <1>7, <1>8, <1>9, <1>10, <1>11, <1>12 DEF IInv

(* A step that touches neither the rings nor their indices: it changes the *)
(* state of one call, and buffers only move to and from the caller.        *)
LEMMA QuietIInv ==
  ASSUME IInv, NEW e \in End, UNCHANGED <<ring, ack, got, tx_seq, rx_seq>>,
         state[e] # "down", state' \in [End -> {"down", "up", "gone"}], state'[e] # "down",
         \A d \in End : d # e => state'[d] = state[d] /\ pc'[d] = pc[d] /\ out'[d] = out[d],
         known' \in [End -> [Rids -> Regions \union {NULL}]],
         holder' \in [Buffers -> End \union {"none", "flight", "lost"}],
         pc' \in [End -> {"idle", "publish", "spin", "ack", "again"}],
         out' \in [End -> Msgs \union {NULL}],
         pc[e] \notin {"ack", "publish"}, pc'[e] \in {"idle", "spin"},
         pc'[e] = "spin" => out'[e] \in Msgs /\ out'[e].cmd # "data" /\ tx_seq[e] <= MaxSeq,
         \A b \in Buffers : holder'[b] # holder[b] =>
            holder[b] \in {"none", e} /\ holder'[b] \in {"none", e}
  PROVE  IInv'
<1>1. \A d \in End : pc'[d] = "ack" <=> pc[d] = "ack"  OBVIOUS
<1>2. /\ \A d \in End : Oldest(d)' = Oldest(d) /\ NextRead(d)' = NextRead(d)
      /\ \A d \in End, s \in Nat, b \in Buffers : At(d, s, b)' <=> At(d, s, b)
  <2>1. UNCHANGED <<tx_seq, rx_seq>>  OBVIOUS
  <2>2. \A d \in End : \A s \in Oldest(d) .. tx_seq[d] - 1 :
          ring'[d][s % Slots].msg = ring[d][s % Slots].msg
    OBVIOUS
  <2> QED  BY <1>1, <2>1, <2>2, SameWindow, Zenon
<1>3. Typed'  BY DEF IInv, Typed
<1>4. Indices'
  <2>1. \A d \in End : pc'[d] \in {"publish", "spin"} => pc[d] = pc'[d] \/ tx_seq[d] <= MaxSeq
    OBVIOUS
  <2>2. \A d \in End : pc'[d] = "publish" => pc[d] = "publish"  OBVIOUS
  <2> QED  BY <1>2, <2>1, <2>2 DEF IInv, Indices
<1>5. Down'
  <2>1. \A d \in End : state'[d] = "down" <=> d # e /\ state[d] = "down"  BY DEF IInv, Typed
  <2>2. "a" \in End /\ "b" \in End  BY DEF End
  <2>3. state'["b"] = "down" => state'["a"] = "down"
    BY <2>1, <2>2 DEF IInv, Down, End
  <2>4. \A d \in End : state'[d] = "down" =>
          pc'[d] = "idle" /\ tx_seq'[d] = 1 /\ rx_seq'[d] = 1 /\ ack'[Peer(d)] = 0
    BY <2>1 DEF IInv, Down
  <2> QED  BY <2>3, <2>4 DEF Down, Peer
<1>6. Numbers'
  <2>1. state'["b"] # "down" => state["b"] # "down"  BY DEF End
  <2> QED  BY <2>1 DEF IInv, Numbers
<1>7. Fields'
  <2>1. \A d \in End : \A s \in Oldest(d) .. tx_seq[d] - 1 : Msg(d, s)' \in Msgs
    BY DEF IInv, Fields, Msg
  <2>2. \A d \in End : /\ pc'[d] \in {"publish", "spin"} => out'[d] \in Msgs
                       /\ pc'[d] = "spin" => out'[d].cmd # "data"
    BY DEF IInv, Fields
  <2>3. \A d \in End : pc'[d] = "publish" => Msg(d, tx_seq[d])' = out'[d]
    BY DEF IInv, Fields, Msg
  <2>4. \A d \in End : pc'[Peer(d)] = "ack" => got'[Peer(d)] = Msg(d, Oldest(d))'
    <3>1. \A d \in End : Msg(d, Oldest(d))' = Msg(d, Oldest(d))  BY <1>2 DEF Msg
    <3> QED  BY <1>1, <3>1, PeerIs DEF IInv, Fields
  <2> QED  BY <1>2, <2>1, <2>2, <2>3, <2>4 DEF Fields, Peer
<1>8. Holds'
  <2>1. ASSUME NEW d \in End, NEW b \in Buffers, pc'[d] = "publish", Carries(out'[d], b)
        PROVE  holder'[b] = d
    <3>1. d # e /\ pc[d] = "publish" /\ Carries(out[d], b)  BY <2>1 DEF Carries
    <3>2. holder[b] = d  BY <3>1 DEF IInv, Holds
    <3> QED  BY <3>1, <3>2 DEF End
  <2>2. \A b \in Buffers : holder'[b] = "flight" <=> holder[b] = "flight"  BY DEF End
  <2> QED  BY <1>2, <2>1, <2>2, SameHolds, Zenon
<1> QED  BY <1>3, <1>4, <1>5, <1>6, <1>7, <1>8 DEF IInv

(* The commands are messages. *)
LEMMA Commands ==
  ASSUME NEW i \in Rids
  PROVE  /\ \A r \in Regions : [cmd |-> "reg", rid |-> i, item |-> r] \in Msgs
         /\ [cmd |-> "dereg", rid |-> i, item |-> NULL] \in Msgs
         /\ \A b \in Buffers : [cmd |-> "data", rid |-> i, item |-> b] \in Msgs
<1>1. \A r \in Regions : [cmd |-> "reg", rid |-> i, item |-> r] \in Msgs  BY DEF Msgs
<1>2. [cmd |-> "dereg", rid |-> i, item |-> NULL] \in Msgs  BY DEF Msgs
<1>3. \A b \in Buffers : [cmd |-> "data", rid |-> i, item |-> b] \in Msgs  BY DEF Msgs, DataMsgs
<1> QED  BY <1>1, <1>2, <1>3

(* The steps that touch no ring: a process ends, a dequeue returns empty,  *)
(* and a registration or its withdrawal before the ring has space.         *)
LEMMA QuietStepIInv ==
  ASSUME IInv, NEW e \in End,
         \/ Destroy(e) \/ ReturnEmpty(e)
         \/ \E i \in Rids, r \in Regions : Register(e, i, r)
         \/ \E i \in Rids : Deregister(e, i)
  PROVE  IInv'
<1>t. Typed  BY DEF IInv
<1>1. CASE Destroy(e)
  <2>1. /\ state[e] = "up" /\ pc[e] = "idle" /\ state' = [state EXCEPT ![e] = "gone"]
        /\ UNCHANGED <<ring, ack, pc, out, got, tx_seq, rx_seq, known, holder>>
    BY <1>1 DEF Destroy, Idle
  <2>2. /\ state' \in [End -> {"down", "up", "gone"}] /\ state'[e] # "down"
        /\ \A d \in End : d # e => state'[d] = state[d]
    BY <2>1, <1>t DEF Typed
  <2> QED  BY <2>1, <2>2, <1>t, QuietIInv DEF Typed
<1>2. CASE ReturnEmpty(e)
  <2>1. /\ pc[e] = "again" /\ pc' = [pc EXCEPT ![e] = "idle"]
        /\ UNCHANGED <<ring, ack, state, out, got, tx_seq, rx_seq, known, holder>>
    BY <1>2 DEF ReturnEmpty
  <2>2. /\ pc'[e] = "idle" /\ pc' \in [End -> {"idle", "publish", "spin", "ack", "again"}]
        /\ \A d \in End : d # e => pc'[d] = pc[d]
    BY <2>1, <1>t DEF Typed
  <2>3. state[e] # "down"  BY <2>1 DEF IInv, Down
  <2> QED  BY <2>1, <2>2, <2>3, <1>t, QuietIInv DEF Typed
<1>3. ASSUME NEW i \in Rids, NEW r \in Regions, Register(e, i, r)
      PROVE  IInv'
  <2>1. /\ state[e] = "up" /\ pc[e] = "idle" /\ tx_seq[e] <= MaxSeq
        /\ \A b \in BuffersOf(r) : holder[b] = "none"
        /\ known' = [known EXCEPT ![e][i] = r]
        /\ holder' = [b \in Buffers |-> IF b \in BuffersOf(r) THEN e ELSE holder[b]]
        /\ out' = [out EXCEPT ![e] = [cmd |-> "reg", rid |-> i, item |-> r]]
        /\ pc' = [pc EXCEPT ![e] = "spin"]
        /\ UNCHANGED <<ring, ack, state, got, tx_seq, rx_seq>>
    BY <1>3 DEF Register, Idle
  <2>2. /\ pc'[e] = "spin" /\ pc' \in [End -> {"idle", "publish", "spin", "ack", "again"}]
        /\ \A d \in End : d # e => pc'[d] = pc[d]
    BY <2>1, <1>t DEF Typed
  <2>3. known' \in [End -> [Rids -> Regions \union {NULL}]]  BY <2>1, <1>t DEF Typed
  <2>4. /\ out' \in [End -> Msgs \union {NULL}] /\ out'[e] \in Msgs /\ out'[e].cmd # "data"
        /\ \A d \in End : d # e => out'[d] = out[d]
    <3>1. PICK m \in Msgs : m = [cmd |-> "reg", rid |-> i, item |-> r]  BY Commands
    <3>2. m.cmd # "data"  BY <3>1
    <3> QED  BY <3>1, <3>2, <2>1, <1>t, Zenon DEF Typed
  <2>5. /\ holder' \in [Buffers -> End \union {"none", "flight", "lost"}]
        /\ \A b \in Buffers : holder'[b] # holder[b] =>
             holder[b] \in {"none", e} /\ holder'[b] \in {"none", e}
    BY <2>1, <1>t DEF Typed
  <2> QED  BY <2>1, <2>2, <2>3, <2>4, <2>5, <1>t, QuietIInv DEF Typed
<1>4. ASSUME NEW i \in Rids, Deregister(e, i)
      PROVE  IInv'
  <2>1. /\ state[e] = "up" /\ pc[e] = "idle" /\ tx_seq[e] <= MaxSeq
        /\ \A b \in BuffersOf(known[e][i]) : holder[b] = e
        /\ known' = [known EXCEPT ![e][i] = NULL]
        /\ holder' = [b \in Buffers |-> IF RegionOf(b) = known[e][i] THEN "none" ELSE holder[b]]
        /\ out' = [out EXCEPT ![e] = [cmd |-> "dereg", rid |-> i, item |-> NULL]]
        /\ pc' = [pc EXCEPT ![e] = "spin"]
        /\ UNCHANGED <<ring, ack, state, got, tx_seq, rx_seq>>
    BY <1>4 DEF Deregister, Idle
  <2>2. /\ pc'[e] = "spin" /\ pc' \in [End -> {"idle", "publish", "spin", "ack", "again"}]
        /\ \A d \in End : d # e => pc'[d] = pc[d]
    BY <2>1, <1>t DEF Typed
  <2>3. known' \in [End -> [Rids -> Regions \union {NULL}]]  BY <2>1, <1>t DEF Typed
  <2>4. /\ out' \in [End -> Msgs \union {NULL}] /\ out'[e] \in Msgs /\ out'[e].cmd # "data"
        /\ \A d \in End : d # e => out'[d] = out[d]
    <3>1. PICK m \in Msgs : m = [cmd |-> "dereg", rid |-> i, item |-> NULL]  BY Commands
    <3>2. m.cmd # "data"  BY <3>1
    <3> QED  BY <3>1, <3>2, <2>1, <1>t, Zenon DEF Typed
  <2>5. /\ holder' \in [Buffers -> End \union {"none", "flight", "lost"}]
        /\ \A b \in Buffers : holder'[b] # holder[b] =>
             holder[b] \in {"none", e} /\ holder'[b] \in {"none", e}
    BY <2>1, <1>t DEF Typed, BuffersOf
  <2> QED  BY <2>1, <2>2, <2>3, <2>4, <2>5, <1>t, QuietIInv DEF Typed
<1> QED  BY <1>1, <1>2, <1>3, <1>4

(* Storing the fields of a message does not publish it: it goes to a slot  *)
(* the reader has given up.                                                *)
LEMMA StoreIInv ==
  ASSUME IInv, NEW e \in End, NEW m \in Msgs, StoreFields(e, m),
         pc[e] \in {"idle", "spin"}, state[e] # "down", tx_seq[e] <= MaxSeq,
         \A b \in Buffers : Carries(m, b) => holder[b] = e,
         UNCHANGED <<ack, state, got, tx_seq, rx_seq, known, holder>>
  PROVE  IInv' /\ Kept
<1>0. Slots \in Nat /\ Slots >= 2 /\ MaxSeq \in Nat  BY IpcqAssumption
<1>t. Typed  BY DEF IInv
<1> DEFINE k == tx_seq[e] % Slots
<1>k. k \in Slot  BY SlotOf, <1>t DEF Typed
<1>n. tx_seq[e] - ack[e] < Slots  BY DEF StoreFields, CanWrite
<1>1. /\ ring' = [ring EXCEPT ![e][k] = [@ EXCEPT !.msg = m]]
      /\ out' = [out EXCEPT ![e] = m] /\ pc' = [pc EXCEPT ![e] = "publish"]
  BY DEF StoreFields, SlotStore, Tx
<1> HIDE DEF k
<1>2. /\ ring' \in [End -> [Slot -> [seq : 0 .. MaxSeq + Slots, msg : Msgs \union {ZeroMsg}]]]
      /\ ring'[e][k].msg = m
      /\ \A d \in End : d # e => ring'[d] = ring[d]
      /\ \A i \in Slot : i # k => ring'[e][i] = ring[e][i]
      /\ \A d \in End, i \in Slot : ring'[d][i].seq = ring[d][i].seq
  <2>1. PICK v \in [seq : 0 .. MaxSeq + Slots, msg : Msgs \union {ZeroMsg}] :
          v = [ring[e][k] EXCEPT !.msg = m] /\ v.msg = m /\ v.seq = ring[e][k].seq
    <3>1. ring[e][k] \in [seq : 0 .. MaxSeq + Slots, msg : Msgs \union {ZeroMsg}]
      BY <1>t, <1>k DEF Typed
    <3>2. PICK w \in [seq : 0 .. MaxSeq + Slots, msg : Msgs \union {ZeroMsg}] : w = ring[e][k]
      BY <3>1
    <3>3. m \in Msgs \union {ZeroMsg}  OBVIOUS
    <3>4. [w EXCEPT !.msg = m] \in [seq : 0 .. MaxSeq + Slots, msg : Msgs \union {ZeroMsg}]
          /\ [w EXCEPT !.msg = m].msg = m /\ [w EXCEPT !.msg = m].seq = w.seq
      BY <3>3
    <3> QED  BY <3>2, <3>4, Zenon
  <2>2. ring' = [ring EXCEPT ![e] = [ring[e] EXCEPT ![k] = v]]  BY <1>1, <2>1
  <2> QED  BY <2>1, <2>2, <1>k, <1>t DEF Typed
<1>3. /\ pc'[e] = "publish" /\ pc' \in [End -> {"idle", "publish", "spin", "ack", "again"}]
      /\ \A d \in End : d # e => pc'[d] = pc[d]
  BY <1>1, <1>t DEF Typed
<1>4. /\ out' \in [End -> Msgs \union {NULL}] /\ out'[e] = m
      /\ \A d \in End : d # e => out'[d] = out[d]
  BY <1>1, <1>t, Zenon DEF Typed
<1>5. \A d \in End : pc'[d] = "ack" <=> pc[d] = "ack"  BY <1>3
<1>6. \A d \in End : \A s \in Oldest(d) .. tx_seq[d] - 1 :
        ring'[d][s % Slots].msg = ring[d][s % Slots].msg
  <2> SUFFICES ASSUME NEW d \in End, NEW s \in Oldest(d) .. tx_seq[d] - 1
               PROVE  ring'[d][s % Slots].msg = ring[d][s % Slots].msg
    OBVIOUS
  <2>1. CASE d # e  BY <2>1, <1>2
  <2>2. CASE d = e
    <3>1. s % Slots \in Slot /\ s % Slots # k  BY <2>2, <1>n, NextSlotFree DEF k
    <3> QED  BY <3>1, <2>2, <1>2
  <2> QED  BY <2>1, <2>2
<1>7. /\ \A d \in End : Oldest(d)' = Oldest(d) /\ NextRead(d)' = NextRead(d)
      /\ \A d \in End : \A s \in Oldest(d) .. tx_seq[d] - 1 : Msg(d, s)' = Msg(d, s)
      /\ \A d \in End, s \in Nat, b \in Buffers : At(d, s, b)' <=> At(d, s, b)
  <2>1. UNCHANGED <<tx_seq, rx_seq>>  OBVIOUS
  <2> QED  BY <1>5, <1>6, <2>1, SameWindow, Zenon
<1>8. Typed'  BY <1>2, <1>3, <1>4, <1>t DEF Typed
<1>9. Indices'
  <2>1. \A d \in End : pc'[d] \in {"publish", "spin"} => pc[d] = pc'[d] \/ d = e  BY <1>3
  <2> QED  BY <1>7, <1>n, <2>1 DEF IInv, Indices
<1>10. Down'
  <2>1. \A d \in End : state'[d] = "down" => d # e  OBVIOUS
  <2> QED  BY <2>1, <1>3 DEF IInv, Down, Peer
<1>11. Numbers'  BY <1>2 DEF IInv, Numbers
<1>12. Fields'
  <2>1. \A d \in End : \A s \in Oldest(d) .. tx_seq[d] - 1 : Msg(d, s)' \in Msgs
    BY <1>7 DEF IInv, Fields
  <2>2. \A d \in End : /\ pc'[d] \in {"publish", "spin"} => out'[d] \in Msgs
                       /\ pc'[d] = "spin" => out'[d].cmd # "data"
    BY <1>3, <1>4 DEF IInv, Fields
  <2>3. \A d \in End : pc'[d] = "publish" => Msg(d, tx_seq[d])' = out'[d]
    <3>1. Msg(e, tx_seq[e])' = m  BY <1>2 DEF Msg, k
    <3>2. \A d \in End : d # e => Msg(d, tx_seq[d])' = Msg(d, tx_seq[d])  BY <1>2 DEF Msg
    <3> QED  BY <3>1, <3>2, <1>3, <1>4 DEF IInv, Fields
  <2>4. \A d \in End : pc'[Peer(d)] = "ack" => got'[Peer(d)] = Msg(d, Oldest(d))'
    <3> SUFFICES ASSUME NEW d \in End, pc[Peer(d)] = "ack"
                 PROVE  got[Peer(d)] = Msg(d, Oldest(d))'
      BY <1>5, PeerIs
    <3>1. Oldest(d) \in Oldest(d) .. tx_seq[d] - 1
      <4>1. Oldest(d) = rx_seq[Peer(d)] - 1  BY DEF Oldest, NextRead
      <4> QED  BY <4>1, Numbered
    <3>2. Msg(d, Oldest(d))' = Msg(d, Oldest(d))
      <4>1. PICK o : o = Oldest(d)  OBVIOUS
      <4>2. Oldest(d)' = o  BY <4>1, <1>7
      <4>3. ring'[d][o % Slots].msg = ring[d][o % Slots].msg  BY <3>1, <4>1, <1>6
      <4> QED  BY <4>1, <4>2, <4>3 DEF Msg
    <3> QED  BY <3>2 DEF IInv, Fields
  <2> QED  BY <1>7, <2>1, <2>2, <2>3, <2>4 DEF Fields, Peer
<1>13. Holds'
  <2>1. ASSUME NEW d \in End, NEW b \in Buffers, pc'[d] = "publish", Carries(out'[d], b)
        PROVE  holder'[b] = d
    <3>1. CASE d = e  BY <3>1, <2>1, <1>4
    <3>2. CASE d # e
      <4>1. pc[d] = "publish" /\ Carries(out[d], b)  BY <3>2, <2>1, <1>3, <1>4
      <4> QED  BY <4>1 DEF IInv, Holds
    <3> QED  BY <3>1, <3>2
  <2>2. \A b \in Buffers : holder'[b] = "flight" <=> holder[b] = "flight"  OBVIOUS
  <2> QED  BY <1>7, <2>1, <2>2, SameHolds, Zenon
<1>14. Kept  BY <1>6 DEF Kept
<1> QED  BY <1>8, <1>9, <1>10, <1>11, <1>12, <1>13, <1>14 DEF IInv

(* Sending a buffer, and the end of the wait for space. *)
LEMMA StoreStepIInv ==
  ASSUME IInv, NEW e \in End,
         SpinDone(e) \/ \E i \in Rids, b \in Buffers : Enqueue(e, i, b)
  PROVE  IInv' /\ Kept
<1>1. CASE SpinDone(e)
  <2>1. pc[e] = "spin" /\ StoreFields(e, out[e])
        /\ UNCHANGED <<ack, state, got, tx_seq, rx_seq, known, holder>>
    BY <1>1 DEF SpinDone
  <2>2. out[e] \in Msgs /\ out[e].cmd # "data"  BY <2>1 DEF IInv, Fields
  <2>3. state[e] # "down"  BY <2>1 DEF IInv, Down
  <2>4. tx_seq[e] <= MaxSeq  BY <2>1 DEF IInv, Indices
  <2>5. PICK m \in Msgs : m = out[e] /\ \A b \in Buffers : ~Carries(m, b)
    BY <2>2 DEF Carries
  <2>6. StoreFields(e, m) /\ pc[e] \in {"idle", "spin"}  BY <2>1, <2>5
  <2> QED  BY <2>1, <2>3, <2>4, <2>5, <2>6, StoreIInv
<1>2. ASSUME NEW i \in Rids, NEW b \in Buffers, Enqueue(e, i, b)
      PROVE  IInv' /\ Kept
  <2>1. /\ state[e] = "up" /\ pc[e] = "idle" /\ tx_seq[e] <= MaxSeq /\ holder[b] = e
        /\ StoreFields(e, [cmd |-> "data", rid |-> i, item |-> b])
        /\ UNCHANGED <<ack, state, got, tx_seq, rx_seq, known, holder>>
    BY <1>2 DEF Enqueue, Idle
  <2>2. PICK m \in Msgs : m = [cmd |-> "data", rid |-> i, item |-> b]  BY Commands
  <2>3. \A c \in Buffers : Carries(m, c) => holder[c] = e  BY <2>1, <2>2 DEF Carries
  <2>4. StoreFields(e, m) /\ pc[e] \in {"idle", "spin"} /\ state[e] # "down"  BY <2>1, <2>2
  <2> QED  BY <2>1, <2>3, <2>4, StoreIInv
<1> QED  BY <1>1, <1>2

(* Publishing a message puts it behind those under way. *)
LEMMA PublishIInv ==
  ASSUME IInv, NEW e \in End, Publish(e)
  PROVE  /\ IInv'
         /\ \A d \in End, s \in Nat : Msg(d, s)' = Msg(d, s)
         /\ Msg(e, tx_seq[e]) = out[e] /\ out[e] \in Msgs
<1>0. Slots \in Nat /\ Slots >= 2 /\ MaxSeq \in Nat  BY IpcqAssumption
<1>t. Typed  BY DEF IInv
<1> DEFINE k == tx_seq[e] % Slots
<1>k. k \in Slot  BY SlotOf, <1>t DEF Typed
<1>1. /\ pc[e] = "publish"
      /\ ring' = [ring EXCEPT ![e][k] = [@ EXCEPT !.seq = tx_seq[e]]]
      /\ tx_seq' = [tx_seq EXCEPT ![e] = @ + 1] /\ pc' = [pc EXCEPT ![e] = "idle"]
      /\ holder' = [b \in Buffers |-> IF Carries(out[e], b) THEN "flight" ELSE holder[b]]
      /\ UNCHANGED <<ack, state, out, got, rx_seq, known>>
  BY DEF Publish, SlotStore, Tx
<1>n. tx_seq[e] \in Nat \ {0} /\ tx_seq[e] - ack[e] < Slots /\ tx_seq[e] <= MaxSeq
  BY <1>1, <1>t DEF IInv, Indices, Typed
<1> HIDE DEF k
<1>2. /\ ring' \in [End -> [Slot -> [seq : 0 .. MaxSeq + Slots, msg : Msgs \union {ZeroMsg}]]]
      /\ \A d \in End : d # e => ring'[d] = ring[d]
      /\ \A i \in Slot : ring'[e][i].seq = IF i = k THEN tx_seq[e] ELSE ring[e][i].seq
      /\ \A d \in End, i \in Slot : ring'[d][i].msg = ring[d][i].msg
  <2>1. PICK v \in [seq : 0 .. MaxSeq + Slots, msg : Msgs \union {ZeroMsg}] :
          v = [ring[e][k] EXCEPT !.seq = tx_seq[e]] /\ v.seq = tx_seq[e] /\ v.msg = ring[e][k].msg
    <3>1. tx_seq[e] \in 0 .. MaxSeq + Slots  BY <1>0, <1>n
    <3>2. ring[e][k] \in [seq : 0 .. MaxSeq + Slots, msg : Msgs \union {ZeroMsg}]
      BY <1>t, <1>k DEF Typed
    <3>3. PICK w \in [seq : 0 .. MaxSeq + Slots, msg : Msgs \union {ZeroMsg}] : w = ring[e][k]
      BY <3>2
    <3>4. [w EXCEPT !.seq = tx_seq[e]] \in [seq : 0 .. MaxSeq + Slots, msg : Msgs \union {ZeroMsg}]
          /\ [w EXCEPT !.seq = tx_seq[e]].seq = tx_seq[e]
          /\ [w EXCEPT !.seq = tx_seq[e]].msg = w.msg
      BY <3>1
    <3> QED  BY <3>3, <3>4, Zenon
  <2>2. ring' = [ring EXCEPT ![e] = [ring[e] EXCEPT ![k] = v]]  BY <1>1, <2>1
  <2> QED  BY <2>1, <2>2, <1>k, <1>t DEF Typed
<1>3. /\ pc'[e] = "idle" /\ pc' \in [End -> {"idle", "publish", "spin", "ack", "again"}]
      /\ \A d \in End : d # e => pc'[d] = pc[d]
  BY <1>1, <1>t DEF Typed
<1>4. /\ tx_seq' \in [End -> Nat \ {0}] /\ tx_seq'[e] = tx_seq[e] + 1
      /\ \A d \in End : d # e => tx_seq'[d] = tx_seq[d]
  BY <1>1, <1>t DEF Typed
<1>5. \A d \in End : Oldest(d)' = Oldest(d) /\ NextRead(d)' = NextRead(d)
  <2>1. \A d \in End : pc'[d] = "ack" <=> pc[d] = "ack"  BY <1>1, <1>3
  <2>2. rx_seq' = rx_seq  BY <1>1
  <2> QED  BY <2>1, <2>2, PeerIs DEF Oldest, NextRead, Peer
<1>6. \A d \in End, s \in Nat : Msg(d, s)' = Msg(d, s)
  BY <1>2, SlotOf DEF Msg
<1>7. Msg(e, tx_seq[e]) = out[e] /\ out[e] \in Msgs  BY <1>1 DEF IInv, Fields
<1>8. \A d \in End, s \in Nat, b \in Buffers :
        At(d, s, b)' <=> At(d, s, b) \/ (d = e /\ s = tx_seq[e] /\ Carries(out[e], b))
  <2> SUFFICES ASSUME NEW d \in End, NEW s \in Nat, NEW b \in Buffers
               PROVE  At(d, s, b)' <=> At(d, s, b) \/ (d = e /\ s = tx_seq[e] /\ Carries(out[e], b))
    OBVIOUS
  <2>1. At(d, s, b)' <=> s \in Oldest(d) .. tx_seq'[d] - 1 /\ Carries(Msg(d, s), b)
    BY <1>5, <1>6 DEF At, Carries
  <2>2. CASE d # e  BY <2>1, <2>2, <1>4 DEF At
  <2>3. CASE d = e
    <3>1. s \in Oldest(e) .. tx_seq'[e] - 1 <=> s \in Oldest(e) .. tx_seq[e] - 1 \/ s = tx_seq[e]
      BY <1>4, Numbered
    <3> QED  BY <2>1, <2>3, <3>1, <1>7 DEF At
  <2> QED  BY <2>2, <2>3
<1>9. Typed'
  <2>1. holder' \in [Buffers -> End \union {"none", "flight", "lost"}]  BY <1>1, <1>t DEF Typed
  <2> QED  BY <2>1, <1>1, <1>2, <1>3, <1>4, <1>t DEF Typed
<1>10. Indices'
  <2>1. ASSUME NEW d \in End
        PROVE  /\ NextRead(d) <= tx_seq'[d]
               /\ ack[d] <= Oldest(d) /\ tx_seq'[d] - ack[d] <= Slots
               /\ tx_seq'[d] <= MaxSeq + 1
               /\ pc'[d] = "publish" => tx_seq'[d] - ack[d] < Slots
               /\ pc'[d] \in {"publish", "spin"} => tx_seq'[d] <= MaxSeq
    <3>1. CASE d # e  BY <3>1, <1>3, <1>4 DEF IInv, Indices
    <3>2. CASE d = e
      <4>1. NextRead(e) <= tx_seq[e] /\ ack[e] <= Oldest(e)  BY DEF IInv, Indices
      <4>2. NextRead(e) \in Nat /\ ack[e] \in Nat  BY Numbered DEF NextRead
      <4> QED  BY <3>2, <4>1, <4>2, <1>0, <1>n, <1>3, <1>4
    <3> QED  BY <3>1, <3>2
  <2> QED  BY <2>1, <1>1, <1>5 DEF Indices
<1>11. Down'
  <2>1. state[e] # "down"  BY <1>1 DEF IInv, Down
  <2>2. \A d \in End : state[d] = "down" => d # e  BY <2>1
  <2> QED  BY <2>2, <1>1, <1>3, <1>4 DEF IInv, Down, Peer
<1>12. Numbers'
  <2> SUFFICES ASSUME state["b"] # "down", NEW d \in End, NEW i \in Slot
               PROVE  ring'[d][i].seq < tx_seq'[d]
    BY <1>1 DEF Numbers
  <2>1. ring[d][i].seq < tx_seq[d]  BY DEF IInv, Numbers
  <2>2. ring[d][i].seq \in Int /\ tx_seq[d] \in Nat  BY <1>0, <1>t DEF Typed
  <2>3. CASE d # e  BY <2>1, <2>3, <1>2, <1>4
  <2>4. CASE d = e  BY <2>1, <2>2, <2>4, <1>2, <1>4, <1>n
  <2> QED  BY <2>3, <2>4
<1>13. Fields'
  <2>1. \A d \in End : \A s \in Oldest(d) .. tx_seq'[d] - 1 : Msg(d, s)' \in Msgs
    <3> SUFFICES ASSUME NEW d \in End, NEW s \in Oldest(d) .. tx_seq'[d] - 1
                 PROVE  Msg(d, s) \in Msgs
      <4>1. \A d \in End : Oldest(d) \in Nat  BY Numbered
      <4>2. \A d \in End : \A s \in Oldest(d) .. tx_seq'[d] - 1 : s \in Nat  BY <4>1
      <4> QED  BY <1>6, <4>2
    <3>1. CASE s \in Oldest(d) .. tx_seq[d] - 1  BY <3>1 DEF IInv, Fields
    <3>2. CASE s \notin Oldest(d) .. tx_seq[d] - 1
      <4>1. d = e /\ s = tx_seq[e]  BY <3>2, <1>4, Numbered
      <4> QED  BY <4>1, <1>7
    <3> QED  BY <3>1, <3>2
  <2>2. \A d \in End : /\ pc'[d] \in {"publish", "spin"} => out[d] \in Msgs
                       /\ pc'[d] = "spin" => out[d].cmd # "data"
    BY <1>3 DEF IInv, Fields
  <2>3. ASSUME NEW d \in End, pc'[d] = "publish"
        PROVE  Msg(d, tx_seq[d])' = out[d]
    <3>1. d # e /\ tx_seq'[d] = tx_seq[d] /\ tx_seq[d] \in Nat /\ pc[d] = "publish"
      BY <2>3, <1>3, <1>4, <1>t DEF Typed
    <3>2. Msg(d, tx_seq[d])' = ring'[d][tx_seq[d] % Slots].msg  BY <3>1 DEF Msg
    <3>3. Msg(d, tx_seq[d])' = Msg(d, tx_seq[d])  BY <3>2, <3>1, <1>2, SlotOf DEF Msg
    <3> QED  BY <3>1, <3>3 DEF IInv, Fields
  <2>4. ASSUME NEW d \in End, pc'[Peer(d)] = "ack"
        PROVE  got[Peer(d)] = Msg(d, Oldest(d))'
    <3>1. pc[Peer(d)] = "ack"  BY <2>4, <1>3, PeerIs
    <3>2. PICK o \in Nat : o = Oldest(d)  BY Numbered
    <3>3. Msg(d, Oldest(d))' = ring'[d][o % Slots].msg  BY <3>2, <1>5 DEF Msg
    <3>4. Msg(d, Oldest(d))' = Msg(d, Oldest(d))  BY <3>2, <3>3, <1>2, SlotOf DEF Msg
    <3> QED  BY <3>1, <3>4 DEF IInv, Fields
  <2> QED  BY <1>1, <1>5, <2>1, <2>2, <2>3, <2>4 DEF Fields, Peer
<1>14. Holds'
  <2>1. \A b \in Buffers : Carries(out[e], b) => holder[b] = e  BY <1>1 DEF IInv, Holds
  <2>2. \A b \in Buffers : Carries(out[e], b) => \A d \in End, s \in Nat : ~At(d, s, b)
    BY <2>1 DEF IInv, Holds, End
  <2>3. \A b \in Buffers : holder'[b] = IF Carries(out[e], b) THEN "flight" ELSE holder[b]
    BY <1>1
  <2>4. ASSUME NEW b \in Buffers
        PROVE  holder'[b] = "flight" <=> \E d \in End, s \in Nat : At(d, s, b)'
    <3>1. CASE Carries(out[e], b)
      <4>1. PICK t \in Nat : t = tx_seq[e]  BY <1>n
      <4>2. At(e, t, b)'  BY <3>1, <4>1, <1>8
      <4> QED  BY <3>1, <2>3, <4>2
    <3>2. CASE ~Carries(out[e], b)
      <4>1. \A d \in End, s \in Nat : At(d, s, b)' <=> At(d, s, b)  BY <3>2, <1>8
      <4>2. holder'[b] = holder[b]  BY <3>2, <2>3
      <4> QED  BY <4>1, <4>2 DEF IInv, Holds
    <3> QED  BY <3>1, <3>2
  <2>5. ASSUME NEW b \in Buffers, NEW c \in End, NEW d \in End, NEW r \in Nat, NEW s \in Nat,
               At(c, r, b)', At(d, s, b)'
        PROVE  c = d /\ r = s
    <3>1. /\ At(c, r, b) \/ (c = e /\ r = tx_seq[e] /\ Carries(out[e], b))
          /\ At(d, s, b) \/ (d = e /\ s = tx_seq[e] /\ Carries(out[e], b))
      BY <1>8, <2>5
    <3>2. CASE Carries(out[e], b)  BY <3>1, <3>2, <2>2
    <3>3. CASE ~Carries(out[e], b)  BY <3>1, <3>3 DEF IInv, Holds
    <3> QED  BY <3>2, <3>3
  <2>6. ASSUME NEW d \in End, NEW b \in Buffers, pc'[d] = "publish", Carries(out[d], b)
        PROVE  holder'[b] = d
    <3>1. d # e /\ pc[d] = "publish"  BY <2>6, <1>3
    <3>2. holder[b] = d  BY <3>1, <2>6 DEF IInv, Holds
    <3> QED  BY <3>1, <3>2, <2>1, <2>3
  <2>7. \A d \in End, b \in Buffers : (pc[d] = "publish" /\ Carries(out[d], b) => holder[b] = d)'
    BY <2>6, <1>1 DEF Carries
  <2> QED  BY <2>4, <2>5, <2>7, Zenon DEF Holds
<1>15. IInv'  BY <1>9, <1>10, <1>11, <1>12, <1>13, <1>14 DEF IInv
<1> QED  BY <1>15, <1>6, <1>7

(* A slot's number is the reader's only evidence that it was published. *)
LEMMA CanReadSent ==
  ASSUME IInv, NEW e \in End, state[e] # "down", CanRead(e)
  PROVE  rx_seq[e] < tx_seq[Peer(e)]
<1>1. state["b"] # "down"  BY DEF IInv, Down, End
<1>2. Peer(e) \in End /\ rx_seq[e] \in Nat  BY PeerIs DEF IInv, Typed
<1>3. PICK i \in Slot : i = rx_seq[e] % Slots  BY <1>2, SlotOf
<1>4. ring[Peer(e)][i].seq < tx_seq[Peer(e)]  BY <1>1, <1>2 DEF IInv, Numbers
<1>5. rx_seq[e] <= ring[Peer(e)][i].seq  BY <1>3 DEF CanRead, Rx
<1>6. ring[Peer(e)][i].seq \in Int /\ tx_seq[Peer(e)] \in Nat
  BY <1>2, IpcqAssumption DEF IInv, Typed
<1> QED  BY <1>2, <1>4, <1>5, <1>6

(* Reading takes the oldest message, whose slot stays the reader's. *)
LEMMA ReadIInv ==
  ASSUME IInv, NEW e \in End, Read(e)
  PROVE  /\ IInv' /\ rx_seq[e] < tx_seq[Peer(e)]
         /\ got'[e] = Msg(Peer(e), rx_seq[e]) /\ got'[e] \in Msgs
<1>0. Slots \in Nat /\ Slots >= 2 /\ MaxSeq \in Nat  BY IpcqAssumption
<1>t. Typed  BY DEF IInv
<1>1. /\ state[e] = "up" /\ pc[e] \in {"idle", "again"} /\ CanRead(e)
      /\ got' = [got EXCEPT ![e] = ring[Peer(e)][rx_seq[e] % Slots].msg]
      /\ known' = [known EXCEPT ![e] = KnownAfter(e, got'[e])]
      /\ rx_seq' = [rx_seq EXCEPT ![e] = @ + 1] /\ pc' = [pc EXCEPT ![e] = "ack"]
      /\ UNCHANGED <<ring, ack, state, out, tx_seq, holder>>
  BY DEF Read, Rx
<1>2. PICK p \in End : p = Peer(e) /\ p # e /\ Peer(p) = e /\ \A d \in End : d = e \/ d = p
  BY PeerIs
<1>3. rx_seq[e] < tx_seq[p]  BY <1>1, <1>2, CanReadSent
<1>4. /\ Oldest(p) = rx_seq[e] /\ rx_seq[e] \in Nat \ {0} /\ tx_seq[p] \in Nat
      /\ rx_seq[e] \in Oldest(p) .. tx_seq[p] - 1
  BY <1>1, <1>2, <1>3, <1>t DEF Oldest, NextRead, Typed
<1>5. got'[e] = Msg(p, rx_seq[e]) /\ got'[e] \in Msgs /\ got' \in [End -> Msgs \union {NULL}]
      /\ got'[p] = got[p]
  <2>1. Msg(p, rx_seq[e]) \in Msgs  BY <1>4 DEF IInv, Fields
  <2>2. PICK m \in Msgs : m = Msg(p, rx_seq[e])  BY <2>1
  <2>3. got' = [got EXCEPT ![e] = m]  BY <1>1, <1>2, <2>2 DEF Msg
  <2> QED  BY <2>2, <2>3, <1>2, <1>t, Zenon DEF Typed
<1>6. /\ pc'[e] = "ack" /\ pc' \in [End -> {"idle", "publish", "spin", "ack", "again"}]
      /\ pc'[p] = pc[p]
  BY <1>1, <1>2, <1>t DEF Typed
<1>7. /\ rx_seq' \in [End -> Nat \ {0}] /\ rx_seq'[e] = rx_seq[e] + 1 /\ rx_seq'[p] = rx_seq[p]
  BY <1>1, <1>2, <1>t DEF Typed
<1>8. \A d \in End : Oldest(d)' = Oldest(d)
  <2>1. Oldest(p)' = Oldest(p)
    <3>1. Oldest(p)' = IF pc'[e] = "ack" THEN rx_seq'[e] - 1 ELSE rx_seq'[e]
      BY <1>2 DEF Oldest, NextRead, Peer
    <3> QED  BY <3>1, <1>4, <1>6, <1>7
  <2>2. Oldest(e)' = Oldest(e)
    <3>1. Oldest(e)' = IF pc'[p] = "ack" THEN rx_seq'[p] - 1 ELSE rx_seq'[p]
      BY <1>2 DEF Oldest, NextRead, Peer
    <3> QED  BY <3>1, <1>2, <1>6, <1>7 DEF Oldest, NextRead
  <2> QED  BY <1>2, <2>1, <2>2
<1>9. NextRead(p)' = rx_seq[e] + 1 /\ NextRead(e)' = NextRead(e)
  BY <1>2, <1>7 DEF NextRead, Peer
<1>10. /\ \A d \in End, s \in Nat : Msg(d, s)' = Msg(d, s)
       /\ \A d \in End, s \in Nat, b \in Buffers : At(d, s, b)' <=> At(d, s, b)
  <2>1. \A d \in End, s \in Nat : Msg(d, s)' = Msg(d, s)  BY <1>1 DEF Msg
  <2> QED  BY <2>1, <1>1, <1>8 DEF At, Carries
<1>11. Typed'
  <2>1. KnownAfter(e, got'[e]) \in [Rids -> Regions \union {NULL}]
    <3>1. PICK m \in Msgs : m = got'[e]  BY <1>5
    <3>2. known[e] \in [Rids -> Regions \union {NULL}]  BY <1>t DEF Typed
    <3>3. m.cmd = "reg" => m.rid \in Rids /\ m.item \in Regions  BY DEF Msgs, DataMsgs
    <3> QED  BY <3>1, <3>2, <3>3 DEF KnownAfter
  <2>2. known' \in [End -> [Rids -> Regions \union {NULL}]]
    BY <1>1, <2>1, <1>t DEF Typed
  <2> QED  BY <2>2, <1>1, <1>5, <1>6, <1>7, <1>t DEF Typed
<1>12. Indices'
  <2>1. ASSUME NEW d \in End
        PROVE  /\ NextRead(d)' <= tx_seq[d]
               /\ ack[d] <= Oldest(d) /\ tx_seq[d] - ack[d] <= Slots
               /\ tx_seq[d] <= MaxSeq + 1
               /\ pc'[d] = "publish" => tx_seq[d] - ack[d] < Slots
               /\ pc'[d] \in {"publish", "spin"} => tx_seq[d] <= MaxSeq
    <3>1. NextRead(d)' <= tx_seq[d]
      <4>1. CASE d = e  BY <4>1, <1>9 DEF IInv, Indices
      <4>2. CASE d = p  BY <4>2, <1>9, <1>3, <1>4
      <4> QED  BY <1>2, <4>1, <4>2
    <3> QED  BY <3>1, <1>2, <1>6 DEF IInv, Indices
  <2> QED  BY <2>1, <1>1, <1>8 DEF Indices
<1>13. Down'
  <2>1. \A d \in End : state[d] = "down" => d = p  BY <1>1, <1>2
  <2> QED  BY <2>1, <1>1, <1>2, <1>6, <1>7 DEF IInv, Down, Peer
<1>14. Numbers'  BY <1>1 DEF IInv, Numbers
<1>15. Fields'
  <2>1. \A d \in End : \A s \in Oldest(d) .. tx_seq[d] - 1 : Msg(d, s)' \in Msgs
    <3>1. \A d \in End : Oldest(d) \in Nat  BY Numbered
    <3>2. \A d \in End : \A s \in Oldest(d) .. tx_seq[d] - 1 : s \in Nat  BY <3>1
    <3> QED  BY <3>2, <1>10 DEF IInv, Fields
  <2>2. \A d \in End : /\ pc'[d] \in {"publish", "spin"} => out[d] \in Msgs
                       /\ pc'[d] = "spin" => out[d].cmd # "data"
    BY <1>2, <1>6 DEF IInv, Fields
  <2>3. \A d \in End : pc'[d] = "publish" => Msg(d, tx_seq[d])' = out[d]
    <3>1. \A d \in End : Msg(d, tx_seq[d])' = Msg(d, tx_seq[d])  BY <1>1 DEF Msg
    <3> QED  BY <3>1, <1>2, <1>6 DEF IInv, Fields
  <2>4. ASSUME NEW d \in End, pc'[Peer(d)] = "ack"
        PROVE  got'[Peer(d)] = Msg(d, Oldest(d))'
    <3>1. Msg(d, Oldest(d))' = Msg(d, Oldest(d))  BY <1>1, <1>8 DEF Msg
    <3>2. CASE d = p  BY <3>1, <3>2, <1>2, <1>4, <1>5
    <3>3. CASE d = e  BY <2>4, <3>1, <3>3, <1>2, <1>5, <1>6 DEF IInv, Fields
    <3> QED  BY <1>2, <3>2, <3>3
  <2> QED  BY <1>1, <1>8, <2>1, <2>2, <2>3, <2>4 DEF Fields, Peer
<1>16. Holds'
  <2>1. ASSUME NEW d \in End, NEW b \in Buffers, pc'[d] = "publish", Carries(out'[d], b)
        PROVE  holder'[b] = d
    <3>1. pc[d] = "publish" /\ Carries(out[d], b)  BY <2>1, <1>1, <1>2, <1>6
    <3> QED  BY <3>1, <1>1 DEF IInv, Holds
  <2>2. \A b \in Buffers : holder'[b] = "flight" <=> holder[b] = "flight"  BY <1>1
  <2> QED  BY <1>10, <2>1, <2>2, SameHolds, Zenon
<1>17. IInv'  BY <1>11, <1>12, <1>13, <1>14, <1>15, <1>16 DEF IInv
<1> QED  BY <1>2, <1>3, <1>5, <1>17

(* Giving up the slot: the message leaves the ring, and a buffer in it is  *)
(* the reader's, or is lost.                                               *)
LEMMA AckIInv ==
  ASSUME IInv, NEW e \in End, Ack(e)
  PROVE  IInv'
<1>0. Slots \in Nat /\ Slots >= 2 /\ MaxSeq \in Nat  BY IpcqAssumption
<1>t. Typed  BY DEF IInv
<1>1. /\ pc[e] = "ack" /\ ack' = [ack EXCEPT ![Peer(e)] = rx_seq[e]]
      /\ UNCHANGED <<ring, state, out, got, tx_seq, rx_seq, known>>
  BY DEF Ack, AckValue
<1>2. PICK p \in End : p = Peer(e) /\ p # e /\ Peer(p) = e /\ \A d \in End : d = e \/ d = p
  BY PeerIs
<1>3. /\ Oldest(p) = rx_seq[e] - 1 /\ rx_seq[e] \in Nat \ {0} /\ tx_seq[p] \in Nat
      /\ rx_seq[e] <= tx_seq[p] /\ Oldest(p) \in Oldest(p) .. tx_seq[p] - 1
  BY <1>1, <1>2, <1>t, Numbered DEF Oldest, NextRead, Typed
<1>4. got[e] = Msg(p, Oldest(p)) /\ got[e] \in Msgs  BY <1>1, <1>2, <1>3 DEF IInv, Fields
<1>5. /\ pc'[e] \in {"idle", "again"} /\ pc' \in [End -> {"idle", "publish", "spin", "ack", "again"}]
      /\ pc'[p] = pc[p]
  BY <1>2, <1>t DEF Ack, Typed
<1>6. ack' \in [End -> Nat] /\ ack'[p] = rx_seq[e] /\ ack'[e] = ack[e]
  BY <1>1, <1>2, <1>3, <1>t DEF Typed
<1>7. /\ Oldest(p)' = rx_seq[e] /\ Oldest(e)' = Oldest(e)
      /\ \A d \in End : NextRead(d)' = NextRead(d)
  <2>1. Oldest(p)' = IF pc'[e] = "ack" THEN rx_seq'[e] - 1 ELSE rx_seq'[e]
    BY <1>2 DEF Oldest, NextRead, Peer
  <2>2. Oldest(e)' = IF pc'[p] = "ack" THEN rx_seq'[p] - 1 ELSE rx_seq'[p]
    BY <1>2 DEF Oldest, NextRead, Peer
  <2>3. \A d \in End : NextRead(d)' = NextRead(d)  BY <1>1 DEF NextRead, Peer
  <2> QED  BY <2>1, <2>2, <2>3, <1>1, <1>2, <1>5 DEF Oldest, NextRead
<1>8. \A d \in End, s \in Nat : Msg(d, s)' = Msg(d, s)  BY <1>1 DEF Msg
<1>9. \A d \in End : \A s \in Nat : s \in Oldest(d)' .. tx_seq[d] - 1 <=>
        s \in Oldest(d) .. tx_seq[d] - 1 /\ ~(d = p /\ s = Oldest(p))
  BY <1>2, <1>3, <1>7
<1>10. \A d \in End, s \in Nat, b \in Buffers :
         At(d, s, b)' <=> At(d, s, b) /\ ~(d = p /\ s = Oldest(p))
  <2> SUFFICES ASSUME NEW d \in End, NEW s \in Nat, NEW b \in Buffers
               PROVE  At(d, s, b)' <=> At(d, s, b) /\ ~(d = p /\ s = Oldest(p))
    OBVIOUS
  <2>1. At(d, s, b)' <=> s \in Oldest(d)' .. tx_seq[d] - 1 /\ Carries(Msg(d, s), b)
    BY <1>1, <1>8 DEF At, Carries
  <2> QED  BY <2>1, <1>9 DEF At
<1>11. \A b \in Buffers : At(p, Oldest(p), b) <=> Carries(got[e], b)
  BY <1>3, <1>4 DEF At
<1>12. /\ holder' \in [Buffers -> End \union {"none", "flight", "lost"}]
       /\ \A b \in Buffers : IF Carries(got[e], b) THEN holder'[b] \in {e, "lost"}
                                                   ELSE holder'[b] = holder[b]
  <2>1. CASE got[e].cmd = "data"
    <3>1. got[e].item \in Buffers  BY <2>1, <1>4 DEF Msgs, DataMsgs
    <3>2. PICK v \in {e, "lost"} : holder' = [holder EXCEPT ![got[e].item] = v]
      BY <2>1 DEF Ack
    <3> QED  BY <2>1, <3>1, <3>2, <1>t DEF Typed, Carries
  <2>2. CASE got[e].cmd # "data"
    <3>1. holder' = holder  BY <2>2 DEF Ack
    <3> QED  BY <2>2, <3>1, <1>t DEF Typed, Carries
  <2> QED  BY <2>1, <2>2
<1>13. Typed'  BY <1>1, <1>5, <1>6, <1>12, <1>t DEF Typed
<1>14. Indices'
  <2>1. ASSUME NEW d \in End
        PROVE  /\ NextRead(d) <= tx_seq[d]
               /\ ack'[d] <= Oldest(d)' /\ tx_seq[d] - ack'[d] <= Slots
               /\ tx_seq[d] <= MaxSeq + 1
               /\ pc'[d] = "publish" => tx_seq[d] - ack'[d] < Slots
               /\ pc'[d] \in {"publish", "spin"} => tx_seq[d] <= MaxSeq
    <3>1. CASE d = e  BY <3>1, <1>5, <1>6, <1>7 DEF IInv, Indices
    <3>2. CASE d = p
      <4>1. ack[p] \in Nat /\ ack[p] <= rx_seq[e]  BY <1>3, <1>2, Numbered
      <4>2. /\ NextRead(p) <= tx_seq[p] /\ tx_seq[p] - ack[p] <= Slots /\ tx_seq[p] <= MaxSeq + 1
            /\ pc[p] = "publish" => tx_seq[p] - ack[p] < Slots
            /\ pc[p] \in {"publish", "spin"} => tx_seq[p] <= MaxSeq
        BY DEF IInv, Indices
      <4> QED  BY <3>2, <4>1, <4>2, <1>0, <1>3, <1>5, <1>6, <1>7
    <3> QED  BY <1>2, <3>1, <3>2
  <2> QED  BY <2>1, <1>1, <1>7 DEF Indices
<1>15. Down'
  <2>1. state[e] # "down"  BY <1>1 DEF IInv, Down
  <2>2. \A d \in End : state[d] = "down" => d = p /\ Peer(d) = e  BY <2>1, <1>2
  <2> QED  BY <2>2, <1>1, <1>2, <1>5, <1>6 DEF IInv, Down, Peer
<1>16. Numbers'  BY <1>1 DEF IInv, Numbers
<1>17. Fields'
  <2>1. \A d \in End : \A s \in Oldest(d)' .. tx_seq[d] - 1 : Msg(d, s)' \in Msgs
    <3>1. \A d \in End : Oldest(d)' \in Nat  BY <1>2, <1>3, <1>7, Numbered
    <3>2. \A d \in End : \A s \in Oldest(d)' .. tx_seq[d] - 1 : s \in Nat  BY <3>1
    <3> QED  BY <3>2, <1>8, <1>9 DEF IInv, Fields
  <2>2. \A d \in End : /\ pc'[d] \in {"publish", "spin"} => out[d] \in Msgs
                       /\ pc'[d] = "spin" => out[d].cmd # "data"
    BY <1>2, <1>5 DEF IInv, Fields
  <2>3. \A d \in End : pc'[d] = "publish" => Msg(d, tx_seq[d])' = out[d]
    <3>1. \A d \in End : Msg(d, tx_seq[d])' = Msg(d, tx_seq[d])  BY <1>1 DEF Msg
    <3> QED  BY <3>1, <1>2, <1>5 DEF IInv, Fields
  <2>4. ASSUME NEW d \in End, pc'[Peer(d)] = "ack"
        PROVE  got[Peer(d)] = Msg(d, Oldest(d))'
    <3>1. d = e  BY <2>4, <1>2, <1>5
    <3>2. Msg(d, Oldest(d))' = Msg(d, Oldest(d))  BY <3>1, <1>1, <1>7 DEF Msg
    <3> QED  BY <2>4, <3>1, <3>2, <1>2, <1>5 DEF IInv, Fields
  <2> QED  BY <1>1, <2>1, <2>2, <2>3, <2>4 DEF Fields, Peer
<1>18. Holds'
  <2>0. Oldest(p) \in Nat  BY Numbered
  <2>1. \A b \in Buffers : Carries(got[e], b) =>
          holder[b] = "flight" /\ \A d \in End, s \in Nat : ~At(d, s, b)'
    <3> SUFFICES ASSUME NEW b \in Buffers, Carries(got[e], b)
                 PROVE  holder[b] = "flight" /\ \A d \in End, s \in Nat : ~At(d, s, b)'
      OBVIOUS
    <3>1. PICK o \in Nat : o = Oldest(p) /\ At(p, o, b)  BY <2>0, <1>11
    <3>2. \A d \in End, s \in Nat : At(d, s, b) => d = p /\ s = o  BY <3>1 DEF IInv, Holds
    <3>3. holder[b] = "flight"  BY <3>1 DEF IInv, Holds
    <3> QED  BY <3>1, <3>2, <3>3, <1>10
  <2>2. ASSUME NEW b \in Buffers
        PROVE  holder'[b] = "flight" <=> \E d \in End, s \in Nat : At(d, s, b)'
    <3>1. CASE Carries(got[e], b)  BY <3>1, <2>1, <1>12 DEF End
    <3>2. CASE ~Carries(got[e], b)
      <4>1. \A d \in End, s \in Nat : At(d, s, b)' <=> At(d, s, b)  BY <3>2, <1>10, <1>11
      <4>2. holder'[b] = holder[b]  BY <3>2, <1>12
      <4> QED  BY <4>1, <4>2 DEF IInv, Holds
    <3> QED  BY <3>1, <3>2
  <2>3. ASSUME NEW b \in Buffers, NEW c \in End, NEW d \in End, NEW r \in Nat, NEW s \in Nat,
               At(c, r, b)', At(d, s, b)'
        PROVE  c = d /\ r = s
    <3>1. At(c, r, b) /\ At(d, s, b)  BY <2>3, <1>10
    <3> QED  BY <3>1 DEF IInv, Holds
  <2>4. ASSUME NEW d \in End, NEW b \in Buffers, pc'[d] = "publish", Carries(out[d], b)
        PROVE  holder'[b] = d
    <3>1. pc[d] = "publish"  BY <2>4, <1>2, <1>5
    <3>2. holder[b] = d  BY <3>1, <2>4 DEF IInv, Holds
    <3>3. ~Carries(got[e], b)  BY <3>2, <2>1 DEF End
    <3> QED  BY <3>2, <3>3, <1>12
  <2>5. \A d \in End, b \in Buffers : (pc[d] = "publish" /\ Carries(out[d], b) => holder[b] = d)'
    BY <2>4, <1>1 DEF Carries
  <2> QED  BY <2>2, <2>3, <2>5, Zenon DEF Holds
<1> QED  BY <1>13, <1>14, <1>15, <1>16, <1>17, <1>18 DEF IInv

(* Every step keeps the invariant, and only publishing and reading change  *)
(* what is under way.                                                      *)
LEMMA StepIInv ==
  ASSUME IInv, OrderedStart = TRUE, [Next]_vars
  PROVE  IInv' /\ (Kept \/ \E e \in End : Publish(e) \/ Read(e))
<1>1. CASE UNCHANGED vars
  <2>1. UNCHANGED <<ring, ack, state, pc, out, got, tx_seq, rx_seq, known, holder>>
    BY <1>1 DEF vars
  <2>2. Typed' /\ Down' /\ Numbers'  BY <2>1 DEF IInv, Typed, Down, Numbers, Peer
  <2>3. Indices' /\ Fields'  BY <2>1 DEF IInv, Indices, Fields, NextRead, Oldest, Msg, Peer
  <2>4. \A e \in End, s \in Nat, b \in Buffers : At(e, s, b)' <=> At(e, s, b)
    BY <2>1 DEF At, Msg, Oldest, NextRead, Carries, Peer
  <2>5. \A e \in End, b \in Buffers :
          pc'[e] = "publish" /\ Carries(out'[e], b) => holder'[b] = e
    BY <2>1 DEF IInv, Holds
  <2>6. \A b \in Buffers : holder'[b] = "flight" <=> holder[b] = "flight"  BY <2>1
  <2>7. Holds'  BY <2>4, <2>5, <2>6, SameHolds, Zenon
  <2>8. Kept  BY <2>1 DEF Kept
  <2> QED  BY <2>2, <2>3, <2>7, <2>8 DEF IInv
<1>2. ASSUME NEW e \in End,
             \/ Create(e) \/ Destroy(e)
             \/ \E i \in Rids, b \in Buffers : Enqueue(e, i, b)
             \/ \E i \in Rids, r \in Regions : Register(e, i, r)
             \/ \E i \in Rids : Deregister(e, i)
             \/ SpinDone(e) \/ Publish(e) \/ Read(e) \/ Ack(e) \/ ReturnEmpty(e)
      PROVE  IInv' /\ (Kept \/ \E d \in End : Publish(d) \/ Read(d))
  <2>1. CASE Create(e)  BY <2>1, CreateIInv
  <2>2. CASE \/ Destroy(e) \/ ReturnEmpty(e)
             \/ \E i \in Rids, r \in Regions : Register(e, i, r)
             \/ \E i \in Rids : Deregister(e, i)
    <3>1. IInv'  BY <2>2, QuietStepIInv
    <3>2. UNCHANGED <<ring, got, tx_seq, rx_seq>>
      BY <2>2 DEF Destroy, ReturnEmpty, Register, Deregister
    <3> QED  BY <3>1, <3>2 DEF Kept
  <2>3. CASE SpinDone(e) \/ \E i \in Rids, b \in Buffers : Enqueue(e, i, b)
    BY <2>3, StoreStepIInv
  <2>4. CASE Publish(e)  BY <2>4, PublishIInv
  <2>5. CASE Read(e)  BY <2>5, ReadIInv
  <2>6. CASE Ack(e)
    <3>1. IInv'  BY <2>6, AckIInv
    <3>2. UNCHANGED <<ring, got, tx_seq, rx_seq>>  BY <2>6 DEF Ack
    <3> QED  BY <3>1, <3>2 DEF Kept
  <2> QED  BY <1>2, <2>1, <2>2, <2>3, <2>4, <2>5, <2>6
<1> QED  BY <1>1, <1>2 DEF Next

(* For every ring size, number of messages and content of the memory, the  *)
(* rings' indices, slot numbers, slot contents and the buffers' holders    *)
(* stay consistent, provided the end that clears the memory is started     *)
(* first (ipcq_create, ipcq_enqueue_internal, ipcq_dequeue).               *)
THEOREM IpcqInvariant ==
  ASSUME OrderedStart = TRUE
  PROVE  Spec => []IInv
<1>1. Init => IInv  BY InitIInv
<1>2. IInv /\ [Next]_vars => IInv'  BY StepIInv
<1> QED  BY <1>1, <1>2, PTL DEF Spec

(***************************************************************************)
(* What is under way, as a sequence.                                       *)
(***************************************************************************)

(* The messages sent and not read are a sequence of messages. *)
LEMMA InFlightIs ==
  ASSUME IInv, NEW e \in End
  PROVE  /\ InFlight(e) \in Seq(Msgs)
         /\ Len(InFlight(e)) = tx_seq[e] - rx_seq[Peer(e)]
         /\ \A k \in 1 .. tx_seq[e] - rx_seq[Peer(e)] :
              InFlight(e)[k] = Msg(e, rx_seq[Peer(e)] + (k - 1))
<1>1. PICK r \in Nat, t \in Nat : r = rx_seq[Peer(e)] /\ t = tx_seq[e] /\ r <= t /\ Oldest(e) <= r
  BY Numbered
<1>2. InFlight(e) = [k \in 1 .. t - r |-> ring[e][(r + (k - 1)) % Slots].msg]
  BY <1>1 DEF InFlight
<1>3. ASSUME NEW k \in 1 .. t - r
      PROVE  ring[e][(r + (k - 1)) % Slots].msg \in Msgs
             /\ ring[e][(r + (k - 1)) % Slots].msg = Msg(e, r + (k - 1))
  <2>1. Oldest(e) \in Nat  BY Numbered
  <2>2. PICK s \in Oldest(e) .. tx_seq[e] - 1 : s = r + (k - 1)  BY <1>1, <2>1
  <2> QED  BY <2>2 DEF IInv, Fields, Msg
<1>4. InFlight(e) \in [1 .. t - r -> Msgs]  BY <1>2, <1>3
<1>5. t - r \in Nat  BY <1>1
<1>6. InFlight(e) \in Seq(Msgs) /\ Len(InFlight(e)) = t - r  BY <1>4, <1>5
<1>7. \A k \in 1 .. t - r : InFlight(e)[k] = Msg(e, r + (k - 1))  BY <1>2, <1>3
<1> QED  BY <1>1, <1>6, <1>7

(* The same by slots. *)
FlightSlots ==
  \A d \in End : /\ InFlight(d) \in Seq(Msgs)
                 /\ Len(InFlight(d)) = tx_seq[d] - rx_seq[Peer(d)]
                 /\ \A k \in 1 .. tx_seq[d] - rx_seq[Peer(d)] :
                      InFlight(d)[k] = ring[d][(rx_seq[Peer(d)] + (k - 1)) % Slots].msg

(* What is under way lies in consecutive slots. *)
LEMMA InFlightSlots == IInv => FlightSlots
BY InFlightIs DEF Msg, FlightSlots

(* ... after a step as well. *)
LEMMA InFlightNext ==
  ASSUME IInv', NEW e \in End
  PROVE  /\ InFlight(e)' \in Seq(Msgs)
         /\ Len(InFlight(e)') = tx_seq'[e] - rx_seq'[Peer(e)]
         /\ \A k \in 1 .. tx_seq'[e] - rx_seq'[Peer(e)] :
              InFlight(e)'[k] = ring'[e][(rx_seq'[Peer(e)] + (k - 1)) % Slots].msg
<1>1. IInv' => FlightSlots'  BY InFlightSlots, PTL
<1> QED  BY <1>1 DEF FlightSlots, Msgs, DataMsgs, Buffers, Peer, End

(* A step that keeps the messages keeps their sequence. *)
LEMMA KeptInFlight ==
  ASSUME IInv, IInv', Kept, NEW e \in End
  PROVE  InFlight(e)' = InFlight(e) /\ got' = got
<1>1. PICK r \in Nat, t \in Nat : r = rx_seq[Peer(e)] /\ t = tx_seq[e] /\ r <= t /\ Oldest(e) <= r
  BY Numbered
<1>2. rx_seq'[Peer(e)] = r /\ tx_seq'[e] = t /\ got' = got  BY <1>1 DEF Kept
<1>3. /\ InFlight(e) \in Seq(Msgs) /\ Len(InFlight(e)) = t - r
      /\ \A k \in 1 .. t - r : InFlight(e)[k] = Msg(e, r + (k - 1))
  BY <1>1, InFlightIs
<1>4. /\ InFlight(e)' \in Seq(Msgs) /\ Len(InFlight(e)') = t - r
      /\ \A k \in 1 .. t - r : InFlight(e)'[k] = ring'[e][(r + (k - 1)) % Slots].msg
  BY <1>2, InFlightNext
<1>5. ASSUME NEW k \in 1 .. t - r
      PROVE  InFlight(e)'[k] = InFlight(e)[k]
  <2>1. Oldest(e) \in Nat  BY Numbered
  <2>2. PICK s \in Oldest(e) .. tx_seq[e] - 1 : s = r + (k - 1)  BY <1>1, <2>1
  <2>3. ring'[e][s % Slots].msg = ring[e][s % Slots].msg  BY DEF Kept
  <2>4. InFlight(e)[k] = ring[e][s % Slots].msg  BY <1>3, <2>2 DEF Msg
  <2>5. InFlight(e)'[k] = ring'[e][s % Slots].msg  BY <1>4, <2>2
  <2> QED  BY <2>3, <2>4, <2>5
<1>6. InFlight(e)' = InFlight(e)  BY <1>3, <1>4, <1>5, SeqEqual
<1> QED  BY <1>2, <1>6

(* Publishing appends to the sender's channel and leaves the other alone. *)
LEMMA PublishSends ==
  ASSUME IInv, NEW e \in End, Publish(e)
  PROVE  /\ out[e] \in Msgs /\ Len(InFlight(e)) < Slots
         /\ InFlight(e)' = Append(InFlight(e), out[e])
         /\ InFlight(Peer(e))' = InFlight(Peer(e)) /\ got' = got
<1>1. /\ IInv' /\ out[e] \in Msgs /\ Msg(e, tx_seq[e]) = out[e]
      /\ \A d \in End, s \in Nat : Msg(d, s)' = Msg(d, s)
  BY PublishIInv
<1>2. PICK p \in End : p = Peer(e) /\ p # e /\ Peer(p) = e  BY PeerIs
<1>3. /\ pc[e] = "publish" /\ tx_seq' = [tx_seq EXCEPT ![e] = @ + 1]
      /\ rx_seq' = rx_seq /\ got' = got
  BY DEF Publish
<1>4. PICK r \in Nat, t \in Nat :
        r = rx_seq[p] /\ t = tx_seq[e] /\ r <= t /\ ack[e] <= r /\ ack[e] \in Nat
  BY <1>2, Numbered
<1>5. tx_seq'[e] = t + 1 /\ tx_seq'[p] = tx_seq[p] /\ t - ack[e] < Slots
  BY <1>2, <1>3, <1>4 DEF IInv, Typed, Indices
<1>6. t - r < Slots  BY <1>4, <1>5, IpcqAssumption
<1>7. /\ InFlight(e) \in Seq(Msgs) /\ Len(InFlight(e)) = t - r
      /\ \A k \in 1 .. t - r : InFlight(e)[k] = Msg(e, r + (k - 1))
  BY <1>2, <1>4, InFlightIs
<1>8. /\ InFlight(e)' \in Seq(Msgs) /\ Len(InFlight(e)') = t + 1 - r
      /\ \A k \in 1 .. t + 1 - r : InFlight(e)'[k] = ring'[e][(r + (k - 1)) % Slots].msg
  <2>1. rx_seq'[Peer(e)] = r /\ tx_seq'[e] = t + 1  BY <1>2, <1>3, <1>4, <1>5
  <2>2. PICK u \in Nat : u = t + 1  BY <1>4
  <2>3. tx_seq'[e] = u  BY <2>1, <2>2
  <2>4. /\ InFlight(e)' \in Seq(Msgs) /\ Len(InFlight(e)') = u - r
        /\ \A k \in 1 .. u - r : InFlight(e)'[k] = ring'[e][(r + (k - 1)) % Slots].msg
    BY <2>1, <2>3, <1>1, InFlightNext
  <2> QED  BY <2>2, <2>4
<1>9. \A s \in Nat, d \in End : ring'[d][s % Slots].msg = Msg(d, s)
  BY <1>1 DEF Msg
<1>10. /\ Append(InFlight(e), out[e]) \in Seq(Msgs)
       /\ Len(Append(InFlight(e), out[e])) = t - r + 1
       /\ \A k \in 1 .. t - r : Append(InFlight(e), out[e])[k] = InFlight(e)[k]
       /\ Append(InFlight(e), out[e])[t - r + 1] = out[e]
  BY <1>1, <1>7, AppendProperties
<1>11. ASSUME NEW k \in 1 .. t + 1 - r
       PROVE  InFlight(e)'[k] = Append(InFlight(e), out[e])[k]
  <2>1. r + (k - 1) \in Nat  BY <1>4
  <2>2. InFlight(e)'[k] = Msg(e, r + (k - 1))  BY <2>1, <1>8, <1>9
  <2>3. CASE k \in 1 .. t - r  BY <2>2, <2>3, <1>7, <1>10
  <2>4. CASE k = t - r + 1
    <3>1. r + (k - 1) = t  BY <2>4, <1>4
    <3> QED  BY <3>1, <2>2, <2>4, <1>1, <1>4, <1>10
  <2>5. k \in 1 .. t - r \/ k = t - r + 1  BY <1>4
  <2> QED  BY <2>3, <2>4, <2>5
<1>12. InFlight(e)' = Append(InFlight(e), out[e])
  <2>1. Len(InFlight(e)') = Len(Append(InFlight(e), out[e]))  BY <1>4, <1>8, <1>10
  <2> QED  BY <2>1, <1>8, <1>10, <1>11, SeqEqual
<1>13. InFlight(p)' = InFlight(p)
  <2>1. PICK q \in Nat, u \in Nat : q = rx_seq[e] /\ u = tx_seq[p] /\ q <= u  BY <1>2, Numbered
  <2>2. /\ InFlight(p) \in Seq(Msgs) /\ Len(InFlight(p)) = u - q
        /\ \A k \in 1 .. u - q : InFlight(p)[k] = Msg(p, q + (k - 1))
    BY <1>2, <2>1, InFlightIs
  <2>3. /\ InFlight(p)' \in Seq(Msgs) /\ Len(InFlight(p)') = u - q
        /\ \A k \in 1 .. u - q : InFlight(p)'[k] = ring'[p][(q + (k - 1)) % Slots].msg
    <3>1. rx_seq'[Peer(p)] = q /\ tx_seq'[p] = u  BY <1>2, <1>3, <1>5, <2>1
    <3> QED  BY <3>1, <1>1, InFlightNext
  <2>4. \A k \in 1 .. u - q : q + (k - 1) \in Nat  BY <2>1
  <2>5. \A k \in 1 .. u - q : InFlight(p)'[k] = InFlight(p)[k]  BY <2>2, <2>3, <2>4, <1>9
  <2> QED  BY <2>2, <2>3, <2>5, SeqEqual
<1> QED  BY <1>1, <1>2, <1>3, <1>6, <1>7, <1>12, <1>13

(* Reading takes the head of the peer's channel and leaves the own alone. *)
LEMMA ReadReceives ==
  ASSUME IInv, NEW e \in End, Read(e)
  PROVE  /\ InFlight(Peer(e)) # << >> /\ got'[e] = Head(InFlight(Peer(e)))
         /\ InFlight(Peer(e))' = Tail(InFlight(Peer(e)))
         /\ InFlight(e)' = InFlight(e) /\ got'[Peer(e)] = got[Peer(e)]
<1>1. IInv' /\ rx_seq[e] < tx_seq[Peer(e)] /\ got'[e] = Msg(Peer(e), rx_seq[e])
  BY ReadIInv
<1>2. PICK p \in End : p = Peer(e) /\ p # e /\ Peer(p) = e  BY PeerIs
<1>3. /\ rx_seq' = [rx_seq EXCEPT ![e] = @ + 1] /\ tx_seq' = tx_seq /\ ring' = ring
      /\ got' = [got EXCEPT ![e] = ring[Peer(e)][Rx(e)].msg]
  BY DEF Read
<1>4. PICK r \in Nat, t \in Nat : r = rx_seq[e] /\ t = tx_seq[p] /\ r < t
  BY <1>1, <1>2, Numbered
<1>5. rx_seq'[e] = r + 1 /\ rx_seq'[p] = rx_seq[p] /\ got'[p] = got[p]
  BY <1>2, <1>3, <1>4 DEF IInv, Typed
<1>6. /\ InFlight(p) \in Seq(Msgs) /\ Len(InFlight(p)) = t - r
      /\ \A k \in 1 .. t - r : InFlight(p)[k] = Msg(p, r + (k - 1))
  BY <1>2, <1>4, InFlightIs
<1>7. /\ InFlight(p)' \in Seq(Msgs) /\ Len(InFlight(p)') = t - (r + 1)
      /\ \A k \in 1 .. t - (r + 1) : InFlight(p)'[k] = ring[p][((r + 1) + (k - 1)) % Slots].msg
  <2>1. rx_seq'[Peer(p)] = r + 1 /\ tx_seq'[p] = t  BY <1>2, <1>3, <1>4, <1>5
  <2>2. PICK q \in Nat : q = r + 1  BY <1>4
  <2>3. rx_seq'[Peer(p)] = q  BY <2>1, <2>2
  <2>4. /\ InFlight(p)' \in Seq(Msgs) /\ Len(InFlight(p)') = t - q
        /\ \A k \in 1 .. t - q : InFlight(p)'[k] = ring'[p][(q + (k - 1)) % Slots].msg
    BY <2>1, <2>3, <1>1, InFlightNext
  <2> QED  BY <2>2, <2>4, <1>3
<1>8. InFlight(p) # << >>  BY <1>4, <1>6
<1>9. /\ Tail(InFlight(p)) \in Seq(Msgs) /\ Len(Tail(InFlight(p))) = t - r - 1
      /\ \A k \in 1 .. t - r - 1 : Tail(InFlight(p))[k] = InFlight(p)[k + 1]
  BY <1>6, <1>8, HeadTailProperties
<1>10. ASSUME NEW k \in 1 .. t - r - 1
       PROVE  InFlight(p)'[k] = Tail(InFlight(p))[k]
  <2>1. PICK s \in Nat : s = (r + 1) + (k - 1) /\ s = r + ((k + 1) - 1) /\ k + 1 \in 1 .. t - r
    BY <1>4
  <2>2. InFlight(p)'[k] = Msg(p, s)
    <3>1. k \in 1 .. t - (r + 1)  BY <1>4
    <3>2. InFlight(p)'[k] = ring[p][((r + 1) + (k - 1)) % Slots].msg  BY <1>7, <3>1
    <3> QED  BY <2>1, <3>2 DEF Msg
  <2>3. InFlight(p)[k + 1] = Msg(p, s)  BY <1>6, <2>1
  <2> QED  BY <2>2, <2>3, <1>9
<1>11. InFlight(p)' = Tail(InFlight(p))
  <2>1. Len(InFlight(p)') = Len(Tail(InFlight(p))) /\ Len(InFlight(p)') = t - r - 1
    BY <1>4, <1>7, <1>9
  <2> QED  BY <2>1, <1>7, <1>9, <1>10, SeqEqual
<1>12. got'[e] = Head(InFlight(p))
  <2>1. 1 \in 1 .. t - r /\ r + (1 - 1) = r  BY <1>4
  <2>2. InFlight(p)[1] = Msg(p, r)  BY <2>1, <1>6
  <2>3. Head(InFlight(p)) = InFlight(p)[1]  BY <1>6, <1>8
  <2> QED  BY <2>2, <2>3, <1>1, <1>2, <1>4
<1>13. InFlight(e)' = InFlight(e)
  <2>1. PICK q \in Nat, u \in Nat : q = rx_seq[p] /\ u = tx_seq[e] /\ q <= u  BY <1>2, Numbered
  <2>2. InFlight(e)' = [k \in 1 .. u - q |-> ring[e][(q + (k - 1)) % Slots].msg]
    BY <1>2, <1>3, <1>5, <2>1 DEF InFlight, Peer
  <2> QED  BY <1>2, <2>1, <2>2 DEF InFlight
<1> QED  BY <1>2, <1>5, <1>8, <1>11, <1>12, <1>13

(* Every step is a step of each channel, or leaves it alone. *)
LEMMA StepRefines ==
  ASSUME IInv, OrderedStart = TRUE, [Next]_vars
  PROVE  /\ [FifoA!Next]_<<InFlight("a"), got["b"]>>
         /\ [FifoB!Next]_<<InFlight("b"), got["a"]>>
<1>1. IInv' /\ (Kept \/ \E e \in End : Publish(e) \/ Read(e))  BY StepIInv
<1>e. "a" \in End /\ "b" \in End /\ Peer("a") = "b" /\ Peer("b") = "a"  BY PeerIs DEF End
<1>2. CASE Kept
  <2>1. /\ InFlight("a")' = InFlight("a") /\ InFlight("b")' = InFlight("b") /\ got' = got
    BY <1>1, <1>2, <1>e, KeptInFlight
  <2> QED  BY <2>1
<1>3. CASE Publish("a")
  <2>1. /\ out["a"] \in Msgs /\ Len(InFlight("a")) < Slots /\ got' = got
        /\ InFlight("a")' = Append(InFlight("a"), out["a"]) /\ InFlight("b")' = InFlight("b")
    BY <1>3, <1>e, PublishSends
  <2>2. FifoA!Send(out["a"])  BY <2>1 DEF FifoA!Send
  <2> QED  BY <2>1, <2>2 DEF FifoA!Next
<1>4. CASE Publish("b")
  <2>1. /\ out["b"] \in Msgs /\ Len(InFlight("b")) < Slots /\ got' = got
        /\ InFlight("b")' = Append(InFlight("b"), out["b"]) /\ InFlight("a")' = InFlight("a")
    BY <1>4, <1>e, PublishSends
  <2>2. FifoB!Send(out["b"])  BY <2>1 DEF FifoB!Send
  <2> QED  BY <2>1, <2>2 DEF FifoB!Next
<1>5. CASE Read("b")
  <2>1. /\ InFlight("a") # << >> /\ got'["b"] = Head(InFlight("a"))
        /\ InFlight("a")' = Tail(InFlight("a"))
        /\ InFlight("b")' = InFlight("b") /\ got'["a"] = got["a"]
    BY <1>5, <1>e, ReadReceives
  <2>2. FifoA!Receive  BY <2>1 DEF FifoA!Receive
  <2> QED  BY <2>1, <2>2 DEF FifoA!Next
<1>6. CASE Read("a")
  <2>1. /\ InFlight("b") # << >> /\ got'["a"] = Head(InFlight("b"))
        /\ InFlight("b")' = Tail(InFlight("b"))
        /\ InFlight("a")' = InFlight("a") /\ got'["b"] = got["b"]
    BY <1>6, <1>e, ReadReceives
  <2>2. FifoB!Receive  BY <2>1 DEF FifoB!Receive
  <2> QED  BY <2>1, <2>2 DEF FifoB!Next
<1> QED  BY <1>1, <1>2, <1>3, <1>4, <1>5, <1>6 DEF End

(* Nothing is under way at first. *)
LEMMA InitRefines == Init => FifoA!Init /\ FifoB!Init
<1> SUFFICES ASSUME Init
             PROVE  /\ InFlight("a") = << >> /\ got["b"] = NULL
                    /\ InFlight("b") = << >> /\ got["a"] = NULL
  BY DEF FifoA!Init, FifoB!Init
<1>1. \A e \in End : InFlight(e) \in Seq(Msgs) /\ Len(InFlight(e)) = 0
  <2>1. \A e \in End : tx_seq[e] = 1 /\ rx_seq[Peer(e)] = 1  BY PeerIs DEF Init
  <2> QED  BY <2>1, InitIInv, InFlightIs
<1>2. \A e \in End : InFlight(e) = << >>  BY <1>1, EmptySeq
<1> QED  BY <1>2 DEF Init, End

(* Each direction of the IPC backend is a FIFO channel, for every ring     *)
(* size and whatever an earlier session left in the shared memory: what    *)
(* one end publishes the other reads once, in order and intact, although   *)
(* the two share only slots, sequence numbers and an ack, and although the *)
(* writer fills a slot before it is published and the reader copies it     *)
(* before it is given up (ipcq_enqueue_internal, ipcq_dequeue).            *)
THEOREM IpcqImplementsFifo ==
  ASSUME OrderedStart = TRUE
  PROVE  Spec => ImplementsFifo
<1>1. Init => FifoA!Init /\ FifoB!Init  BY InitRefines
<1>2. IInv /\ [Next]_vars => /\ [FifoA!Next]_<<InFlight("a"), got["b"]>>
                             /\ [FifoB!Next]_<<InFlight("b"), got["a"]>>
  BY StepRefines
<1> QED  BY <1>1, <1>2, IpcqInvariant, PTL DEF Spec, ImplementsFifo, FifoA!Spec, FifoB!Spec

(***************************************************************************)
(* Every buffer is in one place.                                           *)
(***************************************************************************)

(* A message that carries b is either unread, and then in the sequence of  *)
(* those under way, or the one its reader is about to act upon.            *)
LEMMA AtPlaces ==
  ASSUME IInv, NEW b \in Buffers
  PROVE  /\ \A d \in End, k \in 1 .. Slots :
              k <= Len(InFlight(d)) /\ Carries(InFlight(d)[k], b) <=>
                At(d, NextRead(d) + (k - 1), b)
         /\ \A e \in End : (\E m \in Taking(e) : Carries(m, b)) <=>
              pc[e] = "ack" /\ At(Peer(e), NextRead(Peer(e)) - 1, b)
         /\ \A d \in End, s \in Nat : At(d, s, b) =>
              \/ s - NextRead(d) + 1 \in 1 .. Slots
              \/ s = NextRead(d) - 1 /\ pc[Peer(d)] = "ack"
<1>0. Slots \in Nat  BY IpcqAssumption
<1>1. ASSUME NEW d \in End, NEW k \in 1 .. Slots
      PROVE  k <= Len(InFlight(d)) /\ Carries(InFlight(d)[k], b) <=>
               At(d, NextRead(d) + (k - 1), b)
  <2>1. PICK r \in Nat, t \in Nat, o \in Nat :
          /\ r = NextRead(d) /\ r = rx_seq[Peer(d)] /\ t = tx_seq[d] /\ o = Oldest(d)
          /\ r <= t /\ o <= r
    BY Numbered DEF NextRead
  <2>2. /\ Len(InFlight(d)) = t - r
        /\ \A i \in 1 .. t - r : InFlight(d)[i] = Msg(d, r + (i - 1))
    BY <2>1, InFlightIs
  <2>3. PICK s \in Nat : s = r + (k - 1)  BY <1>0, <2>1
  <2>4. At(d, s, b) <=> s \in o .. t - 1 /\ Carries(Msg(d, s), b)  BY <2>1 DEF At
  <2>5. s \in o .. t - 1 <=> k \in 1 .. t - r  BY <1>0, <2>1, <2>3
  <2>6. k \in 1 .. t - r <=> k <= Len(InFlight(d))  BY <1>0, <2>1, <2>2
  <2> QED  BY <2>1, <2>2, <2>3, <2>4, <2>5, <2>6
<1>2. ASSUME NEW e \in End
      PROVE  (\E m \in Taking(e) : Carries(m, b)) <=>
               pc[e] = "ack" /\ At(Peer(e), NextRead(Peer(e)) - 1, b)
  <2>1. CASE pc[e] # "ack"  BY <2>1 DEF Taking
  <2>2. CASE pc[e] = "ack"
    <3>1. PICK p \in End : p = Peer(e) /\ Peer(p) = e  BY PeerIs
    <3>2. Oldest(p) = NextRead(p) - 1 /\ NextRead(p) = rx_seq[e]  BY <2>2, <3>1 DEF Oldest, NextRead
    <3>3. Oldest(p) \in Oldest(p) .. tx_seq[p] - 1  BY <3>1, <3>2, Numbered
    <3>4. got[e] = Msg(p, Oldest(p))  BY <2>2, <3>1 DEF IInv, Fields
    <3>5. At(p, Oldest(p), b) <=> Carries(got[e], b)  BY <3>3, <3>4 DEF At
    <3>6. Taking(e) = {got[e]}  BY <2>2 DEF Taking
    <3> QED  BY <2>2, <3>1, <3>2, <3>5, <3>6
  <2> QED  BY <2>1, <2>2
<1>3. ASSUME NEW d \in End, NEW s \in Nat, At(d, s, b)
      PROVE  \/ s - NextRead(d) + 1 \in 1 .. Slots
             \/ s = NextRead(d) - 1 /\ pc[Peer(d)] = "ack"
  <2>1. PICK r \in Nat, t \in Nat, a \in Nat :
          r = NextRead(d) /\ t = tx_seq[d] /\ r <= t /\ a = ack[d] /\ a <= Oldest(d) /\ Oldest(d) <= r
    BY Numbered DEF NextRead
  <2>2. t - a <= Slots  BY <2>1 DEF IInv, Indices
  <2>3. s \in Oldest(d) .. t - 1 /\ Oldest(d) \in Nat  BY <1>3, <2>1, Numbered DEF At
  <2>4. CASE s >= r  BY <1>0, <2>1, <2>2, <2>3, <2>4
  <2>5. CASE s < r
    <3>1. pc[Peer(d)] = "ack" /\ Oldest(d) = r - 1  BY <2>1, <2>3, <2>5 DEF Oldest
    <3> QED  BY <3>1, <2>1, <2>3, <2>5
  <2> QED  BY <2>1, <2>3, <2>4, <2>5
<1> QED  BY <1>1, <1>2, <1>3

(* The invariant gives what the run checks. *)
LEMMA ConservedFromIInv == IInv => BuffersConserved
<1> SUFFICES ASSUME IInv PROVE BuffersConserved  OBVIOUS
<1>0. Slots \in Nat  BY IpcqAssumption
<1>1. TypeOK
  <2>1. ASSUME NEW e \in End PROVE tx_seq[e] - rx_seq[Peer(e)] \in 0 .. Slots
    <3>1. tx_seq[e] - ack[e] <= Slots  BY DEF IInv, Indices
    <3>2. PICK r \in Nat, t \in Nat, a \in Nat :
            r = rx_seq[Peer(e)] /\ t = tx_seq[e] /\ a = ack[e] /\ a <= r /\ r <= t
      BY Numbered
    <3> QED  BY <1>0, <3>1, <3>2
  <2> QED  BY <2>1 DEF IInv, Typed, TypeOK
<1>2. ASSUME NEW b \in Buffers
      PROVE  LET places == {p \in End \X (1 .. Slots) :
                              p[2] <= Len(InFlight(p[1])) /\ Carries(InFlight(p[1])[p[2]], b)}
                 taken  == {e \in End : \E m \in Taking(e) : Carries(m, b)}
             IN  IF holder[b] = "flight"
                 THEN \/ taken = {} /\ \E p \in places : places = {p}
                      \/ places = {} /\ \E e \in taken : taken = {e}
                 ELSE places = {} /\ taken = {}
  <2> DEFINE places == {p \in End \X (1 .. Slots) :
                          p[2] <= Len(InFlight(p[1])) /\ Carries(InFlight(p[1])[p[2]], b)}
             taken  == {e \in End : \E m \in Taking(e) : Carries(m, b)}
  <2>1. \A p \in places : /\ p \in End \X (1 .. Slots)
                          /\ At(p[1], NextRead(p[1]) + (p[2] - 1), b)
    BY AtPlaces
  <2>2. \A d \in End, k \in 1 .. Slots : At(d, NextRead(d) + (k - 1), b) => <<d, k>> \in places
    BY AtPlaces
  <2>3. \A e \in End : e \in taken <=> pc[e] = "ack" /\ At(Peer(e), NextRead(Peer(e)) - 1, b)
    BY AtPlaces
  <2>4. taken \subseteq End  OBVIOUS
  <2>5. \A d \in End : NextRead(d) \in Nat \ {0}  BY Numbered DEF NextRead
  <2> HIDE DEF places, taken
  <2>6. CASE holder[b] # "flight"
    <3>1. \A d \in End, s \in Nat : ~At(d, s, b)  BY <2>6 DEF IInv, Holds
    <3>2. places = {}
      <4> SUFFICES ASSUME NEW p \in places PROVE FALSE  OBVIOUS
      <4>1. p[1] \in End /\ p[2] \in 1 .. Slots  BY <2>1
      <4>2. PICK s \in Nat : s = NextRead(p[1]) + (p[2] - 1)  BY <4>1, <2>5, <1>0
      <4> QED  BY <4>1, <4>2, <3>1, <2>1
    <3>3. taken = {}
      <4> SUFFICES ASSUME NEW e \in taken PROVE FALSE  OBVIOUS
      <4>1. PICK p \in End : p = Peer(e) /\ e \in End  BY <2>4, PeerIs
      <4>2. PICK s \in Nat : s = NextRead(p) - 1  BY <4>1, <2>5
      <4> QED  BY <4>1, <4>2, <3>1, <2>3
    <3> QED  BY <2>6, <3>2, <3>3 DEF places, taken
  <2>7. CASE holder[b] = "flight"
    <3>1. PICK d \in End, s \in Nat : At(d, s, b)  BY <2>7 DEF IInv, Holds
    <3>2. \A c \in End, r \in Nat : At(c, r, b) => c = d /\ r = s  BY <3>1 DEF IInv, Holds
    <3>3. ASSUME NEW p \in places
          PROVE  p = <<d, s - NextRead(d) + 1>> /\ s - NextRead(d) + 1 \in 1 .. Slots
      <4>1. p[1] \in End /\ p[2] \in 1 .. Slots /\ p = <<p[1], p[2]>>  BY <2>1
      <4>2. PICK r \in Nat : r = NextRead(p[1]) + (p[2] - 1)  BY <4>1, <2>5, <1>0
      <4>3. p[1] = d /\ r = s  BY <4>1, <4>2, <3>2, <2>1
      <4>4. p[2] = s - NextRead(d) + 1  BY <4>1, <4>2, <4>3, <2>5, <1>0
      <4> QED  BY <4>1, <4>3, <4>4
    <3>4. ASSUME NEW e \in taken
          PROVE  e = Peer(d) /\ s = NextRead(d) - 1
      <4>1. PICK p \in End : p = Peer(e) /\ e \in End /\ Peer(p) = e  BY <2>4, PeerIs
      <4>2. PICK r \in Nat : r = NextRead(p) - 1  BY <4>1, <2>5
      <4>3. p = d /\ r = s  BY <4>1, <4>2, <3>2, <2>3
      <4> QED  BY <4>1, <4>2, <4>3
    <3>5. CASE s - NextRead(d) + 1 \in 1 .. Slots
      <4>1. PICK k \in 1 .. Slots : k = s - NextRead(d) + 1  BY <3>5
      <4>2. s = NextRead(d) + (k - 1)  BY <4>1, <2>5, <1>0
      <4>3. <<d, k>> \in places  BY <4>2, <3>1, <2>2
      <4>4. places = {<<d, k>>}  BY <4>1, <4>3, <3>3
      <4>5. taken = {}  BY <3>4, <3>5, <2>5
      <4> QED  BY <2>7, <4>3, <4>4, <4>5 DEF places, taken
    <3>6. CASE s - NextRead(d) + 1 \notin 1 .. Slots
      <4>1. s = NextRead(d) - 1 /\ pc[Peer(d)] = "ack"  BY <3>1, <3>6, AtPlaces
      <4>2. PICK e \in End : e = Peer(d) /\ Peer(e) = d  BY PeerIs
      <4>3. e \in taken  BY <4>1, <4>2, <3>1, <2>3
      <4>4. taken = {e}  BY <4>2, <4>3, <3>4
      <4>5. places = {}  BY <3>3, <3>6
      <4> QED  BY <2>7, <4>3, <4>4, <4>5 DEF places, taken
    <3> QED  BY <3>5, <3>6
  <2> QED  BY <2>6, <2>7
<1> QED  BY <1>1, <1>2 DEF BuffersConserved

(* No buffer is duplicated or dropped on its way between the processes:    *)
(* it is with one end, or in exactly one message under way, and a ring     *)
(* never holds more messages than it has slots, for every ring size        *)
(* (ipcq_can_write, ipcq_enqueue_internal, ipcq_dequeue).                  *)
THEOREM IpcqBuffersConserved ==
  ASSUME OrderedStart = TRUE
  PROVE  Spec => []BuffersConserved
BY IpcqInvariant, ConservedFromIInv, PTL

(***************************************************************************)
(* No buffer is lost, when only "a" registers regions: the table of "b"    *)
(* follows that of "a" through the commands under way.                     *)
(***************************************************************************)

(* The place behind the last message "a" has sent or is sending, and the   *)
(* message at a place.                                                     *)
Last == IF pc["a"] \in {"spin", "publish"} THEN tx_seq["a"] + 1 ELSE tx_seq["a"]

Sent(s) == IF s = tx_seq["a"] THEN out["a"] ELSE Msg("a", s)

(* What a message makes of a reader's table. *)
After(t, m) ==
  CASE m.cmd = "reg" /\ t[m.rid] = NULL -> [t EXCEPT ![m.rid] = m.item]
    [] m.cmd = "dereg" -> [t EXCEPT ![m.rid] = NULL]
    [] OTHER -> t

(* tab holds the tables "b" goes through while it reads what "a" sends,    *)
(* from its own to that of "a"; none has a region twice.                   *)
Tables(tab) ==
  /\ tab \in [Nat -> [Rids -> Regions \union {NULL}]]
  /\ tab[rx_seq["b"]] = known["b"] /\ tab[Last] = known["a"]
  /\ \A s \in rx_seq["b"] .. Last - 1 : tab[s + 1] = After(tab[s], Sent(s))
  /\ \A x \in rx_seq["b"] .. Last : \A i, j \in Rids :
       tab[x][i] = tab[x][j] /\ tab[x][i] # NULL => i = j

(* Id i means the region of c in all these tables from place s on. *)
Resolves(tab, i, c, s) ==
  \A x \in rx_seq["b"] .. Last : x >= s => tab[x][i] = RegionOf(c)

Data(m, i, c) == m.cmd = "data" /\ m.rid = i /\ m.item = c

(* c is on its way to "b" or to "a", or being sent there, under id i. *)
Forth(s, i, c) == s \in Oldest("a") .. Last - 1 /\ Data(Sent(s), i, c)

Back(i, c) ==
  \/ \E s \in Oldest("b") .. tx_seq["b"] - 1 : Data(Msg("b", s), i, c)
  \/ pc["b"] = "publish" /\ Data(out["b"], i, c)

(* A buffer's region is in the tables as long as "b" may meet the buffer. *)
Resolved(tab) ==
  /\ \A s \in Nat, i \in Rids, c \in Buffers : Forth(s, i, c) => Resolves(tab, i, c, s)
  /\ \A i \in Rids, c \in Buffers : Back(i, c) => Resolves(tab, i, c, 0)
  /\ \A c \in Buffers : holder[c] = "b" => \E i \in Rids : Resolves(tab, i, c, 0)

(* "b" sends nothing but buffers. *)
OnlyBuffers ==
  /\ \A s \in Oldest("b") .. tx_seq["b"] - 1 : Msg("b", s).cmd = "data"
  /\ pc["b"] # "spin" /\ (pc["b"] = "publish" => out["b"].cmd = "data")

NoneLost == \A c \in Buffers : holder[c] # "lost"

Follows == OnlyBuffers /\ NoneLost /\ \E tab : Tables(tab) /\ Resolved(tab)

(* The places of the messages from "a" to "b" are numbers, in order. *)
LEMMA Places ==
  ASSUME IInv
  PROVE  /\ "a" \in End /\ "b" \in End /\ Peer("a") = "b" /\ Peer("b") = "a"
         /\ rx_seq["b"] \in Nat \ {0} /\ tx_seq["a"] \in Nat /\ Last \in Nat
         /\ rx_seq["b"] <= tx_seq["a"] /\ tx_seq["a"] <= Last /\ Last <= tx_seq["a"] + 1
         /\ Oldest("a") \in Nat /\ Oldest("a") <= rx_seq["b"] /\ rx_seq["b"] <= Oldest("a") + 1
<1>1. "a" \in End /\ "b" \in End /\ Peer("a") = "b" /\ Peer("b") = "a"  BY PeerIs DEF End
<1>2. PICK r \in Nat \ {0}, t \in Nat \ {0} :
        r = rx_seq["b"] /\ t = tx_seq["a"] /\ r <= t /\ Oldest("a") \in Nat /\ Oldest("a") <= r
  BY <1>1, Numbered
<1>3. Last \in Nat /\ t <= Last /\ Last <= t + 1  BY <1>2 DEF Last
<1>4. r <= Oldest("a") + 1  BY <1>1, <1>2 DEF Oldest, NextRead
<1> QED  BY <1>1, <1>2, <1>3, <1>4

(* A buffer under way to "b" is in flight, one under way to "a" is in      *)
(* flight or still with "b".                                               *)
LEMMA UnderWay ==
  ASSUME IInv, NEW i \in Rids, NEW c \in Buffers
  PROVE  /\ \A s \in Nat : Forth(s, i, c) /\ Last = tx_seq["a"] => holder[c] = "flight"
         /\ Back(i, c) => holder[c] \in {"flight", "b"}
<1>1. "a" \in End /\ "b" \in End  BY DEF End
<1>2. ASSUME NEW s \in Nat, Forth(s, i, c), Last = tx_seq["a"]
      PROVE  holder[c] = "flight"
  <2>1. s # tx_seq["a"] /\ s \in Oldest("a") .. tx_seq["a"] - 1
    BY <1>2, Places DEF Forth
  <2>2. Carries(Msg("a", s), c)  BY <1>2, <2>1 DEF Forth, Sent, Data, Carries
  <2>3. At("a", s, c)  BY <2>1, <2>2 DEF At
  <2> QED  BY <1>1, <2>3 DEF IInv, Holds
<1>3. CASE \E s \in Oldest("b") .. tx_seq["b"] - 1 : Data(Msg("b", s), i, c)
  <2>1. PICK s \in Oldest("b") .. tx_seq["b"] - 1 : Data(Msg("b", s), i, c)  BY <1>3
  <2>2. s \in Nat  BY <1>1, Numbered
  <2>3. At("b", s, c)  BY <2>1 DEF At, Data, Carries
  <2> QED  BY <1>1, <1>2, <2>2, <2>3 DEF IInv, Holds
<1>4. CASE pc["b"] = "publish" /\ Data(out["b"], i, c)
  BY <1>1, <1>2, <1>4 DEF IInv, Holds, Data, Carries
<1> QED  BY <1>2, <1>3, <1>4 DEF Back

(* A step that moves neither end of the tables keeps them. *)
LEMMA SameTables ==
  ASSUME IInv, NEW tab, Tables(tab),
         rx_seq'["b"] = rx_seq["b"], Last' = Last, known' = known,
         \A s \in Oldest("a") .. Last - 1 : Sent(s)' = Sent(s)
  PROVE  /\ Tables(tab)'
         /\ \A i \in Rids, c \in Buffers, s \in Nat : Resolves(tab, i, c, s)' <=> Resolves(tab, i, c, s)
<1>1. \A s \in rx_seq["b"] .. Last - 1 : s \in Oldest("a") .. Last - 1  BY Places
<1>2. \A s \in rx_seq["b"] .. Last - 1 : tab[s + 1] = After(tab[s], Sent(s)')
  BY <1>1 DEF Tables
<1>3. Tables(tab)'  BY <1>2 DEF Tables, After
<1>4. \A i \in Rids, c \in Buffers, s \in Nat : Resolves(tab, i, c, s)' <=> Resolves(tab, i, c, s)
  BY DEF Resolves, RegionOf
<1> QED  BY <1>3, <1>4

(* Such a step keeps "b" following "a", if what comes to be with "b", or   *)
(* under way from it, is resolved.                                         *)
LEMMA SteadyFollows ==
  ASSUME IInv, OnlyBuffers', NoneLost', NEW tab, Tables(tab), Resolved(tab),
         rx_seq'["b"] = rx_seq["b"], Last' = Last, known' = known,
         Oldest("a")' \in Nat, Oldest("a") <= Oldest("a")',
         \A s \in Oldest("a") .. Last - 1 : Sent(s)' = Sent(s),
         \A i \in Rids, c \in Buffers : Back(i, c)' => Resolves(tab, i, c, 0),
         \A c \in Buffers : holder'[c] = "b" => \E i \in Rids : Resolves(tab, i, c, 0)
  PROVE  Follows'
<1>1. /\ Tables(tab)'
      /\ \A i \in Rids, c \in Buffers, s \in Nat : Resolves(tab, i, c, s)' <=> Resolves(tab, i, c, s)
  BY SameTables
<1>2. ASSUME NEW s \in Nat, NEW i \in Rids, NEW c \in Buffers, Forth(s, i, c)'
      PROVE  Resolves(tab, i, c, s)'
  <2>1. s \in Oldest("a")' .. Last - 1 /\ Data(Sent(s)', i, c)  BY <1>2 DEF Forth, Data
  <2>2. s \in Oldest("a") .. Last - 1  BY <2>1, Places
  <2>3. Forth(s, i, c)  BY <2>1, <2>2 DEF Forth
  <2> QED  BY <1>1, <2>3 DEF Resolved
<1>3. \A i \in Rids, c \in Buffers : Back(i, c)' => Resolves(tab, i, c, 0)'  BY <1>1
<1>4. \A c \in Buffers : holder'[c] = "b" => \E i \in Rids : Resolves(tab, i, c, 0)'  BY <1>1
<1>5. Resolved(tab)'  BY <1>2, <1>3, <1>4 DEF Resolved
<1> QED  BY <1>1, <1>5 DEF Follows

(* An interval and its last element. *)
LEMMA UpTo ==
  ASSUME NEW r \in Nat, NEW l \in Nat, NEW o \in Nat, o <= r, r <= l
  PROVE  /\ \A x \in r .. l + 1 : x # l + 1 => x \in r .. l
         /\ \A x \in r .. l + 1 : x >= l => x = l \/ x = l + 1
         /\ \A x \in r .. l : x # l => x \in r .. l - 1 /\ x + 1 \in r .. l /\ x \in o .. l - 1
OBVIOUS

(* A step of "a" that starts a message adds the table it leads to. *)
LEMMA GrowFollows ==
  ASSUME IInv, Follows, OnlyBuffers', NoneLost', NEW m,
         rx_seq'["b"] = rx_seq["b"], Last = tx_seq["a"], Last' = Last + 1,
         known'["b"] = known["b"], known'["a"] = After(known["a"], m),
         known'["a"] \in [Rids -> Regions \union {NULL}],
         Oldest("a")' = Oldest("a"),
         \A s \in Oldest("a") .. Last - 1 : Sent(s)' = Sent(s),
         \A s : s = Last => Sent(s)' = m,
         \A i, j \in Rids : known'["a"][i] = known'["a"][j] /\ known'["a"][i] # NULL => i = j,
         \A i \in Rids, c \in Buffers :
           holder[c] \in {"flight", "b"} /\ known["a"][i] = RegionOf(c) => known'["a"][i] = RegionOf(c),
         \A i \in Rids, c \in Buffers :
           Data(m, i, c) => known["a"][i] = RegionOf(c) /\ known'["a"][i] = RegionOf(c),
         \A i \in Rids, c \in Buffers : Back(i, c)' => Back(i, c),
         \A c \in Buffers : holder'[c] = "b" => holder[c] = "b"
  PROVE  Follows'
<1>1. PICK old : Tables(old) /\ Resolved(old)  BY DEF Follows
<1>2. PICK r \in Nat, l \in Nat, o \in Nat :
        /\ r = rx_seq["b"] /\ l = Last /\ o = Oldest("a") /\ o <= r /\ r <= l
  BY Places
<1>u. /\ \A x \in r .. l + 1 : x # l + 1 => x \in r .. l
      /\ \A x \in r .. l + 1 : x >= l => x = l \/ x = l + 1
      /\ \A x \in r .. l : x # l => x \in r .. l - 1 /\ x + 1 \in r .. l /\ x \in o .. l - 1
  BY <1>2, UpTo, Zenon
<1>3. PICK tab \in [Nat -> [Rids -> Regions \union {NULL}]] :
        /\ \A x \in Nat : x # l + 1 => tab[x] = old[x]
        /\ tab[l + 1] = known'["a"]
  <2>1. old \in [Nat -> [Rids -> Regions \union {NULL}]]  BY <1>1 DEF Tables
  <2>2. l + 1 \in Nat  BY <1>2
  <2>3. [old EXCEPT ![l + 1] = known'["a"]] \in [Nat -> [Rids -> Regions \union {NULL}]]
    BY <2>1, <2>2
  <2>4. /\ \A x \in Nat : x # l + 1 => [old EXCEPT ![l + 1] = known'["a"]][x] = old[x]
        /\ [old EXCEPT ![l + 1] = known'["a"]][l + 1] = known'["a"]
    BY <2>1, <2>2
  <2> QED  BY <2>3, <2>4
<1>4. \A x \in r .. l : tab[x] = old[x]  BY <1>2, <1>3
<1>5. old[r] = known["b"] /\ old[l] = known["a"]  BY <1>1, <1>2 DEF Tables
<1>6. \A s \in r .. l : tab[s + 1] = After(tab[s], Sent(s)')
  <2> SUFFICES ASSUME NEW s \in r .. l PROVE tab[s + 1] = After(tab[s], Sent(s)')
    OBVIOUS
  <2>1. CASE s = l
    <3>1. Sent(s)' = m  BY <2>1, <1>2
    <3>2. tab[s] = known["a"]  BY <2>1, <1>2, <1>4, <1>5
    <3> QED  BY <2>1, <3>1, <3>2, <1>3
  <2>2. CASE s # l
    <3>1. s \in r .. l - 1 /\ s + 1 \in r .. l /\ s \in o .. l - 1  BY <2>2, <1>u, Zenon
    <3>2. old[s + 1] = After(old[s], Sent(s))  BY <1>1, <1>2, <3>1 DEF Tables
    <3>3. Sent(s)' = Sent(s)  BY <3>1, <1>2
    <3> QED  BY <3>1, <3>2, <3>3, <1>4
  <2> QED  BY <2>1, <2>2
<1>7. ASSUME NEW x \in r .. l + 1, NEW i \in Rids, NEW j \in Rids,
             tab[x][i] = tab[x][j], tab[x][i] # NULL
      PROVE  i = j
  <2>1. CASE x = l + 1  BY <1>7, <2>1, <1>3
  <2>2. CASE x # l + 1
    <3>1. x \in r .. l /\ tab[x] = old[x]  BY <2>2, <1>2, <1>4
    <3> QED  BY <1>7, <3>1, <1>1, <1>2 DEF Tables
  <2> QED  BY <2>1, <2>2
<1>8. Tables(tab)'
  <2>1. Last' = l + 1 /\ rx_seq'["b"] = r /\ Last' - 1 = l  BY <1>2
  <2>2. tab[r] = known'["b"]  BY <1>2, <1>4, <1>5
  <2>3. \A s \in rx_seq'["b"] .. Last' - 1 : tab[s + 1] = After(tab[s], Sent(s)')
    BY <2>1, <1>6
  <2>4. \A x \in rx_seq'["b"] .. Last' : \A i, j \in Rids :
          tab[x][i] = tab[x][j] /\ tab[x][i] # NULL => i = j
    BY <2>1, <1>7
  <2> QED  BY <2>1, <2>2, <2>3, <2>4, <1>3 DEF Tables, After
<1>9. ASSUME NEW i \in Rids, NEW c \in Buffers, NEW s \in Nat, s <= l,
             Resolves(old, i, c, s), holder[c] \in {"flight", "b"}
      PROVE  Resolves(tab, i, c, s)'
  <2> SUFFICES ASSUME NEW x \in r .. l + 1, x >= s PROVE tab[x][i] = RegionOf(c)
    <3>1. Last' = l + 1 /\ rx_seq'["b"] = r  BY <1>2
    <3> QED  BY <3>1 DEF Resolves, RegionOf
  <2>1. \A y \in r .. l : y >= s => old[y][i] = RegionOf(c)  BY <1>2, <1>9 DEF Resolves
  <2>2. CASE x # l + 1
    <3>1. x \in r .. l  BY <2>2, <1>u, Zenon
    <3> QED  BY <3>1, <2>1, <1>4
  <2>3. CASE x = l + 1
    <3>1. old[l][i] = RegionOf(c)  BY <2>1, <1>2, <1>9
    <3>2. known["a"][i] = RegionOf(c)  BY <3>1, <1>5
    <3> QED  BY <2>3, <3>2, <1>3, <1>9
  <2> QED  BY <2>2, <2>3
<1>10. ASSUME NEW s \in Nat, NEW i \in Rids, NEW c \in Buffers, Forth(s, i, c)'
       PROVE  Resolves(tab, i, c, s)'
  <2>1. s \in o .. l /\ Data(Sent(s)', i, c)  BY <1>2, <1>10 DEF Forth, Data
  <2>2. CASE s # l
    <3>1. s \in o .. l - 1  BY <2>1, <2>2, <1>2
    <3>2. Forth(s, i, c)  BY <2>1, <3>1, <1>2 DEF Forth
    <3>3. holder[c] = "flight"  BY <3>2, UnderWay
    <3>4. Resolves(old, i, c, s)  BY <3>2, <1>1 DEF Resolved
    <3> QED  BY <3>1, <3>3, <3>4, <1>2, <1>9
  <2>3. CASE s = l
    <3>1. Data(m, i, c)  BY <2>1, <2>3, <1>2
    <3>2. known["a"][i] = RegionOf(c) /\ known'["a"][i] = RegionOf(c)  BY <3>1
    <3>3. \A x \in r .. l + 1 : x >= s => tab[x][i] = RegionOf(c)
      <4> SUFFICES ASSUME NEW x \in r .. l + 1, x >= s PROVE tab[x][i] = RegionOf(c)
        OBVIOUS
      <4>1. x = l \/ x = l + 1  BY <2>3, <1>u, Zenon
      <4>2. l \in r .. l  BY <1>2
      <4> QED  BY <4>1, <4>2, <3>2, <1>3, <1>4, <1>5
    <3>4. Last' = l + 1 /\ rx_seq'["b"] = r  BY <1>2
    <3> QED  BY <3>3, <3>4 DEF Resolves, RegionOf
  <2> QED  BY <2>2, <2>3
<1>11. ASSUME NEW i \in Rids, NEW c \in Buffers, Back(i, c)'
       PROVE  Resolves(tab, i, c, 0)'
  <2>1. Back(i, c)  BY <1>11
  <2>2. holder[c] \in {"flight", "b"}  BY <2>1, UnderWay
  <2>3. Resolves(old, i, c, 0)  BY <2>1, <1>1 DEF Resolved
  <2> QED  BY <2>2, <2>3, <1>2, <1>9
<1>12. ASSUME NEW c \in Buffers, holder'[c] = "b"
       PROVE  \E i \in Rids : Resolves(tab, i, c, 0)'
  <2>1. holder[c] = "b"  BY <1>12
  <2>2. PICK i \in Rids : Resolves(old, i, c, 0)  BY <2>1, <1>1 DEF Resolved
  <2>3. Resolves(tab, i, c, 0)'  BY <2>1, <2>2, <1>2, <1>9
  <2> QED  BY <2>3
<1>13. Resolved(tab)'  BY <1>10, <1>11, <1>12 DEF Resolved
<1> QED  BY <1>8, <1>13 DEF Follows

(* A buffer's region is a region. *)
LEMMA RegionKnown ==
  ASSUME NEW c \in Buffers
  PROVE  RegionOf(c) \in Regions /\ RegionOf(c) # NULL
BY IpcqAssumption DEF Buffers, RegionOf

(* The oldest message not given up after a step. *)
LEMMA OldestNext ==
  ASSUME NEW e \in End, NEW p \in End, p = Peer(e)
  PROVE  Oldest(e)' = IF pc'[p] = "ack" THEN rx_seq'[p] - 1 ELSE rx_seq'[p]
BY DEF Oldest, NextRead, Peer

(* What a step that keeps the messages leaves alone. *)
LEMMA KeptSent ==
  ASSUME IInv, Kept, \A e \in End : pc'[e] = "ack" <=> pc[e] = "ack"
  PROVE  /\ tx_seq' = tx_seq /\ rx_seq' = rx_seq
         /\ \A e \in End : Oldest(e)' = Oldest(e)
         /\ \A s \in Oldest("b") .. tx_seq["b"] - 1 : Msg("b", s)' = Msg("b", s)
         /\ \A s \in Oldest("a") .. tx_seq["a"] - 1 : Sent(s)' = Sent(s)
         /\ \A s : s = tx_seq["a"] => Sent(s)' = out'["a"]
<1>1. tx_seq' = tx_seq /\ rx_seq' = rx_seq  BY DEF Kept
<1>2. \A e \in End : \A s \in Oldest(e) .. tx_seq[e] - 1 :
        ring'[e][s % Slots].msg = ring[e][s % Slots].msg
  BY DEF Kept
<1>3. /\ \A e \in End : Oldest(e)' = Oldest(e)
      /\ \A e \in End : \A s \in Oldest(e) .. tx_seq[e] - 1 : Msg(e, s)' = Msg(e, s)
  <2>1. UNCHANGED <<tx_seq, rx_seq>>  BY <1>1
  <2> QED  BY <2>1, <1>2, SameWindow, Zenon
<1>4. "a" \in End /\ "b" \in End  BY DEF End
<1>5. ASSUME NEW s \in Oldest("a") .. tx_seq["a"] - 1 PROVE Sent(s)' = Sent(s)
  <2>1. s # tx_seq["a"]  BY <1>5, Places
  <2>2. Sent(s) = Msg("a", s)  BY <2>1 DEF Sent
  <2>3. Sent(s)' = Msg("a", s)'  BY <2>1, <1>1 DEF Sent
  <2> QED  BY <2>2, <2>3, <1>3, <1>4
<1>6. \A s : s = tx_seq["a"] => Sent(s)' = out'["a"]  BY <1>1 DEF Sent
<1> QED  BY <1>1, <1>3, <1>4, <1>5, <1>6

(* A step that moves no buffer and no message. *)
LEMMA CalmFollows ==
  ASSUME IInv, IInv', Follows, Kept, UNCHANGED <<known, holder, out>>,
         \A e \in End : pc'[e] = "ack" <=> pc[e] = "ack",
         pc'["a"] \in {"spin", "publish"} <=> pc["a"] \in {"spin", "publish"},
         pc'["b"] = "publish" <=> pc["b"] = "publish",
         pc'["b"] = "spin" <=> pc["b"] = "spin"
  PROVE  Follows'
<1>1. /\ tx_seq' = tx_seq /\ rx_seq' = rx_seq
      /\ \A e \in End : Oldest(e)' = Oldest(e)
      /\ \A s \in Oldest("b") .. tx_seq["b"] - 1 : Msg("b", s)' = Msg("b", s)
      /\ \A s \in Oldest("a") .. tx_seq["a"] - 1 : Sent(s)' = Sent(s)
      /\ \A s : s = tx_seq["a"] => Sent(s)' = out'["a"]
  BY KeptSent
<1>2. "a" \in End /\ "b" \in End  BY DEF End
<1>3. PICK tab : Tables(tab) /\ Resolved(tab)  BY DEF Follows
<1>4. Last' = Last  BY <1>1 DEF Last
<1>5. \A s \in Oldest("a") .. Last - 1 : Sent(s)' = Sent(s)
  <2> SUFFICES ASSUME NEW s \in Oldest("a") .. Last - 1 PROVE Sent(s)' = Sent(s)
    OBVIOUS
  <2>1. CASE s \in Oldest("a") .. tx_seq["a"] - 1  BY <2>1, <1>1
  <2>2. CASE s \notin Oldest("a") .. tx_seq["a"] - 1
    <3>1. s = tx_seq["a"]  BY <2>2, Places
    <3>2. Sent(s) = out["a"]  BY <3>1 DEF Sent
    <3> QED  BY <3>1, <3>2, <1>1
  <2> QED  BY <2>1, <2>2
<1>6. OnlyBuffers'  BY <1>1, <1>2 DEF Follows, OnlyBuffers
<1>7. NoneLost'  BY DEF Follows, NoneLost
<1>8. \A i \in Rids, c \in Buffers : Back(i, c)' => Back(i, c)
  BY <1>1, <1>2 DEF Back, Data
<1>9. Oldest("a")' \in Nat /\ Oldest("a") <= Oldest("a")'  BY <1>1, <1>2, Places
<1>10. \A i \in Rids, c \in Buffers : Back(i, c)' => Resolves(tab, i, c, 0)
  BY <1>3, <1>8 DEF Resolved
<1>11. \A c \in Buffers : holder'[c] = "b" => \E i \in Rids : Resolves(tab, i, c, 0)
  BY <1>3 DEF Resolved
<1> QED  BY <1>1, <1>3, <1>4, <1>5, <1>6, <1>7, <1>9, <1>10, <1>11, SteadyFollows

(* "a" publishes what it was sending. *)
LEMMA PublishAFollows ==
  ASSUME IInv, Follows, Publish("a")
  PROVE  Follows'
<1>1. "a" \in End /\ "b" \in End /\ Peer("a") = "b" /\ Peer("b") = "a"  BY PeerIs DEF End
<1>2. /\ IInv' /\ Msg("a", tx_seq["a"]) = out["a"]
      /\ \A d \in End, s \in Nat : Msg(d, s)' = Msg(d, s)
  BY <1>1, PublishIInv
<1>3. /\ pc["a"] = "publish" /\ tx_seq' = [tx_seq EXCEPT !["a"] = @ + 1]
      /\ pc' = [pc EXCEPT !["a"] = "idle"]
      /\ holder' = [b \in Buffers |-> IF Carries(out["a"], b) THEN "flight" ELSE holder[b]]
      /\ UNCHANGED <<out, rx_seq, known>>
  BY DEF Publish
<1>4. /\ tx_seq'["a"] = tx_seq["a"] + 1 /\ tx_seq'["b"] = tx_seq["b"] /\ tx_seq["a"] \in Nat
      /\ pc'["a"] = "idle" /\ pc'["b"] = pc["b"]
  BY <1>1, <1>3 DEF IInv, Typed
<1>5. Oldest("a")' = Oldest("a") /\ Oldest("b")' = Oldest("b")
  <2>1. /\ Oldest("a")' = IF pc'["b"] = "ack" THEN rx_seq'["b"] - 1 ELSE rx_seq'["b"]
        /\ Oldest("b")' = IF pc'["a"] = "ack" THEN rx_seq'["a"] - 1 ELSE rx_seq'["a"]
    BY <1>1, OldestNext
  <2>2. pc'["a"] = "ack" <=> pc["a"] = "ack"  BY <1>3, <1>4
  <2>3. pc'["b"] = "ack" <=> pc["b"] = "ack"  BY <1>3, <1>4
  <2> QED  BY <2>1, <2>2, <2>3, <1>1, <1>3 DEF Oldest, NextRead
<1>6. Last' = Last  BY <1>3, <1>4 DEF Last
<1>7. ASSUME NEW s \in Oldest("a") .. Last - 1 PROVE Sent(s)' = Sent(s)
  <2>1. s \in Nat /\ s # tx_seq["a"] + 1  BY Places, <1>3 DEF Last
  <2>2. Sent(s)' = Msg("a", s)  BY <2>1, <1>1, <1>2, <1>4 DEF Sent
  <2> QED  BY <2>2, <1>2 DEF Sent
<1>8. PICK tab : Tables(tab) /\ Resolved(tab)  BY DEF Follows
<1>9. \A s \in Oldest("b") .. tx_seq["b"] - 1 : s \in Nat  BY <1>1, Numbered
<1>10. OnlyBuffers'  BY <1>1, <1>2, <1>3, <1>4, <1>5, <1>9 DEF Follows, OnlyBuffers
<1>11. NoneLost'  BY <1>3 DEF Follows, NoneLost
<1>12. \A i \in Rids, c \in Buffers : Back(i, c)' => Back(i, c)
  BY <1>1, <1>2, <1>3, <1>4, <1>5, <1>9 DEF Back, Data
<1>13. Oldest("a")' \in Nat /\ Oldest("a") <= Oldest("a")'  BY <1>5, Places
<1>14. \A i \in Rids, c \in Buffers : Back(i, c)' => Resolves(tab, i, c, 0)
  BY <1>8, <1>12 DEF Resolved
<1>15. \A c \in Buffers : holder'[c] = "b" => \E i \in Rids : Resolves(tab, i, c, 0)
  BY <1>3, <1>8 DEF Resolved
<1> QED  BY <1>3, <1>6, <1>7, <1>8, <1>10, <1>11, <1>13, <1>14, <1>15, SteadyFollows

(* "b" publishes a buffer. *)
LEMMA PublishBFollows ==
  ASSUME IInv, Follows, Publish("b")
  PROVE  Follows'
<1>1. "a" \in End /\ "b" \in End /\ Peer("a") = "b" /\ Peer("b") = "a"  BY PeerIs DEF End
<1>2. /\ IInv' /\ Msg("b", tx_seq["b"]) = out["b"]
      /\ \A d \in End, s \in Nat : Msg(d, s)' = Msg(d, s)
  BY <1>1, PublishIInv
<1>3. /\ pc["b"] = "publish" /\ tx_seq' = [tx_seq EXCEPT !["b"] = @ + 1]
      /\ pc' = [pc EXCEPT !["b"] = "idle"]
      /\ holder' = [b \in Buffers |-> IF Carries(out["b"], b) THEN "flight" ELSE holder[b]]
      /\ UNCHANGED <<out, rx_seq, known>>
  BY DEF Publish
<1>4. /\ tx_seq'["b"] = tx_seq["b"] + 1 /\ tx_seq'["a"] = tx_seq["a"] /\ tx_seq["b"] \in Nat
      /\ pc'["b"] = "idle" /\ pc'["a"] = pc["a"]
  BY <1>1, <1>3 DEF IInv, Typed
<1>5. Oldest("a")' = Oldest("a") /\ Oldest("b")' = Oldest("b")
  <2>1. /\ Oldest("a")' = IF pc'["b"] = "ack" THEN rx_seq'["b"] - 1 ELSE rx_seq'["b"]
        /\ Oldest("b")' = IF pc'["a"] = "ack" THEN rx_seq'["a"] - 1 ELSE rx_seq'["a"]
    BY <1>1, OldestNext
  <2>2. pc'["a"] = "ack" <=> pc["a"] = "ack"  BY <1>3, <1>4
  <2>3. pc'["b"] = "ack" <=> pc["b"] = "ack"  BY <1>3, <1>4
  <2> QED  BY <2>1, <2>2, <2>3, <1>1, <1>3 DEF Oldest, NextRead
<1>6. Last' = Last  BY <1>4 DEF Last
<1>7. ASSUME NEW s \in Oldest("a") .. Last - 1 PROVE Sent(s)' = Sent(s)
  <2>1. s \in Nat  BY Places
  <2> QED  BY <2>1, <1>1, <1>2, <1>3, <1>4 DEF Sent
<1>8. PICK tab : Tables(tab) /\ Resolved(tab)  BY DEF Follows
<1>9. ASSUME NEW s \in Oldest("b") .. tx_seq'["b"] - 1
      PROVE  /\ s \in Nat /\ Msg("b", s)' = Msg("b", s)
             /\ s \in Oldest("b") .. tx_seq["b"] - 1 \/ Msg("b", s) = out["b"]
  <2>1. s \in Nat  BY <1>1, <1>4, Numbered
  <2>2. s \in Oldest("b") .. tx_seq["b"] - 1 \/ s = tx_seq["b"]  BY <1>1, <1>4, Numbered
  <2> QED  BY <2>1, <2>2, <1>1, <1>2
<1>10. OnlyBuffers'
  <2>1. \A s \in Oldest("b") .. tx_seq'["b"] - 1 : Msg("b", s)'.cmd = "data"
    BY <1>3, <1>9 DEF Follows, OnlyBuffers
  <2> QED  BY <2>1, <1>4, <1>5 DEF OnlyBuffers
<1>11. NoneLost'  BY <1>3 DEF Follows, NoneLost
<1>12. ASSUME NEW i \in Rids, NEW c \in Buffers, Back(i, c)'
       PROVE  Back(i, c)
  <2>1. PICK s \in Oldest("b") .. tx_seq'["b"] - 1 : Data(Msg("b", s)', i, c)
    BY <1>4, <1>5, <1>12 DEF Back, Data
  <2> QED  BY <2>1, <1>3, <1>9 DEF Back, Data
<1>13. Oldest("a")' \in Nat /\ Oldest("a") <= Oldest("a")'  BY <1>5, Places
<1>14. \A i \in Rids, c \in Buffers : Back(i, c)' => Resolves(tab, i, c, 0)
  BY <1>8, <1>12 DEF Resolved
<1>15. \A c \in Buffers : holder'[c] = "b" => \E i \in Rids : Resolves(tab, i, c, 0)
  BY <1>3, <1>8 DEF Resolved
<1> QED  BY <1>3, <1>6, <1>7, <1>8, <1>10, <1>11, <1>13, <1>14, <1>15, SteadyFollows

(* "a" reads a buffer: its table stays. *)
LEMMA ReadAFollows ==
  ASSUME IInv, Follows, Read("a")
  PROVE  Follows'
<1>1. "a" \in End /\ "b" \in End /\ Peer("a") = "b" /\ Peer("b") = "a"  BY PeerIs DEF End
<1>2. IInv' /\ rx_seq["a"] < tx_seq["b"] /\ got'["a"] = Msg("b", rx_seq["a"])
  BY <1>1, ReadIInv
<1>3. /\ pc["a"] \in {"idle", "again"} /\ pc' = [pc EXCEPT !["a"] = "ack"]
      /\ rx_seq' = [rx_seq EXCEPT !["a"] = @ + 1]
      /\ known' = [known EXCEPT !["a"] = KnownAfter("a", got'["a"])]
      /\ UNCHANGED <<ring, out, tx_seq, holder>>
  BY DEF Read
<1>4. /\ rx_seq'["a"] = rx_seq["a"] + 1 /\ rx_seq'["b"] = rx_seq["b"] /\ rx_seq["a"] \in Nat
      /\ pc'["a"] = "ack" /\ pc'["b"] = pc["b"]
  BY <1>1, <1>3 DEF IInv, Typed
<1>5. Oldest("a")' = Oldest("a") /\ Oldest("b")' = Oldest("b") /\ Oldest("b") = rx_seq["a"]
  <2>1. /\ Oldest("a")' = IF pc'["b"] = "ack" THEN rx_seq'["b"] - 1 ELSE rx_seq'["b"]
        /\ Oldest("b")' = IF pc'["a"] = "ack" THEN rx_seq'["a"] - 1 ELSE rx_seq'["a"]
    BY <1>1, OldestNext
  <2>2. Oldest("b") = rx_seq["a"]  BY <1>1, <1>3 DEF Oldest, NextRead
  <2>3. Oldest("a")' = Oldest("a")  BY <2>1, <1>1, <1>4 DEF Oldest, NextRead
  <2> QED  BY <2>1, <2>2, <2>3, <1>4
<1>6. known' = known
  <2>1. rx_seq["a"] \in Oldest("b") .. tx_seq["b"] - 1  BY <1>1, <1>2, <1>5, Numbered
  <2>2. got'["a"].cmd = "data"  BY <2>1, <1>2 DEF Follows, OnlyBuffers
  <2>3. KnownAfter("a", got'["a"]) = known["a"]  BY <2>2 DEF KnownAfter
  <2>4. known \in [End -> [Rids -> Regions \union {NULL}]]  BY DEF IInv, Typed
  <2> QED  BY <2>3, <2>4, <1>3
<1>7. Last' = Last  BY <1>3, <1>4 DEF Last
<1>8. \A s \in Oldest("a") .. Last - 1 : Sent(s)' = Sent(s)  BY <1>3 DEF Sent, Msg
<1>9. PICK tab : Tables(tab) /\ Resolved(tab)  BY DEF Follows
<1>10. OnlyBuffers'  BY <1>3, <1>4, <1>5 DEF Follows, OnlyBuffers, Msg
<1>11. NoneLost'  BY <1>3 DEF Follows, NoneLost
<1>12. \A i \in Rids, c \in Buffers : Back(i, c)' => Back(i, c)
  BY <1>3, <1>4, <1>5 DEF Back, Data, Msg
<1>13. Oldest("a")' \in Nat /\ Oldest("a") <= Oldest("a")'  BY <1>5, Places
<1>14. \A i \in Rids, c \in Buffers : Back(i, c)' => Resolves(tab, i, c, 0)
  BY <1>9, <1>12 DEF Resolved
<1>15. \A c \in Buffers : holder'[c] = "b" => \E i \in Rids : Resolves(tab, i, c, 0)
  BY <1>3, <1>9 DEF Resolved
<1> QED  BY <1>4, <1>6, <1>7, <1>8, <1>9, <1>10, <1>11, <1>13, <1>14, <1>15, SteadyFollows

(* "a" has a buffer back: the id it came under is still its region's. *)
LEMMA AckAFollows ==
  ASSUME IInv, Follows, Ack("a")
  PROVE  Follows'
<1>1. "a" \in End /\ "b" \in End /\ Peer("a") = "b" /\ Peer("b") = "a"  BY PeerIs DEF End
<1>2. pc["a"] = "ack" /\ UNCHANGED <<ring, out, tx_seq, rx_seq, known>>  BY DEF Ack
<1>3. /\ Oldest("b") = rx_seq["a"] - 1 /\ rx_seq["a"] \in Nat \ {0}
      /\ Oldest("b") \in Oldest("b") .. tx_seq["b"] - 1
  <2>1. Oldest("b") = rx_seq["a"] - 1  BY <1>1, <1>2 DEF Oldest, NextRead
  <2> QED  BY <2>1, <1>1, Numbered
<1>4. got["a"] = Msg("b", Oldest("b")) /\ got["a"].cmd = "data" /\ got["a"] \in Msgs
  BY <1>1, <1>2, <1>3 DEF IInv, Fields, Follows, OnlyBuffers
<1>5. PICK i \in Rids, c \in Buffers : i = got["a"].rid /\ c = got["a"].item
  BY <1>4 DEF Msgs, DataMsgs
<1>6. PICK tab : Tables(tab) /\ Resolved(tab)  BY DEF Follows
<1>7. known["a"][i] = RegionOf(c)
  <2>1. Back(i, c)  BY <1>3, <1>4, <1>5 DEF Back, Data
  <2>2. Resolves(tab, i, c, 0)  BY <2>1, <1>6 DEF Resolved
  <2>3. Last \in rx_seq["b"] .. Last /\ Last >= 0  BY Places
  <2> QED  BY <2>2, <2>3, <1>6 DEF Resolves, Tables
<1>8. holder' = [holder EXCEPT ![c] = "a"] /\ pc' = [pc EXCEPT !["a"] = "idle"]
  BY <1>4, <1>5, <1>7 DEF Ack
<1>9. pc'["a"] = "idle" /\ pc'["b"] = pc["b"]  BY <1>1, <1>8 DEF IInv, Typed
<1>10. \A x \in Buffers : holder'[x] = IF x = c THEN "a" ELSE holder[x]
  BY <1>8 DEF IInv, Typed
<1>11. Oldest("a")' = Oldest("a") /\ Oldest("b")' = rx_seq["a"]
  <2>1. /\ Oldest("a")' = IF pc'["b"] = "ack" THEN rx_seq'["b"] - 1 ELSE rx_seq'["b"]
        /\ Oldest("b")' = IF pc'["a"] = "ack" THEN rx_seq'["a"] - 1 ELSE rx_seq'["a"]
    BY <1>1, OldestNext
  <2>2. Oldest("a")' = Oldest("a")  BY <2>1, <1>1, <1>2, <1>9 DEF Oldest, NextRead
  <2> QED  BY <2>1, <2>2, <1>2, <1>9
<1>12. \A s \in Oldest("b")' .. tx_seq["b"] - 1 : s \in Oldest("b") .. tx_seq["b"] - 1
  BY <1>3, <1>11
<1>13. Last' = Last  BY <1>2, <1>9 DEF Last
<1>14. \A s \in Oldest("a") .. Last - 1 : Sent(s)' = Sent(s)  BY <1>2 DEF Sent, Msg
<1>15. OnlyBuffers'
  <2>1. \A s \in Oldest("b")' .. tx_seq["b"] - 1 : Msg("b", s)'.cmd = "data"
    BY <1>2, <1>12 DEF Follows, OnlyBuffers, Msg
  <2> QED  BY <2>1, <1>2, <1>9 DEF Follows, OnlyBuffers
<1>16. NoneLost'  BY <1>10, SMTT(40) DEF Follows, NoneLost
<1>17. ASSUME NEW j \in Rids, NEW x \in Buffers, Back(j, x)'
       PROVE  Back(j, x)
  <2>1. CASE pc["b"] = "publish" /\ Data(out["b"], j, x)  BY <2>1 DEF Back
  <2>2. ASSUME NEW s \in Oldest("b")' .. tx_seq["b"] - 1, Data(Msg("b", s), j, x)
        PROVE  Back(j, x)
    BY <2>2, <1>12 DEF Back
  <2> QED  BY <2>1, <2>2, <1>2, <1>9, <1>17 DEF Back, Data, Msg
<1>18. Oldest("a")' \in Nat /\ Oldest("a") <= Oldest("a")'  BY <1>11, Places
<1>19. \A j \in Rids, x \in Buffers : Back(j, x)' => Resolves(tab, j, x, 0)
  BY <1>6, <1>17 DEF Resolved
<1>20. \A x \in Buffers : holder'[x] = "b" => \E j \in Rids : Resolves(tab, j, x, 0)
  BY <1>6, <1>10 DEF Resolved
<1> QED  BY <1>2, <1>6, <1>13, <1>14, <1>15, <1>16, <1>18, <1>19, <1>20, SteadyFollows

(* "b" receives a message: it may come to hold a buffer, whose region all  *)
(* its tables to come have under the id the buffer came under.             *)
LEMMA AckBFollows ==
  ASSUME IInv, Follows, Ack("b")
  PROVE  Follows'
<1>1. "a" \in End /\ "b" \in End /\ Peer("a") = "b" /\ Peer("b") = "a"  BY PeerIs DEF End
<1>2. pc["b"] = "ack" /\ UNCHANGED <<ring, out, tx_seq, rx_seq, known>>  BY DEF Ack
<1>3. /\ Oldest("a") = rx_seq["b"] - 1 /\ rx_seq["b"] \in Nat \ {0}
      /\ Oldest("a") \in Oldest("a") .. tx_seq["a"] - 1
  <2>1. Oldest("a") = rx_seq["b"] - 1  BY <1>1, <1>2 DEF Oldest, NextRead
  <2> QED  BY <2>1, <1>1, Numbered
<1>4. got["b"] = Msg("a", Oldest("a")) /\ got["b"] \in Msgs
  BY <1>1, <1>2, <1>3 DEF IInv, Fields
<1>6. PICK tab : Tables(tab) /\ Resolved(tab)  BY DEF Follows
<1>7. ASSUME NEW i \in Rids, NEW c \in Buffers, Data(got["b"], i, c)
      PROVE  known["b"][i] = RegionOf(c) /\ Resolves(tab, i, c, 0)
  <2>1. PICK o \in Nat : o = Oldest("a") /\ o # tx_seq["a"] /\ o \in Oldest("a") .. Last - 1
    BY <1>3, Places
  <2>2. Forth(o, i, c)  BY <2>1, <1>4, <1>7 DEF Forth, Sent
  <2>3. Resolves(tab, i, c, o)  BY <2>2, <1>6 DEF Resolved
  <2>4. rx_seq["b"] \in rx_seq["b"] .. Last
        /\ \A x \in rx_seq["b"] .. Last : x >= o /\ x >= 0
    BY <1>3, <2>1, Places
  <2> QED  BY <2>3, <2>4, <1>6 DEF Resolves, Tables
<1>8. /\ pc'["b"] \in {"idle", "again"} /\ pc'["a"] = pc["a"]
      /\ \A x \in Buffers : \/ holder'[x] = holder[x]
                            \/ holder'[x] = "b" /\ \E i \in Rids : Data(got["b"], i, x)
  <2>1. CASE got["b"].cmd = "data"
    <3>1. PICK i \in Rids, c \in Buffers : i = got["b"].rid /\ c = got["b"].item
      BY <2>1, <1>4 DEF Msgs, DataMsgs
    <3>2. Data(got["b"], i, c)  BY <2>1, <3>1 DEF Data
    <3>3. known["b"][i] = RegionOf(c)  BY <3>2, <1>7
    <3>4. holder' = [holder EXCEPT ![c] = "b"] /\ pc' = [pc EXCEPT !["b"] = "idle"]
      BY <2>1, <3>1, <3>3 DEF Ack
    <3> QED  BY <1>1, <3>2, <3>4 DEF IInv, Typed
  <2>2. CASE got["b"].cmd # "data"
    <3>1. holder' = holder /\ pc' = [pc EXCEPT !["b"] = "again"]  BY <2>2 DEF Ack
    <3> QED  BY <1>1, <3>1 DEF IInv, Typed
  <2> QED  BY <2>1, <2>2
<1>11. Oldest("b")' = Oldest("b") /\ Oldest("a")' = rx_seq["b"]
  <2>1. /\ Oldest("a")' = IF pc'["b"] = "ack" THEN rx_seq'["b"] - 1 ELSE rx_seq'["b"]
        /\ Oldest("b")' = IF pc'["a"] = "ack" THEN rx_seq'["a"] - 1 ELSE rx_seq'["a"]
    BY <1>1, OldestNext
  <2>2. Oldest("b")' = Oldest("b")  BY <2>1, <1>1, <1>2, <1>8 DEF Oldest, NextRead
  <2> QED  BY <2>1, <2>2, <1>2, <1>8
<1>13. Last' = Last  BY <1>2, <1>8 DEF Last
<1>14. \A s \in Oldest("a") .. Last - 1 : Sent(s)' = Sent(s)  BY <1>2 DEF Sent, Msg
<1>15. OnlyBuffers'  BY <1>2, <1>8, <1>11 DEF Follows, OnlyBuffers, Msg
<1>16. NoneLost'  BY <1>8 DEF Follows, NoneLost
<1>17. \A i \in Rids, c \in Buffers : Back(i, c)' => Back(i, c)
  BY <1>2, <1>8, <1>11 DEF Back, Data, Msg
<1>18. Oldest("a")' \in Nat /\ Oldest("a") <= Oldest("a")'  BY <1>3, <1>11, Places
<1>19. \A j \in Rids, x \in Buffers : Back(j, x)' => Resolves(tab, j, x, 0)
  BY <1>6, <1>17 DEF Resolved
<1>20. ASSUME NEW x \in Buffers, holder'[x] = "b"
       PROVE  \E j \in Rids : Resolves(tab, j, x, 0)
  <2>1. CASE holder[x] = "b"  BY <2>1, <1>6 DEF Resolved
  <2>2. CASE \E i \in Rids : Data(got["b"], i, x)  BY <2>2, <1>7
  <2> QED  BY <2>1, <2>2, <1>8, <1>20
<1> QED  BY <1>2, <1>6, <1>13, <1>14, <1>15, <1>16, <1>18, <1>19, <1>20, SteadyFollows

(* "b" sends a buffer under an id that means its region in all tables to   *)
(* come: it is the only such id in the table of "b".                       *)
LEMMA EnqueueBFollows ==
  ASSUME IInv, Follows, NEW i \in Rids, NEW c \in Buffers, Enqueue("b", i, c)
  PROVE  Follows'
<1>1. "a" \in End /\ "b" \in End  BY DEF End
<1>2. /\ pc["b"] = "idle" /\ holder[c] = "b" /\ known["b"][i] = RegionOf(c)
      /\ pc' = [pc EXCEPT !["b"] = "publish"]
      /\ out' = [out EXCEPT !["b"] = [cmd |-> "data", rid |-> i, item |-> c]]
      /\ UNCHANGED <<tx_seq, rx_seq, known, holder>>
  BY DEF Enqueue, Idle, StoreFields
<1>3. IInv' /\ Kept  BY <1>1, StoreStepIInv
<1>4. /\ pc'["b"] = "publish" /\ pc'["a"] = pc["a"]
      /\ out'["b"] = [cmd |-> "data", rid |-> i, item |-> c] /\ out'["a"] = out["a"]
  BY <1>1, <1>2 DEF IInv, Typed
<1>5. \A e \in End : pc'[e] = "ack" <=> pc[e] = "ack"  BY <1>2, <1>4 DEF End
<1>6. /\ \A e \in End : Oldest(e)' = Oldest(e)
      /\ \A s \in Oldest("b") .. tx_seq["b"] - 1 : Msg("b", s)' = Msg("b", s)
      /\ \A s \in Oldest("a") .. tx_seq["a"] - 1 : Sent(s)' = Sent(s)
      /\ \A s : s = tx_seq["a"] => Sent(s)' = out'["a"]
  BY <1>3, <1>5, KeptSent
<1>7. PICK tab : Tables(tab) /\ Resolved(tab)  BY DEF Follows
<1>8. Last' = Last  BY <1>2, <1>4 DEF Last
<1>9. \A s \in Oldest("a") .. Last - 1 : Sent(s)' = Sent(s)
  <2> SUFFICES ASSUME NEW s \in Oldest("a") .. Last - 1 PROVE Sent(s)' = Sent(s)
    OBVIOUS
  <2>1. CASE s \in Oldest("a") .. tx_seq["a"] - 1  BY <2>1, <1>6
  <2>2. CASE s \notin Oldest("a") .. tx_seq["a"] - 1
    <3>1. s = tx_seq["a"]  BY <2>2, Places
    <3>2. Sent(s) = out["a"]  BY <3>1 DEF Sent
    <3> QED  BY <3>1, <3>2, <1>4, <1>6
  <2> QED  BY <2>1, <2>2
<1>10. Resolves(tab, i, c, 0)
  <2>1. PICK j \in Rids : Resolves(tab, j, c, 0)  BY <1>2, <1>7 DEF Resolved
  <2>2. rx_seq["b"] \in rx_seq["b"] .. Last /\ rx_seq["b"] >= 0  BY Places
  <2>3. tab[rx_seq["b"]][j] = RegionOf(c)  BY <2>1, <2>2 DEF Resolves
  <2>4. tab[rx_seq["b"]][i] = RegionOf(c)  BY <1>2, <1>7 DEF Tables
  <2>5. i = j  BY <2>2, <2>3, <2>4, <1>7, RegionKnown DEF Tables
  <2> QED  BY <2>1, <2>5
<1>11. OnlyBuffers'
  <2>1. \A s \in Oldest("b") .. tx_seq["b"] - 1 : Msg("b", s)'.cmd = "data"
    BY <1>6 DEF Follows, OnlyBuffers
  <2> QED  BY <2>1, <1>1, <1>2, <1>4, <1>6 DEF OnlyBuffers
<1>12. NoneLost'  BY <1>2 DEF Follows, NoneLost
<1>13. ASSUME NEW j \in Rids, NEW x \in Buffers, Back(j, x)'
       PROVE  Resolves(tab, j, x, 0)
  <2>1. CASE \E s \in Oldest("b") .. tx_seq["b"] - 1 : Data(Msg("b", s)', j, x)
    <3>1. Back(j, x)  BY <2>1, <1>6 DEF Back
    <3> QED  BY <3>1, <1>7 DEF Resolved
  <2>2. CASE Data(out'["b"], j, x)
    <3>1. j = i /\ x = c  BY <2>2, <1>4 DEF Data
    <3> QED  BY <3>1, <1>10
  <2>3. \/ \E s \in Oldest("b") .. tx_seq["b"] - 1 : Data(Msg("b", s)', j, x)
        \/ Data(out'["b"], j, x)
    BY <1>1, <1>2, <1>6, <1>13 DEF Back, Data
  <2> QED  BY <2>1, <2>2, <2>3
<1>14. Oldest("a")' \in Nat /\ Oldest("a") <= Oldest("a")'  BY <1>1, <1>6, Places
<1>15. \A x \in Buffers : holder'[x] = "b" => \E j \in Rids : Resolves(tab, j, x, 0)
  BY <1>2, <1>7 DEF Resolved
<1> QED  BY <1>2, <1>7, <1>8, <1>9, <1>11, <1>12, <1>13, <1>14, <1>15, SteadyFollows

(* "b" reads a message and makes of its table the next one. *)
LEMMA ReadBFollows ==
  ASSUME IInv, Follows, Read("b")
  PROVE  Follows'
<1>1. "a" \in End /\ "b" \in End /\ Peer("a") = "b" /\ Peer("b") = "a"  BY PeerIs DEF End
<1>2. IInv' /\ rx_seq["b"] < tx_seq["a"] /\ got'["b"] = Msg("a", rx_seq["b"])
  BY <1>1, ReadIInv
<1>3. /\ pc["b"] \in {"idle", "again"} /\ pc' = [pc EXCEPT !["b"] = "ack"]
      /\ rx_seq' = [rx_seq EXCEPT !["b"] = @ + 1]
      /\ known' = [known EXCEPT !["b"] = KnownAfter("b", got'["b"])]
      /\ UNCHANGED <<ring, out, tx_seq, holder>>
  BY DEF Read
<1>4. /\ rx_seq'["b"] = rx_seq["b"] + 1 /\ rx_seq'["a"] = rx_seq["a"] /\ rx_seq["b"] \in Nat
      /\ pc'["b"] = "ack" /\ pc'["a"] = pc["a"]
      /\ known'["a"] = known["a"] /\ known'["b"] = KnownAfter("b", got'["b"])
  BY <1>1, <1>3 DEF IInv, Typed
<1>5. Oldest("a")' = Oldest("a") /\ Oldest("b")' = Oldest("b")
  <2>1. /\ Oldest("a")' = IF pc'["b"] = "ack" THEN rx_seq'["b"] - 1 ELSE rx_seq'["b"]
        /\ Oldest("b")' = IF pc'["a"] = "ack" THEN rx_seq'["a"] - 1 ELSE rx_seq'["a"]
    BY <1>1, OldestNext
  <2>2. Oldest("a") = rx_seq["b"]  BY <1>1, <1>3 DEF Oldest, NextRead
  <2>3. Oldest("b")' = Oldest("b")  BY <2>1, <1>1, <1>4 DEF Oldest, NextRead
  <2> QED  BY <2>1, <2>2, <2>3, <1>4
<1>6. Last' = Last  BY <1>3, <1>4 DEF Last
<1>7. \A s \in Nat : Sent(s)' = Sent(s)  BY <1>3 DEF Sent, Msg
<1>8. PICK tab : Tables(tab) /\ Resolved(tab)  BY DEF Follows
<1>9. PICK r \in Nat, l \in Nat : r = rx_seq["b"] /\ l = Last /\ r < tx_seq["a"] /\ r < l
  BY <1>2, Places
<1>10. Tables(tab)'
  <2>1. tab[r + 1] = known'["b"]
    <3>1. r \in r .. l - 1  BY <1>9
    <3>2. tab[r + 1] = After(tab[r], Sent(r))  BY <3>1, <1>8, <1>9 DEF Tables
    <3>3. Sent(r) = got'["b"]
      <4>1. r # tx_seq["a"]  BY <1>9, Places
      <4> QED  BY <4>1, <1>2, <1>9 DEF Sent
    <3>4. tab[r] = known["b"]  BY <1>8, <1>9 DEF Tables
    <3>5. After(known["b"], got'["b"]) = KnownAfter("b", got'["b"])  BY DEF After, KnownAfter
    <3> QED  BY <3>2, <3>3, <3>4, <3>5, <1>4
  <2>2. \A s \in r + 1 .. l - 1 : s \in r .. l - 1 /\ s \in Nat  BY <1>9
  <2>3. \A s \in r + 1 .. l - 1 : tab[s + 1] = After(tab[s], Sent(s)')
    BY <2>2, <1>7, <1>8, <1>9 DEF Tables
  <2>4. \A x \in r + 1 .. l : x \in r .. l  BY <1>9
  <2>5. \A x \in r + 1 .. l : \A i, j \in Rids :
          tab[x][i] = tab[x][j] /\ tab[x][i] # NULL => i = j
    BY <2>4, <1>8, <1>9 DEF Tables
  <2>6. tab[l] = known'["a"] /\ tab \in [Nat -> [Rids -> Regions \union {NULL}]]
    BY <1>4, <1>8, <1>9 DEF Tables
  <2>7. rx_seq'["b"] = r + 1 /\ Last' = l  BY <1>4, <1>6, <1>9
  <2> QED  BY <2>1, <2>3, <2>5, <2>6, <2>7 DEF Tables, After
<1>11. \A i \in Rids, c \in Buffers, s \in Nat : Resolves(tab, i, c, s) => Resolves(tab, i, c, s)'
  <2>1. rx_seq'["b"] = r + 1 /\ Last' = l  BY <1>4, <1>6, <1>9
  <2>2. \A x \in r + 1 .. l : x \in r .. l  BY <1>9
  <2> QED  BY <2>1, <2>2, <1>9 DEF Resolves, RegionOf
<1>12. OnlyBuffers'  BY <1>3, <1>4, <1>5 DEF Follows, OnlyBuffers, Msg
<1>13. NoneLost'  BY <1>3 DEF Follows, NoneLost
<1>14. \A i \in Rids, c \in Buffers : Back(i, c)' => Back(i, c)
  BY <1>3, <1>4, <1>5 DEF Back, Data, Msg
<1>15. \A s \in Nat, i \in Rids, c \in Buffers : Forth(s, i, c)' => Forth(s, i, c)
  BY <1>5, <1>6, <1>7 DEF Forth, Data
<1>16. Resolved(tab)'
  <2>1. \A s \in Nat, i \in Rids, c \in Buffers : Forth(s, i, c)' => Resolves(tab, i, c, s)'
    BY <1>8, <1>11, <1>15 DEF Resolved
  <2>2. \A i \in Rids, c \in Buffers : Back(i, c)' => Resolves(tab, i, c, 0)'
    BY <1>8, <1>11, <1>14 DEF Resolved
  <2>3. \A c \in Buffers : holder'[c] = "b" => \E i \in Rids : Resolves(tab, i, c, 0)'
    BY <1>3, <1>8, <1>11 DEF Resolved
  <2> QED  BY <2>1, <2>2, <2>3 DEF Resolved
<1> QED  BY <1>10, <1>12, <1>13, <1>16 DEF Follows

(* What "a" leaves alone when it starts a message. *)
LEMMA StartsFrame ==
  ASSUME IInv, Follows, Kept, pc["a"] = "idle", pc'["a"] \in {"spin", "publish"},
         pc'["b"] = pc["b"], out'["b"] = out["b"]
  PROVE  /\ rx_seq'["b"] = rx_seq["b"] /\ Last = tx_seq["a"] /\ Last' = Last + 1
         /\ Oldest("a")' = Oldest("a")
         /\ \A s \in Oldest("a") .. Last - 1 : Sent(s)' = Sent(s)
         /\ \A s : s = Last => Sent(s)' = out'["a"]
         /\ OnlyBuffers'
         /\ \A i \in Rids, c \in Buffers : Back(i, c)' => Back(i, c)
<1>1. "a" \in End /\ "b" \in End  BY DEF End
<1>2. \A e \in End : pc'[e] = "ack" <=> pc[e] = "ack"  BY DEF End
<1>3. /\ tx_seq' = tx_seq /\ rx_seq' = rx_seq
      /\ \A e \in End : Oldest(e)' = Oldest(e)
      /\ \A s \in Oldest("b") .. tx_seq["b"] - 1 : Msg("b", s)' = Msg("b", s)
      /\ \A s \in Oldest("a") .. tx_seq["a"] - 1 : Sent(s)' = Sent(s)
      /\ \A s : s = tx_seq["a"] => Sent(s)' = out'["a"]
  BY <1>2, KeptSent
<1>4. Last = tx_seq["a"] /\ Last' = Last + 1  BY <1>3 DEF Last
<1>5. OnlyBuffers'
  <2>1. \A s \in Oldest("b") .. tx_seq["b"] - 1 : Msg("b", s)'.cmd = "data"
    BY <1>3 DEF Follows, OnlyBuffers
  <2> QED  BY <2>1, <1>1, <1>3 DEF Follows, OnlyBuffers
<1>6. ASSUME NEW j \in Rids, NEW x \in Buffers, Back(j, x)' PROVE Back(j, x)
  <2>1. CASE \E s \in Oldest("b") .. tx_seq["b"] - 1 : Data(Msg("b", s)', j, x)
    BY <2>1, <1>3 DEF Back
  <2>2. CASE pc["b"] = "publish" /\ Data(out["b"], j, x)  BY <2>2 DEF Back
  <2>3. \/ \E s \in Oldest("b") .. tx_seq["b"] - 1 : Data(Msg("b", s)', j, x)
        \/ pc["b"] = "publish" /\ Data(out["b"], j, x)
    BY <1>1, <1>3, <1>6 DEF Back, Data
  <2> QED  BY <2>1, <2>2, <2>3
<1> QED  BY <1>1, <1>3, <1>4, <1>5, <1>6

(* The table of "a" has no region twice. *)
LEMMA KnownOnce ==
  ASSUME IInv, Follows
  PROVE  \A i, j \in Rids : known["a"][i] = known["a"][j] /\ known["a"][i] # NULL => i = j
<1>1. PICK tab : Tables(tab)  BY DEF Follows
<1>2. Last \in rx_seq["b"] .. Last  BY Places
<1> QED  BY <1>1, <1>2 DEF Tables

(* "a" sends a buffer of a region it knows. *)
LEMMA EnqueueAFollows ==
  ASSUME IInv, Follows, NEW i \in Rids, NEW c \in Buffers, Enqueue("a", i, c)
  PROVE  Follows'
<1>1. "a" \in End /\ "b" \in End  BY DEF End
<1>2. /\ pc["a"] = "idle" /\ known["a"][i] = RegionOf(c)
      /\ pc' = [pc EXCEPT !["a"] = "publish"]
      /\ out' = [out EXCEPT !["a"] = [cmd |-> "data", rid |-> i, item |-> c]]
      /\ UNCHANGED <<known, holder>>
  BY DEF Enqueue, Idle, StoreFields
<1>3. Kept  BY <1>1, StoreStepIInv
<1>4. PICK m : m = [cmd |-> "data", rid |-> i, item |-> c]  OBVIOUS
<1>5. /\ pc'["a"] = "publish" /\ pc'["b"] = pc["b"] /\ out'["a"] = m /\ out'["b"] = out["b"]
  BY <1>1, <1>2, <1>4 DEF IInv, Typed
<1>6. /\ rx_seq'["b"] = rx_seq["b"] /\ Last = tx_seq["a"] /\ Last' = Last + 1
      /\ Oldest("a")' = Oldest("a")
      /\ \A s \in Oldest("a") .. Last - 1 : Sent(s)' = Sent(s)
      /\ \A s : s = Last => Sent(s)' = m
      /\ OnlyBuffers'
      /\ \A j \in Rids, x \in Buffers : Back(j, x)' => Back(j, x)
  BY <1>2, <1>3, <1>5, StartsFrame
<1>7. NoneLost'  BY <1>2 DEF Follows, NoneLost
<1>8. known["a"] = After(known["a"], m)  BY <1>4 DEF After
<1>9. known["a"] \in [Rids -> Regions \union {NULL}]  BY <1>1 DEF IInv, Typed
<1>10. \A j \in Rids, x \in Buffers : Data(m, j, x) => known["a"][j] = RegionOf(x)
  BY <1>2, <1>4 DEF Data
<1> QED  BY <1>2, <1>6, <1>7, <1>8, <1>9, <1>10, KnownOnce, GrowFollows

(* "a" registers a region: it is new to the table, and its buffers are     *)
(* nowhere.                                                                *)
LEMMA RegisterAFollows ==
  ASSUME IInv, Follows, NEW i \in Rids, NEW r \in Regions, Register("a", i, r)
  PROVE  Follows'
<1>1. "a" \in End /\ "b" \in End  BY DEF End
<1>2. /\ pc["a"] = "idle" /\ known["a"][i] = NULL /\ \A j \in Rids : known["a"][j] # r
      /\ known' = [known EXCEPT !["a"][i] = r]
      /\ holder' = [b \in Buffers |-> IF b \in BuffersOf(r) THEN "a" ELSE holder[b]]
      /\ out' = [out EXCEPT !["a"] = [cmd |-> "reg", rid |-> i, item |-> r]]
      /\ pc' = [pc EXCEPT !["a"] = "spin"]
      /\ UNCHANGED <<ring, got, tx_seq, rx_seq>>
  BY DEF Register, Idle
<1>3. Kept  BY <1>2 DEF Kept
<1>4. PICK m : m = [cmd |-> "reg", rid |-> i, item |-> r]  OBVIOUS
<1>5. /\ pc'["a"] = "spin" /\ pc'["b"] = pc["b"] /\ out'["a"] = m /\ out'["b"] = out["b"]
  BY <1>1, <1>2, <1>4 DEF IInv, Typed
<1>6. /\ rx_seq'["b"] = rx_seq["b"] /\ Last = tx_seq["a"] /\ Last' = Last + 1
      /\ Oldest("a")' = Oldest("a")
      /\ \A s \in Oldest("a") .. Last - 1 : Sent(s)' = Sent(s)
      /\ \A s : s = Last => Sent(s)' = m
      /\ OnlyBuffers'
      /\ \A j \in Rids, x \in Buffers : Back(j, x)' => Back(j, x)
  BY <1>2, <1>3, <1>5, StartsFrame
<1>7. NoneLost'  BY <1>2 DEF Follows, NoneLost
<1>8. known["a"] \in [Rids -> Regions \union {NULL}] /\ known \in [End -> [Rids -> Regions \union {NULL}]]
  BY <1>1 DEF IInv, Typed
<1>9. known'["b"] = known["b"] /\ known'["a"] = [known["a"] EXCEPT ![i] = r]  BY <1>1, <1>2, <1>8
<1>10. known'["a"] = After(known["a"], m)  BY <1>2, <1>4, <1>9 DEF After
<1>11. /\ known'["a"] \in [Rids -> Regions \union {NULL}]
       /\ known'["a"][i] = r /\ \A j \in Rids : j # i => known'["a"][j] = known["a"][j]
  BY <1>8, <1>9
<1>12. \A j, k \in Rids : known'["a"][j] = known'["a"][k] /\ known'["a"][j] # NULL => j = k
  BY <1>2, <1>11, KnownOnce
<1>13. \A j \in Rids, x \in Buffers : known["a"][j] = RegionOf(x) => known'["a"][j] = RegionOf(x)
  BY <1>2, <1>11, RegionKnown
<1>14. \A j \in Rids, x \in Buffers : ~Data(m, j, x)  BY <1>4 DEF Data
<1>15. \A x \in Buffers : holder'[x] = "b" => holder[x] = "b"  BY <1>2
<1> QED  BY <1>6, <1>7, <1>9, <1>10, <1>11, <1>12, <1>13, <1>14, <1>15, GrowFollows

(* "a" withdraws a region all of whose buffers it has back: no message     *)
(* under way and no buffer with "b" needs it.                              *)
LEMMA DeregisterAFollows ==
  ASSUME IInv, Follows, NEW i \in Rids, Deregister("a", i)
  PROVE  Follows'
<1>1. "a" \in End /\ "b" \in End  BY DEF End
<1>2. /\ pc["a"] = "idle" /\ \A b \in BuffersOf(known["a"][i]) : holder[b] = "a"
      /\ known' = [known EXCEPT !["a"][i] = NULL]
      /\ holder' = [b \in Buffers |-> IF RegionOf(b) = known["a"][i] THEN "none" ELSE holder[b]]
      /\ out' = [out EXCEPT !["a"] = [cmd |-> "dereg", rid |-> i, item |-> NULL]]
      /\ pc' = [pc EXCEPT !["a"] = "spin"]
      /\ UNCHANGED <<ring, got, tx_seq, rx_seq>>
  BY DEF Deregister, Idle
<1>3. Kept  BY <1>2 DEF Kept
<1>4. PICK m : m = [cmd |-> "dereg", rid |-> i, item |-> NULL]  OBVIOUS
<1>5. /\ pc'["a"] = "spin" /\ pc'["b"] = pc["b"] /\ out'["a"] = m /\ out'["b"] = out["b"]
  BY <1>1, <1>2, <1>4 DEF IInv, Typed
<1>6. /\ rx_seq'["b"] = rx_seq["b"] /\ Last = tx_seq["a"] /\ Last' = Last + 1
      /\ Oldest("a")' = Oldest("a")
      /\ \A s \in Oldest("a") .. Last - 1 : Sent(s)' = Sent(s)
      /\ \A s : s = Last => Sent(s)' = m
      /\ OnlyBuffers'
      /\ \A j \in Rids, x \in Buffers : Back(j, x)' => Back(j, x)
  BY <1>2, <1>3, <1>5, StartsFrame
<1>7. NoneLost'  BY <1>2 DEF Follows, NoneLost
<1>8. known["a"] \in [Rids -> Regions \union {NULL}] /\ known \in [End -> [Rids -> Regions \union {NULL}]]
  BY <1>1 DEF IInv, Typed
<1>9. known'["b"] = known["b"] /\ known'["a"] = [known["a"] EXCEPT ![i] = NULL]  BY <1>1, <1>2, <1>8
<1>10. known'["a"] = After(known["a"], m)  BY <1>4, <1>9 DEF After
<1>11. /\ known'["a"] \in [Rids -> Regions \union {NULL}]
       /\ known'["a"][i] = NULL /\ \A j \in Rids : j # i => known'["a"][j] = known["a"][j]
  BY <1>8, <1>9
<1>12. \A j, k \in Rids : known'["a"][j] = known'["a"][k] /\ known'["a"][j] # NULL => j = k
  BY <1>11, KnownOnce
<1>13. ASSUME NEW j \in Rids, NEW x \in Buffers,
              holder[x] \in {"flight", "b"}, known["a"][j] = RegionOf(x)
       PROVE  known'["a"][j] = RegionOf(x)
  <2>1. j # i
    <3>1. ASSUME j = i PROVE FALSE
      <4>1. x \in BuffersOf(known["a"][i])  BY <1>13, <3>1 DEF BuffersOf
      <4> QED  BY <4>1, <1>2, <1>13
    <3> QED  BY <3>1
  <2> QED  BY <2>1, <1>11, <1>13
<1>14. \A j \in Rids, x \in Buffers : ~Data(m, j, x)  BY <1>4 DEF Data
<1>15. \A x \in Buffers : holder'[x] = "b" => holder[x] = "b"  BY <1>2
<1> QED  BY <1>6, <1>7, <1>9, <1>10, <1>11, <1>12, <1>13, <1>14, <1>15, GrowFollows

(* At first both tables are empty. *)
LEMMA InitFollows ==
  ASSUME Init
  PROVE  Follows
<1>1. "a" \in End /\ "b" \in End /\ Peer("a") = "b" /\ Peer("b") = "a"  BY PeerIs DEF End
<1>2. /\ \A e \in End : pc[e] = "idle" /\ tx_seq[e] = 1 /\ rx_seq[e] = 1
      /\ \A e \in End : known[e] = [i \in Rids |-> NULL]
      /\ \A c \in Buffers : holder[c] = "none"
  BY DEF Init
<1>3. Last = 1 /\ Oldest("a") = 1 /\ Oldest("b") = 1
  BY <1>1, <1>2 DEF Last, Oldest, NextRead
<1>4. PICK tab : tab = [x \in Nat |-> [i \in Rids |-> NULL]]  OBVIOUS
<1>5. Tables(tab)
  <2>1. tab \in [Nat -> [Rids -> Regions \union {NULL}]]  BY <1>4
  <2>2. \A x \in Nat : tab[x] = [i \in Rids |-> NULL]  BY <1>4
  <2>3. rx_seq["b"] = 1 /\ known["b"] = [i \in Rids |-> NULL] /\ known["a"] = [i \in Rids |-> NULL]
    BY <1>1, <1>2
  <2>4. 1 .. Last - 1 = {}  BY <1>3
  <2>5. \A x \in 1 .. Last : \A i \in Rids : tab[x][i] = NULL  BY <1>3, <2>2
  <2> QED  BY <1>3, <2>1, <2>2, <2>3, <2>4, <2>5 DEF Tables
<1>6. \A s \in Nat, i \in Rids, c \in Buffers : ~Forth(s, i, c)  BY <1>3 DEF Forth
<1>7. \A i \in Rids, c \in Buffers : ~Back(i, c)
  <2>1. Oldest("b") .. tx_seq["b"] - 1 = {} /\ pc["b"] = "idle"  BY <1>1, <1>2, <1>3
  <2> QED  BY <2>1 DEF Back
<1>8. Resolved(tab)  BY <1>2, <1>6, <1>7 DEF Resolved
<1>9. OnlyBuffers
  <2>1. Oldest("b") .. tx_seq["b"] - 1 = {} /\ pc["b"] = "idle"  BY <1>1, <1>2, <1>3
  <2> QED  BY <2>1 DEF OnlyBuffers
<1>10. NoneLost  BY <1>2 DEF NoneLost
<1> QED  BY <1>5, <1>8, <1>9, <1>10 DEF Follows

(* Every step keeps "b" following "a". *)
LEMMA StepFollows ==
  ASSUME IInv, Follows, OrderedStart = TRUE, Registrars \subseteq {"a"}, [Next]_vars
  PROVE  Follows'
<1>0. IInv'  BY StepIInv
<1>e. "a" \in End /\ "b" \in End  BY DEF End
<1>t. pc \in [End -> {"idle", "publish", "spin", "ack", "again"}] /\ out \in [End -> Msgs \union {NULL}]
  BY DEF IInv, Typed
<1>1. CASE UNCHANGED vars
  <2>1. UNCHANGED <<ring, pc, out, got, tx_seq, rx_seq, known, holder>>  BY <1>1 DEF vars
  <2>2. Kept  BY <2>1 DEF Kept
  <2> QED  BY <1>0, <2>1, <2>2, CalmFollows
<1>2. ASSUME NEW e \in End, Create(e) PROVE Follows'
  <2>1. Kept  BY <1>2, CreateIInv
  <2>2. UNCHANGED <<pc, out, known, holder>>  BY <1>2 DEF Create
  <2> QED  BY <1>0, <2>1, <2>2, CalmFollows
<1>3. ASSUME NEW e \in End, Destroy(e) PROVE Follows'
  <2>1. UNCHANGED <<ring, pc, out, got, tx_seq, rx_seq, known, holder>>  BY <1>3 DEF Destroy
  <2>2. Kept  BY <2>1 DEF Kept
  <2> QED  BY <1>0, <2>1, <2>2, CalmFollows
<1>4. ASSUME NEW e \in End, ReturnEmpty(e) PROVE Follows'
  <2>1. /\ pc[e] = "again" /\ pc' = [pc EXCEPT ![e] = "idle"]
        /\ UNCHANGED <<ring, out, got, tx_seq, rx_seq, known, holder>>
    BY <1>4 DEF ReturnEmpty
  <2>2. Kept  BY <2>1 DEF Kept
  <2>3. \A d \in End : pc'[d] = pc[d] \/ (pc[d] = "again" /\ pc'[d] = "idle")  BY <2>1, <1>t
  <2>4. /\ \A d \in End : pc'[d] = "ack" <=> pc[d] = "ack"
        /\ pc'["a"] \in {"spin", "publish"} <=> pc["a"] \in {"spin", "publish"}
        /\ pc'["b"] = "publish" <=> pc["b"] = "publish"
        /\ pc'["b"] = "spin" <=> pc["b"] = "spin"
    BY <2>3, <1>e
  <2>5. UNCHANGED <<known, holder, out>>  BY <2>1
  <2> QED  BY <1>0, <2>2, <2>4, <2>5, CalmFollows
<1>5. ASSUME NEW e \in End, SpinDone(e) PROVE Follows'
  <2>1. /\ pc[e] = "spin" /\ pc' = [pc EXCEPT ![e] = "publish"]
        /\ out' = [out EXCEPT ![e] = out[e]] /\ UNCHANGED <<known, holder>>
    BY <1>5 DEF SpinDone, StoreFields
  <2>2. Kept  BY <1>5, StoreStepIInv
  <2>3. e = "a"  BY <2>1 DEF Follows, OnlyBuffers, End
  <2>4. pc'["a"] = "publish" /\ pc["a"] = "spin" /\ pc'["b"] = pc["b"]  BY <2>1, <2>3, <1>t, <1>e
  <2>5. UNCHANGED <<known, holder, out>>  BY <2>1, <1>t
  <2>6. \A d \in End : pc'[d] = "ack" <=> pc[d] = "ack"  BY <2>4 DEF End
  <2> QED  BY <1>0, <2>2, <2>4, <2>5, <2>6, CalmFollows
<1>6. ASSUME NEW e \in End, NEW i \in Rids, NEW b \in Buffers, Enqueue(e, i, b) PROVE Follows'
  <2>1. CASE e = "a"  BY <1>6, <2>1, EnqueueAFollows
  <2>2. CASE e = "b"  BY <1>6, <2>2, EnqueueBFollows
  <2> QED  BY <2>1, <2>2 DEF End
<1>7. ASSUME NEW e \in End, Publish(e) PROVE Follows'
  <2>1. CASE e = "a"  BY <1>7, <2>1, PublishAFollows
  <2>2. CASE e = "b"  BY <1>7, <2>2, PublishBFollows
  <2> QED  BY <2>1, <2>2 DEF End
<1>8. ASSUME NEW e \in End, Read(e) PROVE Follows'
  <2>1. CASE e = "a"  BY <1>8, <2>1, ReadAFollows
  <2>2. CASE e = "b"  BY <1>8, <2>2, ReadBFollows
  <2> QED  BY <2>1, <2>2 DEF End
<1>9. ASSUME NEW e \in End, Ack(e) PROVE Follows'
  <2>1. CASE e = "a"  BY <1>9, <2>1, AckAFollows
  <2>2. CASE e = "b"  BY <1>9, <2>2, AckBFollows
  <2> QED  BY <2>1, <2>2 DEF End
<1>10. ASSUME NEW e \in Registrars, NEW i \in Rids, NEW r \in Regions, Register(e, i, r)
       PROVE  Follows'
  <2>1. e = "a"  OBVIOUS
  <2> QED  BY <1>10, <2>1, RegisterAFollows
<1>11. ASSUME NEW e \in Registrars, NEW i \in Rids, Deregister(e, i) PROVE Follows'
  <2>1. e = "a"  OBVIOUS
  <2> QED  BY <1>11, <2>1, DeregisterAFollows
<1> QED  BY <1>1, <1>2, <1>3, <1>4, <1>5, <1>6, <1>7, <1>8, <1>9, <1>10, <1>11 DEF Next

(* The tables agree once nothing is between the first and the last. *)
LEMMA NoneLostFromFollows == IInv /\ Follows => NoBufferLost
<1> SUFFICES ASSUME IInv, Follows PROVE NoBufferLost  OBVIOUS
<1>1. \A b \in Buffers : holder[b] # "lost"  BY DEF Follows, NoneLost
<1>2. ASSUME \A e \in End : state[e] = "up" /\ pc[e] = "idle" /\ InFlight(e) = << >>
      PROVE  known["a"] = known["b"]
  <2>1. "a" \in End /\ Peer("a") = "b"  BY PeerIs DEF End
  <2>2. Last = tx_seq["a"]  BY <1>2, <2>1 DEF Last
  <2>3. Len(InFlight("a")) = 0  BY <1>2, <2>1
  <2>4. tx_seq["a"] - rx_seq["b"] = 0  BY <2>1, <2>3, InFlightIs
  <2>5. Last = rx_seq["b"]  BY <2>2, <2>4, Places
  <2> QED  BY <2>5 DEF Follows, Tables
<1> QED  BY <1>1, <1>2 DEF NoBufferLost, TablesAgree

(* No buffer reaches an end that cannot resolve its region, and the tables *)
(* agree once nothing is under way, for every ring size, number of         *)
(* regions, buffers and ids: a registration overtakes no buffer, a         *)
(* withdrawal is overtaken by none, although each end changes its table at *)
(* a moment of its own (cleanq_register, cleanq_deregister, ipcq_register, *)
(* ipcq_deregister, ipcq_dequeue, cleanq_dequeue).                         *)
THEOREM IpcqNoBufferLost ==
  ASSUME OrderedStart = TRUE, Registrars \subseteq {"a"}
  PROVE  Spec => []NoBufferLost
<1>1. Init => Follows  BY InitFollows
<1>2. IInv /\ Follows /\ [Next]_vars => Follows'  BY StepFollows
<1> QED  BY <1>1, <1>2, IpcqInvariant, NoneLostFromFollows, PTL DEF Spec

===============================================================================
