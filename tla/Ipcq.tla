--------------------------------- MODULE Ipcq ---------------------------------
(***************************************************************************)
(* The IPC backend (ipcq.c): two processes connected by two rings in       *)
(* shared memory, one per direction, used through the CleanQ interface     *)
(* (queue_interface.c).  End "a" plays the part of test/main.c and end "b" *)
(* that of test/echo.c, which clears the shared memory when it starts.     *)
(*                                                                         *)
(* A writer fills a slot and then publishes it by storing its sequence     *)
(* number; the reader copies the slot and then stores how far it has read  *)
(* as the ring's ack.  Stores become visible in program order (x86; the    *)
(* source's barrier is commented out).  Registering or deregistering a     *)
(* region sends a command through the same ring, and waits for space.      *)
(*                                                                         *)
(* The region pool is reduced to the table known of the ids an end can     *)
(* resolve; RegionPool models the pool itself.                             *)
(***************************************************************************)
EXTENDS Integers, Sequences

CONSTANTS
  Slots,         \* slots of a ring: IPCQ_DEFAULT_SIZE - 1
  MaxSeq,        \* bound: messages an end sends
  Regions,       \* memory regions
  BufsPerRegion, \* buffers in each
  Rids,          \* region ids a pool may assign
  Registrars,    \* the ends whose application registers regions
  OrderedStart,  \* whether "b" is started before "a"
  NULL

End == {"a", "b"}

ASSUME IpcqAssumption ==
  /\ Slots \in Nat /\ Slots >= 2
  /\ MaxSeq \in Nat
  /\ Registrars \subseteq End
  /\ OrderedStart \in BOOLEAN
  /\ NULL \notin Regions

VARIABLES
  ring,     \* end -> slot -> [seq, msg]: the ring that end writes
  ack,      \* end -> tx_seq_ack of that ring, stored by its reader
  state,    \* end -> "down", "up" or "gone"
  pc,       \* end -> the point its process has reached
  out,      \* end -> the message it is sending
  got,      \* end -> the message it read last
  tx_seq, rx_seq,
  known,    \* end -> region id -> the region its pool resolves it to
  holder    \* buffer -> "none", "a", "b", "flight" or "lost"

vars == <<ring, ack, state, pc, out, got, tx_seq, rx_seq, known, holder>>

Peer(e) == CHOOSE p \in End : p # e

Buffers == Regions \X (1 .. BufsPerRegion)
RegionOf(b) == b[1]
BuffersOf(r) == {b \in Buffers : RegionOf(b) = r}

DataMsgs == [cmd : {"data"}, rid : Rids, item : Buffers]
Msgs == DataMsgs \union [cmd : {"reg"}, rid : Rids, item : Regions]
                 \union [cmd : {"dereg"}, rid : Rids, item : {NULL}]

Carries(m, b) == m.cmd = "data" /\ m.item = b

Slot == 0 .. Slots - 1
ZeroMsg  == [cmd |-> "data", rid |-> NULL, item |-> NULL]
ZeroRing == [i \in Slot |-> [seq |-> 0, msg |-> ZeroMsg]]

(* Shared memory survives its users: a ring may still hold the messages of *)
(* an earlier session.                                                     *)
StaleRing(m) == [i \in Slot |-> [seq |-> IF i = 0 THEN Slots ELSE i, msg |-> m]]

Init ==
  /\ \E r \in {ZeroRing} \union {StaleRing(m) : m \in DataMsgs} :
       ring = [e \in End |-> r]
  /\ ack = [e \in End |-> 0]
  /\ state = [e \in End |-> "down"]
  /\ pc = [e \in End |-> "idle"]
  /\ out = [e \in End |-> NULL]
  /\ got = [e \in End |-> NULL]
  /\ tx_seq = [e \in End |-> 1]
  /\ rx_seq = [e \in End |-> 1]
  /\ known = [e \in End |-> [i \in Rids |-> NULL]]
  /\ holder = [b \in Buffers |-> "none"]

(***************************************************************************)
(* ipcq_create and ipcq_destroy.                                           *)
(***************************************************************************)

(* Only "b" passes clear = true. *)
Cleared(e) == IF e = "b" THEN [d \in End |-> ZeroRing] ELSE ring

Create(e) ==
  /\ state[e] = "down"
  /\ OrderedStart /\ e = "a" => state["b"] # "down"
  /\ ring' = Cleared(e)
  /\ ack' = [d \in End |-> 0]
  /\ state' = [state EXCEPT ![e] = "up"]
  /\ UNCHANGED <<pc, out, got, tx_seq, rx_seq, known, holder>>

Idle(e) == state[e] = "up" /\ pc[e] = "idle"

(* The buffers an end holds go with its process. *)
Destroy(e) ==
  /\ Idle(e)
  /\ state' = [state EXCEPT ![e] = "gone"]
  /\ UNCHANGED <<ring, ack, pc, out, got, tx_seq, rx_seq, known, holder>>

(***************************************************************************)
(* Sending.                                                                *)
(***************************************************************************)

(* ipcq_can_write *)
CanWrite(e) == tx_seq[e] - ack[e] < Slots

Tx(e) == tx_seq[e] % Slots

SlotStoreSwapped(k, slot, seq, m) ==
  IF k = 2 THEN [slot EXCEPT !.msg = m] ELSE [slot EXCEPT !.seq = seq]

(* The two stores of ipcq_enqueue_internal: first the fields, then the     *)
(* sequence number that lets the reader have them.                         *)
SlotStore(k, slot, seq, m) ==
  IF k = 1 THEN [slot EXCEPT !.msg = m] ELSE [slot EXCEPT !.seq = seq]

StoreFields(e, m) ==
  /\ CanWrite(e)
  /\ ring' = [ring EXCEPT ![e][Tx(e)] = SlotStore(1, @, tx_seq[e], m)]
  /\ out' = [out EXCEPT ![e] = m]
  /\ pc' = [pc EXCEPT ![e] = "publish"]

Publish(e) ==
  /\ pc[e] = "publish"
  /\ ring' = [ring EXCEPT ![e][Tx(e)] = SlotStore(2, @, tx_seq[e], out[e])]
  /\ tx_seq' = [tx_seq EXCEPT ![e] = @ + 1]
  /\ pc' = [pc EXCEPT ![e] = "idle"]
  /\ holder' = [b \in Buffers |-> IF Carries(out[e], b) THEN "flight" ELSE holder[b]]
  /\ UNCHANGED <<ack, state, out, got, rx_seq, known>>

(* cleanq_enqueue of a buffer whose region this end knows; a full ring is  *)
(* an error that changes nothing.                                          *)
Enqueue(e, i, b) ==
  /\ Idle(e)
  /\ tx_seq[e] <= MaxSeq
  /\ holder[b] = e
  /\ known[e][i] = RegionOf(b)
  /\ StoreFields(e, [cmd |-> "data", rid |-> i, item |-> b])
  /\ UNCHANGED <<ack, state, got, tx_seq, rx_seq, known, holder>>

(* cleanq_register: the pool assigns an id, then ipcq_register waits for   *)
(* space in the ring.  The region's buffers belong to the caller.          *)
Register(e, i, r) ==
  /\ Idle(e)
  /\ tx_seq[e] <= MaxSeq
  /\ \A b \in BuffersOf(r) : holder[b] = "none"
  /\ known[e][i] = NULL
  /\ \A j \in Rids : known[e][j] # r
  /\ known' = [known EXCEPT ![e][i] = r]
  /\ holder' = [b \in Buffers |-> IF b \in BuffersOf(r) THEN e ELSE holder[b]]
  /\ out' = [out EXCEPT ![e] = [cmd |-> "reg", rid |-> i, item |-> r]]
  /\ pc' = [pc EXCEPT ![e] = "spin"]
  /\ UNCHANGED <<ring, ack, state, got, tx_seq, rx_seq>>

(* cleanq_deregister of a region all of whose buffers the caller has back. *)
Deregister(e, i) ==
  /\ Idle(e)
  /\ tx_seq[e] <= MaxSeq
  /\ known[e][i] # NULL
  /\ \A b \in BuffersOf(known[e][i]) : holder[b] = e
  /\ known' = [known EXCEPT ![e][i] = NULL]
  /\ holder' = [b \in Buffers |-> IF RegionOf(b) = known[e][i] THEN "none" ELSE holder[b]]
  /\ out' = [out EXCEPT ![e] = [cmd |-> "dereg", rid |-> i, item |-> NULL]]
  /\ pc' = [pc EXCEPT ![e] = "spin"]
  /\ UNCHANGED <<ring, ack, state, got, tx_seq, rx_seq>>

(* while (!ipcq_can_write(queue)) {} *)
SpinDone(e) ==
  /\ pc[e] = "spin"
  /\ StoreFields(e, out[e])
  /\ UNCHANGED <<ack, state, got, tx_seq, rx_seq, known, holder>>

(***************************************************************************)
(* Receiving: ipcq_dequeue.                                                *)
(***************************************************************************)

Rx(e) == rx_seq[e] % Slots

CanReadLate(e) == rx_seq[e] < ring[Peer(e)][Rx(e)].seq

(* ipcq_can_read *)
CanRead(e) == rx_seq[e] <= ring[Peer(e)][Rx(e)].seq

(* ipc_reg and ipc_dereg; errors of the pool are ignored. *)
KnownAfterSticky(e, m) ==
  IF m.cmd = "reg" THEN [known[e] EXCEPT ![m.rid] = m.item] ELSE known[e]

KnownAfter(e, m) ==
  CASE m.cmd = "reg" /\ known[e][m.rid] = NULL -> [known[e] EXCEPT ![m.rid] = m.item]
    [] m.cmd = "dereg" -> [known[e] EXCEPT ![m.rid] = NULL]
    [] OTHER -> known[e]

Read(e) ==
  /\ state[e] = "up"
  /\ pc[e] \in {"idle", "again"}
  /\ CanRead(e)
  /\ got' = [got EXCEPT ![e] = ring[Peer(e)][Rx(e)].msg]
  /\ known' = [known EXCEPT ![e] = KnownAfter(e, got'[e])]
  /\ rx_seq' = [rx_seq EXCEPT ![e] = @ + 1]
  /\ pc' = [pc EXCEPT ![e] = "ack"]
  /\ UNCHANGED <<ring, ack, state, out, tx_seq, holder>>

AckNext(e) == rx_seq[e] + 1
AckSlot(e) == rx_seq[e] % Slots

AckValue(e) == rx_seq[e]

(* A buffer is returned if the bounds check of cleanq_dequeue finds its    *)
(* region; a command is followed by another attempt to dequeue.            *)
Ack(e) ==
  /\ pc[e] = "ack"
  /\ ack' = [ack EXCEPT ![Peer(e)] = AckValue(e)]
  /\ IF got[e].cmd = "data"
     THEN /\ holder' = [holder EXCEPT ![got[e].item] =
                          IF known[e][got[e].rid] = RegionOf(got[e].item) THEN e ELSE "lost"]
          /\ pc' = [pc EXCEPT ![e] = "idle"]
     ELSE /\ pc' = [pc EXCEPT ![e] = "again"]
          /\ UNCHANGED holder
  /\ UNCHANGED <<ring, state, out, got, tx_seq, rx_seq, known>>

(* The second attempt finds the ring empty. *)
ReturnEmpty(e) ==
  /\ pc[e] = "again"
  /\ ~CanRead(e)
  /\ pc' = [pc EXCEPT ![e] = "idle"]
  /\ UNCHANGED <<ring, ack, state, out, got, tx_seq, rx_seq, known, holder>>

(***************************************************************************)
(* The specification.                                                      *)
(***************************************************************************)

Next ==
  \E e \in End :
    \/ Create(e)
    \/ Destroy(e)
    \/ \E i \in Rids, b \in Buffers : Enqueue(e, i, b)
    \/ e \in Registrars /\ \E i \in Rids, r \in Regions : Register(e, i, r)
    \/ e \in Registrars /\ \E i \in Rids : Deregister(e, i)
    \/ SpinDone(e)
    \/ Publish(e)
    \/ Read(e)
    \/ Ack(e)
    \/ ReturnEmpty(e)

Spec == Init /\ [][Next]_vars

Returns(e) == SpinDone(e) \/ Publish(e) \/ Ack(e) \/ ReturnEmpty(e)

(* Both processes are started; a call that can return does, and an end     *)
(* that is up keeps polling its queue.                                     *)
FairSpec ==
  Spec /\ \A e \in End : WF_vars(Create(e)) /\ WF_vars(Returns(e)) /\ WF_vars(Read(e))

(***************************************************************************)
(* Properties.                                                             *)
(***************************************************************************)

(* Messages sent by e and not yet read, oldest first. *)
InFlight(e) ==
  [k \in 1 .. tx_seq[e] - rx_seq[Peer(e)] |-> ring[e][(rx_seq[Peer(e)] + (k - 1)) % Slots].msg]

(* Indices, messages and tables have their types, and no more messages are *)
(* in flight than the ring has slots.                                      *)
TypeOK ==
  /\ ring \in [End -> [Slot -> [seq : 0 .. MaxSeq + Slots, msg : Msgs \union {ZeroMsg}]]]
  /\ state \in [End -> {"down", "up", "gone"}]
  /\ pc \in [End -> {"idle", "publish", "spin", "ack", "again"}]
  /\ out \in [End -> Msgs \union {NULL}]
  /\ got \in [End -> Msgs \union {NULL}]
  /\ known \in [End -> [Rids -> Regions \union {NULL}]]
  /\ holder \in [Buffers -> End \union {"none", "flight", "lost"}]
  /\ \A e \in End : tx_seq[e] - rx_seq[Peer(e)] \in 0 .. Slots

FifoA == INSTANCE FifoChannel WITH chan <- InFlight("a"), got <- got["b"], Cap <- Slots
FifoB == INSTANCE FifoChannel WITH chan <- InFlight("b"), got <- got["a"], Cap <- Slots

(* Each direction is a FIFO channel: what one end publishes the other end  *)
(* reads once, in order and intact, although the only shared state is the  *)
(* slots, their sequence numbers and the ack.                              *)
ImplementsFifo == FifoA!Spec /\ FifoB!Spec

(* The message that e has read but not yet acted upon. *)
Taking(e) == IF pc[e] = "ack" THEN {got[e]} ELSE {}

(* Every buffer is in exactly one place: with one end, or in exactly one   *)
(* message under way, of which a ring never holds more than it has slots.  *)
BuffersConserved ==
  /\ TypeOK
  /\ \A b \in Buffers :
       LET places == {p \in End \X (1 .. Slots) :
                        p[2] <= Len(InFlight(p[1])) /\ Carries(InFlight(p[1])[p[2]], b)}
           taken  == {e \in End : \E m \in Taking(e) : Carries(m, b)}
       IN  IF holder[b] = "flight"
           THEN \/ taken = {} /\ \E p \in places : places = {p}
                \/ places = {} /\ \E e \in taken : taken = {e}
           ELSE places = {} /\ taken = {}

(* Once nothing is under way the two tables are equal: both ends resolve   *)
(* every id to the same memory.                                            *)
TablesAgree ==
  (\A e \in End : state[e] = "up" /\ pc[e] = "idle" /\ InFlight(e) = << >>)
     => known["a"] = known["b"]

(* A buffer never reaches an end that cannot resolve its region: the       *)
(* command announcing the region is ahead of it in the ring, and the one   *)
(* withdrawing it behind it, and both tables change alike.  The bounds     *)
(* check of cleanq_dequeue, which comes after the slot has been given up,  *)
(* therefore never loses a buffer.                                         *)
NoBufferLost ==
  /\ \A b \in Buffers : holder[b] # "lost"
  /\ TablesAgree

(* Everything sent is received, unless an end is taken down: the receiver, *)
(* or the sender while the receiver spins for space in the other ring.     *)
EverythingArrives ==
  \A e \in End :
    InFlight(e) # << >> ~> (InFlight(e) = << >> \/ \E d \in End : state[d] = "gone")

(* cleanq_register and cleanq_deregister, which spin on a full ring,       *)
(* return, unless the other end is taken down.                             *)
RegisterReturns ==
  \A e \in End : pc[e] = "spin" ~> (pc[e] = "idle" \/ state[Peer(e)] = "gone")

=============================================================================
