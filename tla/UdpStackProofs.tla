---------------------------- MODULE UdpStackProofs ----------------------------
(***************************************************************************)
(* Proofs about UdpStack for any regions and ids, any sizes of the pools,  *)
(* the tables and the rings, and any sequence of registrations, packets,   *)
(* drops and early reclaims.                                               *)
(***************************************************************************)
EXTENDS UdpStack, SlotIndex, TLAPS

Packet == [buf : Buffers, len : Nat, port : Ports]

IpHeaders  == [what : {"good", "bad_sum", "bad_ip", "bad_proto", "sent", "none"}, len : Int]
UdpHeaders == [dest : Ports, len : Int]
Frame      == [ip : IpHeaders, udp : UdpHeaders]

(* A ring that is not overrun has a free descriptor. *)
TypeOK ==
  /\ ids \in [Queues -> [Regions -> Ids \union {NULL}]]
  /\ udp_regions \in [0 .. MaxRegions - 1 -> Regions \union {NULL}]
  /\ ip_regions \in [0 .. MaxRegions - 1 -> Regions \union {NULL}]
  /\ app \subseteq Buffers
  /\ rx \in Seq(Buffers) /\ rx_done \in 0 .. Len(rx) /\ rx_recl \in 0 .. NbDesc - 1
  /\ tx \in Seq(Packet) /\ tx_pending \in Nat /\ tx_recl \in 0 .. NbDesc - 1
  /\ mem \in [Buffers -> Frame]
  /\ status \in {"ok", "fault", "astray", "overrun"}
  /\ coherent \in BOOLEAN
  /\ status = "ok" => Len(rx) < NbDesc /\ Len(tx) < NbDesc

(***************************************************************************)
(* A buffer is in at most one place, once: held by the application, the    *)
(* receive ring or the transmit ring.  It is in one of them as long as the *)
(* pools agree (h).                                                        *)
(***************************************************************************)

Apart(a, r, t) ==
  /\ \A i \in 1 .. Len(r) : r[i] \notin a
  /\ \A i \in 1 .. Len(t) : t[i].buf \notin a
  /\ \A i, j \in 1 .. Len(r) : r[i] = r[j] => i = j
  /\ \A i, j \in 1 .. Len(t) : t[i].buf = t[j].buf => i = j
  /\ \A i \in 1 .. Len(r), j \in 1 .. Len(t) : r[i] # t[j].buf

Covered(a, r, t) ==
  \A b \in Buffers : \/ b \in a
                     \/ \E i \in 1 .. Len(r) : r[i] = b
                     \/ \E i \in 1 .. Len(t) : t[i].buf = b

Placed(a, r, t, h) == Apart(a, r, t) /\ (h => Covered(a, r, t))

(* A buffer enqueued to the receive ring leaves the application. *)
LEMMA PlacedToRx ==
  ASSUME NEW a \in SUBSET Buffers, NEW r \in Seq(Buffers), NEW t \in Seq(Packet),
         NEW h \in BOOLEAN,
         Placed(a, r, t, h), NEW b \in a
  PROVE  Placed(a \ {b}, Append(r, b), t, h)
<1> DEFINE q == Append(r, b)
           l == Len(r)
<1>1. l \in Nat /\ Len(q) = l + 1 /\ q[l + 1] = b /\ \A i \in 1 .. l : q[i] = r[i]
  OBVIOUS
<1> HIDE DEF q, l
<1>2. \A i \in 1 .. l + 1 : i = l + 1 \/ i \in 1 .. l  BY <1>1
<1>3. Apart(a \ {b}, q, t)
  BY <1>1, <1>2 DEF Placed, Apart, l
<1>4. h => Covered(a \ {b}, q, t)
  <2> SUFFICES ASSUME h, NEW c \in Buffers, c \notin a \ {b},
                      ~\E i \in 1 .. Len(t) : t[i].buf = c
               PROVE  \E i \in 1 .. l + 1 : q[i] = c
    BY <1>1 DEF Covered
  <2>1. CASE c = b  BY <2>1, <1>1
  <2>2. CASE c # b
    <3>1. PICK i \in 1 .. l : r[i] = c  BY <2>2 DEF Placed, Covered, l
    <3> QED  BY <1>1, <3>1
  <2> QED  BY <2>1, <2>2
<1> QED  BY <1>3, <1>4 DEF Placed, q

(* A packet enqueued to the transmit ring likewise. *)
LEMMA PlacedToTx ==
  ASSUME NEW a \in SUBSET Buffers, NEW r \in Seq(Buffers), NEW t \in Seq(Packet),
         NEW h \in BOOLEAN,
         Placed(a, r, t, h), NEW p \in Packet, p.buf \in a
  PROVE  Placed(a \ {p.buf}, r, Append(t, p), h)
<1> DEFINE q == Append(t, p)
           l == Len(t)
           b == p.buf
<1>1. l \in Nat /\ Len(q) = l + 1 /\ q[l + 1] = p /\ \A i \in 1 .. l : q[i] = t[i]
  OBVIOUS
<1> HIDE DEF q, l
<1>2. \A i \in 1 .. l + 1 : i = l + 1 \/ i \in 1 .. l  BY <1>1
<1>3. Apart(a \ {b}, r, q)
  BY <1>1, <1>2, SMTT(40) DEF Placed, Apart, l
<1>4. h => Covered(a \ {b}, r, q)
  <2> SUFFICES ASSUME h, NEW c \in Buffers, c \notin a \ {b},
                      ~\E i \in 1 .. Len(r) : r[i] = c
               PROVE  \E i \in 1 .. l + 1 : q[i].buf = c
    BY <1>1 DEF Covered
  <2>1. CASE c = b  BY <2>1, <1>1
  <2>2. CASE c # b
    <3>1. PICK i \in 1 .. l : t[i].buf = c  BY <2>2 DEF Placed, Covered, l
    <3> QED  BY <1>1, <3>1
  <2> QED  BY <2>1, <2>2
<1> QED  BY <1>3, <1>4 DEF Placed, q

(* A received packet that passes goes to the application. *)
LEMMA PlacedFromRx ==
  ASSUME NEW a \in SUBSET Buffers, NEW r \in Seq(Buffers), NEW t \in Seq(Packet),
         NEW h \in BOOLEAN,
         Placed(a, r, t, h), r # << >>
  PROVE  Placed(a \union {Head(r)}, Tail(r), t, h)
<1> DEFINE q == Tail(r)
           l == Len(r)
           b == Head(r)
<1>1. /\ l \in Nat \ {0} /\ Len(q) = l - 1 /\ b = r[1] /\ b \in Buffers
      /\ \A i \in 1 .. l - 1 : q[i] = r[i + 1]
  OBVIOUS
<1> HIDE DEF q, l, b
<1>2. \A i \in 1 .. l - 1 : i + 1 \in 1 .. l /\ i + 1 # 1  BY <1>1
<1>0. 1 \in 1 .. l  BY <1>1
<1>3. Apart(a \union {b}, q, t)
  <2>1. \A i \in 1 .. l - 1 : q[i] \notin a \union {b}  BY <1>0, <1>1, <1>2 DEF Placed, Apart, l
  <2>2. \A i \in 1 .. Len(t) : t[i].buf \notin a \union {b}  BY <1>0, <1>1 DEF Placed, Apart, l
  <2>3. \A i, j \in 1 .. l - 1 : q[i] = q[j] => i = j
    <3> SUFFICES ASSUME NEW i \in 1 .. l - 1, NEW j \in 1 .. l - 1, q[i] = q[j] PROVE i = j
      OBVIOUS
    <3>1. r[i + 1] = r[j + 1] /\ i + 1 \in 1 .. l /\ j + 1 \in 1 .. l  BY <1>1, <1>2
    <3>2. i + 1 = j + 1  BY <3>1 DEF Placed, Apart, l
    <3> QED  BY <3>2
  <2>4. \A i \in 1 .. l - 1, j \in 1 .. Len(t) : q[i] # t[j].buf  BY <1>1, <1>2 DEF Placed, Apart, l
  <2> QED  BY <1>1, <2>1, <2>2, <2>3, <2>4 DEF Placed, Apart
<1>4. h => Covered(a \union {b}, q, t)
  <2> SUFFICES ASSUME h, NEW c \in Buffers, c \notin a, c # b,
                      ~\E i \in 1 .. Len(t) : t[i].buf = c
               PROVE  \E i \in 1 .. l - 1 : q[i] = c
    BY <1>1 DEF Covered
  <2>1. PICK i \in 1 .. l : r[i] = c  BY DEF Placed, Covered, l
  <2>2. i # 1 /\ i - 1 \in 1 .. l - 1 /\ (i - 1) + 1 = i  BY <1>1, <2>1
  <2> QED  BY <1>1, <2>1, <2>2
<1> QED  BY <1>3, <1>4 DEF Placed, q, b

(* A packet sent goes back to the application. *)
LEMMA PlacedFromTx ==
  ASSUME NEW a \in SUBSET Buffers, NEW r \in Seq(Buffers), NEW t \in Seq(Packet),
         NEW h \in BOOLEAN,
         Placed(a, r, t, h), t # << >>
  PROVE  Placed(a \union {Head(t).buf}, r, Tail(t), h) /\ Head(t).buf \in Buffers
<1> DEFINE q == Tail(t)
           l == Len(t)
           b == Head(t).buf
<1>1. /\ l \in Nat \ {0} /\ Len(q) = l - 1 /\ b = t[1].buf /\ Head(t) \in Packet
      /\ \A i \in 1 .. l - 1 : q[i] = t[i + 1]
  OBVIOUS
<1>6. b \in Buffers  BY <1>1 DEF Packet
<1> HIDE DEF q, l, b
<1>2. \A i \in 1 .. l - 1 : i + 1 \in 1 .. l /\ i + 1 # 1  BY <1>1
<1>0. 1 \in 1 .. l  BY <1>1
<1>3. Apart(a \union {b}, r, q)
  <2>1. \A i \in 1 .. l - 1 : q[i].buf \notin a \union {b}  BY <1>0, <1>1, <1>2 DEF Placed, Apart, l
  <2>2. \A i \in 1 .. Len(r) : r[i] \notin a \union {b}  BY <1>0, <1>1 DEF Placed, Apart, l
  <2>3. \A i, j \in 1 .. l - 1 : q[i].buf = q[j].buf => i = j
    <3> SUFFICES ASSUME NEW i \in 1 .. l - 1, NEW j \in 1 .. l - 1, q[i].buf = q[j].buf PROVE i = j
      OBVIOUS
    <3>1. t[i + 1].buf = t[j + 1].buf /\ i + 1 \in 1 .. l /\ j + 1 \in 1 .. l  BY <1>1, <1>2
    <3>2. i + 1 = j + 1  BY <3>1 DEF Placed, Apart, l
    <3> QED  BY <3>2
  <2>4. \A i \in 1 .. Len(r), j \in 1 .. l - 1 : r[i] # q[j].buf  BY <1>1, <1>2 DEF Placed, Apart, l
  <2> QED  BY <1>1, <2>1, <2>2, <2>3, <2>4 DEF Placed, Apart
<1>4. h => Covered(a \union {b}, r, q)
  <2> SUFFICES ASSUME h, NEW c \in Buffers, c \notin a, c # b,
                      ~\E i \in 1 .. Len(r) : r[i] = c
               PROVE  \E i \in 1 .. l - 1 : q[i].buf = c
    BY <1>1 DEF Covered
  <2>1. PICK i \in 1 .. l : t[i].buf = c  BY DEF Placed, Covered, l
  <2>2. i # 1 /\ i - 1 \in 1 .. l - 1 /\ (i - 1) + 1 = i  BY <1>1, <2>1
  <2> QED  BY <1>1, <2>1, <2>2
<1> QED  BY <1>3, <1>4, <1>6 DEF Placed, q, b

(* A packet that is dropped goes back to the end of the receive ring: as   *)
(* if the application had got it and given it back.                        *)
LEMMA PlacedRequeued ==
  ASSUME NEW a \in SUBSET Buffers, NEW r \in Seq(Buffers), NEW t \in Seq(Packet),
         NEW h \in BOOLEAN,
         Placed(a, r, t, h), r # << >>
  PROVE  Placed(a, Append(Tail(r), Head(r)), t, h)
<1> DEFINE b == Head(r)
           c == a \union {b}
           q == Tail(r)
<1>1. b \in Buffers /\ q \in Seq(Buffers) /\ b = r[1] /\ 1 \in 1 .. Len(r)  OBVIOUS
<1>2. Placed(c, q, t, h)  BY PlacedFromRx
<1>3. b \notin a  BY <1>1 DEF Placed, Apart
<1>4. c \ {b} = a  BY <1>3
<1>5. b \in c /\ c \in SUBSET Buffers  BY <1>1
<1> HIDE DEF b, c, q
<1>6. Placed(c \ {b}, Append(q, b), t, h)  BY <1>1, <1>2, <1>5, PlacedToRx
<1> QED  BY <1>4, <1>6 DEF b, q

(***************************************************************************)
(* The inductive invariant.                                                *)
(***************************************************************************)

Registered(r) == ids["udp"][r] # NULL

(* A buffer in a ring belongs to a region the UDP queue knows. *)
InUse ==
  /\ \A i \in 1 .. Len(rx) : Registered(rx[i][1])
  /\ \A i \in 1 .. Len(tx) : Registered(tx[i].buf[1])

(* Each module has the region in the entry of its id. *)
Mapped(r) ==
  udp_regions[SlotOf(ids["udp"][r])] = r /\ ip_regions[SlotOf(ids["udp"][r])] = r

(* As long as the pools agree, the tables do too and no look-up has missed. *)
Harmony ==
  coherent =>
    /\ Agree(ids)
    /\ \A r \in Regions : Registered(r) => Mapped(r)
    /\ status \in {"ok", "overrun"}

(* What the checks find in a buffer the card has filled is a frame it      *)
(* received.                                                               *)
Filled == \A i \in 1 .. rx_done : mem[rx[i]] \in RxFrames

Headed(t) ==
  /\ mem[t.buf].ip = IpHeader("sent", t.len - EthHlen)
  /\ mem[t.buf].udp = UdpHeader(t.port, t.len - EthHlen - IpHlen)

Headers == \A i \in 1 .. Len(tx) : Headed(tx[i])

IInv == TypeOK /\ Placed(app, rx, tx, coherent) /\ InUse /\ Harmony /\ Filled /\ Headers

(***************************************************************************)
(* Looking up a region.                                                    *)
(***************************************************************************)

(* An id has an entry in the modules' tables. *)
LEMMA SlotInTable ==
  ASSUME NEW id \in Ids
  PROVE  SlotOf(id) \in 0 .. MaxRegions - 1
<1>1. id \in Nat /\ MaxRegions \in Nat \ {0}  BY StackAssumption
<1> QED  BY <1>1, ModRange DEF SlotOf

(* While the pools agree, every look-up of a region of the UDP queue finds *)
(* that region: under the id of any queue, in both tables and in the pool  *)
(* of any queue.                                                           *)
LEMMA LookUp ==
  ASSUME IInv, coherent, NEW r \in Regions, Registered(r), NEW q \in Queues
  PROVE  /\ IdOf(q, r) = ids["udp"][r]
         /\ Entry(udp_regions, IdOf(q, r)) = {r} /\ Entry(ip_regions, IdOf(q, r)) = {r}
         /\ \A p \in Queues : r \in Found(p, IdOf(q, r))
<1>1. \A p \in Queues : ids[p][r] = ids["udp"][r]
  BY DEF IInv, Harmony, Agree, Registered, Queues
<1>2. ids["udp"][r] # NULL /\ r # NULL  BY StackAssumption DEF Registered
<1>3. IdOf(q, r) = ids["udp"][r]  BY <1>1, <1>2 DEF IdOf
<1>4. Mapped(r)  BY DEF IInv, Harmony
<1>5. Entry(udp_regions, IdOf(q, r)) = {r} /\ Entry(ip_regions, IdOf(q, r)) = {r}
  BY <1>2, <1>3, <1>4 DEF Entry, Mapped
<1>6. ASSUME NEW p \in Queues PROVE r \in Found(p, IdOf(q, r))
  BY <1>1, <1>2, <1>3 DEF Found
<1> QED  BY <1>3, <1>5, <1>6

(* So nothing strays while the pools agree. *)
LEMMA NothingStrays ==
  ASSUME IInv, coherent, NEW b \in Buffers, Registered(b[1]), NEW q \in Queues
  PROVE  /\ TxOutcome(IdOf(q, b[1]), b[1]) = "ok"
         /\ RingOutcome("rx", Len(rx), rx_recl, IdOf(q, b[1]), b[1]) = "ok"
         /\ RxOutcome(b, IdOf(q, b[1])) = "ok"
         /\ Found("udp", IdOf(q, b[1])) # {}
<1>1. b[1] \in Regions  BY DEF Buffers
<1>2. PICK r \in Regions : r = b[1]  BY <1>1
<1>3. PICK id : id = IdOf(q, r)  OBVIOUS
<1>4. /\ Entry(udp_regions, id) = {r} /\ Entry(ip_regions, id) = {r}
      /\ r \in Found("udp", id) /\ r \in Found("rx", id) /\ r \in Found("tx", id)
  BY <1>2, <1>3, LookUp DEF Queues
<1>5. TxOutcome(id, r) = "ok"
  BY <1>4 DEF TxOutcome, TablesOutcome, RingOutcome, Outcome
<1>6. RingOutcome("rx", Len(rx), rx_recl, id, r) = "ok"  BY <1>4 DEF RingOutcome, Outcome
<1>7. RxOutcome(b, id) = "ok"
  BY <1>2, <1>4 DEF RxOutcome, TablesOutcome, Outcome
<1> QED  BY <1>2, <1>3, <1>4, <1>5, <1>6, <1>7

(* The outcomes of a look-up. *)
LEMMA Outcomes ==
  ASSUME NEW id, NEW r, NEW b
  PROVE  /\ TxOutcome(id, r) \in {"ok", "fault", "astray"}
         /\ RingOutcome("rx", Len(rx), rx_recl, id, r) \in {"ok", "fault", "astray"}
         /\ RxOutcome(b, id) \in {"ok", "fault", "astray"}
<1>1. \A f : Outcome(f, r) \in {"ok", "fault", "astray"}  BY DEF Outcome
<1>2. \A f : Outcome(f, b[1]) \in {"ok", "fault", "astray"}  BY DEF Outcome
<1>3. TxOutcome(id, r) \in {"ok", "fault", "astray"}
  BY <1>1 DEF TxOutcome, TablesOutcome, RingOutcome
<1>4. RingOutcome("rx", Len(rx), rx_recl, id, r) \in {"ok", "fault", "astray"}
  BY <1>1 DEF RingOutcome
<1>5. RxOutcome(b, id) \in {"ok", "fault", "astray"}  BY <1>2 DEF RxOutcome, TablesOutcome
<1> QED  BY <1>3, <1>4, <1>5

(* A program that goes astray keeps the invariant: the pools had ceased to *)
(* agree before.                                                           *)
LEMMA StraysIInv ==
  ASSUME IInv, NEW o \in {"ok", "fault", "astray"}, Strays(o), ~coherent
  PROVE  IInv'
<1>1. /\ o # "ok" /\ status' = o
      /\ UNCHANGED <<ids, udp_regions, ip_regions, coherent, app, rx, rx_done, rx_recl, tx,
                     tx_pending, tx_recl, mem>>
  BY DEF Strays, regVars, rxVars, txVars
<1>2. TypeOK'  BY <1>1 DEF IInv, TypeOK, Packet
<1>3. Placed(app, rx, tx, coherent)' /\ InUse' /\ Harmony' /\ Filled' /\ Headers'
  BY <1>1 DEF IInv, Placed, Apart, Covered, InUse, Registered, Harmony, Filled, Headers, Headed
<1> QED  BY <1>2, <1>3 DEF IInv

(* Frames the card receives are frames, and the checks let exactly the     *)
(* good ones pass.                                                         *)
LEMMA RxFrameChecked ==
  ASSUME NEW f \in RxFrames
  PROVE  f \in Frame /\ (Passes(f) <=> IsGood(f))
<1>0. DstPort \in Ports  BY StackAssumption
<1>1. PICK w \in {"good", "bad_sum", "bad_ip", "bad_proto"}, p \in Ports :
        f = [ip |-> IpHeader(w, 0), udp |-> UdpHeader(p, 0)]
  BY <1>0 DEF RxFrames
<1>2. f.ip.what = w /\ f.udp.dest = p  BY <1>1 DEF IpHeader, UdpHeader
<1>3. f \in Frame  BY <1>1 DEF Frame, IpHeaders, UdpHeaders, IpHeader, UdpHeader
<1>4. Passes(f) <=> IsGood(f)  BY <1>2 DEF Passes, IpCheck, UdpCheck, IsGood
<1> QED  BY <1>3, <1>4

LEMMA NoHeadersTyped == NoHeaders \in Frame
<1>1. DstPort \in Ports  BY StackAssumption
<1> QED  BY <1>1 DEF NoHeaders, Frame, IpHeaders, UdpHeaders, IpHeader, UdpHeader

(* udp_create and ip_create. *)
LEMMA InitIInv ==
  ASSUME Init
  PROVE  IInv
<1>1. /\ ids = [q \in Queues |-> [r \in Regions |-> NULL]]
      /\ udp_regions = NoRegions /\ ip_regions = NoRegions
      /\ app = Buffers /\ rx = << >> /\ rx_done = 0 /\ rx_recl = 0
      /\ tx = << >> /\ tx_pending = 0 /\ tx_recl = 0
      /\ mem = [b \in Buffers |-> NoHeaders] /\ status = "ok" /\ coherent = TRUE
  BY DEF Init, IpInit
<1>2. rx \in Seq(Buffers) /\ Len(rx) = 0 /\ tx \in Seq(Packet) /\ Len(tx) = 0  BY <1>1
<1>3. TypeOK
  <2>1. NoRegions \in [0 .. MaxRegions - 1 -> Regions \union {NULL}]  BY DEF NoRegions
  <2>2. NbDesc \in Nat \ {0}  BY StackAssumption
  <2>3. mem \in [Buffers -> Frame]  BY <1>1, NoHeadersTyped
  <2>4. ids \in [Queues -> [Regions -> Ids \union {NULL}]]  BY <1>1
  <2> QED  BY <1>1, <1>2, <2>1, <2>2, <2>3, <2>4 DEF TypeOK
<1>4. Placed(app, rx, tx, coherent)  BY <1>1, <1>2 DEF Placed, Apart, Covered
<1>5. \A r \in Regions : ids["udp"][r] = NULL  BY <1>1 DEF Queues
<1>6. Harmony  BY <1>1, <1>5 DEF Harmony, Agree, Registered
<1>7. InUse /\ Filled /\ Headers  BY <1>1, <1>2 DEF InUse, Filled, Headers
<1> QED  BY <1>3, <1>4, <1>6, <1>7 DEF IInv

(***************************************************************************)
(* Registrations leave the buffers alone.  Each has to keep the types, the *)
(* regions in use and, as long as the pools agree, the tables.             *)
(***************************************************************************)

LEMMA RegistrationIInv ==
  ASSUME IInv, status = "ok", UNCHANGED <<app, rxVars, txVars, mem, status>>,
         coherent' = (coherent /\ Agree(ids')),
         ids' \in [Queues -> [Regions -> Ids \union {NULL}]],
         udp_regions' \in [0 .. MaxRegions - 1 -> Regions \union {NULL}],
         ip_regions' \in [0 .. MaxRegions - 1 -> Regions \union {NULL}],
         \A b \in Buffers : b \notin app /\ Registered(b[1]) => ids'["udp"][b[1]] # NULL,
         coherent' => \A r \in Regions : ids'["udp"][r] # NULL =>
                        /\ udp_regions'[SlotOf(ids'["udp"][r])] = r
                        /\ ip_regions'[SlotOf(ids'["udp"][r])] = r
  PROVE  IInv'
<1>1. UNCHANGED <<app, rx, rx_done, rx_recl, tx, tx_pending, tx_recl, mem, status>>
  BY DEF rxVars, txVars
<1>2. coherent' \in BOOLEAN /\ (coherent' => coherent) /\ (coherent' => Agree(ids'))  OBVIOUS
<1>3. TypeOK'  BY <1>1, <1>2 DEF IInv, TypeOK, Packet
<1>4. Placed(app, rx, tx, coherent)' /\ Filled' /\ Headers'
  BY <1>1, <1>2 DEF IInv, Placed, Apart, Covered, Filled, Headers, Headed
<1>5. InUse'
  <2>1. ASSUME NEW i \in 1 .. Len(rx) PROVE ids'["udp"][rx[i][1]] # NULL
    <3>1. rx[i] \in Buffers  BY DEF IInv, TypeOK
    <3>2. rx[i] \notin app /\ Registered(rx[i][1])  BY DEF IInv, Placed, Apart, InUse
    <3> QED  BY <3>1, <3>2
  <2>2. ASSUME NEW i \in 1 .. Len(tx) PROVE ids'["udp"][tx[i].buf[1]] # NULL
    <3>1. tx[i] \in Packet  BY DEF IInv, TypeOK
    <3>2. tx[i].buf \in Buffers  BY <3>1 DEF Packet
    <3>3. tx[i].buf \notin app /\ Registered(tx[i].buf[1])  BY DEF IInv, Placed, Apart, InUse
    <3> QED  BY <3>2, <3>3
  <2> QED  BY <1>1, <2>1, <2>2 DEF InUse, Registered
<1>6. Harmony'  BY <1>1, <1>2 DEF Harmony, Registered, Mapped, SlotOf
<1> QED  BY <1>3, <1>4, <1>5, <1>6 DEF IInv

(* cleanq_register on the UDP queue. *)
LEMMA RegisterIInv ==
  ASSUME IInv, NEW r \in Regions, NEW id \in Ids, Register(r, id)
  PROVE  IInv'
<1>1. /\ status = "ok" /\ UNCHANGED <<app, rxVars, txVars, mem, status>>
      /\ coherent' = (coherent /\ Agree(ids'))
      /\ ids["udp"][r] = NULL
      /\ ids' = [ids EXCEPT !["udp"] = [ids["udp"] EXCEPT ![r] = id]]
      /\ udp_regions' = [udp_regions EXCEPT ![SlotOf(id)] = r]
      /\ ip_regions' = [ip_regions EXCEPT ![SlotOf(id)] = r]
  BY DEF Register, PoolAdds, UdpRegister, IpRegister
<1>2. /\ ids \in [Queues -> [Regions -> Ids \union {NULL}]] /\ "udp" \in Queues
      /\ udp_regions \in [0 .. MaxRegions - 1 -> Regions \union {NULL}]
      /\ ip_regions \in [0 .. MaxRegions - 1 -> Regions \union {NULL}]
  BY DEF IInv, TypeOK, Queues
<1>3. SlotOf(id) \in 0 .. MaxRegions - 1  BY SlotInTable
<1>4. /\ udp_regions' \in [0 .. MaxRegions - 1 -> Regions \union {NULL}]
      /\ ip_regions' \in [0 .. MaxRegions - 1 -> Regions \union {NULL}]
  BY <1>1, <1>2
<1>5. ids["udp"] \in [Regions -> Ids \union {NULL}]  BY <1>2
<1>6. [ids["udp"] EXCEPT ![r] = id] \in [Regions -> Ids \union {NULL}]  BY <1>5
<1>7. /\ ids' \in [Queues -> [Regions -> Ids \union {NULL}]]
      /\ ids'["udp"] = [ids["udp"] EXCEPT ![r] = id]
  BY <1>1, <1>2, <1>6
<1>8. ids'["udp"][r] = id /\ \A s \in Regions : s # r => ids'["udp"][s] = ids["udp"][s]
  BY <1>5, <1>7
<1>9. id # NULL  BY StackAssumption
<1>10. ASSUME NEW b \in Buffers, b \notin app, Registered(b[1])
       PROVE  ids'["udp"][b[1]] # NULL
  <2>1. b[1] \in Regions  BY DEF Buffers
  <2> QED  BY <1>1, <1>8, <1>10, <2>1 DEF Registered
<1>11. ASSUME coherent', NEW s \in Regions, ids'["udp"][s] # NULL
       PROVE  /\ udp_regions'[SlotOf(ids'["udp"][s])] = s
              /\ ip_regions'[SlotOf(ids'["udp"][s])] = s
  <2>1. CASE s = r  BY <1>1, <1>2, <1>3, <1>8, <2>1
  <2>2. CASE s # r
    <3>1. ids'["udp"][s] = ids["udp"][s] /\ Registered(s)  BY <1>8, <1>11, <2>2 DEF Registered
    <3>2. coherent /\ Agree(ids')  BY <1>1, <1>11
    <3>3. PICK k \in Ids : k = ids["udp"][s]  BY <1>5, <3>1 DEF Registered
    <3>4. SlotOf(k) # SlotOf(id)
      BY <1>8, <1>9, <1>11, <2>2, <3>1, <3>2, <3>3 DEF Agree, SlotOf
    <3>5. udp_regions[SlotOf(k)] = s /\ ip_regions[SlotOf(k)] = s
      BY <3>1, <3>2, <3>3 DEF IInv, Harmony, Mapped
    <3>6. SlotOf(k) \in 0 .. MaxRegions - 1  BY SlotInTable
    <3> QED  BY <1>1, <1>2, <1>3, <3>1, <3>3, <3>4, <3>5, <3>6
  <2> QED  BY <2>1, <2>2
<1> QED  BY <1>1, <1>4, <1>7, <1>10, <1>11, RegistrationIInv

(* A queue of the card registers or forgets a region. *)
LEMMA NicPoolIInv ==
  ASSUME IInv, NEW q \in {"rx", "tx"}, NEW r \in Regions, NEW v \in Ids \union {NULL},
         status = "ok", UNCHANGED <<udp_regions, ip_regions, app, rxVars, txVars, mem, status>>,
         coherent' = (coherent /\ Agree(ids')),
         ids' = [ids EXCEPT ![q] = [ids[q] EXCEPT ![r] = v]]
  PROVE  IInv'
<1>1. /\ ids \in [Queues -> [Regions -> Ids \union {NULL}]] /\ q \in Queues /\ "udp" \in Queues
      /\ q # "udp"
  BY DEF IInv, TypeOK, Queues
<1>2. ids[q] \in [Regions -> Ids \union {NULL}]  BY <1>1
<1>3. [ids[q] EXCEPT ![r] = v] \in [Regions -> Ids \union {NULL}]  BY <1>2
<1>4. ids' \in [Queues -> [Regions -> Ids \union {NULL}]] /\ ids'["udp"] = ids["udp"]
  BY <1>1, <1>3
<1>5. /\ udp_regions' \in [0 .. MaxRegions - 1 -> Regions \union {NULL}]
      /\ ip_regions' \in [0 .. MaxRegions - 1 -> Regions \union {NULL}]
  BY DEF IInv, TypeOK
<1>6. \A b \in Buffers : b \notin app /\ Registered(b[1]) => ids'["udp"][b[1]] # NULL
  BY <1>4 DEF Registered
<1>7. coherent' => \A s \in Regions : ids'["udp"][s] # NULL =>
                     /\ udp_regions'[SlotOf(ids'["udp"][s])] = s
                     /\ ip_regions'[SlotOf(ids'["udp"][s])] = s
  BY <1>4 DEF IInv, Harmony, Registered, Mapped
<1>8. UNCHANGED <<app, rxVars, txVars, mem, status>>  OBVIOUS
<1> QED  BY <1>4, <1>5, <1>6, <1>7, <1>8, RegistrationIInv

(* cleanq_deregister: the region has no buffer in a ring, and as long as   *)
(* the pools agree its entries are no other region's.                      *)
LEMMA DeregisterIInv ==
  ASSUME IInv, NEW r \in Regions, Deregister(r)
  PROVE  IInv'
<1> DEFINE id == ids["udp"][r]
<1>1. /\ status = "ok" /\ UNCHANGED <<app, rxVars, txVars, mem, status>>
      /\ coherent' = (coherent /\ Agree(ids'))
      /\ id # NULL /\ \A n \in 1 .. PerRegion : <<r, n>> \in app
      /\ udp_regions' = [udp_regions EXCEPT ![SlotOf(id)] = NULL]
      /\ ip_regions' = [ip_regions EXCEPT ![SlotOf(id)] = NULL]
      /\ ids' = [q \in Queues |-> [s \in Regions |->
                  IF (q = "udp" /\ s = r) \/ (q = "rx" /\ s \in Found("rx", id))
                    THEN NULL ELSE ids[q][s]]]
  BY DEF Deregister, UdpDeregister, IpDeregister
<1>2. /\ ids \in [Queues -> [Regions -> Ids \union {NULL}]] /\ "udp" \in Queues
      /\ udp_regions \in [0 .. MaxRegions - 1 -> Regions \union {NULL}]
      /\ ip_regions \in [0 .. MaxRegions - 1 -> Regions \union {NULL}]
  BY DEF IInv, TypeOK, Queues
<1>3. id \in Ids  BY <1>1, <1>2
<1> HIDE DEF id
<1>4. SlotOf(id) \in 0 .. MaxRegions - 1  BY <1>3, SlotInTable
<1>5. /\ udp_regions' \in [0 .. MaxRegions - 1 -> Regions \union {NULL}]
      /\ ip_regions' \in [0 .. MaxRegions - 1 -> Regions \union {NULL}]
  BY <1>1, <1>2
<1>6. ids' \in [Queues -> [Regions -> Ids \union {NULL}]]  BY <1>1, <1>2
<1>7. ids'["udp"][r] = NULL /\ \A s \in Regions : s # r => ids'["udp"][s] = ids["udp"][s]
  BY <1>1, <1>2
<1>8. ASSUME NEW b \in Buffers, b \notin app, Registered(b[1])
      PROVE  ids'["udp"][b[1]] # NULL
  <2>1. b[1] \in Regions /\ b[2] \in 1 .. PerRegion /\ b = <<b[1], b[2]>>  BY DEF Buffers
  <2>2. b[1] # r  BY <1>1, <1>8, <2>1
  <2> QED  BY <1>7, <1>8, <2>1, <2>2 DEF Registered
<1>9. ASSUME coherent', NEW s \in Regions, ids'["udp"][s] # NULL
      PROVE  /\ udp_regions'[SlotOf(ids'["udp"][s])] = s
             /\ ip_regions'[SlotOf(ids'["udp"][s])] = s
  <2>1. s # r /\ ids'["udp"][s] = ids["udp"][s] /\ Registered(s)
    BY <1>7, <1>9 DEF Registered
  <2>2. coherent /\ Agree(ids)  BY <1>1, <1>9 DEF IInv, Harmony
  <2>3. PICK k \in Ids : k = ids["udp"][s]  BY <1>2, <2>1 DEF Registered
  <2>4. SlotOf(k) # SlotOf(id)  BY <1>1, <2>1, <2>2, <2>3 DEF Agree, SlotOf, Registered, id
  <2>5. udp_regions[SlotOf(k)] = s /\ ip_regions[SlotOf(k)] = s
    BY <2>1, <2>2, <2>3 DEF IInv, Harmony, Mapped
  <2>6. SlotOf(k) \in 0 .. MaxRegions - 1  BY SlotInTable
  <2> QED  BY <1>1, <1>2, <1>4, <2>1, <2>3, <2>4, <2>5, <2>6
<1> QED  BY <1>1, <1>5, <1>6, <1>8, <1>9, RegistrationIInv

(***************************************************************************)
(* Downwards.                                                              *)
(***************************************************************************)

(* Writing to a buffer that is in neither ring disturbs no frame and no    *)
(* header, and writing to one of the receive ring disturbs no header.      *)
LEMMA WriteElsewhere ==
  ASSUME IInv, NEW b \in Buffers, NEW m \in [Buffers -> Frame],
         \A c \in Buffers : c # b => m[c] = mem[c]
  PROVE  /\ b \in app => \A i \in 1 .. rx_done : m[rx[i]] \in RxFrames
         /\ (b \in app \/ \E i \in 1 .. Len(rx) : rx[i] = b) =>
              \A i \in 1 .. Len(tx) : m[tx[i].buf] = mem[tx[i].buf]
<1>1. ASSUME b \in app, NEW i \in 1 .. rx_done PROVE m[rx[i]] \in RxFrames
  <2>1. i \in 1 .. Len(rx) /\ rx[i] \in Buffers  BY DEF IInv, TypeOK
  <2>2. rx[i] # b /\ mem[rx[i]] \in RxFrames  BY <1>1, <2>1 DEF IInv, Placed, Apart, Filled
  <2> QED  BY <2>1, <2>2
<1>2. ASSUME b \in app \/ \E i \in 1 .. Len(rx) : rx[i] = b, NEW i \in 1 .. Len(tx)
      PROVE  m[tx[i].buf] = mem[tx[i].buf]
  <2>1. tx[i] \in Packet  BY DEF IInv, TypeOK
  <2>2. tx[i].buf \in Buffers  BY <2>1 DEF Packet
  <2>3. tx[i].buf # b  BY <1>2 DEF IInv, Placed, Apart
  <2> QED  BY <2>2, <2>3
<1> QED  BY <1>1, <1>2

(* The headers the two modules write into a packet on its way down. *)
LEMMA PushedHeaders ==
  ASSUME NEW p \in Packets
  PROVE  /\ p.len \in Nat /\ p.port \in Ports
         /\ Pushed(p) \in Frame
         /\ Pushed(p).ip = IpHeader("sent", p.len - EthHlen)
         /\ Pushed(p).udp = UdpHeader(p.port, p.len - EthHlen - IpHlen)
<1>1. p \in [len : Nat, port : Ports]  BY StackAssumption
<1>2. p.len \in Nat /\ p.port \in Ports  BY <1>1
<1>3. PICK n \in Nat, q \in Ports : n = p.len /\ q = p.port  BY <1>2
<1>4. /\ Pushed(p).ip = IpHeader("sent", n - 14)
      /\ Pushed(p).udp = UdpHeader(q, n - 20 - 14)
      /\ Pushed(p) = [ip |-> IpHeader("sent", n - 14), udp |-> UdpHeader(q, n - 20 - 14)]
  BY <1>3 DEF Pushed, IpPushed, UdpPushed, EthHlen, IpHlen
<1>5. n - 14 \in Int /\ n - 20 - 14 \in Int /\ n - 20 - 14 = n - 14 - 20  OBVIOUS
<1>6. /\ IpHeader("sent", n - 14) \in IpHeaders
      /\ UdpHeader(q, n - 20 - 14) \in UdpHeaders
  BY <1>5 DEF IpHeader, UdpHeader, IpHeaders, UdpHeaders
<1>7. Pushed(p) \in Frame  BY <1>4, <1>6 DEF Frame
<1> QED  BY <1>2, <1>3, <1>4, <1>5, <1>7 DEF EthHlen, IpHlen

(* cleanq_enqueue with NETIF_TXFLAG: only the buffer handed over changes,  *)
(* whether or not the ring takes it.                                       *)
LEMMA EnqueueTxIInv ==
  ASSUME IInv, NEW b \in Buffers, NEW q \in Queues, NEW p \in Packets,
         EnqueueTx(b, IdOf(q, b[1]), p)
  PROVE  IInv'
<1>0. status = "ok" /\ b \in app /\ Registered(b[1])  BY DEF EnqueueTx, MayEnqueue, Registered
<1>1. CASE Strays(TxOutcome(IdOf(q, b[1]), b[1]))
  <2>1. TxOutcome(IdOf(q, b[1]), b[1]) # "ok"  BY <1>1 DEF Strays
  <2>2. ~coherent  BY <1>0, <2>1, NothingStrays
  <2>3. TxOutcome(IdOf(q, b[1]), b[1]) \in {"ok", "fault", "astray"}  BY Outcomes
  <2> QED  BY <1>1, <2>2, <2>3, StraysIInv
<1>2. CASE ~Strays(TxOutcome(IdOf(q, b[1]), b[1]))
  <2>1. /\ mem' = [mem EXCEPT ![b] = Pushed(p)]
        /\ TxPosts(b, p) \/ TxRefuses
        /\ UNCHANGED <<ids, udp_regions, ip_regions, coherent, rx, rx_done, rx_recl, tx_recl>>
    BY <1>2 DEF EnqueueTx, regVars, rxVars
  <2>2. /\ mem' \in [Buffers -> Frame] /\ mem'[b] = Pushed(p)
        /\ \A c \in Buffers : c # b => mem'[c] = mem[c]
    BY <2>1, PushedHeaders DEF IInv, TypeOK
  <2>3. /\ \A i \in 1 .. rx_done : mem'[rx[i]] \in RxFrames
        /\ \A i \in 1 .. Len(tx) : mem'[tx[i].buf] = mem[tx[i].buf]
    BY <1>0, <2>2, WriteElsewhere
  <2>4. Filled'  BY <2>1, <2>3 DEF Filled
  <2>5. CASE TxRefuses
    <3>1. UNCHANGED <<tx, tx_pending, app, status>>  BY <2>5 DEF TxRefuses
    <3>2. TypeOK'  BY <2>1, <2>2, <3>1 DEF IInv, TypeOK, Packet
    <3>3. Placed(app, rx, tx, coherent)' /\ InUse' /\ Harmony'
      BY <2>1, <3>1 DEF IInv, Placed, Apart, Covered, InUse, Registered, Harmony, Mapped, SlotOf
    <3>4. Headers'  BY <2>3, <3>1 DEF IInv, Headers, Headed
    <3> QED  BY <2>4, <3>2, <3>3, <3>4 DEF IInv
  <2>6. CASE TxPosts(b, p)
    <3>1. PICK t \in Packet : t = [buf |-> b, len |-> p.len, port |-> p.port]
      BY PushedHeaders DEF Packet
    <3>2. t.buf = b /\ t.len = p.len /\ t.port = p.port  BY <3>1
    <3>3. /\ tx' = Append(tx, t) /\ tx_pending' = tx_pending + 1 /\ app' = app \ {b}
          /\ status' \in {"ok", "overrun"}
          /\ status' = "ok" => ~Closes(Len(tx))
      BY <2>6, <3>1 DEF TxPosts
    <3>4. /\ tx \in Seq(Packet) /\ rx \in Seq(Buffers) /\ app \in SUBSET Buffers
          /\ coherent \in BOOLEAN /\ NbDesc \in Nat
      BY StackAssumption DEF IInv, TypeOK
    <3>5. /\ tx' \in Seq(Packet) /\ Len(tx') = Len(tx) + 1 /\ tx'[Len(tx) + 1] = t
          /\ \A i \in 1 .. Len(tx) : tx'[i] = tx[i]
          /\ Len(tx) \in Nat
      BY <3>3, <3>4
    <3>6. status' = "ok" => Len(tx') < NbDesc  BY <3>3, <3>4, <3>5 DEF Closes
    <3>7. TypeOK'
      <4>1. tx_pending' \in Nat /\ app' \subseteq Buffers  BY <3>3 DEF IInv, TypeOK
      <4> QED  BY <1>0, <2>1, <2>2, <3>3, <3>5, <3>6, <4>1 DEF IInv, TypeOK
    <3>8. Placed(app, rx, tx, coherent)'
      <4>1. Placed(app \ {t.buf}, rx, Append(tx, t), coherent)
        BY <1>0, <3>2, <3>4, PlacedToTx DEF IInv
      <4> QED  BY <2>1, <3>2, <3>3, <4>1
    <3>9. \A i \in 1 .. Len(tx') : i = Len(tx) + 1 \/ i \in 1 .. Len(tx)  BY <3>5
    <3>10. InUse'  BY <1>0, <2>1, <3>2, <3>5, <3>9 DEF IInv, InUse, Registered
    <3>11. Harmony'  BY <2>1, <3>3 DEF IInv, Harmony, Registered, Mapped, SlotOf
    <3>12. Headers'
      <4> SUFFICES ASSUME NEW i \in 1 .. Len(tx') PROVE Headed(tx[i])'
        BY DEF Headers
      <4>1. CASE i = Len(tx) + 1  BY <2>2, <3>2, <3>5, <4>1, PushedHeaders DEF Headed
      <4>2. CASE i \in 1 .. Len(tx)
        <5>1. Headed(tx[i])  BY <4>2 DEF IInv, Headers
        <5> QED  BY <2>3, <3>5, <4>2, <5>1 DEF Headed
      <4> QED  BY <3>9, <4>1, <4>2
    <3> QED  BY <2>4, <3>7, <3>8, <3>10, <3>11, <3>12 DEF IInv
  <2> QED  BY <2>1, <2>5, <2>6
<1> QED  BY <1>1, <1>2

(* cleanq_enqueue with NETIF_RXFLAG. *)
LEMMA EnqueueRxIInv ==
  ASSUME IInv, NEW b \in Buffers, NEW q \in Queues, EnqueueRx(b, IdOf(q, b[1]))
  PROVE  IInv'
<1> DEFINE o == RingOutcome("rx", Len(rx), rx_recl, IdOf(q, b[1]), b[1])
<1>0. status = "ok" /\ b \in app /\ Registered(b[1])  BY DEF EnqueueRx, MayEnqueue, Registered
<1>1. CASE Strays(o)
  <2>1. o # "ok"  BY <1>1 DEF Strays
  <2>2. ~coherent  BY <1>0, <2>1, NothingStrays
  <2>3. o \in {"ok", "fault", "astray"}  BY Outcomes
  <2> HIDE DEF o
  <2> QED  BY <1>1, <2>2, <2>3, StraysIInv
<1>2. CASE ~Strays(o)
  <2>1. /\ rx' = Append(rx, b) /\ app' = app \ {b}
        /\ status' \in {"ok", "overrun"} /\ (status' = "ok" => ~Closes(Len(rx)))
        /\ UNCHANGED <<ids, udp_regions, ip_regions, coherent, rx_done, rx_recl, tx, tx_pending,
                       tx_recl, mem>>
    BY <1>2 DEF EnqueueRx, regVars, txVars
  <2>2. /\ tx \in Seq(Packet) /\ rx \in Seq(Buffers) /\ app \in SUBSET Buffers
        /\ rx_done \in 0 .. Len(rx) /\ coherent \in BOOLEAN /\ NbDesc \in Nat
    BY StackAssumption DEF IInv, TypeOK
  <2>3. /\ rx' \in Seq(Buffers) /\ Len(rx') = Len(rx) + 1 /\ rx'[Len(rx) + 1] = b
        /\ \A i \in 1 .. Len(rx) : rx'[i] = rx[i]
        /\ Len(rx) \in Nat
    BY <2>1, <2>2
  <2>4. TypeOK'
    <3>1. status' = "ok" => Len(rx') < NbDesc  BY <2>1, <2>2, <2>3 DEF Closes
    <3>2. rx_done' \in 0 .. Len(rx') /\ app' \subseteq Buffers  BY <2>1, <2>2, <2>3
    <3> QED  BY <1>0, <2>1, <2>3, <3>1, <3>2 DEF IInv, TypeOK, Packet
  <2>5. Placed(app, rx, tx, coherent)'
    <3>1. Placed(app \ {b}, Append(rx, b), tx, coherent)  BY <1>0, <2>2, PlacedToRx DEF IInv
    <3> QED  BY <2>1, <3>1
  <2>6. \A i \in 1 .. Len(rx') : i = Len(rx) + 1 \/ i \in 1 .. Len(rx)  BY <2>3
  <2>7. InUse'  BY <1>0, <2>1, <2>3, <2>6 DEF IInv, InUse, Registered
  <2>8. Filled'  BY <2>1, <2>2, <2>3 DEF IInv, Filled
  <2>9. Harmony' /\ Headers'
    BY <2>1 DEF IInv, Harmony, Registered, Mapped, SlotOf, Headers, Headed
  <2> QED  BY <2>4, <2>5, <2>7, <2>8, <2>9 DEF IInv
<1> QED  BY <1>1, <1>2

(***************************************************************************)
(* Upwards.                                                                *)
(***************************************************************************)

(* An index that is advanced by one stays in the ring. *)
LEMMA ReclaimedInRing ==
  ASSUME NEW i \in 0 .. NbDesc - 1
  PROVE  Reclaimed(i) \in 0 .. NbDesc - 1
<1>1. NbDesc \in Nat \ {0}  BY StackAssumption
<1> QED  BY <1>1 DEF Reclaimed, Wrap

(* A ring with at most NbDesc - 2 buffers passes the full test: it misses  *)
(* only the wrap, and errs only on the accepting side.                     *)
LEMMA HasRoom ==
  ASSUME NEW recl \in 0 .. NbDesc - 1, NEW n \in Nat, n + 1 < NbDesc
  PROVE  ~Full(n, recl)
<1>1. NbDesc \in Nat \ {0}  BY StackAssumption
<1> QED  BY <1>1 DEF Full, Wrap

(* The first buffer of the receive ring, when the card has filled it: its  *)
(* region is registered, the checks pass exactly a good frame, and there   *)
(* is room to enqueue it again.                                            *)
LEMMA HeadOfRx ==
  ASSUME IInv, status = "ok", RxReady, NEW b, b = Head(rx)
  PROVE  /\ rx # << >> /\ b \in Buffers /\ b = rx[1] /\ 1 \in 1 .. Len(rx)
         /\ Registered(b[1]) /\ b \notin app
         /\ Passes(mem[b]) <=> IsGood(mem[b])
         /\ Requeued(b) = Append(Tail(rx), b)
<1>1. /\ rx \in Seq(Buffers) /\ rx_done \in 0 .. Len(rx) /\ Len(rx) < NbDesc
      /\ rx_recl \in 0 .. NbDesc - 1 /\ NbDesc \in Nat
  BY StackAssumption DEF IInv, TypeOK
<1>2. rx_done > 0 /\ 1 \in 1 .. rx_done /\ 1 \in 1 .. Len(rx)  BY <1>1 DEF RxReady
<1>3. rx # << >> /\ b \in Buffers /\ b = rx[1]  BY <1>1, <1>2
<1>4. Registered(b[1]) /\ b \notin app  BY <1>2, <1>3 DEF IInv, InUse, Placed, Apart
<1>5. mem[b] \in RxFrames  BY <1>2, <1>3 DEF IInv, Filled
<1>6. Passes(mem[b]) <=> IsGood(mem[b])  BY <1>5, RxFrameChecked
<1>7. Requeued(b) = Append(Tail(rx), b)
  <2>1. PICK n \in Nat : n = Len(rx) - 1  BY <1>1, <1>2
  <2>2. n + 1 < NbDesc  BY <1>1, <2>1
  <2>3. PICK i \in 0 .. NbDesc - 1 : i = Reclaimed(rx_recl)  BY <1>1, ReclaimedInRing
  <2>4. ~Full(n, i)  BY <2>2, HasRoom
  <2> QED  BY <2>1, <2>3, <2>4 DEF Requeued
<1> QED  BY <1>2, <1>3, <1>4, <1>6, <1>7

(* What a delivery does to the places: the application has the buffer, or  *)
(* nobody does and the pools disagree.                                     *)
LEMMA DeliveredPlaced ==
  ASSUME IInv, NEW b \in Buffers, Registered(b[1]), NEW q \in Queues,
         NEW r, NEW t, Placed(app \union {b}, r, t, coherent)
  PROVE  /\ Delivered(b, IdOf(q, b[1])) \in SUBSET Buffers
         /\ Placed(Delivered(b, IdOf(q, b[1])), r, t, coherent)
<1>1. app \in SUBSET Buffers /\ coherent \in BOOLEAN  BY DEF IInv, TypeOK
<1>2. CASE Found("udp", IdOf(q, b[1])) # {}  BY <1>1, <1>2 DEF Delivered
<1>3. CASE Found("udp", IdOf(q, b[1])) = {}
  <2>1. ~coherent  BY <1>3, NothingStrays
  <2>2. Placed(app, r, t, coherent)  BY <2>1 DEF Placed, Apart
  <2> QED  BY <1>1, <1>3, <2>2 DEF Delivered
<1> QED  BY <1>2, <1>3

(* udp_dequeue on the receive ring, on both outcomes of the checks. *)
LEMMA DequeueRxIInv ==
  ASSUME IInv, DequeueRx
  PROVE  IInv'
<1>0. status = "ok" /\ RxReady  BY DEF DequeueRx
<1>1. PICK b \in Buffers : b = Head(rx)  BY <1>0, HeadOfRx
<1>2. PICK id : id = IdOf("rx", b[1])  OBVIOUS
<1>3. /\ rx # << >> /\ b = rx[1] /\ 1 \in 1 .. Len(rx) /\ Registered(b[1]) /\ b \notin app
      /\ Requeued(b) = Append(Tail(rx), b)
  BY <1>0, <1>1, HeadOfRx
<1>4. "rx" \in Queues  BY DEF Queues
<1>5. CASE Strays(RxOutcome(b, id))
  <2>1. RxOutcome(b, id) # "ok"  BY <1>5 DEF Strays
  <2>2. ~coherent  BY <1>2, <1>3, <1>4, <2>1, NothingStrays
  <2>3. RxOutcome(b, id) \in {"ok", "fault", "astray"}  BY Outcomes
  <2> QED  BY <1>5, <2>2, <2>3, StraysIInv
<1>6. CASE ~Strays(RxOutcome(b, id))
  <2>1. /\ RxDelivers(b, id) \/ RxDrops(b)
        /\ mem' = [mem EXCEPT ![b] = NoHeaders]
        /\ rx_done' = rx_done - 1 /\ rx_recl' = Reclaimed(rx_recl)
        /\ UNCHANGED <<ids, udp_regions, ip_regions, coherent, tx, tx_pending, tx_recl, status>>
    BY <1>1, <1>2, <1>6 DEF DequeueRx, regVars, txVars
  <2>2. /\ tx \in Seq(Packet) /\ rx \in Seq(Buffers) /\ app \in SUBSET Buffers
        /\ rx_done \in 1 .. Len(rx) /\ rx_recl \in 0 .. NbDesc - 1 /\ Len(rx) < NbDesc
        /\ coherent \in BOOLEAN /\ NbDesc \in Nat
    BY <1>0, StackAssumption DEF IInv, TypeOK, RxReady
  <2>3. rx' \in {Tail(rx), Append(Tail(rx), b)}  BY <1>3, <2>1 DEF RxDelivers, RxDrops
  <2>4. /\ rx' \in Seq(Buffers) /\ Len(rx') \in {Len(rx) - 1, Len(rx)} /\ Len(rx) \in Nat \ {0}
        /\ \A i \in 1 .. Len(rx) - 1 : rx'[i] = rx[i + 1]
        /\ Len(rx') = Len(rx) => rx'[Len(rx)] = b
    <3> DEFINE s == Tail(rx)
               l == Len(rx)
    <3>1. s \in Seq(Buffers) /\ Len(s) = l - 1 /\ l \in Nat \ {0} /\ \A i \in 1 .. l - 1 : s[i] = rx[i + 1]
      BY <1>3, <2>2
    <3>2. rx' \in {s, Append(s, b)}  BY <2>3
    <3> HIDE DEF s, l
    <3>3. CASE rx' = s  BY <3>1, <3>3 DEF l
    <3>4. CASE rx' = Append(s, b)  BY <3>1, <3>4 DEF l
    <3> QED  BY <3>2, <3>3, <3>4
  <2>5. app' \in SUBSET Buffers /\ Placed(app, rx, tx, coherent)'
    <3>1. CASE RxDelivers(b, id)
      <4>1. rx' = Tail(rx) /\ app' = Delivered(b, id)  BY <3>1 DEF RxDelivers
      <4>2. Placed(app \union {b}, Tail(rx), tx, coherent)
        BY <1>1, <1>3, <2>2, PlacedFromRx DEF IInv
      <4>3. app' \in SUBSET Buffers /\ Placed(app', Tail(rx), tx, coherent)
        BY <1>2, <1>3, <1>4, <4>1, <4>2, DeliveredPlaced
      <4> QED  BY <2>1, <4>1, <4>3
    <3>2. CASE RxDrops(b)
      <4>1. rx' = Append(Tail(rx), b) /\ app' = app  BY <1>3, <3>2 DEF RxDrops
      <4>2. Placed(app, Append(Tail(rx), b), tx, coherent)
        BY <1>1, <1>3, <2>2, PlacedRequeued DEF IInv
      <4> QED  BY <2>1, <2>2, <4>1, <4>2
    <3> QED  BY <2>1, <3>1, <3>2
  <2>6. /\ mem' \in [Buffers -> Frame]
        /\ \A c \in Buffers : c # b => mem'[c] = mem[c]
    BY <2>1, NoHeadersTyped DEF IInv, TypeOK
  <2>7. TypeOK'
    <3>1. Len(rx') < NbDesc /\ rx_done' \in 0 .. Len(rx')  BY <2>1, <2>2, <2>4
    <3>2. rx_recl' \in 0 .. NbDesc - 1  BY <2>1, <2>2, ReclaimedInRing
    <3> QED  BY <1>0, <2>1, <2>4, <2>5, <2>6, <3>1, <3>2 DEF IInv, TypeOK, Packet
  <2>8. InUse'
    <3>1. ASSUME NEW i \in 1 .. Len(rx') PROVE Registered(rx'[i][1])
      <4>1. CASE i \in 1 .. Len(rx) - 1
        <5>1. rx'[i] = rx[i + 1] /\ i + 1 \in 1 .. Len(rx)  BY <2>4, <4>1
        <5> QED  BY <5>1 DEF IInv, InUse
      <4>2. CASE i \notin 1 .. Len(rx) - 1
        <5>1. Len(rx') = Len(rx) /\ i = Len(rx)  BY <2>4, <4>2
        <5> QED  BY <1>3, <2>4, <5>1
      <4> QED  BY <4>1, <4>2
    <3> QED  BY <2>1, <3>1 DEF IInv, InUse, Registered
  <2>9. Filled'
    <3> SUFFICES ASSUME NEW i \in 1 .. rx_done' PROVE mem'[rx'[i]] \in RxFrames
      BY DEF Filled
    <3>1. i \in 1 .. Len(rx) - 1 /\ i + 1 \in 1 .. rx_done /\ i + 1 \in 1 .. Len(rx) /\ i + 1 # 1
      BY <2>1, <2>2, <2>4
    <3>2. rx'[i] = rx[i + 1]  BY <2>4, <3>1
    <3>3. rx[i + 1] \in Buffers /\ rx[i + 1] # b
      BY <1>3, <2>2, <3>1 DEF IInv, Placed, Apart
    <3> QED  BY <2>6, <3>1, <3>2, <3>3 DEF IInv, Filled
  <2>10. Headers'
    <3>1. \A i \in 1 .. Len(tx) : mem'[tx[i].buf] = mem[tx[i].buf]
      BY <1>3, <2>6, WriteElsewhere
    <3> QED  BY <2>1, <3>1 DEF IInv, Headers, Headed
  <2>11. Harmony'  BY <2>1 DEF IInv, Harmony, Registered, Mapped, SlotOf
  <2> QED  BY <2>5, <2>7, <2>8, <2>9, <2>10, <2>11 DEF IInv
<1> QED  BY <1>5, <1>6

(* udp_dequeue on the transmit ring. *)
LEMMA DequeueTxIInv ==
  ASSUME IInv, DequeueTx
  PROVE  IInv'
<1>0. /\ status = "ok" /\ tx # << >> /\ tx' = Tail(tx) /\ tx_recl' = Reclaimed(tx_recl)
      /\ app' = Delivered(Head(tx).buf, IdOf("tx", Head(tx).buf[1]))
      /\ mem' = [mem EXCEPT ![Head(tx).buf] = NoHeaders]
      /\ UNCHANGED <<ids, udp_regions, ip_regions, coherent, rx, rx_done, rx_recl, tx_pending,
                     status>>
  BY DEF DequeueTx, regVars, rxVars
<1>1. /\ tx \in Seq(Packet) /\ rx \in Seq(Buffers) /\ app \in SUBSET Buffers
      /\ Len(tx) < NbDesc /\ NbDesc \in Nat /\ tx_recl \in 0 .. NbDesc - 1 /\ coherent \in BOOLEAN
  BY <1>0, StackAssumption DEF IInv, TypeOK
<1>2. /\ tx' \in Seq(Packet) /\ Len(tx') = Len(tx) - 1 /\ Len(tx) \in Nat \ {0}
      /\ \A i \in 1 .. Len(tx) - 1 : tx'[i] = tx[i + 1]
      /\ Head(tx) = tx[1]
  BY <1>0, <1>1
<1>3. Placed(app \union {Head(tx).buf}, rx, Tail(tx), coherent) /\ Head(tx).buf \in Buffers
  BY <1>0, <1>1, PlacedFromTx DEF IInv
<1>4. PICK b \in Buffers : b = Head(tx).buf  BY <1>3
<1>5. b = tx[1].buf /\ 1 \in 1 .. Len(tx) /\ Registered(b[1])  BY <1>2, <1>4 DEF IInv, InUse
<1>6. app' \in SUBSET Buffers /\ Placed(app, rx, tx, coherent)'
  <2>1. "tx" \in Queues  BY DEF Queues
  <2>2. Placed(app \union {b}, rx, tx', coherent)  BY <1>0, <1>3, <1>4
  <2>3. app' \in SUBSET Buffers /\ Placed(app', rx, tx', coherent)
    BY <1>0, <1>4, <1>5, <2>1, <2>2, DeliveredPlaced
  <2> QED  BY <1>0, <2>3
<1>7. /\ mem' \in [Buffers -> Frame]
      /\ \A c \in Buffers : c # b => mem'[c] = mem[c]
  BY <1>0, <1>4, NoHeadersTyped DEF IInv, TypeOK
<1>8. TypeOK'
  <2>1. Len(tx') < NbDesc  BY <1>1, <1>2
  <2>2. tx_recl' \in 0 .. NbDesc - 1  BY <1>0, <1>1, ReclaimedInRing
  <2> QED  BY <1>0, <1>2, <1>6, <1>7, <2>1, <2>2 DEF IInv, TypeOK
<1>9. \A i \in 1 .. Len(tx') : i + 1 \in 1 .. Len(tx) /\ tx'[i] = tx[i + 1] /\ i + 1 # 1  BY <1>2
<1>10. InUse'  BY <1>0, <1>9 DEF IInv, InUse, Registered
<1>11. Headers'
  <2> SUFFICES ASSUME NEW i \in 1 .. Len(tx') PROVE Headed(tx[i])'
    BY DEF Headers
  <2>1. i + 1 \in 1 .. Len(tx) /\ tx'[i] = tx[i + 1] /\ i + 1 # 1  BY <1>9
  <2>2. tx[i + 1] \in Packet  BY <1>1, <2>1
  <2>3. tx[i + 1].buf \in Buffers  BY <2>2 DEF Packet
  <2>4. tx[i + 1].buf # b  BY <1>5, <2>1 DEF IInv, Placed, Apart
  <2>5. Headed(tx[i + 1])  BY <2>1 DEF IInv, Headers
  <2> QED  BY <1>7, <2>1, <2>3, <2>4, <2>5 DEF Headed
<1>12. Filled'
  <2> SUFFICES ASSUME NEW i \in 1 .. rx_done PROVE mem'[rx[i]] \in RxFrames
    BY <1>0 DEF Filled
  <2>1. i \in 1 .. Len(rx) /\ rx[i] \in Buffers  BY DEF IInv, TypeOK
  <2>2. rx[i] # b  BY <1>5, <2>1 DEF IInv, Placed, Apart
  <2> QED  BY <1>7, <2>1, <2>2 DEF IInv, Filled
<1>13. Harmony'  BY <1>0 DEF IInv, Harmony, Registered, Mapped, SlotOf
<1> QED  BY <1>6, <1>8, <1>10, <1>11, <1>12, <1>13 DEF IInv

(***************************************************************************)
(* The card, and every step.                                               *)
(***************************************************************************)

(* The card fills the next buffer of the receive ring, and no other. *)
LEMMA CardReceiveIInv ==
  ASSUME IInv, CardReceive
  PROVE  IInv'
<1>0. /\ rx_done < Len(rx) /\ rx_done' = rx_done + 1
      /\ UNCHANGED <<ids, udp_regions, ip_regions, coherent, app, rx, rx_recl, tx, tx_pending,
                     tx_recl, status>>
  BY DEF CardReceive, regVars, txVars
<1>1. PICK f \in RxFrames : mem' = [mem EXCEPT ![rx[rx_done + 1]] = f]  BY DEF CardReceive
<1>2. rx \in Seq(Buffers) /\ rx_done \in 0 .. Len(rx) /\ mem \in [Buffers -> Frame]
  BY DEF IInv, TypeOK
<1>3. rx_done + 1 \in 1 .. Len(rx)  BY <1>0, <1>2
<1>4. PICK b \in Buffers : b = rx[rx_done + 1]  BY <1>2, <1>3
<1>5. /\ mem' \in [Buffers -> Frame] /\ mem'[b] = f
      /\ \A c \in Buffers : c # b => mem'[c] = mem[c]
  BY <1>1, <1>2, <1>4, RxFrameChecked
<1>6. TypeOK'
  <2>1. rx_done' \in 0 .. Len(rx)  BY <1>0, <1>2
  <2> QED  BY <1>0, <1>5, <2>1 DEF IInv, TypeOK, Packet
<1>7. Filled'
  <2> SUFFICES ASSUME NEW i \in 1 .. rx_done + 1 PROVE mem'[rx[i]] \in RxFrames
    BY <1>0 DEF Filled
  <2>1. CASE i = rx_done + 1  BY <1>4, <1>5, <2>1
  <2>2. CASE i # rx_done + 1
    <3>1. i \in 1 .. rx_done /\ i \in 1 .. Len(rx)  BY <1>0, <1>2, <2>2
    <3>2. rx[i] # b /\ rx[i] \in Buffers
      BY <1>2, <1>3, <1>4, <2>2, <3>1 DEF IInv, Placed, Apart
    <3> QED  BY <1>5, <3>1, <3>2 DEF IInv, Filled
  <2> QED  BY <2>1, <2>2
<1>8. Headers'
  <2>1. \A i \in 1 .. Len(tx) : mem'[tx[i].buf] = mem[tx[i].buf]
    BY <1>3, <1>4, <1>5, WriteElsewhere
  <2> QED  BY <1>0, <2>1 DEF IInv, Headers, Headed
<1>9. Placed(app, rx, tx, coherent)' /\ InUse' /\ Harmony'
  BY <1>0 DEF IInv, Placed, Apart, Covered, InUse, Registered, Harmony, Mapped, SlotOf
<1> QED  BY <1>6, <1>7, <1>8, <1>9 DEF IInv

(* Every step preserves the invariant. *)
LEMMA NextIInv ==
  ASSUME IInv, [Next]_vars
  PROVE  IInv'
<1>1. CASE CardTransmit
  <2>1. /\ tx_pending > 0 /\ tx_pending' = tx_pending - 1
        /\ UNCHANGED <<ids, udp_regions, ip_regions, coherent, app, rx, rx_done, rx_recl, tx,
                       tx_recl, mem, status>>
    BY <1>1 DEF CardTransmit, regVars, rxVars
  <2>2. TypeOK'  BY <2>1 DEF IInv, TypeOK, Packet
  <2> QED
    BY <2>1, <2>2 DEF IInv, Placed, Apart, Covered, InUse, Registered, Harmony, Mapped, SlotOf,
                      Filled, Headers, Headed
<1>2. CASE UNCHANGED vars
  <2>1. UNCHANGED <<ids, udp_regions, ip_regions, coherent, app, rx, rx_done, rx_recl, tx,
                    tx_pending, tx_recl, mem, status>>
    BY <1>2 DEF vars
  <2>2. TypeOK'  BY <2>1 DEF IInv, TypeOK, Packet
  <2> QED
    BY <2>1, <2>2 DEF IInv, Placed, Apart, Covered, InUse, Registered, Harmony, Mapped, SlotOf,
                      Filled, Headers, Headed
<1>3. ASSUME NEW q \in {"rx", "tx"}, NEW r \in Regions, NEW id \in Ids, NicRegister(q, r, id)
      PROVE  IInv'
  BY <1>3, NicPoolIInv DEF NicRegister, PoolAdds
<1>4. ASSUME NEW r \in Regions, TxDeregister(r) PROVE IInv'
  BY <1>4, NicPoolIInv DEF TxDeregister
<1>5. CASE \E b \in Buffers, q \in Queues : EnqueueRx(b, IdOf(q, b[1]))
  BY <1>5, EnqueueRxIInv
<1>6. CASE \E b \in Buffers, q \in Queues, p \in Packets : EnqueueTx(b, IdOf(q, b[1]), p)
  BY <1>6, EnqueueTxIInv
<1> QED
  BY <1>1, <1>2, <1>3, <1>4, <1>5, <1>6, RegisterIInv, DeregisterIInv, DequeueRxIInv,
     DequeueTxIInv, CardReceiveIInv DEF Next

(* The inductive invariant holds throughout, for every value of the        *)
(* constants: places, the modules' tables, the frames and the headers.     *)
THEOREM StackInvariant == Spec => []IInv
<1>1. Init => IInv  BY InitIInv
<1>2. IInv /\ [Next]_vars => IInv'  BY NextIInv
<1> QED  BY <1>1, <1>2, PTL DEF Spec

(* No buffer is in two places, and while the pools agree none is lost,     *)
(* dropped packets and overrun rings included.                             *)
THEOREM StackBuffersConserved == Spec => []BuffersConserved
<1>1. IInv => BuffersConserved
  <2> SUFFICES ASSUME IInv PROVE BuffersConserved
    OBVIOUS
  <2>1. rx \in Seq(Buffers) /\ tx \in Seq(Packet) /\ app \subseteq Buffers  BY DEF IInv, TypeOK
  <2>2. DOMAIN rx = 1 .. Len(rx) /\ DOMAIN tx = 1 .. Len(tx)  BY <2>1
  <2>3. Elements(rx) \subseteq Buffers  BY <2>1 DEF Elements
  <2>4. Elements(tx) \subseteq Packet  BY <2>1 DEF Elements
  <2>5. {t.buf : t \in Elements(tx)} \subseteq Buffers  BY <2>4 DEF Packet
  <2>6. ASSUME coherent, NEW b \in Buffers
        PROVE  b \in app \/ b \in Elements(rx) \/ b \in {t.buf : t \in Elements(tx)}
    BY <2>2, <2>6 DEF IInv, Placed, Covered, Elements
  <2>7. coherent => Buffers = app \union Elements(rx) \union {t.buf : t \in Elements(tx)}
    BY <2>1, <2>3, <2>5, <2>6
  <2> QED  BY <2>2, <2>7 DEF IInv, Placed, Apart, BuffersConserved
<1> QED  BY <1>1, StackInvariant, PTL

(* While the pools agree, both modules address exactly the region of every *)
(* buffer in the rings, under any queue's id, and no look-up misses.       *)
THEOREM StackAddressable == Spec => []Addressable
<1>1. IInv => Addressable
  <2> SUFFICES ASSUME IInv, coherent PROVE Addressable
    BY DEF Addressable
  <2>1. rx \in Seq(Buffers) /\ tx \in Seq(Packet)  BY DEF IInv, TypeOK
  <2>2. DOMAIN rx = 1 .. Len(rx) /\ DOMAIN tx = 1 .. Len(tx)  BY <2>1
  <2>3. ASSUME NEW b \in Elements(rx) \union {t.buf : t \in Elements(tx)}, NEW q \in Queues
        PROVE  /\ Entry(ip_regions, IdOf(q, b[1])) = {b[1]}
               /\ Entry(udp_regions, IdOf(q, b[1])) = {b[1]}
    <3>1. CASE b \in Elements(rx)
      <4>1. PICK i \in 1 .. Len(rx) : b = rx[i]  BY <2>2, <3>1 DEF Elements
      <4>2. b \in Buffers /\ Registered(b[1])  BY <2>1, <4>1 DEF IInv, InUse
      <4>3. b[1] \in Regions  BY <4>2 DEF Buffers
      <4> QED  BY <4>2, <4>3, LookUp
    <3>2. CASE b \in {t.buf : t \in Elements(tx)}
      <4>1. PICK i \in 1 .. Len(tx) : b = tx[i].buf  BY <2>2, <3>2 DEF Elements
      <4>2. tx[i] \in Packet  BY <2>1
      <4>3. b \in Buffers /\ Registered(b[1])  BY <4>1, <4>2 DEF Packet, IInv, InUse
      <4>4. b[1] \in Regions  BY <4>3 DEF Buffers
      <4> QED  BY <4>3, <4>4, LookUp
    <3> QED  BY <3>1, <3>2
  <2>4. status \in {"ok", "overrun"}  BY DEF IInv, Harmony
  <2> QED  BY <2>3, <2>4 DEF Addressable
<1> QED  BY <1>1, StackInvariant, PTL

(* A packet in the transmit ring carries the headers of its own enqueue,   *)
(* whether or not the pools agree.                                         *)
THEOREM StackHeadersInPlace == Spec => []HeadersInPlace
<1>1. IInv => HeadersInPlace
  <2> SUFFICES ASSUME IInv, NEW i \in DOMAIN tx PROVE Headed(tx[i])
    BY DEF HeadersInPlace, Headed
  <2>1. DOMAIN tx = 1 .. Len(tx)  BY DEF IInv, TypeOK
  <2> QED  BY <2>1 DEF IInv, Headers
<1> QED  BY <1>1, StackInvariant, PTL

Filtered ==
  DequeueRx => /\ Head(rx) \in app' => IsGood(mem[Head(rx)])
               /\ coherent /\ IsGood(mem[Head(rx)]) => Head(rx) \in app'

(* Only a packet whose frame passes every check reaches the application,   *)
(* and while the pools agree every such packet does.                       *)
THEOREM StackFilterExact == Spec => FilterExact
<1>1. IInv /\ [Next]_vars => [Filtered]_vars
  <2> SUFFICES ASSUME IInv, DequeueRx
               PROVE  /\ Head(rx) \in app' => IsGood(mem[Head(rx)])
                      /\ coherent /\ IsGood(mem[Head(rx)]) => Head(rx) \in app'
    BY DEF Filtered
  <2>0. status = "ok" /\ RxReady  BY DEF DequeueRx
  <2>1. PICK b \in Buffers : b = Head(rx)  BY <2>0, HeadOfRx
  <2>2. PICK id : id = IdOf("rx", b[1])  OBVIOUS
  <2>3. Registered(b[1]) /\ b \notin app /\ (Passes(mem[b]) <=> IsGood(mem[b]))
    BY <2>0, <2>1, HeadOfRx
  <2>4. coherent => RxOutcome(b, id) = "ok" /\ Found("udp", id) # {}
    BY <2>2, <2>3, NothingStrays DEF Queues
  <2>5. \/ RxOutcome(b, id) # "ok" /\ app' = app
        \/ RxDelivers(b, id)
        \/ RxDrops(b)
    BY <2>1, <2>2 DEF DequeueRx, Strays
  <2>6. b \in app' => IsGood(mem[b])
    BY <2>3, <2>5 DEF RxDelivers, RxDrops
  <2>7. coherent /\ IsGood(mem[b]) => b \in app'
    BY <2>3, <2>4, <2>5 DEF RxDelivers, RxDrops, Delivered
  <2> QED  BY <2>1, <2>6, <2>7
<1>2. Spec => [][Filtered]_vars  BY <1>1, StackInvariant, PTL DEF Spec
<1> QED  BY <1>2 DEF FilterExact, Filtered

===============================================================================
