-------------------------------- MODULE DebugQ --------------------------------
(***************************************************************************)
(* The debug module (cleanq_debug_module.c), stacked on another queue: it  *)
(* keeps, per region, the list of memory chunks this endpoint owns, takes  *)
(* an enqueued buffer out of the list and puts a dequeued one back.  It is *)
(* called through the CleanQ interface (queue_interface.c), which checks   *)
(* the ids against its own pool of regions.                                *)
(*                                                                         *)
(* The queue below is the FIFO channel that every backend promises; its    *)
(* other endpoint returns our buffers, as the loopback backend does, and   *)
(* may send buffers of regions that it registered itself.                  *)
(***************************************************************************)
EXTENDS Integers, Sequences

CONSTANTS
  OwnRids,      \* regions this endpoint registers
  ForeignRids,  \* regions the other endpoint registers
  RegionLen,    \* the length of every region
  Bufs,         \* the buffers this endpoint uses: records [offset, length]
  PeerBufs,     \* the buffers of foreign regions the other endpoint sends
  Cap,          \* descriptors the queue below holds
  MaxEntries,   \* bound: entries of the list of regions
  NONE

Rids == OwnRids \union ForeignRids

ASSUME DebugAssumption ==
  /\ OwnRids \intersect ForeignRids = {}
  /\ RegionLen \in Nat \ {0} /\ Cap \in Nat
  /\ Bufs \subseteq [offset : 0 .. RegionLen - 1, length : 1 .. RegionLen]
  /\ \A b \in Bufs : b.offset + b.length <= RegionLen
  /\ PeerBufs \subseteq Bufs

VARIABLES
  region_pool,  \* the ids the debug queue's own region pool resolves
  regions,      \* que->regions: sequence of [rid, length, not_consistent, buffers]
  chan, taken,  \* the queue below: what is in it, what it handed out last
  sent,         \* buffers of foreign regions the other endpoint has given away
  ret,          \* what the last call returned
  clobbered     \* history: line 804 has changed a chunk of the first region

debugVars == <<region_pool, regions, chan, taken, sent, ret, clobbered>>

Descs == [rid : Rids, buf : Bufs]
Below == INSTANCE FifoChannel WITH Msgs <- Descs, NULL <- NONE, got <- taken

(* debug_create *)
DebugInit ==
  /\ region_pool = {} /\ regions = << >>
  /\ Below!Init
  /\ sent = {}
  /\ ret = "OK"
  /\ clobbered = FALSE

(* The model ends where the program has read through a null pointer or has *)
(* overwritten the list of another region.                                 *)
Running == ret # "FAULT" /\ ~clobbered

Return(err) == ret' = err

(***************************************************************************)
(* Lists of chunks, lowest offset first.                                   *)
(***************************************************************************)

(* s with its elements i to j replaced by those of t. *)
Splice(s, i, j, t) == SubSeq(s, 1, i - 1) \o t \o SubSeq(s, j + 1, Len(s))

EndOf(c) == c.offset + c.length
Joins(c, d) == EndOf(c) = d.offset
Join(c, d) == [offset |-> c.offset, length |-> c.length + d.length]

InBoundsNoLower(b, c) == b.length <= c.length /\ EndOf(b) <= EndOf(c)

(* buffer_in_bounds *)
InBounds(b, c) == b.offset >= c.offset /\ b.length <= c.length /\ EndOf(b) <= EndOf(c)

RemainsNoTail(c, b) ==
  IF c.offset = b.offset
  THEN IF c.length = b.length THEN << >>
       ELSE <<[offset |-> EndOf(b), length |-> c.length - b.length]>>
  ELSE <<[c EXCEPT !.length = b.offset - c.offset]>>

(* remove_split_buffer: what is left of chunk c without buffer b. *)
Remains(c, b) ==
  LET before == [offset |-> c.offset, length |-> b.offset - c.offset]
      after  == [offset |-> EndOf(b), length |-> EndOf(c) - EndOf(b)]
  IN  CASE c.offset = b.offset /\ c.length = b.length -> << >>
        [] c.offset = b.offset /\ c.length # b.length -> <<after>>
        [] c.offset # b.offset /\ EndOf(c) = EndOf(b) -> <<before>>
        [] OTHER -> <<before, after>>

(* The chunk a dequeued buffer is compared with: the first one beyond it,  *)
(* or the last.                                                            *)
Position(cs, b) ==
  LET beyond == {i \in 1 .. Len(cs) - 1 : b.offset < cs[i].offset}
  IN  IF beyond = {} THEN Len(cs) ELSE CHOOSE i \in beyond : \A j \in beyond : i <= j

(* insert_merge_buffer, buffer beyond the chunk.  Only the last chunk can  *)
(* be in front of the buffer, so the merges with a following chunk are not *)
(* reached.  The first test uses the buffer's length for the chunk's.      *)
InsertAfter(cs, i, b) ==
  IF cs[i].offset + b.length = b.offset \/ Joins(cs[i], b)
  THEN Splice(cs, i, i, <<Join(cs[i], b)>>)
  ELSE Splice(cs, i, i, <<cs[i], b>>)

InsertBeforeNoMerge(cs, i, b) ==
  CASE Joins(b, cs[i]) -> Splice(cs, i, i, <<Join(b, cs[i])>>)
    [] ~Joins(b, cs[i]) /\ i > 1 /\ Joins(cs[i - 1], b) -> Splice(cs, i - 1, i - 1, <<Join(cs[i - 1], b)>>)
    [] OTHER -> Splice(cs, i, i, <<b, cs[i]>>)

(* insert_merge_buffer, buffer not beyond the chunk. *)
InsertBefore(cs, i, b) ==
  LET low  == i > 1 /\ Joins(cs[i - 1], b)
      high == Joins(b, cs[i])
  IN  CASE low /\ high   -> Splice(cs, i - 1, i, <<Join(Join(cs[i - 1], b), cs[i])>>)
        [] ~low /\ high  -> Splice(cs, i, i, <<Join(b, cs[i])>>)
        [] low /\ ~high  -> Splice(cs, i - 1, i - 1, <<Join(cs[i - 1], b)>>)
        [] ~low /\ ~high -> Splice(cs, i, i, <<b, cs[i]>>)

InsertMerge(cs, i, b) ==
  IF b.offset >= EndOf(cs[i]) THEN InsertAfter(cs, i, b) ELSE InsertBefore(cs, i, b)

(***************************************************************************)
(* The list of regions.                                                    *)
(***************************************************************************)

(* find_region: the first entry of an id, 0 if there is none. *)
FindRegion(rid) ==
  LET hits == {k \in DOMAIN regions : regions[k].rid = rid}
  IN  IF hits = {} THEN 0 ELSE CHOOSE k \in hits : \A j \in hits : k <= j

WholeRegion(rid, len, foreign) ==
  [rid |-> rid, length |-> len, not_consistent |-> foreign,
   buffers |-> <<[offset |-> 0, length |-> len]>>]

(* cleanq_register, debug_register: the region is new to the pool; all of  *)
(* it is owned.                                                            *)
Register(rid) ==
  /\ Running
  /\ rid \notin region_pool
  /\ Len(regions) < MaxEntries
  /\ region_pool' = region_pool \union {rid}
  /\ regions' = Append(regions, WholeRegion(rid, RegionLen, FALSE))
  /\ Return("OK")
  /\ UNCHANGED <<chan, taken, sent, clobbered>>

IsWhole(r) == r.buffers = <<[offset |-> 0, length |-> r.length]>>

(* cleanq_deregister removes the id from the pool, whatever                *)
(* debug_deregister then says, which reads the first chunk without a look  *)
(* whether there is one.                                                   *)
Deregister(rid) ==
  /\ Running
  /\ rid \in region_pool
  /\ region_pool' = region_pool \ {rid}
  /\ LET k == FindRegion(rid)
     IN  \/ /\ k = 0
            /\ Return("INVALID_REGION_ID")
            /\ UNCHANGED regions
         \/ /\ k # 0 /\ regions[k].buffers = << >>
            /\ Return("FAULT")
            /\ UNCHANGED regions
         \/ /\ k # 0 /\ regions[k].buffers # << >> /\ IsWhole(regions[k])
            /\ regions' = Splice(regions, k, k, << >>)
            /\ Return("OK")
         \/ /\ k # 0 /\ regions[k].buffers # << >> /\ ~IsWhole(regions[k])
            /\ Return("REGION_DESTROY")
            /\ UNCHANGED regions
  /\ UNCHANGED <<chan, taken, sent, clobbered>>

(* debug_add_region, debug_remove_region: a region of the other endpoint   *)
(* enters or leaves the pool.                                              *)
AddRegion(rid) ==
  /\ Running
  /\ rid \notin region_pool
  /\ region_pool' = region_pool \union {rid}
  /\ Return("OK")
  /\ UNCHANGED <<regions, chan, taken, sent, clobbered>>

RemoveRegion(rid) ==
  /\ Running
  /\ rid \in region_pool
  /\ region_pool' = region_pool \ {rid}
  /\ Return("OK")
  /\ UNCHANGED <<regions, chan, taken, sent, clobbered>>

(***************************************************************************)
(* The data path.                                                          *)
(***************************************************************************)

(* The chunk that contains a buffer; the list is disjoint. *)
Containing(cs, b) == {i \in DOMAIN cs : InBounds(b, cs[i])}

(* cleanq_enqueue, debug_enqueue. *)
DebugEnqueue(rid, b) ==
  /\ Running
  /\ LET k     == FindRegion(rid)
         found == IF k = 0 THEN {} ELSE Containing(regions[k].buffers, b)
         i     == CHOOSE j \in found : \A l \in found : j <= l
     IN  \/ /\ rid \notin region_pool \/ found = {}
            /\ Return("REFUSED")
            /\ UNCHANGED <<regions, chan, taken>>
         \/ /\ rid \in region_pool /\ found # {} /\ Len(chan) = Cap
            /\ Return("QUEUE_FULL")
            /\ UNCHANGED <<regions, chan, taken>>
         \/ /\ rid \in region_pool /\ found # {}
            /\ Below!Send([rid |-> rid, buf |-> b])
            /\ regions' = [regions EXCEPT ![k].buffers =
                             Splice(@, i, i, Remains(@[i], b))]
            /\ Return("OK")
  /\ UNCHANGED <<region_pool, sent, clobbered>>

(* The check of cleanq_dequeue comes after the buffer was taken. *)
DequeueResult(rid) == IF rid \in region_pool THEN "OK" ELSE "INVALID_BUFFER_ARGS"

(* debug_dequeue of a buffer whose region is in the list. *)
DequeueKnown ==
  /\ Running
  /\ Below!Receive
  /\ LET k  == FindRegion(taken'.rid)
         b  == taken'.buf
         cs == regions[k].buffers
         i  == Position(cs, b)
         r  == [regions[k] EXCEPT !.length =
                  IF regions[k].not_consistent /\ EndOf(b) > @ THEN EndOf(b) ELSE @]
     IN  /\ k # 0
         /\ \/ /\ cs = << >>
               /\ regions' = [regions EXCEPT ![k] = [r EXCEPT !.buffers = <<b>>]]
               /\ Return(DequeueResult(taken'.rid))
            \/ /\ cs # << >> /\ InBounds(b, cs[i])
               /\ regions' = [regions EXCEPT ![k] = r]
               /\ Return("BUFFER_NOT_IN_USE")
            \/ /\ cs # << >> /\ ~InBounds(b, cs[i])
               /\ regions' = [regions EXCEPT ![k] = [r EXCEPT !.buffers = InsertMerge(cs, i, b)]]
               /\ Return(DequeueResult(taken'.rid))
  /\ UNCHANGED <<region_pool, sent, clobbered>>

(* debug_dequeue of a buffer of an unknown region: an entry is added that  *)
(* claims everything up to the buffer's end, and, unless it is the first   *)
(* entry, the first chunk of the first entry gets offset 0.                *)
DequeueUnknown ==
  /\ Running
  /\ Len(regions) < MaxEntries
  /\ Below!Receive
  /\ FindRegion(taken'.rid) = 0
  /\ LET entry == WholeRegion(taken'.rid, EndOf(taken'.buf), TRUE)
     IN  \/ /\ regions = << >>
            /\ regions' = <<entry>>
            /\ Return(DequeueResult(taken'.rid))
            /\ UNCHANGED clobbered
         \/ /\ regions # << >> /\ regions[1].buffers # << >>
            /\ regions' = Append([regions EXCEPT ![1].buffers[1].offset = 0], entry)
            /\ Return(DequeueResult(taken'.rid))
            /\ clobbered' = (regions[1].buffers[1].offset # 0)
         \/ /\ regions # << >> /\ regions[1].buffers = << >>
            /\ Return("FAULT")
            /\ UNCHANGED <<regions, clobbered>>
  /\ UNCHANGED <<region_pool, sent>>

(* The other endpoint gives away a buffer of a region of its own. *)
PeerSend(m) ==
  /\ Running
  /\ m \notin sent
  /\ Below!Send(m)
  /\ sent' = sent \union {m}
  /\ UNCHANGED <<region_pool, regions, ret, clobbered>>

DebugNext ==
  \/ \E rid \in OwnRids : Register(rid)
  \/ \E rid \in Rids : Deregister(rid)
  \/ \E rid \in ForeignRids : AddRegion(rid) \/ RemoveRegion(rid)
  \/ \E rid \in Rids, b \in Bufs : DebugEnqueue(rid, b)
  \/ DequeueKnown
  \/ DequeueUnknown
  \/ \E m \in [rid : ForeignRids, buf : PeerBufs] : PeerSend(m)

DebugSpec == DebugInit /\ [][DebugNext]_debugVars

(***************************************************************************)
(* Properties.                                                             *)
(***************************************************************************)

BytesOf(c) == c.offset .. EndOf(c) - 1

(* The bytes of a region that are in the queue below. *)
Lent(rid) ==
  UNION {BytesOf(chan[n].buf) : n \in {l \in DOMAIN chan : chan[l].rid = rid}}

Listed(cs) == UNION {BytesOf(cs[i]) : i \in DOMAIN cs}

(* The list of a region describes exactly what this endpoint owns: a byte  *)
(* is in one of its chunks if and only if it is not in the queue below,    *)
(* through any sequence of splits and merges; and a region is only         *)
(* forgotten when nothing of it is lent out.                               *)
ChunksExact ==
  ~clobbered =>
    \A rid \in OwnRids :
      LET k == FindRegion(rid)
      IN  IF k = 0 THEN Lent(rid) = {}
          ELSE Listed(regions[k].buffers) = (0 .. RegionLen - 1) \ Lent(rid)

(* Chunks are in ascending order, none is empty, and two that touch have   *)
(* been merged, as the commented-out check_consistency (line 116) demands; *)
(* the search of debug_dequeue and the test of debug_deregister rely on    *)
(* it.                                                                     *)
ChunksMerged ==
  ~clobbered =>
    \A k \in DOMAIN regions :
      regions[k].rid \in OwnRids =>
        LET cs == regions[k].buffers
        IN  /\ \A i \in DOMAIN cs : cs[i].length > 0
            /\ \A i \in 1 .. Len(cs) - 1 : EndOf(cs[i]) < cs[i + 1].offset

(* A buffer that was enqueued is never refused when it comes back.         *)
ReturnsAccepted ==
  ~clobbered /\ taken # NONE /\ taken.rid \in OwnRids => ret # "BUFFER_NOT_IN_USE"

=============================================================================
