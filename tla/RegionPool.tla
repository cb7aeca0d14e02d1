----------------------------- MODULE RegionPool -----------------------------
(***************************************************************************)
(* The table of memory regions every CleanQ queue keeps (region_pool.c).   *)
(*                                                                         *)
(* A region is found by its id in slot  id & (size - 1).  Sizes are powers *)
(* of two, so the mask is written  id % size  here.  Each call of the      *)
(* library is one action: the library takes no lock and every queue is     *)
(* used by one thread, so calls on one pool never overlap.                 *)
(*                                                                         *)
(* A definition whose name extends the name of the one below it (such as   *)
(* MustGrowLate above MustGrow) is a deliberately wrong variant: the       *)
(* README lists which property each one breaks.                            *)
(***************************************************************************)
EXTENDS Integers, FiniteSets

CONSTANTS
  InitPoolSize,   \* INIT_POOL_SIZE, 16 in the code
  U16,            \* 2^16: size, num_regions and last_offset are uint16_t
  U64,            \* 2^64: offsets and lengths are uint64_t
  RegionOffsets,  \* the values rand() >> 12 may take
  Areas,          \* the memory callers register: records [paddr, len]
  AddIds,         \* ids passed to region_pool_add_region_with_id
  RemoveIds,      \* ids passed to region_pool_remove_region
  AllocMayFail,   \* whether calloc and slab_alloc may return NULL
  NULL

ASSUME PoolAssumption ==
  /\ InitPoolSize \in Nat \ {0}
  /\ U16 \in Nat
  /\ InitPoolSize < U16
  /\ RegionOffsets \subseteq Nat
  /\ AllocMayFail \in BOOLEAN

ASSUME AreaAssumption ==
  /\ Areas \subseteq [paddr : Nat, len : Nat \ {0}]
  /\ AddIds \subseteq Nat
  /\ RemoveIds \subseteq Nat

Powers == {1, 2, 4, 8, 16, 32, 64, 128, 256, 512, 1024, 2048, 4096, 8192, 16384, 32768, 65536}

(* id & (size - 1) is id % size because sizes are powers of two. *)
ASSUME PowersOfTwo == InitPoolSize \in Powers /\ U16 \in Powers

(* NULL marks an empty slot and no caller's id or region equals it. *)
ASSUME NullAssumption == NULL \notin [id : Nat, base_addr : Nat, len : Nat]

VARIABLES
  status,         \* "ok", "freed", or "fault" after an invalid memory access
  size,
  num_regions,
  region_offset,
  last_offset,
  pool,           \* slot -> region or NULL
  call            \* what the last call was and returned

poolVars == <<status, size, num_regions, region_offset, last_offset, pool>>
vars == <<status, size, num_regions, region_offset, last_offset, pool, call>>

Region == [id : Nat, base_addr : Nat, len : Nat]
Slots  == 0 .. size - 1

Return(op, id, err) == call' = [op |-> op, id |-> id, err |-> err]

(* region_pool_init: an empty pool whose ids start at a random offset. *)
Init ==
  /\ status = "ok"
  /\ size = InitPoolSize
  /\ num_regions = 0
  /\ region_offset \in RegionOffsets
  /\ last_offset = 0
  /\ pool = [i \in 0 .. InitPoolSize - 1 |-> NULL]
  /\ call = [op |-> "init", id |-> 0, err |-> "OK"]

(***************************************************************************)
(* Lookups.                                                                *)
(***************************************************************************)

Lookup(id) == pool[id % size]

(* region_pool_buffer_check_bounds; the additions are modulo 2^64. *)
BufferCheckBounds(id, b) ==
  /\ Lookup(id) # NULL
  /\ (b.length + b.offset) % U64 <= Lookup(id).len
  /\ (b.valid_data + b.valid_length) % U64 <= b.length

BaseAddrOfRegion(id) == IF Lookup(id) = NULL THEN 0 ELSE Lookup(id).base_addr

(* The first slot with that base address; 0 is the answer for "no such region". *)
RegionWithBaseAddr(addr) ==
  LET hits == {i \in Slots : pool[i] # NULL /\ pool[i].base_addr = addr}
  IN  IF hits = {} THEN 0
      ELSE pool[CHOOSE i \in hits : \A j \in hits : i <= j].id

(***************************************************************************)
(* region_pool_grow: a table of twice the size, every region re-hashed.    *)
(* It runs when num_regions has reached size and dereferences every slot.  *)
(***************************************************************************)

MustGrowLate == ~(num_regions <= size)

MustGrow == ~(num_regions < size)

(* new_size is a uint16_t: past the last doubling the new table is too     *)
(* small; an empty slot is dereferenced.                                   *)
GrowFaults ==
  /\ MustGrow
  /\ \/ 2 * size >= U16
     \/ \E i \in Slots : pool[i] = NULL

NewIndexUnhashed(id) == id % size

NewIndex(id) == id % (2 * size)

GrownPool ==
  [j \in 0 .. 2 * size - 1 |->
     IF \E i \in Slots : pool[i] # NULL /\ NewIndex(pool[i].id) = j
     THEN pool[CHOOSE i \in Slots : pool[i] # NULL /\ NewIndex(pool[i].id) = j]
     ELSE NULL]

(* The table the rest of an add works on. *)
Pool1       == IF MustGrow THEN GrownPool ELSE pool
Size1       == IF MustGrow THEN 2 * size  ELSE size
LastOffset1 == IF MustGrow THEN 0         ELSE last_offset

GrowFails(op, id) ==
  /\ MustGrow
  /\ AllocMayFail
  /\ Return(op, id, "MALLOC_FAIL")
  /\ UNCHANGED poolVars

GrowCrashes(op, id) ==
  /\ GrowFaults
  /\ status' = "fault"
  /\ Return(op, id, "NONE")
  /\ UNCHANGED <<size, num_regions, region_offset, last_offset, pool>>

(***************************************************************************)
(* region_pool_add_region: the pool chooses the id.                        *)
(***************************************************************************)

Disjoint(a, len_a, b, len_b) == a + len_a <= b \/ b + len_b <= a

ConflictsSameBase(cap) ==
  \E i \in Slots : pool[i] # NULL /\ pool[i].base_addr = cap.paddr

Conflicts(cap) ==
  \E i \in Slots :
    /\ pool[i] # NULL
    /\ \/ pool[i].base_addr = cap.paddr
       \/ ~Disjoint(cap.paddr, cap.len, pool[i].base_addr, pool[i].len)

(* The d-th probe of the slot search. The count is already incremented.    *)
ProbeOffset(d) == (LastOffset1 + d) % U16
ProbeId(d)     == region_offset + (num_regions + 1) + ProbeOffset(d)
ProbeFree(d)   == Pool1[ProbeId(d) % Size1] = NULL

(* The search stops at the first empty slot.                               *)
FirstFree(d) ==
  /\ ProbeFree(d)
  /\ \A e \in 0 .. d - 1 : ~ProbeFree(e)

NewRegion(id, cap) == [id |-> id, base_addr |-> cap.paddr, len |-> cap.len]

AddRegion(cap) ==
  /\ status = "ok"
  /\ \/ /\ Conflicts(cap)
        /\ Return("add", 0, "INVALID_REGION_ARGS")
        /\ UNCHANGED poolVars
     \/ /\ ~Conflicts(cap)
        /\ GrowFails("add", 0)
     \/ /\ ~Conflicts(cap)
        /\ GrowCrashes("add", 0)
     \/ /\ ~Conflicts(cap)
        /\ ~GrowFaults
        /\ \E d \in 0 .. Size1 - 1 :
             /\ FirstFree(d)
             /\ last_offset' = ProbeOffset(d)
             /\ size' = Size1
             /\ num_regions' = num_regions + 1
             /\ \/ /\ pool' = [Pool1 EXCEPT ![ProbeId(d) % Size1] = NewRegion(ProbeId(d), cap)]
                   /\ Return("add", ProbeId(d), "OK")
                \/ \* slab_alloc failed; the count stays incremented
                   /\ AllocMayFail
                   /\ pool' = Pool1
                   /\ Return("add", 0, "MALLOC_FAIL")
        /\ UNCHANGED <<status, region_offset>>

(***************************************************************************)
(* region_pool_add_region_with_id: the id comes from the other endpoint;   *)
(* overlap with other regions is not checked.                              *)
(***************************************************************************)

SlotTakenIgnored(id) == FALSE

SlotTaken(id) == Pool1[id % Size1] # NULL

(* The slot of the id is in use, by this or by another id. *)
RefuseTaken(id) ==
  /\ SlotTaken(id)
  /\ pool' = Pool1
  /\ Return("add_with_id", id, "INVALID_REGION_ID")
  /\ UNCHANGED num_regions

StoreWithIdUncounted(cap, id) ==
  /\ ~SlotTaken(id)
  /\ pool' = [Pool1 EXCEPT ![id % Size1] = NewRegion(id, cap)]
  /\ Return("add_with_id", id, "OK")
  /\ UNCHANGED num_regions

StoreWithId(cap, id) ==
  /\ ~SlotTaken(id)
  /\ pool' = [Pool1 EXCEPT ![id % Size1] = NewRegion(id, cap)]
  /\ Return("add_with_id", id, "OK")
  /\ num_regions' = num_regions + 1

AddRegionWithId(cap, id) ==
  /\ status = "ok"
  /\ \/ GrowFails("add_with_id", id)
     \/ GrowCrashes("add_with_id", id)
     \/ /\ ~GrowFaults
        /\ size' = Size1
        /\ last_offset' = LastOffset1
        /\ \/ RefuseTaken(id)
           \/ StoreWithId(cap, id)
           \/ \* slab_alloc failed
              /\ ~SlotTaken(id)
              /\ AllocMayFail
              /\ pool' = Pool1
              /\ Return("add_with_id", id, "MALLOC_FAIL")
              /\ UNCHANGED num_regions
        /\ UNCHANGED <<status, region_offset>>

(***************************************************************************)
(* region_pool_remove_region: whatever occupies the slot of the id goes.   *)
(***************************************************************************)

RemoveRegion(id) ==
  /\ status = "ok"
  /\ \/ /\ Lookup(id) = NULL
        /\ Return("remove", id, "INVALID_REGION_ID")
        /\ UNCHANGED poolVars
     \/ /\ Lookup(id) # NULL
        /\ pool' = [pool EXCEPT ![id % size] = NULL]
        /\ num_regions' = num_regions - 1
        /\ Return("remove", id, "OK")
        /\ UNCHANGED <<status, size, region_offset, last_offset>>

(* region_pool_destroy: remove every region by its id, then free the pool. *)
Destroy ==
  /\ status = "ok"
  /\ LET gone == {pool[i].id % size : i \in {j \in Slots : pool[j] # NULL}}
     IN  IF num_regions = 0
         THEN UNCHANGED <<pool, num_regions>>
         ELSE /\ pool' = [i \in Slots |-> IF i \in gone THEN NULL ELSE pool[i]]
              /\ num_regions' = num_regions - Cardinality(gone)
  /\ status' = "freed"
  /\ Return("destroy", 0, "OK")
  /\ UNCHANGED <<size, region_offset, last_offset>>

(* region_pool_init for the next queue. *)
Create ==
  /\ status = "freed"
  /\ \/ /\ status' = "ok"
        /\ size' = InitPoolSize
        /\ num_regions' = 0
        /\ region_offset' \in RegionOffsets
        /\ last_offset' = 0
        /\ pool' = [i \in 0 .. InitPoolSize - 1 |-> NULL]
        /\ Return("init", 0, "OK")
     \/ /\ AllocMayFail
        /\ Return("init", 0, "MALLOC_FAIL")
        /\ UNCHANGED poolVars

Next ==
  \/ \E cap \in Areas : AddRegion(cap)
  \/ \E cap \in Areas, id \in AddIds : AddRegionWithId(cap, id)
  \/ \E id \in RemoveIds : RemoveRegion(id)
  \/ Destroy
  \/ Create

Spec == Init /\ [][Next]_vars

(***************************************************************************)
(* Properties.                                                             *)
(***************************************************************************)

Occupied == {i \in Slots : pool[i] # NULL}
Live     == {pool[i] : i \in Occupied}

(* The fields of struct region_pool keep their types: the table has size   *)
(* slots and the counters stay in the range of a uint16_t.                 *)
TypeOK ==
  /\ status \in {"ok", "freed", "fault"}
  /\ size \in Nat \ {0}
  /\ size < U16
  /\ num_regions \in 0 .. U16 - 1
  /\ region_offset \in Nat
  /\ last_offset \in 0 .. U16 - 1
  /\ pool \in [Slots -> Region \union {NULL}]
  /\ call \in [op : {"init", "add", "add_with_id", "remove", "destroy"},
               id : Nat,
               err : {"OK", "NONE", "MALLOC_FAIL", "INVALID_REGION_ARGS", "INVALID_REGION_ID"}]

(* Every region is in the slot its id hashes to, through any sequence of   *)
(* adds, removes and re-hashes: so a live id always finds its own region,  *)
(* and no two live regions share an id.                                    *)
LiveIdsResolve ==
  \A i \in Slots : pool[i] # NULL => pool[i].id % size = i

(* num_regions, "number of regions in pool" (region_pool.c:27), may count  *)
(* regions whose allocation failed, but is never less than the number of   *)
(* regions in the table, nor more than its slots.                          *)
CountBounds == Cardinality(Occupied) <= num_regions /\ num_regions <= size

(* No call dereferences an empty slot or outgrows its table: growing only  *)
(* happens when every slot is in use.                                      *)
NoFault == status # "fault"

(* The slot search of region_pool_add_region ends: whenever it starts,     *)
(* some probe hits an empty slot, and the growth that may precede it runs  *)
(* into none.                                                              *)
SlotSearchTerminates ==
  /\ NoFault
  /\ status = "ok" /\ ~GrowFaults => \E d \in 0 .. Size1 - 1 : ProbeFree(d)

(* The regions a pool accepted through region_pool_add_region never        *)
(* overlap, however adds, removes and growth interleave.                   *)
RegionsDisjoint ==
  \A i, j \in Occupied :
    i # j => Disjoint(pool[i].base_addr, pool[i].len, pool[j].base_addr, pool[j].len)

(* The two translations of the data path invert each other: the base       *)
(* address of a live id is its region's, and searching for that base       *)
(* address gives the id back (mbuf_to_cleanq_buf, cleanq_buf_to_mbuf).     *)
TranslationsInvert ==
  \A r \in Live :
    /\ BaseAddrOfRegion(r.id) = r.base_addr
    /\ RegionWithBaseAddr(r.base_addr) = r.id

(* A call never loses or alters a region it was not asked to remove: only  *)
(* a remove takes a region out, one at a time, and a destroy takes all.    *)
RegionsSurvive ==
  [][\/ Live \subseteq Live'
     \/ call'.op = "remove" /\ Cardinality(Live \ Live') = 1 /\ Live' \subseteq Live
     \/ call'.op = "destroy" /\ Live' = {}]_poolVars

=============================================================================
