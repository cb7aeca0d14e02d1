--------------------------- MODULE RegionPoolSlab ---------------------------
(***************************************************************************)
(* A region pool on top of its slab allocator (slab.c).  Every struct      *)
(* region is a block of a slab; a slab is one page, with a list of its     *)
(* free blocks and a count of them, and slabs are only ever added.  The    *)
(* actions are RegionPool's, each with what it does to the allocator.      *)
(***************************************************************************)
EXTENDS RegionPool, Sequences, SequencesExt

CONSTANT BlocksPerSlab  \* blocks in a page

ASSUME SlabAssumption == BlocksPerSlab \in Nat \ {0}

VARIABLES
  slabs,  \* the slabs, newest first: records [total, free, blocks]
  block   \* id of a live region -> the block it lives in

slabVars == <<slabs, block>>

(* A block is named by its slab, counted from the oldest, and its place. *)
BlockOf(k, i) == [slab |-> k, place |-> i]

(* slab_grow puts the new slab, all of it free, in front of the others. *)
NewSlab(k) == [total |-> BlocksPerSlab, free |-> BlocksPerSlab,
               blocks |-> [i \in 1 .. BlocksPerSlab |-> BlockOf(k, i)]]

HasFree(i) == slabs[i].free # 0

MustRefill == \A i \in DOMAIN slabs : ~HasFree(i)

(* slab_alloc takes the first free block of the first slab that has one. *)
SlabsToAllocFrom ==
  IF MustRefill THEN <<NewSlab(Len(slabs) + 1)>> \o slabs ELSE slabs

SlabAlloc(id) ==
  LET ss == SlabsToAllocFrom
      i  == SelectInSeq(ss, LAMBDA s : s.free # 0)
  IN
  /\ block' = [j \in DOMAIN block \union {id} |-> IF j = id THEN Head(ss[i].blocks) ELSE block[j]]
  /\ slabs' = [ss EXCEPT ![i].blocks = Tail(@), ![i].free = @ - 1]

(* slab_free finds the slab the block lies in by its address. *)
SlabHoldingFirst(b) == 1

SlabHolding(b) == Len(slabs) + 1 - b.slab

SlabFree(id) ==
  LET b == block[id] IN
  /\ slabs' = [slabs EXCEPT ![SlabHolding(b)].blocks = <<b>> \o @,
                            ![SlabHolding(b)].free = @ + 1]
  /\ block' = [j \in DOMAIN block \ {id} |-> block[j]]

SlabInit == Init /\ slabs = << >> /\ block = << >>

Occupants(t) == {t[i] : i \in {j \in DOMAIN t : t[j] # NULL}}
Added   == Occupants(pool') \ Occupants(pool)
Removed == Occupants(pool) \ Occupants(pool')

(* An add that got as far as slab_alloc and returns MALLOC_FAIL: growing   *)
(* the table did not fail, so the refill did.                              *)
AllocFailed == call'.err = "MALLOC_FAIL" /\ (MustGrow => size' # size)

AddAllocates ==
  \/ \E r \in Added : SlabAlloc(r.id)
  \/ Added = {} /\ (AllocFailed => MustRefill) /\ UNCHANGED slabVars

SlabNext ==
  \/ \E cap \in Areas : AddRegion(cap) /\ AddAllocates
  \/ \E cap \in Areas, id \in AddIds : AddRegionWithId(cap, id) /\ AddAllocates
  \/ \E id \in RemoveIds :
       /\ RemoveRegion(id)
       /\ \/ \E r \in Removed : SlabFree(r.id)
          \/ Removed = {} /\ UNCHANGED slabVars
  \/ \* the allocator is freed with the pool; its pages are not
     Destroy /\ slabs' = << >> /\ block' = << >>
  \/ Create /\ UNCHANGED slabVars

SlabSpec == SlabInit /\ [][SlabNext]_<<vars, slabVars>>

(***************************************************************************)
(* Properties.                                                             *)
(***************************************************************************)

(* Every block of every slab is either on its slab's free list, once, or   *)
(* the home of exactly one live region, whatever order regions come and go *)
(* in and whichever allocations fail; and a slab's free count is the       *)
(* length of its list, so slab_alloc never takes from an empty one.        *)
BlocksConserved ==
  /\ DOMAIN block = {r.id : r \in Live}
  /\ \A j, k \in DOMAIN block : j # k => block[j] # block[k]
  /\ \A i \in DOMAIN slabs :
       LET s    == slabs[i]
           used == {block[j] : j \in {k \in DOMAIN block : SlabHolding(block[k]) = i}}
       IN
       /\ s.free = Len(s.blocks) /\ IsInjective(s.blocks)
       /\ Range(s.blocks) \intersect used = {}
       /\ Range(s.blocks) \union used = {BlockOf(Len(slabs) + 1 - i, p) : p \in 1 .. s.total}

=============================================================================
