-------------------------- MODULE RegionPoolProofs --------------------------
(***************************************************************************)
(* Proofs about RegionPool for every table size, every random offset, any  *)
(* set of areas and ids, and with or without failing allocations; about    *)
(* the two pools of an IPC queue (PoolReplicas) for any number of commands *)
(* under way; and about the slabs under a pool (RegionPoolSlab).           *)
(***************************************************************************)
EXTENDS PoolReplicas, RegionPoolSlab, SlotIndex, FiniteSetTheorems, WellFoundedInduction, TLAPS

(***************************************************************************)
(* The number of occupied slots of a table p of n slots.                   *)
(***************************************************************************)

OccupiedIn(p, n) == {i \in 0 .. n - 1 : p[i] # NULL}

(* The occupied slots of a table are finitely many, at most its size. *)
LEMMA OccupiedFinite ==
  ASSUME NEW p, NEW n \in Nat
  PROVE  /\ IsFiniteSet(OccupiedIn(p, n))
         /\ Cardinality(OccupiedIn(p, n)) \in Nat
         /\ Cardinality(OccupiedIn(p, n)) <= n
<1>1. IsFiniteSet(0 .. n - 1) /\ Cardinality(0 .. n - 1) = n
  BY FS_Interval, SMT
<1>2. OccupiedIn(p, n) \subseteq 0 .. n - 1  BY DEF OccupiedIn
<1>3. /\ IsFiniteSet(OccupiedIn(p, n))
      /\ Cardinality(OccupiedIn(p, n)) <= Cardinality(0 .. n - 1)
  BY <1>1, <1>2, FS_Subset
<1> QED  BY <1>1, <1>3, FS_CardinalityType

(* Filling an empty slot adds one. *)
LEMMA OccupiedFill ==
  ASSUME NEW n \in Nat, NEW p, DOMAIN p = 0 .. n - 1, NEW k \in 0 .. n - 1,
         p[k] = NULL, NEW v, v # NULL
  PROVE  Cardinality(OccupiedIn([p EXCEPT ![k] = v], n))
           = Cardinality(OccupiedIn(p, n)) + 1
<1>1. OccupiedIn([p EXCEPT ![k] = v], n) = OccupiedIn(p, n) \union {k}
  BY DEF OccupiedIn
<1>2. k \notin OccupiedIn(p, n)  BY DEF OccupiedIn
<1> QED  BY <1>1, <1>2, OccupiedFinite, FS_AddElement

(* Emptying an occupied slot takes one away. *)
LEMMA OccupiedEmpty ==
  ASSUME NEW n \in Nat, NEW p, DOMAIN p = 0 .. n - 1, NEW k \in 0 .. n - 1,
         p[k] # NULL
  PROVE  Cardinality(OccupiedIn([p EXCEPT ![k] = NULL], n))
           = Cardinality(OccupiedIn(p, n)) - 1
<1>1. OccupiedIn([p EXCEPT ![k] = NULL], n) = OccupiedIn(p, n) \ {k}
  BY DEF OccupiedIn
<1>2. k \in OccupiedIn(p, n)  BY DEF OccupiedIn
<1> QED  BY <1>1, <1>2, OccupiedFinite, FS_RemoveElement

(***************************************************************************)
(* region_pool_grow keeps every region, at the slot its id now hashes to,  *)
(* and so keeps the number of occupied slots.                              *)
(***************************************************************************)

(* The table region_pool_grow builds: every region moves to its new slot,  *)
(* and the new table holds nothing else.                                   *)
LEMMA GrownKeepsRegions ==
  ASSUME TypeOK, LiveIdsResolve
  PROVE  /\ GrownPool \in [0 .. 2 * size - 1 -> Region \union {NULL}]
         /\ \A j \in 0 .. 2 * size - 1 :
               GrownPool[j] # NULL => /\ GrownPool[j].id % (2 * size) = j
                                      /\ \E i \in Slots : GrownPool[j] = pool[i]
         /\ \A i \in Slots :
               pool[i] # NULL => /\ pool[i].id % (2 * size) \in 0 .. 2 * size - 1
                                 /\ GrownPool[pool[i].id % (2 * size)] = pool[i]
<1> DEFINE n == 2 * size
           Hit(i, j) == pool[i] # NULL /\ NewIndex(pool[i].id) = j
           Src(j) == CHOOSE i \in Slots : Hit(i, j)
<1>1. size \in Nat \ {0} /\ n \in Nat \ {0}  BY DEF TypeOK
<1>2. \A i \in Slots : pool[i] # NULL => pool[i] \in Region /\ pool[i].id \in Nat
  BY DEF TypeOK, Region
<1>3. GrownPool = [j \in 0 .. n - 1 |-> IF \E i \in Slots : Hit(i, j) THEN pool[Src(j)] ELSE NULL]
  BY DEF GrownPool
<1>4. \A j : (\E i \in Slots : Hit(i, j)) => Src(j) \in Slots /\ Hit(Src(j), j)
  OBVIOUS
<1> HIDE DEF Src
<1>5. GrownPool \in [0 .. n - 1 -> Region \union {NULL}]
  BY <1>2, <1>3, <1>4
<1>6. ASSUME NEW j \in 0 .. n - 1, GrownPool[j] # NULL
      PROVE  GrownPool[j].id % n = j /\ \E i \in Slots : GrownPool[j] = pool[i]
  <2>1. \E i \in Slots : Hit(i, j)  BY <1>3, <1>6
  <2>2. GrownPool[j] = pool[Src(j)]  BY <1>3, <2>1
  <2> QED  BY <2>1, <2>2, <1>4 DEF NewIndex
<1>7. ASSUME NEW i \in Slots, pool[i] # NULL
      PROVE  pool[i].id % n \in 0 .. n - 1 /\ GrownPool[pool[i].id % n] = pool[i]
  <2> DEFINE j == pool[i].id % n
  <2>1. pool[i].id \in Nat  BY <1>2, <1>7
  <2>2. j \in 0 .. n - 1  BY <1>1, <2>1, ModRange
  <2>3. Hit(i, j)  BY <1>7 DEF NewIndex
  <2>4. Src(j) \in Slots /\ Hit(Src(j), j)  BY <2>3, <1>4
  <2>5. pool[Src(j)].id \in Nat /\ pool[Src(j)].id % (2 * size) = pool[i].id % (2 * size)
    BY <2>4, <1>2 DEF NewIndex
  <2>6. pool[Src(j)].id % size = pool[i].id % size
    BY <2>1, <2>5, <1>1, ModDouble
  <2>7. Src(j) = i  BY <2>6, <2>4, <1>7 DEF LiveIdsResolve
  <2>8. GrownPool[j] = pool[Src(j)]  BY <1>3, <2>2, <2>3
  <2> QED  BY <2>2, <2>7, <2>8
<1> QED  BY <1>5, <1>6, <1>7

(* region_pool_grow keeps the number of occupied slots. *)
LEMMA GrownKeepsCount ==
  ASSUME TypeOK, LiveIdsResolve
  PROVE  Cardinality(OccupiedIn(GrownPool, 2 * size)) = Cardinality(OccupiedIn(pool, size))
<1> DEFINE n == 2 * size
           S == OccupiedIn(pool, size)
           T == OccupiedIn(GrownPool, n)
           f == [i \in S |-> pool[i].id % n]
<1>1. \A i \in S : i \in Slots /\ pool[i] # NULL  BY DEF OccupiedIn, Slots
<1>2. \A i \in S : f[i] \in T /\ GrownPool[f[i]] = pool[i] /\ pool[i].id % size = i
  BY <1>1, GrownKeepsRegions DEF OccupiedIn, LiveIdsResolve
<1>3. f \in Injection(S, T)
  BY <1>2, GrownKeepsRegions DEF Injection, IsInjective
<1>4. f \in Surjection(S, T)
  <2>1. ASSUME NEW j \in T  PROVE \E i \in S : f[i] = j
    <3>1. j \in 0 .. n - 1 /\ GrownPool[j] # NULL  BY DEF OccupiedIn
    <3>2. PICK i \in Slots : GrownPool[j] = pool[i]  BY <3>1, GrownKeepsRegions
    <3>3. i \in S  BY <3>1, <3>2 DEF OccupiedIn, Slots
    <3>4. f[i] = j  BY <3>1, <3>2, <3>3, GrownKeepsRegions
    <3> QED  BY <3>3, <3>4
  <2> QED  BY <2>1, <1>2 DEF Surjection
<1>5. ExistsBijection(S, T)  BY <1>3, <1>4 DEF ExistsBijection, Bijection
<1>6. IsFiniteSet(S)  BY OccupiedFinite DEF TypeOK
<1> QED  BY <1>5, <1>6, FS_Bijection

(***************************************************************************)
(* The table an add works on, grown or not: well-typed, every region at    *)
(* its slot, no region lost, and with a slot to spare.                     *)
(***************************************************************************)

IInv == TypeOK /\ LiveIdsResolve /\ CountBounds

(* What an add works on, grown or not, is a well-formed table that has at  *)
(* least as many slots as the count says.                                  *)
LEMMA TableOfAnAdd ==
  ASSUME IInv, ~GrowFaults
  PROVE  /\ Size1 \in Nat \ {0}
         /\ Size1 < U16
         /\ num_regions < Size1
         /\ LastOffset1 \in 0 .. U16 - 1
         /\ Pool1 \in [0 .. Size1 - 1 -> Region \union {NULL}]
         /\ \A j \in 0 .. Size1 - 1 : Pool1[j] # NULL => Pool1[j].id % Size1 = j
         /\ \A j \in 0 .. Size1 - 1 :
               Pool1[j] # NULL => \E i \in Slots : pool[i] # NULL /\ pool[i] = Pool1[j]
         /\ \A i \in Slots :
               pool[i] # NULL => \E j \in 0 .. Size1 - 1 : Pool1[j] = pool[i]
         /\ Cardinality(OccupiedIn(Pool1, Size1)) = Cardinality(OccupiedIn(pool, size))
<1>1. CASE MustGrow
  <2>1. Size1 = 2 * size /\ Pool1 = GrownPool /\ LastOffset1 = 0
    BY <1>1 DEF Size1, Pool1, LastOffset1
  <2>2. 2 * size < U16  BY <1>1, PoolAssumption DEF GrowFaults, IInv, TypeOK
  <2>3. num_regions \in Nat /\ num_regions <= size /\ size \in Nat \ {0}
    BY DEF IInv, TypeOK, CountBounds
  <2>4. U16 \in Nat /\ 0 < U16  BY PoolAssumption
  <2>5. Cardinality(OccupiedIn(Pool1, Size1)) = Cardinality(OccupiedIn(pool, size))
    BY <2>1, GrownKeepsCount DEF IInv
  <2>6. /\ Pool1 \in [0 .. Size1 - 1 -> Region \union {NULL}]
        /\ \A j \in 0 .. Size1 - 1 : Pool1[j] # NULL => Pool1[j].id % Size1 = j
        /\ \A j \in 0 .. Size1 - 1 :
              Pool1[j] # NULL => \E i \in Slots : pool[i] # NULL /\ pool[i] = Pool1[j]
        /\ \A i \in Slots :
              pool[i] # NULL => \E j \in 0 .. Size1 - 1 : Pool1[j] = pool[i]
    BY <2>1, GrownKeepsRegions DEF IInv
  <2> QED  BY <2>1, <2>2, <2>3, <2>4, <2>5, <2>6
<1>2. CASE ~MustGrow
  <2>1. Size1 = size /\ Pool1 = pool /\ LastOffset1 = last_offset
    BY <1>2 DEF Size1, Pool1, LastOffset1
  <2> QED
    BY <1>2, <2>1 DEF IInv, TypeOK, LiveIdsResolve, MustGrow, Slots
<1> QED  BY <1>1, <1>2

(* Inserting into the table of an add. *)
LEMMA InsertPreserves ==
  ASSUME IInv, ~GrowFaults, NEW id \in Nat, NEW cap \in Areas,
         Pool1[id % Size1] = NULL,
         pool' = [Pool1 EXCEPT ![id % Size1] = NewRegion(id, cap)],
         size' = Size1, num_regions' = num_regions + 1
  PROVE  /\ pool' \in [Slots' -> Region \union {NULL}]
         /\ LiveIdsResolve'
         /\ CountBounds'
         /\ num_regions' \in 0 .. U16 - 1
<1> DEFINE k == id % Size1
           v == NewRegion(id, cap)
<1>1. v \in Region /\ v.id = id  BY AreaAssumption DEF NewRegion, Region
<1>2. v # NULL  BY <1>1, NullAssumption DEF Region
<1>3. Size1 \in Nat \ {0} /\ Size1 < U16 /\ num_regions < Size1 /\ num_regions \in Nat
  BY TableOfAnAdd DEF IInv, TypeOK
<1>4. k \in 0 .. Size1 - 1  BY <1>3, ModRange
<1>5. Pool1 \in [0 .. Size1 - 1 -> Region \union {NULL}]  BY TableOfAnAdd
<1>6. pool' \in [Slots' -> Region \union {NULL}]  BY <1>1, <1>4, <1>5 DEF Slots
<1>7. LiveIdsResolve'
  <2>1. \A j \in 0 .. Size1 - 1 : Pool1[j] # NULL => Pool1[j].id % Size1 = j
    BY TableOfAnAdd
  <2> QED  BY <1>1, <1>4, <1>5, <2>1 DEF LiveIdsResolve, Slots
<1>8. CountBounds'
  <2>1. Cardinality(OccupiedIn(pool', Size1)) = Cardinality(OccupiedIn(Pool1, Size1)) + 1
    BY <1>2, <1>3, <1>4, <1>5, OccupiedFill
  <2>2. Cardinality(OccupiedIn(Pool1, Size1)) = Cardinality(OccupiedIn(pool, size))
    BY TableOfAnAdd
  <2>3. Cardinality(OccupiedIn(pool, size)) \in Nat  BY OccupiedFinite DEF IInv, TypeOK
  <2>4. Cardinality(OccupiedIn(pool, size)) <= num_regions
    BY DEF IInv, CountBounds, Occupied, OccupiedIn, Slots
  <2>5. Occupied' = OccupiedIn(pool', Size1)  BY DEF Occupied, OccupiedIn, Slots
  <2> QED  BY <1>3, <2>1, <2>2, <2>3, <2>4, <2>5 DEF CountBounds
<1>9. num_regions' \in 0 .. U16 - 1  BY <1>3, PoolAssumption
<1> QED  BY <1>6, <1>7, <1>8, <1>9

(* A failed add may leave the grown table behind, and the count one higher. *)
LEMMA GrowOnlyPreserves ==
  ASSUME IInv, ~GrowFaults, pool' = Pool1, size' = Size1,
         num_regions' \in {num_regions, num_regions + 1}
  PROVE  /\ pool' \in [Slots' -> Region \union {NULL}]
         /\ LiveIdsResolve'
         /\ CountBounds'
         /\ num_regions' \in 0 .. U16 - 1
<1>1. Size1 \in Nat \ {0} /\ Size1 < U16 /\ num_regions < Size1 /\ num_regions \in Nat
  BY TableOfAnAdd DEF IInv, TypeOK
<1>2. pool' \in [Slots' -> Region \union {NULL}] /\ LiveIdsResolve'
  BY TableOfAnAdd DEF LiveIdsResolve, Slots
<1>3. Occupied' = OccupiedIn(Pool1, Size1)  BY DEF Occupied, OccupiedIn, Slots
<1>4. Cardinality(Occupied') = Cardinality(OccupiedIn(pool, size))
  BY <1>3, TableOfAnAdd
<1>5. Cardinality(OccupiedIn(pool, size)) \in Nat  BY OccupiedFinite DEF IInv, TypeOK
<1>6. Cardinality(OccupiedIn(pool, size)) <= num_regions
  BY DEF IInv, CountBounds, Occupied, OccupiedIn, Slots
<1>7. CountBounds'  BY <1>1, <1>4, <1>5, <1>6 DEF CountBounds
<1>8. num_regions' \in 0 .. U16 - 1  BY <1>1, PoolAssumption
<1> QED  BY <1>2, <1>7, <1>8

(***************************************************************************)
(* The inductive invariant, one step per operation.                        *)
(***************************************************************************)

(* region_pool_init establishes the invariant. *)
LEMMA InitIInv == Init => IInv
<1> SUFFICES ASSUME Init PROVE IInv
  OBVIOUS
<1>1. TypeOK  BY PoolAssumption DEF Init, TypeOK, Slots
<1>2. LiveIdsResolve  BY DEF Init, LiveIdsResolve, Slots
<1>3. Occupied = {}  BY DEF Init, Occupied, Slots
<1>4. CountBounds  BY <1>3, FS_EmptySet, PoolAssumption DEF Init, CountBounds
<1> QED  BY <1>1, <1>2, <1>4 DEF IInv

(* An action that leaves the pool alone and only returns something. *)
LEMMA ReturnPreserves ==
  ASSUME IInv, UNCHANGED <<size, num_regions, region_offset, last_offset, pool>>,
         status' \in {"ok", "freed", "fault"},
         NEW op \in {"init", "add", "add_with_id", "remove", "destroy"},
         NEW id \in Nat,
         NEW err \in {"OK", "NONE", "MALLOC_FAIL", "INVALID_REGION_ARGS", "INVALID_REGION_ID"},
         Return(op, id, err)
  PROVE  IInv'
<1>1. TypeOK'  BY DEF IInv, TypeOK, Return, Slots
<1>2. LiveIdsResolve' /\ CountBounds'
  BY DEF IInv, LiveIdsResolve, CountBounds, Occupied, Slots
<1> QED  BY <1>1, <1>2 DEF IInv

(* region_pool_add_region preserves it, on each of its returns. *)
LEMMA AddRegionIInv ==
  ASSUME IInv, NEW cap \in Areas, AddRegion(cap)
  PROVE  IInv'
<1>1. CASE Conflicts(cap) /\ Return("add", 0, "INVALID_REGION_ARGS") /\ UNCHANGED poolVars
  <2>1. status' \in {"ok", "freed", "fault"}  BY <1>1 DEF poolVars, IInv, TypeOK
  <2> QED  BY <1>1, <2>1, ReturnPreserves DEF poolVars
<1>2. CASE GrowFails("add", 0)
  <2>1. status' \in {"ok", "freed", "fault"}  BY <1>2 DEF GrowFails, poolVars, IInv, TypeOK
  <2> QED  BY <1>2, <2>1, ReturnPreserves DEF GrowFails, poolVars
<1>3. CASE GrowCrashes("add", 0)
  BY <1>3, ReturnPreserves DEF GrowCrashes
<1>4. ASSUME ~GrowFaults, NEW d \in 0 .. Size1 - 1, FirstFree(d),
             last_offset' = ProbeOffset(d), size' = Size1,
             num_regions' = num_regions + 1, UNCHANGED <<status, region_offset>>,
             \/ /\ pool' = [Pool1 EXCEPT ![ProbeId(d) % Size1] = NewRegion(ProbeId(d), cap)]
                /\ Return("add", ProbeId(d), "OK")
             \/ /\ pool' = Pool1
                /\ Return("add", 0, "MALLOC_FAIL")
      PROVE  IInv'
  <2>1. U16 \in Nat \ {0} /\ LastOffset1 \in Nat /\ Size1 \in Nat \ {0} /\ Size1 < U16
    BY <1>4, TableOfAnAdd, PoolAssumption
  <2>2. ProbeOffset(d) \in 0 .. U16 - 1  BY <2>1, ModRange DEF ProbeOffset
  <2>3. ProbeId(d) \in Nat  BY <2>2 DEF ProbeId, IInv, TypeOK
  <2>4. /\ pool' \in [Slots' -> Region \union {NULL}]
        /\ LiveIdsResolve'
        /\ CountBounds'
        /\ num_regions' \in 0 .. U16 - 1
    <3>1. CASE pool' = [Pool1 EXCEPT ![ProbeId(d) % Size1] = NewRegion(ProbeId(d), cap)]
      BY <1>4, <2>3, <3>1, InsertPreserves DEF FirstFree, ProbeFree
    <3>2. CASE pool' = Pool1
      BY <1>4, <3>2, GrowOnlyPreserves
    <3> QED  BY <1>4, <3>1, <3>2
  <2>5. TypeOK'  BY <1>4, <2>1, <2>2, <2>3, <2>4 DEF IInv, TypeOK, Return
  <2> QED  BY <2>4, <2>5 DEF IInv
<1> QED  BY <1>1, <1>2, <1>3, <1>4 DEF AddRegion

(* region_pool_add_region_with_id preserves it. *)
LEMMA AddRegionWithIdIInv ==
  ASSUME IInv, NEW cap \in Areas, NEW id \in AddIds, AddRegionWithId(cap, id)
  PROVE  IInv'
<1>0. id \in Nat  BY AreaAssumption
<1>1. CASE GrowFails("add_with_id", id)
  <2>1. status' \in {"ok", "freed", "fault"}  BY <1>1 DEF GrowFails, poolVars, IInv, TypeOK
  <2> QED  BY <1>0, <1>1, <2>1, ReturnPreserves DEF GrowFails, poolVars
<1>2. CASE GrowCrashes("add_with_id", id)
  BY <1>0, <1>2, ReturnPreserves DEF GrowCrashes
<1>3. ASSUME ~GrowFaults, size' = Size1, last_offset' = LastOffset1,
             UNCHANGED <<status, region_offset>>,
             \/ /\ pool' = Pool1
                /\ UNCHANGED num_regions
                /\ \/ Return("add_with_id", id, "INVALID_REGION_ID")
                   \/ Return("add_with_id", id, "MALLOC_FAIL")
             \/ /\ Pool1[id % Size1] = NULL
                /\ pool' = [Pool1 EXCEPT ![id % Size1] = NewRegion(id, cap)]
                /\ num_regions' = num_regions + 1
                /\ Return("add_with_id", id, "OK")
      PROVE  IInv'
  <2>1. Size1 \in Nat \ {0} /\ Size1 < U16 /\ LastOffset1 \in 0 .. U16 - 1
    BY <1>3, TableOfAnAdd
  <2>2. /\ pool' \in [Slots' -> Region \union {NULL}]
        /\ LiveIdsResolve'
        /\ CountBounds'
        /\ num_regions' \in 0 .. U16 - 1
    BY <1>0, <1>3, InsertPreserves, GrowOnlyPreserves
  <2>3. TypeOK'  BY <1>0, <1>3, <2>1, <2>2 DEF IInv, TypeOK, Return
  <2> QED  BY <2>2, <2>3 DEF IInv
<1> QED
  BY <1>1, <1>2, <1>3 DEF AddRegionWithId, RefuseTaken, StoreWithId, SlotTaken

(* region_pool_remove_region preserves it. *)
LEMMA RemoveRegionIInv ==
  ASSUME IInv, NEW id \in RemoveIds, RemoveRegion(id)
  PROVE  IInv'
<1>0. id \in Nat /\ size \in Nat \ {0} /\ id % size \in 0 .. size - 1
  BY AreaAssumption, ModRange DEF IInv, TypeOK
<1>1. CASE Return("remove", id, "INVALID_REGION_ID") /\ UNCHANGED poolVars
  <2>1. status' \in {"ok", "freed", "fault"}  BY <1>1 DEF poolVars, IInv, TypeOK
  <2> QED  BY <1>0, <1>1, <2>1, ReturnPreserves DEF poolVars
<1>2. CASE /\ Lookup(id) # NULL
           /\ pool' = [pool EXCEPT ![id % size] = NULL]
           /\ num_regions' = num_regions - 1
           /\ Return("remove", id, "OK")
           /\ UNCHANGED <<status, size, region_offset, last_offset>>
  <2>1. DOMAIN pool = 0 .. size - 1 /\ pool[id % size] # NULL
    BY <1>2 DEF IInv, TypeOK, Slots, Lookup
  <2>2. Cardinality(OccupiedIn(pool', size)) = Cardinality(OccupiedIn(pool, size)) - 1
    BY <1>0, <1>2, <2>1, OccupiedEmpty
  <2>3. Cardinality(OccupiedIn(pool', size)) \in Nat /\ Cardinality(OccupiedIn(pool, size)) \in Nat
    BY <1>0, OccupiedFinite
  <2>4. Occupied = OccupiedIn(pool, size) /\ Occupied' = OccupiedIn(pool', size)
    BY <1>2 DEF Occupied, OccupiedIn, Slots
  <2>5. /\ num_regions \in 0 .. U16 - 1 /\ num_regions <= size
        /\ Cardinality(Occupied) <= num_regions /\ U16 \in Nat
    BY PoolAssumption DEF IInv, TypeOK, CountBounds
  <2>6. CountBounds' /\ num_regions' \in 0 .. U16 - 1
    BY <1>0, <1>2, <2>2, <2>3, <2>4, <2>5 DEF CountBounds
  <2>7. LiveIdsResolve'  BY <1>2, <2>1 DEF IInv, LiveIdsResolve, Slots
  <2>8. TypeOK'  BY <1>0, <1>2, <2>6 DEF IInv, TypeOK, Slots, Return
  <2> QED  BY <2>6, <2>7, <2>8 DEF IInv
<1> QED  BY <1>1, <1>2 DEF RemoveRegion

(* region_pool_destroy preserves it. *)
LEMMA DestroyIInv ==
  ASSUME IInv, Destroy
  PROVE  /\ IInv'
         /\ Occupied' = {}
         /\ num_regions = Cardinality(Occupied) => num_regions' = 0
<1> DEFINE gone == {pool[i].id % size : i \in {j \in Slots : pool[j] # NULL}}
<1>1. gone = Occupied  BY DEF IInv, LiveIdsResolve, Occupied
<1>2. IsFiniteSet(Occupied) /\ Cardinality(Occupied) \in Nat
  <2>1. Occupied = OccupiedIn(pool, size)  BY DEF Occupied, OccupiedIn, Slots
  <2> QED  BY <2>1, OccupiedFinite DEF IInv, TypeOK
<1>3. /\ num_regions \in 0 .. U16 - 1 /\ num_regions <= size /\ U16 \in Nat
      /\ Cardinality(Occupied) <= num_regions /\ size \in Nat
  BY PoolAssumption DEF IInv, TypeOK, CountBounds
<1>4. UNCHANGED <<size, region_offset, last_offset>> /\ status' = "freed" /\ Return("destroy", 0, "OK")
  BY DEF Destroy
<1>5. CASE num_regions = 0
  <2>1. Occupied = {}  BY <1>2, <1>3, <1>5, FS_EmptySet
  <2>2. UNCHANGED <<pool, num_regions>>  BY <1>5 DEF Destroy
  <2>3. Occupied' = {}  BY <1>4, <2>1, <2>2 DEF Occupied, Slots
  <2> QED  BY <1>4, <1>5, <2>2, <2>3, ReturnPreserves
<1>6. CASE num_regions # 0
  <2>1. /\ pool' = [i \in Slots |-> IF i \in gone THEN NULL ELSE pool[i]]
        /\ num_regions' = num_regions - Cardinality(gone)
    BY <1>6 DEF Destroy
  <2> HIDE DEF gone
  <2>2. Occupied' = {}  BY <1>1, <1>4, <2>1 DEF Occupied, Slots
  <2>3. num_regions' \in 0 .. U16 - 1 /\ CountBounds'
    BY <1>1, <1>2, <1>3, <1>4, <2>1, <2>2, FS_EmptySet DEF CountBounds
  <2>4. LiveIdsResolve'  BY <2>2 DEF LiveIdsResolve, Occupied
  <2>5. TypeOK'  BY <1>4, <2>1, <2>3 DEF IInv, TypeOK, Slots, Return
  <2> QED  BY <1>1, <1>2, <1>3, <2>1, <2>2, <2>3, <2>4, <2>5 DEF IInv
<1> QED  BY <1>5, <1>6

(* region_pool_init of the next pool preserves it. *)
LEMMA CreateIInv ==
  ASSUME IInv, Create
  PROVE  IInv'
<1>1. CASE UNCHANGED poolVars /\ Return("init", 0, "MALLOC_FAIL")
  <2>1. status' \in {"ok", "freed", "fault"}  BY <1>1 DEF poolVars, IInv, TypeOK
  <2> QED  BY <1>1, <2>1, ReturnPreserves DEF poolVars
<1>2. CASE /\ status' = "ok" /\ size' = InitPoolSize /\ num_regions' = 0
           /\ region_offset' \in RegionOffsets /\ last_offset' = 0
           /\ pool' = [i \in 0 .. InitPoolSize - 1 |-> NULL]
           /\ Return("init", 0, "OK")
  <2>1. TypeOK'  BY <1>2, PoolAssumption DEF TypeOK, Slots, Return
  <2>2. Occupied' = {}  BY <1>2 DEF Occupied, Slots
  <2>3. LiveIdsResolve'  BY <2>2 DEF LiveIdsResolve, Occupied
  <2>4. CountBounds'  BY <1>2, <2>2, FS_EmptySet, PoolAssumption DEF CountBounds
  <2> QED  BY <2>1, <2>3, <2>4 DEF IInv
<1> QED  BY <1>1, <1>2 DEF Create

(* Every step preserves it. *)
LEMMA NextIInv == IInv /\ [Next]_vars => IInv'
<1> SUFFICES ASSUME IInv, [Next]_vars PROVE IInv'
  OBVIOUS
<1>1. ASSUME NEW cap \in Areas, AddRegion(cap) PROVE IInv'
  BY <1>1, AddRegionIInv
<1>2. ASSUME NEW cap \in Areas, NEW id \in AddIds, AddRegionWithId(cap, id) PROVE IInv'
  BY <1>2, AddRegionWithIdIInv
<1>3. ASSUME NEW id \in RemoveIds, RemoveRegion(id) PROVE IInv'
  BY <1>3, RemoveRegionIInv
<1>4. CASE Destroy  BY <1>4, DestroyIInv
<1>5. CASE Create  BY <1>5, CreateIInv
<1>6. CASE UNCHANGED vars
  BY <1>6 DEF vars, IInv, TypeOK, LiveIdsResolve, CountBounds, Occupied, Slots
<1> QED  BY <1>1, <1>2, <1>3, <1>4, <1>5, <1>6 DEF Next

(* The inductive invariant holds throughout. *)
THEOREM PoolInvariant == Spec => []IInv
  BY InitIInv, NextIInv, PTL DEF Spec

(* The pool is well-typed in every reachable state: in particular the      *)
(* counters never leave the range of a uint16_t.                           *)
THEOREM TypeCorrect == Spec => []TypeOK
<1>1. IInv => TypeOK  BY DEF IInv
<1> QED  BY <1>1, PoolInvariant, PTL

(* A live region id always finds its own region, whatever the history of   *)
(* adds, removes, doublings and failed allocations.                        *)
THEOREM LiveIdsAlwaysResolve == Spec => []LiveIdsResolve
<1>1. IInv => LiveIdsResolve  BY DEF IInv
<1> QED  BY <1>1, PoolInvariant, PTL

(* The count brackets the occupied slots even when allocations fail.       *)
THEOREM CountAlwaysBounded == Spec => []CountBounds
<1>1. IInv => CountBounds  BY DEF IInv
<1> QED  BY <1>1, PoolInvariant, PTL

(***************************************************************************)
(* Regions survive.  What a call does to the set of live regions.          *)
(***************************************************************************)

(* Growing the table, by itself, neither loses nor makes up a region. *)
LEMMA TableOfAnAddLive ==
  ASSUME IInv, ~GrowFaults
  PROVE  Live = {Pool1[j] : j \in OccupiedIn(Pool1, Size1)}
<1>1. ASSUME NEW r \in Live PROVE \E j \in OccupiedIn(Pool1, Size1) : r = Pool1[j]
  <2>1. PICK i \in Slots : pool[i] # NULL /\ r = pool[i]  BY DEF Live, Occupied
  <2>2. PICK j \in 0 .. Size1 - 1 : Pool1[j] = pool[i]  BY <2>1, TableOfAnAdd
  <2> QED  BY <2>1, <2>2 DEF OccupiedIn
<1>2. ASSUME NEW j \in OccupiedIn(Pool1, Size1) PROVE Pool1[j] \in Live
  <2>1. j \in 0 .. Size1 - 1 /\ Pool1[j] # NULL  BY DEF OccupiedIn
  <2>2. PICK i \in Slots : pool[i] # NULL /\ pool[i] = Pool1[j]  BY <2>1, TableOfAnAdd
  <2> QED  BY <2>2 DEF Live, Occupied
<1> QED  BY <1>1, <1>2

(* An add leaves every live region in the table. *)
LEMMA AddKeepsLive ==
  ASSUME IInv, ~GrowFaults, size' = Size1,
         \/ pool' = Pool1
         \/ \E id \in Nat : /\ Pool1[id % Size1] = NULL
                            /\ \E v : pool' = [Pool1 EXCEPT ![id % Size1] = v]
  PROVE  Live \subseteq Live'
<1> SUFFICES ASSUME NEW r \in Live PROVE r \in Live'
  OBVIOUS
<1>1. PICK j \in OccupiedIn(Pool1, Size1) : r = Pool1[j]  BY TableOfAnAddLive
<1>2. j \in 0 .. Size1 - 1 /\ Pool1[j] # NULL  BY DEF OccupiedIn
<1>3. DOMAIN Pool1 = 0 .. Size1 - 1  BY TableOfAnAdd
<1>4. pool'[j] = Pool1[j]  BY <1>2, <1>3
<1> QED  BY <1>1, <1>2, <1>4 DEF Live, Occupied, Slots

(* A remove takes exactly one live region out. *)
LEMMA RemoveTakesOne ==
  ASSUME IInv, NEW id \in Nat, Lookup(id) # NULL,
         pool' = [pool EXCEPT ![id % size] = NULL], size' = size
  PROVE  Live \ Live' = {pool[id % size]} /\ Live' \subseteq Live
<1> DEFINE k == id % size
<1>1. size \in Nat \ {0} /\ DOMAIN pool = Slots  BY DEF IInv, TypeOK
<1>2. k \in Slots /\ pool[k] # NULL  BY <1>1, ModRange DEF Slots, Lookup
<1> HIDE DEF k
<1>3. pool' = [pool EXCEPT ![k] = NULL]  BY DEF k
<1>4. Live' \subseteq Live  BY <1>1, <1>2, <1>3 DEF Live, Occupied, Slots
<1>5. \A i \in Slots : pool[i] = pool[k] => i = k  BY <1>2 DEF IInv, LiveIdsResolve
<1>6. pool[k] \notin Live'  BY <1>1, <1>2, <1>3, <1>5 DEF Live, Occupied, Slots
<1>7. Live \subseteq Live' \union {pool[k]}  BY <1>1, <1>2, <1>3 DEF Live, Occupied, Slots
<1>8. pool[k] \in Live  BY <1>2 DEF Live, Occupied
<1>9. Live \ Live' = {pool[k]}  BY <1>6, <1>7, <1>8
<1> QED  BY <1>4, <1>9 DEF k

Survive ==
  \/ Live \subseteq Live'
  \/ call'.op = "remove" /\ Cardinality(Live \ Live') = 1 /\ Live' \subseteq Live
  \/ call'.op = "destroy" /\ Live' = {}

(* Every step keeps the regions it was not asked to remove; a new pool     *)
(* starts where a destroyed one has none left.                             *)
LEMMA NextSurvive ==
  ASSUME IInv, status = "freed" => Occupied = {}, [Next]_vars
  PROVE  Survive \/ UNCHANGED poolVars
<1>1. ASSUME NEW cap \in Areas, AddRegion(cap) PROVE Survive \/ UNCHANGED poolVars
  <2>1. CASE UNCHANGED poolVars  BY <2>1
  <2>2. CASE GrowCrashes("add", 0)
    BY <2>2 DEF GrowCrashes, Survive, Live, Occupied, Slots
  <2>3. ASSUME ~GrowFaults, NEW d \in 0 .. Size1 - 1, FirstFree(d), size' = Size1,
               \/ pool' = [Pool1 EXCEPT ![ProbeId(d) % Size1] = NewRegion(ProbeId(d), cap)]
               \/ pool' = Pool1
        PROVE  Survive
    <3>1. U16 \in Nat \ {0} /\ LastOffset1 + d \in Nat  BY <2>3, TableOfAnAdd, PoolAssumption
    <3>2. ProbeOffset(d) \in 0 .. U16 - 1  BY <3>1, ModRange DEF ProbeOffset
    <3>3. ProbeId(d) \in Nat  BY <3>2 DEF ProbeId, IInv, TypeOK
    <3>4. Pool1[ProbeId(d) % Size1] = NULL  BY <2>3 DEF FirstFree, ProbeFree
    <3>5. Live \subseteq Live'  BY <2>3, <3>3, <3>4, AddKeepsLive
    <3> QED  BY <3>5 DEF Survive
  <2> QED  BY <1>1, <2>1, <2>2, <2>3 DEF AddRegion, GrowFails
<1>2. ASSUME NEW cap \in Areas, NEW id \in AddIds, AddRegionWithId(cap, id)
      PROVE  Survive \/ UNCHANGED poolVars
  <2>1. CASE UNCHANGED poolVars  BY <2>1
  <2>2. CASE GrowCrashes("add_with_id", id)
    BY <2>2 DEF GrowCrashes, Survive, Live, Occupied, Slots
  <2>3. ASSUME ~GrowFaults, size' = Size1,
               \/ pool' = Pool1
               \/ /\ Pool1[id % Size1] = NULL
                  /\ pool' = [Pool1 EXCEPT ![id % Size1] = NewRegion(id, cap)]
        PROVE  Survive
    <3>1. id \in Nat  BY AreaAssumption
    <3>2. Live \subseteq Live'  BY <2>3, <3>1, AddKeepsLive
    <3> QED  BY <3>2 DEF Survive
  <2> QED
    BY <1>2, <2>1, <2>2, <2>3 DEF AddRegionWithId, GrowFails, RefuseTaken, StoreWithId, SlotTaken
<1>3. ASSUME NEW id \in RemoveIds, RemoveRegion(id) PROVE Survive \/ UNCHANGED poolVars
  <2>1. id \in Nat  BY AreaAssumption
  <2>2. CASE UNCHANGED poolVars  BY <2>2
  <2>3. CASE /\ Lookup(id) # NULL
             /\ pool' = [pool EXCEPT ![id % size] = NULL]
             /\ Return("remove", id, "OK")
             /\ size' = size
    <3>1. Cardinality(Live \ Live') = 1 /\ Live' \subseteq Live
      BY <2>1, <2>3, RemoveTakesOne, FS_Singleton
    <3>2. call'.op = "remove"  BY <2>3 DEF Return
    <3> QED  BY <3>1, <3>2 DEF Survive
  <2> QED  BY <1>3, <2>2, <2>3 DEF RemoveRegion
<1>4. CASE Destroy
  <2>1. Live' = {}  BY <1>4, DestroyIInv DEF Live
  <2> QED  BY <1>4, <2>1 DEF Destroy, Survive, Return
<1>5. CASE Create
  <2>1. Live = {}  BY <1>5 DEF Create, Live
  <2> QED  BY <2>1 DEF Survive
<1>6. CASE UNCHANGED vars  BY <1>6 DEF vars, poolVars
<1> QED  BY <1>1, <1>2, <1>3, <1>4, <1>5, <1>6 DEF Next

(* A freed pool is empty: region_pool_destroy misses no region, although   *)
(* it stops looking when its count says there is none.                     *)
LEMMA NextFreed ==
  ASSUME IInv, status = "freed" => Occupied = {}, [Next]_vars
  PROVE  status' = "freed" => Occupied' = {}
<1>1. CASE Destroy  BY <1>1, DestroyIInv
<1>2. CASE Create
  BY <1>2 DEF Create, poolVars, Occupied, Slots
<1>3. CASE UNCHANGED vars  BY <1>3 DEF vars, Occupied, Slots
<1>4. ASSUME NEW cap \in Areas, AddRegion(cap) PROVE status' # "freed"
  BY <1>4 DEF AddRegion, GrowFails, GrowCrashes, poolVars
<1>5. ASSUME NEW cap \in Areas, NEW id \in AddIds, AddRegionWithId(cap, id)
      PROVE  status' # "freed"
  BY <1>5 DEF AddRegionWithId, GrowFails, GrowCrashes, poolVars
<1>6. ASSUME NEW id \in RemoveIds, RemoveRegion(id) PROVE status' # "freed"
  BY <1>6 DEF RemoveRegion, poolVars
<1> QED  BY <1>1, <1>2, <1>3, <1>4, <1>5, <1>6 DEF Next

FreedIsEmpty == status = "freed" => Occupied = {}

(* No call loses or alters a region it was not asked to remove, whatever   *)
(* grows, fails or is refused on the way.                                  *)
THEOREM RegionsAlwaysSurvive == Spec => RegionsSurvive
<1>1. Init => FreedIsEmpty  BY DEF Init, FreedIsEmpty
<1>2. IInv /\ FreedIsEmpty /\ [Next]_vars => FreedIsEmpty'
  BY NextFreed DEF FreedIsEmpty
<1>3. IInv /\ FreedIsEmpty /\ [Next]_vars => [Survive]_poolVars
  BY NextSurvive DEF FreedIsEmpty
<1>4. Spec => [][Survive]_poolVars
  BY <1>1, <1>2, <1>3, PoolInvariant, PTL DEF Spec
<1> QED  BY <1>4 DEF RegionsSurvive, Survive

(***************************************************************************)
(* Regions that the pool gives ids to: AddIds is empty, as at the end of a *)
(* queue that registers memory.                                            *)
(***************************************************************************)

AreaOf(r) == [paddr |-> r.base_addr, len |-> r.len]

(* A region describes memory some caller registered. *)
FromAreas == \A i \in Occupied : AreaOf(pool[i]) \in Areas

DInv == RegionsDisjoint /\ FromAreas

(* The regions of the table an add works on, grown or not, lie where they  *)
(* lay, clear of each other and of the area that found no conflict.        *)
LEMMA TableOfAnAddDisjoint ==
  ASSUME IInv, DInv, ~GrowFaults, NEW cap \in Areas, ~Conflicts(cap),
         NEW j \in 0 .. Size1 - 1, Pool1[j] # NULL
  PROVE  /\ AreaOf(Pool1[j]) \in Areas
         /\ Disjoint(cap.paddr, cap.len, Pool1[j].base_addr, Pool1[j].len)
         /\ \A k \in 0 .. Size1 - 1 :
              k # j /\ Pool1[k] # NULL =>
                Disjoint(Pool1[j].base_addr, Pool1[j].len, Pool1[k].base_addr, Pool1[k].len)
<1>1. PICK a \in Slots : pool[a] # NULL /\ pool[a] = Pool1[j]  BY TableOfAnAdd
<1>2. a \in Occupied  BY <1>1 DEF Occupied
<1>3. AreaOf(Pool1[j]) \in Areas  BY <1>1, <1>2 DEF DInv, FromAreas
<1>4. Disjoint(cap.paddr, cap.len, Pool1[j].base_addr, Pool1[j].len)
  BY <1>1 DEF Conflicts
<1>5. ASSUME NEW k \in 0 .. Size1 - 1, k # j, Pool1[k] # NULL
      PROVE  Disjoint(Pool1[j].base_addr, Pool1[j].len, Pool1[k].base_addr, Pool1[k].len)
  <2>1. PICK b \in Slots : pool[b] # NULL /\ pool[b] = Pool1[k]  BY <1>5, TableOfAnAdd
  <2>2. b \in Occupied  BY <2>1 DEF Occupied
  <2>3. Pool1[j].id % Size1 = j /\ Pool1[k].id % Size1 = k  BY <1>5, TableOfAnAdd
  <2>4. a # b  BY <1>1, <1>5, <2>1, <2>3
  <2> QED  BY <1>1, <1>2, <2>1, <2>2, <2>4 DEF DInv, RegionsDisjoint
<1> QED  BY <1>3, <1>4, <1>5

(* region_pool_add_region keeps the regions apart, with a failed           *)
(* allocation too.                                                         *)
LEMMA AddDInv ==
  ASSUME IInv, DInv, ~GrowFaults, NEW cap \in Areas, ~Conflicts(cap),
         NEW id \in Nat, size' = Size1,
         pool' \in {Pool1, [Pool1 EXCEPT ![id % Size1] = NewRegion(id, cap)]}
  PROVE  DInv'
<1> DEFINE k == id % Size1
           v == NewRegion(id, cap)
<1>1. Size1 \in Nat \ {0} /\ DOMAIN Pool1 = 0 .. Size1 - 1  BY TableOfAnAdd
<1>2. k \in 0 .. Size1 - 1  BY <1>1, ModRange
<1>3. v.base_addr = cap.paddr /\ v.len = cap.len  BY DEF NewRegion
<1>4. cap.paddr \in Nat /\ cap.len \in Nat /\ AreaOf(v) = cap
  BY <1>3, AreaAssumption DEF AreaOf
<1>5. pool' \in {Pool1, [Pool1 EXCEPT ![k] = v]}  OBVIOUS
<1> HIDE DEF k, v
<1>6. ASSUME NEW i \in Occupied'
      PROVE  /\ i \in 0 .. Size1 - 1
             /\ \/ pool'[i] = Pool1[i] /\ Pool1[i] # NULL
                \/ pool'[i] = v /\ i = k
  BY <1>1, <1>2, <1>5 DEF Occupied, Slots
<1>7. FromAreas'
  BY <1>4, <1>6, TableOfAnAddDisjoint DEF FromAreas
<1>8. RegionsDisjoint'
  <2> SUFFICES ASSUME NEW i \in Occupied', NEW j \in Occupied', i # j
               PROVE  Disjoint(pool'[i].base_addr, pool'[i].len, pool'[j].base_addr, pool'[j].len)
    BY DEF RegionsDisjoint, Disjoint
  <2>1. i \in 0 .. Size1 - 1 /\ j \in 0 .. Size1 - 1  BY <1>6
  <2>2. CASE pool'[i] = v /\ i = k
    <3>1. pool'[j] = Pool1[j] /\ Pool1[j] # NULL  BY <1>6, <2>2
    <3> QED  BY <1>3, <2>1, <2>2, <3>1, TableOfAnAddDisjoint
  <2>3. CASE pool'[j] = v /\ j = k
    <3>1. pool'[i] = Pool1[i] /\ Pool1[i] # NULL  BY <1>6, <2>3
    <3>2. Disjoint(cap.paddr, cap.len, Pool1[i].base_addr, Pool1[i].len)
      BY <2>1, <3>1, TableOfAnAddDisjoint
    <3> QED  BY <1>3, <2>3, <3>1, <3>2 DEF Disjoint
  <2>4. CASE pool'[i] = Pool1[i] /\ Pool1[i] # NULL /\ pool'[j] = Pool1[j] /\ Pool1[j] # NULL
    BY <2>1, <2>4, TableOfAnAddDisjoint
  <2> QED  BY <1>6, <2>2, <2>3, <2>4
<1> QED  BY <1>7, <1>8 DEF DInv

(* With fewer regions, none of them moved, the rest stay apart. *)
LEMMA FewerDInv ==
  ASSUME DInv, Occupied' \subseteq Occupied, \A i \in Occupied' : pool'[i] = pool[i]
  PROVE  DInv'
<1>1. FromAreas'  BY DEF DInv, FromAreas
<1>2. RegionsDisjoint'  BY DEF DInv, RegionsDisjoint, Disjoint
<1> QED  BY <1>1, <1>2 DEF DInv

(* The calls of a pool that is given no ids. *)
OwnNext ==
  \/ \E cap \in Areas : AddRegion(cap)
  \/ \E id \in RemoveIds : RemoveRegion(id)
  \/ Destroy
  \/ Create

(* Every step keeps the regions apart, if no id comes from a caller. *)
LEMMA NextDInv ==
  ASSUME IInv, DInv, [OwnNext]_vars
  PROVE  DInv'
<1>1. ASSUME UNCHANGED <<size, pool>> PROVE DInv'
  BY <1>1, FewerDInv DEF Occupied, Slots
<1>2. ASSUME NEW cap \in Areas, AddRegion(cap) PROVE DInv'
  <2>1. CASE UNCHANGED <<size, pool>>  BY <1>1, <2>1
  <2>2. ASSUME ~Conflicts(cap), ~GrowFaults, NEW d \in 0 .. Size1 - 1, size' = Size1,
               \/ pool' = [Pool1 EXCEPT ![ProbeId(d) % Size1] = NewRegion(ProbeId(d), cap)]
               \/ pool' = Pool1
        PROVE  DInv'
    <3>1. U16 \in Nat \ {0} /\ LastOffset1 + d \in Nat  BY <2>2, TableOfAnAdd, PoolAssumption
    <3>2. ProbeOffset(d) \in 0 .. U16 - 1  BY <3>1, ModRange DEF ProbeOffset
    <3>3. ProbeId(d) \in Nat  BY <3>2 DEF ProbeId, IInv, TypeOK
    <3> QED  BY <2>2, <3>3, AddDInv
  <2> QED  BY <1>2, <2>1, <2>2 DEF AddRegion, GrowFails, GrowCrashes, poolVars
<1>3. ASSUME NEW id \in RemoveIds, RemoveRegion(id) PROVE DInv'
  <2>1. CASE UNCHANGED <<size, pool>>  BY <1>1, <2>1
  <2>2. CASE pool' = [pool EXCEPT ![id % size] = NULL] /\ size' = size
    <3>1. DOMAIN pool = Slots  BY DEF IInv, TypeOK
    <3>2. Occupied' \subseteq Occupied /\ \A i \in Occupied' : pool'[i] = pool[i]
      BY <2>2, <3>1 DEF Occupied, Slots
    <3> QED  BY <3>2, FewerDInv
  <2> QED  BY <1>3, <2>1, <2>2 DEF RemoveRegion, poolVars
<1>4. CASE Destroy
  <2>1. Occupied' = {}  BY <1>4, DestroyIInv
  <2> QED  BY <2>1, FewerDInv
<1>5. CASE Create
  <2>1. CASE UNCHANGED <<size, pool>>  BY <1>1, <2>1
  <2>2. CASE size' = InitPoolSize /\ pool' = [i \in 0 .. InitPoolSize - 1 |-> NULL]
    <3>1. Occupied' = {}  BY <2>2 DEF Occupied, Slots
    <3> QED  BY <3>1, FewerDInv
  <2> QED  BY <1>5, <2>1, <2>2 DEF Create, poolVars
<1>6. CASE UNCHANGED vars  BY <1>1, <1>6 DEF vars
<1> QED  BY <1>2, <1>3, <1>4, <1>5, <1>6 DEF OwnNext

(* Regions whose ids the pool assigns never overlap. *)
THEOREM RegionsAlwaysDisjoint ==
  ASSUME AddIds = {}
  PROVE  Spec => [](RegionsDisjoint /\ FromAreas)
<1>1. Init => DInv
  <2> SUFFICES ASSUME Init PROVE DInv
    OBVIOUS
  <2>1. Occupied = {}  BY DEF Init, Occupied, Slots
  <2> QED  BY <2>1 DEF DInv, RegionsDisjoint, FromAreas
<1>2. IInv /\ DInv /\ [Next]_vars => DInv'
  <2>1. [Next]_vars => [OwnNext]_vars  BY DEF Next, OwnNext
  <2> QED  BY <2>1, NextDInv
<1>3. DInv => RegionsDisjoint /\ FromAreas  BY DEF DInv
<1> QED  BY <1>1, <1>2, <1>3, PoolInvariant, PTL DEF Spec

(* Disjoint regions, none of them empty, begin at different addresses. *)
LEMMA BasesDiffer ==
  ASSUME IInv, DInv, NEW i \in Occupied, NEW j \in Occupied,
         pool[i].base_addr = pool[j].base_addr
  PROVE  i = j
<1>1. pool[i] \in Region /\ pool[j] \in Region  BY DEF IInv, TypeOK, Occupied
<1>2. pool[i].base_addr \in Nat /\ pool[i].len \in Nat /\ pool[j].len \in Nat
  BY <1>1 DEF Region
<1>3. pool[i].len # 0 /\ pool[j].len # 0
  <2>1. AreaOf(pool[i]).len \in Nat \ {0} /\ AreaOf(pool[j]).len \in Nat \ {0}
    BY AreaAssumption DEF DInv, FromAreas
  <2> QED  BY <2>1 DEF AreaOf
<1>4. ~Disjoint(pool[i].base_addr, pool[i].len, pool[j].base_addr, pool[j].len)
  BY <1>2, <1>3 DEF Disjoint
<1> QED  BY <1>4 DEF DInv, RegionsDisjoint

(* A region is found by its id, and, being the only one with its address,  *)
(* by its base address.                                                    *)
LEMMA DisjointInvert ==
  ASSUME IInv, DInv
  PROVE  TranslationsInvert
<1> SUFFICES ASSUME NEW k \in Occupied
             PROVE  /\ BaseAddrOfRegion(pool[k].id) = pool[k].base_addr
                    /\ RegionWithBaseAddr(pool[k].base_addr) = pool[k].id
  BY DEF TranslationsInvert, Live
<1>1. k \in Slots /\ pool[k] # NULL /\ pool[k].id % size = k
  BY DEF Occupied, IInv, LiveIdsResolve
<1>2. BaseAddrOfRegion(pool[k].id) = pool[k].base_addr
  BY <1>1 DEF BaseAddrOfRegion, Lookup
<1> DEFINE addr == pool[k].base_addr
           hits == {i \in Slots : pool[i] # NULL /\ pool[i].base_addr = addr}
<1>3. hits = {k}  BY <1>1, BasesDiffer DEF Occupied
<1>4. (CHOOSE i \in hits : \A j \in hits : i <= j) = k  BY <1>1, <1>3 DEF Slots
<1>5. RegionWithBaseAddr(addr) = pool[k].id
  BY <1>3, <1>4 DEF RegionWithBaseAddr
<1> QED  BY <1>2, <1>5

(* The two translations of the data path invert each other, for the pool   *)
(* of a queue that registers memory itself.                                *)
THEOREM TranslationsAlwaysInvert ==
  ASSUME AddIds = {}
  PROVE  Spec => []TranslationsInvert
<1>1. IInv /\ RegionsDisjoint /\ FromAreas => TranslationsInvert
  BY DisjointInvert DEF DInv
<1> QED  BY <1>1, PoolInvariant, RegionsAlwaysDisjoint, PTL

(***************************************************************************)
(* The search for a slot ends, while no allocation fails and the areas in  *)
(* use are fewer than would fill the largest table.                        *)
(***************************************************************************)

(* Sizes are powers of two below U16, so each divides U16. *)
LEMMA PowerDivides ==
  ASSUME NEW a \in Powers, NEW b \in Powers, a <= b
  PROVE  Multiple(b, a)
<1> DEFINE m == b \div a
<1>1. a \in Nat \ {0} /\ b \in Nat \ {0}  BY DEF Powers
<1>2. b % a = 0  BY DEF Powers
<1>3. m \in Nat /\ b = a * m  BY <1>1, <1>2, DivMod
<1>4. m # 0  BY <1>1, <1>3
<1> QED  BY <1>3, <1>4 DEF Multiple

(* A doubled size is a power of two again. *)
LEMMA PowerDoubles ==
  ASSUME NEW a \in Powers, 2 * a < U16
  PROVE  2 * a \in Powers
  BY PowersOfTwo DEF Powers

SInv ==
  /\ size \in Powers
  /\ num_regions = Cardinality(Occupied)
  /\ status # "fault"

FewAreas == IsFiniteSet(Areas) /\ 2 * Cardinality(Areas) <= U16

(* A slot of the table an add works on is free, and some probe reaches it. *)
LEMMA SomeProbeFree ==
  ASSUME IInv, size \in Powers, ~GrowFaults
  PROVE  \E d \in 0 .. Size1 - 1 : ProbeFree(d)
<1>1. /\ Size1 \in Nat \ {0} /\ Size1 < U16 /\ num_regions < Size1
      /\ num_regions \in Nat /\ region_offset \in Nat
      /\ LastOffset1 \in 0 .. U16 - 1 /\ U16 \in Nat
  BY TableOfAnAdd, PoolAssumption DEF IInv, TypeOK
<1>2. PICK k \in 0 .. Size1 - 1 : Pool1[k] = NULL
  <2>1. SUFFICES ASSUME \A k \in 0 .. Size1 - 1 : Pool1[k] # NULL PROVE FALSE
    OBVIOUS
  <2>2. OccupiedIn(Pool1, Size1) = 0 .. Size1 - 1  BY <2>1 DEF OccupiedIn
  <2>3. Cardinality(0 .. Size1 - 1) = Size1  BY <1>1, FS_Interval, SMT
  <2>4. Occupied = OccupiedIn(pool, size)  BY DEF Occupied, OccupiedIn, Slots
  <2>5. Cardinality(Occupied) = Size1  BY <2>2, <2>3, <2>4, TableOfAnAdd
  <2> QED  BY <1>1, <2>5 DEF IInv, CountBounds
<1>3. Size1 \in Powers
  <2>1. CASE MustGrow
    <3>1. Size1 = 2 * size /\ 2 * size < U16
      BY <1>1, <2>1 DEF Size1
    <3> QED  BY <3>1, PowerDoubles
  <2>2. CASE ~MustGrow  BY <2>2 DEF Size1
  <2> QED  BY <2>1, <2>2
<1>4. Multiple(U16, Size1)
  BY <1>1, <1>3, PowersOfTwo, PowerDivides
<1>5. PICK c \in Nat : c = region_offset + (num_regions + 1)  BY <1>1
<1>6. PICK d \in 0 .. Size1 - 1 : ProbeSlot(c, LastOffset1, d, U16, Size1) = k
  BY <1>1, <1>2, <1>4, <1>5, ProbesReach, SMTT(60)
<1>7. ProbeSlot(c, LastOffset1, d, U16, Size1) = ProbeId(d) % Size1
  BY <1>5 DEF ProbeId, ProbeOffset, ProbeSlot
<1>8. ProbeFree(d)  BY <1>2, <1>6, <1>7 DEF ProbeFree
<1> QED  BY <1>8

(* Growing happens only with every slot in use, and never past the last    *)
(* doubling.                                                               *)
LEMMA NoGrowFault ==
  ASSUME IInv, DInv, SInv, FewAreas, NEW cap \in Areas, ~Conflicts(cap)
  PROVE  ~GrowFaults
<1> SUFFICES ASSUME MustGrow PROVE 2 * size < U16 /\ \A i \in Slots : pool[i] # NULL
  <2>1. 2 * size \in Int /\ U16 \in Int  BY PoolAssumption DEF IInv, TypeOK
  <2> QED  BY <2>1 DEF GrowFaults
<1>1. size \in Nat \ {0} /\ num_regions \in Nat /\ U16 \in Nat
  BY PoolAssumption DEF IInv, TypeOK
<1>2. num_regions = size  BY <1>1 DEF MustGrow, IInv, CountBounds
<1>3. Cardinality(Occupied) = size  BY <1>2 DEF SInv
<1>4. IsFiniteSet(0 .. size - 1) /\ Cardinality(0 .. size - 1) = size
  BY <1>1, FS_Interval, SMT
<1>5. Occupied \subseteq 0 .. size - 1  BY DEF Occupied, Slots
<1>6. Occupied = 0 .. size - 1  BY <1>3, <1>4, <1>5, FS_Subset
<1>7. \A i \in Slots : pool[i] # NULL  BY <1>6 DEF Occupied, Slots
<1> DEFINE T == Areas \ {cap}
           f == [i \in Occupied |-> AreaOf(pool[i])]
<1>8. IsFiniteSet(T) /\ Cardinality(T) = Cardinality(Areas) - 1
  BY FS_RemoveElement DEF FewAreas
<1>9. \A i \in Occupied : AreaOf(pool[i]) \in T
  <2> SUFFICES ASSUME NEW i \in Occupied, AreaOf(pool[i]) = cap PROVE FALSE
    BY DEF DInv, FromAreas
  <2>1. pool[i].base_addr = cap.paddr  BY DEF AreaOf
  <2> QED  BY <2>1 DEF Conflicts, Occupied
<1>10. \A i, j \in Occupied : AreaOf(pool[i]) = AreaOf(pool[j]) => i = j
  <2> SUFFICES ASSUME NEW i \in Occupied, NEW j \in Occupied, AreaOf(pool[i]) = AreaOf(pool[j])
               PROVE  i = j
    OBVIOUS
  <2>1. pool[i].base_addr = pool[j].base_addr  BY DEF AreaOf
  <2> QED  BY <2>1, BasesDiffer
<1>11. f \in Injection(Occupied, T)  BY <1>9, <1>10 DEF Injection, IsInjective
<1>12. Cardinality(Occupied) <= Cardinality(T)  BY <1>8, <1>11, FS_Injection
<1>13. Cardinality(Areas) \in Nat  BY FS_CardinalityType DEF FewAreas
<1>14. 2 * size < U16  BY <1>1, <1>3, <1>8, <1>12, <1>13 DEF FewAreas
<1> QED  BY <1>7, <1>14

(* Every step keeps the count exact and the table a power of two. *)
LEMMA NextSInv ==
  ASSUME IInv, DInv, SInv, FewAreas, AddIds = {}, AllocMayFail = FALSE, [Next]_vars
  PROVE  SInv'
<1>1. ASSUME UNCHANGED <<size, pool, num_regions, status>> PROVE SInv'
  BY <1>1 DEF SInv, Occupied, Slots
<1>2. ASSUME NEW cap \in Areas, AddRegion(cap) PROVE SInv'
  <2>1. CASE UNCHANGED poolVars  BY <1>1, <2>1 DEF poolVars
  <2>2. ASSUME ~Conflicts(cap), ~GrowFaults, NEW d \in 0 .. Size1 - 1, FirstFree(d),
               size' = Size1, num_regions' = num_regions + 1, UNCHANGED status,
               pool' = [Pool1 EXCEPT ![ProbeId(d) % Size1] = NewRegion(ProbeId(d), cap)]
        PROVE  SInv'
    <3>1. U16 \in Nat \ {0} /\ LastOffset1 + d \in Nat  BY <2>2, TableOfAnAdd, PoolAssumption
    <3>2. ProbeOffset(d) \in 0 .. U16 - 1  BY <3>1, ModRange DEF ProbeOffset
    <3>3. ProbeId(d) \in Nat  BY <3>2 DEF ProbeId, IInv, TypeOK
    <3> DEFINE id == ProbeId(d)
               k == id % Size1
               v == NewRegion(id, cap)
    <3>4. Size1 \in Nat \ {0} /\ DOMAIN Pool1 = 0 .. Size1 - 1  BY <2>2, TableOfAnAdd
    <3>5. k \in 0 .. Size1 - 1  BY <3>3, <3>4, ModRange
    <3>6. v \in Region /\ v # NULL
      BY <3>3, AreaAssumption, NullAssumption DEF NewRegion, Region
    <3>7. Pool1[k] = NULL  BY <2>2 DEF FirstFree, ProbeFree
    <3> HIDE DEF k, v, id
    <3>8. pool' = [Pool1 EXCEPT ![k] = v]  BY <2>2 DEF k, v, id
    <3>9. Cardinality(OccupiedIn(pool', Size1)) = Cardinality(OccupiedIn(Pool1, Size1)) + 1
      BY <3>4, <3>5, <3>6, <3>7, <3>8, OccupiedFill
    <3>10. Occupied' = OccupiedIn(pool', Size1) /\ Occupied = OccupiedIn(pool, size)
      BY <2>2 DEF Occupied, OccupiedIn, Slots
    <3>11. num_regions' = Cardinality(Occupied')
      BY <2>2, <3>9, <3>10, TableOfAnAdd DEF SInv
    <3>12. Size1 \in Powers
      <4>1. CASE MustGrow
        <5>1. Size1 = 2 * size /\ 2 * size < U16
          BY <2>2, <4>1, PoolAssumption DEF Size1, GrowFaults, IInv, TypeOK
        <5> QED  BY <5>1, PowerDoubles DEF SInv
      <4>2. CASE ~MustGrow  BY <4>2 DEF Size1, SInv
      <4> QED  BY <4>1, <4>2
    <3> QED  BY <2>2, <3>11, <3>12 DEF SInv
  <2>3. ~Conflicts(cap) => ~GrowFaults  BY NoGrowFault
  <2> QED  BY <1>2, <2>1, <2>2, <2>3 DEF AddRegion, GrowFails, GrowCrashes
<1>3. ASSUME NEW id \in RemoveIds, RemoveRegion(id) PROVE SInv'
  <2>0. id \in Nat /\ size \in Nat \ {0} /\ id % size \in 0 .. size - 1
    BY AreaAssumption, ModRange DEF IInv, TypeOK
  <2>1. CASE UNCHANGED poolVars  BY <1>1, <2>1 DEF poolVars
  <2>2. CASE /\ Lookup(id) # NULL
             /\ pool' = [pool EXCEPT ![id % size] = NULL]
             /\ num_regions' = num_regions - 1
             /\ UNCHANGED <<status, size>>
    <3>1. DOMAIN pool = 0 .. size - 1 /\ pool[id % size] # NULL
      BY <2>2 DEF IInv, TypeOK, Slots, Lookup
    <3>2. Cardinality(OccupiedIn(pool', size)) = Cardinality(OccupiedIn(pool, size)) - 1
      BY <2>0, <2>2, <3>1, OccupiedEmpty
    <3>3. Occupied = OccupiedIn(pool, size) /\ Occupied' = OccupiedIn(pool', size)
      BY <2>2 DEF Occupied, OccupiedIn, Slots
    <3> QED  BY <2>2, <3>2, <3>3 DEF SInv
  <2> QED  BY <1>3, <2>1, <2>2 DEF RemoveRegion
<1>4. CASE Destroy
  <2>1. Occupied' = {} /\ num_regions' = 0  BY <1>4, DestroyIInv DEF SInv
  <2>2. size' = size /\ status' = "freed"  BY <1>4 DEF Destroy
  <2> QED  BY <2>1, <2>2, FS_EmptySet DEF SInv
<1>5. CASE Create
  <2>1. size' = InitPoolSize /\ pool' = [i \in 0 .. InitPoolSize - 1 |-> NULL]
        /\ num_regions' = 0 /\ status' = "ok"
    BY <1>5 DEF Create
  <2>2. Occupied' = {}  BY <2>1 DEF Occupied, Slots
  <2> QED  BY <2>1, <2>2, FS_EmptySet, PowersOfTwo DEF SInv
<1>6. CASE UNCHANGED vars  BY <1>1, <1>6 DEF vars
<1> QED  BY <1>2, <1>3, <1>4, <1>5, <1>6 DEF Next

(* While no allocation fails and fewer areas are in use than would fill    *)
(* the largest table, the search for a slot always ends and growing never  *)
(* runs into an empty slot.                                                *)
THEOREM SlotSearchAlwaysTerminates ==
  ASSUME AddIds = {}, AllocMayFail = FALSE, FewAreas
  PROVE  Spec => []SlotSearchTerminates
<1>1. Init => SInv
  <2> SUFFICES ASSUME Init PROVE SInv
    OBVIOUS
  <2>1. Occupied = {}  BY DEF Init, Occupied, Slots
  <2> QED  BY <2>1, FS_EmptySet, PowersOfTwo DEF Init, SInv
<1>2. IInv /\ RegionsDisjoint /\ FromAreas /\ SInv /\ [Next]_vars => SInv'
  BY NextSInv DEF DInv
<1>3. IInv /\ SInv => SlotSearchTerminates
  BY SomeProbeFree DEF SInv, SlotSearchTerminates, NoFault
<1> QED  BY <1>1, <1>2, <1>3, PoolInvariant, RegionsAlwaysDisjoint, PTL DEF Spec

(***************************************************************************)
(* The two pools of an IPC queue (PoolReplicas).  Along the commands in    *)
(* flight there is a sequence of tables, one before and one after each     *)
(* command, that begins with the receiver's and ends with the sender's, as *)
(* it looks from the other end, with virtual addresses for physical ones;  *)
(* each command takes one table to the next in the only way the receiver   *)
(* can take it.                                                            *)
(***************************************************************************)

Tab(p, n, c) == [p |-> p, n |-> n, c |-> c]

Full(T) == ~(T.c < T.n)

Grown(p, n) ==
  [j \in 0 .. 2 * n - 1 |->
     IF \E i \in 0 .. n - 1 : p[i] # NULL /\ p[i].id % (2 * n) = j
     THEN p[CHOOSE i \in 0 .. n - 1 : p[i] # NULL /\ p[i].id % (2 * n) = j]
     ELSE NULL]

ToAddTo(T) == IF Full(T) THEN Tab(Grown(T.p, T.n), 2 * T.n, T.c) ELSE T

(* Table V is table T with one more region, under that id. *)
Registered(T, id, cap, V) ==
  LET W == ToAddTo(T) IN
  /\ T.n \in Nat
  /\ Full(T) => 2 * T.n < U16 /\ \A i \in 0 .. T.n - 1 : T.p[i] # NULL
  /\ W.p[id % W.n] = NULL
  /\ V = Tab([W.p EXCEPT ![id % W.n] = NewRegion(id, cap)], W.n, T.c + 1)

(* Table V is table T without the region that id finds. *)
Deregistered(T, id, V) ==
  /\ T.p[id % T.n] # NULL
  /\ V = Tab([T.p EXCEPT ![id % T.n] = NULL], T.n, T.c - 1)

Takes(T, c, V) ==
  \/ c.cmd = "reg" /\ Registered(T, c.id, ReceivedCap(c), V)
  \/ c.cmd = "dereg" /\ Deregistered(T, c.id, V)

Mine   == Tab(Mirrored, size, num_regions)
Theirs == Tab(b_pool, b_size, b_num_regions)

Joins(f, ch, T, V) ==
  /\ DOMAIN f = 0 .. Len(ch)
  /\ f[0] = T /\ f[Len(ch)] = V
  /\ \A i \in 1 .. Len(ch) : Takes(f[i - 1], ch[i], f[i])

Command == [cmd : {"reg", "dereg"}, id : Nat, offset : Nat, length : Nat]

(* Seen from the other end, the table an add of the sender works on. *)
Mirrored1 == [j \in 0 .. Size1 - 1 |-> IF Pool1[j] = NULL THEN NULL ELSE Mirror(Pool1[j])]

(* A region of registered memory has an image at the other end, under the  *)
(* same id.                                                                *)
LEMMA MirrorOfRegion ==
  ASSUME NEW r \in Region, AreaOf(r) \in Areas
  PROVE  Mirror(r) \in Region /\ Mirror(r) # NULL /\ Mirror(r).id = r.id
<1>1. Vaddr[AreaOf(r)] \in Nat  BY ReplicaAssumption
<1>2. Mirror(r) = [id |-> r.id, base_addr |-> Vaddr[AreaOf(r)], len |-> r.len]
  BY DEF Mirror, AreaOf
<1>3. Mirror(r) \in Region /\ Mirror(r).id = r.id  BY <1>1, <1>2 DEF Region
<1> QED  BY <1>3, NullAssumption DEF Region

(* So the image of the table is occupied where the table is, by regions of *)
(* the same ids.                                                           *)
LEMMA MirroredSlots ==
  ASSUME IInv, FromAreas, NEW i \in Slots
  PROVE  /\ Mirrored[i] # NULL <=> pool[i] # NULL
         /\ pool[i] # NULL => Mirrored[i] = Mirror(pool[i]) /\ Mirrored[i].id = pool[i].id
<1>1. Mirrored[i] = IF pool[i] = NULL THEN NULL ELSE Mirror(pool[i])  BY DEF Mirrored
<1>2. CASE pool[i] # NULL
  <2>1. pool[i] \in Region  BY <1>2 DEF IInv, TypeOK
  <2>2. AreaOf(pool[i]) \in Areas  BY <1>2 DEF FromAreas, Occupied
  <2> QED  BY <1>1, <1>2, <2>1, <2>2, MirrorOfRegion
<1> QED  BY <1>1, <1>2

(* Growing the image gives the image of the grown table. *)
LEMMA GrownMirrored ==
  ASSUME IInv, FromAreas
  PROVE  Grown(Mirrored, size)
           = [j \in 0 .. 2 * size - 1 |-> IF GrownPool[j] = NULL THEN NULL ELSE Mirror(GrownPool[j])]
<1> DEFINE n == 2 * size
           Hit(i, j) == Mirrored[i] # NULL /\ Mirrored[i].id % n = j
           Src(j) == CHOOSE i \in Slots : Hit(i, j)
<1>1. Grown(Mirrored, size) =
        [j \in 0 .. n - 1 |-> IF \E i \in Slots : Hit(i, j) THEN Mirrored[Src(j)] ELSE NULL]
  BY DEF Grown, Slots
<1>2. \A j : (\E i \in Slots : Hit(i, j)) => Src(j) \in Slots /\ Hit(Src(j), j)
  OBVIOUS
<1>3. \A i \in Slots : \A j : Hit(i, j) <=> pool[i] # NULL /\ pool[i].id % n = j
  BY MirroredSlots
<1> HIDE DEF Hit, Src
<1>4. ASSUME NEW j \in 0 .. n - 1
      PROVE  (IF \E i \in Slots : Hit(i, j) THEN Mirrored[Src(j)] ELSE NULL)
               = IF GrownPool[j] = NULL THEN NULL ELSE Mirror(GrownPool[j])
  <2>1. CASE \E i \in Slots : Hit(i, j)
    <3>1. PICK k : k = Src(j)  OBVIOUS
    <3>2. k \in Slots /\ pool[k] # NULL /\ pool[k].id % n = j  BY <1>2, <1>3, <2>1, <3>1
    <3>3. GrownPool[j] = pool[k]  BY <3>2, GrownKeepsRegions DEF IInv
    <3>4. Mirrored[k] = Mirror(pool[k])  BY <3>2, MirroredSlots
    <3> QED  BY <2>1, <3>1, <3>2, <3>3, <3>4
  <2>2. CASE ~ \E i \in Slots : Hit(i, j)
    <3>1. ASSUME GrownPool[j] # NULL PROVE FALSE
      <4>1. GrownPool[j].id % n = j /\ \E i \in Slots : GrownPool[j] = pool[i]
        BY <3>1, GrownKeepsRegions DEF IInv
      <4>2. PICK i \in Slots : GrownPool[j] = pool[i]  BY <4>1
      <4> QED  BY <1>3, <2>2, <3>1, <4>1, <4>2
    <3> QED  BY <2>2, <3>1
  <2> QED  BY <2>1, <2>2
<1> QED  BY <1>1, <1>4

(* The table an add of the sender works on. *)
LEMMA MineToAddTo ==
  ASSUME IInv, FromAreas
  PROVE  /\ Full(Mine) <=> MustGrow
         /\ ToAddTo(Mine) = Tab(Mirrored1, Size1, num_regions)
<1>1. Full(Mine) <=> MustGrow  BY DEF Full, Mine, Tab, MustGrow
<1>2. Mine.p = Mirrored /\ Mine.n = size /\ Mine.c = num_regions  BY DEF Mine, Tab
<1>3. CASE MustGrow
  <2>1. Mirrored1 = Grown(Mirrored, size) /\ Size1 = 2 * size
    BY <1>3, GrownMirrored DEF Mirrored1, Pool1, Size1
  <2> QED  BY <1>1, <1>2, <1>3, <2>1 DEF ToAddTo
<1>4. CASE ~MustGrow
  <2>1. Mirrored1 = Mirrored /\ Size1 = size
    BY <1>4 DEF Mirrored1, Mirrored, Pool1, Size1, Slots
  <2> QED  BY <1>1, <1>4, <2>1 DEF ToAddTo, Mine
<1> QED  BY <1>3, <1>4

(* The table an add of the receiver works on. *)
LEMMA TheirsToAddTo ==
  /\ Full(Theirs) <=> B!MustGrow
  /\ ToAddTo(Theirs) = Tab(B!Pool1, B!Size1, b_num_regions)
<1>1. Full(Theirs) <=> B!MustGrow  BY DEF Full, Theirs, Tab, B!MustGrow
<1>2. Grown(b_pool, b_size) = B!GrownPool  BY DEF Grown, B!GrownPool, B!Slots, B!NewIndex
<1> QED  BY <1>1, <1>2 DEF ToAddTo, Theirs, Tab, B!Pool1, B!Size1

(* What cleanq_register does to the sender's table, if it succeeds, the    *)
(* command it sends describes.                                             *)
LEMMA SendsReg ==
  ASSUME IInv, FromAreas, AllocMayFail = FALSE, NEW cap \in Areas, AddRegion(cap)
  PROVE  /\ status' # "freed"
         /\ \/ call'.err # "OK" /\ Mine' = Mine
            \/ /\ call'.err = "OK" /\ call'.id \in Nat
               /\ Registered(Mine, call'.id, ReceivedCap(Reg(call'.id, cap)), Mine')
<1>1. CASE Return("add", 0, "INVALID_REGION_ARGS") /\ UNCHANGED poolVars
  BY <1>1 DEF Return, poolVars, Mine, Mirrored, Slots, Tab, AddRegion
<1>2. CASE GrowCrashes("add", 0)
  BY <1>2 DEF GrowCrashes, Return, Mine, Mirrored, Slots, Tab
<1>3. ASSUME ~GrowFaults, NEW d \in 0 .. Size1 - 1, FirstFree(d), status = "ok",
             size' = Size1, num_regions' = num_regions + 1, UNCHANGED status,
             pool' = [Pool1 EXCEPT ![ProbeId(d) % Size1] = NewRegion(ProbeId(d), cap)],
             Return("add", ProbeId(d), "OK")
      PROVE  /\ status' # "freed"
             /\ call'.err = "OK" /\ call'.id \in Nat
             /\ Registered(Mine, call'.id, ReceivedCap(Reg(call'.id, cap)), Mine')
  <2> DEFINE id == ProbeId(d)
             k == id % Size1
             theirs == NewRegion(id, ReceivedCap(Reg(id, cap)))
  <2>1. U16 \in Nat \ {0} /\ LastOffset1 + d \in Nat /\ size \in Nat
    BY <1>3, TableOfAnAdd, PoolAssumption DEF IInv, TypeOK
  <2>2. ProbeOffset(d) \in 0 .. U16 - 1  BY <2>1, ModRange DEF ProbeOffset
  <2>3. id \in Nat  BY <2>2 DEF ProbeId, IInv, TypeOK
  <2>4. call'.err = "OK" /\ call'.id = id  BY <1>3 DEF Return
  <2>5. /\ Mine.n = size /\ Mine.p = Mirrored /\ Mine.c = num_regions
        /\ ToAddTo(Mine).p = Mirrored1 /\ ToAddTo(Mine).n = Size1
    BY MineToAddTo DEF Mine, Tab
  <2>6. Full(Mine) => 2 * size < U16 /\ \A i \in 0 .. size - 1 : Mirrored[i] # NULL
    BY <1>3, <2>1, MineToAddTo, MirroredSlots DEF GrowFaults, Slots
  <2>7. Size1 \in Nat \ {0} /\ Pool1 \in [0 .. Size1 - 1 -> Region \union {NULL}]
    BY <1>3, TableOfAnAdd
  <2>8. k \in 0 .. Size1 - 1  BY <2>3, <2>7, ModRange
  <2>9. Pool1[k] = NULL  BY <1>3 DEF FirstFree, ProbeFree
  <2>10. Mirrored1[k] = NULL  BY <2>8, <2>9 DEF Mirrored1
  <2>11. /\ cap = [paddr |-> cap.paddr, len |-> cap.len]
         /\ cap.paddr \in Nat /\ cap.len \in Nat
    BY AreaAssumption
  <2>12. NewRegion(id, cap) \in Region /\ Mirror(NewRegion(id, cap)) = theirs
    BY <2>3, <2>11 DEF NewRegion, Region, Mirror, ReceivedCap, Reg
  <2>13. NewRegion(id, cap) # NULL  BY <2>12, NullAssumption DEF Region
  <2> HIDE DEF id, k, theirs
  <2>14. pool' = [Pool1 EXCEPT ![k] = NewRegion(id, cap)]  BY <1>3 DEF k, id
  <2>15. Mirrored' = [j \in 0 .. Size1 - 1 |-> IF pool'[j] = NULL THEN NULL ELSE Mirror(pool'[j])]
    BY <1>3 DEF Mirrored, Slots, Mirror
  <2>16. \A j \in 0 .. Size1 - 1 :
           pool'[j] = IF j = k THEN NewRegion(id, cap) ELSE Pool1[j]
    BY <2>7, <2>8, <2>14
  <2>17. Mirrored' = [Mirrored1 EXCEPT ![k] = theirs]
    BY <2>8, <2>12, <2>13, <2>15, <2>16 DEF Mirrored1
  <2>18. Mine' = Tab([Mirrored1 EXCEPT ![k] = theirs], Size1, num_regions + 1)
    BY <1>3, <2>17 DEF Mine, Tab
  <2>19. Registered(Mine, id, ReceivedCap(Reg(id, cap)), Mine')
    BY <2>1, <2>5, <2>6, <2>10, <2>18 DEF Registered, k, theirs
  <2> QED  BY <1>3, <2>3, <2>4, <2>19
<1> QED  BY <1>1, <1>2, <1>3 DEF AddRegion, GrowFails

(* The same of cleanq_deregister. *)
LEMMA SendsDereg ==
  ASSUME IInv, FromAreas, NEW id \in Nat, RemoveRegion(id)
  PROVE  /\ status' # "freed"
         /\ \/ call'.err # "OK" /\ Mine' = Mine
            \/ call'.err = "OK" /\ Deregistered(Mine, id, Mine')
<1>1. CASE Return("remove", id, "INVALID_REGION_ID") /\ UNCHANGED poolVars
  BY <1>1 DEF Return, poolVars, Mine, Mirrored, Slots, Tab, RemoveRegion
<1>2. CASE /\ Lookup(id) # NULL
           /\ pool' = [pool EXCEPT ![id % size] = NULL]
           /\ num_regions' = num_regions - 1
           /\ Return("remove", id, "OK")
           /\ UNCHANGED <<status, size>>
  <2>1. call'.err = "OK" /\ status' # "freed"  BY <1>2 DEF Return, RemoveRegion
  <2>2. size \in Nat \ {0} /\ DOMAIN pool = Slots  BY DEF IInv, TypeOK
  <2>3. PICK k : k = id % size  OBVIOUS
  <2>4. k \in Slots /\ pool[k] # NULL  BY <1>2, <2>2, <2>3, ModRange DEF Slots, Lookup
  <2>5. Mirrored[k] # NULL  BY <2>4, MirroredSlots
  <2>6. Mirrored' = [j \in Slots |-> IF pool'[j] = NULL THEN NULL ELSE Mirror(pool'[j])]
    BY <1>2 DEF Mirrored, Slots, Mirror
  <2>7. \A j \in Slots : pool'[j] = IF j = k THEN NULL ELSE pool[j]
    BY <1>2, <2>2, <2>3, <2>4
  <2>8. Mirrored' = [Mirrored EXCEPT ![k] = NULL]  BY <2>4, <2>6, <2>7 DEF Mirrored
  <2>9. Mine' = Tab([Mirrored EXCEPT ![k] = NULL], size, num_regions - 1)
    BY <1>2, <2>8 DEF Mine, Tab
  <2>10. Mine.n = size /\ Mine.p = Mirrored /\ Mine.c = num_regions  BY DEF Mine, Tab
  <2>11. Deregistered(Mine, id, Mine')  BY <2>3, <2>5, <2>9, <2>10 DEF Deregistered
  <2> QED  BY <2>1, <2>11
<1> QED  BY <1>1, <1>2 DEF RemoveRegion

(* A registration that the sender's table took is taken by a receiver with *)
(* the same table, and gives it the same table again.                      *)
LEMMA AppliesReg ==
  ASSUME AllocMayFail = FALSE, NEW id, NEW cap, NEW V,
         Registered(Theirs, id, cap, V), B!AddRegionWithId(cap, id)
  PROVE  Theirs' = V /\ b_call'.err = "OK" /\ b_status' = "ok"
<1>1. /\ Theirs.n = b_size /\ Theirs.p = b_pool /\ Theirs.c = b_num_regions
      /\ ToAddTo(Theirs).p = B!Pool1 /\ ToAddTo(Theirs).n = B!Size1
      /\ Full(Theirs) <=> B!MustGrow
  BY TheirsToAddTo DEF Theirs, Tab
<1>2. /\ b_size \in Nat
      /\ B!MustGrow => 2 * b_size < U16 /\ \A i \in 0 .. b_size - 1 : b_pool[i] # NULL
      /\ B!Pool1[id % B!Size1] = NULL
      /\ V = Tab([B!Pool1 EXCEPT ![id % B!Size1] = NewRegion(id, cap)], B!Size1, b_num_regions + 1)
  BY <1>1 DEF Registered
<1>3. ~B!GrowFaults  BY <1>2, PoolAssumption DEF B!GrowFaults, B!Slots
<1>4. ~B!SlotTaken(id)  BY <1>2 DEF B!SlotTaken
<1>5. b_status = "ok" /\ b_status' = b_status /\ b_size' = B!Size1 /\ B!StoreWithId(cap, id)
  BY <1>3, <1>4 DEF B!AddRegionWithId, B!GrowFails, B!GrowCrashes, B!RefuseTaken
<1>6. /\ b_pool' = [B!Pool1 EXCEPT ![id % B!Size1] = NewRegion(id, cap)]
      /\ b_num_regions' = b_num_regions + 1
      /\ b_call'.err = "OK"
  BY <1>5 DEF B!StoreWithId, B!Return, B!NewRegion, NewRegion
<1> QED  BY <1>2, <1>5, <1>6 DEF Theirs, Tab

(* The same of a deregistration. *)
LEMMA AppliesDereg ==
  ASSUME NEW id, NEW V, Deregistered(Theirs, id, V), B!RemoveRegion(id)
  PROVE  Theirs' = V /\ b_call'.err = "OK" /\ b_status' = "ok"
<1>1. B!Lookup(id) # NULL  BY DEF Deregistered, Theirs, Tab, B!Lookup
<1>2. /\ b_status = "ok" /\ b_status' = b_status /\ b_size' = b_size
      /\ b_pool' = [b_pool EXCEPT ![id % b_size] = NULL]
      /\ b_num_regions' = b_num_regions - 1
      /\ b_call'.err = "OK"
  BY <1>1 DEF B!RemoveRegion, B!Return
<1> QED  BY <1>2 DEF Deregistered, Theirs, Tab

(* A table joins itself when nothing is in flight. *)
LEMMA JoinEmpty ==
  ASSUME NEW T
  PROVE  \E f : Joins(f, << >>, T, T)
<1> DEFINE f == [i \in 0 .. 0 |-> T]
<1>1. Joins(f, << >>, T, T)  BY DEF Joins
<1> QED  BY <1>1

(* A command sent extends the sequence of tables at the sender's end. *)
LEMMA JoinAppend ==
  ASSUME NEW ch \in Seq(Command), NEW c \in Command, NEW T, NEW V, NEW W,
         \E f : Joins(f, ch, T, V), Takes(V, c, W)
  PROVE  \E f : Joins(f, Append(ch, c), T, W)
<1>1. PICK f : Joins(f, ch, T, V)  OBVIOUS
<1> DEFINE l == Len(ch)
           g == [i \in 0 .. l + 1 |-> IF i = l + 1 THEN W ELSE f[i]]
           d == Append(ch, c)
<1>2. l \in Nat /\ Len(d) = l + 1 /\ d[l + 1] = c /\ \A i \in 1 .. l : d[i] = ch[i]
  OBVIOUS
<1>3. DOMAIN f = 0 .. l /\ f[0] = T /\ f[l] = V /\ \A i \in 1 .. l : Takes(f[i - 1], ch[i], f[i])
  BY <1>1 DEF Joins
<1> HIDE DEF l, d
<1>4. g[0] = T /\ g[l + 1] = W /\ g[l] = V  BY <1>2, <1>3
<1>5. ASSUME NEW i \in 1 .. l + 1 PROVE Takes(g[i - 1], d[i], g[i])
  <2>1. CASE i = l + 1  BY <2>1, <1>2, <1>4
  <2>2. CASE i # l + 1
    <3>1. i \in 1 .. l /\ g[i] = f[i] /\ g[i - 1] = f[i - 1] /\ d[i] = ch[i]
      BY <2>2, <1>2
    <3> QED  BY <3>1, <1>3
  <2> QED  BY <2>1, <2>2
<1>6. DOMAIN g = 0 .. l + 1  OBVIOUS
<1> HIDE DEF g
<1>7. Joins(g, d, T, W)  BY <1>2, <1>4, <1>5, <1>6 DEF Joins
<1> QED  BY <1>7 DEF d

(* A command applied takes the receiver's table to the next one. *)
LEMMA JoinTail ==
  ASSUME NEW ch \in Seq(Command), ch # << >>, NEW T, NEW V,
         \E f : Joins(f, ch, T, V)
  PROVE  \E U : Takes(T, Head(ch), U) /\ \E f : Joins(f, Tail(ch), U, V)
<1>1. PICK f : Joins(f, ch, T, V)  OBVIOUS
<1> DEFINE l == Len(ch)
           g == [i \in 0 .. l - 1 |-> f[i + 1]]
           d == Tail(ch)
<1>2. l \in Nat \ {0} /\ Len(d) = l - 1 /\ \A i \in 1 .. l - 1 : d[i] = ch[i + 1]
  OBVIOUS
<1>3. Head(ch) = ch[1]  OBVIOUS
<1>4. DOMAIN f = 0 .. l /\ f[0] = T /\ f[l] = V /\ \A i \in 1 .. l : Takes(f[i - 1], ch[i], f[i])
  BY <1>1 DEF Joins
<1> HIDE DEF l, d
<1>5. Takes(T, ch[1], f[1])
  <2>1. 1 \in 1 .. l /\ 1 - 1 = 0  BY <1>2
  <2> QED  BY <2>1, <1>4
<1>6. g[0] = f[1] /\ g[l - 1] = V  BY <1>2, <1>4
<1>7. ASSUME NEW i \in 1 .. l - 1 PROVE Takes(g[i - 1], d[i], g[i])
  <2>1. /\ i + 1 \in 1 .. l /\ g[i] = f[i + 1] /\ g[i - 1] = f[(i + 1) - 1]
        /\ d[i] = ch[i + 1]
    BY <1>2
  <2> QED  BY <2>1, <1>4
<1>8. DOMAIN g = 0 .. l - 1  OBVIOUS
<1> HIDE DEF g
<1>9. Joins(g, d, f[1], V)  BY <1>2, <1>6, <1>7, <1>8 DEF Joins
<1> QED  BY <1>3, <1>5, <1>9 DEF d

RInv ==
  /\ chan \in Seq(Command)
  /\ b_call.err = "OK" /\ b_status # "fault"
  /\ status = "freed" => chan = << >>
  /\ status # "freed" => \E f : Joins(f, chan, Theirs, Mine)

(* Two new pools have the same table. *)
LEMMA InitRInv == ReplicaInit => RInv
<1> SUFFICES ASSUME ReplicaInit PROVE RInv
  OBVIOUS
<1>1. size = InitPoolSize /\ pool = [i \in 0 .. InitPoolSize - 1 |-> NULL]
  BY DEF ReplicaInit, Init
<1>5. Mirrored = pool  BY <1>1 DEF Mirrored, Slots
<1>6. Mine = Theirs  BY <1>1, <1>5 DEF ReplicaInit, Init, B!Init, Mine, Theirs, Tab
<1>2. chan = << >> /\ b_call.err = "OK" /\ b_status # "fault"
  BY DEF ReplicaInit, B!Init
<1> QED  BY <1>6, <1>2, JoinEmpty DEF RInv

(* A call of the sender, whatever it returns. *)
LEMMA SendRInv ==
  ASSUME RInv, status # "freed", status' # "freed", UNCHANGED bVars,
         NEW c \in Command, Send(c),
         \/ call'.err # "OK" /\ Mine' = Mine
         \/ call'.err = "OK" /\ Takes(Mine, c, Mine')
  PROVE  RInv'
<1>1. Theirs' = Theirs /\ b_call' = b_call /\ b_status' = b_status
  BY DEF bVars, Theirs, Tab
<1>2. chan \in Seq(Command) /\ \E f : Joins(f, chan, Theirs, Mine)  BY DEF RInv
<1>3. CASE call'.err # "OK" /\ Mine' = Mine
  <2>1. chan' = chan  BY <1>3 DEF Send
  <2>2. \E f : Joins(f, chan', Theirs', Mine')  BY <1>1, <1>2, <1>3, <2>1
  <2> QED  BY <1>1, <1>2, <2>1, <2>2 DEF RInv
<1>4. CASE call'.err = "OK" /\ Takes(Mine, c, Mine')
  <2>1. chan' = Append(chan, c)  BY <1>4 DEF Send
  <2>2. \E f : Joins(f, Append(chan, c), Theirs, Mine')  BY <1>2, <1>4, JoinAppend
  <2>3. chan' \in Seq(Command)  BY <1>2, <2>1
  <2> QED  BY <1>1, <2>1, <2>2, <2>3 DEF RInv
<1> QED  BY <1>3, <1>4

(* Every step of the two ends keeps their tables joined. *)
LEMMA NextRInv ==
  ASSUME IInv, FromAreas, RInv, AllocMayFail = FALSE, [ReplicaNext]_replicaVars
  PROVE  RInv'
<1>1. ASSUME NEW cap \in Areas, Register(cap) PROVE RInv'
  <2>1. AddRegion(cap) /\ Send(Reg(call'.id, cap)) /\ UNCHANGED bVars  BY <1>1 DEF Register
  <2>2. status # "freed"  BY <2>1 DEF AddRegion
  <2>3. CASE call'.err # "OK" /\ Mine' = Mine
    <3>1. chan' = chan  BY <2>1, <2>3 DEF Send
    <3>2. Theirs' = Theirs /\ b_call' = b_call /\ b_status' = b_status
      BY <2>1 DEF bVars, Theirs, Tab
    <3>3. status' # "freed"  BY <2>1, SendsReg
    <3>4. chan \in Seq(Command) /\ \E f : Joins(f, chan, Theirs, Mine)  BY <2>2 DEF RInv
    <3> QED  BY <2>3, <3>1, <3>2, <3>3, <3>4 DEF RInv
  <2>4. CASE /\ call'.err = "OK" /\ call'.id \in Nat
             /\ Registered(Mine, call'.id, ReceivedCap(Reg(call'.id, cap)), Mine')
    <3>1. PICK c : c = Reg(call'.id, cap)  OBVIOUS
    <3>4. Vaddr[cap] \in Nat /\ cap.len \in Nat  BY ReplicaAssumption, AreaAssumption
    <3>5. c \in Command  BY <2>4, <3>1, <3>4 DEF Command, Reg
    <3>6. c.cmd = "reg" /\ c.id = call'.id  BY <3>1 DEF Reg
    <3>2. c \in Command /\ Takes(Mine, c, Mine')
      BY <2>4, <3>1, <3>5, <3>6 DEF Takes
    <3>3. status' # "freed"  BY <2>1, SendsReg
    <3> QED  BY <2>1, <2>2, <2>4, <3>1, <3>2, <3>3, SendRInv
  <2> QED  BY <2>1, <2>3, <2>4, SendsReg
<1>2. ASSUME NEW id \in RemoveIds, Deregister(id) PROVE RInv'
  <2>1. RemoveRegion(id) /\ Send(Dereg(id)) /\ UNCHANGED bVars /\ id \in Nat
    BY <1>2, AreaAssumption DEF Deregister
  <2>2. status # "freed"  BY <2>1 DEF RemoveRegion
  <2>3. Dereg(id) \in Command  BY <2>1 DEF Command, Dereg
  <2>4. Deregistered(Mine, id, Mine') => Takes(Mine, Dereg(id), Mine')
    BY DEF Takes, Dereg
  <2> QED  BY <2>1, <2>2, <2>3, <2>4, SendsDereg, SendRInv
<1>3. CASE Apply
  <2>1. chan # << >> /\ chan' = Tail(chan) /\ chan \in Seq(Command) /\ UNCHANGED vars
    BY <1>3 DEF Apply, RInv
  <2>2. status # "freed" /\ status' = status /\ Mine' = Mine
    BY <2>1 DEF RInv, vars, Mine, Mirrored, Slots, Tab
  <2>3. \E f : Joins(f, chan, Theirs, Mine)  BY <2>2 DEF RInv
  <2>4. PICK V : Takes(Theirs, Head(chan), V) /\ \E f : Joins(f, Tail(chan), V, Mine)
    BY <2>1, <2>3, JoinTail
  <2>5. Theirs' = V /\ b_call'.err = "OK" /\ b_status' = "ok"
    BY <1>3, <2>4, AppliesReg, AppliesDereg DEF Apply, Takes
  <2>6. chan' \in Seq(Command)  BY <2>1
  <2> QED  BY <2>1, <2>2, <2>4, <2>5, <2>6 DEF RInv
<1>4. CASE EndSession
  <2>1. status' = "freed" /\ chan' = << >>  BY <1>4 DEF EndSession, Destroy
  <2>2. b_status' = "freed" /\ b_call'.err = "OK"
    BY <1>4 DEF EndSession, B!Destroy, B!Return
  <2> QED  BY <2>1, <2>2 DEF RInv
<1>5. CASE NewSession
  <2>1. status = "freed" /\ size' = InitPoolSize /\ num_regions' = 0
        /\ pool' = [i \in 0 .. InitPoolSize - 1 |-> NULL]
    BY <1>5 DEF NewSession, Create
  <2>2. /\ b_size' = InitPoolSize /\ b_num_regions' = 0 /\ b_status' = "ok"
        /\ b_pool' = [i \in 0 .. InitPoolSize - 1 |-> NULL] /\ b_call'.err = "OK"
    BY <1>5 DEF NewSession, B!Create, B!Return
  <2>3. chan' = << >>  BY <1>5, <2>1 DEF NewSession, RInv
  <2>6. Mirrored' = pool'  BY <2>1 DEF Mirrored, Slots
  <2>4. Mine' = Theirs'  BY <2>1, <2>2, <2>6 DEF Mine, Theirs, Tab
  <2>5. \E f : Joins(f, << >>, Theirs', Mine')  BY <2>4, JoinEmpty
  <2> QED  BY <2>2, <2>3, <2>5 DEF RInv
<1>6. CASE UNCHANGED replicaVars
  <2>1. /\ UNCHANGED <<chan, status, b_call, b_status>>
        /\ Mine' = Mine /\ Theirs' = Theirs
    BY <1>6 DEF replicaVars, vars, bVars, Mine, Mirrored, Slots, Theirs, Tab
  <2> QED  BY <2>1 DEF RInv
<1> QED  BY <1>1, <1>2, <1>3, <1>4, <1>5, <1>6 DEF ReplicaNext

(* A step of the two ends is, for the sender's pool alone, a call or       *)
(* nothing.                                                                *)
LEMMA ReplicaStepsPool ==
  [ReplicaNext]_replicaVars => [OwnNext]_vars /\ [Next]_vars
<1>1. [ReplicaNext]_replicaVars => [OwnNext]_vars
  BY DEF ReplicaNext, Register, Deregister, Apply, EndSession, NewSession, OwnNext, replicaVars
<1>2. [OwnNext]_vars => [Next]_vars  BY DEF OwnNext, Next
<1> QED  BY <1>1, <1>2

(* So what is proved of a pool holds of the sender's. *)
COROLLARY SenderIsAPool == ReplicaSpec => Spec
<1>1. ReplicaInit => Init  BY DEF ReplicaInit
<1> QED  BY <1>1, ReplicaStepsPool, PTL DEF ReplicaSpec, Spec

(* While no allocation fails, the pool at the receiving end follows the    *)
(* pool that assigns the ids: it refuses no command, faults on none, and   *)
(* has the same ids and lengths in the same slots once it has caught up,   *)
(* at the sender's virtual addresses, for any number of commands in        *)
(* flight, any areas wherever they are mapped, and any sequence of         *)
(* registrations, removals and doublings.                                  *)
THEOREM ReplicaAlwaysFollows ==
  ASSUME AllocMayFail = FALSE
  PROVE  ReplicaSpec => []ReplicaFollows
<1>1. ReplicaInit => IInv  BY InitIInv DEF ReplicaInit
<1>2. IInv /\ [ReplicaNext]_replicaVars => IInv'  BY NextIInv, ReplicaStepsPool
<1>5. ReplicaInit => DInv
  <2> SUFFICES ASSUME ReplicaInit PROVE DInv
    OBVIOUS
  <2>1. Occupied = {}  BY DEF ReplicaInit, Init, Occupied, Slots
  <2> QED  BY <2>1 DEF DInv, RegionsDisjoint, FromAreas
<1>6. IInv /\ DInv /\ [ReplicaNext]_replicaVars => DInv'  BY NextDInv, ReplicaStepsPool
<1>3. IInv /\ DInv /\ RInv /\ [ReplicaNext]_replicaVars => RInv'  BY NextRInv DEF DInv
<1>4. RInv => ReplicaFollows
  <2> SUFFICES ASSUME RInv PROVE ReplicaFollows
    OBVIOUS
  <2>1. b_call.err = "OK" /\ B!NoFault  BY DEF RInv, B!NoFault
  <2>2. ASSUME chan = << >>, status = "ok"
        PROVE  b_pool = Mirrored /\ b_size = size /\ b_num_regions = num_regions
    <3>1. PICK f : Joins(f, << >>, Theirs, Mine)  BY <2>2 DEF RInv
    <3>2. Theirs = Mine  BY <3>1 DEF Joins
    <3>3. Theirs.p = Mine.p /\ Theirs.n = Mine.n /\ Theirs.c = Mine.c  BY <3>2
    <3> QED  BY <3>3 DEF Theirs, Mine, Tab
  <2> QED  BY <2>1, <2>2 DEF ReplicaFollows
<1> QED  BY <1>1, <1>2, <1>3, <1>4, <1>5, <1>6, InitRInv, PTL DEF ReplicaSpec

(***************************************************************************)
(* The slab allocator.  The free list of a slab holds the slab's blocks    *)
(* that are nobody's home, each once; slabs are counted from the oldest,   *)
(* which a new one in front does not disturb.                              *)
(***************************************************************************)

Block    == [slab : Nat, place : Nat]
SlabType == [total : {BlocksPerSlab}, free : Nat, blocks : Seq(Block)]

BlocksIn(k) == {BlockOf(k, p) : p \in 1 .. BlocksPerSlab}

Homes(bl) == {bl[j] : j \in DOMAIN bl}

Listed(s, free) ==
  /\ s.free = Len(s.blocks) /\ IsInjective(s.blocks)
  /\ Range(s.blocks) = free

Allotted(ss, bl) ==
  /\ ss \in Seq(SlabType)
  /\ \A j \in DOMAIN bl : \E k \in 1 .. Len(ss) : bl[j] \in BlocksIn(k)
  /\ \A j, k \in DOMAIN bl : j # k => bl[j] # bl[k]
  /\ \A i \in 1 .. Len(ss) : Listed(ss[i], BlocksIn(Len(ss) + 1 - i) \ Homes(bl))

AllocInv == DOMAIN block = {r.id : r \in Live} /\ Allotted(slabs, block)

(* A set of numbers that is not empty has a least one. *)
LEMMA LeastOf ==
  ASSUME NEW T, T \subseteq Nat, T # {}
  PROVE  Min(T) \in T
<1>1. \E x \in T : \A y \in T : ~(<<y, x>> \in OpToRel(<, Nat))
  BY NatLessThanWellFounded, WFMin
<1>2. PICK x \in T : \A y \in T : ~(<<y, x>> \in OpToRel(<, Nat))  BY <1>1
<1>3. ASSUME NEW y \in T PROVE x <= y
  <2>1. x \in Nat /\ y \in Nat  OBVIOUS
  <2>2. y < x => <<y, x>> \in OpToRel(<, Nat)  BY <2>1 DEF OpToRel
  <2>3. ~(y < x)  BY <1>2, <2>2, Zenon
  <2> QED  BY <2>1, <2>3
<1> QED  BY <1>3 DEF Min

(* Slabs have blocks of their own. *)
LEMMA BlocksApart ==
  ASSUME NEW k \in Nat, NEW m \in Nat, NEW b \in BlocksIn(k)
  PROVE  b \in Block /\ b.slab = k /\ (b \in BlocksIn(m) => k = m)
BY SlabAssumption DEF BlocksIn, BlockOf, Block

(* Taking the first block off a list takes it out of the list. *)
LEMMA TailList ==
  ASSUME NEW S, NEW s \in Seq(S), IsInjective(s), Len(s) # 0
  PROVE  /\ Head(s) \in Range(s) /\ Tail(s) \in Seq(S) /\ Len(Tail(s)) = Len(s) - 1
         /\ IsInjective(Tail(s)) /\ Range(Tail(s)) = Range(s) \ {Head(s)}
<1>1. /\ DOMAIN s = 1 .. Len(s) /\ Len(s) \in Nat
      /\ Tail(s) \in Seq(S) /\ Len(Tail(s)) = Len(s) - 1 /\ Head(s) = s[1]
      /\ DOMAIN Tail(s) = 1 .. Len(s) - 1
      /\ \A x \in 1 .. Len(s) - 1 : Tail(s)[x] = s[x + 1]
  OBVIOUS
<1>2. IsInjective(Tail(s))  BY <1>1 DEF IsInjective
<1>3. ASSUME NEW x \in Range(s), x # Head(s) PROVE x \in Range(Tail(s))
  <2>1. PICK i \in 1 .. Len(s) : x = s[i]  BY <1>1, <1>3 DEF Range
  <2>2. i - 1 \in 1 .. Len(s) - 1 /\ (i - 1) + 1 = i  BY <1>1, <1>3, <2>1
  <2>3. x = Tail(s)[i - 1]  BY <1>1, <2>1, <2>2
  <2> QED  BY <1>1, <2>2, <2>3 DEF Range
<1>4. ASSUME NEW x \in Range(Tail(s)) PROVE x \in Range(s) /\ x # Head(s)
  <2>1. PICK i \in 1 .. Len(s) - 1 : x = s[i + 1]  BY <1>1, <1>4 DEF Range
  <2>2. i + 1 \in 1 .. Len(s) /\ i + 1 # 1 /\ 1 \in 1 .. Len(s)  BY <1>1
  <2> QED  BY <1>1, <2>1, <2>2 DEF Range, IsInjective
<1>5. Head(s) \in Range(s)  BY <1>1 DEF Range
<1> QED  BY <1>1, <1>2, <1>3, <1>4, <1>5

(* Putting a new block in front of a list adds it to the list. *)
LEMMA PushList ==
  ASSUME NEW S, NEW s \in Seq(S), IsInjective(s), NEW b \in S, b \notin Range(s)
  PROVE  /\ <<b>> \o s \in Seq(S) /\ Len(<<b>> \o s) = Len(s) + 1
         /\ IsInjective(<<b>> \o s) /\ Range(<<b>> \o s) = Range(s) \union {b}
<1> DEFINE t == <<b>> \o s
<1>1. /\ DOMAIN s = 1 .. Len(s) /\ Len(s) \in Nat
      /\ t \in Seq(S) /\ Len(t) = Len(s) + 1
      /\ DOMAIN t = 1 .. Len(s) + 1 /\ t[1] = b
      /\ \A x \in 1 .. Len(s) : t[x + 1] = s[x]
  OBVIOUS
<1> HIDE DEF t
<1>2. \A x \in 1 .. Len(s) + 1 : x = 1 \/ (x - 1 \in 1 .. Len(s) /\ t[x] = s[x - 1])  BY <1>1
<1>3. ASSUME NEW x \in DOMAIN t, NEW y \in DOMAIN t, t[x] = t[y] PROVE x = y
  <2>1. \A z \in 1 .. Len(s) : s[z] # b  BY <1>1 DEF Range
  <2>2. CASE x = 1 \/ y = 1  BY <1>1, <1>2, <1>3, <2>1, <2>2
  <2>3. CASE x # 1 /\ y # 1
    <3>1. /\ x - 1 \in 1 .. Len(s) /\ y - 1 \in 1 .. Len(s)
          /\ s[x - 1] = s[y - 1]
      BY <1>1, <1>2, <1>3, <2>3
    <3>2. x - 1 = y - 1  BY <1>1, <3>1 DEF IsInjective
    <3> QED  BY <1>1, <1>3, <3>2
  <2> QED  BY <2>2, <2>3
<1>4. ASSUME NEW x \in Range(t) PROVE x \in Range(s) \union {b}
  <2>1. PICK i \in 1 .. Len(s) + 1 : x = t[i]  BY <1>1 DEF Range
  <2>2. CASE i = 1  BY <1>1, <2>1, <2>2
  <2>3. CASE i # 1
    <3>1. i - 1 \in 1 .. Len(s) /\ x = s[i - 1]  BY <1>2, <2>1, <2>3
    <3> QED  BY <1>1, <3>1 DEF Range
  <2> QED  BY <2>2, <2>3
<1>5. ASSUME NEW x \in Range(s) PROVE x \in Range(t)
  <2>1. PICK i \in 1 .. Len(s) : x = s[i]  BY <1>1 DEF Range
  <2>2. i + 1 \in 1 .. Len(s) + 1 /\ t[i + 1] = x  BY <1>1, <2>1
  <2> QED  BY <1>1, <2>2 DEF Range
<1>6. b \in Range(t)  BY <1>1 DEF Range
<1>7. IsInjective(t)  BY <1>3, Zenon DEF IsInjective
<1> QED  BY <1>1, <1>4, <1>5, <1>6, <1>7 DEF t

(* A new slab in front, all of it free. *)
LEMMA RefillAllotted ==
  ASSUME NEW ss, NEW bl, Allotted(ss, bl)
  PROVE  LET ts == <<NewSlab(Len(ss) + 1)>> \o ss
         IN  Allotted(ts, bl) /\ ts[1].free # 0 /\ Len(ts) = Len(ss) + 1
<1> DEFINE k  == Len(ss) + 1
           ts == <<NewSlab(k)>> \o ss
<1>1. ss \in Seq(SlabType) /\ Len(ss) \in Nat /\ k \in Nat /\ BlocksPerSlab \in Nat \ {0}
  BY SlabAssumption DEF Allotted
<1>2. NewSlab(k) \in SlabType /\ NewSlab(k).free = BlocksPerSlab
  BY <1>1 DEF NewSlab, SlabType, BlockOf, Block
<1>3. Listed(NewSlab(k), BlocksIn(k))
  <2>1. /\ NewSlab(k).blocks = [i \in 1 .. BlocksPerSlab |-> BlockOf(k, i)]
        /\ NewSlab(k).free = BlocksPerSlab
    BY DEF NewSlab
  <2>2. Len(NewSlab(k).blocks) = BlocksPerSlab  BY <1>1, <2>1
  <2>3. \A a, b \in 1 .. BlocksPerSlab : BlockOf(k, a) = BlockOf(k, b) => a = b
    <3> SUFFICES ASSUME NEW a \in 1 .. BlocksPerSlab, NEW b \in 1 .. BlocksPerSlab,
                        BlockOf(k, a) = BlockOf(k, b)
                 PROVE  a = b
      OBVIOUS
    <3>1. BlockOf(k, a).place = a /\ BlockOf(k, b).place = b  BY DEF BlockOf
    <3> QED  BY <3>1
  <2>4. IsInjective([i \in 1 .. BlocksPerSlab |-> BlockOf(k, i)])
    BY <2>3, Zenon DEF IsInjective
  <2>5. Range(NewSlab(k).blocks) = BlocksIn(k)  BY <2>1 DEF Range, BlocksIn
  <2> QED  BY <2>1, <2>2, <2>4, <2>5 DEF Listed
<1> HIDE DEF k
<1>4. /\ ts \in Seq(SlabType) /\ Len(ts) = Len(ss) + 1 /\ ts[1] = NewSlab(k)
      /\ \A i \in 1 .. Len(ss) : ts[i + 1] = ss[i]
  BY <1>1, <1>2
<1> HIDE DEF ts
<1>5. BlocksIn(k) \ Homes(bl) = BlocksIn(k)
  <2> SUFFICES ASSUME NEW j \in DOMAIN bl, bl[j] \in BlocksIn(k) PROVE FALSE
    BY DEF Homes
  <2>1. PICK m \in 1 .. Len(ss) : bl[j] \in BlocksIn(m)  BY DEF Allotted
  <2>2. m \in Nat /\ m # k  BY <1>1, <2>1 DEF k
  <2> QED  BY <1>1, <2>1, <2>2, BlocksApart
<1>6. \A j \in DOMAIN bl : \E m \in 1 .. Len(ts) : bl[j] \in BlocksIn(m)
  <2>1. 1 .. Len(ss) \subseteq 1 .. Len(ts)  BY <1>1, <1>4
  <2> QED  BY <2>1 DEF Allotted
<1>7. ASSUME NEW i \in 1 .. Len(ts)
      PROVE  Listed(ts[i], BlocksIn(Len(ts) + 1 - i) \ Homes(bl))
  <2>1. CASE i = 1
    <3>1. Len(ts) + 1 - i = k  BY <1>1, <1>4, <2>1 DEF k
    <3> QED  BY <1>3, <1>4, <1>5, <2>1, <3>1
  <2>2. CASE i # 1
    <3>1. /\ i - 1 \in 1 .. Len(ss) /\ (i - 1) + 1 = i
          /\ Len(ts) + 1 - i = Len(ss) + 1 - (i - 1)
      BY <1>1, <1>4, <2>2
    <3>2. ts[i] = ss[i - 1]  BY <1>4, <3>1
    <3> QED  BY <3>1, <3>2 DEF Allotted
  <2> QED  BY <2>1, <2>2
<1>8. Allotted(ts, bl)  BY <1>4, <1>6, <1>7 DEF Allotted
<1> QED  BY <1>1, <1>2, <1>4, <1>8 DEF ts, k

(* Replacing the free list of one slab, and what is whose home in it.      *)
LEMMA ReplaceAllotted ==
  ASSUME NEW ss, NEW bl, Allotted(ss, bl), NEW i \in 1 .. Len(ss), NEW s \in SlabType,
         NEW cl, NEW b \in BlocksIn(Len(ss) + 1 - i),
         Homes(cl) \union {b} = Homes(bl) \union {b},
         Listed(s, BlocksIn(Len(ss) + 1 - i) \ Homes(cl)),
         \A j, k \in DOMAIN cl : j # k => cl[j] # cl[k]
  PROVE  Allotted([ss EXCEPT ![i] = s], cl)
<1> DEFINE ts == [ss EXCEPT ![i] = s]
<1>1. ss \in Seq(SlabType) /\ Len(ss) \in Nat /\ DOMAIN ss = 1 .. Len(ss)  BY DEF Allotted
<1>2. /\ ts \in Seq(SlabType) /\ Len(ts) = Len(ss) /\ ts[i] = s
      /\ \A x \in 1 .. Len(ss) : x # i => ts[x] = ss[x]
  BY <1>1
<1> HIDE DEF ts
<1>3. Len(ss) + 1 - i \in 1 .. Len(ss)  BY <1>1
<1>4. \A c \in Homes(bl) \union {b} : \E k \in 1 .. Len(ss) : c \in BlocksIn(k)
  BY <1>3 DEF Allotted, Homes
<1>5. \A j \in DOMAIN cl : \E k \in 1 .. Len(ts) : cl[j] \in BlocksIn(k)
  <2>1. \A j \in DOMAIN cl : cl[j] \in Homes(bl) \union {b}  BY DEF Homes
  <2> QED  BY <1>2, <1>4, <2>1
<1>6. ASSUME NEW x \in 1 .. Len(ss)
      PROVE  Listed(ts[x], BlocksIn(Len(ss) + 1 - x) \ Homes(cl))
  <2>1. CASE x = i  BY <1>2, <2>1
  <2>2. CASE x # i
    <3>1. Len(ss) + 1 - x \in Nat /\ Len(ss) + 1 - i \in Nat /\ Len(ss) + 1 - x # Len(ss) + 1 - i
      BY <1>1, <2>2
    <3>2. b \notin BlocksIn(Len(ss) + 1 - x)  BY <3>1, BlocksApart
    <3>3. BlocksIn(Len(ss) + 1 - x) \ Homes(cl) = BlocksIn(Len(ss) + 1 - x) \ Homes(bl)
      BY <3>2
    <3> QED  BY <1>2, <2>2, <3>3 DEF Allotted
  <2> QED  BY <2>1, <2>2
<1> QED  BY <1>2, <1>5, <1>6 DEF Allotted, ts

(* Storing the list and the count of a slab. *)
LEMMA SetTwoFields ==
  ASSUME NEW ss \in Seq(SlabType), NEW i \in DOMAIN ss, ss[i] \in SlabType, NEW f, NEW q
  PROVE  [ss EXCEPT ![i].blocks = q, ![i].free = f]
           = [ss EXCEPT ![i] = [total |-> BlocksPerSlab, free |-> f, blocks |-> q]]
<1> DEFINE r == [ss[i] EXCEPT !.blocks = q]
           m == [ss EXCEPT ![i] = r]
<1>1. r = [total |-> BlocksPerSlab, free |-> ss[i].free, blocks |-> q]  BY SMTT(40) DEF SlabType
<1>2. m[i] = r  OBVIOUS
<1> HIDE DEF r
<1>3. [r EXCEPT !.free = f] = [total |-> BlocksPerSlab, free |-> f, blocks |-> q]  BY <1>1
<1>4. [m EXCEPT ![i] = [m[i] EXCEPT !.free = f]] = [m EXCEPT ![i] = [r EXCEPT !.free = f]]
  BY <1>2
<1>5. \A v : [m EXCEPT ![i] = v] = [ss EXCEPT ![i] = v]  OBVIOUS
<1> HIDE DEF m
<1>6. [m EXCEPT ![i] = [m[i] EXCEPT !.free = f]]
        = [ss EXCEPT ![i] = [total |-> BlocksPerSlab, free |-> f, blocks |-> q]]
  BY <1>3, <1>4, <1>5, Zenon
<1> QED  BY <1>6 DEF m, r

(* The slabs after the first block of slab i was taken, and the homes      *)
(* after id moved into it.                                                 *)
Taken(ss, i) == [ss EXCEPT ![i].blocks = Tail(@), ![i].free = @ - 1]

Housed(ss, i, bl, id) ==
  [j \in DOMAIN bl \union {id} |-> IF j = id THEN Head(ss[i].blocks) ELSE bl[j]]

(* slab_alloc gives a region without a home a free block. *)
LEMMA TakeAllotted ==
  ASSUME NEW ss, NEW bl, Allotted(ss, bl), NEW i \in 1 .. Len(ss), ss[i].free # 0,
         NEW id, id \notin DOMAIN bl
  PROVE  Allotted(Taken(ss, i), Housed(ss, i, bl, id))
<1> DEFINE h  == Head(ss[i].blocks)
           s  == [total |-> BlocksPerSlab, free |-> ss[i].free - 1, blocks |-> Tail(ss[i].blocks)]
           cl == [j \in DOMAIN bl \union {id} |-> IF j = id THEN h ELSE bl[j]]
           ts == [ss EXCEPT ![i].blocks = Tail(@), ![i].free = @ - 1]
           in == BlocksIn(Len(ss) + 1 - i)
<1>1. /\ ss \in Seq(SlabType) /\ DOMAIN ss = 1 .. Len(ss) /\ ss[i] \in SlabType
      /\ Listed(ss[i], in \ Homes(bl))
  <2>1. ss \in Seq(SlabType) /\ DOMAIN ss = 1 .. Len(ss)  BY DEF Allotted
  <2> QED  BY <2>1 DEF Allotted
<1>2. /\ ss[i].blocks \in Seq(Block) /\ IsInjective(ss[i].blocks)
      /\ Len(ss[i].blocks) # 0 /\ Len(ss[i].blocks) \in Nat /\ ss[i].free = Len(ss[i].blocks)
      /\ Range(ss[i].blocks) = in \ Homes(bl)
  BY <1>1 DEF Listed, SlabType
<1>3. /\ h \in in \ Homes(bl) /\ Tail(ss[i].blocks) \in Seq(Block)
      /\ Len(Tail(ss[i].blocks)) = ss[i].free - 1 /\ IsInjective(Tail(ss[i].blocks))
      /\ Range(Tail(ss[i].blocks)) = (in \ Homes(bl)) \ {h}
  BY <1>2, TailList
<1>4. s \in SlabType  BY <1>2, <1>3 DEF SlabType
<1>5. ts = [ss EXCEPT ![i] = s]
  <2>1. ss \in Seq(SlabType) /\ i \in DOMAIN ss /\ ss[i] \in SlabType  BY <1>1
  <2>2. \A f, q : [ss EXCEPT ![i].blocks = q, ![i].free = f]
                    = [ss EXCEPT ![i] = [total |-> BlocksPerSlab, free |-> f, blocks |-> q]]
    BY <2>1, SetTwoFields, Zenon
  <2> QED  BY <2>2, Zenon
<1> HIDE DEF h, ts, in
<1>6. Homes(cl) = Homes(bl) \union {h}
  <2>1. \A j \in DOMAIN bl : cl[j] = bl[j]  OBVIOUS
  <2> QED  BY <2>1 DEF Homes
<1>7. Listed(s, in \ Homes(cl))  BY <1>3, <1>6 DEF Listed
<1>8. \A j, k \in DOMAIN cl : j # k => cl[j] # cl[k]
  BY <1>3 DEF Homes, Allotted
<1> HIDE DEF s, cl
<1>9. Allotted([ss EXCEPT ![i] = s], cl)
  BY <1>3, <1>4, <1>6, <1>7, <1>8, ReplaceAllotted DEF in
<1> QED  BY <1>5, <1>9 DEF ts, cl, h, Taken, Housed

(* slab_free puts the block back on the list of its slab. *)
LEMMA GiveAllotted ==
  ASSUME NEW ss, NEW bl, Allotted(ss, bl), NEW id \in DOMAIN bl,
         NEW i \in 1 .. Len(ss), bl[id] \in BlocksIn(Len(ss) + 1 - i)
  PROVE  Allotted([ss EXCEPT ![i].blocks = <<bl[id]>> \o @, ![i].free = @ + 1],
                  [j \in DOMAIN bl \ {id} |-> bl[j]])
<1> DEFINE b  == bl[id]
           s  == [total |-> BlocksPerSlab, free |-> ss[i].free + 1, blocks |-> <<b>> \o ss[i].blocks]
           cl == [j \in DOMAIN bl \ {id} |-> bl[j]]
           ts == [ss EXCEPT ![i].blocks = <<b>> \o @, ![i].free = @ + 1]
           in == BlocksIn(Len(ss) + 1 - i)
<1>1. ss \in Seq(SlabType) /\ DOMAIN ss = 1 .. Len(ss) /\ Len(ss) \in Nat  BY DEF Allotted
<1>2. ss[i] \in SlabType  BY <1>1
<1>3. b \in Block
  <2>1. Len(ss) + 1 - i \in Nat  BY <1>1
  <2> QED  BY <2>1, BlocksApart
<1>4. i \in DOMAIN ss  BY <1>1
<1>5. ss[i] \in SlabType /\ Listed(ss[i], in \ Homes(bl)) /\ b \in in
  BY <1>2 DEF Allotted
<1>6. /\ ss[i].blocks \in Seq(Block) /\ IsInjective(ss[i].blocks)
      /\ ss[i].free = Len(ss[i].blocks) /\ ss[i].free \in Nat
      /\ Range(ss[i].blocks) = in \ Homes(bl)
  BY <1>5 DEF Listed, SlabType
<1>7. b \in Homes(bl)  BY DEF Homes
<1>8. /\ <<b>> \o ss[i].blocks \in Seq(Block)
      /\ Len(<<b>> \o ss[i].blocks) = ss[i].free + 1 /\ IsInjective(<<b>> \o ss[i].blocks)
      /\ Range(<<b>> \o ss[i].blocks) = (in \ Homes(bl)) \union {b}
  BY <1>3, <1>6, <1>7, PushList
<1>9. s \in SlabType  BY <1>6, <1>8 DEF SlabType
<1>10. ts = [ss EXCEPT ![i] = s]
  <2>1. ss \in Seq(SlabType) /\ i \in DOMAIN ss /\ ss[i] \in SlabType  BY <1>1, <1>4, <1>5
  <2>2. \A f, q : [ss EXCEPT ![i].blocks = q, ![i].free = f]
                    = [ss EXCEPT ![i] = [total |-> BlocksPerSlab, free |-> f, blocks |-> q]]
    BY <2>1, SetTwoFields, Zenon
  <2> QED  BY <2>2, Zenon
<1> HIDE DEF ts, in
<1>11. Homes(cl) = Homes(bl) \ {b}
  BY DEF Homes, Allotted
<1>12. Listed(s, in \ Homes(cl))
  <2>1. in \ Homes(cl) = (in \ Homes(bl)) \union {b}  BY <1>5, <1>11
  <2> QED  BY <1>8, <2>1 DEF Listed
<1>13. \A j, m \in DOMAIN cl : j # m => cl[j] # cl[m]  BY DEF Allotted
<1> HIDE DEF s, cl, b
<1>14. Homes(cl) \union {b} = Homes(bl) \union {b}  BY <1>11
<1>15. Allotted([ss EXCEPT ![i] = s], cl)
  BY <1>4, <1>5, <1>9, <1>12, <1>13, <1>14, ReplaceAllotted DEF in
<1> QED  BY <1>10, <1>15 DEF ts, cl, b

(* The set of occupants is the set of live regions, whose ids differ. *)
LEMMA LiveOccupants ==
  ASSUME IInv
  PROVE  /\ Occupants(pool) = Live
         /\ \A q, r \in Live : q.id = r.id => q = r
<1>1. DOMAIN pool = Slots  BY DEF IInv, TypeOK
<1>2. Occupants(pool) = Live  BY <1>1 DEF Occupants, Live, Occupied
<1>3. \A i, j \in Slots : pool[i] # NULL /\ pool[j] # NULL /\ pool[i].id = pool[j].id => i = j
  BY DEF IInv, LiveIdsResolve
<1>4. \A q, r \in Live : q.id = r.id => q = r  BY <1>3 DEF Live, Occupied
<1> QED  BY <1>2, <1>4

(* An add puts at most one region into the table. *)
LEMMA AddAddsOne ==
  ASSUME IInv, ~GrowFaults, size' = Size1,
         \/ pool' = Pool1
         \/ \E id \in Nat : /\ Pool1[id % Size1] = NULL
                            /\ \E v : pool' = [Pool1 EXCEPT ![id % Size1] = v]
  PROVE  Live \subseteq Live' /\ \E v : Live' \subseteq Live \union {v}
<1>1. Live \subseteq Live'  BY AddKeepsLive
<1>2. DOMAIN Pool1 = 0 .. Size1 - 1 /\ Live = {Pool1[j] : j \in OccupiedIn(Pool1, Size1)}
  BY TableOfAnAdd, TableOfAnAddLive
<1>3. PICK v : \A j \in 0 .. Size1 - 1 : pool'[j] = Pool1[j] \/ pool'[j] = v
  BY <1>2
<1>4. ASSUME NEW r \in Live' PROVE r \in Live \union {v}
  <2>1. PICK j \in 0 .. Size1 - 1 : pool'[j] # NULL /\ r = pool'[j]
    BY DEF Live, Occupied, Slots
  <2> QED  BY <1>2, <1>3, <2>1 DEF OccupiedIn
<1> QED  BY <1>1, <1>4

(* What the calls do to the set of live regions. *)
LEMMA CallsAndLive ==
  ASSUME IInv
  PROVE  /\ \A cap \in Areas :
              AddRegion(cap) => Live \subseteq Live' /\ \E v : Live' \subseteq Live \union {v}
         /\ \A cap \in Areas, id \in AddIds :
              AddRegionWithId(cap, id) => Live \subseteq Live' /\ \E v : Live' \subseteq Live \union {v}
         /\ \A id \in RemoveIds :
              RemoveRegion(id) => Live' \subseteq Live /\ \E v : Live \subseteq Live' \union {v}
<1>1. ASSUME NEW cap \in Areas, AddRegion(cap)
      PROVE  Live \subseteq Live' /\ \E v : Live' \subseteq Live \union {v}
  <2>1. CASE pool' = pool /\ size' = size  BY <2>1 DEF Live, Occupied, Slots
  <2>2. ASSUME ~GrowFaults, NEW d \in 0 .. Size1 - 1, FirstFree(d), size' = Size1,
               \/ pool' = [Pool1 EXCEPT ![ProbeId(d) % Size1] = NewRegion(ProbeId(d), cap)]
               \/ pool' = Pool1
        PROVE  Live \subseteq Live' /\ \E v : Live' \subseteq Live \union {v}
    <3>1. U16 \in Nat \ {0} /\ LastOffset1 + d \in Nat  BY <2>2, TableOfAnAdd, PoolAssumption
    <3>2. ProbeOffset(d) \in 0 .. U16 - 1  BY <3>1, ModRange DEF ProbeOffset
    <3>3. ProbeId(d) \in Nat  BY <3>2 DEF ProbeId, IInv, TypeOK
    <3>4. Pool1[ProbeId(d) % Size1] = NULL  BY <2>2 DEF FirstFree, ProbeFree
    <3> QED  BY <2>2, <3>3, <3>4, AddAddsOne
  <2> QED  BY <1>1, <2>1, <2>2 DEF AddRegion, GrowFails, GrowCrashes, poolVars
<1>2. ASSUME NEW cap \in Areas, NEW id \in AddIds, AddRegionWithId(cap, id)
      PROVE  Live \subseteq Live' /\ \E v : Live' \subseteq Live \union {v}
  <2>1. CASE pool' = pool /\ size' = size  BY <2>1 DEF Live, Occupied, Slots
  <2>2. ASSUME ~GrowFaults, size' = Size1,
               \/ pool' = Pool1
               \/ /\ Pool1[id % Size1] = NULL
                  /\ pool' = [Pool1 EXCEPT ![id % Size1] = NewRegion(id, cap)]
        PROVE  Live \subseteq Live' /\ \E v : Live' \subseteq Live \union {v}
    <3>1. id \in Nat  BY AreaAssumption
    <3> QED  BY <2>2, <3>1, AddAddsOne
  <2> QED
    BY <1>2, <2>1, <2>2
    DEF AddRegionWithId, GrowFails, GrowCrashes, poolVars, RefuseTaken, StoreWithId, SlotTaken
<1>3. ASSUME NEW id \in RemoveIds, RemoveRegion(id)
      PROVE  Live' \subseteq Live /\ \E v : Live \subseteq Live' \union {v}
  <2>1. id \in Nat  BY AreaAssumption
  <2>2. CASE pool' = pool /\ size' = size  BY <2>2 DEF Live, Occupied, Slots
  <2>3. CASE /\ Lookup(id) # NULL
             /\ pool' = [pool EXCEPT ![id % size] = NULL]
             /\ size' = size
    BY <2>1, <2>3, RemoveTakesOne
  <2> QED  BY <1>3, <2>2, <2>3 DEF RemoveRegion, poolVars
<1> QED  BY <1>1, <1>2, <1>3

(* The next slab with a free block, once there is one. *)
LEMMA FirstWithFree ==
  ASSUME NEW ss \in Seq(SlabType), \E i \in 1 .. Len(ss) : ss[i].free # 0
  PROVE  LET i == SelectInSeq(ss, LAMBDA s : s.free # 0)
         IN  i \in 1 .. Len(ss) /\ ss[i].free # 0
<1> DEFINE T == {i \in 1 .. Len(ss) : ss[i].free # 0}
<1>1. T \subseteq Nat /\ T # {}  OBVIOUS
<1>2. Min(T) \in T  BY <1>1, LeastOf
<1>3. SelectInSeq(ss, LAMBDA s : s.free # 0) = Min(T)  BY <1>1 DEF SelectInSeq
<1> QED  BY <1>2, <1>3

(* slab_alloc, with a refill if no slab has a free block. *)
LEMMA AllocAllotted ==
  ASSUME Allotted(slabs, block), NEW id, id \notin DOMAIN block, SlabAlloc(id)
  PROVE  Allotted(slabs', block') /\ DOMAIN block' = DOMAIN block \union {id}
<1> DEFINE ss == SlabsToAllocFrom
           i  == SelectInSeq(ss, LAMBDA s : s.free # 0)
<1>1. slabs \in Seq(SlabType) /\ DOMAIN slabs = 1 .. Len(slabs)  BY DEF Allotted
<1>2. Allotted(ss, block) /\ \E n \in 1 .. Len(ss) : ss[n].free # 0
  <2>1. CASE MustRefill
    <3>1. ss = <<NewSlab(Len(slabs) + 1)>> \o slabs  BY <2>1 DEF SlabsToAllocFrom
    <3>2. Allotted(ss, block) /\ ss[1].free # 0 /\ Len(ss) = Len(slabs) + 1
      BY <3>1, RefillAllotted
    <3>3. 1 \in 1 .. Len(ss)  BY <1>1, <3>2
    <3> QED  BY <3>2, <3>3
  <2>2. CASE ~MustRefill
    <3>1. ss = slabs  BY <2>2 DEF SlabsToAllocFrom
    <3> QED  BY <1>1, <2>2, <3>1 DEF MustRefill, HasFree
  <2> QED  BY <2>1, <2>2
<1>3. block' = Housed(ss, i, block, id) /\ slabs' = Taken(ss, i)
  BY DEF SlabAlloc, Housed, Taken
<1> HIDE DEF ss
<1>4. ss \in Seq(SlabType)  BY <1>2 DEF Allotted
<1>5. i \in 1 .. Len(ss) /\ ss[i].free # 0  BY <1>2, <1>4, FirstWithFree
<1> HIDE DEF i
<1>6. Allotted(Taken(ss, i), Housed(ss, i, block, id))  BY <1>2, <1>5, TakeAllotted
<1>7. DOMAIN Housed(ss, i, block, id) = DOMAIN block \union {id}  BY DEF Housed
<1> QED  BY <1>3, <1>6, <1>7

(* slab_free. *)
LEMMA FreeAllotted ==
  ASSUME Allotted(slabs, block), NEW id \in DOMAIN block, SlabFree(id)
  PROVE  Allotted(slabs', block') /\ DOMAIN block' = DOMAIN block \ {id}
<1> DEFINE i == SlabHolding(block[id])
<1>1. /\ block' = [j \in DOMAIN block \ {id} |-> block[j]]
      /\ slabs' = [slabs EXCEPT ![i].blocks = <<block[id]>> \o @, ![i].free = @ + 1]
  BY DEF SlabFree
<1>2. i \in 1 .. Len(slabs) /\ block[id] \in BlocksIn(Len(slabs) + 1 - i)
  <2>1. PICK k \in 1 .. Len(slabs) : block[id] \in BlocksIn(k)  BY DEF Allotted
  <2>2. block[id].slab = k  BY <2>1, BlocksApart
  <2>3. Len(slabs) \in Nat  BY DEF Allotted
  <2>4. i \in 1 .. Len(slabs) /\ Len(slabs) + 1 - i = k  BY <2>2, <2>3 DEF SlabHolding
  <2> QED  BY <2>1, <2>4
<1> HIDE DEF i
<1>3. Allotted([slabs EXCEPT ![i].blocks = <<block[id]>> \o @, ![i].free = @ + 1],
               [j \in DOMAIN block \ {id} |-> block[j]])
  BY <1>2, GiveAllotted, Zenon
<1> QED  BY <1>1, <1>3

(* Every call keeps the free lists and the homes of the regions apart. *)
LEMMA NextAllocInv ==
  ASSUME IInv, IInv', FreedIsEmpty, AllocInv, [SlabNext]_<<vars, slabVars>>
  PROVE  AllocInv'
<1> USE DEF AllocInv
<1>1. /\ Occupants(pool) = Live /\ \A q, r \in Live : q.id = r.id => q = r
      /\ Occupants(pool') = Live' /\ \A q, r \in Live' : q.id = r.id => q = r
  <2>1. (Occupants(pool) = Live /\ \A q, r \in Live : q.id = r.id => q = r)'
    BY LiveOccupants, PTL
  <2> QED  BY <2>1, LiveOccupants DEF Occupants
<1>2. Added = Live' \ Live /\ Removed = Live \ Live'  BY <1>1 DEF Added, Removed
<1>3. ASSUME AddAllocates, Live \subseteq Live', \E v : Live' \subseteq Live \union {v}
      PROVE  AllocInv'
  <2>1. ASSUME NEW r \in Added, SlabAlloc(r.id) PROVE AllocInv'
    <3>1. r.id \notin DOMAIN block /\ Live' = Live \union {r}  BY <1>1, <1>2, <1>3, <2>1
    <3>2. Allotted(slabs', block') /\ DOMAIN block' = DOMAIN block \union {r.id}
      BY <2>1, <3>1, AllocAllotted
    <3> QED  BY <3>1, <3>2 DEF Allotted
  <2>2. CASE Added = {} /\ UNCHANGED slabVars
    <3>1. Live' = Live  BY <1>2, <1>3, <2>2
    <3> QED  BY <2>2, <3>1 DEF slabVars, Allotted
  <2> QED  BY <1>3, <2>1, <2>2 DEF AddAllocates
<1>4. ASSUME Live' \subseteq Live, \E v : Live \subseteq Live' \union {v},
             NEW r \in Removed, SlabFree(r.id)
      PROVE  AllocInv'
  <2>1. r.id \in DOMAIN block /\ Live' = Live \ {r}  BY <1>2, <1>4
  <2>2. Allotted(slabs', block') /\ DOMAIN block' = DOMAIN block \ {r.id}
    BY <1>4, <2>1, FreeAllotted
  <2>3. {q.id : q \in Live'} = {q.id : q \in Live} \ {r.id}  BY <1>1, <1>2, <1>4, <2>1
  <2> QED  BY <2>2, <2>3 DEF Allotted
<1>5. ASSUME Live' = Live, UNCHANGED slabVars PROVE AllocInv'
  BY <1>5 DEF slabVars, Allotted
<1>6. ASSUME NEW cap \in Areas, AddRegion(cap), AddAllocates PROVE AllocInv'
  BY <1>3, <1>6, CallsAndLive
<1>7. ASSUME NEW cap \in Areas, NEW id \in AddIds, AddRegionWithId(cap, id), AddAllocates
      PROVE  AllocInv'
  BY <1>3, <1>7, CallsAndLive
<1>8. ASSUME NEW id \in RemoveIds, RemoveRegion(id),
             \/ \E r \in Removed : SlabFree(r.id)
             \/ Removed = {} /\ UNCHANGED slabVars
      PROVE  AllocInv'
  <2>1. Live' \subseteq Live /\ \E v : Live \subseteq Live' \union {v}  BY <1>8, CallsAndLive
  <2>2. CASE Removed = {} /\ UNCHANGED slabVars  BY <1>2, <1>5, <2>1, <2>2
  <2> QED  BY <1>4, <1>8, <2>1, <2>2
<1>9. CASE Destroy /\ slabs' = << >> /\ block' = << >>
  <2>1. Live' = {}  BY <1>9, DestroyIInv DEF Live
  <2> QED  BY <1>9, <2>1 DEF Allotted, Homes
<1>10. CASE Create /\ UNCHANGED slabVars
  <2>1. Live = {} /\ Live' = {}
    BY <1>10 DEF Create, FreedIsEmpty, Live, Occupied, Slots, poolVars
  <2> QED  BY <1>5, <1>10, <2>1
<1>11. CASE UNCHANGED <<vars, slabVars>>
  BY <1>5, <1>11 DEF vars, Live, Occupied, Slots
<1> QED  BY <1>6, <1>7, <1>8, <1>9, <1>10, <1>11 DEF SlabNext

(* What the invariant says of the slabs one by one. *)
LEMMA AllottedConserved == AllocInv => BlocksConserved
<1> SUFFICES ASSUME AllocInv PROVE BlocksConserved
  OBVIOUS
<1>1. slabs \in Seq(SlabType) /\ DOMAIN slabs = 1 .. Len(slabs) /\ Len(slabs) \in Nat
  BY DEF AllocInv, Allotted
<1> SUFFICES ASSUME NEW i \in DOMAIN slabs
             PROVE  LET s    == slabs[i]
                        used == {block[j] : j \in {k \in DOMAIN block : SlabHolding(block[k]) = i}}
                    IN
                    /\ s.free = Len(s.blocks) /\ IsInjective(s.blocks)
                    /\ Range(s.blocks) \intersect used = {}
                    /\ Range(s.blocks) \union used = {BlockOf(Len(slabs) + 1 - i, p) : p \in 1 .. s.total}
  BY DEF BlocksConserved, AllocInv, Allotted
<1> DEFINE used == {block[j] : j \in {k \in DOMAIN block : SlabHolding(block[k]) = i}}
           in   == BlocksIn(Len(slabs) + 1 - i)
<1>2. i \in 1 .. Len(slabs) /\ Len(slabs) + 1 - i \in Nat /\ slabs[i].total = BlocksPerSlab
  <2>1. slabs[i] \in SlabType  BY <1>1
  <2> QED  BY <1>1, <2>1 DEF SlabType
<1>3. Listed(slabs[i], in \ Homes(block))  BY <1>2 DEF AllocInv, Allotted
<1>4. ASSUME NEW j \in DOMAIN block PROVE SlabHolding(block[j]) = i <=> block[j] \in in
  <2>1. PICK k \in 1 .. Len(slabs) : block[j] \in BlocksIn(k)  BY DEF AllocInv, Allotted
  <2>2. block[j].slab = k /\ (block[j] \in in => k = Len(slabs) + 1 - i)
    BY <1>2, <2>1, BlocksApart
  <2>3. SlabHolding(block[j]) = i <=> k = Len(slabs) + 1 - i
    BY <1>1, <1>2, <2>1, <2>2 DEF SlabHolding
  <2> QED  BY <2>1, <2>2, <2>3
<1>5. used = in \intersect Homes(block)  BY <1>4 DEF Homes
<1>6. in = {BlockOf(Len(slabs) + 1 - i, p) : p \in 1 .. slabs[i].total}  BY <1>2 DEF BlocksIn
<1> HIDE DEF used, in
<1>7. /\ slabs[i].free = Len(slabs[i].blocks) /\ IsInjective(slabs[i].blocks)
      /\ Range(slabs[i].blocks) \intersect used = {} /\ Range(slabs[i].blocks) \union used = in
  BY <1>3, <1>5 DEF Listed
<1> QED  BY <1>6, <1>7 DEF used

(* Every block of every slab is free, once, or the home of one region,     *)
(* for any number of blocks per slab, any order of adds and removes, and   *)
(* whichever allocations fail.                                             *)
THEOREM SlabBlocksConserved == SlabSpec => []BlocksConserved
<1>1. SlabInit => Init /\ FreedIsEmpty /\ AllocInv
  <2> SUFFICES ASSUME SlabInit PROVE Init /\ FreedIsEmpty /\ AllocInv
    OBVIOUS
  <2>1. Occupied = {}  BY DEF SlabInit, Init, Occupied, Slots
  <2>2. Live = {}  BY <2>1 DEF Live
  <2> QED  BY <2>1, <2>2 DEF SlabInit, FreedIsEmpty, AllocInv, Allotted, Homes
<1>2. [SlabNext]_<<vars, slabVars>> => [Next]_vars  BY DEF SlabNext, Next
<1>3. IInv /\ FreedIsEmpty /\ [Next]_vars => IInv' /\ FreedIsEmpty'
  BY NextIInv, NextFreed DEF FreedIsEmpty
<1>4. IInv /\ IInv' /\ FreedIsEmpty /\ AllocInv /\ [SlabNext]_<<vars, slabVars>> => AllocInv'
  BY NextAllocInv
<1> QED  BY <1>1, <1>2, <1>3, <1>4, InitIInv, AllottedConserved, PTL DEF SlabSpec

=============================================================================
