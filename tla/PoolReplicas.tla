---------------------------- MODULE PoolReplicas ----------------------------
(***************************************************************************)
(* The two region pools of an IPC queue.  The end that registers memory    *)
(* (the pool of RegionPool itself) lets its pool assign an id and sends    *)
(* id and memory to the other end, which enters them into a pool of its    *)
(* own, B, when it next dequeues; a deregistration sends the id only       *)
(* (queue_interface.c, ipcq.c).  Each pool grows and hashes by itself, so  *)
(* an id means the same region at both ends only if B repeats every        *)
(* decision of the first pool, any number of commands later.               *)
(*                                                                         *)
(* A capability holds a physical and a virtual address.  The sender's pool *)
(* keeps the physical one; the command carries the virtual one, and the    *)
(* receiver puts it into both fields of the capability it registers.       *)
(*                                                                         *)
(* Ipcq models the ring the commands travel through; here it is a sequence *)
(* of at most ChanCap of them.  A full ring holds the caller up after its  *)
(* pool has changed; nobody sees that pool meanwhile, so the call is one   *)
(* step that waits for space first.                                        *)
(***************************************************************************)
EXTENDS RegionPool, Sequences

CONSTANTS
  ChanCap,  \* commands in flight
  Vaddr     \* area -> cap.vaddr: where the registering process has it mapped

ASSUME ReplicaAssumption == ChanCap \in Nat \ {0} /\ Vaddr \in [Areas -> Nat]

VARIABLES
  chan,           \* commands sent and not yet applied
  b_status, b_size, b_num_regions, b_region_offset, b_last_offset, b_pool, b_call

bVars == <<b_status, b_size, b_num_regions, b_region_offset, b_last_offset, b_pool, b_call>>

B == INSTANCE RegionPool WITH
  status <- b_status, size <- b_size, num_regions <- b_num_regions,
  region_offset <- b_region_offset, last_offset <- b_last_offset,
  pool <- b_pool, call <- b_call

replicaVars == <<vars, chan, bVars>>

ReplicaInit == Init /\ B!Init /\ chan = << >>

Reg(id, cap) == [cmd |-> "reg", id |-> id, offset |-> Vaddr[cap], length |-> cap.len]
Dereg(id)    == [cmd |-> "dereg", id |-> id, offset |-> 0, length |-> 0]

(* The capability the receiver makes of a command. *)
ReceivedCap(c) == [paddr |-> c.offset, len |-> c.length]

(* What the pool refuses is returned to the caller and not sent. *)
SendAlways(c) == chan' = Append(chan, c)

Send(c) == chan' = IF call'.err = "OK" THEN Append(chan, c) ELSE chan

(* cleanq_register, ipcq_register *)
Register(cap) ==
  /\ Len(chan) < ChanCap
  /\ AddRegion(cap)
  /\ Send(Reg(call'.id, cap))
  /\ UNCHANGED bVars

(* cleanq_deregister, ipcq_deregister *)
Deregister(id) ==
  /\ Len(chan) < ChanCap
  /\ RemoveRegion(id)
  /\ Send(Dereg(id))
  /\ UNCHANGED bVars

(* ipcq_dequeue of a command: ipc_reg or ipc_dereg, whose errors are       *)
(* dropped ("should not happen, but is fine!").                            *)
Apply ==
  /\ chan # << >>
  /\ chan' = Tail(chan)
  /\ LET c == Head(chan) IN
     \/ c.cmd = "reg" /\ B!AddRegionWithId(ReceivedCap(c), c.id)
     \/ c.cmd = "dereg" /\ B!RemoveRegion(c.id)
  /\ UNCHANGED vars

(* Both ends are destroyed, with whatever is still in the ring, and made   *)
(* again.                                                                  *)
EndSession == Destroy /\ B!Destroy /\ chan' = << >>
NewSession == Create /\ B!Create /\ UNCHANGED chan

ReplicaNext ==
  \/ \E cap \in Areas : Register(cap)
  \/ \E id \in RemoveIds : Deregister(id)
  \/ Apply
  \/ EndSession
  \/ NewSession

ReplicaSpec == ReplicaInit /\ [][ReplicaNext]_replicaVars

(***************************************************************************)
(* Properties.                                                             *)
(***************************************************************************)

(* A region as the other end knows it: the same id and length, based at    *)
(* the virtual address of the capability it was registered with.           *)
Mirror(r) ==
  [id |-> r.id, base_addr |-> Vaddr[[paddr |-> r.base_addr, len |-> r.len]], len |-> r.len]

Mirrored == [i \in Slots |-> IF pool[i] = NULL THEN NULL ELSE Mirror(pool[i])]

(* The receiving pool refuses no command and faults on none, and once it   *)
(* has caught up it has the same ids and lengths in the same slots as the  *)
(* pool that assigned the ids, although it never sees the assignment, only *)
(* its results.  The bases are the sender's virtual addresses, so the two  *)
(* tables are equal only where cap.vaddr is cap.paddr.                     *)
ReplicaFollows ==
  /\ b_call.err = "OK"
  /\ B!NoFault
  /\ chan = << >> /\ status = "ok" =>
       b_pool = Mirrored /\ b_size = size /\ b_num_regions = num_regions

=============================================================================
