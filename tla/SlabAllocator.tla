--------------------------- MODULE SlabAllocator ---------------------------
(***************************************************************************)
(* The struct SlabAllocator of include/core/slabAllocator.h and            *)
(* src/core/slabAllocator.cpp: a bump allocator over slabs of one size.    *)
(*                                                                         *)
(* The field `slabs` is a std::vector<Slab> and `currentSlab` points into  *)
(* its storage, so a reallocation of the vector leaves the pointer         *)
(* dangling.  The storage is modelled by `capacity` and by `storage`, the  *)
(* number of times it moved; a pointer is the storage it points into and   *)
(* an index.  `live` is the set of heap blocks got from new char[slabSize] *)
(* and not deleted; operator new may return any block that is not live.    *)
(* `objs` is a history variable: the memory handed out since the last      *)
(* clear.  A pointer in a slab is an offset from its data; endp is         *)
(* data + SlabSize and is never changed.                                   *)
(***************************************************************************)
EXTENDS Integers, Sequences

CONSTANTS Blocks,        \* addresses operator new can return
          SlabSize,      \* slabSizeInByte
          Sizes          \* the sizes of the requests

(* The assertions of the constructor and of alloc. *)
ASSUME SlabSizeAssumption == SlabSize \in Nat \ {0}
ASSUME SizesAssumption == Sizes \subseteq 1 .. SlabSize

VARIABLES phase,         \* "raw" before the constructor, "up", "down" after
          slabs, currentSlab, storage, capacity, live, objs

vars == <<phase, slabs, currentSlab, storage, capacity, live, objs>>

Slab == [data: Blocks, rsp: 0 .. SlabSize]
Pointer == [storage: Nat, index: Nat \ {0}]
NullPointer == [storage |-> 0, index |-> 1]
Object == [block: Blocks, lo: 0 .. SlabSize, hi: 0 .. SlabSize]

TypeOK ==
  /\ phase \in {"raw", "up", "down"}
  /\ slabs \in Seq(Slab)
  /\ currentSlab \in Pointer
  /\ storage \in Nat
  /\ capacity \in Nat
  /\ live \in SUBSET Blocks
  /\ objs \in SUBSET Object

Init ==
  /\ phase = "raw"
  /\ slabs = <<>>
  /\ currentSlab = NullPointer
  /\ storage = 0
  /\ capacity = 0
  /\ live = {}
  /\ objs = {}

(* slabs.emplace_back: the storage moves when the vector is full. *)
Grow == IF Len(slabs) < capacity
        THEN UNCHANGED <<storage, capacity>>
        ELSE /\ storage' = storage + 1
             /\ capacity' = IF capacity = 0 THEN 1 ELSE 2 * capacity

(* allocateSlab and the caller's `currentSlab = &createdSlab`, for a new   *)
(* slab at block b of which the first `used` bytes are taken at once.      *)
AllocateSlab(b, used) ==
  /\ live' = live \cup {b}
  /\ slabs' = Append(slabs, [data |-> b, rsp |-> used])
  /\ Grow
  /\ currentSlab' = [storage |-> storage', index |-> Len(slabs')]

Construct ==
  /\ phase = "raw"
  /\ \E b \in Blocks \ live : AllocateSlab(b, 0)
  /\ phase' = "up"
  /\ UNCHANGED objs

Current == slabs[currentSlab.index]

(* Wrong tests: one that never fails, one that counts the request twice. *)
FullNever(n) == FALSE
FullTwice(n) == Current.rsp + n + n > SlabSize

(* The test of alloc: no room left in the current slab. *)
Full(n) == Current.rsp + n > SlabSize

(* Wrong bumps of the stack pointer: one byte short, one byte too far. *)
BumpShort(n) ==
  /\ slabs' = [slabs EXCEPT ![currentSlab.index].rsp = @ + n - 1]
  /\ objs' = objs \cup {[block |-> Current.data, lo |-> Current.rsp,
                         hi |-> Current.rsp + n]}
  /\ UNCHANGED <<currentSlab, storage, capacity, live>>

BumpPadded(n) ==
  /\ slabs' = [slabs EXCEPT ![currentSlab.index].rsp = @ + n + 1]
  /\ objs' = objs \cup {[block |-> Current.data, lo |-> Current.rsp,
                         hi |-> Current.rsp + n]}
  /\ UNCHANGED <<currentSlab, storage, capacity, live>>

(* alloc(n) with room. *)
Bump(n) ==
  /\ slabs' = [slabs EXCEPT ![currentSlab.index].rsp = @ + n]
  /\ objs' = objs \cup {[block |-> Current.data, lo |-> Current.rsp,
                         hi |-> Current.rsp + n]}
  /\ UNCHANGED <<currentSlab, storage, capacity, live>>

(* A wrong version, which forgets to take the request from the new slab. *)
SpillEmpty(n, b) ==
  /\ AllocateSlab(b, 0)
  /\ objs' = objs \cup {[block |-> b, lo |-> 0, hi |-> n]}

(* alloc(n) without room: the rest of the current slab is given up. *)
Spill(n, b) ==
  /\ AllocateSlab(b, n)
  /\ objs' = objs \cup {[block |-> b, lo |-> 0, hi |-> n]}

Alloc(n) ==
  /\ phase = "up"
  /\ \/ ~Full(n) /\ Bump(n)
     \/ Full(n) /\ \E b \in Blocks \ live : Spill(n, b)
  /\ UNCHANGED phase

(* Wrong versions of clear: one that leaves currentSlab where it was, and  *)
(* one that begins to delete one slab too late.                            *)
ClearKeepsCurrent ==
  /\ phase = "up"
  /\ live' = live \ {slabs[i].data : i \in 2 .. Len(slabs)}
  /\ slabs' = <<[slabs[1] EXCEPT !.rsp = 0]>>
  /\ objs' = {}
  /\ UNCHANGED <<phase, currentSlab, storage, capacity>>

ClearLeaks ==
  /\ phase = "up"
  /\ live' = live \ {slabs[i].data : i \in 3 .. Len(slabs)}
  /\ slabs' = <<[slabs[1] EXCEPT !.rsp = 0]>>
  /\ currentSlab' = [storage |-> storage, index |-> 1]
  /\ objs' = {}
  /\ UNCHANGED <<phase, storage, capacity>>

(* clear: every slab but the first is deleted; resize(1) keeps the storage *)
(* of the vector.                                                          *)
Clear ==
  /\ phase = "up"
  /\ live' = live \ {slabs[i].data : i \in 2 .. Len(slabs)}
  /\ slabs' = <<[slabs[1] EXCEPT !.rsp = 0]>>
  /\ currentSlab' = [storage |-> storage, index |-> 1]
  /\ objs' = {}
  /\ UNCHANGED <<phase, storage, capacity>>

(* The destructor: clear, then delete[] currentSlab->data, which clear has *)
(* made the first slab; the members are destroyed after it.                *)
Destroy ==
  /\ phase = "up"
  /\ phase' = "down"
  /\ live' = (live \ {slabs[i].data : i \in 2 .. Len(slabs)})
               \ {slabs[1].data}
  /\ slabs' = <<>>
  /\ currentSlab' = NullPointer
  /\ objs' = {}
  /\ UNCHANGED <<storage, capacity>>

Next == Construct \/ (\E n \in Sizes : Alloc(n)) \/ Clear \/ Destroy

Spec == Init /\ [][Next]_vars

(* getStackPtrOffset. *)
StackPtrOffset == IF phase = "up" THEN Current.rsp ELSE 0
-----------------------------------------------------------------------------
(***************************************************************************)
(* Properties.                                                             *)
(***************************************************************************)

(* Whatever reallocations the vector went through, currentSlab points into *)
(* its present storage and at the last slab: alloc never bumps a dangling  *)
(* pointer, nor a slab it had already given up.                            *)
CurrentSlabValid ==
  phase = "up" => /\ currentSlab.storage = storage
                  /\ currentSlab.index = Len(slabs)
                  /\ Len(slabs) \in 1 .. capacity

(* The slabs own the live blocks, each block once: clear and the           *)
(* destructor delete every block exactly once and leak none.               *)
SlabsOwnHeap ==
  /\ live = {slabs[i].data : i \in 1 .. Len(slabs)}
  /\ \A i, j \in 1 .. Len(slabs) : i # j => slabs[i].data # slabs[j].data
  /\ phase # "up" => slabs = <<>>

(* An object handed out and not cleared lies below the stack pointer of    *)
(* one of the slabs: it is in memory that has not been deleted.            *)
Within(o, s) == o.block = s.data /\ o.lo < o.hi /\ o.hi <= s.rsp
ObjectsInSlabs ==
  \A o \in objs : \E i \in 1 .. Len(slabs) : Within(o, slabs[i])

Apart(o, p) == o.block # p.block \/ o.hi <= p.lo \/ p.hi <= o.lo

(* No two objects share a byte, across slabs, reallocations, clears and    *)
(* blocks that the heap hands out again.                                   *)
ObjectsApart == \A o, p \in objs : o # p => Apart(o, p)

(* A slab is given up only when some request did not fit: what is left of  *)
(* it is smaller than the largest request.                                 *)
WasteBounded ==
  \A i \in 1 .. Len(slabs) - 1 : \E n \in Sizes : slabs[i].rsp + n > SlabSize

(* Below the stack pointer there are no holes: each byte of a slab that    *)
(* was passed over belongs to an object.                                   *)
NoHoles ==
  \A i \in 1 .. Len(slabs) : \A x \in 0 .. slabs[i].rsp - 1 :
    \E o \in objs : o.block = slabs[i].data /\ o.lo <= x /\ x < o.hi

(* The bump allocator implements the interface Allocator.                  *)
Abstract == INSTANCE Arena WITH Offsets <- 0 .. SlabSize, regions <- objs
ImplementsArena == Abstract!Spec
=============================================================================
