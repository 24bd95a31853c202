------------------------ MODULE SlabAllocatorProofs ------------------------
(***************************************************************************)
(* Proofs about SlabAllocator, for every set of blocks, slab size and set  *)
(* of request sizes: the inductive invariant Inv, and the safety           *)
(* properties it contains.                                                 *)
(***************************************************************************)
EXTENDS SlabAllocator, SequenceTheorems, TLAPS

(* The safety properties need each other: ObjectsApart is preserved by an  *)
(* allocation only because currentSlab is the last slab, no two slabs      *)
(* share a block and every object lies below a stack pointer.              *)
Inv == /\ TypeOK
       /\ CurrentSlabValid
       /\ SlabsOwnHeap
       /\ ObjectsInSlabs
       /\ ObjectsApart

-----------------------------------------------------------------------------
(* What the actions do to the vector of slabs.                             *)

(* A new slab comes last, the older ones stay, currentSlab points at it in *)
(* the storage the vector has afterwards.                                  *)
LEMMA AllocateSlabEffect ==
  ASSUME TypeOK, NEW b \in Blocks, NEW used \in 0 .. SlabSize,
         AllocateSlab(b, used),
         Len(slabs) <= capacity
  PROVE  /\ slabs' \in Seq(Slab)
         /\ Len(slabs') = Len(slabs) + 1
         /\ \A i \in 1 .. Len(slabs) : slabs'[i] = slabs[i]
         /\ slabs'[Len(slabs')] = [data |-> b, rsp |-> used]
         /\ storage' \in Nat /\ capacity' \in Nat
         /\ Len(slabs') <= capacity'
         /\ currentSlab' = [storage |-> storage', index |-> Len(slabs')]
         /\ currentSlab' \in Pointer
         /\ live' = live \cup {b}
<1>1. [data |-> b, rsp |-> used] \in Slab
  BY DEF Slab
<1>2. slabs \in Seq(Slab) /\ Len(slabs) \in Nat
  BY LenProperties DEF TypeOK
<1>3. slabs' = Append(slabs, [data |-> b, rsp |-> used])
  BY DEF AllocateSlab
<1>4. /\ slabs' \in Seq(Slab)
      /\ Len(slabs') = Len(slabs) + 1
      /\ \A i \in 1 .. Len(slabs) : slabs'[i] = slabs[i]
      /\ slabs'[Len(slabs')] = [data |-> b, rsp |-> used]
  BY <1>1, <1>2, <1>3, AppendProperties
<1>5. storage' \in Nat /\ capacity' \in Nat /\ Len(slabs') <= capacity'
  <2>1. storage \in Nat /\ capacity \in Nat
    BY DEF TypeOK
  <2>2. CASE Len(slabs) < capacity
    BY <1>2, <1>4, <2>1, <2>2 DEF AllocateSlab, Grow
  <2>3. CASE ~(Len(slabs) < capacity)
    BY <1>2, <1>4, <2>1, <2>3 DEF AllocateSlab, Grow
  <2> QED BY <2>2, <2>3
<1>6. /\ currentSlab' = [storage |-> storage', index |-> Len(slabs')]
      /\ live' = live \cup {b}
  BY DEF AllocateSlab
<1>7. currentSlab' \in Pointer
  BY <1>2, <1>4, <1>5, <1>6 DEF Pointer
<1> QED BY <1>4, <1>5, <1>6, <1>7

(* A request that fits moves one stack pointer: that of the last slab.     *)
LEMMA BumpEffect ==
  ASSUME TypeOK, CurrentSlabValid, phase = "up",
         NEW n \in Sizes, ~Full(n), Bump(n)
  PROVE  /\ Len(slabs) \in 1 .. Len(slabs)
         /\ slabs' \in Seq(Slab)
         /\ Len(slabs') = Len(slabs)
         /\ \A i \in 1 .. Len(slabs) :
              /\ slabs'[i].data = slabs[i].data
              /\ slabs'[i].rsp = IF i = Len(slabs) THEN slabs[i].rsp + n
                                 ELSE slabs[i].rsp
         /\ Current = slabs[Len(slabs)]
         /\ Current \in Slab
         /\ Current.rsp + n \in 0 .. SlabSize
<1>1. slabs \in Seq(Slab) /\ Len(slabs) \in Nat
  BY LenProperties DEF TypeOK
<1>2. currentSlab.index = Len(slabs) /\ Len(slabs) \in 1 .. Len(slabs)
  BY <1>1 DEF CurrentSlabValid
<1>3. Current = slabs[Len(slabs)] /\ Current \in Slab
  BY <1>1, <1>2, ElementOfSeq DEF Current
<1>4. n \in Nat \ {0} /\ SlabSize \in Nat
  BY SizesAssumption, SlabSizeAssumption
<1>5. Current.rsp + n \in 0 .. SlabSize
  BY <1>3, <1>4 DEF Full, Slab
<1> DEFINE s == [data |-> Current.data, rsp |-> Current.rsp + n]
<1>6. s \in Slab
  BY <1>3, <1>5 DEF Slab
<1>7. slabs' = [slabs EXCEPT ![Len(slabs)] = s]
  <2>1. slabs' = [slabs EXCEPT ![Len(slabs)]
                    = [slabs[Len(slabs)] EXCEPT !.rsp = @ + n]]
    BY <1>2 DEF Bump
  <2>2. [slabs[Len(slabs)] EXCEPT !.rsp = @ + n] = s
    BY <1>3 DEF Slab
  <2> QED BY <2>1, <2>2
<1>8. /\ slabs' \in Seq(Slab)
      /\ Len(slabs') = Len(slabs)
      /\ \A i \in 1 .. Len(slabs) :
           slabs'[i] = IF i = Len(slabs) THEN s ELSE slabs[i]
  BY <1>1, <1>2, <1>6, <1>7, ExceptSeq
<1> QED BY <1>2, <1>3, <1>5, <1>8

(* An object of the slabs that stay where they were is still in one.       *)
LEMMA ObjectsStayInSlabs ==
  ASSUME TypeOK, ObjectsInSlabs, slabs' \in Seq(Slab),
         Len(slabs) <= Len(slabs'),
         \A i \in 1 .. Len(slabs) : /\ slabs'[i].data = slabs[i].data
                                   /\ slabs[i].rsp <= slabs'[i].rsp
  PROVE  \A o \in objs : \E i \in 1 .. Len(slabs') : Within(o, slabs'[i])
<1> SUFFICES ASSUME NEW o \in objs
             PROVE  \E i \in 1 .. Len(slabs') : Within(o, slabs'[i])
  OBVIOUS
<1>1. PICK i \in 1 .. Len(slabs) : Within(o, slabs[i])
  BY DEF ObjectsInSlabs
<1>2. Len(slabs) \in Nat /\ Len(slabs') \in Nat
  BY LenProperties DEF TypeOK
<1>3. i \in 1 .. Len(slabs')
  BY <1>2
<1>4. slabs[i] \in Slab /\ slabs'[i] \in Slab
  BY <1>3, ElementOfSeq DEF TypeOK
<1>5. SlabSize \in Nat /\ o \in Object
  BY SlabSizeAssumption DEF TypeOK
<1>6. o.hi \in Int /\ slabs[i].rsp \in Int /\ slabs'[i].rsp \in Int
  BY <1>4, <1>5 DEF Object, Slab
<1>7. Within(o, slabs'[i])
  BY <1>1, <1>6 DEF Within
<1> QED BY <1>3, <1>7

-----------------------------------------------------------------------------
(* What is handed out is free: a slab at a block that was not live holds   *)
(* none of the objects ...                                                 *)
LEMMA SpillFresh ==
  ASSUME Inv, NEW b \in Blocks \ live, NEW lo, NEW hi, NEW o \in objs
  PROVE  Apart(o, [block |-> b, lo |-> lo, hi |-> hi])
         /\ Apart([block |-> b, lo |-> lo, hi |-> hi], o)
<1>1. o.block # b
  BY DEF Inv, ObjectsInSlabs, SlabsOwnHeap, Within
<1> QED BY <1>1 DEF Apart

(* ... and those of the current slab lie below its stack pointer.          *)
LEMMA BumpFresh ==
  ASSUME Inv, phase = "up", NEW hi, NEW o \in objs
  PROVE  Apart(o, [block |-> Current.data, lo |-> Current.rsp, hi |-> hi])
         /\ Apart([block |-> Current.data, lo |-> Current.rsp, hi |-> hi], o)
<1> DEFINE last == Len(slabs)
<1>1. Current = slabs[last] /\ last \in 1 .. Len(slabs)
  BY LenProperties DEF Inv, TypeOK, CurrentSlabValid, Current
<1>2. PICK i \in 1 .. Len(slabs) : Within(o, slabs[i])
  BY DEF Inv, ObjectsInSlabs
<1>3. CASE i = last
  <2>1. o.hi <= Current.rsp
    BY <1>1, <1>2, <1>3 DEF Within
  <2> QED BY <2>1 DEF Apart
<1>4. CASE i # last
  <2>1. \A j, k \in 1 .. Len(slabs) : j # k => slabs[j].data # slabs[k].data
    BY DEF Inv, SlabsOwnHeap
  <2>2. o.block # Current.data
    BY <1>1, <1>2, <1>4, <2>1 DEF Within
  <2> QED BY <2>2 DEF Apart
<1> QED BY <1>3, <1>4

-----------------------------------------------------------------------------
(* The initial state, and one lemma for each action.                       *)

LEMMA InitInv == Init => Inv
<1> SUFFICES ASSUME Init PROVE Inv
  OBVIOUS
<1>1. slabs = <<>> /\ slabs \in Seq(Slab) /\ Len(slabs) = 0
  BY EmptySeq DEF Init
<1>2. TypeOK
  BY <1>1 DEF Init, TypeOK, Pointer, NullPointer
<1> QED
  BY <1>1, <1>2 DEF Init, Inv, CurrentSlabValid, SlabsOwnHeap, ObjectsInSlabs,
                    ObjectsApart

(* Both callers of allocateSlab take a block that is not live, and record  *)
(* at most one object, the bytes taken at once from the new slab.          *)
LEMMA NewSlabInv ==
  ASSUME Inv, NEW b \in Blocks \ live, NEW used \in 0 .. SlabSize,
         AllocateSlab(b, used), Len(slabs) <= capacity,
         phase' = "up",
         \/ objs' = objs
         \/ /\ used > 0
            /\ objs' = objs \cup {[block |-> b, lo |-> 0, hi |-> used]}
  PROVE  Inv'
<1> DEFINE new == [block |-> b, lo |-> 0, hi |-> used]
           slab == [data |-> b, rsp |-> used]
<1>1. /\ slabs' \in Seq(Slab)
      /\ Len(slabs') = Len(slabs) + 1
      /\ \A i \in 1 .. Len(slabs) : slabs'[i] = slabs[i]
      /\ slabs'[Len(slabs')] = slab
      /\ storage' \in Nat /\ capacity' \in Nat
      /\ Len(slabs') <= capacity'
      /\ currentSlab' = [storage |-> storage', index |-> Len(slabs')]
      /\ currentSlab' \in Pointer
      /\ live' = live \cup {b}
  BY AllocateSlabEffect DEF Inv
<1>2. Len(slabs) \in Nat
  BY LenProperties DEF Inv, TypeOK
<1>3. SlabSize \in Nat /\ used \in Nat
  BY SlabSizeAssumption
<1>4. objs' \subseteq objs \cup {new} /\ (new \in objs' \ objs => used > 0)
  OBVIOUS
<1>5. TypeOK'
  <2>1. new \in Object
    BY <1>3 DEF Object
  <2> QED BY <1>1, <1>4, <2>1 DEF Inv, TypeOK
<1>6. CurrentSlabValid'
  BY <1>1, <1>2 DEF CurrentSlabValid
<1>7. SlabsOwnHeap'
  <2>1. live' = {slabs'[i].data : i \in 1 .. Len(slabs')}
    <3>1. 1 .. Len(slabs') = (1 .. Len(slabs)) \cup {Len(slabs')}
      BY <1>1, <1>2
    <3>2. {slabs'[i].data : i \in 1 .. Len(slabs')}
            = {slabs[i].data : i \in 1 .. Len(slabs)} \cup {b}
      BY <1>1, <3>1
    <3> QED BY <1>1, <3>2 DEF Inv, SlabsOwnHeap
  <2>2. \A i \in 1 .. Len(slabs) : slabs'[i].data \in live
    BY <1>1 DEF Inv, SlabsOwnHeap
  <2>3. ASSUME NEW i \in 1 .. Len(slabs'), NEW j \in 1 .. Len(slabs'), i # j
        PROVE  slabs'[i].data # slabs'[j].data
    <3>1. CASE i \in 1 .. Len(slabs) /\ j \in 1 .. Len(slabs)
      BY <1>1, <2>3, <3>1 DEF Inv, SlabsOwnHeap
    <3>2. CASE i = Len(slabs') /\ j \in 1 .. Len(slabs)
      BY <1>1, <2>2, <3>2
    <3>3. CASE i \in 1 .. Len(slabs) /\ j = Len(slabs')
      BY <1>1, <2>2, <3>3
    <3> QED BY <1>1, <1>2, <2>3, <3>1, <3>2, <3>3
  <2> QED BY <2>1, <2>3 DEF SlabsOwnHeap
<1>8. ObjectsInSlabs'
  <2>1. \A o \in objs : \E i \in 1 .. Len(slabs') : Within(o, slabs'[i])
    <3>1. \A i \in 1 .. Len(slabs) : slabs[i] \in Slab
      BY ElementOfSeq DEF Inv, TypeOK
    <3>2. \A i \in 1 .. Len(slabs) : slabs[i].rsp <= slabs'[i].rsp
      BY <1>1, <1>3, <3>1 DEF Slab
    <3> QED BY <1>1, <1>2, <3>2, ObjectsStayInSlabs DEF Inv
  <2>2. new \in objs' \ objs => Within(new, slabs'[Len(slabs')])
    BY <1>1, <1>3, <1>4 DEF Within
  <2>3. Len(slabs') \in 1 .. Len(slabs')
    BY <1>1, <1>2
  <2> QED BY <1>4, <2>1, <2>2, <2>3 DEF ObjectsInSlabs
<1>9. ObjectsApart'
  <2>1. \A o \in objs : Apart(o, new) /\ Apart(new, o)
    BY SpillFresh
  <2> QED BY <1>4, <2>1 DEF Inv, ObjectsApart
<1> QED BY <1>5, <1>6, <1>7, <1>8, <1>9 DEF Inv

LEMMA ConstructInv == Inv /\ Construct => Inv'
<1> SUFFICES ASSUME Inv, Construct PROVE Inv'
  OBVIOUS
<1>1. PICK b \in Blocks \ live : AllocateSlab(b, 0)
  BY DEF Construct
<1>2. phase' = "up" /\ objs' = objs /\ Len(slabs) = 0
  BY EmptySeq DEF Construct, Inv, SlabsOwnHeap
<1>3. Len(slabs) <= capacity /\ 0 \in 0 .. SlabSize
  BY <1>2, SlabSizeAssumption DEF Inv, TypeOK
<1> QED BY <1>1, <1>2, <1>3, NewSlabInv

LEMMA SpillInv ==
  ASSUME Inv, phase = "up", NEW n \in Sizes, NEW b \in Blocks \ live,
         Spill(n, b), phase' = phase
  PROVE  Inv'
<1>1. Len(slabs) <= capacity
  BY DEF Inv, CurrentSlabValid, TypeOK
<1>2. n \in 0 .. SlabSize /\ n > 0
  BY SizesAssumption, SlabSizeAssumption
<1>3. AllocateSlab(b, n)
      /\ objs' = objs \cup {[block |-> b, lo |-> 0, hi |-> n]}
  BY DEF Spill
<1> QED BY <1>1, <1>2, <1>3, NewSlabInv

LEMMA BumpInv ==
  ASSUME Inv, phase = "up", NEW n \in Sizes, ~Full(n), Bump(n),
         phase' = phase
  PROVE  Inv'
<1> DEFINE last == Len(slabs)
           new == [block |-> Current.data, lo |-> Current.rsp,
                   hi |-> Current.rsp + n]
<1>1. /\ last \in 1 .. Len(slabs)
      /\ slabs' \in Seq(Slab)
      /\ Len(slabs') = Len(slabs)
      /\ \A i \in 1 .. Len(slabs) :
           /\ slabs'[i].data = slabs[i].data
           /\ slabs'[i].rsp = IF i = last THEN slabs[i].rsp + n
                              ELSE slabs[i].rsp
      /\ Current = slabs[last]
      /\ Current \in Slab
      /\ Current.rsp + n \in 0 .. SlabSize
  BY BumpEffect DEF Inv
<1>2. n \in Nat \ {0} /\ SlabSize \in Nat
  BY SizesAssumption, SlabSizeAssumption
<1>3. objs' = objs \cup {new}
      /\ UNCHANGED <<currentSlab, storage, capacity, live>>
  BY DEF Bump
<1>4. \A i \in 1 .. Len(slabs) : slabs[i] \in Slab
  BY ElementOfSeq DEF Inv, TypeOK
<1>5. TypeOK'
  <2>1. new \in Object
    BY <1>1 DEF Object, Slab
  <2> QED BY <1>1, <1>3, <2>1 DEF Inv, TypeOK
<1>6. CurrentSlabValid'
  BY <1>1, <1>3 DEF Inv, CurrentSlabValid
<1>7. SlabsOwnHeap'
  BY <1>1, <1>3 DEF Inv, SlabsOwnHeap
<1>8. ObjectsInSlabs'
  <2>1. \A i \in 1 .. Len(slabs) : slabs[i].rsp <= slabs'[i].rsp
    BY <1>1, <1>2, <1>4 DEF Slab
  <2>2. Len(slabs) <= Len(slabs')
    BY <1>1
  <2>3. \A o \in objs : \E i \in 1 .. Len(slabs') : Within(o, slabs'[i])
    BY <1>1, <2>1, <2>2, ObjectsStayInSlabs DEF Inv
  <2>4. Within(new, slabs'[last])
    BY <1>1, <1>2 DEF Within, Slab
  <2> QED BY <1>1, <1>3, <2>3, <2>4 DEF ObjectsInSlabs
<1>9. ObjectsApart'
  <2>1. \A o \in objs : Apart(o, new) /\ Apart(new, o)
    BY BumpFresh
  <2> QED BY <1>3, <2>1 DEF Inv, ObjectsApart
<1> QED BY <1>5, <1>6, <1>7, <1>8, <1>9 DEF Inv

LEMMA AllocInv ==
  ASSUME Inv, NEW n \in Sizes, Alloc(n)
  PROVE  Inv'
<1>1. phase = "up" /\ phase' = phase
  BY DEF Alloc
<1>2. CASE ~Full(n) /\ Bump(n)
  BY <1>1, <1>2, BumpInv
<1>3. CASE \E b \in Blocks \ live : Spill(n, b)
  BY <1>1, <1>3, SpillInv
<1> QED BY <1>2, <1>3 DEF Alloc

LEMMA ClearInv == Inv /\ Clear => Inv'
<1> SUFFICES ASSUME Inv, Clear PROVE Inv'
  OBVIOUS
<1> DEFINE first == [data |-> slabs[1].data, rsp |-> 0]
<1>1. phase = "up" /\ phase' = "up" /\ objs' = {}
      /\ UNCHANGED <<storage, capacity>>
  BY DEF Clear
<1>2. /\ slabs \in Seq(Slab) /\ Len(slabs) \in Nat
      /\ 1 \in 1 .. Len(slabs) /\ Len(slabs) <= capacity
      /\ storage \in Nat /\ capacity \in Nat
  BY <1>1, LenProperties DEF Inv, TypeOK, CurrentSlabValid
<1>3. slabs[1] \in Slab /\ first \in Slab
  <2>1. slabs[1] \in Slab
    BY <1>2, ElementOfSeq
  <2>2. 0 \in 0 .. SlabSize
    BY SlabSizeAssumption
  <2> QED BY <2>1, <2>2 DEF Slab
<1>4. slabs' = <<first>>
  <2>1. [slabs[1] EXCEPT !.rsp = 0] = first
    BY <1>3 DEF Slab
  <2> QED BY <2>1 DEF Clear
<1>5. slabs' \in Seq(Slab) /\ Len(slabs') = 1 /\ slabs'[1] = first
  BY <1>3, <1>4
<1>6. live' = {slabs[1].data}
  <2>1. 1 .. Len(slabs) = {1} \cup (2 .. Len(slabs))
    BY <1>2
  <2>2. live = {slabs[1].data} \cup {slabs[i].data : i \in 2 .. Len(slabs)}
    BY <2>1 DEF Inv, SlabsOwnHeap
  <2>3. \A i \in 2 .. Len(slabs) : slabs[i].data # slabs[1].data
    BY <1>2, <2>1 DEF Inv, SlabsOwnHeap
  <2> QED BY <2>2, <2>3 DEF Clear
<1>7. TypeOK'
  <2>1. currentSlab' \in Pointer
    BY <1>2 DEF Clear, Pointer
  <2>2. live' \in SUBSET Blocks
    BY <1>3, <1>6 DEF Slab
  <2> QED BY <1>1, <1>2, <1>5, <2>1, <2>2 DEF TypeOK
<1>8. CurrentSlabValid'
  BY <1>1, <1>2, <1>5 DEF Clear, CurrentSlabValid
<1>9. SlabsOwnHeap'
  BY <1>1, <1>5, <1>6 DEF SlabsOwnHeap
<1>10. ObjectsInSlabs' /\ ObjectsApart'
  BY <1>1 DEF ObjectsInSlabs, ObjectsApart
<1> QED BY <1>7, <1>8, <1>9, <1>10 DEF Inv

LEMMA DestroyInv == Inv /\ Destroy => Inv'
<1> SUFFICES ASSUME Inv, Destroy PROVE Inv'
  OBVIOUS
<1>1. /\ phase = "up" /\ phase' = "down" /\ objs' = {} /\ slabs' = <<>>
      /\ currentSlab' = NullPointer /\ UNCHANGED <<storage, capacity>>
  BY DEF Destroy
<1>2. slabs' \in Seq(Slab) /\ Len(slabs') = 0
  BY <1>1, EmptySeq
<1>3. live' = {}
  <2>1. Len(slabs) \in Nat /\ 1 \in 1 .. Len(slabs)
    BY <1>1, LenProperties DEF Inv, TypeOK, CurrentSlabValid
  <2>2. 1 .. Len(slabs) = {1} \cup (2 .. Len(slabs))
    BY <2>1
  <2> QED BY <2>2 DEF Destroy, Inv, SlabsOwnHeap
<1>4. TypeOK'
  BY <1>1, <1>2, <1>3 DEF Inv, TypeOK, NullPointer, Pointer
<1>5. CurrentSlabValid' /\ SlabsOwnHeap' /\ ObjectsInSlabs' /\ ObjectsApart'
  BY <1>1, <1>2, <1>3
     DEF CurrentSlabValid, SlabsOwnHeap, ObjectsInSlabs, ObjectsApart
<1> QED BY <1>4, <1>5 DEF Inv

-----------------------------------------------------------------------------
(* The theorems.                                                           *)

(* Inv is inductive.                                                       *)
THEOREM Invariance == Spec => []Inv
<1>1. Init => Inv
  BY InitInv
<1>2. Inv /\ [Next]_vars => Inv'
  <2> SUFFICES ASSUME Inv, [Next]_vars PROVE Inv'
    OBVIOUS
  <2>1. CASE Construct
    BY <2>1, ConstructInv
  <2>2. CASE \E n \in Sizes : Alloc(n)
    BY <2>2, AllocInv
  <2>3. CASE Clear
    BY <2>3, ClearInv
  <2>4. CASE Destroy
    BY <2>4, DestroyInv
  <2>5. CASE UNCHANGED vars
    BY <2>5 DEF vars, Inv, TypeOK, CurrentSlabValid, SlabsOwnHeap,
                ObjectsInSlabs, ObjectsApart
  <2> QED BY <2>1, <2>2, <2>3, <2>4, <2>5 DEF Next
<1> QED BY <1>1, <1>2, PTL DEF Spec

(* The variables keep their types: in particular no stack pointer passes   *)
(* the end of its slab.                                                    *)
THEOREM TypeCorrect == Spec => []TypeOK
<1>1. Inv => TypeOK
  BY DEF Inv
<1> QED BY <1>1, Invariance, PTL

(* alloc always works on the last slab, in the present storage of the      *)
(* vector: currentSlab never dangles.                                      *)
THEOREM CurrentSlabNeverDangles == Spec => []CurrentSlabValid
<1>1. Inv => CurrentSlabValid
  BY DEF Inv
<1> QED BY <1>1, Invariance, PTL

(* Each live heap block belongs to exactly one slab: nothing is leaked,    *)
(* nothing deleted twice.                                                  *)
THEOREM HeapOwned == Spec => []SlabsOwnHeap
<1>1. Inv => SlabsOwnHeap
  BY DEF Inv
<1> QED BY <1>1, Invariance, PTL

(* What was handed out and not cleared is in live memory ...               *)
THEOREM ObjectsLive == Spec => []ObjectsInSlabs
<1>1. Inv => ObjectsInSlabs
  BY DEF Inv
<1> QED BY <1>1, Invariance, PTL

(* ... and no two objects overlap.                                         *)
THEOREM ObjectsDisjoint == Spec => []ObjectsApart
<1>1. Inv => ObjectsApart
  BY DEF Inv
<1> QED BY <1>1, Invariance, PTL

-----------------------------------------------------------------------------
(* Memory accounting, which rests on Inv: only the last slab is ever       *)
(* bumped, and it becomes an inner one only by a request that did not fit. *)
Accounting == WasteBounded /\ NoHoles

LEMMA InitAccounting == Init => Accounting
<1> SUFFICES ASSUME Init PROVE Accounting
  OBVIOUS
<1>1. Len(slabs) = 0
  BY EmptySeq DEF Init
<1> QED BY <1>1 DEF Accounting, WasteBounded, NoHoles

LEMMA ConstructAccounting == Inv /\ Construct => Accounting'
<1> SUFFICES ASSUME Inv, Construct PROVE Accounting'
  OBVIOUS
<1>1. PICK b \in Blocks \ live : AllocateSlab(b, 0)
  BY DEF Construct
<1>2. Len(slabs) = 0 /\ capacity \in Nat /\ 0 \in 0 .. SlabSize
  BY EmptySeq, SlabSizeAssumption DEF Construct, Inv, SlabsOwnHeap, TypeOK
<1>3. Len(slabs') = 1 /\ slabs'[1] = [data |-> b, rsp |-> 0]
  BY <1>1, <1>2, AllocateSlabEffect DEF Inv
<1> QED BY <1>3 DEF Accounting, WasteBounded, NoHoles

LEMMA BumpAccounting ==
  ASSUME Inv, Accounting, phase = "up", NEW n \in Sizes, ~Full(n), Bump(n)
  PROVE  Accounting'
<1> DEFINE last == Len(slabs)
           new == [block |-> Current.data, lo |-> Current.rsp,
                   hi |-> Current.rsp + n]
<1>1. /\ last \in 1 .. Len(slabs)
      /\ Len(slabs') = Len(slabs)
      /\ \A i \in 1 .. Len(slabs) :
           /\ slabs'[i].data = slabs[i].data
           /\ slabs'[i].rsp = IF i = last THEN slabs[i].rsp + n
                              ELSE slabs[i].rsp
      /\ Current = slabs[last] /\ Current \in Slab
  BY BumpEffect DEF Inv
<1>2. objs' = objs \cup {new} /\ n \in Nat /\ Len(slabs) \in Nat
  BY SizesAssumption, LenProperties DEF Bump, Inv, TypeOK
<1>3. WasteBounded'
  <2> SUFFICES ASSUME NEW i \in 1 .. Len(slabs') - 1
               PROVE  \E m \in Sizes : slabs'[i].rsp + m > SlabSize
    BY DEF WasteBounded
  <2>1. i \in 1 .. Len(slabs) - 1 /\ i \in 1 .. Len(slabs) /\ i # last
    BY <1>1, <1>2
  <2>2. slabs'[i].rsp = slabs[i].rsp
    BY <1>1, <2>1
  <2> QED BY <2>1, <2>2 DEF Accounting, WasteBounded
<1>4. NoHoles'
  <2> SUFFICES ASSUME NEW i \in 1 .. Len(slabs'),
                      NEW x \in 0 .. slabs'[i].rsp - 1
               PROVE  \E o \in objs' : /\ o.block = slabs'[i].data
                                       /\ o.lo <= x /\ x < o.hi
    BY DEF NoHoles
  <2>1. i \in 1 .. Len(slabs) /\ slabs'[i].data = slabs[i].data
    BY <1>1
  <2>2. slabs[i].rsp \in Nat
    <3>1. slabs[i] \in Slab
      BY <2>1, ElementOfSeq DEF Inv, TypeOK
    <3> QED BY <3>1, SlabSizeAssumption DEF Slab
  <2>3. CASE x < slabs[i].rsp
    <3>1. x \in 0 .. slabs[i].rsp - 1
      BY <2>2, <2>3
    <3>2. PICK o \in objs : o.block = slabs[i].data /\ o.lo <= x /\ x < o.hi
      BY <2>1, <3>1 DEF Accounting, NoHoles
    <3> QED BY <1>2, <2>1, <3>2
  <2>4. CASE ~(x < slabs[i].rsp)
    <3>1. slabs'[i].rsp = IF i = last THEN slabs[i].rsp + n
                          ELSE slabs[i].rsp
      BY <1>1, <2>1
    <3>2. i = last
      BY <2>2, <2>4, <3>1
    <3>3. new.block = slabs[i].data /\ new.lo <= x /\ x < new.hi
      BY <1>1, <1>2, <2>2, <2>4, <3>1, <3>2
    <3> QED BY <1>2, <2>1, <3>3
  <2> QED BY <2>3, <2>4
<1> QED BY <1>3, <1>4 DEF Accounting

LEMMA SpillAccounting ==
  ASSUME Inv, Accounting, phase = "up", NEW n \in Sizes, Full(n),
         NEW b \in Blocks \ live, Spill(n, b)
  PROVE  Accounting'
<1> DEFINE new == [block |-> b, lo |-> 0, hi |-> n]
<1>1. Len(slabs) <= capacity /\ Len(slabs) \in Nat \ {0}
      /\ Current = slabs[Len(slabs)]
  BY LenProperties DEF Inv, CurrentSlabValid, TypeOK, Current
<1>2. n \in 0 .. SlabSize /\ n \in Nat
  BY SizesAssumption, SlabSizeAssumption
<1>3. AllocateSlab(b, n) /\ objs' = objs \cup {new}
  BY DEF Spill
<1>4. /\ Len(slabs') = Len(slabs) + 1
      /\ \A i \in 1 .. Len(slabs) : slabs'[i] = slabs[i]
      /\ slabs'[Len(slabs')] = [data |-> b, rsp |-> n]
  BY <1>1, <1>2, <1>3, AllocateSlabEffect DEF Inv
<1>5. WasteBounded'
  <2> SUFFICES ASSUME NEW i \in 1 .. Len(slabs') - 1
               PROVE  \E m \in Sizes : slabs'[i].rsp + m > SlabSize
    BY DEF WasteBounded
  <2>1. i \in 1 .. Len(slabs) /\ slabs'[i] = slabs[i]
    BY <1>1, <1>4
  <2>2. CASE i = Len(slabs)
    BY <1>1, <2>1, <2>2 DEF Full
  <2>3. CASE i # Len(slabs)
    <3>1. i \in 1 .. Len(slabs) - 1
      BY <1>1, <2>1, <2>3
    <3> QED BY <2>1, <3>1 DEF Accounting, WasteBounded
  <2> QED BY <2>2, <2>3
<1>6. NoHoles'
  <2> SUFFICES ASSUME NEW i \in 1 .. Len(slabs'),
                      NEW x \in 0 .. slabs'[i].rsp - 1
               PROVE  \E o \in objs' : /\ o.block = slabs'[i].data
                                       /\ o.lo <= x /\ x < o.hi
    BY DEF NoHoles
  <2>1. CASE i \in 1 .. Len(slabs)
    <3>1. slabs'[i] = slabs[i]
      BY <1>4, <2>1
    <3>2. PICK o \in objs : o.block = slabs[i].data /\ o.lo <= x /\ x < o.hi
      BY <2>1, <3>1 DEF Accounting, NoHoles
    <3> QED BY <1>3, <3>1, <3>2
  <2>2. CASE i = Len(slabs')
    <3>1. slabs'[i].data = b /\ slabs'[i].rsp = n
      BY <1>4, <2>2
    <3>2. x \in 0 .. n - 1
      BY <3>1
    <3>3. new.block = slabs'[i].data /\ new.lo <= x /\ x < new.hi
      BY <1>2, <3>1, <3>2
    <3> QED BY <1>3, <3>3
  <2> QED BY <1>1, <1>4, <2>1, <2>2
<1> QED BY <1>5, <1>6 DEF Accounting

(* The rest of a slab that is given up is smaller than some request, and   *)
(* every byte below a stack pointer belongs to an object: the allocator    *)
(* wastes no memory but those rests.                                       *)
THEOREM MemoryAccounted == Spec => [](WasteBounded /\ NoHoles)
<1>1. Init => Accounting
  BY InitAccounting
<1>2. Inv /\ Accounting /\ [Next]_vars => Accounting'
  <2> SUFFICES ASSUME Inv, Accounting, [Next]_vars PROVE Accounting'
    OBVIOUS
  <2>1. CASE Construct
    BY <2>1, ConstructAccounting
  <2>2. ASSUME NEW n \in Sizes, Alloc(n) PROVE Accounting'
    BY <2>2, BumpAccounting, SpillAccounting DEF Alloc
  <2>3. CASE Clear
    <3>1. Len(slabs') = 1 /\ slabs'[1].rsp = 0
      <4>1. slabs[1] \in Slab
        BY <2>3, ElementOfSeq, LenProperties
           DEF Clear, Inv, TypeOK, CurrentSlabValid
      <4>2. slabs' = <<[slabs[1] EXCEPT !.rsp = 0]>>
        BY <2>3 DEF Clear
      <4> QED BY <4>1, <4>2 DEF Slab
    <3> QED BY <3>1 DEF Accounting, WasteBounded, NoHoles
  <2>4. CASE Destroy
    <3>1. Len(slabs') = 0
      BY <2>4, EmptySeq DEF Destroy
    <3> QED BY <3>1 DEF Accounting, WasteBounded, NoHoles
  <2>5. CASE UNCHANGED vars
    BY <2>5 DEF vars, Accounting, WasteBounded, NoHoles
  <2> QED BY <2>1, <2>2, <2>3, <2>4, <2>5 DEF Next
<1>3. Accounting => WasteBounded /\ NoHoles
  BY DEF Accounting
<1> QED BY <1>1, <1>2, <1>3, Invariance, PTL DEF Spec

-----------------------------------------------------------------------------
(* The refinement: every step hands out free memory, takes all of it back, *)
(* or leaves what is handed out alone.                                     *)

LEMMA BumpIsAlloc ==
  ASSUME Inv, phase = "up", NEW n \in Sizes, ~Full(n), Bump(n)
  PROVE  Abstract!Alloc
<1> DEFINE new == [block |-> Current.data, lo |-> Current.rsp,
                   hi |-> Current.rsp + n]
<1>1. Current \in Slab /\ Current.rsp + n \in 0 .. SlabSize
  BY BumpEffect DEF Inv
<1>2. new \in Abstract!Region /\ new.hi = new.lo + n
  BY <1>1 DEF Slab, Abstract!Region
<1>3. \A o \in objs : Abstract!Apart(new, o)
  BY BumpFresh DEF Apart, Abstract!Apart
<1>4. objs' = objs \cup {new}
  BY DEF Bump
<1> QED BY <1>2, <1>3, <1>4 DEF Abstract!Alloc

LEMMA SpillIsAlloc ==
  ASSUME Inv, phase = "up", NEW n \in Sizes, NEW b \in Blocks \ live,
         Spill(n, b)
  PROVE  Abstract!Alloc
<1> DEFINE new == [block |-> b, lo |-> 0, hi |-> n]
<1>1. n \in 0 .. SlabSize /\ 0 \in 0 .. SlabSize /\ n = 0 + n
  BY SizesAssumption, SlabSizeAssumption
<1>2. new \in Abstract!Region /\ new.hi = new.lo + n
  BY <1>1 DEF Abstract!Region
<1>3. \A o \in objs : Abstract!Apart(new, o)
  BY SpillFresh DEF Apart, Abstract!Apart
<1>4. objs' = objs \cup {new}
  BY DEF Spill
<1> QED BY <1>2, <1>3, <1>4 DEF Abstract!Alloc

(* The slab allocator implements the interface Allocator: whatever the     *)
(* slabs do, its user sees an arena that hands out memory nobody holds and *)
(* takes all of it back at once.                                           *)
THEOREM Refinement == Spec => ImplementsArena
<1>1. Init => Abstract!Init
  BY DEF Init, Abstract!Init
<1>2. Inv /\ [Next]_vars => [Abstract!Next]_objs
  <2> SUFFICES ASSUME Inv, [Next]_vars PROVE [Abstract!Next]_objs
    OBVIOUS
  <2>1. CASE Construct
    BY <2>1 DEF Construct
  <2>2. ASSUME NEW n \in Sizes, Alloc(n) PROVE Abstract!Alloc
    BY <2>2, BumpIsAlloc, SpillIsAlloc DEF Alloc
  <2>3. CASE Clear \/ Destroy
    BY <2>3 DEF Clear, Destroy, Abstract!Next, Abstract!Clear
  <2>4. CASE UNCHANGED vars
    BY <2>4 DEF vars
  <2> QED BY <2>1, <2>2, <2>3, <2>4 DEF Next, Abstract!Next
<1> QED BY <1>1, <1>2, Invariance, PTL DEF Spec, ImplementsArena, Abstract!Spec
=============================================================================
