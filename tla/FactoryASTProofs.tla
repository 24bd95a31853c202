-------------------------- MODULE FactoryASTProofs --------------------------
(***************************************************************************)
(* Proofs about FactoryAST, for every set of node types and whatever the   *)
(* slabs of its allocator do: the lifetimes of the nodes.                  *)
(***************************************************************************)
EXTENDS FactoryAST, SlabAllocatorProofs

(* A factory uses its allocator as anybody may: each of its steps is one   *)
(* of the allocator's or leaves it alone.                                  *)
LEMMA FactorySteps == [FNext]_fvars => [Next]_vars
<1> SUFFICES ASSUME [FNext]_fvars PROVE [Next]_vars
  OBVIOUS
<1>1. CASE Create
  BY <1>1 DEF Create, Next
<1>2. ASSUME NEW k \in NodeKinds, allocASTNode(k) PROVE Next
  <2>1. sizeof[k] \in Sizes
    BY SizeofAssumption
  <2> QED
    BY <1>2, <2>1 DEF allocASTNode, Next
<1>3. CASE BeginDestroy \/ DestroyNode
  BY <1>3 DEF BeginDestroy, DestroyNode
<1>4. CASE EndDestroy
  BY <1>4 DEF EndDestroy, Next
<1>5. CASE UNCHANGED fvars
  BY <1>5 DEF fvars
<1> QED
  BY <1>1, <1>2, <1>3, <1>4, <1>5 DEF FNext

(* So all that is proved of an allocator holds of the factory's. *)
LEMMA FactoryAllocates == FSpec => Spec
<1>1. FInit => Init
  BY DEF FInit
<1> QED
  BY <1>1, FactorySteps, PTL DEF FSpec, Spec
-----------------------------------------------------------------------------
(* Until the destructor is done the memory handed out is exactly that of   *)
(* the nodes, each at a place of its own; the allocator is alive as long   *)
(* as a destructor has to run.                                             *)
Nodes == {ptrs[i] : i \in 1 .. Len(ptrs)}
Lifetimes ==
  /\ ptrs \in Seq(Object) /\ next \in Nat
  /\ \A i, j \in 1 .. Len(ptrs) : i # j => Apart(ptrs[i], ptrs[j])
  /\ phase # "down" => objs = Nodes
  /\ phase = "down" => objs = {} /\ next > Len(ptrs)

(* An allocation hands out one object, which is new and apart from all. *)
LEMMA AllocHandsOut ==
  ASSUME Inv, NEW n \in Sizes, Alloc(n)
  PROVE  \E new \in Object :
           /\ objs' = objs \cup {new} /\ new \notin objs
           /\ \A o \in objs : Apart(o, new) /\ Apart(new, o)
<1>1. Abstract!Alloc
  BY BumpIsAlloc, SpillIsAlloc DEF Alloc
<1>2. PICK m \in Sizes : \E r \in Abstract!Region :
         /\ r.hi = r.lo + m
         /\ \A s \in objs : Abstract!Apart(r, s)
         /\ objs' = objs \cup {r}
  BY <1>1 DEF Abstract!Alloc
<1>3. PICK new \in Abstract!Region :
         /\ new.hi = new.lo + m
         /\ \A s \in objs : Abstract!Apart(new, s)
         /\ objs' = objs \cup {new}
  BY <1>2
<1>4. new \in Object
  BY DEF Object, Abstract!Region
<1>5. \A o \in objs : Apart(o, new) /\ Apart(new, o)
  BY <1>3 DEF Apart, Abstract!Apart
<1>6. ~Apart(new, new)
  <2>1. m \in Nat \ {0} /\ new.lo \in Int
    BY <1>4, SizesAssumption, SlabSizeAssumption DEF Object
  <2> QED
    BY <1>3, <2>1 DEF Apart
<1> QED
  BY <1>3, <1>4, <1>5, <1>6

(* An allocation and its entry in ptrs. *)
LEMMA NodeMade ==
  ASSUME Inv, Lifetimes, NEW k \in NodeKinds, allocASTNode(k)
  PROVE  Lifetimes'
<1>1. sizeof[k] \in Sizes /\ Alloc(sizeof[k]) /\ phase = "up" /\ phase' = "up"
      /\ next' = next
  BY SizeofAssumption DEF allocASTNode, Alloc
<1>2. PICK new \in Object :
        /\ objs' = objs \cup {new} /\ new \notin objs
        /\ \A o \in objs : Apart(o, new) /\ Apart(new, o)
  BY <1>1, AllocHandsOut
<1>3. (CHOOSE o \in objs' : o \notin objs) = new
  BY <1>2
<1>4. ptrs' = Append(ptrs, new)
  BY <1>3 DEF allocASTNode
<1> DEFINE n == Len(ptrs)
<1>5. /\ ptrs' \in Seq(Object) /\ n \in Nat /\ Len(ptrs') = n + 1
      /\ ptrs'[n + 1] = new /\ \A i \in 1 .. n : ptrs'[i] = ptrs[i]
  BY <1>4 DEF Lifetimes
<1> HIDE DEF n
<1>6. \A i \in 1 .. n + 1 : (i \in 1 .. n /\ ptrs'[i] = ptrs[i]) \/ (i = n + 1 /\ ptrs'[i] = new)
  BY <1>5
<1>7. \A i \in 1 .. n : ptrs[i] \in objs
  BY <1>1 DEF Lifetimes, Nodes, n
<1>8. objs' = Nodes'
  <2>1. objs = {ptrs[i] : i \in 1 .. n}
    BY <1>1 DEF Lifetimes, Nodes, n
  <2>2. Nodes' = {ptrs'[i] : i \in 1 .. n + 1}
    BY <1>5 DEF Nodes
  <2>3. 1 .. n \subseteq 1 .. n + 1 /\ n + 1 \in 1 .. n + 1
    BY <1>5
  <2> QED
    BY <1>2, <1>5, <1>6, <2>1, <2>2, <2>3
<1>9. \A i, j \in 1 .. n + 1 : i # j => Apart(ptrs'[i], ptrs'[j])
  <2> TAKE i, j \in 1 .. n + 1
  <2> HAVE i # j
  <2>1. CASE i \in 1 .. n /\ j \in 1 .. n
    BY <1>5, <2>1 DEF Lifetimes, n
  <2>2. CASE i \in 1 .. n /\ j = n + 1
    BY <1>2, <1>5, <1>7, <2>2
  <2>3. CASE i = n + 1 /\ j \in 1 .. n
    BY <1>2, <1>5, <1>7, <2>3
  <2> QED
    BY <1>6, <2>1, <2>2, <2>3
<1> QED
  BY <1>1, <1>5, <1>8, <1>9 DEF Lifetimes

(* Every step of a factory. *)
LEMMA LifetimesStep == Inv /\ Lifetimes /\ [FNext]_fvars => Lifetimes'
<1> SUFFICES ASSUME Inv, Lifetimes, [FNext]_fvars PROVE Lifetimes'
  OBVIOUS
<1>1. CASE Create
  BY <1>1 DEF Create, Construct, Lifetimes, Nodes
<1>2. CASE \E k \in NodeKinds : allocASTNode(k)
  BY <1>2, NodeMade
<1>3. CASE BeginDestroy \/ DestroyNode
  BY <1>3 DEF BeginDestroy, DestroyNode, vars, Lifetimes, Nodes
<1>4. CASE EndDestroy
  BY <1>4 DEF EndDestroy, Destroy, Lifetimes, Nodes
<1>5. CASE UNCHANGED fvars
  BY <1>5 DEF fvars, vars, Lifetimes, Nodes
<1> QED
  BY <1>1, <1>2, <1>3, <1>4, <1>5 DEF FNext

LEMMA LifetimesHold == FSpec => [](Inv /\ Lifetimes)
<1>1. FInit => Lifetimes
  <2> SUFFICES ASSUME FInit PROVE Lifetimes
    OBVIOUS
  <2>1. ptrs = <<>> /\ Len(ptrs) = 0 /\ next = 0 /\ phase = "raw" /\ objs = {}
    BY DEF FInit, Init
  <2> QED
    BY <2>1 DEF Lifetimes, Nodes
<1> QED
  BY <1>1, FactoryAllocates, Invariance, LifetimesStep, PTL DEF FSpec
-----------------------------------------------------------------------------
(* ~ExprAST never runs on memory that the allocator has taken back or      *)
(* deleted, whatever nodes a factory makes and in however many slabs.      *)
THEOREM NodesNeverDangle == FSpec => []NodesOutliveMemory
<1>1. Inv /\ Lifetimes => NodesOutliveMemory
  <2> SUFFICES ASSUME Inv, Lifetimes, NEW i \in Undestroyed
               PROVE  ptrs[i] \in objs /\ ptrs[i].block \in live
    BY DEF NodesOutliveMemory
  <2>1. i \in 1 .. Len(ptrs) /\ next <= i
    BY DEF Undestroyed
  <2>2. Len(ptrs) \in Nat /\ next \in Nat
    BY DEF Lifetimes
  <2>3. phase # "down"
    BY <2>1, <2>2 DEF Lifetimes
  <2>4. ptrs[i] \in objs
    BY <2>1, <2>3 DEF Lifetimes, Nodes
  <2>5. PICK s \in 1 .. Len(slabs) : Within(ptrs[i], slabs[s])
    BY <2>4 DEF Inv, ObjectsInSlabs
  <2>6. ptrs[i].block \in live
    BY <2>5 DEF Within, Inv, SlabsOwnHeap
  <2> QED
    BY <2>4, <2>6
<1> QED
  BY <1>1, LifetimesHold, PTL

(* Each node is constructed in memory of its own and destroyed once before *)
(* its memory goes, and there is no memory handed out that is no node's.   *)
THEOREM DestroyedOnce == FSpec => []ConstructedDestroyed
<1>1. Lifetimes => ConstructedDestroyed
  <2> SUFFICES ASSUME Lifetimes PROVE ConstructedDestroyed
    OBVIOUS
  <2>1. objs \subseteq {ptrs[i] : i \in 1 .. Len(ptrs)}
    BY DEF Lifetimes, Nodes
  <2>2. phase = "down" => Undestroyed = {}
    <3>1. Len(ptrs) \in Nat /\ next \in Nat
      BY DEF Lifetimes
    <3> QED
      BY <3>1 DEF Lifetimes, Undestroyed
  <2> QED
    BY <2>1, <2>2 DEF Lifetimes, ConstructedDestroyed
<1> QED
  BY <1>1, LifetimesHold, PTL
=============================================================================
