----------------------------- MODULE FactoryAST -----------------------------
(***************************************************************************)
(* The struct FactoryAST of include/core/factoryAST.h, on top of its       *)
(* SlabAllocator member: nodes are constructed in the allocator's memory,  *)
(* remembered in `ptrs`, and destroyed one by one by the destructor before *)
(* the allocator itself goes.  A node owns heap data of its own (strings,  *)
(* vectors), which only its destructor releases.                           *)
(***************************************************************************)
EXTENDS SlabAllocator

CONSTANTS NodeKinds,     \* the node types
          sizeof         \* their sizes

ASSUME SizeofAssumption == /\ sizeof \in [NodeKinds -> Sizes]
                           /\ Sizes = {sizeof[k] : k \in NodeKinds}

VARIABLES ptrs,          \* the nodes in the order they were made
          next           \* the destructor's loop: 0 before it is entered

fvars == <<vars, ptrs, next>>

FInit == Init /\ ptrs = <<>> /\ next = 0

(* The member initialisers. *)
Create == Construct /\ UNCHANGED <<ptrs, next>>

(* A wrong version, which does not remember the node. *)
allocASTNodeForgets(k) ==
  /\ next = 0
  /\ Alloc(sizeof[k])
  /\ UNCHANGED <<ptrs, next>>

(* allocASTNode<T>: alloc(sizeof(T)), placement new, push_back. *)
allocASTNode(k) ==
  /\ next = 0
  /\ Alloc(sizeof[k])
  /\ ptrs' = Append(ptrs, CHOOSE o \in objs' : o \notin objs)
  /\ UNCHANGED next

(* The destructor is entered ... *)
BeginDestroy ==
  /\ phase = "up" /\ next = 0
  /\ next' = 1
  /\ UNCHANGED <<vars, ptrs>>

(* ... calls ptr->~ExprAST() for each node ... *)
DestroyNode ==
  /\ phase = "up" /\ next \in 1 .. Len(ptrs)
  /\ next' = next + 1
  /\ UNCHANGED <<vars, ptrs>>

(* A wrong order: the memory goes while destructors are still to run. *)
EndDestroyEarly ==
  /\ next > 0
  /\ Destroy
  /\ UNCHANGED <<ptrs, next>>

(* ... and then destroys the members, the allocator first. *)
EndDestroy ==
  /\ next > Len(ptrs)
  /\ Destroy
  /\ UNCHANGED <<ptrs, next>>

FNext == \/ Create
         \/ \E k \in NodeKinds : allocASTNode(k)
         \/ BeginDestroy \/ DestroyNode \/ EndDestroy

FSpec == FInit /\ [][FNext]_fvars
-----------------------------------------------------------------------------
(* The nodes whose destructor has not run. *)
Undestroyed == {i \in 1 .. Len(ptrs) : next <= i}

(* A node that still has to be destroyed lies in memory the allocator has  *)
(* neither taken back nor deleted, so ~ExprAST never runs on freed memory. *)
NodesOutliveMemory ==
  \A i \in Undestroyed : ptrs[i] \in objs /\ ptrs[i].block \in live

(* Every construction is paired with one destruction: two entries of ptrs  *)
(* are never the same memory, all memory handed out is a node of ptrs, and *)
(* the memory goes only after the last destructor has run.                 *)
ConstructedDestroyed ==
  /\ \A i, j \in 1 .. Len(ptrs) : i # j => Apart(ptrs[i], ptrs[j])
  /\ objs \subseteq {ptrs[i] : i \in 1 .. Len(ptrs)}
  /\ phase = "down" => Undestroyed = {}
=============================================================================
