------------------------------ MODULE MCSlab -------------------------------
(***************************************************************************)
(* A small instance of SlabAllocator: five heap blocks, slabs of four       *)
(* bytes, requests of one to three, so that slabs are given up with room   *)
(* left and the vector of slabs moves three times.                         *)
(***************************************************************************)
EXTENDS SlabAllocator, TLC

Heap == Permutations(Blocks)
=============================================================================
