----------------------------- MODULE MCFactory ------------------------------
(***************************************************************************)
(* A small instance of FactoryAST: two node types, of one and two words,   *)
(* in slabs of three words.                                                *)
(***************************************************************************)
EXTENDS FactoryAST, TLC

Heap == Permutations(Blocks)
MCSizes == {1, 2}
MCSizeof == [k \in NodeKinds |-> IF k = "NumberExprAST" THEN 1 ELSE 2]
=============================================================================
