--------------------------- MODULE CompilerTyping ---------------------------
(***************************************************************************)
(* What the compiler accepts, compared with the judgement of module        *)
(* Typing.  Both walk trees of any depth, so that the definitions of this  *)
(* comparison are recursive.                                               *)
(***************************************************************************)
EXTENDS Compiler, ParserTrees

T == INSTANCE Typing

(* Where Kinds is closed. *)
KindsOf(tree) == {n.kind : n \in Subtrees(tree)}

(* The types a tree was compiled under. *)
KnownTypes ==
  [name \in DOMAIN compiled.known |-> T!Signature(compiled.known[name])]

(* A new function is accepted exactly when it is well typed (module        *)
(* Typing) and each of its ifs has an else and it returns at its end: the  *)
(* datatypes and flags the nodes carry, the conversions they cause and the *)
(* LLVM types agree, and what the verifier refuses is ill typed.  This     *)
(* leaves out what Typing cannot judge, unset flags that read as true, and *)
(* functions whose type an extern has changed.                             *)
TypingDecides ==
  clean /\ gen.redeclared = {} /\ compiled.fresh =>
    LET verdict == T!Verdict(compiled.tree, KnownTypes)
    IN  verdict # "?" => (compiled.accepted <=> verdict = "well")
=============================================================================
