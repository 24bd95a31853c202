------------------------------- MODULE Blocks -------------------------------
(***************************************************************************)
(* The body of an LLVM function as code generation (src/core/AST.cpp) sees *)
(* it.  The first half is external: what the code uses of llvm::IRBuilder, *)
(* llvm::BasicBlock and verifyFunction.  The second half are the pieces of *)
(* control flow that IfAST, ForAST and FunctionAST emit around the code of *)
(* their children; module ControlFlow interleaves them with the events of  *)
(* a program, module CodegenOps with the trees of the parser.              *)
(*                                                                         *)
(* A body f has its blocks f.code, numbered as they are created (the first *)
(* is the entry), the set f.placed of those that were inserted into the    *)
(* function, and the builder's insert point f.ip, a block.                 *)
(***************************************************************************)
EXTENDS Integers, Sequences

Instruction(op, what, to) == [op |-> op, what |-> what, to |-> to]
Work(what) == Instruction("work", what, <<>>)
Br(b) == Instruction("br", {}, <<b>>)
CondBr(what, b, c) == Instruction("condbr", what, <<b, c>>)
Ret(what) == Instruction("ret", what, <<>>)
RetVoid == Instruction("retvoid", {}, <<>>)

Terminators == {"br", "condbr", "ret", "retvoid"}
IsTerminator(i) == i.op \in Terminators

NoBody == [code |-> <<>>, placed |-> {}, ip |-> 0]

(* BasicBlock::Create without a parent, insertion into the function,       *)
(* IRBuilder::SetInsertPoint and the Create... methods of the builder.     *)
Create(f) == [f EXCEPT !.code = Append(@, <<>>)]
Place(f, b) == [f EXCEPT !.placed = @ \cup {b}]
At(f, b) == [f EXCEPT !.ip = b]
Emit(f, i) == [f EXCEPT !.code[f.ip] = Append(@, i)]

(* A block ends in its only terminator. *)
Closed(c) == c # <<>> /\ \A i \in 1 .. Len(c) : IsTerminator(c[i]) <=> i = Len(c)
(* Where a branch may go: into the function, and never to its entry. *)
Lands(f, i) == \A k \in 1 .. Len(i.to) : i.to[k] \in f.placed \ {1}
(* A function returns a value or is void. *)
Returns(i, void) == i.op # IF void THEN "ret" ELSE "retvoid"

(* What verifyFunction asks of the blocks of a function. *)
Verified(f, void) ==
  \A b \in f.placed :
    /\ Closed(f.code[b])
    /\ \A i \in 1 .. Len(f.code[b]) :
         Lands(f, f.code[b][i]) /\ Returns(f.code[b][i], void)
-----------------------------------------------------------------------------
(* FunctionAST::codegen: the entry block, and the end of the body.  Only a *)
(* void function that did not return by itself gets a terminator here.     *)
FunctionHead == At(Place(Create(NoBody), 1), 1)
FunctionEnd(f, void, hasTerminator) ==
  IF ~hasTerminator /\ void THEN Emit(f, RetVoid) ELSE f

Fresh(f, k) == Len(f.code) + k

(* IfAST::codegen up to its branches, c being the condition: then is in    *)
(* the function from the start, else and merge are not yet.                *)
IfHead(f, c) ==
  LET g == Place(Create(Create(Create(f))), Fresh(f, 1))
  IN  At(Emit(g, CondBr(c, Fresh(f, 1), Fresh(f, 2))), Fresh(f, 1))

(* A wrong version, which lets then fall through. *)
IfElseFalls(f, else, merge) == At(Place(f, else), else)

(* Between the branches: then jumps over else. *)
IfElse(f, else, merge) == At(Place(Emit(f, Br(merge)), else), else)

(* After them.  The jump from else to merge is only generated when there   *)
(* are statements in else.  The first is a wrong version, which leaves the *)
(* merge block out of the function.                                        *)
IfEndUnplaced(f, merge, hasElse) ==
  At(IF hasElse THEN Emit(f, Br(merge)) ELSE f, merge)

IfEnd(f, merge, hasElse) ==
  At(Place(IF hasElse THEN Emit(f, Br(merge)) ELSE f, merge), merge)

(* ForAST::codegen before the first evaluation of the condition, and from  *)
(* there, c being its value, to the body.                                  *)
ForBlocks(f) ==
  Place(Place(Create(Create(f)), Fresh(f, 1)), Fresh(f, 2))
ForEnter(f, c, loop, after) == At(Emit(f, CondBr(c, loop, after)), loop)

(* And after the increment: c is the condition evaluated again, LoopEndBB  *)
(* the block the builder is in by then.                                    *)
ForEnd(f, c, after) == At(Emit(f, CondBr(c, f.ip, after)), after)
=============================================================================
