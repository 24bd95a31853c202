---------------------------- MODULE ControlFlow ----------------------------
(***************************************************************************)
(* FunctionAST::codegen (src/core/AST.cpp) on the body of one function,    *)
(* then a run of what it generated.  While pc is "building" each action is *)
(* one event of the recursive walk: a statement that is no control flow, a *)
(* return, the way into an if, from then to else, out of it, into and out  *)
(* of a for, a child that fails to generate.  The frames are the calls of  *)
(* IfAST::codegen and ForAST::codegen in progress.  The statements         *)
(* themselves, and the expressions of conditions, are numbered and         *)
(* otherwise abstract; conditions have the type a branch needs.            *)
(*                                                                         *)
(* body, then and outer gather the program as the source says it, which    *)
(* module Structured gives a meaning to; todo follows that meaning during  *)
(* the run.                                                                *)
(***************************************************************************)
EXTENDS Blocks

CONSTANTS MaxNodes,      \* bound: statements and constructs of a body
          MaxDepth,      \* bound: nesting
          Nested,        \* run functions with control flow inside a loop
          Buried         \* run functions that return inside a branch or loop

ASSUME BoundsAssumption == MaxNodes \in Nat /\ MaxDepth \in Nat
ASSUME RunsAssumption == Nested \in BOOLEAN /\ Buried \in BOOLEAN

VARIABLES fn,            \* the llvm::Function and the builder's insert point
          frames,        \* constructs being generated, innermost last
          void,          \* the function returns nothing
          hasTerminator, \* the local of that name in FunctionAST::codegen
          pc,            \* "building", "failed", "refused", "accepted",
                         \* "running", "returned"
          nodes,         \* nodes of the body met so far
          body,          \* what was met of the innermost construct
          late,          \* history: code was generated after a return
          bare,          \* history: an if without else was generated
          nested, buried,\* history: what Nested and Buried are about
          at,            \* the instruction that runs next
          todo           \* history: what the program still has to do

vars == <<fn, frames, void, hasTerminator, pc, nodes, body, late, bare,
          nested, buried, at, todo>>

S == INSTANCE Structured WITH program <- body

Tree(kind) == [kind |-> kind, id |-> nodes + 1]

(* kind is "if" in the then branch, "else" in the other, or "for"; next is *)
(* the merge or the afterloop block, alt the else block.                   *)
Frame(kind, alt, next) ==
  [kind |-> kind, id |-> nodes + 1, alt |-> alt, next |-> next,
   outer |-> body, then |-> <<>>]
Top == frames[Len(frames)]
Outer == SubSeq(frames, 1, Len(frames) - 1)
InLoop == \E i \in 1 .. Len(frames) : frames[i].kind = "for"

TypeOK ==
  /\ Len(fn.code) \in Nat \ {0}
  /\ 1 \in fn.placed /\ fn.placed \subseteq 1 .. Len(fn.code)
  /\ fn.ip \in fn.placed
  /\ Len(frames) <= MaxDepth
  /\ \A i \in 1 .. Len(frames) :
       /\ frames[i].kind \in {"if", "else", "for"}
       /\ {frames[i].alt, frames[i].next} \subseteq 2 .. Len(fn.code)
  /\ void \in BOOLEAN /\ hasTerminator \in BOOLEAN
  /\ pc \in {"building", "failed", "refused", "accepted", "running",
             "returned"}
  /\ nodes \in 0 .. MaxNodes
  /\ late \in BOOLEAN /\ bare \in BOOLEAN
  /\ nested \in BOOLEAN /\ buried \in BOOLEAN

Init ==
  /\ fn = FunctionHead
  /\ frames = <<>>
  /\ void \in BOOLEAN
  /\ hasTerminator = FALSE
  /\ pc = "building"
  /\ nodes = 0
  /\ body = <<>>
  /\ late = FALSE /\ bare = FALSE /\ nested = FALSE /\ buried = FALSE
  /\ at = <<1, 1>>
  /\ todo = S!Idle

idle == <<at, todo>>

(* What an event that generates code does besides. *)
Building ==
  /\ pc = "building"
  /\ late' = (late \/ hasTerminator)
  /\ UNCHANGED <<void, pc, idle>>
Meet == nodes < MaxNodes /\ nodes' = nodes + 1
Open == Len(frames) < MaxDepth

(* A statement of the function, a branch or a loop: its value is all that  *)
(* is asked for.                                                           *)
Statement ==
  /\ Building /\ Meet
  /\ fn' = Emit(fn, Work(S!Done("work", nodes + 1)))
  /\ body' = Append(body, Tree("work"))
  /\ UNCHANGED <<frames, hasTerminator, bare, nested, buried>>

(* FunctionAST looks at isReturn of the statements of its own body.        *)
Return ==
  /\ Building /\ Meet
  /\ frames = <<>>
  /\ LET value == S!Done("work", nodes + 1)
     IN  fn' = Emit(Emit(fn, Work(value)), Ret(value))
  /\ hasTerminator' = TRUE
  /\ body' = Append(body, Tree("return"))
  /\ UNCHANGED <<frames, bare, nested, buried>>

(* IfAST and ForAST do not: there a return is a statement like another.    *)
BuriedReturn ==
  /\ Building /\ Meet
  /\ frames # <<>>
  /\ fn' = Emit(fn, Work(S!Done("work", nodes + 1)))
  /\ body' = Append(body, Tree("return"))
  /\ buried' = TRUE
  /\ UNCHANGED <<frames, hasTerminator, bare, nested>>

EnterIf ==
  /\ Building /\ Meet /\ Open
  /\ fn' = IfHead(fn, nodes + 1)
  /\ frames' = Append(frames, Frame("if", Fresh(fn, 2), Fresh(fn, 3)))
  /\ body' = <<>>
  /\ nested' = (nested \/ InLoop)
  /\ UNCHANGED <<hasTerminator, bare, buried>>

IfTree(then, else) == [kind |-> "if", id |-> Top.id, then |-> then, else |-> else]

(* From then to an else that has statements. *)
Else ==
  /\ Building
  /\ frames # <<>> /\ Top.kind = "if"
  /\ fn' = IfElse(fn, Top.alt, Top.next)
  /\ frames' = Append(Outer, [Top EXCEPT !.kind = "else", !.then = body])
  /\ body' = <<>>
  /\ UNCHANGED <<hasTerminator, nodes, bare, nested, buried>>

(* Out of an if, with such an else and without. *)
EndElse ==
  /\ Building
  /\ frames # <<>> /\ Top.kind = "else" /\ body # <<>>
  /\ fn' = IfEnd(fn, Top.next, TRUE)
  /\ frames' = Outer
  /\ body' = Append(Top.outer, IfTree(Top.then, body))
  /\ UNCHANGED <<hasTerminator, nodes, bare, nested, buried>>

EndIf ==
  /\ Building
  /\ frames # <<>> /\ Top.kind = "if"
  /\ fn' = IfEnd(IfElse(fn, Top.alt, Top.next), Top.next, FALSE)
  /\ frames' = Outer
  /\ body' = Append(Top.outer, IfTree(body, <<>>))
  /\ bare' = TRUE
  /\ UNCHANGED <<hasTerminator, nodes, nested, buried>>

EnterFor ==
  /\ Building /\ Meet /\ Open
  /\ fn' = ForEnter(ForBlocks(Emit(fn, Work(S!Done("init", nodes + 1)))),
                    nodes + 1, Fresh(fn, 1), Fresh(fn, 2))
  /\ frames' = Append(frames, Frame("for", Fresh(fn, 2), Fresh(fn, 2)))
  /\ body' = <<>>
  /\ nested' = (nested \/ InLoop)
  /\ UNCHANGED <<hasTerminator, bare, buried>>

(* A wrong version, which forgets the increment. *)
EndForStill ==
  /\ Building
  /\ frames # <<>> /\ Top.kind = "for"
  /\ fn' = ForEnd(fn, Top.id, Top.next)
  /\ frames' = Outer
  /\ body' = Append(Top.outer, [kind |-> "for", id |-> Top.id, body |-> body])
  /\ UNCHANGED <<hasTerminator, nodes, bare, nested, buried>>

EndFor ==
  /\ Building
  /\ frames # <<>> /\ Top.kind = "for"
  /\ fn' = ForEnd(Emit(fn, Work(S!Done("step", Top.id))), Top.id, Top.next)
  /\ frames' = Outer
  /\ body' = Append(Top.outer, [kind |-> "for", id |-> Top.id, body |-> body])
  /\ UNCHANGED <<hasTerminator, nodes, bare, nested, buried>>

(* A child returned nullptr: every codegen on the way up returns it, and   *)
(* the function stays as it is.                                            *)
Fail ==
  /\ pc = "building"
  /\ pc' = "failed"
  /\ UNCHANGED <<fn, frames, void, hasTerminator, nodes, body, late, bare,
                 nested, buried, idle>>

EndFunction ==
  /\ pc = "building"
  /\ frames = <<>>
  /\ fn' = FunctionEnd(fn, void, hasTerminator)
  /\ pc' = IF Verified(fn', void) THEN "accepted" ELSE "refused"
  /\ UNCHANGED <<frames, void, hasTerminator, nodes, body, late, bare,
                 nested, buried, idle>>
-----------------------------------------------------------------------------
(* The run: external, what LLVM instructions do. *)
Running == pc = "running"
built == <<fn, frames, void, hasTerminator, nodes, body, late, bare, nested,
           buried>>
Instr == fn.code[at[1]][at[2]]

Run ==
  /\ pc = "accepted"
  /\ nested => Nested
  /\ buried => Buried
  /\ pc' = "running"
  /\ at' = <<1, 1>>
  /\ todo' = body
  /\ UNCHANGED built

RunWork ==
  /\ Running /\ Instr.op = "work"
  /\ at' = <<at[1], at[2] + 1>>
  /\ todo' = S!Advance(todo, Instr.what)
  /\ UNCHANGED <<built, pc>>

RunBr ==
  /\ Running /\ Instr.op = "br"
  /\ at' = <<Instr.to[1], 1>>
  /\ UNCHANGED <<built, pc, todo>>

RunCondBr ==
  /\ Running /\ Instr.op = "condbr"
  /\ \E holds \in BOOLEAN :
       /\ at' = <<Instr.to[IF holds THEN 1 ELSE 2], 1>>
       /\ todo' = S!Advance(todo, S!Tested(Instr.what, holds))
  /\ UNCHANGED <<built, pc>>

RunRet ==
  /\ Running /\ Instr.op \in {"ret", "retvoid"}
  /\ pc' = "returned"
  /\ todo' = IF todo = <<>> THEN S!Over ELSE S!Stuck
  /\ UNCHANGED <<built, at>>

Next ==
  \/ Statement \/ Return \/ BuriedReturn \/ EnterIf \/ Else \/ EndElse \/ EndIf
  \/ EnterFor \/ EndFor \/ Fail \/ EndFunction
  \/ Run \/ RunWork \/ RunBr \/ RunCondBr \/ RunRet

Spec == Init /\ [][Next]_vars
-----------------------------------------------------------------------------
(* verifyFunction accepts a function exactly when every if has an else and *)
(* the return is the last statement of the body, or the function is void   *)
(* and has none: whatever is nested in whatever, each block gets its one   *)
(* terminator and no branch leads to a block that is not in the function.  *)
VerifierExplained ==
  pc \notin {"building", "failed"} =>
    (pc # "refused" <=> ~bare /\ ~late /\ (void # hasTerminator))

(* The generated code does what the program says, statement by statement   *)
(* and test by test, for functions without control flow inside a loop and  *)
(* without a return inside a branch or loop (Nested, Buried).              *)
ImplementsStructured == S!SSpec
-----------------------------------------------------------------------------
(* What comments and tests say, and the code does not do.                  *)

(* AST.cpp, ForAST::codegen: "if it valid we jump to the loop"; the test   *)
(* forLoop1.ll has the back edge go to the block `loop`.                   *)
LoopsRepeat == nested => todo # S!Stuck

(* AST.h, isReturn: "meaning it returns a value from a function".          *)
ReturnsReturn == buried => todo # S!Stuck
=============================================================================
