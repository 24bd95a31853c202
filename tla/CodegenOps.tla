----------------------------- MODULE CodegenOps -----------------------------
(***************************************************************************)
(* Code generation: the codegen methods of the nodes (src/core/AST.cpp)    *)
(* and the parts of Codegenerator they use (src/core/codegen.cpp), as      *)
(* operators on the state g of a Codegenerator, named after the classes.   *)
(*                                                                         *)
(*   g.mods       the LLVM modules, by name; a module maps the name of a   *)
(*                function to its type, the names of its arguments and its *)
(*                body (module Blocks)                                     *)
(*   g.cur        the module code is generated into                        *)
(*   g.protos     functionProtos                                           *)
(*   g.builtins   builtInFunctions                                         *)
(*   g.vars       namedValues and variableTypes; an entry without an owner *)
(*                is a null AllocaInst, others belong to a function        *)
(*   g.scope      currentScope, g.ip the function the builder inserts into *)
(*                (functions are named <<module, name>>)                   *)
(*   g.errs       diagnostics pushed                                       *)
(*   g.fault      "null" if a null pointer was dereferenced, "stack" if    *)
(*                the call stack is used up, "undefined" once the          *)
(*                behaviour is undefined: the model stops there            *)
(*   g.room       the number of calls the stack still has room for         *)
(*   g.stale      the kinds of nodes whose flags.isNull, which their       *)
(*                constructors leave unset, reads as true; chosen for each *)
(*                statement.  (parsePrototype sets it, and malloc returns  *)
(*                a pointer, of which it is not read: "Prototype" stands   *)
(*                for those handleExpression makes.)                       *)
(*   g.val        the LLVM type of the value the last codegen returned, or *)
(*                NoValue; g.const, whether it is a constant               *)
(*   g.node       what that codegen left in the node: datatype, isPointer  *)
(*   g.types      types of the arguments of a call generated so far        *)
(*   g.redeclared history: names an extern gave another type than that of  *)
(*                their function                                           *)
(*   g.nulls      history: kinds of nodes replaced by a null pointer       *)
(*   g.torn       history: the functions that a function was defined in    *)
(*                the middle of, and those defined so                      *)
(*                                                                         *)
(* An instruction keeps, of its operands, whether their types are right    *)
(* and which functions' values they are; allocas are not kept.  A node     *)
(* that is generated twice (the condition of a for) is generated as if it  *)
(* were the first time.  A method that generates several children is a     *)
(* chain of operators, one for what it does after each.  The methods call  *)
(* each other, and a loop over statements or arguments its next turn,      *)
(* through the constant Gen, which stands for GenDispatch.                 *)
(***************************************************************************)
EXTENDS ParserOps, Blocks, SequencesExt

CONSTANTS Gen(_, _, _),  \* what a method does to a state g: GenDispatch
          Floats         \* the literals that are floats

(* The map f once the entry of x is y. *)
With(f, x, y) == [z \in DOMAIN f \cup {x} |-> IF z = x THEN y ELSE f[z]]

NoFunction == <<>>
NoValue == "nullptr"

Attr(datatype, ptr) == [datatype |-> datatype, ptr |-> ptr]
Untyped == Attr(NoText, FALSE)
IsPointer(n) == "isPointer" \in n.flags

Stopped(g) == g.val = NoValue
Nothing(g) == [g EXCEPT !.val = NoValue]
Die(g, fault) == [g EXCEPT !.fault = fault, !.val = NoValue]
Value(g, type, attr) ==
  [g EXCEPT !.val = type, !.const = FALSE, !.node = attr]
Constant(g, type, attr) == [Value(g, type, attr) EXCEPT !.const = TRUE]

(* logCodegenError, and return nullptr; what a caller logs when the callee *)
(* returned it.                                                            *)
Issue(g, code) == IF g.fault = "none"
                  THEN [Nothing(g) EXCEPT !.errs = Append(@, code)] ELSE g
IssueIfStopped(g, code) == IF Stopped(g) THEN Issue(g, code) ELSE g

(* The builder inserts an instruction, if it is in a block at all.         *)
Checks(typed, owners) == [typed |-> typed, of |-> owners]
Fn(g, id) == g.mods[id[1]][id[2]]
SetBody(g, id, body) == [g EXCEPT !.mods[id[1]][id[2]].body = body]
Erased(g, id) == id[2] \notin DOMAIN g.mods[id[1]]
Insert(g, i) ==
  IF g.ip = NoFunction THEN g
  ELSE IF Erased(g, g.ip) THEN Die(g, "undefined")
  ELSE SetBody(g, g.ip, Emit(Fn(g, g.ip).body, i))
Step(g, typed, owners) == Insert(g, Work(Checks(typed, owners)))

(* body is the new body of function id, from where the builder goes on.    *)
(* If a function defined inside id has moved the builder away, a jump of   *)
(* id ends up in that function, and neither is in order.                   *)
Torn(body) == Emit(body, Work(Checks(FALSE, {})))
Resume(g, id, body) ==
  IF g.ip = id THEN SetBody(g, id, body)
  ELSE [SetBody(Insert(g, Work(Checks(FALSE, {}))), id, Torn(body))
          EXCEPT !.ip = id]

(* What verifyFunction asks of a function. *)
Sound(g, id) ==
  LET body == Fn(g, id).body
  IN  /\ Verified(body, Fn(g, id).ret = "void")
      /\ \A b \in body.placed : \A k \in 1 .. Len(body.code[b]) :
           LET i == body.code[b][k]
           IN  i.op \in {"work", "condbr", "ret"} =>
                 i.what.typed /\ i.what.of \subseteq {id}
-----------------------------------------------------------------------------
(* LLVM types, and getType of codegen.h. *)
Elem == [t \in {"i32*", "float*", "i8*"} |->
           CASE t = "i32*" -> "i32" [] t = "float*" -> "float" [] t = "i8*" -> "i8"]
IntegerTypes == {"i1", "i8", "i32"}
PointerTo(type) == CHOOSE t \in DOMAIN Elem : Elem[t] = type

getType(type, ptr) ==
  IF type = "tok_float" THEN IF ptr THEN "float*" ELSE "float"
  ELSE IF ~ptr THEN "i32" ELSE IF type = "tok_void_ptr" THEN "i8*" ELSE "i32*"
SlotType(v) == getType(v.datatype, v.ptr)

IsVoid(p) == "isNull" \in p.flags /\ ~IsPointer(p)

FunctionOf(p) ==
  [ret |-> IF IsVoid(p) THEN "void" ELSE getType(p.type, IsPointer(p)),
   args |-> [k \in 1 .. Len(p.kids) |->
               getType(p.kids[k].type, IsPointer(p.kids[k]))],
   names |-> [k \in 1 .. Len(p.kids) |-> p.kids[k].name],
   body |-> NoBody]
SameType(f, h) == f.ret = h.ret /\ f.args = h.args

Here(g) == g.mods[g.cur]
Declared(g, name) == name \in DOMAIN Here(g)

(* PrototypeAST::codegen.  Function::Create renames a function whose name  *)
(* is taken, which then has no use.                                        *)
Declare(p, g) ==
  IF Declared(g, p.name) THEN g
  ELSE [g EXCEPT !.mods[g.cur] = With(@, p.name, FunctionOf(p))]
PrototypeAST(p, g) ==
  LET d == Declare(p, g)
      other == \E mod \in DOMAIN d.mods :
                 /\ p.name \in DOMAIN d.mods[mod]
                 /\ ~SameType(d.mods[mod][p.name], FunctionOf(p))
      protos == With(d.protos, p.name, p)
  IN  Value(IF "isExtern" \notin p.flags THEN d
            ELSE [d EXCEPT !.protos = protos,
                           !.redeclared = @ \cup IF other THEN {p.name} ELSE {}],
            "function", Untyped)

(* Codegenerator::getFunction: the state after it, in which the function   *)
(* is declared if it was found, and the prototype it returns.              *)
getFunction(g, name) ==
  IF Declared(g, name) THEN g
  ELSE IF name \in DOMAIN g.protos THEN PrototypeAST(g.protos[name], g)
  ELSE IF name \in DOMAIN g.builtins THEN PrototypeAST(g.builtins[name], g) ELSE g
returnProto(g, name) ==
  IF name \in DOMAIN g.protos THEN g.protos[name]
  ELSE IF name \in DOMAIN g.builtins THEN g.builtins[name] ELSE Null
-----------------------------------------------------------------------------
codegen(n, g) == Gen("codegen", n, g)

(* The statements of a branch or a loop, up to the first that fails. *)
Onward(loop, nodes, h) == IF Stopped(h) THEN h ELSE Gen(loop, Tail(nodes), h)
Each(nodes, g) ==
  IF nodes = <<>> THEN g ELSE Onward("Each", nodes, codegen(Head(nodes), g))
Statements(nodes, g) == Gen("Each", nodes, [g EXCEPT !.val = "void"])

NumberExprAST(n, g) ==
  LET type == IF n.name \in Floats THEN "tok_float" ELSE "tok_int"
  IN  Constant(g, getType(type, FALSE), Attr(type, IsPointer(n)))

(* The value of a definition or an assignment to a variable of datatype d: *)
(* what seems to be a nullptr is not generated but becomes a null pointer. *)
IsNullptr(g, n) ==
  IsPointer(n) /\ ("isNull" \in n.flags \/ n.kind \in g.stale)
Rhs(n, d, g) ==
  IF IsNullptr(g, n)
  THEN Constant([g EXCEPT !.nulls = @ \cup {n.kind}],
                PointerTo(getType(d, FALSE)), Untyped)
  ELSE codegen(n, g)

StoreTo(v, g) ==
  Value(Step(g, g.val = SlotType(v), {v.owner}), "void", Attr(v.datatype, v.ptr))

Defined(v, r) ==
  IF Stopped(r) THEN Issue(r, "ERROR_RHS_VARIABLE_ASSIGMENT") ELSE StoreTo(v, r)
Definition(n, v, g) ==
  IF g.scope = NoFunction THEN Die(g, "null")
  ELSE Defined(v, Rhs(n.kids[1], v.datatype, [g EXCEPT !.vars = With(@, n.name, v)]))

(* The value of an assignment is not tested for nullptr.                   *)
VariableAssignment(v, r) ==
  IF r.fault # "none" THEN r
  ELSE IF Stopped(r) THEN Die(r, "null") ELSE StoreTo(v, r)

NoVariable == [datatype |-> NoText, ptr |-> FALSE, owner |-> NoFunction]

VariableOf(n, g) ==
  IF n.name \in DOMAIN g.vars THEN g.vars[n.name]
  ELSE [NoVariable EXCEPT !.datatype = n.type, !.ptr = IsPointer(n)]

VariableExprAST(n, g) ==
  LET v == VariableOf(n, g)
  IN  IF v.datatype = NoText THEN Issue(g, "UNDEFINED_VARIABLE")
      ELSE IF "isDefinition" \in n.flags
      THEN Definition(n, [v EXCEPT !.owner = g.scope], g)
      ELSE IF v.owner = NoFunction THEN Die(g, "null")
      ELSE IF n.kids # <<>>
      THEN VariableAssignment(v, Rhs(n.kids[1], v.datatype, g))
      ELSE Value(Step(g, TRUE, {v.owner}), SlotType(v), Attr(v.datatype, v.ptr))

(* A wrong version, which converts nothing. *)
omogenizeNothing(l, r) == [datatype |-> IF l = r THEN l ELSE "tok_float", convert |-> {}]

(* Codegenerator::omogenizeOperation: the datatype of the result, -1 being *)
(* "bad", and the operands that are converted from int to float.           *)
omogenizeOperation(l, r) ==
  LET Result(type, convert) == [datatype |-> type, convert |-> convert]
  IN  IF NoText \in {l, r} THEN Result("bad", {})
      ELSE IF l = r THEN Result(l, {})
      ELSE IF l = "tok_float" /\ r = "tok_int" THEN Result("tok_float", {"right"})
      ELSE IF l = "tok_int" /\ r = "tok_float" THEN Result("tok_float", {"left"})
      ELSE Result("bad", {})

(* LLVM folds an operation on constants, and does anything if they do not  *)
(* have the type it wants.                                                 *)
Folded(typed, l, r, type, attr) ==
  IF l.const /\ r.const
  THEN IF typed THEN Constant(r, type, attr) ELSE Die(r, "undefined")
  ELSE Value(Step(r, typed, {}), type, attr)

SimpleOperation(op, l, r) ==
  LET o == omogenizeOperation(l.node.datatype, r.node.datatype)
      left == IF "left" \in o.convert THEN "float" ELSE l.val
      right == IF "right" \in o.convert THEN "float" ELSE r.val
      float == o.datatype = "tok_float"
      typed == /\ "left" \in o.convert => l.val \in IntegerTypes
               /\ "right" \in o.convert => r.val \in IntegerTypes
               /\ left = right
               /\ IF float THEN left \in {"float", "double"}
                  ELSE left \in IntegerTypes \/ (op = "<" /\ left \in DOMAIN Elem)
      type == IF op # "<" THEN left ELSE IF float THEN "double" ELSE "i1"
  IN  Folded(typed, l, r, type, Attr(o.datatype, FALSE))

(* CreateGEP looks into the pointer type of its operand, which has none if *)
(* the node only seems to be a pointer, as a dereferenced one does.        *)
PointerOperation(op, l, r) ==
  IF r.node.ptr \/ r.node.datatype # "tok_int" \/ op # "+"
  THEN Issue(r, "POINTER_ARITHMETIC_ERROR")
  ELSE IF l.val \notin DOMAIN Elem THEN Die(r, "undefined")
  ELSE Value(Step(r, r.val \in IntegerTypes, {}), l.val, Untyped)

Operation(op, l, r) ==
  IF Stopped(l) \/ Stopped(r) THEN Nothing(r)
  ELSE IF l.node.ptr \/ r.node.ptr THEN PointerOperation(op, l, r)
  ELSE SimpleOperation(op, l, r)
RightOperand(n, l) == Operation(n.name, l, codegen(n.kids[2], l))

BinaryExprAST(n, g) == RightOperand(n, codegen(n.kids[1], g))

Passed(types, r) == [r EXCEPT !.types = Append(types, r.val)]
Arguments(nodes, g) ==
  IF nodes = <<>> THEN g
  ELSE Onward("Arguments", nodes, Passed(g.types, codegen(Head(nodes), g)))

CreateCall(proto, calleeF, a) ==
  LET named == ~IsVoid(proto)
      typed == a.types = calleeF.args /\ (calleeF.ret = "void" => ~named)
  IN  IF Stopped(a) \/ proto = Null THEN Nothing(a)
      ELSE Value(Step(a, typed, {}), calleeF.ret, Attr(proto.type, IsPointer(proto)))

CallOf(n, proto, f) ==
  LET calleeF == Here(f)[n.name]
  IN  IF ~Declared(f, n.name) THEN Issue(f, "UNDEFINED_FUNCTION")
      ELSE IF Len(calleeF.args) # Len(n.kids)
      THEN Issue(f, "WRONG_ARGUMENTS_COUNT_IN_FUNC_CALL")
      ELSE IF proto # Null /\ Len(proto.kids) < Len(n.kids) THEN Die(f, "undefined")
      ELSE CreateCall(proto, calleeF,
                      Gen("Arguments", n.kids, [f EXCEPT !.types = <<>>, !.val = "void"]))

CallExprAST(n, g) == CallOf(n, returnProto(g, n.name), getFunction(g, n.name))

(* The pointer is loaded, then what it points at: the node stays a pointer *)
(* and is a float only if the variable is one.                             *)
DereferenceAST(n, g) ==
  LET known == n.name \in DOMAIN g.vars
      v == g.vars[n.name]
      type == IF SlotType(v) = "float" THEN "tok_float" ELSE "tok_int"
  IN  IF ~known
      THEN Issue([g EXCEPT !.vars = With(@, n.name, NoVariable)], "UNDEFINED_VARIABLE")
      ELSE IF v.owner = NoFunction THEN Issue(g, "UNDEFINED_VARIABLE")
      ELSE IF SlotType(v) \notin DOMAIN Elem THEN Die(g, "undefined")
      ELSE Value(Step(g, TRUE, {v.owner}), Elem[SlotType(v)], Attr(type, TRUE))

StoreThrough(v, r) ==
  LET typed == SlotType(v) \in DOMAIN Elem /\ Elem[SlotType(v)] = r.val
  IN  IF Stopped(r) \/ r.node.datatype # v.datatype
      THEN Issue(r, "ERROR_RHS_VARIABLE_ASSIGMENT")
      ELSE Value(Step(r, typed, {v.owner}), "void", Attr(v.datatype, v.ptr))

ToPointerAssigmentAST(n, g) ==
  IF n.name \notin DOMAIN g.vars
  THEN Issue([g EXCEPT !.vars = With(@, n.name, NoVariable)], "UNDEFINED_VARIABLE")
  ELSE IF g.vars[n.name].owner = NoFunction THEN Issue(g, "UNDEFINED_VARIABLE")
  ELSE StoreThrough(g.vars[n.name], codegen(n.kids[1], g))

(* A mismatch is logged and generated all the same; only the zero constant *)
(* becomes a pointer by a bitcast.  Casts to no pointer are not generated. *)
BitCast(n, r) ==
  LET odd == IsPointer(n) /\ ~r.node.ptr
      e == IF odd THEN [r EXCEPT !.errs = Append(@, "CAST_ERROR")] ELSE r
      zero == r.const /\ "isNull" \in n.kids[1].flags
  IN  IF Stopped(r) THEN Issue(r, "CAST_ERROR")
      ELSE IF ~IsPointer(n) THEN Nothing(e)
      ELSE Value(Step(e, zero \/ r.val \in DOMAIN Elem, {}),
                 getType(n.type, TRUE), Attr(n.type, TRUE))

CastAST(n, g) == BitCast(n, codegen(n.kids[1], g))

(* Only a float or an integer of any width is a condition.  c, t and e are *)
(* the states after the condition, then and else.                          *)
Branch(nodes, g) == IssueIfStopped(Statements(nodes, g), "BRANCH_CODE_FAILURE")
IfMerge(n, id, merge, e) ==
  IF Stopped(e) THEN e
  ELSE Value(Resume(e, id, IfEnd(Fn(e, id).body, merge, n.kids[3].kids # <<>>)),
             "i1", Untyped)
IfOtherwise(n, id, else, merge, t) ==
  IF Stopped(t) THEN t
  ELSE IfMerge(n, id, merge,
               Branch(n.kids[3].kids,
                      Resume(t, id, IfElse(Fn(t, id).body, else, merge))))
IfThen(n, id, f, c) ==
  IfOtherwise(n, id, Fresh(f, 2), Fresh(f, 3),
              Branch(n.kids[2].kids, SetBody(c, id, IfHead(f, Checks(TRUE, {})))))
IfCondition(n, c) ==
  IF Stopped(c) THEN c
  ELSE IF c.val \notin {"float"} \cup IntegerTypes THEN Nothing(c)
  ELSE IF c.ip = NoFunction THEN Die(c, "null")
  ELSE IfThen(n, c.ip, Fn(c, c.ip).body, c)

IfAST(n, g) == IfCondition(n, codegen(n.kids[1], g))

(* The branches test neither that the condition has a value nor its type.  *)
Condition(c) == Checks(c.val = "i1", {})
Loop(g) == IssueIfStopped(g, "FOR_LOOP_CODE_FAILURE")
ForAgain(id, after, c) ==
  IF c.fault # "none" THEN c
  ELSE Resume(c, id, ForEnd(Fn(c, id).body, Condition(c), after))
ForStep(n, id, after, g) ==
  IF Stopped(g) THEN g ELSE ForAgain(id, after, codegen(n.kids[2], g))
ForBody(n, id, after, g) ==
  IF Stopped(g) THEN g ELSE ForStep(n, id, after, Loop(codegen(n.kids[3], g)))
ForCondition(n, id, f, c) ==
  IF c.fault # "none" THEN c
  ELSE ForBody(n, id, Fresh(f, 2),
               Loop(Statements(n.kids[4].kids,
                    Resume(c, id, ForEnter(Fn(c, id).body, Condition(c),
                                           Fresh(f, 1), Fresh(f, 2))))))
ForLoop(n, id, f, g) ==
  ForCondition(n, id, f, codegen(n.kids[2], SetBody(g, id, ForBlocks(f))))
ForInit(n, g) ==
  IF Stopped(g) THEN g
  ELSE IF g.ip = NoFunction THEN Die(g, "null")
  ELSE ForLoop(n, g.ip, Fn(g, g.ip).body, g)

ForAST(n, g) == ForInit(n, Loop(codegen(n.kids[1], g)))

(* FunctionAST::codegen up to its body: the entry block, and an alloca for *)
(* each argument, typed by this prototype but named and filled by the      *)
(* function's own.  Of two arguments of one name LLVM renames the second.  *)
ArgumentIndex(f, name) ==
  CHOOSE k \in 1 .. Len(f.names) : /\ f.names[k] = name
                                   /\ \A j \in 1 .. k - 1 : f.names[j] # name
ArgumentVariables(p, id, f) ==
  [name \in {f.names[k] : k \in 1 .. Len(f.names)} |->
     LET k == ArgumentIndex(f, name)
     IN  [datatype |-> p.kids[k].type, ptr |-> IsPointer(p.kids[k]), owner |-> id]]

(* A wrong version, which keeps the variables of the function before.      *)
NewVariablesKeep(p, id, g) ==
  LET new == ArgumentVariables(p, id, Fn(g, id))
  IN  [name \in DOMAIN new \cup DOMAIN g.vars |->
         IF name \in DOMAIN new THEN new[name] ELSE g.vars[name]]

NewVariables(p, id, g) == ArgumentVariables(p, id, Fn(g, id))

(* Whether a function is part of a tree: that of a definition is its root. *)
Nested(g) == g.room < MaxCalls - 1

EnterFunction(p, id, g) ==
  LET f == Fn(g, id)
      typed == \A k \in 1 .. Len(f.args) :
                 f.args[k] = getType(p.kids[k].type, IsPointer(p.kids[k]))
  IN  Step([SetBody(g, id, FunctionHead)
              EXCEPT !.ip = id, !.vars = NewVariables(p, id, g), !.scope = id,
                     !.torn = @ \cup IF Nested(g) THEN {g.ip, id} ELSE {}],
           typed, {id})

(* A statement of the body of a function, and the return it may be. *)
Returned(n, r) ==
  IF Stopped(r) \/ "isReturn" \notin n.flags \/ r.ip = NoFunction THEN r
  ELSE Insert(r, Ret(Checks(r.val = Fn(r, r.ip).ret, {})))
BodyStatement(n, g) == Returned(n, codegen(n, g))

Body(nodes, g) ==
  IF nodes = <<>> THEN g ELSE Onward("Body", nodes, BodyStatement(Head(nodes), g))
FunctionBody(nodes, g) == Gen("Body", nodes, [g EXCEPT !.val = "void"])

EndBody(p, nodes, g) ==
  LET hasTerminator == \E k \in 1 .. Len(nodes) : "isReturn" \in nodes[k].flags
      f == SetBody(g, g.ip, FunctionEnd(Fn(g, g.ip).body, IsVoid(p), hasTerminator))
  IN  [f EXCEPT !.scope = NoFunction]

(* A name that has no function yet gets its prototype registered: here,    *)
(* and in a wrong version whatever it has.                                 *)
RegisterAlways(p, g) ==
  getFunction([getFunction(g, p.name) EXCEPT !.protos = With(@, p.name, p)], p.name)
Registered(p, g) ==
  IF Declared(g, p.name) THEN g
  ELSE getFunction([g EXCEPT !.protos = With(@, p.name, p)], p.name)
Register(p, g) == Registered(p, getFunction(g, p.name))

(* llvm::Function::empty. *)
Empty(f) == f.body = NoBody

VerifyFunction(id, g) ==
  IF Sound(g, id) THEN Value(g, "function", Untyped) ELSE Nothing(g)
FinishFunction(p, nodes, id, g) ==
  IF Stopped(g) THEN Issue(g, "ERROR_IN_FUNCTION_BODY")
  ELSE VerifyFunction(id, EndBody(p, nodes, g))
(* A function that has a body cannot get another; in a wrong version it    *)
(* can.                                                                    *)
DefineAgain(p, nodes, id, g) ==
  IF Len(Fn(g, id).args) > Len(p.kids) THEN Die(g, "undefined")
  ELSE FinishFunction(p, nodes, id, FunctionBody(nodes, EnterFunction(p, id, g)))
DefineFunction(p, nodes, id, g) ==
  IF ~Empty(Fn(g, id)) THEN Nothing(g)
  ELSE IF Len(Fn(g, id).args) > Len(p.kids) THEN Die(g, "undefined")
  ELSE FinishFunction(p, nodes, id, FunctionBody(nodes, EnterFunction(p, id, g)))

FunctionOfTree(p, nodes, g) ==
  DefineFunction(p, nodes, <<g.cur, p.name>>, Register(p, g))
FunctionAST(n, g) == FunctionOfTree(n.kids[1], n.kids[2].kids, g)

NodeAST(n, g) ==
  CASE n.kind = "Number" -> NumberExprAST(n, g)
    [] n.kind = "Variable" -> VariableExprAST(n, g)
    [] n.kind = "Binary" -> BinaryExprAST(n, g)
    [] n.kind = "Call" -> CallExprAST(n, g)
    [] n.kind = "Prototype" -> PrototypeAST(n, g)
    [] n.kind = "Function" -> FunctionAST(n, g)
    [] n.kind = "If" -> IfAST(n, g)
    [] n.kind = "For" -> ForAST(n, g)
    [] n.kind = "Dereference" -> DereferenceAST(n, g)
    [] n.kind = "ToPointer" -> ToPointerAssigmentAST(n, g)
    [] n.kind = "Cast" -> CastAST(n, g)

(* x is a node, or the nodes a loop has still to go through. *)
GenMethod(name, x, g) ==
  CASE name = "codegen" -> NodeAST(x, g)
    [] name = "Each" -> Each(x, g)
    [] name = "Arguments" -> Arguments(x, g)
    [] name = "Body" -> Body(x, g)

(* A call takes room on the stack until it returns. *)
GenDispatch(method, x, g) ==
  LET called == [g EXCEPT !.room = @ - 1]
  IN  IF g.fault # "none" THEN g
      ELSE IF g.room = 0 THEN Die(g, "stack")
      ELSE [GenMethod(method, x, called) EXCEPT !.room = g.room]
-----------------------------------------------------------------------------
(* doLoadBuiltinFunctions, and a new Codegenerator. *)
BuiltInFunctions ==
  LET Argument(type, flags) == Node("Argument", "ptr", type, <<>>, flags)
      Proto(name, flags, argument) ==
        Node("Prototype", name, "tok_void_ptr", <<argument>>, {"isExtern"} \cup flags)
  IN  [malloc |-> Proto("malloc", {"isPointer"}, Argument("tok_int", {})),
       free |-> Proto("free", {"isNull"}, Argument("tok_void_ptr", {"isPointer"}))]

NewCodegenerator(loadBuiltinFunctions) ==
  [mods |-> [m \in {"static", "anonymous"} |-> <<>>], cur |-> "static",
   protos |-> <<>>, vars |-> <<>>, scope |-> NoFunction, ip |-> NoFunction,
   builtins |-> IF loadBuiltinFunctions THEN BuiltInFunctions ELSE <<>>,
   errs |-> <<>>, fault |-> "none", stale |-> {}, val |-> NoValue,
   const |-> FALSE, node |-> Untyped, types |-> <<>>, redeclared |-> {},
   nulls |-> {}, room |-> MaxCalls, torn |-> {}]
=============================================================================
