------------------------------- MODULE Typing -------------------------------
(***************************************************************************)
(* Which functions of the language are well typed, as a judgement on the   *)
(* trees of the parser: the reference that code generation is checked      *)
(* against.  It knows types, where the code has datatypes, isPointer flags *)
(* and the types of LLVM values side by side.                              *)
(*                                                                         *)
(* "bool" is the type of a comparison of ints, "double" of one of floats,  *)
(* "byte" of what a void pointer points at, "stored" of an assignment.     *)
(* "?" is given where the flags of a node are known not to tell its type   *)
(* any more: arithmetic on a dereferenced pointer or on the result of      *)
(* pointer arithmetic, the address or value a dereference is assigned to,  *)
(* and nullptr anywhere but on the right of an assignment.                 *)
(***************************************************************************)
EXTENDS ParserOps, SequencesExt, TLC

CONSTANT Floats

Base(tok) == CASE tok = "tok_int" -> "int" [] tok = "tok_float" -> "float"
               [] tok = "tok_void_ptr" -> "void"
TypeName(n) == IF "isPointer" \in n.flags
               THEN CASE n.type = "tok_int" -> "int*"
                      [] n.type = "tok_float" -> "float*"
                      [] n.type = "tok_void_ptr" -> "void*"
               ELSE Base(n.type)
Target == [t \in {"int*", "float*", "void*"} |->
             CASE t = "int*" -> "int" [] t = "float*" -> "float" [] t = "void*" -> "byte"]
Pointers == DOMAIN Target

Signature(p) == [ret |-> TypeName(p),
                 args |-> [k \in 1 .. Len(p.kids) |-> TypeName(p.kids[k])]]

(* The type of what has parts of types ts: good if these fit.              *)
Judge(ts, good, type) == IF "ill" \in ts THEN "ill" ELSE IF "?" \in ts THEN "?"
                         ELSE IF good THEN type ELSE "ill"

Numbers == {"int", "bool", "float", "double"}
Compared(type) == IF type \in {"float", "double"} THEN "double" ELSE "bool"
Result(op, type) == IF op = "<" THEN Compared(type) ELSE type

Operation(op, l, r) ==
  CASE l \in Pointers -> IF r \in {"int", "bool"} /\ op = "+" THEN l ELSE "ill"
    [] l = r /\ l \in Numbers -> Result(op, l)
    [] l # r /\ "float" \in {l, r} /\ {l, r} \ {"float"} \subseteq {"int", "bool"} ->
         Result(op, "float")
    [] OTHER -> "ill"

(* Nodes whose flags do not tell their type. *)
Blurred(n, type) == n.kind = "Dereference" \/ (n.kind = "Binary" /\ type \in Pointers)

Fits(type, var) == type = var \/ (type = "null" /\ var \in {"int*", "float*"})

RECURSIVE TypeOf(_, _, _)
TypeOf(n, env, sigs) ==
  LET types == [k \in 1 .. Len(n.kids) |-> TypeOf(n.kids[k], env, sigs)]
      (* nullptr and blurred operands have no clear type. *)
      clear == [k \in 1 .. Len(n.kids) |-> IF types[k] = "null" THEN "?" ELSE types[k]]
      operand == [k \in 1 .. Len(n.kids) |->
                    IF Blurred(n.kids[k], types[k]) /\ types[k] # "ill" THEN "?" ELSE clear[k]]
  IN  CASE n.kind = "Number" ->
             IF "isNull" \in n.flags THEN "null"
             ELSE IF n.name \in Floats THEN "float" ELSE "int"
        [] n.kind = "Variable" /\ n.kids = <<>> ->
             Judge({}, n.name \in DOMAIN env, env[n.name])
        [] n.kind = "Variable" /\ n.kids # <<>> /\ "isDefinition" \notin n.flags ->
             Judge({types[1]},
                   n.name \in DOMAIN env /\ Fits(types[1], env[n.name]), "stored")
        [] n.kind = "Binary" ->
             IF "?" \in ToSet(operand) THEN Judge(ToSet(operand), TRUE, "?")
             ELSE Judge(ToSet(types), TRUE, Operation(n.name, types[1], types[2]))
        [] n.kind = "Call" ->
             Judge(ToSet(clear),
                   n.name \in DOMAIN sigs /\ sigs[n.name].args = types, sigs[n.name].ret)
        [] n.kind = "Dereference" ->
             Judge({}, n.name \in DOMAIN env /\ env[n.name] \in Pointers,
                   Target[env[n.name]])
        [] n.kind = "Cast" ->
             Judge(ToSet(clear), types[1] \in Pointers /\ TypeName(n) \in Pointers,
                   TypeName(n))
        [] OTHER -> "?"

(* A statement: the names it adds to env, and its type. *)
Typed(env, type) == [env |-> env, type |-> type]
Conditions == {"int", "bool", "float", "byte"}

RECURSIVE Statement(_, _, _)
Statements(nodes, s, sigs) ==
  FoldLeft(LAMBDA c, n : LET t == Statement(n, c.env, sigs)
                         IN  Typed(t.env, Judge({c.type, t.type}, TRUE, "done")),
           Typed(s.env, "done"), nodes)
Statement(n, env, sigs) ==
  LET Own(e) == TypeOf(n, e, sigs)
      Of(k, e) == TypeOf(n.kids[k], e, sigs)
      Named == (n.name :> TypeName(n)) @@ env
      then == Statements(n.kids[2].kids, Typed(env, "done"), sigs)
      else == Statements(n.kids[3].kids, then, sigs)
      init == Statement(n.kids[1], env, sigs)
      body == Statements(n.kids[4].kids, init, sigs)
      step == Statement(n.kids[3], body.env, sigs)
      blurred == n.kids[1].kind = "Dereference"
  IN  CASE n.kind = "Variable" /\ "isDefinition" \in n.flags ->
             Typed(Named, Judge({Of(1, Named)}, Fits(Of(1, Named), TypeName(n)), "stored"))
        [] n.kind = "ToPointer" ->
             Typed(env, Judge({IF Of(1, env) = "null" \/ blurred THEN "?" ELSE Of(1, env)},
                              /\ n.name \in DOMAIN env
                              /\ env[n.name] \in Pointers
                              /\ Target[env[n.name]] = Of(1, env), "stored"))
        [] n.kind = "If" ->
             Typed(else.env,
                   Judge({IF Of(1, env) = "null" THEN "?" ELSE Of(1, env),
                          then.type, else.type}, Of(1, env) \in Conditions, "done"))
        [] n.kind = "For" ->
             Typed(step.env,
                   Judge({init.type, Of(2, init.env), body.type, step.type},
                         Of(2, init.env) = "bool", "done"))
        [] OTHER -> Typed(env, Own(env))

(* Every if has an else, and the function returns at its end if it returns *)
(* a value, else not at all.                                               *)
RECURSIVE Nodes(_)
Nodes(n) == {n} \cup UNION {Nodes(n.kids[k]) : k \in 1 .. Len(n.kids)}
Returning(n) == "isReturn" \in n.flags
Flows(body, ret) ==
  /\ \A n \in Nodes(body) : n.kind = "If" => n.kids[3].kids # <<>>
  /\ \A k \in 1 .. Len(body.kids) :
       Returning(body.kids[k]) => k = Len(body.kids) /\ ret # "void"
  /\ ret # "void" => body.kids # <<>> /\ Returning(Last(body.kids))

(* A function: its names are used once, and functions are not nested.      *)
Definitions(n) == [m \in {d \in Nodes(n) : "isDefinition" \in d.flags} |-> m.name]
Arguments(p) == [k \in 1 .. Len(p.kids) |-> p.kids[k].name]
NamesOnce(f) ==
  /\ IsInjective(Definitions(f.kids[2]))
  /\ IsInjective(Arguments(f.kids[1]))
  /\ {Definitions(f.kids[2])[d] : d \in DOMAIN Definitions(f.kids[2])}
       \cap ToSet(Arguments(f.kids[1])) = {}

Verdict(f, known) ==
  LET p == f.kids[1]
      body == f.kids[2]
      env == [name \in ToSet(Arguments(p)) |->
                TypeName(p.kids[CHOOSE k \in 1 .. Len(p.kids) : p.kids[k].name = name])]
      sigs == (p.name :> Signature(p)) @@ known
      type == Statements(body.kids, Typed(env, "done"), sigs).type
      returned == IF body.kids # <<>> /\ Returning(Last(body.kids))
                  THEN TypeOf(Last(body.kids),
                              Statements(Front(body.kids), Typed(env, "done"), sigs).env,
                              sigs)
                  ELSE "void"
  IN  IF ~NamesOnce(f) \/ \E n \in Nodes(body) : n.kind \in {"Function", "Prototype"}
      THEN "?"
      ELSE Judge({type, IF returned = "null" THEN "?" ELSE returned},
                 Flows(body, Signature(p).ret) /\ returned = Signature(p).ret, "well")
=============================================================================
