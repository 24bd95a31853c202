------------------------------ MODULE Compiler ------------------------------
(***************************************************************************)
(* The whole compiler at work: the front end of module Parser, the code    *)
(* generation of module CodegenOps and, behind the REPL, the JIT.  A host  *)
(* either compiles modules (generateModuleContent of src/core/codegen.cpp) *)
(* or is the REPL (src/repl/repl.cpp), with its static and its anonymous   *)
(* module.  What survives from one text to the next is the state of the    *)
(* front end, the Codegenerator with its modules, prototypes, variables    *)
(* and insert point, and the modules given to the JIT.                     *)
(***************************************************************************)
EXTENDS Parser, CodegenOps

CONSTANTS Kinds(_),      \* the kinds of the nodes of a tree
          StaleBits      \* kinds of nodes whose unset isNull may read as true

(* "Prototype" is the final one of handleExpression. *)
ASSUME StaleAssumption == StaleBits \subseteq {"Dereference", "Cast", "Prototype"}

VARIABLES host,          \* "module" or "repl"
          gen,           \* the Codegenerator
          jit,           \* the modules in the JIT, as they were when added
          compiled,      \* history: the last tree given to code generation
          clean,         \* history: no unset isNull read as true so far
          loose          \* history: functions that code of no function, or of
                         \* one nested in them, was generated into

cvars == <<host, gen, jit, compiled, clean, loose>>
allvars == <<vars, cvars>>

ANONYMOUS_FUNCTION == "__anonymous__"
DUMMY_FUNCTION == "__dummy__"

(* The prototypes a tree is compiled under, and whether the name of a      *)
(* function is new.                                                        *)
Known(g) == [name \in DOMAIN g.protos \cup DOMAIN g.builtins |-> returnProto(g, name)]
NothingCompiled ==
  [tree |-> Null, accepted |-> FALSE, known |-> <<>>, fresh |-> FALSE]
CompiledTree(tree, before, after) ==
  [tree |-> tree, accepted |-> ~Stopped(after), known |-> Known(before),
   fresh |-> tree.kind = "Function"
               /\ tree.kids[1].name \notin DOMAIN Known(before)]

CInit ==
  /\ Init
  /\ host \in Modes
  /\ gen = NewCodegenerator(host = "module")
  /\ jit = <<>>
  /\ compiled = NothingCompiled
  /\ clean = TRUE
  /\ loose = {}

NextText ==
  /\ InitFromString
  /\ pc' \in {host, "crashed"}
  /\ UNCHANGED cvars

(* The kinds of nodes of a tree that may have an unset isNull: the         *)
(* prototypes that were parsed have it set (parsePrototype).               *)
Unset(tree) == Kinds(tree) \ {"Prototype"}

(* Code generation for one tree; kinds are those whose isNull was unset,   *)
(* and Settled is what the next statement sees of the state after it.      *)
Generate(s, g, kinds) ==
  IF IsNull(s) THEN {g}
  ELSE {codegen(s.node, [g EXCEPT !.errs = <<>>, !.stale = stale]) :
          stale \in SUBSET (StaleBits \cap kinds)}
Settled(g) == [g EXCEPT !.errs = <<>>, !.stale = {}, !.val = NoValue,
                        !.const = FALSE, !.node = Untyped, !.types = <<>>, !.torn = {}]

(* The end s of a parse by op, and the state g that code generation left.  *)
Took(op, lx, s, g, next) ==
  /\ lex' = s.lex
  /\ flag' = s.flag
  /\ diagnostic' = Remember(s.errs \o g.errs)
  /\ outcome' = OutcomeOf(op, lx, s)
  /\ gen' = Settled(g)
  /\ pc' = IF Faulted(s) \/ g.fault # "none" THEN "crashed" ELSE next

(* The functions that a tree made the state g from the insert point ip     *)
(* goes on in without being about them.                                    *)
Loosened(tree, ip, g) ==
  g.torn \cup IF tree.kind \in {"Prototype", "Function"} THEN {} ELSE {ip}

(* One turn of the loop of generateModuleContent: a statement that was     *)
(* parsed generates code, and what it returns is not looked at.            *)
CompileStatement ==
  /\ pc = "module"
  /\ lex.cur.tok # "tok_eof"
  /\ \E s \in Ends("parseStatement", lex) :
       \E g \in Generate(s, gen, Unset(s.node)) :
         /\ Took("parseStatement", lex, s, g, "module")
         /\ compiled' = IF IsNull(s) THEN compiled ELSE CompiledTree(s.node, gen, g)
         /\ loose' = loose \cup IF IsNull(s) THEN {} ELSE Loosened(s.node, gen.ip, g)
         /\ clean' = (clean /\ g.stale = {})
  /\ turn' = ~turn
  /\ UNCHANGED <<inputs, host, jit>>

EndModule == ModuleEnd /\ UNCHANGED cvars
IgnoreLine == ReplIgnore /\ UNCHANGED cvars
PrintErrors == PrintDiagnostic /\ UNCHANGED cvars

(* BabycppJIT::addModule compiles at once: of code that would not verify,  *)
(* anything may come.                                                      *)
Bodies(g, mod) == {name \in DOMAIN g.mods[mod] : ~Empty(g.mods[mod][name])}
addModule(g, mod) ==
  IF \A name \in Bodies(g, mod) : Sound(g, <<mod, name>>) THEN g
  ELSE Die(g, "undefined")

(* handleFunction: the function goes to the static module, which is added  *)
(* to the JIT whether code generation succeeded or not.                    *)
CompileFunction ==
  /\ pc = "repl"
  /\ LET d == lookAheadStatement(lex)
         static == [gen EXCEPT !.cur = "static"]
     IN  /\ d.kind = "tok_function_repl"
         /\ \E s \in Ends("parseFunction", d.lex) :
            \E g \in Generate(s, static, Unset(s.node)) :
              LET a == IF IsNull(s) \/ g.fault # "none" THEN g ELSE addModule(g, "static")
              IN  /\ Took("parseFunction", d.lex, s, a, "ready")
                  /\ jit' = IF IsNull(s) \/ a.fault # "none" THEN jit
                            ELSE Append(jit, a.mods["static"])
                  /\ compiled' = IF IsNull(s) THEN compiled
                                 ELSE CompiledTree(s.node, gen, g)
                  /\ loose' = loose \cup IF IsNull(s) THEN {} ELSE Loosened(s.node, gen.ip, g)
                  /\ clean' = (clean /\ g.stale = {})
  /\ UNCHANGED <<inputs, turn, host>>

(* handleExpression, before the parse: a dummy function takes the code.    *)
Anonymous(functions, name, ret, body) ==
  With(functions, name, [ret |-> ret, args |-> <<>>, names |-> <<>>, body |-> body])
Dummy(g) ==
  [g EXCEPT !.cur = "anonymous", !.ip = <<"anonymous", DUMMY_FUNCTION>>,
            !.mods["anonymous"] = Anonymous(@, DUMMY_FUNCTION, "i32", FunctionHead)]

(* After it: the block moves to a function that returns a float if the     *)
(* value is one and an int otherwise (void, if the unset isNull of its     *)
(* prototype reads as true); what verifyFunction says is not looked at.    *)
Final(g) ==
  LET ret == IF "Prototype" \in g.stale THEN "void"
             ELSE IF g.val = "float" THEN "float" ELSE "i32"
      block == Fn(g, <<"anonymous", DUMMY_FUNCTION>>).body
      body == Emit(block, Ret(Checks(g.val = ret, {})))
  IN  addModule([g EXCEPT !.mods["anonymous"] =
                   Anonymous(Anonymous(@, DUMMY_FUNCTION, "i32", NoBody),
                             ANONYMOUS_FUNCTION, ret, body)], "anonymous")

(* The functions are erased again; the builder still points into the block *)
(* that was.                                                               *)
EraseFunctions(g) ==
  [g EXCEPT !.mods["anonymous"] =
     [name \in DOMAIN @ \ {ANONYMOUS_FUNCTION, DUMMY_FUNCTION} |-> @[name]]]

(* removeModule, and a wrong version with the wrong handle. *)
removeFirst(modules, handle) == Tail(modules)
removeModule(modules, handle) == RemoveAt(modules, handle)

CompileExpression ==
  /\ pc = "repl"
  /\ LET d == lookAheadStatement(lex)
     IN  /\ d.kind = "tok_expression_repl"
         /\ \E s \in Ends("handleExpression", d.lex) :
            \E g \in Generate(s, Dummy(gen), {"Prototype"} \cup Unset(s.node)) :
              LET f == IF IsNull(s) \/ g.fault # "none" THEN g
                       ELSE IF Stopped(g) THEN Die(g, "null") ELSE Final(g)
                  failed == IsNull(s) \/ f.fault # "none"
                  handle == Len(jit) + 1
              IN  /\ Took("handleExpression", d.lex, s,
                          IF failed THEN f ELSE EraseFunctions(f), "ready")
                  /\ jit' = IF failed THEN jit
                            ELSE removeModule(Append(jit, f.mods["anonymous"]), handle)
                  /\ compiled' = IF IsNull(s) THEN compiled
                                 ELSE CompiledTree(s.node, gen, f)
                  /\ clean' = (clean /\ g.stale = {})
  /\ UNCHANGED <<inputs, turn, host, loose>>

CNext == \/ NextText \/ CompileStatement \/ EndModule
         \/ IgnoreLine \/ CompileFunction \/ CompileExpression \/ PrintErrors

CSpec == CInit /\ [][CNext]_allvars
-----------------------------------------------------------------------------
Static == gen.mods["static"]
Served == Bodies(gen, "static")

(* The builder is in a block of the function it inserts into, variables    *)
(* belong to functions that exist, and so does the scope.                  *)
Exists(id) == id = NoFunction \/ (id[1] = "static" => id[2] \in Served)
GenTypeOK ==
  /\ host \in {"module", "repl"}
  /\ gen.fault \in {"none", "null", "stack", "undefined"}
  /\ \A name \in Served :
       LET body == Static[name].body
       IN  body.ip \in body.placed /\ body.placed \subseteq 1 .. Len(body.code)
  /\ \A name \in DOMAIN gen.vars : Exists(gen.vars[name].owner)
  /\ Exists(gen.scope)

(* The instructions of a function are about its own values: no variable of *)
(* another function is seen in it, although namedValues outlives each      *)
(* function and each text.                                                 *)
OwnValues ==
  \A name \in {f \in Served : <<"static", f>> \notin loose} :
    LET body == Static[name].body
    IN  \A b \in body.placed : \A k \in 1 .. Len(body.code[b]) :
          body.code[b][k].op = "work" =>
            body.code[b][k].what.of \subseteq {<<"static", name>>}

(* A function once accepted keeps its code, whatever texts follow: later   *)
(* definitions of its name, externs, functions that fail, other lines.     *)
(* (Statements outside functions, which go on in its last block, excepted.)*)
DefinedStays ==
  [][\A name \in Served :
       <<"static", name>> \notin loose' /\ Sound(gen, <<"static", name>>)
         => gen'.mods["static"][name] = Static[name]]_allvars

(* What a call is checked against is the type of the function it calls:    *)
(* functionProtos (or the builtins) and the module agree on each name they *)
(* share, unless an extern gave a function another type.  (The functions   *)
(* that handleExpression makes for a line have no prototype.)              *)
Handles(mod) ==
  IF mod = "anonymous" THEN {ANONYMOUS_FUNCTION, DUMMY_FUNCTION} ELSE {}
SignaturesAgree ==
  \A mod \in {"static", "anonymous"} :
    \A name \in DOMAIN gen.mods[mod] \ (gen.redeclared \cup Handles(mod)) :
      returnProto(gen, name) # Null =>
        SameType(gen.mods[mod][name], FunctionOf(returnProto(gen, name)))

(* Between two lines of the REPL, the JIT serves each function defined so  *)
(* far with its present code, however often the static module was added,   *)
(* and nothing else: no expression is left in it.                          *)
JitServesDefinitions ==
  host = "repl" /\ pc = "ready" =>
    /\ \A name \in Served : \E k \in 1 .. Len(jit) :
         /\ name \in DOMAIN jit[k] /\ jit[k][name] = Static[name]
         /\ \A j \in 1 .. k - 1 : name \notin DOMAIN jit[j] \/ Empty(jit[j][name])
    /\ \A k \in 1 .. Len(jit) : DOMAIN jit[k] \subseteq DOMAIN Static
-----------------------------------------------------------------------------
(* What a comment says, and the code does not do.                          *)

(* AST.cpp, VariableExprAST::codegen: "in the case that the RHS is a       *)
(* nullpointer we are going to generate the instruction directly".         *)
OnlyNullIsNull == gen.nulls \subseteq {"Number"}
=============================================================================
