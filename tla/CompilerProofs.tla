--------------------------- MODULE CompilerProofs ---------------------------
(***************************************************************************)
(* Proofs about Compiler, for every text, every history of texts and every *)
(* depth of the calls.  They hold of the Call and the Gen that are         *)
(* Dispatch and GenDispatch, which is how the instances close the          *)
(* recursion (ParseRecursion, GenRecursion); induction is over the room on *)
(* the stack.                                                              *)
(***************************************************************************)
EXTENDS Compiler, LexerOpsProofs

(* Call and Gen are what the methods of the parser and of the nodes do,    *)
(* wherever the stack has room for a number of calls.                      *)
ParseRecursion ==
  \A m, s, x : s.room \in Nat => Call(m, s, x) = Dispatch(m, s, x)
GenRecursion ==
  \A m, x, g : g.room \in Nat => Gen(m, x, g) = GenDispatch(m, x, g)

-----------------------------------------------------------------------------
(***************************************************************************)
(* Bodies.                                                                 *)
(***************************************************************************)
BodyFields == {"code", "placed", "ip"}

(* The builder is in a block of the body, and its blocks exist. *)
InOrder(f) ==
  /\ DOMAIN f = BodyFields
  /\ \E S : f.code \in Seq(Seq(S))
  /\ f.placed \subseteq 1 .. Len(f.code)
  /\ f.ip \in f.placed

(* The instructions of a body are about the values of id only. *)
Own(f, id) ==
  \A b \in 1 .. Len(f.code) : \A k \in 1 .. Len(f.code[b]) :
    f.code[b][k].op = "work" => f.code[b][k].what.of \subseteq {id}

Grows(f, h) ==
  /\ Len(f.code) <= Len(h.code)
  /\ f.placed \subseteq h.placed
  /\ f # NoBody => h # NoBody

(* h is f with more of its own. *)
Follows(f, h) ==
  /\ InOrder(h)
  /\ Grows(f, h)
  /\ \A id : Own(f, id) => Own(h, id)

LEMMA InOrderLen ==
  ASSUME NEW f, InOrder(f)
  PROVE  /\ Len(f.code) \in Nat
         /\ DOMAIN f.code = 1 .. Len(f.code)
         /\ f.ip \in 1 .. Len(f.code)
         /\ f # NoBody
<1>1. PICK S : f.code \in Seq(Seq(S))
  BY DEF InOrder
<1>2. Len(f.code) \in Nat /\ DOMAIN f.code = 1 .. Len(f.code)
  BY <1>1
<1>3. f.ip \in f.placed /\ f.placed \subseteq 1 .. Len(f.code)
  BY DEF InOrder
<1>4. f # NoBody
  BY <1>3 DEF NoBody
<1> QED BY <1>2, <1>3, <1>4

LEMMA FollowsAll ==
  ASSUME NEW f, NEW h, NEW k, InOrder(f), Follows(f, h), Follows(h, k)
  PROVE  Follows(f, k)
<1>1. Len(f.code) \in Nat /\ Len(h.code) \in Nat /\ Len(k.code) \in Nat
  BY InOrderLen DEF Follows
<1> QED BY <1>1 DEF Follows, Grows

LEMMA GrowsAll ==
  ASSUME NEW f, NEW h, NEW k, Grows(f, h), Grows(h, k),
         f = NoBody \/ InOrder(f), h = NoBody \/ InOrder(h), k = NoBody \/ InOrder(k)
  PROVE  Grows(f, k)
<1>1. Len(NoBody.code) \in Nat
  BY DEF NoBody
<1>2. Len(f.code) \in Nat /\ Len(h.code) \in Nat /\ Len(k.code) \in Nat
  BY <1>1, InOrderLen
<1> QED BY <1>2 DEF Grows

LEMMA EmitFollows ==
  ASSUME NEW f, InOrder(f), NEW i
  PROVE  /\ InOrder(Emit(f, i))
         /\ Grows(f, Emit(f, i))
         /\ Len(Emit(f, i).code) = Len(f.code)
         /\ Emit(f, i).placed = f.placed
         /\ Emit(f, i).ip = f.ip
         /\ \A id : Own(f, id) /\ (i.op = "work" => i.what.of \subseteq {id})
                      => Own(Emit(f, i), id)
<1> DEFINE h == Emit(f, i)
<1>1. PICK S : f.code \in Seq(Seq(S))
  BY DEF InOrder
<1>2. f.code \in Seq(Seq(S \cup {i}))
  <2>1. \A b \in 1 .. Len(f.code) : f.code[b] \in Seq(S \cup {i})
    <3> TAKE b \in 1 .. Len(f.code)
    <3>1. f.code[b] \in Seq(S)
      BY <1>1
    <3> QED BY <3>1
  <2> QED BY <1>1, <2>1
<1>3. f.ip \in 1 .. Len(f.code) /\ DOMAIN f = BodyFields
  BY DEF InOrder
<1>4. h.code = [f.code EXCEPT ![f.ip] = Append(f.code[f.ip], i)]
  BY <1>3 DEF Emit, BodyFields
<1>5. DOMAIN h = BodyFields /\ h.placed = f.placed /\ h.ip = f.ip
  BY <1>3 DEF Emit, BodyFields
<1>6. Append(f.code[f.ip], i) \in Seq(S \cup {i})
  BY <1>2, <1>3
<1>7. h.code \in Seq(Seq(S \cup {i})) /\ Len(h.code) = Len(f.code)
  BY <1>2, <1>3, <1>4, <1>6
<1>8. InOrder(h)
  BY <1>5, <1>7 DEF InOrder
<1>9. Grows(f, h)
  BY <1>5, <1>7, <1>8, InOrderLen DEF Grows
<1>10. ASSUME NEW id, Own(f, id), i.op = "work" => i.what.of \subseteq {id}
       PROVE  Own(h, id)
  <2> SUFFICES ASSUME NEW b \in 1 .. Len(f.code), NEW k \in 1 .. Len(h.code[b]),
                      h.code[b][k].op = "work"
               PROVE  h.code[b][k].what.of \subseteq {id}
    BY <1>7 DEF Own
  <2>1. CASE b # f.ip
    <3>1. h.code[b] = f.code[b]
      BY <1>2, <1>4, <2>1
    <3> QED BY <3>1, <1>10 DEF Own
  <2>2. CASE b = f.ip
    <3>1. h.code[b] = Append(f.code[b], i)
      BY <1>2, <1>3, <1>4, <2>2
    <3>2. f.code[b] \in Seq(S) /\ Len(f.code[b]) \in Nat
      <4>1. f.code[b] \in Seq(S)
        BY <1>1
      <4> QED BY <4>1
    <3>3. k \in 1 .. Len(f.code[b]) + 1
      BY <3>1, <3>2
    <3>4. CASE k \in 1 .. Len(f.code[b])
      <4>1. h.code[b][k] = f.code[b][k]
        BY <3>1, <3>2, <3>4
      <4> QED BY <4>1, <3>4, <1>10 DEF Own
    <3>5. CASE k = Len(f.code[b]) + 1
      <4>1. h.code[b][k] = i
        BY <3>1, <3>2, <3>5
      <4>2. i.op = "work"
        BY <4>1
      <4>3. i.what.of \subseteq {id}
        BY <4>2, <1>10
      <4> QED BY <4>1, <4>3
    <3> QED BY <3>2, <3>3, <3>4, <3>5
  <2> QED BY <2>1, <2>2
<1> QED BY <1>5, <1>7, <1>8, <1>9, <1>10

LEMMA CreateFollows ==
  ASSUME NEW f, InOrder(f)
  PROVE  /\ Follows(f, Create(f))
         /\ Len(Create(f).code) = Len(f.code) + 1
         /\ Create(f).ip = f.ip
<1> DEFINE h == Create(f)
<1>1. PICK S : f.code \in Seq(Seq(S))
  BY DEF InOrder
<1>2. DOMAIN f = BodyFields /\ f.placed \subseteq 1 .. Len(f.code) /\ f.ip \in f.placed
  BY DEF InOrder
<1>3. h.code = Append(f.code, <<>>)
  BY <1>2 DEF Create, BodyFields
<1>4. DOMAIN h = BodyFields /\ h.placed = f.placed /\ h.ip = f.ip
  BY <1>2 DEF Create, BodyFields
<1>5. <<>> \in Seq(S)
  OBVIOUS
<1>6. h.code \in Seq(Seq(S)) /\ Len(h.code) = Len(f.code) + 1
  BY <1>1, <1>3, <1>5
<1>7. InOrder(h)
  BY <1>2, <1>4, <1>6 DEF InOrder
<1>8. Grows(f, h)
  BY <1>1, <1>4, <1>6, <1>7, InOrderLen DEF Grows
<1>9. ASSUME NEW id, Own(f, id) PROVE Own(h, id)
  <2> SUFFICES ASSUME NEW b \in 1 .. Len(f.code) + 1, NEW k \in 1 .. Len(h.code[b]),
                      h.code[b][k].op = "work"
               PROVE  h.code[b][k].what.of \subseteq {id}
    BY <1>6 DEF Own
  <2>1. CASE b \in 1 .. Len(f.code)
    <3>1. h.code[b] = f.code[b]
      BY <1>1, <1>3, <2>1
    <3> QED BY <3>1, <2>1, <1>9 DEF Own
  <2>2. CASE b = Len(f.code) + 1
    <3>1. h.code[b] = <<>>
      BY <1>1, <1>3, <2>2
    <3>2. Len(h.code[b]) = 0
      BY <3>1
    <3>3. k \in 1 .. 0
      BY <3>2
    <3> QED BY <3>3
  <2>3. b \in 1 .. Len(f.code) \/ b = Len(f.code) + 1
    BY InOrderLen
  <2> QED BY <2>1, <2>2, <2>3
<1> QED BY <1>4, <1>6, <1>7, <1>8, <1>9 DEF Follows

LEMMA PlaceFollows ==
  ASSUME NEW f, InOrder(f), NEW b \in 1 .. Len(f.code)
  PROVE  /\ Follows(f, Place(f, b))
         /\ Place(f, b).code = f.code
         /\ Place(f, b).placed = f.placed \cup {b}
         /\ Place(f, b).ip = f.ip
<1> DEFINE h == Place(f, b)
<1>1. /\ DOMAIN h = BodyFields /\ h.code = f.code
      /\ h.placed = f.placed \cup {b} /\ h.ip = f.ip
  BY DEF Place, InOrder, BodyFields
<1>2. InOrder(h)
  BY <1>1 DEF InOrder
<1>3. Grows(f, h)
  BY <1>1, <1>2, InOrderLen DEF Grows
<1>4. \A id : Own(f, id) => Own(h, id)
  BY <1>1 DEF Own
<1> QED BY <1>1, <1>2, <1>3, <1>4 DEF Follows

LEMMA AtFollows ==
  ASSUME NEW f, InOrder(f), NEW b \in f.placed
  PROVE  /\ Follows(f, At(f, b))
         /\ At(f, b).code = f.code
         /\ At(f, b).placed = f.placed
<1> DEFINE h == At(f, b)
<1>1. DOMAIN h = BodyFields /\ h.code = f.code /\ h.placed = f.placed /\ h.ip = b
  BY DEF At, InOrder, BodyFields
<1>2. InOrder(h)
  BY <1>1 DEF InOrder
<1>3. Grows(f, h)
  BY <1>1, <1>2, InOrderLen DEF Grows
<1>4. \A id : Own(f, id) => Own(h, id)
  BY <1>1 DEF Own
<1> QED BY <1>1, <1>2, <1>3, <1>4 DEF Follows

(* The instructions the constructs add to what their children made. *)
Neutral(i) == i.op = "work" => i.what.of = {}
LEMMA EmitNeutral ==
  ASSUME NEW f, InOrder(f), NEW i, Neutral(i)
  PROVE  Follows(f, Emit(f, i))
BY EmitFollows DEF Follows, Neutral

LEMMA Neutrals ==
  ASSUME NEW c, NEW b, NEW t
  PROVE  Neutral(Br(b)) /\ Neutral(CondBr(c, b, t)) /\ Neutral(Ret(c)) /\ Neutral(RetVoid)
BY DEF Neutral, Br, CondBr, Ret, RetVoid, Instruction

-----------------------------------------------------------------------------
(***************************************************************************)
(* States of code generation.                                              *)
(***************************************************************************)
Modules == {"static", "anonymous"}
GenFaults == {"none", "null", "stack", "undefined"}
GenFields == {"mods", "cur", "protos", "vars", "scope", "ip", "builtins", "errs",
              "fault", "stale", "val", "const", "node", "types", "redeclared",
              "nulls", "room", "torn"}
FunctionFields == {"ret", "args", "names", "body"}
VariableFields == {"datatype", "ptr", "owner"}

IsId(id) == id = <<id[1], id[2]>> /\ id[1] \in Modules
IsFunction(f) == DOMAIN f = FunctionFields /\ (f.body = NoBody \/ InOrder(f.body))

(* A function of this name is declared; it has a body; who owns something. *)
Held(g, id) == IsId(id) /\ ~Erased(g, id)
Bodied(g, id) == Held(g, id) /\ ~Empty(Fn(g, id))
Belongs(g, id) == id = NoFunction \/ Bodied(g, id)

(* Functions have the type of their prototypes. *)
AgreesAt(g, id) ==
  /\ id[2] \in DOMAIN g.protos \cup DOMAIN g.builtins
  /\ id[2] \in g.redeclared \/ SameType(Fn(g, id), FunctionOf(returnProto(g, id[2])))
Agree(g) == \A id : Held(g, id) /\ id[2] \notin Handles(id[1]) => AgreesAt(g, id)

(* (The functions made for a line of the REPL are erased, what they own    *)
(* stays.)                                                                 *)
Lasts(g, id) == Belongs(g, id) \/ id[1] = "anonymous"
Variables(g) ==
  \A name \in DOMAIN g.vars : DOMAIN g.vars[name] = VariableFields
                                /\ Lasts(g, g.vars[name].owner)

(* Prototypes are kept under their names. *)
Named(protos) == \A name \in DOMAIN protos : protos[name].name = name

Shape(g) ==
  /\ DOMAIN g = GenFields
  /\ g.cur \in Modules
  /\ DOMAIN g.mods = Modules
  /\ \A id : Held(g, id) => IsFunction(Fn(g, id))
  /\ g.room \in Nat
  /\ g.fault \in GenFaults
  /\ Lasts(g, g.scope)
  /\ Variables(g)
  /\ Named(g.protos) /\ Named(g.builtins)
State(g) == Shape(g) /\ Agree(g)

(* And the builder is in a block. *)
Good(g) == State(g) /\ Belongs(g, g.ip)

(* The function that is being generated is about its own values, and what  *)
(* is known by name as well.                                               *)
Owning(g) ==
  /\ g.scope \in {NoFunction, g.ip}
  /\ \A name \in DOMAIN g.vars : g.vars[name].owner \in {NoFunction, g.ip}
  /\ g.ip # NoFunction => Own(Fn(g, g.ip).body, g.ip)

(* What code generation leaves alone on the way from g to h: the functions *)
(* other than the one the builder inserts into, unless torn.               *)
Keeps(g, h, id) ==
  /\ Held(h, id)
  /\ Grows(Fn(g, id).body, Fn(h, id).body)
  /\ id # g.ip /\ id \notin h.torn => Fn(h, id) = Fn(g, id)
Adds(g, h, id) ==
  id[1] = g.cur /\ (id \notin h.torn => Empty(Fn(h, id)))
Tears(g, id) ==
  id = g.ip \/ (IsId(id) /\ id[1] = g.cur /\ ~Bodied(g, id))
Touches(g, h) ==
  /\ h.cur = g.cur
  /\ h.room = g.room
  /\ g.torn \subseteq h.torn
  /\ \A id : Held(g, id) => Keeps(g, h, id)
  /\ \A id : Held(h, id) /\ ~Held(g, id) => Adds(g, h, id)
  /\ \A id \in h.torn \ g.torn : Tears(g, id)
  /\ h.ip = g.ip \/ (h.ip \in h.torn /\ g.ip \in h.torn)
  /\ g.ip # NoFunction => h.ip # NoFunction

(* And what it promises of the function it is about. *)
Delivers(g, h) ==
  /\ Good(h)
  /\ Touches(g, h)
  /\ g.ip \notin h.torn /\ Owning(g) => Owning(h)

LEMMA FnBody ==
  ASSUME NEW g, State(g), NEW id, Held(g, id)
  PROVE  /\ DOMAIN Fn(g, id) = FunctionFields
         /\ Fn(g, id).body = NoBody \/ InOrder(Fn(g, id).body)
         /\ ~Empty(Fn(g, id)) => InOrder(Fn(g, id).body)
BY DEF State, Shape, IsFunction, Empty

LEMMA BodiedBody ==
  ASSUME NEW g, State(g), NEW id, Bodied(g, id)
  PROVE  Held(g, id) /\ InOrder(Fn(g, id).body) /\ id # NoFunction
<1>1. Held(g, id) /\ InOrder(Fn(g, id).body)
  BY FnBody DEF Bodied
<1>2. id # NoFunction
  <2>1. Len(id) = 2
    BY <1>1 DEF Held, IsId
  <2> QED BY <2>1 DEF NoFunction
<1> QED BY <1>1, <1>2

LEMMA DeliversAgain ==
  ASSUME NEW g, Good(g)
  PROVE  Delivers(g, g)
<1>1. ASSUME NEW id, Held(g, id) PROVE Grows(Fn(g, id).body, Fn(g, id).body)
  <2>1. Len(NoBody.code) \in Nat
    BY DEF NoBody
  <2>2. Len(Fn(g, id).body.code) \in Nat
    BY <1>1, <2>1, FnBody, InOrderLen DEF Good
  <2> QED BY <2>2 DEF Grows
<1>2. Touches(g, g)
  BY <1>1 DEF Touches, Keeps
<1> QED BY <1>2 DEF Delivers

LEMMA BodiedOn ==
  ASSUME NEW g, NEW h, Touches(g, h), NEW id, Bodied(g, id)
  PROVE  Bodied(h, id)
BY DEF Touches, Keeps, Bodied, Grows, Empty

LEMMA TouchesAll ==
  ASSUME NEW g, NEW h, NEW k, Good(g), Good(h), Good(k), Touches(g, h), Touches(h, k)
  PROVE  Touches(g, k)
<1>1. k.cur = g.cur /\ k.room = g.room /\ g.torn \subseteq k.torn
  BY DEF Touches
<1>2. h.ip = g.ip \/ (h.ip \in h.torn /\ g.ip \in h.torn)
  BY DEF Touches
<1>3. /\ k.ip = g.ip \/ (k.ip \in k.torn /\ g.ip \in k.torn)
      /\ g.ip # NoFunction => k.ip # NoFunction
  BY <1>2 DEF Touches
<1>4. ASSUME NEW id, Held(g, id) PROVE Keeps(g, k, id)
  <2>1. Held(h, id) /\ Held(k, id)
    BY <1>4 DEF Touches, Keeps
  <2>2. Grows(Fn(g, id).body, Fn(h, id).body) /\ Grows(Fn(h, id).body, Fn(k, id).body)
    BY <1>4, <2>1 DEF Touches, Keeps
  <2>3. Grows(Fn(g, id).body, Fn(k, id).body)
    BY <1>4, <2>1, <2>2, FnBody, GrowsAll DEF Good
  <2>4. ASSUME id # g.ip, id \notin k.torn PROVE Fn(k, id) = Fn(g, id)
    <3>1. id \notin h.torn /\ id # h.ip
      BY <1>2, <2>4 DEF Touches
    <3> QED BY <1>4, <2>1, <2>4, <3>1 DEF Touches, Keeps
  <2> QED BY <2>1, <2>3, <2>4 DEF Keeps
<1>5. ASSUME NEW id, Held(k, id), ~Held(g, id) PROVE Adds(g, k, id)
  <2>1. CASE Held(h, id)
    <3>1. id[1] = g.cur /\ (id \notin h.torn => Empty(Fn(h, id)))
      BY <1>5, <2>1 DEF Touches, Adds
    <3>2. ASSUME id \notin k.torn PROVE Empty(Fn(k, id))
      <4>1. id \notin h.torn /\ h.torn \subseteq k.torn
        BY <3>2 DEF Touches
      <4>2. id # g.ip
        BY <1>5, <3>1, <4>1, <2>1, BodiedBody DEF Good, Belongs, Bodied, NoFunction, Held, IsId
      <4>3. id # h.ip
        BY <1>2, <4>1, <4>2
      <4>4. Fn(k, id) = Fn(h, id)
        BY <2>1, <3>2, <4>3 DEF Touches, Keeps
      <4> QED BY <3>1, <4>1, <4>4
    <3> QED BY <3>1, <3>2 DEF Adds
  <2>2. CASE ~Held(h, id)
    BY <1>5, <2>2 DEF Touches, Adds
  <2> QED BY <2>1, <2>2
<1>6. ASSUME NEW id \in k.torn \ g.torn PROVE Tears(g, id)
  <2>1. CASE id \in h.torn
    BY <2>1, <1>6 DEF Touches
  <2>2. CASE id \notin h.torn
    <3>1. id = h.ip \/ (IsId(id) /\ id[1] = h.cur /\ ~Bodied(h, id))
      BY <2>2, <1>6 DEF Touches, Tears
    <3>2. ~Bodied(h, id) => ~Bodied(g, id)
      BY BodiedOn
    <3>3. h.cur = g.cur
      BY DEF Touches
    <3> QED BY <1>2, <2>2, <3>1, <3>2, <3>3 DEF Tears
  <2> QED BY <2>1, <2>2
<1> QED BY <1>1, <1>3, <1>4, <1>5, <1>6 DEF Touches

LEMMA DeliversAll ==
  ASSUME NEW g, NEW h, NEW k, Good(g), Delivers(g, h), Delivers(h, k)
  PROVE  Delivers(g, k)
<1>1. Touches(g, k)
  BY TouchesAll DEF Delivers
<1>2. ASSUME g.ip \notin k.torn, Owning(g) PROVE Owning(k)
  <2>1. g.ip \notin h.torn
    BY <1>2 DEF Delivers, Touches
  <2>2. h.ip = g.ip
    BY <2>1 DEF Delivers, Touches
  <2> QED BY <1>2, <2>1, <2>2 DEF Delivers
<1> QED BY <1>1, <1>2 DEF Delivers

(* Operations on what is left out of Good. *)
Quiet(g, h) ==
  /\ DOMAIN h = GenFields
  /\ h.mods = g.mods /\ h.cur = g.cur /\ h.protos = g.protos /\ h.builtins = g.builtins
  /\ h.vars = g.vars /\ h.scope = g.scope /\ h.ip = g.ip /\ h.room = g.room
  /\ h.redeclared = g.redeclared /\ h.torn = g.torn
  /\ h.fault \in GenFaults

LEMMA QuietSame ==
  ASSUME NEW g, NEW h, Quiet(g, h)
  PROVE  /\ \A id : Fn(h, id) = Fn(g, id)
         /\ \A id : Held(h, id) <=> Held(g, id)
         /\ \A id : Bodied(h, id) <=> Bodied(g, id)
         /\ \A id : Belongs(h, id) <=> Belongs(g, id)
         /\ Agree(g) => Agree(h)
         /\ Variables(g) => Variables(h)
<1>1. \A id : Fn(h, id) = Fn(g, id) /\ (Held(h, id) <=> Held(g, id))
  BY DEF Quiet, Fn, Held, Erased
<1>2. \A id : Bodied(h, id) <=> Bodied(g, id)
  BY <1>1 DEF Bodied
<1>3. \A id : Belongs(h, id) <=> Belongs(g, id)
  BY <1>2 DEF Belongs
<1>4. \A name : returnProto(h, name) = returnProto(g, name)
  BY DEF Quiet, returnProto
<1>5. Agree(g) => Agree(h)
  BY <1>1, <1>4 DEF Agree, AgreesAt, Quiet
<1>6. Variables(g) => Variables(h)
  BY <1>3 DEF Variables, Lasts, Quiet
<1> QED BY <1>1, <1>2, <1>3, <1>5, <1>6

LEMMA QuietState ==
  ASSUME NEW g, NEW h, State(g), Quiet(g, h)
  PROVE  State(h)
BY QuietSame DEF State, Shape, Lasts, Quiet

LEMMA QuietGood ==
  ASSUME NEW g, NEW h, Good(g), Quiet(g, h)
  PROVE  Delivers(g, h)
<1>1. State(h) /\ Belongs(h, h.ip)
  BY QuietSame, QuietState DEF Good, Quiet
<1>2. Touches(g, g)
  BY DeliversAgain DEF Delivers
<1>3. Touches(g, h)
  BY <1>2, QuietSame DEF Touches, Keeps, Adds, Tears, Quiet
<1>4. Owning(g) => Owning(h)
  BY QuietSame DEF Owning, Quiet
<1> QED BY <1>1, <1>3, <1>4 DEF Delivers, Good

(* The operations that only say what came of it. *)
LEMMA Quiets ==
  ASSUME NEW g, State(g)
  PROVE  /\ Quiet(g, g)
         /\ Quiet(g, Nothing(g))
         /\ \A fault \in GenFaults : Quiet(g, Die(g, fault))
         /\ \A type, attr : Quiet(g, Value(g, type, attr))
         /\ \A type, attr : Quiet(g, Constant(g, type, attr))
         /\ \A code : Quiet(g, Issue(g, code))
         /\ \A code : Quiet(g, IssueIfStopped(g, code))
<1>1. DOMAIN g = GenFields /\ g.fault \in GenFaults
  BY DEF State, Shape
<1>2. Quiet(g, g)
  BY <1>1 DEF Quiet
<1>3. Quiet(g, Nothing(g))
  BY <1>1 DEF Quiet, Nothing, GenFields
<1>4. \A fault \in GenFaults : Quiet(g, Die(g, fault))
  BY <1>1 DEF Quiet, Die, GenFields
<1>5. \A type, attr : Quiet(g, Value(g, type, attr))
  BY <1>1 DEF Quiet, Value, GenFields
<1>6. \A type, attr : Quiet(g, Constant(g, type, attr))
  BY <1>1 DEF Quiet, Constant, Value, GenFields
<1>7. \A code : Quiet(g, Issue(g, code))
  BY <1>1, <1>2 DEF Quiet, Issue, Nothing, GenFields
<1>8. \A code : Quiet(g, IssueIfStopped(g, code))
  BY <1>2, <1>7 DEF IssueIfStopped
<1> QED BY <1>2, <1>3, <1>4, <1>5, <1>6, <1>7, <1>8

(* h is g with the body b for the function id. *)
Rebodied(g, h, id, b) ==
  /\ DOMAIN h = GenFields
  /\ DOMAIN h.mods = Modules
  /\ h.cur = g.cur /\ h.protos = g.protos /\ h.builtins = g.builtins
  /\ h.vars = g.vars /\ h.scope = g.scope /\ h.ip = g.ip /\ h.room = g.room
  /\ h.redeclared = g.redeclared /\ h.torn = g.torn /\ h.fault = g.fault
  /\ \A x : Held(h, x) <=> Held(g, x)
  /\ \A x : Held(g, x) /\ x # id => Fn(h, x) = Fn(g, x)
  /\ DOMAIN Fn(h, id) = FunctionFields
  /\ Fn(h, id).ret = Fn(g, id).ret /\ Fn(h, id).args = Fn(g, id).args
  /\ Fn(h, id).body = b

LEMMA SetBodyIs ==
  ASSUME NEW g, State(g), NEW id, Held(g, id), NEW b
  PROVE  Rebodied(g, SetBody(g, id, b), id, b)
<1> DEFINE m == [g.mods EXCEPT ![id[1]][id[2]].body = b]
           h == [g EXCEPT !.mods = m]
<1>1. DOMAIN g = GenFields /\ DOMAIN g.mods = Modules /\ id[1] \in Modules
      /\ id[2] \in DOMAIN g.mods[id[1]] /\ id = <<id[1], id[2]>>
      /\ DOMAIN g.mods[id[1]][id[2]] = FunctionFields
  BY FnBody DEF State, Shape, Held, IsId, Erased, Fn
<1>2. SetBody(g, id, b) = h
  BY <1>1 DEF SetBody, GenFields
<1>3. DOMAIN h = GenFields /\ h.mods = m
  BY <1>1 DEF GenFields
<1>4. DOMAIN m = Modules
  BY <1>1
<1>5. \A x \in Modules : x # id[1] => m[x] = g.mods[x]
  BY <1>1
<1>6. m[id[1]] = [g.mods[id[1]] EXCEPT ![id[2]].body = b]
  BY <1>1
<1>7. DOMAIN m[id[1]] = DOMAIN g.mods[id[1]]
  BY <1>6
<1>8. \A y \in DOMAIN g.mods[id[1]] : y # id[2] => m[id[1]][y] = g.mods[id[1]][y]
  BY <1>6
<1>9. m[id[1]][id[2]] = [g.mods[id[1]][id[2]] EXCEPT !.body = b]
  BY <1>1, <1>6
<1>10. ASSUME NEW x PROVE Held(h, x) <=> Held(g, x)
  BY <1>3, <1>5, <1>7 DEF Held, IsId, Erased
<1>11. ASSUME NEW x, Held(g, x), x # id PROVE Fn(h, x) = Fn(g, x)
  <2>1. x = <<x[1], x[2]>> /\ x[1] \in Modules /\ x[2] \in DOMAIN g.mods[x[1]]
    BY <1>11 DEF Held, IsId, Erased
  <2>2. x[1] # id[1] \/ x[2] # id[2]
    BY <1>1, <1>11, <2>1
  <2> QED BY <1>3, <1>5, <1>8, <2>1, <2>2 DEF Fn
<1>12. Fn(h, id) = [Fn(g, id) EXCEPT !.body = b]
  BY <1>3, <1>9 DEF Fn
<1>13. DOMAIN Fn(g, id) = FunctionFields
  BY FnBody
<1>14. /\ DOMAIN Fn(h, id) = FunctionFields
       /\ Fn(h, id).ret = Fn(g, id).ret /\ Fn(h, id).args = Fn(g, id).args
       /\ Fn(h, id).body = b
  BY <1>12, <1>13 DEF FunctionFields
<1>15. /\ h.cur = g.cur /\ h.protos = g.protos /\ h.builtins = g.builtins
       /\ h.vars = g.vars /\ h.scope = g.scope /\ h.ip = g.ip /\ h.room = g.room
       /\ h.redeclared = g.redeclared /\ h.torn = g.torn /\ h.fault = g.fault
  BY <1>1 DEF GenFields
<1> HIDE DEF h
<1> QED BY <1>2, <1>3, <1>4, <1>10, <1>11, <1>14, <1>15 DEF Rebodied

LEMMA RebodiedState ==
  ASSUME NEW g, State(g), NEW id, Held(g, id), NEW b, InOrder(b),
         NEW h, Rebodied(g, h, id, b)
  PROVE  /\ State(h)
         /\ Bodied(h, id)
         /\ \A x : Bodied(g, x) => Bodied(h, x)
         /\ \A x : Belongs(g, x) => Belongs(h, x)
<1>1. Bodied(h, id)
  BY InOrderLen DEF Rebodied, Bodied, Empty
<1>2. ASSUME NEW x, Bodied(g, x) PROVE Bodied(h, x)
  BY <1>1, <1>2 DEF Rebodied, Bodied
<1>3. ASSUME NEW x, Belongs(g, x) PROVE Belongs(h, x)
  BY <1>2, <1>3 DEF Belongs
<1>4. ASSUME NEW x, Held(h, x) PROVE IsFunction(Fn(h, x))
  <2>1. CASE x = id
    BY <2>1 DEF IsFunction, Rebodied
  <2>2. CASE x # id
    BY <1>4, <2>2 DEF State, Shape, Rebodied
  <2> QED BY <2>1, <2>2
<1>5. Variables(h)
  BY <1>3 DEF State, Shape, Variables, Lasts, Rebodied
<1>6. Agree(h)
  <2> SUFFICES ASSUME NEW x, Held(h, x), x[2] \notin Handles(x[1])
               PROVE  AgreesAt(h, x)
    BY DEF Agree
  <2>1. AgreesAt(g, x)
    BY DEF State, Shape, Agree, Rebodied
  <2>2. returnProto(h, x[2]) = returnProto(g, x[2])
    BY DEF Rebodied, returnProto
  <2>3. Fn(h, x).ret = Fn(g, x).ret /\ Fn(h, x).args = Fn(g, x).args
    BY DEF Rebodied
  <2> QED BY <2>1, <2>2, <2>3 DEF AgreesAt, SameType, Rebodied
<1>7. State(h)
  BY <1>3, <1>4, <1>5, <1>6 DEF State, Shape, Lasts, Rebodied
<1> QED BY <1>1, <1>2, <1>3, <1>7

LEMMA RebodiedTouches ==
  ASSUME NEW g, Good(g), NEW id, Bodied(g, id), NEW b, InOrder(b),
         Grows(Fn(g, id).body, b), id = g.ip \/ id \in g.torn,
         NEW h, Rebodied(g, h, id, b)
  PROVE  Good(h) /\ Touches(g, h)
<1>1. Good(h)
  BY RebodiedState DEF Good, Rebodied, Bodied
<1>2. Touches(g, g)
  BY DeliversAgain DEF Delivers
<1>3. ASSUME NEW x, Held(g, x) PROVE Keeps(g, h, x)
  BY <1>2, <1>3 DEF Touches, Keeps, Rebodied
<1> QED BY <1>1, <1>2, <1>3 DEF Touches, Rebodied

LEMMA RebodiedOwning ==
  ASSUME NEW g, Good(g), NEW b, Owning(g), g.ip # NoFunction,
         Own(Fn(g, g.ip).body, g.ip) => Own(b, g.ip), NEW h, Rebodied(g, h, g.ip, b)
  PROVE  Owning(h)
BY DEF Owning, Rebodied

(* Own instructions may be inserted at any time. *)
LEMMA InsertTouches ==
  ASSUME NEW g, Good(g), NEW i
  PROVE  /\ Good(Insert(g, i))
         /\ Touches(g, Insert(g, i))
         /\ Insert(g, i).ip = g.ip /\ Insert(g, i).torn = g.torn
         /\ Owning(g) /\ (i.op = "work" => i.what.of \subseteq {g.ip}) => Owning(Insert(g, i))
<1>1. CASE g.ip = NoFunction
  BY <1>1, DeliversAgain DEF Insert, Delivers
<1>2. CASE g.ip # NoFunction
  <2> DEFINE f == Fn(g, g.ip).body
  <2>1. Bodied(g, g.ip) /\ Held(g, g.ip) /\ InOrder(f)
    BY <1>2, BodiedBody DEF Good, Belongs
  <2>2. Insert(g, i) = SetBody(g, g.ip, Emit(f, i))
    BY <1>2, <2>1 DEF Insert, Held
  <2>3. Rebodied(g, Insert(g, i), g.ip, Emit(f, i))
    BY <2>1, <2>2, SetBodyIs DEF Good
  <2>4. InOrder(Emit(f, i)) /\ Grows(f, Emit(f, i))
    BY <2>1, EmitFollows
  <2>5. Good(Insert(g, i)) /\ Touches(g, Insert(g, i))
    BY <2>1, <2>3, <2>4, RebodiedTouches
  <2>6. ASSUME Owning(g), i.op = "work" => i.what.of \subseteq {g.ip}
        PROVE  Owning(Insert(g, i))
    <3>1. Own(f, g.ip) => Own(Emit(f, i), g.ip)
      BY <2>1, <2>6, EmitFollows
    <3> QED BY <1>2, <2>3, <2>6, <3>1, RebodiedOwning
  <2>7. Insert(g, i).ip = g.ip /\ Insert(g, i).torn = g.torn
    BY <2>3 DEF Rebodied
  <2> QED BY <2>5, <2>6, <2>7
<1> QED BY <1>1, <1>2

LEMMA InsertDelivers ==
  ASSUME NEW g, Good(g), NEW r, Delivers(g, r), NEW i,
         Owning(g) => (i.op = "work" => i.what.of \subseteq {g.ip})
  PROVE  Delivers(g, Insert(r, i))
<1>1. Good(r) /\ Touches(g, r)
  BY DEF Delivers
<1>2. Good(Insert(r, i)) /\ Touches(g, Insert(r, i)) /\ Insert(r, i).torn = r.torn
  BY <1>1, InsertTouches, TouchesAll
<1>3. ASSUME g.ip \notin r.torn, Owning(g) PROVE Owning(Insert(r, i))
  <2>1. r.ip = g.ip /\ Owning(r)
    BY <1>1, <1>3 DEF Touches, Delivers
  <2> QED BY <1>1, <1>3, <2>1, InsertTouches
<1> QED BY <1>2, <1>3 DEF Delivers

LEMMA StepDelivers ==
  ASSUME NEW g, Good(g), NEW r, Delivers(g, r), NEW typed, NEW owners,
         Owning(g) => owners \subseteq {g.ip}
  PROVE  Delivers(g, Step(r, typed, owners))
<1>1. Work(Checks(typed, owners)).what.of = owners
  BY DEF Work, Instruction, Checks
<1> QED BY <1>1, InsertDelivers DEF Step

(* The body of the function the builder inserts into goes on. *)
LEMMA SetBodyDelivers ==
  ASSUME NEW g, Good(g), g.ip # NoFunction, NEW b, Follows(Fn(g, g.ip).body, b)
  PROVE  /\ Delivers(g, SetBody(g, g.ip, b))
         /\ SetBody(g, g.ip, b).ip = g.ip
         /\ Fn(SetBody(g, g.ip, b), g.ip).body = b
<1> DEFINE h == SetBody(g, g.ip, b)
<1>1. Bodied(g, g.ip) /\ Held(g, g.ip)
  BY BodiedBody DEF Good, Belongs
<1>2. Rebodied(g, h, g.ip, b)
  BY <1>1, SetBodyIs DEF Good
<1>3. Good(h) /\ Touches(g, h)
  BY <1>1, <1>2, RebodiedTouches DEF Follows
<1>4. Owning(g) => Owning(h)
  BY <1>2, RebodiedOwning DEF Follows
<1> QED BY <1>2, <1>3, <1>4 DEF Delivers, Rebodied

(* Code generation is done with a child at e, and goes on in the function  *)
(* id that it had begun in.                                                *)
LEMMA ResumeDelivers ==
  ASSUME NEW g, Good(g), g.ip # NoFunction, NEW e, Delivers(g, e), NEW b,
         Follows(Fn(e, g.ip).body, b)
  PROVE  /\ Delivers(g, Resume(e, g.ip, b))
         /\ Resume(e, g.ip, b).ip = g.ip
         /\ Follows(b, Fn(Resume(e, g.ip, b), g.ip).body)
<1> DEFINE id == g.ip
           h == Resume(e, id, b)
<1>1. Good(e) /\ Touches(g, e)
  BY DEF Delivers
<1>2. Bodied(g, id) /\ Bodied(e, id) /\ Held(e, id) /\ InOrder(b) /\ InOrder(Fn(e, id).body)
  BY <1>1, BodiedOn, BodiedBody DEF Good, Belongs, Follows
<1>3. CASE e.ip = id
  <2>1. h = SetBody(e, id, b)
    BY <1>3 DEF Resume
  <2>2. Delivers(e, h) /\ h.ip = id /\ Fn(h, id).body = b
    BY <1>1, <1>3, <2>1, SetBodyDelivers
  <2>3. Follows(b, b)
    BY <1>2, InOrderLen DEF Follows, Grows
  <2> HIDE DEF h
  <2> QED BY <2>2, <2>3, DeliversAll DEF h
<1>4. CASE e.ip # id
  <2> DEFINE w == Work(Checks(FALSE, {}))
             i == Insert(e, w)
             c == Torn(b)
             k == SetBody(i, id, c)
  <2>1. e.ip \in e.torn /\ id \in e.torn
    BY <1>1, <1>4 DEF Touches
  <2>2. Good(i) /\ Touches(e, i) /\ i.torn = e.torn
    BY <1>1, InsertTouches
  <2>3. Touches(g, i)
    BY <1>1, <2>2, TouchesAll
  <2>4. Bodied(i, id) /\ Held(i, id) /\ Fn(i, id).body = Fn(e, id).body
    <3>1. CASE e.ip = NoFunction
      BY <1>2, <3>1 DEF Insert
    <3>2. CASE e.ip # NoFunction
      <4>1. Bodied(e, e.ip) /\ Held(e, e.ip)
        BY <1>1, <3>2, BodiedBody DEF Good, Belongs
      <4>2. Rebodied(e, i, e.ip, Emit(Fn(e, e.ip).body, w))
        BY <1>1, <3>2, <4>1, SetBodyIs DEF Insert, Good, Held
      <4> QED BY <1>2, <1>4, <4>2 DEF Rebodied, Bodied
    <3> QED BY <3>1, <3>2
  <2>5. Rebodied(i, k, id, c)
    BY <2>2, <2>4, SetBodyIs DEF Good
  <2>6. Follows(b, c)
    <3>1. w.op = "work" /\ w.what.of = {}
      BY DEF Work, Instruction, Checks
    <3> QED BY <1>2, <3>1, EmitNeutral DEF Torn, Neutral
  <2>7. InOrder(c) /\ Grows(Fn(i, id).body, c)
    BY <1>2, <2>4, <2>6, FollowsAll DEF Follows
  <2>8. Good(k) /\ Touches(i, k)
    BY <2>1, <2>2, <2>4, <2>5, <2>7, RebodiedTouches
  <2>9. Touches(g, k)
    BY <2>2, <2>3, <2>8, TouchesAll
  <2>10. h = [k EXCEPT !.ip = id]
    BY <1>4 DEF Resume
  <2>11. DOMAIN k = GenFields
    BY <2>5 DEF Rebodied
  <2>12. /\ DOMAIN h = GenFields /\ h.mods = k.mods /\ h.cur = k.cur /\ h.protos = k.protos
         /\ h.builtins = k.builtins /\ h.vars = k.vars /\ h.scope = k.scope /\ h.room = k.room
         /\ h.redeclared = k.redeclared /\ h.torn = k.torn /\ h.fault = k.fault /\ h.ip = id
    BY <2>10, <2>11 DEF GenFields
  <2> HIDE DEF h, k
  <2>13. \A x : Fn(h, x) = Fn(k, x) /\ (Held(h, x) <=> Held(k, x))
    BY <2>12 DEF Fn, Held, Erased
  <2>14. \A x : (Bodied(h, x) <=> Bodied(k, x)) /\ (Belongs(h, x) <=> Belongs(k, x))
    BY <2>13 DEF Bodied, Belongs
  <2>15. State(h)
    <3>1. Variables(h)
      BY <2>8, <2>12, <2>14 DEF Good, State, Shape, Variables, Lasts
    <3>2. Agree(h)
      <4>1. \A name : returnProto(h, name) = returnProto(k, name)
        BY <2>12 DEF returnProto
      <4> QED BY <2>8, <2>12, <2>13, <4>1 DEF Good, State, Shape, Agree, AgreesAt
    <3> QED BY <2>8, <2>12, <2>13, <2>14, <3>1, <3>2 DEF Good, State, Shape, Lasts
  <2>16. Bodied(k, id)
    BY <2>2, <2>4, <2>5, <2>7, RebodiedState DEF Good
  <2>17. Good(h)
    BY <2>12, <2>14, <2>15, <2>16 DEF Good, Belongs
  <2>18. Touches(g, h)
    <3>1. h.torn = e.torn
      BY <2>2, <2>5, <2>12 DEF Rebodied
    <3> QED BY <2>1, <2>9, <2>12, <2>13, <3>1 DEF Touches, Keeps, Adds
  <2>19. g.ip \in h.torn
    BY <2>1, <2>2, <2>5, <2>12 DEF Rebodied
  <2>20. Fn(h, id).body = c
    BY <2>5, <2>13 DEF Rebodied
  <2>21. Delivers(g, h)
    BY <2>17, <2>18, <2>19 DEF Delivers
  <2> QED BY <2>6, <2>12, <2>20, <2>21 DEF h
<1> QED BY <1>3, <1>4

(* A variable of the current scope, or none. *)
WithVariable(g, name, v) == [g EXCEPT !.vars = With(@, name, v)]

LEMMA WithVariableDelivers ==
  ASSUME NEW g, Good(g), NEW name, NEW v, DOMAIN v = VariableFields,
         v.owner \in {NoFunction, g.scope}
  PROVE  Delivers(g, WithVariable(g, name, v))
<1> DEFINE vs == With(g.vars, name, v)
           h == [g EXCEPT !.vars = vs]
<1>1. WithVariable(g, name, v) = h
  BY DEF WithVariable, Good, State, Shape, GenFields
<1>2. DOMAIN g = GenFields
  BY DEF Good, State, Shape
<1>3. /\ DOMAIN h = GenFields /\ h.mods = g.mods /\ h.cur = g.cur /\ h.protos = g.protos
      /\ h.builtins = g.builtins /\ h.scope = g.scope /\ h.ip = g.ip /\ h.room = g.room
      /\ h.redeclared = g.redeclared /\ h.torn = g.torn /\ h.fault = g.fault /\ h.vars = vs
  BY <1>2 DEF GenFields
<1>4. ASSUME NEW x \in DOMAIN vs
      PROVE  (x \in DOMAIN g.vars /\ vs[x] = g.vars[x]) \/ vs[x] = v
  BY DEF With
<1> HIDE DEF h, vs
<1>5. \A x : Fn(h, x) = Fn(g, x) /\ (Held(h, x) <=> Held(g, x))
  BY <1>3 DEF Fn, Held, Erased
<1>6. \A x : Belongs(h, x) <=> Belongs(g, x)
  BY <1>5 DEF Bodied, Belongs
<1>7. Lasts(h, v.owner)
  BY <1>6 DEF Lasts, Good, State, Shape, Belongs
<1>8. Variables(h)
  BY <1>3, <1>4, <1>6, <1>7 DEF Good, State, Shape, Variables, Lasts
<1>9. Agree(h)
  <2>1. \A x : returnProto(h, x) = returnProto(g, x)
    BY <1>3 DEF returnProto
  <2> QED BY <1>3, <1>5, <2>1 DEF Good, State, Agree, AgreesAt
<1>10. Good(h)
  BY <1>3, <1>5, <1>6, <1>8, <1>9 DEF Good, State, Shape, Lasts
<1>11. Touches(g, h)
  <2>1. Touches(g, g)
    BY DeliversAgain DEF Delivers
  <2> QED BY <2>1, <1>3, <1>5 DEF Touches, Keeps, Adds
<1>12. Owning(g) => Owning(h)
  BY <1>3, <1>4, <1>5 DEF Owning
<1> QED BY <1>1, <1>10, <1>11, <1>12 DEF Delivers

(* The end of a scope. *)
Unscoped(g) == [g EXCEPT !.scope = NoFunction]

LEMMA UnscopedDelivers ==
  ASSUME NEW g, Good(g)
  PROVE  Delivers(g, Unscoped(g)) /\ Unscoped(g).ip = g.ip
<1> DEFINE h == Unscoped(g)
<1>1. DOMAIN g = GenFields
  BY DEF Good, State, Shape
<1>2. /\ DOMAIN h = GenFields /\ h.mods = g.mods /\ h.cur = g.cur /\ h.protos = g.protos
      /\ h.builtins = g.builtins /\ h.scope = NoFunction /\ h.ip = g.ip /\ h.room = g.room
      /\ h.redeclared = g.redeclared /\ h.torn = g.torn /\ h.fault = g.fault /\ h.vars = g.vars
  BY <1>1 DEF GenFields, Unscoped
<1> HIDE DEF h
<1>3. \A x : Fn(h, x) = Fn(g, x) /\ (Held(h, x) <=> Held(g, x))
  BY <1>2 DEF Fn, Held, Erased
<1>4. \A x : Belongs(h, x) <=> Belongs(g, x)
  BY <1>3 DEF Bodied, Belongs
<1>5. Variables(h)
  BY <1>2, <1>4 DEF Good, State, Shape, Variables, Lasts
<1>6. Agree(h)
  <2>1. \A x : returnProto(h, x) = returnProto(g, x)
    BY <1>2 DEF returnProto
  <2> QED BY <1>2, <1>3, <2>1 DEF Good, State, Agree, AgreesAt
<1>7. Good(h)
  BY <1>2, <1>3, <1>4, <1>5, <1>6 DEF Good, State, Shape, Lasts, Belongs
<1>8. Touches(g, h)
  <2>1. Touches(g, g)
    BY DeliversAgain DEF Delivers
  <2> QED BY <2>1, <1>2, <1>3 DEF Touches, Keeps, Adds
<1>9. Owning(g) => Owning(h)
  BY <1>2, <1>3 DEF Owning
<1> QED BY <1>2, <1>7, <1>8, <1>9 DEF Delivers, h

-----------------------------------------------------------------------------
(***************************************************************************)
(* Prototypes: functions are declared, and none is changed.                *)
(***************************************************************************)
Notes(g, h) ==
  /\ h.cur = g.cur /\ h.vars = g.vars /\ h.scope = g.scope /\ h.ip = g.ip
  /\ h.room = g.room /\ h.torn = g.torn /\ h.fault = g.fault
  /\ h.stale = g.stale
  /\ \A x : Held(g, x) => Held(h, x) /\ Fn(h, x) = Fn(g, x)
  /\ \A x : Held(h, x) /\ ~Held(g, x) => x[1] = g.cur /\ Empty(Fn(h, x))

LEMMA NotesAll ==
  ASSUME NEW g, NEW h, NEW k, Notes(g, h), Notes(h, k)
  PROVE  Notes(g, k)
BY DEF Notes

LEMMA NotesKeep ==
  ASSUME NEW g, NEW h, Notes(g, h)
  PROVE  /\ \A x : Bodied(h, x) <=> Bodied(g, x)
         /\ \A x : Belongs(h, x) <=> Belongs(g, x)
         /\ Variables(g) => Variables(h)
<1>1. \A x : Bodied(h, x) <=> Bodied(g, x)
  BY DEF Notes, Bodied
<1>2. \A x : Belongs(h, x) <=> Belongs(g, x)
  BY <1>1 DEF Belongs
<1> QED BY <1>1, <1>2 DEF Variables, Lasts, Notes

LEMMA NotesDelivers ==
  ASSUME NEW g, Good(g), NEW h, State(h), Notes(g, h)
  PROVE  Delivers(g, h)
<1>1. Good(h)
  BY NotesKeep DEF Good, Notes
<1>2. Touches(g, h)
  <2>1. Touches(g, g)
    BY DeliversAgain DEF Delivers
  <2> QED BY <2>1 DEF Touches, Keeps, Adds, Notes
<1>3. Owning(g) => Owning(h)
  <2>1. g.ip # NoFunction => Held(g, g.ip)
    BY DEF Good, Belongs, Bodied
  <2> QED BY <2>1 DEF Owning, Notes
<1> QED BY <1>1, <1>2, <1>3 DEF Delivers

LEMMA DeclareNotes ==
  ASSUME NEW g, Shape(g), NEW p
  PROVE  LET h == Declare(p, g)
             id == <<g.cur, p.name>>
         IN  /\ Shape(h) /\ Notes(g, h)
             /\ h.protos = g.protos /\ h.builtins = g.builtins
             /\ h.redeclared = g.redeclared
             /\ Held(h, id)
             /\ \A x : Held(h, x) /\ ~Held(g, x) => x = id /\ Fn(h, x) = FunctionOf(p)
<1> DEFINE h == Declare(p, g)
           id == <<g.cur, p.name>>
<1>0. g.cur \in Modules /\ DOMAIN g = GenFields /\ DOMAIN g.mods = Modules
  BY DEF Shape
<1>a. IsId(id)
  BY <1>0 DEF IsId
<1>1. CASE Declared(g, p.name)
  <2>1. h = g
    BY <1>1 DEF Declare
  <2>2. Held(g, id)
    BY <1>1, <1>a DEF Held, Erased, Declared, Here
  <2>3. Notes(g, g)
    BY DEF Notes
  <2> QED BY <2>1, <2>2, <2>3
<1>2. CASE ~Declared(g, p.name)
  <2> DEFINE new == With(g.mods[g.cur], p.name, FunctionOf(p))
             m == [g.mods EXCEPT ![g.cur] = new]
             k == [g EXCEPT !.mods = m]
  <2>1. h = k
    BY <1>0, <1>2 DEF Declare, GenFields
  <2>2. /\ DOMAIN k = GenFields /\ k.mods = m /\ k.cur = g.cur /\ k.protos = g.protos
        /\ k.builtins = g.builtins /\ k.scope = g.scope /\ k.ip = g.ip /\ k.room = g.room
        /\ k.redeclared = g.redeclared /\ k.torn = g.torn /\ k.fault = g.fault
        /\ k.vars = g.vars /\ k.stale = g.stale
    BY <1>0 DEF GenFields
  <2>3. DOMAIN m = Modules /\ m[g.cur] = new
        /\ \A mod \in Modules : mod # g.cur => m[mod] = g.mods[mod]
    BY <1>0
  <2>4. p.name \notin DOMAIN g.mods[g.cur]
    BY <1>2 DEF Declared, Here
  <2>5. /\ DOMAIN new = DOMAIN g.mods[g.cur] \cup {p.name}
        /\ new[p.name] = FunctionOf(p)
        /\ \A name \in DOMAIN g.mods[g.cur] : new[name] = g.mods[g.cur][name]
    BY <2>4 DEF With
  <2> HIDE DEF k, new, m
  <2>6. ASSUME NEW x, Held(g, x) PROVE Held(k, x) /\ Fn(k, x) = Fn(g, x)
    <3>1. IsId(x) /\ x[1] \in Modules /\ x[2] \in DOMAIN g.mods[x[1]]
      BY <2>6 DEF Held, IsId, Erased
    <3>2. CASE x[1] = g.cur
      BY <2>2, <2>3, <2>5, <3>1, <3>2 DEF Held, Erased, Fn
    <3>3. CASE x[1] # g.cur
      BY <2>2, <2>3, <3>1, <3>3 DEF Held, Erased, Fn
    <3> QED BY <3>2, <3>3
  <2>7. ASSUME NEW x, Held(k, x), ~Held(g, x)
        PROVE  x = id /\ Fn(k, x) = FunctionOf(p)
    <3>1. x = <<x[1], x[2]>> /\ x[1] \in Modules /\ x[2] \in DOMAIN m[x[1]]
          /\ x[2] \notin DOMAIN g.mods[x[1]]
      BY <2>2, <2>7 DEF Held, IsId, Erased
    <3>2. x[1] = g.cur /\ x[2] = p.name
      BY <2>3, <2>5, <3>1
    <3> QED BY <2>2, <2>3, <2>5, <3>1, <3>2 DEF Fn
  <2>8. Held(k, id)
    BY <1>a, <2>2, <2>3, <2>5 DEF Held, Erased
  <2>9. FunctionOf(p).body = NoBody /\ IsFunction(FunctionOf(p))
    BY DEF FunctionOf, IsFunction, FunctionFields
  <2>10. Notes(g, k)
    BY <2>2, <2>6, <2>7, <2>9 DEF Notes, Empty
  <2>11. \A x : Held(k, x) => IsFunction(Fn(k, x))
    BY <2>6, <2>7, <2>9 DEF Shape
  <2>12. Variables(k) /\ Lasts(k, k.scope)
    BY <2>2, <2>10, NotesKeep DEF Shape, Lasts
  <2>13. Shape(k)
    BY <2>2, <2>3, <2>11, <2>12 DEF Shape
  <2> QED BY <2>1, <2>2, <2>7, <2>8, <2>10, <2>13
<1> QED BY <1>1, <1>2

Registering(p, d, names) ==
  [d EXCEPT !.protos = With(d.protos, p.name, p), !.redeclared = @ \cup names]

LEMMA RegisteringNotes ==
  ASSUME NEW g, Shape(g), NEW p, NEW names,
         \A id : Held(g, id) /\ id[2] \notin Handles(id[1]) /\ id[2] # p.name => AgreesAt(g, id),
         \A id : Held(g, id) /\ id[2] \notin Handles(id[1]) /\ id[2] = p.name
                   => p.name \in names \/ SameType(Fn(g, id), FunctionOf(p))
  PROVE  LET h == Registering(p, g, names)
         IN  State(h) /\ Notes(g, h) /\ p.name \in DOMAIN h.protos /\ h.protos[p.name] = p
<1> DEFINE ps == With(g.protos, p.name, p)
           h == Registering(p, g, names)
<1>1. DOMAIN g = GenFields
  BY DEF Shape
<1>2. /\ DOMAIN h = GenFields /\ h.mods = g.mods /\ h.cur = g.cur /\ h.protos = ps
      /\ h.builtins = g.builtins /\ h.scope = g.scope /\ h.ip = g.ip /\ h.room = g.room
      /\ h.redeclared = g.redeclared \cup names /\ h.torn = g.torn /\ h.fault = g.fault
      /\ h.vars = g.vars /\ h.stale = g.stale
  BY <1>1 DEF GenFields, Registering
<1>3. /\ DOMAIN ps = DOMAIN g.protos \cup {p.name}
      /\ ps[p.name] = p
      /\ \A name \in DOMAIN g.protos : name # p.name => ps[name] = g.protos[name]
  BY DEF With
<1> HIDE DEF h, ps
<1>4. \A x : Fn(h, x) = Fn(g, x) /\ (Held(h, x) <=> Held(g, x))
  BY <1>2 DEF Fn, Held, Erased
<1>5. Notes(g, h)
  BY <1>2, <1>4 DEF Notes
<1>6. Named(ps)
  BY <1>3 DEF Shape, Named
<1>7. Shape(h)
  BY <1>2, <1>4, <1>5, <1>6, NotesKeep DEF Shape, Lasts
<1>8. ASSUME NEW id, Held(h, id), id[2] \notin Handles(id[1]) PROVE AgreesAt(h, id)
  <2>1. CASE id[2] = p.name
    <3>1. returnProto(h, id[2]) = p
      BY <1>2, <1>3, <2>1 DEF returnProto
    <3> QED BY <1>2, <1>3, <1>4, <1>8, <2>1, <3>1 DEF AgreesAt
  <2>2. CASE id[2] # p.name
    <3>1. AgreesAt(g, id)
      BY <1>4, <1>8, <2>2
    <3>2. returnProto(h, id[2]) = returnProto(g, id[2])
      BY <1>2, <1>3, <2>2 DEF returnProto
    <3> QED BY <1>2, <1>3, <1>4, <3>1, <3>2 DEF AgreesAt
  <2> QED BY <2>1, <2>2
<1>9. State(h)
  BY <1>7, <1>8 DEF State, Agree
<1> QED BY <1>2, <1>3, <1>5, <1>9 DEF h

(* A prototype that is extern is registered, another is known already. *)
LEMMA PrototypeASTNotes ==
  ASSUME NEW g, State(g), NEW p,
         \/ "isExtern" \in p.flags
         \/ /\ p.name \in DOMAIN g.protos \cup DOMAIN g.builtins
            /\ returnProto(g, p.name) = p
  PROVE  LET h == PrototypeAST(p, g)
         IN  State(h) /\ Notes(g, h) /\ Held(h, <<g.cur, p.name>>)
<1> DEFINE d == Declare(p, g)
           id == <<g.cur, p.name>>
<1>1. /\ Shape(d) /\ Notes(g, d)
      /\ d.protos = g.protos /\ d.builtins = g.builtins /\ d.redeclared = g.redeclared
      /\ Held(d, id)
      /\ \A x : Held(d, x) /\ ~Held(g, x) => x = id /\ Fn(d, x) = FunctionOf(p)
  BY DeclareNotes DEF State
<1> HIDE DEF d
<1>2. \A x : returnProto(d, x) = returnProto(g, x)
  BY <1>1 DEF returnProto
<1>3. ASSUME NEW x, Held(g, x), x[2] \notin Handles(x[1]) PROVE AgreesAt(d, x)
  <2>1. AgreesAt(g, x)
    BY <1>3 DEF State, Agree
  <2> QED BY <1>1, <1>2, <1>3, <2>1 DEF AgreesAt, Notes
<1>4. SameType(FunctionOf(p), FunctionOf(p))
  BY DEF SameType
<1>5. ASSUME NEW k, State(k), Notes(d, k), Held(k, id),
             PrototypeAST(p, g) = Value(k, "function", Untyped)
      PROVE  LET h == PrototypeAST(p, g)
             IN  State(h) /\ Notes(g, h) /\ Held(h, <<g.cur, p.name>>)
  <2> DEFINE h == PrototypeAST(p, g)
  <2>1. Quiet(k, h)
    BY <1>5, Quiets
  <2>2. DOMAIN k = GenFields
    BY <1>5 DEF State, Shape
  <2>3. h.fault = k.fault /\ h.stale = k.stale
    BY <1>5, <2>2 DEF Value, GenFields
  <2> HIDE DEF h
  <2>4. State(h)
    BY <1>5, <2>1, QuietState
  <2>5. Notes(k, h)
    BY <2>1, <2>3, QuietSame DEF Notes, Quiet
  <2>6. Notes(g, h)
    BY <1>1, <1>5, <2>5, NotesAll
  <2>7. Held(h, id)
    BY <1>5, <2>5 DEF Notes
  <2> QED BY <2>4, <2>6, <2>7 DEF h
<1>6. CASE "isExtern" \in p.flags
  <2> DEFINE other == \E mod \in DOMAIN d.mods :
                        /\ p.name \in DOMAIN d.mods[mod]
                        /\ ~SameType(d.mods[mod][p.name], FunctionOf(p))
             names == IF other THEN {p.name} ELSE {}
             k == Registering(p, d, names)
  <2>1. PrototypeAST(p, g) = Value(k, "function", Untyped)
    <3>1. DOMAIN d = GenFields
      BY <1>1 DEF Shape
    <3>2. [d EXCEPT !.protos = With(d.protos, p.name, p),
                    !.redeclared = @ \cup IF other THEN {p.name} ELSE {}] = k
      BY <3>1 DEF Registering, GenFields
    <3> QED BY <1>6, <3>2 DEF PrototypeAST, d
  <2>2. ASSUME NEW x, Held(d, x), x[2] = p.name
        PROVE  p.name \in names \/ SameType(Fn(d, x), FunctionOf(p))
    <3>1. x[1] \in DOMAIN d.mods /\ p.name \in DOMAIN d.mods[x[1]]
          /\ Fn(d, x) = d.mods[x[1]][p.name]
      BY <1>1, <2>2 DEF Held, IsId, Erased, Fn, Shape
    <3>2. CASE other
      BY <3>2
    <3>3. CASE ~other
      BY <3>1, <3>3
    <3> QED BY <3>2, <3>3
  <2>3. ASSUME NEW x, Held(d, x), x[2] \notin Handles(x[1]), x[2] # p.name
        PROVE  AgreesAt(d, x)
    <3>1. x # id
      BY <2>3
    <3> QED BY <1>1, <1>3, <2>3, <3>1
  <2> HIDE DEF names
  <2>4. State(k) /\ Notes(d, k)
    BY <1>1, <2>2, <2>3, RegisteringNotes
  <2>5. Held(k, id)
    BY <1>1, <2>4 DEF Notes
  <2> HIDE DEF k
  <2> QED BY <1>5, <2>1, <2>4, <2>5
<1>7. CASE "isExtern" \notin p.flags
  <2>1. PrototypeAST(p, g) = Value(d, "function", Untyped)
    BY <1>7 DEF PrototypeAST, d
  <2>2. ASSUME NEW x, Held(d, x), x[2] \notin Handles(x[1]), ~Held(g, x)
        PROVE  AgreesAt(d, x)
    <3>1. x[2] = p.name /\ Fn(d, x) = FunctionOf(p)
      BY <1>1, <2>2
    <3> QED BY <1>1, <1>2, <1>4, <1>7, <3>1 DEF AgreesAt
  <2>3. State(d)
    BY <1>1, <1>3, <2>2 DEF State, Agree
  <2>4. Notes(d, d)
    BY DEF Notes
  <2> QED BY <1>1, <1>5, <2>1, <2>3, <2>4
<1> QED BY <1>6, <1>7

LEMMA getFunctionNotes ==
  ASSUME NEW g, State(g), NEW name
  PROVE  LET h == getFunction(g, name)
         IN  /\ State(h) /\ Notes(g, h)
             /\ Declared(h, name) => Held(h, <<g.cur, name>>)
             /\ name \in DOMAIN g.protos \cup DOMAIN g.builtins => Declared(h, name)
             /\ ~Declared(h, name) => h = g
<1> DEFINE h == getFunction(g, name)
           id == <<g.cur, name>>
<1>1. Notes(g, g) /\ g.cur \in Modules
  BY DEF Notes, State, Shape
<1>2. ASSUME NEW k, Notes(g, k) PROVE Declared(k, name) <=> Held(k, id)
  BY <1>1, <1>2 DEF Declared, Here, Held, IsId, Erased, Notes
<1>3. CASE Declared(g, name)
  BY <1>1, <1>2, <1>3 DEF getFunction
<1>4. CASE ~Declared(g, name) /\ name \in DOMAIN g.protos
  <2> DEFINE p == g.protos[name]
  <2>1. h = PrototypeAST(p, g)
    BY <1>4 DEF getFunction
  <2>2. p.name = name
    BY <1>4 DEF State, Shape, Named
  <2>3. returnProto(g, p.name) = p
    BY <1>4, <2>2 DEF returnProto
  <2> HIDE DEF p
  <2>4. State(h) /\ Notes(g, h) /\ Held(h, <<g.cur, p.name>>)
    BY <1>4, <2>1, <2>2, <2>3, PrototypeASTNotes
  <2> QED BY <1>2, <2>2, <2>4
<1>5. CASE ~Declared(g, name) /\ name \notin DOMAIN g.protos /\ name \in DOMAIN g.builtins
  <2> DEFINE p == g.builtins[name]
  <2>1. h = PrototypeAST(p, g)
    BY <1>5 DEF getFunction
  <2>2. p.name = name
    BY <1>5 DEF State, Shape, Named
  <2>3. returnProto(g, p.name) = p
    BY <1>5, <2>2 DEF returnProto
  <2> HIDE DEF p
  <2>4. State(h) /\ Notes(g, h) /\ Held(h, <<g.cur, p.name>>)
    BY <1>5, <2>1, <2>2, <2>3, PrototypeASTNotes
  <2> QED BY <1>2, <2>2, <2>4
<1>6. CASE ~Declared(g, name) /\ name \notin DOMAIN g.protos /\ name \notin DOMAIN g.builtins
  BY <1>1, <1>2, <1>6 DEF getFunction
<1> QED BY <1>3, <1>4, <1>5, <1>6

LEMMA RegisterNotes ==
  ASSUME NEW g, State(g), NEW p
  PROVE  LET h == Register(p, g)
         IN  State(h) /\ Notes(g, h) /\ Held(h, <<g.cur, p.name>>)
<1> DEFINE f == getFunction(g, p.name)
           h == Register(p, g)
           id == <<g.cur, p.name>>
<1>1. /\ State(f) /\ Notes(g, f)
      /\ Declared(f, p.name) => Held(f, id)
      /\ p.name \in DOMAIN g.protos \cup DOMAIN g.builtins => Declared(f, p.name)
      /\ ~Declared(f, p.name) => f = g
  BY getFunctionNotes
<1> HIDE DEF f
<1>2. CASE Declared(f, p.name)
  BY <1>1, <1>2 DEF Register, Registered, f
<1>3. CASE ~Declared(f, p.name)
  <2> DEFINE k == Registering(p, f, {})
  <2>1. DOMAIN f = GenFields
    BY <1>1 DEF State, Shape
  <2>2. [f EXCEPT !.protos = With(@, p.name, p)] = k
    BY <2>1 DEF Registering, GenFields
  <2>3. h = getFunction(k, p.name)
    BY <1>3, <2>2 DEF Register, Registered, f
  <2>4. p.name \notin DOMAIN f.protos \cup DOMAIN f.builtins
    BY <1>1, <1>3
  <2>5. \A x : Held(f, x) /\ x[2] \notin Handles(x[1]) => x[2] # p.name /\ AgreesAt(f, x)
    BY <1>1, <2>4 DEF State, Agree, AgreesAt
  <2>6. State(k) /\ Notes(f, k) /\ p.name \in DOMAIN k.protos
    BY <1>1, <2>5, RegisteringNotes DEF State
  <2> HIDE DEF k
  <2>7. State(h) /\ Notes(k, h) /\ Held(h, <<k.cur, p.name>>)
    BY <2>3, <2>6, getFunctionNotes
  <2>8. Notes(g, h) /\ k.cur = g.cur
    BY <1>1, <2>6, <2>7, NotesAll DEF Notes
  <2> QED BY <2>7, <2>8
<1> QED BY <1>2, <1>3

-----------------------------------------------------------------------------
(***************************************************************************)
(* The definition of a function.                                           *)
(***************************************************************************)
Entering(p, id, g) ==
  [SetBody(g, id, FunctionHead)
     EXCEPT !.ip = id, !.vars = NewVariables(p, id, g), !.scope = id,
            !.torn = @ \cup IF Nested(g) THEN {g.ip, id} ELSE {}]

LEMMA FunctionHeadInOrder ==
  InOrder(FunctionHead) /\ \A id : Own(FunctionHead, id)
<1> DEFINE c == Create(NoBody)
           p == Place(c, 1)
           f == At(p, 1)
<1>1. c.code = Append(<<>>, <<>>) /\ c.placed = {} /\ c.ip = 0 /\ DOMAIN c = BodyFields
  BY DEF Create, NoBody, BodyFields
<1>2. c.code = << <<>> >>
  BY <1>1
<1> HIDE DEF c
<1>3. p.code = c.code /\ p.placed = {1} /\ DOMAIN p = BodyFields
  BY <1>1 DEF Place, BodyFields
<1> HIDE DEF p
<1>4. f.code = << <<>> >> /\ f.placed = {1} /\ f.ip = 1 /\ DOMAIN f = BodyFields
  BY <1>2, <1>3 DEF At, BodyFields
<1>5. FunctionHead = f
  BY DEF FunctionHead, p, c
<1> HIDE DEF f
<1>6. f.code \in Seq(Seq({})) /\ Len(f.code) = 1
  BY <1>4
<1>7. InOrder(f)
  BY <1>4, <1>6 DEF InOrder
<1>8. ASSUME NEW id PROVE Own(f, id)
  <2> SUFFICES ASSUME NEW b \in 1 .. 1, NEW k \in 1 .. Len(f.code[b]) PROVE FALSE
    BY <1>6 DEF Own
  <2>1. f.code[b] = <<>>
    BY <1>4
  <2>2. k \in 1 .. 0
    BY <2>1
  <2> QED BY <2>2
<1> QED BY <1>5, <1>7, <1>8

LEMMA NewVariablesOwned ==
  ASSUME NEW p, NEW id, NEW g, NEW name \in DOMAIN NewVariables(p, id, g)
  PROVE  /\ DOMAIN NewVariables(p, id, g)[name] = VariableFields
         /\ NewVariables(p, id, g)[name].owner = id
BY DEF NewVariables, ArgumentVariables, VariableFields

LEMMA EnteringIs ==
  ASSUME NEW g, State(g), NEW p, NEW id, Held(g, id), Empty(Fn(g, id))
  PROVE  LET h == Entering(p, id, g)
         IN  /\ Good(h) /\ Owning(h)
             /\ h.ip = id /\ h.cur = g.cur /\ h.room = g.room
             /\ h.torn = g.torn \cup IF Nested(g) THEN {g.ip, id} ELSE {}
             /\ \A x : Held(h, x) <=> Held(g, x)
             /\ \A x : Held(g, x) /\ x # id => Fn(h, x) = Fn(g, x)
             /\ Own(Fn(h, id).body, id) /\ Bodied(h, id)
<1> DEFINE k == SetBody(g, id, FunctionHead)
           h == Entering(p, id, g)
<1>1. Rebodied(g, k, id, FunctionHead)
  BY SetBodyIs
<1> HIDE DEF k
<1>2. /\ State(k) /\ Bodied(k, id)
      /\ \A x : Bodied(g, x) => Bodied(k, x)
  BY <1>1, FunctionHeadInOrder, RebodiedState
<1>3. /\ DOMAIN h = GenFields /\ h.mods = k.mods /\ h.cur = k.cur /\ h.protos = k.protos
      /\ h.builtins = k.builtins /\ h.scope = id /\ h.ip = id /\ h.room = k.room
      /\ h.redeclared = k.redeclared /\ h.fault = k.fault
      /\ h.torn = k.torn \cup IF Nested(g) THEN {g.ip, id} ELSE {}
      /\ h.vars = NewVariables(p, id, g)
  BY <1>2 DEF Entering, k, GenFields, State, Shape
<1> HIDE DEF h
<1>4. \A x : Fn(h, x) = Fn(k, x) /\ (Held(h, x) <=> Held(k, x))
  BY <1>3 DEF Fn, Held, Erased
<1>5. Bodied(h, id)
  BY <1>2, <1>4 DEF Bodied
<1>6. Variables(h)
  BY <1>3, <1>5, NewVariablesOwned DEF Variables, Lasts, Belongs
<1>7. Agree(h)
  <2>1. \A x : returnProto(h, x) = returnProto(k, x)
    BY <1>3 DEF returnProto
  <2> QED BY <1>2, <1>3, <1>4, <2>1 DEF State, Agree, AgreesAt
<1>8. Good(h)
  BY <1>2, <1>3, <1>4, <1>5, <1>6, <1>7 DEF Good, State, Shape, Lasts, Belongs
<1>9. Fn(h, id).body = FunctionHead
  BY <1>1, <1>4 DEF Rebodied
<1>10. Own(Fn(h, id).body, id)
  BY <1>9, FunctionHeadInOrder
<1>11. Owning(h)
  BY <1>3, <1>10, NewVariablesOwned DEF Owning
<1>12. /\ h.cur = g.cur /\ h.room = g.room
       /\ h.torn = g.torn \cup IF Nested(g) THEN {g.ip, id} ELSE {}
       /\ \A x : Held(h, x) <=> Held(g, x)
       /\ \A x : Held(g, x) /\ x # id => Fn(h, x) = Fn(g, x)
  BY <1>1, <1>3, <1>4 DEF Rebodied
<1>13. h.ip = id
  BY <1>3
<1> QED BY <1>5, <1>8, <1>10, <1>11, <1>12, <1>13 DEF h

LEMMA EnterFunctionIs ==
  ASSUME NEW g, State(g), NEW p, NEW id, Held(g, id), Empty(Fn(g, id))
  PROVE  LET h == EnterFunction(p, id, g)
         IN  /\ Good(h) /\ Owning(h)
             /\ h.ip = id /\ h.cur = g.cur /\ h.room = g.room
             /\ h.torn = g.torn \cup IF Nested(g) THEN {g.ip, id} ELSE {}
             /\ \A x : Held(h, x) <=> Held(g, x)
             /\ \A x : Held(g, x) /\ x # id => Fn(h, x) = Fn(g, x)
             /\ Bodied(h, id)
<1> DEFINE f == Fn(g, id)
           typed == \A k \in 1 .. Len(f.args) :
                      f.args[k] = getType(p.kids[k].type, IsPointer(p.kids[k]))
           e == Entering(p, id, g)
           i == Work(Checks(typed, {id}))
           h == EnterFunction(p, id, g)
<1>1. h = Insert(e, i)
  BY DEF EnterFunction, Entering, Step
<1>2. /\ Good(e) /\ Owning(e)
      /\ e.ip = id /\ e.cur = g.cur /\ e.room = g.room
      /\ e.torn = g.torn \cup IF Nested(g) THEN {g.ip, id} ELSE {}
      /\ \A x : Held(e, x) <=> Held(g, x)
      /\ \A x : Held(g, x) /\ x # id => Fn(e, x) = Fn(g, x)
      /\ Bodied(e, id)
  BY EnteringIs
<1>3. i.what.of = {id}
  BY DEF Work, Instruction, Checks
<1> HIDE DEF e, i, h
<1>4. /\ Good(h) /\ Touches(e, h) /\ h.ip = id /\ h.torn = e.torn
      /\ Owning(h)
  BY <1>1, <1>2, <1>3, InsertTouches
<1>5. id # NoFunction
  BY <1>2, BodiedBody DEF Good
<1>6. Rebodied(e, h, id, Emit(Fn(e, id).body, i))
  BY <1>1, <1>2, <1>5, SetBodyIs DEF Insert, Bodied, Held, Good
<1>7. /\ h.cur = g.cur /\ h.room = g.room
      /\ h.torn = g.torn \cup IF Nested(g) THEN {g.ip, id} ELSE {}
      /\ \A x : Held(h, x) <=> Held(g, x)
      /\ \A x : Held(g, x) /\ x # id => Fn(h, x) = Fn(g, x)
  BY <1>2, <1>4, <1>6 DEF Rebodied
<1>8. Bodied(h, id)
  BY <1>2, <1>4, BodiedOn
<1> QED BY <1>4, <1>7, <1>8 DEF h

(* A function in the middle of another: both are torn from here on. *)
LEMMA NestedTouches ==
  ASSUME NEW g, Good(g), NEW p, NEW id, id[1] = g.cur, Held(g, id), Empty(Fn(g, id)),
         Nested(g)
  PROVE  LET h == EnterFunction(p, id, g)
         IN  Good(h) /\ Touches(g, h) /\ g.ip \in h.torn
<1> DEFINE h == EnterFunction(p, id, g)
<1>1. /\ Good(h)
      /\ h.ip = id /\ h.cur = g.cur /\ h.room = g.room
      /\ h.torn = g.torn \cup {g.ip, id}
      /\ \A x : Held(h, x) <=> Held(g, x)
      /\ \A x : Held(g, x) /\ x # id => Fn(h, x) = Fn(g, x)
      /\ Bodied(h, id)
  BY EnterFunctionIs DEF Good
<1> HIDE DEF h
<1>2. ASSUME NEW x, Held(g, x) PROVE Keeps(g, h, x)
  <2>1. CASE x = id
    <3>1. Fn(g, x).body = NoBody /\ InOrder(Fn(h, x).body)
      BY <1>1, <2>1, BodiedBody DEF Empty, Good
    <3>2. Grows(Fn(g, x).body, Fn(h, x).body)
      BY <3>1, InOrderLen DEF Grows, NoBody
    <3> QED BY <1>1, <1>2, <2>1, <3>2 DEF Keeps
  <2>2. CASE x # id
    <3>1. Touches(g, g)
      BY DeliversAgain DEF Delivers
    <3> QED BY <1>1, <1>2, <2>2, <3>1 DEF Keeps, Touches
  <2> QED BY <2>1, <2>2
<1>3. id # NoFunction
  BY <1>1, BodiedBody DEF Good
<1>4. IsId(id) /\ ~Bodied(g, id)
  BY DEF Held, Bodied
<1>5. \A x \in h.torn \ g.torn : Tears(g, x)
  BY <1>1, <1>4 DEF Tears
<1>6. Touches(g, h)
  BY <1>1, <1>2, <1>3, <1>5 DEF Touches
<1> QED BY <1>1, <1>6 DEF h

LEMMA NestedDelivers ==
  ASSUME NEW g, Good(g), NEW e, Good(e), Touches(g, e), g.ip \in e.torn,
         NEW h, Delivers(e, h)
  PROVE  Delivers(g, h)
<1>1. Touches(g, h)
  BY TouchesAll DEF Delivers
<1>2. e.torn \subseteq h.torn
  BY DEF Delivers, Touches
<1> QED BY <1>1, <1>2 DEF Delivers

LEMMA EndBodyDelivers ==
  ASSUME NEW g, Good(g), g.ip # NoFunction, NEW p, NEW nodes
  PROVE  Delivers(g, EndBody(p, nodes, g))
<1> DEFINE hasTerminator == \E k \in 1 .. Len(nodes) : "isReturn" \in nodes[k].flags
           b == FunctionEnd(Fn(g, g.ip).body, IsVoid(p), hasTerminator)
           f == SetBody(g, g.ip, b)
<1>1. EndBody(p, nodes, g) = Unscoped(f)
  BY DEF EndBody, Unscoped
<1>2. InOrder(Fn(g, g.ip).body)
  BY BodiedBody DEF Good, Belongs
<1>3. Follows(Fn(g, g.ip).body, b)
  <2>1. Follows(Fn(g, g.ip).body, Emit(Fn(g, g.ip).body, RetVoid))
    BY <1>2, EmitNeutral, Neutrals
  <2>2. Follows(Fn(g, g.ip).body, Fn(g, g.ip).body)
    BY <1>2, InOrderLen DEF Follows, Grows
  <2> QED BY <2>1, <2>2 DEF FunctionEnd
<1>4. Delivers(g, f)
  BY <1>3, SetBodyDelivers
<1> HIDE DEF f
<1>5. Delivers(f, Unscoped(f))
  BY <1>4, UnscopedDelivers DEF Delivers
<1> QED BY <1>1, <1>4, <1>5, DeliversAll

LEMMA FinishFunctionDelivers ==
  ASSUME NEW e, Good(e), e.ip # NoFunction, NEW b, Delivers(e, b),
         NEW p, NEW nodes, NEW id
  PROVE  Delivers(e, FinishFunction(p, nodes, id, b))
<1>1. Good(b) /\ b.ip # NoFunction
  BY DEF Delivers, Touches
<1>2. CASE Stopped(b)
  <2>1. Delivers(b, Issue(b, "ERROR_IN_FUNCTION_BODY"))
    BY <1>1, Quiets, QuietGood DEF Good
  <2> QED BY <1>2, <2>1, DeliversAll DEF FinishFunction
<1>3. CASE ~Stopped(b)
  <2> DEFINE f == EndBody(p, nodes, b)
  <2>1. Delivers(b, f)
    BY <1>1, EndBodyDelivers
  <2>2. Delivers(e, f)
    BY <2>1, DeliversAll
  <2> HIDE DEF f
  <2>3. Delivers(f, VerifyFunction(id, f))
    BY <2>2, Quiets, QuietGood DEF VerifyFunction, Delivers, Good
  <2>4. Delivers(e, VerifyFunction(id, f))
    BY <2>2, <2>3, DeliversAll
  <2> QED BY <1>3, <2>4 DEF FinishFunction, f
<1> QED BY <1>2, <1>3


-----------------------------------------------------------------------------
(***************************************************************************)
(* Trees: a node of one of the kinds, whose children, where code is        *)
(* generated for them, are trees again.  A set S that is closed under this *)
(* is a forest, and the nodes of a forest are trees.                       *)
(***************************************************************************)
NodeKinds == {"Number", "Variable", "Binary", "Call", "Prototype", "Function", "If",
              "For", "Dereference", "ToPointer", "Cast"}
NodeFields == {"kind", "name", "type", "kids", "flags"}

IsTree(n, S) ==
  /\ DOMAIN n = NodeFields
  /\ n.kind \in NodeKinds
  /\ n.kind = "Variable" /\ (n.kids # <<>> \/ "isDefinition" \in n.flags)
       => n.kids[1] \in S
  /\ n.kind = "Binary" => n.kids[1] \in S /\ n.kids[2] \in S
  /\ n.kind = "Call" => n.kids \in Seq(S)
  /\ n.kind = "Prototype" => "isExtern" \in n.flags
  /\ n.kind = "Function" => n.kids[2].kids \in Seq(S)
  /\ n.kind = "If" => /\ n.kids[1] \in S
                      /\ n.kids[2].kids \in Seq(S) /\ n.kids[3].kids \in Seq(S)
  /\ n.kind = "For" => /\ n.kids[1] \in S /\ n.kids[2] \in S /\ n.kids[3] \in S
                       /\ n.kids[4].kids \in Seq(S)
  /\ n.kind \in {"ToPointer", "Cast"} => n.kids[1] \in S
Forest(S) == \A n \in S : IsTree(n, S)
Tree(n) == \E S : Forest(S) /\ n \in S
Trees(nodes) == \E S : Forest(S) /\ nodes \in Seq(S)

LEMMA IsTreeMore ==
  ASSUME NEW S, NEW U, S \subseteq U, NEW n, IsTree(n, S)
  PROVE  IsTree(n, U)
<1>1. Seq(S) \subseteq Seq(U)
  OBVIOUS
<1> QED BY <1>1 DEF IsTree

LEMMA ForestMore ==
  ASSUME NEW S, Forest(S), NEW n, IsTree(n, S)
  PROVE  Tree(n)
<1> DEFINE U == S \cup {n}
<1>1. \A m \in U : IsTree(m, S)
  BY DEF Forest
<1>2. Forest(U)
  BY <1>1, IsTreeMore DEF Forest
<1> QED BY <1>2 DEF Tree

LEMMA ForestBoth ==
  ASSUME NEW S, Forest(S), NEW U, Forest(U)
  PROVE  Forest(S \cup U)
<1>1. ASSUME NEW n \in S PROVE IsTree(n, S \cup U)
  BY IsTreeMore DEF Forest
<1>2. ASSUME NEW n \in U PROVE IsTree(n, S \cup U)
  BY IsTreeMore DEF Forest
<1> QED BY <1>1, <1>2 DEF Forest

LEMMA NoTrees == Trees(<<>>)
<1>1. Forest({}) /\ <<>> \in Seq({})
  BY DEF Forest
<1> QED BY <1>1 DEF Trees

LEMMA TreesFirst ==
  ASSUME NEW n, Tree(n), NEW nodes, Trees(nodes)
  PROVE  Trees(<<n>> \o nodes)
<1>1. PICK S : Forest(S) /\ n \in S
  BY DEF Tree
<1>2. PICK U : Forest(U) /\ nodes \in Seq(U)
  BY DEF Trees
<1>3. Forest(S \cup U)
  BY <1>1, <1>2, ForestBoth
<1>4. <<n>> \in Seq(S \cup U) /\ nodes \in Seq(S \cup U)
  BY <1>1, <1>2
<1>5. <<n>> \o nodes \in Seq(S \cup U)
  BY <1>4
<1> QED BY <1>3, <1>5 DEF Trees

LEMMA TreesRest ==
  ASSUME NEW nodes, Trees(nodes), nodes # <<>>
  PROVE  Tree(Head(nodes)) /\ Trees(Tail(nodes))
<1>1. PICK S : Forest(S) /\ nodes \in Seq(S)
  BY DEF Trees
<1>2. Head(nodes) \in S /\ Tail(nodes) \in Seq(S)
  BY <1>1
<1> QED BY <1>1, <1>2 DEF Tree, Trees

LEMMA TreeKids ==
  ASSUME NEW n, Tree(n)
  PROVE  /\ DOMAIN n = NodeFields
         /\ n.kind \in NodeKinds
         /\ n.kind = "Variable" /\ (n.kids # <<>> \/ "isDefinition" \in n.flags)
              => Tree(n.kids[1])
         /\ n.kind = "Binary" => Tree(n.kids[1]) /\ Tree(n.kids[2])
         /\ n.kind = "Call" => Trees(n.kids)
         /\ n.kind = "Prototype" => "isExtern" \in n.flags
         /\ n.kind = "Function" => Trees(n.kids[2].kids)
         /\ n.kind = "If" => /\ Tree(n.kids[1])
                             /\ Trees(n.kids[2].kids) /\ Trees(n.kids[3].kids)
         /\ n.kind = "For" => /\ Tree(n.kids[1]) /\ Tree(n.kids[2]) /\ Tree(n.kids[3])
                              /\ Trees(n.kids[4].kids)
         /\ n.kind \in {"ToPointer", "Cast"} => Tree(n.kids[1])
<1>1. PICK S : Forest(S) /\ n \in S
  BY DEF Tree
<1>2. \A m \in S : Tree(m)
  BY <1>1 DEF Tree
<1>3. \A nodes \in Seq(S) : Trees(nodes)
  BY <1>1 DEF Trees
<1>4. IsTree(n, S)
  BY <1>1 DEF Forest
<1> QED BY <1>2, <1>3, <1>4 DEF IsTree

(* The flags that a parser adds to a node do not matter here. *)
LEMMA TreeFlags ==
  ASSUME NEW n, Tree(n), NEW flags, n.flags \subseteq flags,
         "isDefinition" \in flags => "isDefinition" \in n.flags
  PROVE  Tree([n EXCEPT !.flags = flags])
<1> DEFINE m == [n EXCEPT !.flags = flags]
<1>1. PICK S : Forest(S) /\ n \in S
  BY DEF Tree
<1>2. IsTree(n, S)
  BY <1>1 DEF Forest
<1>3. DOMAIN m = NodeFields /\ m.kind = n.kind /\ m.kids = n.kids /\ m.flags = flags
  BY <1>2 DEF IsTree, NodeFields
<1> HIDE DEF m
<1>4. IsTree(m, S)
  BY <1>2, <1>3 DEF IsTree
<1>5. Tree(m)
  BY <1>1, <1>4, ForestMore
<1> QED BY <1>5 DEF m

-----------------------------------------------------------------------------
(***************************************************************************)
(* The methods.  Called says that code generation with room for k calls    *)
(* delivers; under it, so does every method with room for one more.        *)
(***************************************************************************)
GenMethods == {"codegen", "Each", "Arguments", "Body"}
Fit(m, x) == IF m = "codegen" THEN Tree(x) ELSE Trees(x)
Called(k) ==
  \A m \in GenMethods : \A x, g :
    Good(g) /\ g.room = k /\ Fit(m, x) => Delivers(g, Gen(m, x, g))

LEMMA DeliversStep ==
  ASSUME NEW g, Good(g), NEW h, Delivers(g, h), NEW k, Quiet(h, k)
  PROVE  Delivers(g, k)
<1>1. Good(h)
  BY DEF Delivers
<1>2. Delivers(h, k)
  BY <1>1, QuietGood
<1> QED BY <1>2, DeliversAll

LEMMA DeliversRoom ==
  ASSUME NEW g, NEW h, Delivers(g, h)
  PROVE  Good(h) /\ State(h) /\ h.room = g.room /\ DOMAIN h = GenFields /\ Quiet(h, h)
<1>1. State(h)
  BY DEF Delivers, Good
<1> QED BY <1>1, Quiets DEF Delivers, Good, Touches, State, Shape

LEMMA codegenDelivers ==
  ASSUME NEW g0, Good(g0), NEW k, Called(k), g0.room = k, NEW g, Delivers(g0, g),
         NEW n, Tree(n)
  PROVE  Delivers(g0, codegen(n, g))
<1>1. Good(g) /\ g.room = k
  BY DeliversRoom
<1>2. Delivers(g, codegen(n, g))
  BY <1>1 DEF Called, GenMethods, Fit, codegen
<1> QED BY <1>2, DeliversAll

LEMMA NodesDeliver ==
  ASSUME NEW g0, Good(g0), NEW k, Called(k), g0.room = k, NEW g, Delivers(g0, g),
         NEW m \in GenMethods \ {"codegen"}, NEW nodes, Trees(nodes)
  PROVE  Delivers(g0, Gen(m, nodes, g))
<1>1. Good(g) /\ g.room = k
  BY DeliversRoom
<1>2. Delivers(g, Gen(m, nodes, g))
  BY <1>1 DEF Called, GenMethods, Fit
<1> QED BY <1>2, DeliversAll

LEMMA OnwardDelivers ==
  ASSUME NEW g0, Good(g0), NEW k, Called(k), g0.room = k, NEW h, Delivers(g0, h),
         NEW m \in GenMethods \ {"codegen"}, NEW nodes, Trees(nodes), nodes # <<>>
  PROVE  Delivers(g0, Onward(m, nodes, h))
BY TreesRest, NodesDeliver DEF Onward

LEMMA EachDelivers ==
  ASSUME NEW k, Called(k), NEW g, Good(g), g.room = k, NEW nodes, Trees(nodes)
  PROVE  Delivers(g, Each(nodes, g))
<1>1. Delivers(g, g)
  BY DeliversAgain
<1>2. CASE nodes = <<>>
  BY <1>1, <1>2 DEF Each
<1>3. CASE nodes # <<>>
  <2>1. Delivers(g, codegen(Head(nodes), g))
    BY <1>1, <1>3, TreesRest, codegenDelivers
  <2>2. Delivers(g, Onward("Each", nodes, codegen(Head(nodes), g)))
    BY <1>3, <2>1, OnwardDelivers DEF GenMethods
  <2> QED BY <1>3, <2>2 DEF Each
<1> QED BY <1>2, <1>3

LEMMA StatementsDelivers ==
  ASSUME NEW g0, Good(g0), NEW k, Called(k), g0.room = k, NEW g, Delivers(g0, g),
         NEW nodes, Trees(nodes)
  PROVE  Delivers(g0, Statements(nodes, g))
<1> DEFINE h == [g EXCEPT !.val = "void"]
<1>1. Quiet(g, h)
  BY DeliversRoom DEF Quiet, GenFields
<1>2. Delivers(g0, h)
  BY <1>1, DeliversStep
<1> HIDE DEF h
<1>3. Delivers(g0, Gen("Each", nodes, h))
  BY <1>2, NodesDeliver DEF GenMethods
<1> QED BY <1>3 DEF Statements, h

LEMMA PassedQuiet ==
  ASSUME NEW r, Good(r), NEW types
  PROVE  Quiet(r, Passed(types, r))
BY DEF Passed, Quiet, GenFields, Good, State, Shape

LEMMA ArgumentsDelivers ==
  ASSUME NEW k, Called(k), NEW g, Good(g), g.room = k, NEW nodes, Trees(nodes)
  PROVE  Delivers(g, Arguments(nodes, g))
<1>1. Delivers(g, g)
  BY DeliversAgain
<1>2. CASE nodes = <<>>
  BY <1>1, <1>2 DEF Arguments
<1>3. CASE nodes # <<>>
  <2> DEFINE r == codegen(Head(nodes), g)
             p == Passed(g.types, r)
  <2>1. Delivers(g, r)
    BY <1>1, <1>3, TreesRest, codegenDelivers
  <2>2. Delivers(g, p)
    BY <2>1, PassedQuiet, DeliversStep, DeliversRoom
  <2>3. Delivers(g, Onward("Arguments", nodes, p))
    BY <1>3, <2>2, OnwardDelivers DEF GenMethods
  <2> QED BY <1>3, <2>3 DEF Arguments
<1> QED BY <1>2, <1>3

LEMMA BodyDelivers ==
  ASSUME NEW k, Called(k), NEW g, Good(g), g.room = k, NEW nodes, Trees(nodes)
  PROVE  Delivers(g, Body(nodes, g))
<1>1. Delivers(g, g)
  BY DeliversAgain
<1>2. CASE nodes = <<>>
  BY <1>1, <1>2 DEF Body
<1>3. CASE nodes # <<>>
  <2> DEFINE n == Head(nodes)
             r == codegen(n, g)
             s == Returned(n, r)
             i == Ret(Checks(r.val = Fn(r, r.ip).ret, {}))
  <2>1. Delivers(g, r)
    BY <1>1, <1>3, TreesRest, codegenDelivers
  <2>2. i.op # "work"
    BY DEF Ret, Instruction
  <2>3. Delivers(g, Insert(r, i))
    BY <2>1, <2>2, InsertDelivers
  <2>4. s = r \/ s = Insert(r, i)
    BY DEF Returned
  <2>5. Delivers(g, s)
    BY <2>1, <2>3, <2>4
  <2> HIDE DEF r, i
  <2>6. Delivers(g, Onward("Body", nodes, s))
    BY <1>3, <2>5, OnwardDelivers DEF GenMethods
  <2> QED BY <1>3, <2>6 DEF Body, BodyStatement, r
<1> QED BY <1>2, <1>3

(* The value of a state as it is, and what a method stops with. *)
LEMMA Answers ==
  ASSUME NEW g, Good(g), NEW h, Delivers(g, h)
  PROVE  /\ Delivers(g, Nothing(h))
         /\ \A fault \in GenFaults : Delivers(g, Die(h, fault))
         /\ \A type, attr : Delivers(g, Value(h, type, attr))
         /\ \A type, attr : Delivers(g, Constant(h, type, attr))
         /\ \A code : Delivers(g, Issue(h, code))
         /\ \A code : Delivers(g, IssueIfStopped(h, code))
<1>1. State(h)
  BY DeliversRoom
<1> QED BY <1>1, Quiets, DeliversStep

LEMMA DiesDelivers ==
  ASSUME NEW g, Good(g), NEW h, Delivers(g, h)
  PROVE  /\ Delivers(g, Die(h, "null"))
         /\ Delivers(g, Die(h, "undefined"))
         /\ Delivers(g, Die(h, "stack"))
BY Answers DEF GenFaults

LEMMA RhsDelivers ==
  ASSUME NEW g0, Good(g0), NEW k, Called(k), g0.room = k, NEW g, Delivers(g0, g),
         NEW n, Tree(n), NEW d
  PROVE  Delivers(g0, Rhs(n, d, g))
<1> DEFINE h == [g EXCEPT !.nulls = @ \cup {n.kind}]
<1>1. Quiet(g, h)
  BY DeliversRoom DEF Quiet, GenFields
<1>2. Delivers(g0, h)
  BY <1>1, DeliversStep
<1> HIDE DEF h
<1>3. Delivers(g0, Constant(h, PointerTo(getType(d, FALSE)), Untyped))
  BY <1>2, Answers
<1>4. Delivers(g0, codegen(n, g))
  BY codegenDelivers
<1> QED BY <1>3, <1>4 DEF Rhs, h

LEMMA StoreToDelivers ==
  ASSUME NEW g, Good(g), NEW r, Delivers(g, r), NEW v, Owning(g) => v.owner = g.ip
  PROVE  Delivers(g, StoreTo(v, r))
<1>1. Delivers(g, Step(r, r.val = SlotType(v), {v.owner}))
  BY StepDelivers
<1> QED BY <1>1, Answers DEF StoreTo

(* The variable of a node: an entry, or one that has no owner yet. *)
LEMMA VariableOfIs ==
  ASSUME NEW g, Good(g), NEW n
  PROVE  LET v == VariableOf(n, g)
         IN  /\ DOMAIN v = VariableFields
             /\ Owning(g) => v.owner \in {NoFunction, g.ip}
             /\ DOMAIN [v EXCEPT !.owner = g.scope] = VariableFields
             /\ [v EXCEPT !.owner = g.scope].owner = g.scope
<1> DEFINE v == VariableOf(n, g)
<1>1. CASE n.name \in DOMAIN g.vars
  BY <1>1 DEF VariableOf, Owning, Good, State, Shape, Variables, Lasts, VariableFields
<1>2. CASE n.name \notin DOMAIN g.vars
  BY <1>2 DEF VariableOf, NoVariable, VariableFields
<1> QED BY <1>1, <1>2

LEMMA DefinitionDelivers ==
  ASSUME NEW k, Called(k), NEW g, Good(g), g.room = k, NEW n, Tree(n.kids[1]), NEW v,
         DOMAIN v = VariableFields, v.owner = g.scope
  PROVE  Delivers(g, Definition(n, v, g))
<1>1. Delivers(g, g)
  BY DeliversAgain
<1>2. CASE g.scope = NoFunction
  BY <1>1, <1>2, DiesDelivers DEF Definition
<1>3. CASE g.scope # NoFunction
  <2> DEFINE w == WithVariable(g, n.name, v)
             r == Rhs(n.kids[1], v.datatype, w)
  <2>1. Delivers(g, w)
    BY WithVariableDelivers
  <2>2. Delivers(g, r)
    BY <2>1, RhsDelivers
  <2>3. Owning(g) => v.owner = g.ip
    BY <1>3 DEF Owning
  <2> HIDE DEF r
  <2>4. Delivers(g, Defined(v, r))
    BY <2>2, <2>3, Answers, StoreToDelivers DEF Defined
  <2> QED BY <1>3, <2>4 DEF Definition, r, WithVariable
<1> QED BY <1>2, <1>3

LEMMA VariableAssignmentDelivers ==
  ASSUME NEW g, Good(g), NEW r, Delivers(g, r), NEW v, Owning(g) => v.owner = g.ip
  PROVE  Delivers(g, VariableAssignment(v, r))
BY DiesDelivers, StoreToDelivers DEF VariableAssignment

LEMMA VariableExprASTDelivers ==
  ASSUME NEW k, Called(k), NEW g, Good(g), g.room = k, NEW n, Tree(n), n.kind = "Variable"
  PROVE  Delivers(g, VariableExprAST(n, g))
<1> DEFINE v == VariableOf(n, g)
           d == [v EXCEPT !.owner = g.scope]
           r == Rhs(n.kids[1], v.datatype, g)
           s == Step(g, TRUE, {v.owner})
<1>1. Delivers(g, g)
  BY DeliversAgain
<1>2. /\ Owning(g) => v.owner \in {NoFunction, g.ip}
      /\ DOMAIN d = VariableFields /\ d.owner = g.scope
  BY VariableOfIs
<1>3. n.kids # <<>> \/ "isDefinition" \in n.flags => Tree(n.kids[1])
  BY TreeKids
<1> HIDE DEF v, d
<1>4. CASE v.datatype = NoText
  BY <1>1, <1>4, Answers DEF VariableExprAST, v
<1>5. CASE v.datatype # NoText /\ "isDefinition" \in n.flags
  <2>1. Delivers(g, Definition(n, d, g))
    BY <1>2, <1>3, <1>5, DefinitionDelivers
  <2> QED BY <1>5, <2>1 DEF VariableExprAST, v, d
<1>6. CASE v.datatype # NoText /\ "isDefinition" \notin n.flags /\ v.owner = NoFunction
  BY <1>1, <1>6, DiesDelivers DEF VariableExprAST, v
<1>7. CASE /\ v.datatype # NoText /\ "isDefinition" \notin n.flags
           /\ v.owner # NoFunction /\ n.kids # <<>>
  <2>1. Delivers(g, r)
    BY <1>1, <1>3, <1>7, RhsDelivers
  <2>2. Delivers(g, VariableAssignment(v, r))
    BY <1>2, <1>7, <2>1, VariableAssignmentDelivers
  <2> QED BY <1>7, <2>2 DEF VariableExprAST, v
<1>8. CASE /\ v.datatype # NoText /\ "isDefinition" \notin n.flags
           /\ v.owner # NoFunction /\ n.kids = <<>>
  <2>1. Delivers(g, s)
    BY <1>1, <1>2, <1>8, StepDelivers
  <2>2. Delivers(g, Value(s, SlotType(v), Attr(v.datatype, v.ptr)))
    BY <2>1, Answers
  <2> QED BY <1>8, <2>2 DEF VariableExprAST, v
<1> QED BY <1>4, <1>5, <1>6, <1>7, <1>8

LEMMA FoldedDelivers ==
  ASSUME NEW g, Good(g), NEW l, NEW r, Delivers(g, r), NEW typed, NEW type, NEW attr
  PROVE  Delivers(g, Folded(typed, l, r, type, attr))
<1>1. Delivers(g, Step(r, typed, {}))
  BY StepDelivers
<1> QED BY <1>1, Answers, DiesDelivers DEF Folded

LEMMA OperationDelivers ==
  ASSUME NEW g, Good(g), NEW l, NEW r, Delivers(g, r), NEW op
  PROVE  Delivers(g, Operation(op, l, r))
<1>1. Delivers(g, Nothing(r))
  BY Answers
<1>2. Delivers(g, PointerOperation(op, l, r))
  <2>1. Delivers(g, Step(r, r.val \in IntegerTypes, {}))
    BY StepDelivers
  <2> QED BY <2>1, Answers, DiesDelivers DEF PointerOperation
<1>3. Delivers(g, SimpleOperation(op, l, r))
  BY FoldedDelivers DEF SimpleOperation
<1> QED BY <1>1, <1>2, <1>3 DEF Operation

LEMMA BinaryExprASTDelivers ==
  ASSUME NEW k, Called(k), NEW g, Good(g), g.room = k, NEW n, Tree(n), n.kind = "Binary"
  PROVE  Delivers(g, BinaryExprAST(n, g))
<1> DEFINE l == codegen(n.kids[1], g)
           r == codegen(n.kids[2], l)
<1>1. Tree(n.kids[1]) /\ Tree(n.kids[2])
  BY TreeKids
<1>2. Delivers(g, l)
  BY <1>1, DeliversAgain, codegenDelivers
<1> HIDE DEF l
<1>3. Delivers(g, r)
  BY <1>1, <1>2, codegenDelivers
<1> HIDE DEF r
<1>4. Delivers(g, Operation(n.name, l, r))
  BY <1>3, OperationDelivers
<1> QED BY <1>4 DEF BinaryExprAST, RightOperand, l, r

LEMMA CallExprASTDelivers ==
  ASSUME NEW k, Called(k), NEW g, Good(g), g.room = k, NEW n, Tree(n), n.kind = "Call"
  PROVE  Delivers(g, CallExprAST(n, g))
<1> DEFINE f == getFunction(g, n.name)
           h == [f EXCEPT !.types = <<>>, !.val = "void"]
           a == Gen("Arguments", n.kids, h)
           proto == returnProto(g, n.name)
           calleeF == Here(f)[n.name]
<1>1. State(f) /\ Notes(g, f)
  BY getFunctionNotes DEF Good
<1> HIDE DEF f
<1>2. Delivers(g, f)
  BY <1>1, NotesDelivers
<1>3. Quiet(f, h)
  BY <1>2, DeliversRoom DEF Quiet, GenFields
<1>4. Delivers(g, h)
  BY <1>2, <1>3, DeliversStep
<1> HIDE DEF h
<1>5. Delivers(g, a)
  <2>1. Trees(n.kids)
    BY TreeKids
  <2> QED BY <1>4, <2>1, NodesDeliver DEF GenMethods
<1> HIDE DEF a, proto, calleeF
<1>6. Delivers(g, CreateCall(proto, calleeF, a))
  <2>1. \A t : Delivers(g, Step(a, t, {}))
    BY <1>5, StepDelivers
  <2>2. \A t : Delivers(g, Value(Step(a, t, {}), calleeF.ret,
                                 Attr(proto.type, IsPointer(proto))))
    BY <2>1, Answers
  <2>3. Delivers(g, Nothing(a))
    BY <1>5, Answers
  <2> QED BY <2>2, <2>3 DEF CreateCall
<1> HIDE DEF CreateCall
<1>7. Delivers(g, CallOf(n, proto, f))
  BY <1>2, <1>6, Answers, DiesDelivers DEF CallOf, calleeF, a, h
<1> QED BY <1>7 DEF CallExprAST, f, proto

(* A name that is looked up leaves an entry behind. *)
LEMMA LookedUpDelivers ==
  ASSUME NEW g, Good(g), NEW name
  PROVE  Delivers(g, Issue([g EXCEPT !.vars = With(@, name, NoVariable)],
                           "UNDEFINED_VARIABLE"))
<1>1. DOMAIN NoVariable = VariableFields /\ NoVariable.owner = NoFunction
  BY DEF NoVariable, VariableFields
<1>2. Delivers(g, WithVariable(g, name, NoVariable))
  BY <1>1, WithVariableDelivers
<1> QED BY <1>2, Answers DEF WithVariable

LEMMA DereferenceASTDelivers ==
  ASSUME NEW g, Good(g), NEW n
  PROVE  Delivers(g, DereferenceAST(n, g))
<1> DEFINE v == g.vars[n.name]
           s == Step(g, TRUE, {v.owner})
           type == IF SlotType(v) = "float" THEN "tok_float" ELSE "tok_int"
<1>1. Delivers(g, g)
  BY DeliversAgain
<1>2. CASE n.name \notin DOMAIN g.vars
  BY <1>2, LookedUpDelivers DEF DereferenceAST
<1>3. CASE n.name \in DOMAIN g.vars /\ v.owner = NoFunction
  BY <1>1, <1>3, Answers DEF DereferenceAST
<1>4. CASE n.name \in DOMAIN g.vars /\ v.owner # NoFunction
  <2>1. Owning(g) => v.owner = g.ip
    BY <1>4 DEF Owning
  <2>2. Delivers(g, s)
    BY <1>1, <2>1, StepDelivers
  <2>3. Delivers(g, Value(s, Elem[SlotType(v)], Attr(type, TRUE)))
    BY <2>2, Answers
  <2>4. Delivers(g, Die(g, "undefined"))
    BY <1>1, DiesDelivers
  <2> QED BY <1>4, <2>3, <2>4 DEF DereferenceAST
<1> QED BY <1>2, <1>3, <1>4

LEMMA StoreThroughDelivers ==
  ASSUME NEW g, Good(g), NEW r, Delivers(g, r), NEW v, Owning(g) => v.owner = g.ip
  PROVE  Delivers(g, StoreThrough(v, r))
<1>1. \A t : Delivers(g, Step(r, t, {v.owner}))
  BY StepDelivers
<1>2. \A t : Delivers(g, Value(Step(r, t, {v.owner}), "void", Attr(v.datatype, v.ptr)))
  BY <1>1, Answers
<1>3. Delivers(g, Issue(r, "ERROR_RHS_VARIABLE_ASSIGMENT"))
  BY Answers
<1> QED BY <1>2, <1>3 DEF StoreThrough

LEMMA ToPointerAssigmentASTDelivers ==
  ASSUME NEW k, Called(k), NEW g, Good(g), g.room = k, NEW n, Tree(n), n.kind = "ToPointer"
  PROVE  Delivers(g, ToPointerAssigmentAST(n, g))
<1> DEFINE v == g.vars[n.name]
           r == codegen(n.kids[1], g)
<1>1. Delivers(g, g)
  BY DeliversAgain
<1>2. CASE n.name \notin DOMAIN g.vars
  BY <1>2, LookedUpDelivers DEF ToPointerAssigmentAST
<1>3. CASE n.name \in DOMAIN g.vars /\ v.owner = NoFunction
  BY <1>1, <1>3, Answers DEF ToPointerAssigmentAST
<1>4. CASE n.name \in DOMAIN g.vars /\ v.owner # NoFunction
  <2>1. Owning(g) => v.owner = g.ip
    BY <1>4 DEF Owning
  <2>2. Tree(n.kids[1])
    BY TreeKids
  <2>3. Delivers(g, r)
    BY <1>1, <2>2, codegenDelivers
  <2>4. Delivers(g, StoreThrough(v, r))
    BY <2>1, <2>3, StoreThroughDelivers
  <2> QED BY <1>4, <2>4 DEF ToPointerAssigmentAST
<1> QED BY <1>2, <1>3, <1>4

LEMMA CastASTDelivers ==
  ASSUME NEW k, Called(k), NEW g, Good(g), g.room = k, NEW n, Tree(n), n.kind = "Cast"
  PROVE  Delivers(g, CastAST(n, g))
<1> DEFINE r == codegen(n.kids[1], g)
           odd == IsPointer(n) /\ ~r.node.ptr
           logged == [r EXCEPT !.errs = Append(@, "CAST_ERROR")]
           e == IF odd THEN logged ELSE r
           zero == r.const /\ "isNull" \in n.kids[1].flags
           s == Step(e, zero \/ r.val \in DOMAIN Elem, {})
<1>1. Tree(n.kids[1])
  BY TreeKids
<1>2. Delivers(g, r)
  BY <1>1, DeliversAgain, codegenDelivers
<1> HIDE DEF r
<1>3. Quiet(r, logged)
  BY <1>2, DeliversRoom DEF Quiet, GenFields
<1>4. Delivers(g, logged)
  BY <1>2, <1>3, DeliversStep
<1>5. Delivers(g, e)
  BY <1>2, <1>4
<1> HIDE DEF e
<1>6. Delivers(g, s)
  BY <1>5, StepDelivers
<1> HIDE DEF s
<1>7. Delivers(g, Value(s, getType(n.type, TRUE), Attr(n.type, TRUE)))
  BY <1>6, Answers
<1>8. Delivers(g, Nothing(e)) /\ Delivers(g, Issue(r, "CAST_ERROR"))
  BY <1>2, <1>5, Answers
<1>9. Delivers(g, BitCast(n, r))
  BY <1>7, <1>8 DEF BitCast, e, s
<1> QED BY <1>9 DEF CastAST, r

(* What a child leaves of the body of the function it was begun in. *)
LEMMA GrownBody ==
  ASSUME NEW g, Good(g), g.ip # NoFunction, NEW h, Delivers(g, h)
  PROVE  /\ InOrder(Fn(h, g.ip).body)
         /\ Len(Fn(g, g.ip).body.code) \in Nat /\ Len(Fn(h, g.ip).body.code) \in Nat
         /\ Len(Fn(g, g.ip).body.code) <= Len(Fn(h, g.ip).body.code)
         /\ Fn(g, g.ip).body.placed \subseteq Fn(h, g.ip).body.placed
<1>1. Bodied(g, g.ip) /\ Good(h) /\ Touches(g, h)
  BY DEF Good, Belongs, Delivers
<1>2. Bodied(h, g.ip)
  BY <1>1, BodiedOn
<1>3. InOrder(Fn(g, g.ip).body) /\ InOrder(Fn(h, g.ip).body)
  BY <1>1, <1>2, BodiedBody DEF Good
<1>4. Grows(Fn(g, g.ip).body, Fn(h, g.ip).body)
  BY <1>1 DEF Bodied, Touches, Keeps
<1> QED BY <1>3, <1>4, InOrderLen DEF Grows

LEMMA IfHeadFollows ==
  ASSUME NEW f, InOrder(f), NEW c
  PROVE  /\ Follows(f, IfHead(f, c))
         /\ Len(IfHead(f, c).code) = Len(f.code) + 3
<1> DEFINE f1 == Create(f)
           f2 == Create(f1)
           f3 == Create(f2)
           p == Place(f3, Fresh(f, 1))
           e == Emit(p, CondBr(c, Fresh(f, 1), Fresh(f, 2)))
           h == At(e, Fresh(f, 1))
<1>1. Len(f.code) \in Nat
  BY InOrderLen
<1>2. Follows(f, f1) /\ Len(f1.code) = Len(f.code) + 1
  BY CreateFollows
<1> HIDE DEF f1
<1>3. Follows(f1, f2) /\ Len(f2.code) = Len(f.code) + 2
  BY <1>1, <1>2, CreateFollows DEF Follows
<1> HIDE DEF f2
<1>4. Follows(f2, f3) /\ Len(f3.code) = Len(f.code) + 3
  BY <1>1, <1>3, CreateFollows DEF Follows
<1> HIDE DEF f3
<1>5. Fresh(f, 1) \in 1 .. Len(f3.code)
  BY <1>1, <1>4 DEF Fresh
<1>6. Follows(f3, p) /\ p.code = f3.code /\ p.placed = f3.placed \cup {Fresh(f, 1)}
  BY <1>4, <1>5, PlaceFollows DEF Follows
<1> HIDE DEF p
<1>7. Follows(p, e) /\ Len(e.code) = Len(p.code) /\ e.placed = p.placed
  BY <1>6, EmitFollows, EmitNeutral, Neutrals DEF Follows
<1> HIDE DEF e
<1>8. Follows(e, h) /\ h.code = e.code
  BY <1>6, <1>7, AtFollows DEF Follows
<1> HIDE DEF h
<1>9. Follows(f, f2)
  BY <1>2, <1>3, FollowsAll
<1>10. Follows(f, f3)
  BY <1>4, <1>9, FollowsAll
<1>11. Follows(f, p)
  BY <1>6, <1>10, FollowsAll
<1>12. Follows(f, e)
  BY <1>7, <1>11, FollowsAll
<1>13. Follows(f, h)
  BY <1>8, <1>12, FollowsAll
<1> QED BY <1>4, <1>6, <1>7, <1>8, <1>13 DEF IfHead, h, e, p, f3, f2, f1

LEMMA IfElseFollows ==
  ASSUME NEW f, InOrder(f), NEW else \in 1 .. Len(f.code), NEW merge
  PROVE  Follows(f, IfElse(f, else, merge))
<1> DEFINE e == Emit(f, Br(merge))
           p == Place(e, else)
           h == At(p, else)
<1>1. Follows(f, e) /\ Len(e.code) = Len(f.code)
  BY EmitFollows, EmitNeutral, Neutrals
<1> HIDE DEF e
<1>2. Follows(e, p) /\ else \in p.placed
  BY <1>1, PlaceFollows DEF Follows
<1> HIDE DEF p
<1>3. Follows(p, h)
  BY <1>2, AtFollows DEF Follows
<1> HIDE DEF h
<1>4. Follows(f, p)
  BY <1>1, <1>2, FollowsAll
<1>5. Follows(f, h)
  BY <1>3, <1>4, FollowsAll
<1> QED BY <1>5 DEF IfElse, h, p, e

LEMMA IfEndFollows ==
  ASSUME NEW f, InOrder(f), NEW merge \in 1 .. Len(f.code), NEW hasElse
  PROVE  Follows(f, IfEnd(f, merge, hasElse))
<1> DEFINE e == IF hasElse THEN Emit(f, Br(merge)) ELSE f
           p == Place(e, merge)
           h == At(p, merge)
<1>1. Follows(f, e) /\ Len(e.code) = Len(f.code)
  <2>1. Follows(f, Emit(f, Br(merge))) /\ Len(Emit(f, Br(merge)).code) = Len(f.code)
    BY EmitFollows, EmitNeutral, Neutrals
  <2>2. Follows(f, f)
    BY InOrderLen DEF Follows, Grows
  <2> QED BY <2>1, <2>2
<1> HIDE DEF e
<1>2. Follows(e, p) /\ merge \in p.placed
  BY <1>1, PlaceFollows DEF Follows
<1> HIDE DEF p
<1>3. Follows(p, h)
  BY <1>2, AtFollows DEF Follows
<1> HIDE DEF h
<1>4. Follows(f, p)
  BY <1>1, <1>2, FollowsAll
<1>5. Follows(f, h)
  BY <1>3, <1>4, FollowsAll
<1> QED BY <1>5 DEF IfEnd, h, p, e

LEMMA ForBlocksFollows ==
  ASSUME NEW f, InOrder(f)
  PROVE  /\ Follows(f, ForBlocks(f))
         /\ {Fresh(f, 1), Fresh(f, 2)} \subseteq ForBlocks(f).placed
<1> DEFINE f1 == Create(f)
           f2 == Create(f1)
           p == Place(f2, Fresh(f, 1))
           h == Place(p, Fresh(f, 2))
<1>1. Len(f.code) \in Nat
  BY InOrderLen
<1>2. Follows(f, f1) /\ Len(f1.code) = Len(f.code) + 1
  BY CreateFollows
<1> HIDE DEF f1
<1>3. Follows(f1, f2) /\ Len(f2.code) = Len(f.code) + 2
  BY <1>1, <1>2, CreateFollows DEF Follows
<1> HIDE DEF f2
<1>4. Fresh(f, 1) \in 1 .. Len(f2.code) /\ Fresh(f, 2) \in 1 .. Len(f2.code)
  BY <1>1, <1>3 DEF Fresh
<1>5. Follows(f2, p) /\ p.code = f2.code /\ Fresh(f, 1) \in p.placed
  BY <1>3, <1>4, PlaceFollows DEF Follows
<1> HIDE DEF p
<1>6. Follows(p, h) /\ h.placed = p.placed \cup {Fresh(f, 2)}
  BY <1>4, <1>5, PlaceFollows DEF Follows
<1> HIDE DEF h
<1>7. Follows(f, f2)
  BY <1>2, <1>3, FollowsAll
<1>8. Follows(f, p)
  BY <1>5, <1>7, FollowsAll
<1>9. Follows(f, h)
  BY <1>6, <1>8, FollowsAll
<1> QED BY <1>5, <1>6, <1>9 DEF ForBlocks, h, p, f2, f1

(* A conditional jump out of the block, and on at one of its targets. *)
LEMMA JumpFollows ==
  ASSUME NEW f, InOrder(f), NEW c, NEW b, NEW t, NEW at \in f.placed
  PROVE  Follows(f, At(Emit(f, CondBr(c, b, t)), at))
<1> DEFINE e == Emit(f, CondBr(c, b, t))
           h == At(e, at)
<1>1. Follows(f, e) /\ e.placed = f.placed
  BY EmitFollows, EmitNeutral, Neutrals
<1> HIDE DEF e
<1>2. Follows(e, h)
  BY <1>1, AtFollows DEF Follows
<1> HIDE DEF h
<1>3. Follows(f, h)
  BY <1>1, <1>2, FollowsAll
<1> QED BY <1>3 DEF h, e

LEMMA BranchDelivers ==
  ASSUME NEW g0, Good(g0), NEW k, Called(k), g0.room = k, NEW g, Delivers(g0, g),
         NEW nodes, Trees(nodes)
  PROVE  Delivers(g0, Branch(nodes, g))
<1>1. Delivers(g0, Statements(nodes, g))
  BY StatementsDelivers
<1> QED BY <1>1, Answers DEF Branch

(* After the condition of an if, in the function the builder is in then. *)
LEMMA IfThenDelivers ==
  ASSUME NEW k, Called(k), NEW c, Good(c), c.room = k, c.ip # NoFunction,
         NEW n, Trees(n.kids[2].kids), Trees(n.kids[3].kids)
  PROVE  Delivers(c, IfThen(n, c.ip, Fn(c, c.ip).body, c))
<1> DEFINE id == c.ip
           f == Fn(c, id).body
           else == Fresh(f, 2)
           merge == Fresh(f, 3)
           b == IfHead(f, Checks(TRUE, {}))
           h == SetBody(c, id, b)
           t == Branch(n.kids[2].kids, h)
           bt == IfElse(Fn(t, id).body, else, merge)
           r == Resume(t, id, bt)
           e == Branch(n.kids[3].kids, r)
           be == IfEnd(Fn(e, id).body, merge, n.kids[3].kids # <<>>)
           s == Resume(e, id, be)
<1>1. InOrder(f) /\ Len(f.code) \in Nat
  BY BodiedBody, InOrderLen DEF Good, Belongs
<1>2. Follows(f, b) /\ Len(b.code) = Len(f.code) + 3
  BY <1>1, IfHeadFollows
<1>3. else = Len(f.code) + 2 /\ merge = Len(f.code) + 3
  BY DEF Fresh
<1> HIDE DEF b, else, merge
<1>4. Delivers(c, h) /\ h.ip = id /\ Fn(h, id).body = b
  BY <1>2, SetBodyDelivers
<1> HIDE DEF h
<1>5. Good(h) /\ h.room = k
  BY <1>4, DeliversRoom
<1>6. Delivers(h, t)
  BY <1>5, DeliversAgain, BranchDelivers
<1>7. /\ InOrder(Fn(t, id).body) /\ Len(Fn(t, id).body.code) \in Nat
      /\ Len(b.code) <= Len(Fn(t, id).body.code)
  BY <1>4, <1>5, <1>6, GrownBody
<1>8. Delivers(c, t)
  BY <1>4, <1>6, DeliversAll
<1> HIDE DEF t
<1>9. Follows(Fn(t, id).body, bt)
  BY <1>1, <1>2, <1>3, <1>7, IfElseFollows
<1> HIDE DEF bt
<1>10. Delivers(h, r) /\ r.ip = id /\ Follows(bt, Fn(r, id).body)
  BY <1>4, <1>5, <1>6, <1>9, ResumeDelivers
<1> HIDE DEF r
<1>11. Good(r) /\ r.room = k
  BY <1>5, <1>10, DeliversRoom
<1>12. Delivers(r, e)
  BY <1>11, DeliversAgain, BranchDelivers
<1>13. /\ InOrder(Fn(r, id).body) /\ InOrder(Fn(e, id).body)
       /\ Len(Fn(e, id).body.code) \in Nat /\ Len(Fn(r, id).body.code) \in Nat
       /\ Len(Fn(r, id).body.code) <= Len(Fn(e, id).body.code)
  BY <1>10, <1>11, <1>12, GrownBody DEF Follows
<1>14. Len(b.code) <= Len(Fn(r, id).body.code)
  <2>1. Len(bt.code) \in Nat
    BY <1>9, InOrderLen DEF Follows
  <2>2. Len(b.code) \in Nat
    BY <1>1, <1>2
  <2> QED BY <1>7, <1>9, <1>10, <1>13, <2>1, <2>2 DEF Follows, Grows
<1>15. Delivers(h, e)
  BY <1>5, <1>10, <1>12, DeliversAll
<1> HIDE DEF e
<1>16. Follows(Fn(e, id).body, be)
  <2> HIDE DEF f, be, s
  <2>1. merge \in 1 .. Len(Fn(e, id).body.code)
    <3>1. Len(f.code) + 3 <= Len(Fn(r, id).body.code)
      BY <1>2, <1>14
    <3>2. Len(f.code) + 3 <= Len(Fn(e, id).body.code)
      BY <1>1, <1>13, <3>1
    <3> QED BY <1>1, <1>3, <1>13, <3>2
  <2> QED BY <1>13, <2>1, IfEndFollows DEF be
<1> HIDE DEF be
<1>17. Delivers(r, s)
  BY <1>10, <1>11, <1>12, <1>16, ResumeDelivers DEF e
<1>18. Delivers(h, s)
  BY <1>5, <1>10, <1>17, DeliversAll
<1>19. Delivers(c, s)
  BY <1>4, <1>18, DeliversAll
<1> HIDE DEF s
<1>20. Delivers(c, Value(s, "i1", Untyped))
  BY <1>19, Answers
<1>21. Delivers(c, e)
  BY <1>4, <1>15, DeliversAll
<1>22. Delivers(c, IfMerge(n, id, merge, e))
  BY <1>20, <1>21 DEF IfMerge, s, be
<1>23. Delivers(c, IfOtherwise(n, id, else, merge, t))
  BY <1>8, <1>22 DEF IfOtherwise, e, r, bt
<1> QED BY <1>23 DEF IfThen, t, h, b, else, merge

LEMMA IfASTDelivers ==
  ASSUME NEW k, Called(k), NEW g, Good(g), g.room = k, NEW n, Tree(n), n.kind = "If"
  PROVE  Delivers(g, IfAST(n, g))
<1> DEFINE c == codegen(n.kids[1], g)
<1>1. Tree(n.kids[1]) /\ Trees(n.kids[2].kids) /\ Trees(n.kids[3].kids)
  BY TreeKids
<1>2. Delivers(g, c)
  BY <1>1, DeliversAgain, codegenDelivers
<1> HIDE DEF c
<1>3. Good(c) /\ c.room = k
  BY <1>2, DeliversRoom
<1>4. Delivers(g, Nothing(c)) /\ Delivers(g, Die(c, "null"))
  BY <1>2, Answers, DiesDelivers
<1>5. ASSUME c.ip # NoFunction PROVE Delivers(g, IfThen(n, c.ip, Fn(c, c.ip).body, c))
  <2>1. Delivers(c, IfThen(n, c.ip, Fn(c, c.ip).body, c))
    BY <1>1, <1>3, <1>5, IfThenDelivers
  <2> QED BY <1>2, <2>1, DeliversAll
<1>6. Delivers(g, IfCondition(n, c))
  BY <1>2, <1>4, <1>5 DEF IfCondition
<1> QED BY <1>6 DEF IfAST, c

LEMMA LoopDelivers ==
  ASSUME NEW g, Good(g), NEW h, Delivers(g, h)
  PROVE  Delivers(g, Loop(h))
BY Answers DEF Loop

(* After the initialisation of a for, in the function the builder is in. *)
LEMMA ForLoopDelivers ==
  ASSUME NEW k, Called(k), NEW g, Good(g), g.room = k, g.ip # NoFunction,
         NEW n, Tree(n.kids[2]), Tree(n.kids[3]), Trees(n.kids[4].kids)
  PROVE  Delivers(g, ForLoop(n, g.ip, Fn(g, g.ip).body, g))
<1> DEFINE id == g.ip
           f == Fn(g, id).body
           loop == Fresh(f, 1)
           after == Fresh(f, 2)
           b == ForBlocks(f)
           h == SetBody(g, id, b)
           c == codegen(n.kids[2], h)
           bc == ForEnter(Fn(c, id).body, Condition(c), loop, after)
           r == Resume(c, id, bc)
           l == Loop(Statements(n.kids[4].kids, r))
           i == Loop(codegen(n.kids[3], l))
           a == codegen(n.kids[2], i)
           ba == ForEnd(Fn(a, id).body, Condition(a), after)
           s == Resume(a, id, ba)
<1>1. InOrder(f)
  BY BodiedBody DEF Good, Belongs
<1>2. Follows(f, b) /\ {loop, after} \subseteq b.placed
  BY <1>1, ForBlocksFollows
<1> HIDE DEF b, loop, after
<1>3. Delivers(g, h) /\ h.ip = id /\ Fn(h, id).body = b
  BY <1>2, SetBodyDelivers
<1> HIDE DEF h
<1>4. Good(h) /\ h.room = k
  BY <1>3, DeliversRoom
<1>5. Delivers(h, c)
  BY <1>4, DeliversAgain, codegenDelivers
<1>6. InOrder(Fn(c, id).body) /\ b.placed \subseteq Fn(c, id).body.placed
  BY <1>3, <1>4, <1>5, GrownBody
<1> HIDE DEF c
<1>7. Follows(Fn(c, id).body, bc)
  BY <1>2, <1>6, JumpFollows DEF ForEnter
<1> HIDE DEF bc
<1>8. Delivers(h, r) /\ r.ip = id /\ Follows(bc, Fn(r, id).body)
  BY <1>3, <1>4, <1>5, <1>7, ResumeDelivers
<1> HIDE DEF r
<1>9. Good(r) /\ r.room = k /\ Delivers(r, r)
  BY <1>4, <1>8, DeliversRoom, DeliversAgain
<1>10. Delivers(r, l)
  BY <1>9, StatementsDelivers, LoopDelivers
<1> HIDE DEF l
<1>11. Delivers(r, i)
  BY <1>9, <1>10, codegenDelivers, LoopDelivers
<1> HIDE DEF i
<1>12. Delivers(r, a)
  BY <1>9, <1>11, codegenDelivers
<1>13. /\ InOrder(Fn(a, id).body)
       /\ Fn(r, id).body.placed \subseteq Fn(a, id).body.placed
  BY <1>8, <1>9, <1>12, GrownBody
<1>14. after \in Fn(a, id).body.placed
  BY <1>2, <1>6, <1>7, <1>8, <1>13 DEF Follows, Grows
<1> HIDE DEF a
<1>15. Follows(Fn(a, id).body, ba)
  BY <1>13, <1>14, JumpFollows DEF ForEnd
<1> HIDE DEF ba
<1>16. Delivers(r, s)
  BY <1>8, <1>9, <1>12, <1>15, ResumeDelivers
<1> HIDE DEF s
<1>17. Delivers(r, ForAgain(id, after, a))
  BY <1>12, <1>16 DEF ForAgain, s, ba
<1>18. Delivers(r, ForStep(n, id, after, i))
  BY <1>11, <1>17 DEF ForStep, a
<1>19. Delivers(r, ForBody(n, id, after, l))
  BY <1>10, <1>18 DEF ForBody, i
<1> HIDE DEF ForBody
<1>20. Delivers(h, ForBody(n, id, after, l))
  BY <1>4, <1>8, <1>19, DeliversAll
<1>21. Delivers(h, ForCondition(n, id, f, c))
  BY <1>5, <1>20 DEF ForCondition, l, r, bc, loop, after
<1> HIDE DEF ForCondition
<1>22. Delivers(g, ForCondition(n, id, f, c))
  BY <1>3, <1>21, DeliversAll
<1> QED BY <1>22 DEF ForLoop, c, h, b

LEMMA ForASTDelivers ==
  ASSUME NEW k, Called(k), NEW g, Good(g), g.room = k, NEW n, Tree(n), n.kind = "For"
  PROVE  Delivers(g, ForAST(n, g))
<1> DEFINE i == Loop(codegen(n.kids[1], g))
<1>1. Tree(n.kids[1]) /\ Tree(n.kids[2]) /\ Tree(n.kids[3]) /\ Trees(n.kids[4].kids)
  BY TreeKids
<1>2. Delivers(g, i)
  BY <1>1, DeliversAgain, codegenDelivers, LoopDelivers
<1> HIDE DEF i
<1>3. Good(i) /\ i.room = k
  BY <1>2, DeliversRoom
<1>4. Delivers(g, Die(i, "null"))
  BY <1>2, DiesDelivers
<1>5. ASSUME i.ip # NoFunction PROVE Delivers(g, ForLoop(n, i.ip, Fn(i, i.ip).body, i))
  <2>1. Delivers(i, ForLoop(n, i.ip, Fn(i, i.ip).body, i))
    BY <1>1, <1>3, <1>5, ForLoopDelivers
  <2> QED BY <1>2, <2>1, DeliversAll
<1>6. Delivers(g, ForInit(n, i))
  BY <1>2, <1>4, <1>5 DEF ForInit
<1> QED BY <1>6 DEF ForAST, i

(* The body of a function, once entered. *)
LEMMA FunctionBodyDelivers ==
  ASSUME NEW k, Called(k), NEW e, Good(e), e.room = k, NEW nodes, Trees(nodes)
  PROVE  Delivers(e, FunctionBody(nodes, e))
<1> DEFINE h == [e EXCEPT !.val = "void"]
<1>1. Delivers(e, e)
  BY DeliversAgain
<1>2. Quiet(e, h)
  BY <1>1, DeliversRoom DEF Quiet, GenFields
<1>3. Delivers(e, h)
  BY <1>1, <1>2, DeliversStep
<1> HIDE DEF h
<1>4. Delivers(e, Gen("Body", nodes, h))
  BY <1>3, NodesDeliver DEF GenMethods
<1> QED BY <1>4 DEF FunctionBody, h

LEMMA NestedFunctionDelivers ==
  ASSUME NEW k, Called(k), NEW g, Good(g), g.room = k, Nested(g),
         NEW p, NEW nodes, Trees(nodes)
  PROVE  Delivers(g, FunctionOfTree(p, nodes, g))
<1> DEFINE r == Register(p, g)
           id == <<g.cur, p.name>>
           e == EnterFunction(p, id, r)
           b == FunctionBody(nodes, e)
           h == FinishFunction(p, nodes, id, b)
<1>1. State(r) /\ Notes(g, r) /\ Held(r, <<g.cur, p.name>>)
  BY RegisterNotes DEF Good
<1> HIDE DEF r
<1>2. Delivers(g, r) /\ r.cur = g.cur /\ r.room = k /\ Nested(r)
  BY <1>1, NotesDelivers DEF Notes, Nested
<1>3. Good(r)
  BY <1>2, DeliversRoom
<1>4. Delivers(g, Nothing(r)) /\ Delivers(g, Die(r, "undefined"))
  BY <1>2, Answers, DiesDelivers
<1>5. ASSUME Empty(Fn(r, id)) PROVE Delivers(g, h)
  <2>1. Good(e) /\ Touches(r, e) /\ r.ip \in e.torn
    BY <1>1, <1>2, <1>3, <1>5, NestedTouches
  <2>2. e.ip # NoFunction /\ e.room = k
    <3>1. e.ip = id
      BY <1>1, <1>3, <1>5, EnterFunctionIs DEF Good
    <3>2. id # NoFunction
      BY DEF NoFunction
    <3> QED BY <1>2, <2>1, <3>1, <3>2 DEF Touches
  <2> HIDE DEF e
  <2>3. Delivers(e, b)
    BY <2>1, <2>2, FunctionBodyDelivers
  <2> HIDE DEF b
  <2>4. Delivers(e, h)
    BY <2>1, <2>2, <2>3, FinishFunctionDelivers
  <2> HIDE DEF h
  <2>5. Delivers(r, h)
    BY <1>3, <2>1, <2>4, NestedDelivers
  <2> QED BY <1>2, <2>5, DeliversAll
<1>6. Delivers(g, DefineFunction(p, nodes, id, r))
  BY <1>4, <1>5 DEF DefineFunction
<1> QED BY <1>6 DEF FunctionOfTree, r

LEMMA NodeASTDelivers ==
  ASSUME NEW k, Called(k), NEW g, Good(g), g.room = k, NEW n, Tree(n),
         n.kind = "Function" => Nested(g)
  PROVE  Delivers(g, NodeAST(n, g))
<1>1. n.kind \in NodeKinds /\ (n.kind = "Function" => Trees(n.kids[2].kids))
  BY TreeKids
<1>2. CASE n.kind = "Number"
  BY <1>2, DeliversAgain, Answers DEF NodeAST, NumberExprAST
<1>3. CASE n.kind = "Prototype"
  <2>1. "isExtern" \in n.flags
    BY <1>3, TreeKids
  <2>2. Delivers(g, PrototypeAST(n, g))
    BY <2>1, PrototypeASTNotes, NotesDelivers DEF Good
  <2> QED BY <1>3, <2>2 DEF NodeAST
<1>4. CASE n.kind = "Function"
  <2>1. Delivers(g, FunctionAST(n, g))
    BY <1>1, <1>4, NestedFunctionDelivers DEF FunctionAST
  <2> QED BY <1>4, <2>1 DEF NodeAST
<1>5. CASE n.kind = "Variable"
  BY <1>5, VariableExprASTDelivers DEF NodeAST
<1>6. CASE n.kind = "Binary"
  BY <1>6, BinaryExprASTDelivers DEF NodeAST
<1>7. CASE n.kind = "Call"
  BY <1>7, CallExprASTDelivers DEF NodeAST
<1>8. CASE n.kind = "If"
  BY <1>8, IfASTDelivers DEF NodeAST
<1>9. CASE n.kind = "For"
  BY <1>9, ForASTDelivers DEF NodeAST
<1>10. CASE n.kind = "Dereference"
  BY <1>10, DereferenceASTDelivers DEF NodeAST
<1>11. CASE n.kind = "ToPointer"
  BY <1>11, ToPointerAssigmentASTDelivers DEF NodeAST
<1>12. CASE n.kind = "Cast"
  BY <1>12, CastASTDelivers DEF NodeAST
<1> QED BY <1>1, <1>2, <1>3, <1>4, <1>5, <1>6, <1>7, <1>8, <1>9, <1>10, <1>11, <1>12
        DEF NodeKinds

LEMMA MethodDelivers ==
  ASSUME NEW k, Called(k), NEW g, Good(g), g.room = k, NEW m \in GenMethods, NEW x,
         Fit(m, x), m = "codegen" /\ x.kind = "Function" => Nested(g)
  PROVE  Delivers(g, GenMethod(m, x, g))
<1>1. CASE m = "codegen"
  BY <1>1, NodeASTDelivers DEF GenMethod, Fit
<1>2. CASE m = "Each"
  BY <1>2, EachDelivers DEF GenMethod, Fit
<1>3. CASE m = "Arguments"
  BY <1>3, ArgumentsDelivers DEF GenMethod, Fit
<1>4. CASE m = "Body"
  BY <1>4, BodyDelivers DEF GenMethod, Fit
<1> QED BY <1>1, <1>2, <1>3, <1>4 DEF GenMethods

(* The room on the stack, which a call takes and gives back. *)
Roomed(g, n) == [g EXCEPT !.room = n]

LEMMA RoomedIs ==
  ASSUME NEW g, State(g), NEW n \in Nat
  PROVE  LET h == Roomed(g, n)
         IN  /\ State(h) /\ h.room = n /\ h.fault = g.fault
             /\ h.ip = g.ip /\ h.torn = g.torn /\ h.cur = g.cur
             /\ h.stale = g.stale
             /\ \A x : Fn(h, x) = Fn(g, x) /\ (Held(h, x) <=> Held(g, x))
             /\ \A x : Belongs(h, x) <=> Belongs(g, x)
             /\ Owning(h) <=> Owning(g)
<1> DEFINE h == Roomed(g, n)
<1>1. DOMAIN g = GenFields
  BY DEF State, Shape
<1>2. /\ DOMAIN h = GenFields /\ h.mods = g.mods /\ h.cur = g.cur /\ h.protos = g.protos
      /\ h.builtins = g.builtins /\ h.scope = g.scope /\ h.ip = g.ip /\ h.room = n
      /\ h.redeclared = g.redeclared /\ h.torn = g.torn /\ h.fault = g.fault
      /\ h.vars = g.vars /\ h.stale = g.stale
  BY <1>1 DEF GenFields, Roomed
<1> HIDE DEF h
<1>3. \A x : Fn(h, x) = Fn(g, x) /\ (Held(h, x) <=> Held(g, x))
  BY <1>2 DEF Fn, Held, Erased
<1>4. \A x : Belongs(h, x) <=> Belongs(g, x)
  BY <1>3 DEF Bodied, Belongs
<1>5. Variables(h)
  BY <1>2, <1>4 DEF State, Shape, Variables, Lasts
<1>6. Agree(h)
  <2>1. \A x : returnProto(h, x) = returnProto(g, x)
    BY <1>2 DEF returnProto
  <2> QED BY <1>2, <1>3, <2>1 DEF State, Agree, AgreesAt
<1>7. State(h)
  BY <1>2, <1>3, <1>4, <1>5, <1>6 DEF State, Shape, Lasts
<1>8. Owning(h) <=> Owning(g)
  BY <1>2, <1>3 DEF Owning
<1> QED BY <1>2, <1>3, <1>4, <1>7, <1>8 DEF h

LEMMA RoomedDelivers ==
  ASSUME NEW g, Good(g), NEW n \in Nat, NEW r, Delivers(Roomed(g, n), r)
  PROVE  Delivers(g, Roomed(r, g.room))
<1> DEFINE c == Roomed(g, n)
           h == Roomed(r, g.room)
<1>1. /\ c.ip = g.ip /\ c.torn = g.torn /\ c.cur = g.cur
      /\ \A x : Fn(c, x) = Fn(g, x) /\ (Held(c, x) <=> Held(g, x))
      /\ Owning(c) <=> Owning(g)
  BY RoomedIs DEF Good
<1>2. Good(r) /\ Touches(c, r) /\ g.room \in Nat
  BY DEF Delivers, Good, State, Shape
<1>3. /\ State(h) /\ h.room = g.room
      /\ h.ip = r.ip /\ h.torn = r.torn /\ h.cur = r.cur
      /\ \A x : Fn(h, x) = Fn(r, x) /\ (Held(h, x) <=> Held(r, x))
      /\ \A x : Belongs(h, x) <=> Belongs(r, x)
      /\ Owning(h) <=> Owning(r)
  BY <1>2, RoomedIs DEF Good
<1> HIDE DEF c, h
<1>4. Good(h)
  BY <1>2, <1>3 DEF Good
<1>5. ASSUME NEW x, Held(g, x) PROVE Keeps(g, h, x)
  <2>1. Keeps(c, r, x)
    BY <1>1, <1>2, <1>5 DEF Touches
  <2> QED BY <1>1, <1>3, <2>1 DEF Keeps
<1>6. ASSUME NEW x, Held(h, x), ~Held(g, x) PROVE Adds(g, h, x)
  <2>1. Adds(c, r, x)
    BY <1>1, <1>2, <1>3, <1>6 DEF Touches
  <2> QED BY <1>1, <1>3, <2>1 DEF Adds
<1>7. ASSUME NEW x \in h.torn \ g.torn PROVE Tears(g, x)
  <2>1. Tears(c, x)
    BY <1>1, <1>2, <1>3, <1>7 DEF Touches
  <2> QED BY <1>1, <2>1 DEF Tears, Bodied
<1>8. Touches(g, h)
  BY <1>1, <1>2, <1>3, <1>5, <1>6, <1>7 DEF Touches
<1>9. g.ip \notin h.torn /\ Owning(g) => Owning(h)
  BY <1>1, <1>3 DEF Delivers, c
<1> QED BY <1>4, <1>8, <1>9 DEF Delivers, h

LEMMA CallDelivers ==
  ASSUME GenRecursion, NEW g, Good(g), NEW m \in GenMethods, NEW x, Fit(m, x),
         g.room # 0 => Called(g.room - 1),
         m = "codegen" /\ x.kind = "Function" => g.room < MaxCalls
  PROVE  Delivers(g, Gen(m, x, g))
<1>1. g.room \in Nat /\ DOMAIN g = GenFields
  BY DEF Good, State, Shape
<1>2. Gen(m, x, g) = GenDispatch(m, x, g)
  BY <1>1 DEF GenRecursion
<1>3. Delivers(g, g)
  BY DeliversAgain
<1>4. CASE g.fault # "none"
  BY <1>2, <1>3, <1>4 DEF GenDispatch
<1>5. CASE g.fault = "none" /\ g.room = 0
  BY <1>2, <1>3, <1>5, DiesDelivers DEF GenDispatch
<1>6. CASE g.fault = "none" /\ g.room # 0
  <2> DEFINE c == Roomed(g, g.room - 1)
             r == GenMethod(m, x, c)
  <2>1. [g EXCEPT !.room = @ - 1] = c
    BY <1>1 DEF Roomed, GenFields
  <2>2. GenDispatch(m, x, g) = Roomed(r, g.room)
    BY <1>6, <2>1 DEF GenDispatch, Roomed
  <2>3. g.room - 1 \in Nat
    BY <1>1, <1>6
  <2>4. Good(c) /\ c.room = g.room - 1
    BY <2>3, RoomedIs DEF Good
  <2>5. g.room < MaxCalls => Nested(c)
    BY <1>1, <2>4, MaxCallsAssumption DEF Nested
  <2> HIDE DEF c
  <2>6. Delivers(c, r)
    BY <1>6, <2>4, <2>5, MethodDelivers
  <2> HIDE DEF r
  <2>7. Delivers(g, Roomed(r, g.room))
    BY <2>3, <2>6, RoomedDelivers DEF c
  <2> QED BY <1>2, <2>2, <2>7
<1> QED BY <1>4, <1>5, <1>6

LEMMA AllDeliver ==
  ASSUME GenRecursion, NEW n \in Nat, n < MaxCalls
  PROVE  Called(n)
<1> DEFINE Bad == {k \in Nat : k < MaxCalls /\ ~Called(k)}
<1>1. CASE Bad = {}
  BY <1>1
<1>2. CASE Bad # {}
  <2>1. PICK k \in Bad : \A j \in Bad : k <= j
    BY <1>2, LeastNat
  <2>2. k \in Nat /\ k < MaxCalls /\ ~Called(k)
    BY <2>1
  <2>3. k # 0 => Called(k - 1)
    <3> SUFFICES ASSUME k # 0, ~Called(k - 1) PROVE FALSE
      OBVIOUS
    <3>1. k - 1 \in Bad
      BY <2>2, MaxCallsAssumption
    <3> QED BY <2>1, <2>2, <3>1
  <2>4. Called(k)
    <3> SUFFICES ASSUME NEW m \in GenMethods, NEW x, NEW g,
                        Good(g), g.room = k, Fit(m, x)
                 PROVE  Delivers(g, Gen(m, x, g))
      BY DEF Called
    <3> QED BY <2>2, <2>3, CallDelivers
  <2> QED BY <2>2, <2>4
<1> QED BY <1>1, <1>2

(* A tree that is not the definition of a function. *)
LEMMA codegenOfTree ==
  ASSUME GenRecursion, NEW g, Good(g), g.room = MaxCalls, NEW n, Tree(n),
         n.kind # "Function"
  PROVE  Delivers(g, codegen(n, g))
<1>1. g.room # 0 => Called(g.room - 1)
  <2> SUFFICES ASSUME g.room # 0 PROVE Called(g.room - 1)
    OBVIOUS
  <2>1. g.room - 1 \in Nat /\ g.room - 1 < MaxCalls
    BY MaxCallsAssumption
  <2> QED BY <2>1, AllDeliver
<1> QED BY <1>1, CallDelivers DEF codegen, GenMethods, Fit

-----------------------------------------------------------------------------
(***************************************************************************)
(* What a whole tree makes of a state: h, made of g by the tree n.  For a  *)
(* function it does not matter where the builder was.                      *)
(***************************************************************************)
Apart(g, n, id) ==
  /\ Held(g, id)
  /\ Bodied(g, id) \/ id[1] # g.cur
  /\ id # g.ip \/ n.kind \in {"Prototype", "Function"}
Made(g, n, h) ==
  /\ State(h) /\ h.cur = g.cur /\ h.room = g.room
  /\ Belongs(g, g.ip) => Belongs(h, h.ip)
  /\ \A id : Held(g, id) => Held(h, id)
  /\ \A id : Bodied(g, id) => Bodied(h, id)
  /\ \A id : Held(h, id) /\ ~Held(g, id) => id[1] = g.cur
  /\ \A id : Apart(g, n, id) => Fn(h, id) = Fn(g, id)
  /\ \A id : Bodied(h, id) /\ ~Bodied(g, id) /\ id \notin h.torn
               => Own(Fn(h, id).body, id)

LEMMA MadeQuiet ==
  ASSUME NEW g, NEW n, NEW h, Made(g, n, h), NEW k, Quiet(h, k)
  PROVE  Made(g, n, k)
<1>1. State(k)
  BY QuietState DEF Made
<1>2. /\ \A id : Fn(k, id) = Fn(h, id)
      /\ \A id : Held(k, id) <=> Held(h, id)
      /\ \A id : Bodied(k, id) <=> Bodied(h, id)
      /\ \A id : Belongs(k, id) <=> Belongs(h, id)
  BY QuietSame
<1> QED BY <1>1, <1>2 DEF Made, Quiet

LEMMA MadeNotes ==
  ASSUME NEW g, NEW h, State(h), Notes(g, h), NEW n
  PROVE  Made(g, n, h)
BY NotesKeep DEF Made, Notes, Apart

LEMMA MadeRoomed ==
  ASSUME NEW g, State(g), NEW n, NEW k \in Nat, NEW r, Made(Roomed(g, k), n, r)
  PROVE  Made(g, n, Roomed(r, g.room))
<1> DEFINE c == Roomed(g, k)
           h == Roomed(r, g.room)
<1>1. /\ c.ip = g.ip /\ c.cur = g.cur
      /\ \A x : Fn(c, x) = Fn(g, x) /\ (Held(c, x) <=> Held(g, x))
      /\ \A x : Belongs(c, x) <=> Belongs(g, x)
  BY RoomedIs
<1>2. State(r) /\ g.room \in Nat
  BY DEF Made, State, Shape
<1>3. /\ State(h) /\ h.room = g.room
      /\ h.ip = r.ip /\ h.torn = r.torn /\ h.cur = r.cur
      /\ \A x : Fn(h, x) = Fn(r, x) /\ (Held(h, x) <=> Held(r, x))
      /\ \A x : Belongs(h, x) <=> Belongs(r, x)
  BY <1>2, RoomedIs
<1>4. \A x : (Bodied(c, x) <=> Bodied(g, x)) /\ (Bodied(h, x) <=> Bodied(r, x))
  BY <1>1, <1>3 DEF Bodied
<1>5. Made(c, n, r)
  OBVIOUS
<1> HIDE DEF c, h
<1>6. Made(g, n, h)
  <2>1. \A x : Apart(g, n, x) <=> Apart(c, n, x)
    BY <1>1, <1>4 DEF Apart
  <2> QED BY <1>1, <1>3, <1>4, <1>5, <2>1 DEF Made
<1> QED BY <1>6 DEF h

LEMMA MadeByTree ==
  ASSUME GenRecursion, NEW g, Good(g), g.room = MaxCalls, g.torn = {},
         NEW n, Tree(n), n.kind \notin {"Prototype", "Function"}
  PROVE  Made(g, n, codegen(n, g))
<1> DEFINE h == codegen(n, g)
<1>1. Good(h) /\ Touches(g, h)
  BY codegenOfTree DEF Delivers
<1> HIDE DEF h
<1>2. ASSUME NEW id, Apart(g, n, id) PROVE Fn(h, id) = Fn(g, id)
  <2>1. Held(g, id) /\ (Bodied(g, id) \/ id[1] # g.cur) /\ id # g.ip
    BY <1>2 DEF Apart
  <2>2. id \notin h.torn
    BY <1>1, <2>1 DEF Touches, Tears
  <2> QED BY <1>1, <2>1, <2>2 DEF Touches, Keeps
<1>3. ASSUME NEW id, Bodied(h, id), ~Bodied(g, id), id \notin h.torn PROVE FALSE
  <2>1. CASE Held(g, id)
    <3>1. id # g.ip
      BY <1>3, <2>1, BodiedBody DEF Good, Belongs, Bodied, Held, NoFunction, IsId
    <3>2. Fn(h, id) = Fn(g, id)
      BY <1>1, <1>3, <2>1, <3>1 DEF Touches, Keeps
    <3> QED BY <1>3, <2>1, <3>2 DEF Bodied
  <2>2. CASE ~Held(g, id)
    BY <1>1, <1>3, <2>2 DEF Touches, Adds, Bodied
  <2> QED BY <2>1, <2>2
<1>4. \A id : Held(h, id) /\ ~Held(g, id) => id[1] = g.cur
  BY <1>1 DEF Touches, Adds
<1>5. \A id : Held(g, id) => Held(h, id)
  BY <1>1 DEF Touches, Keeps
<1>6. State(h) /\ h.cur = g.cur /\ h.room = g.room /\ Belongs(h, h.ip)
  BY <1>1 DEF Good, Touches
<1>7. \A id : Bodied(g, id) => Bodied(h, id)
  BY <1>1, BodiedOn
<1>8. Made(g, n, h)
  BY <1>2, <1>3, <1>4, <1>5, <1>6, <1>7 DEF Made
<1> QED BY <1>8 DEF h

(* The function that a definition is about, once it is entered. *)
LEMMA MadeByBody ==
  ASSUME NEW g, State(g), g.torn = {}, NEW p, NEW id, id[1] = g.cur,
         Held(g, id), Empty(Fn(g, id)), ~Nested(g), NEW n,
         NEW h, Delivers(EnterFunction(p, id, g), h)
  PROVE  Made(g, n, h)
<1> DEFINE e == EnterFunction(p, id, g)
<1>1. /\ Good(e) /\ Owning(e)
      /\ e.ip = id /\ e.cur = g.cur /\ e.room = g.room
      /\ e.torn = {}
      /\ \A x : Held(e, x) <=> Held(g, x)
      /\ \A x : Held(g, x) /\ x # id => Fn(e, x) = Fn(g, x)
      /\ Bodied(e, id)
  BY EnterFunctionIs
<1>2. Good(h) /\ Touches(e, h) /\ (id \notin h.torn => Owning(h))
  BY <1>1 DEF Delivers
<1> HIDE DEF e
<1>3. ASSUME NEW x, Apart(g, n, x) PROVE Fn(h, x) = Fn(g, x)
  <2>0. Held(g, x) /\ (Bodied(g, x) \/ x[1] # g.cur)
    BY <1>3 DEF Apart
  <2>1. x # id
    BY <2>0 DEF Bodied
  <2>2. Fn(e, x) = Fn(g, x) /\ Held(e, x) /\ (Bodied(e, x) \/ x[1] # e.cur)
    BY <1>1, <2>0, <2>1 DEF Bodied
  <2>3. x \notin h.torn
    BY <1>1, <1>2, <2>1, <2>2 DEF Touches, Tears
  <2> QED BY <1>1, <1>2, <2>1, <2>2, <2>3 DEF Touches, Keeps
<1>4. ASSUME NEW x, Bodied(h, x), ~Bodied(g, x), x \notin h.torn
      PROVE  Own(Fn(h, x).body, x)
  <2>1. CASE x = id
    <3>1. h.ip = id /\ id # NoFunction
      BY <1>1, <1>2, <1>4, <2>1, BodiedBody DEF Touches, Good
    <3> QED BY <1>2, <1>4, <2>1, <3>1 DEF Owning
  <2>2. CASE x # id /\ Held(g, x)
    <3>1. Fn(h, x) = Fn(e, x)
      BY <1>1, <1>2, <1>4, <2>2 DEF Touches, Keeps
    <3> QED BY <1>1, <1>4, <2>2, <3>1 DEF Bodied
  <2>3. CASE ~Held(g, x)
    BY <1>1, <1>2, <1>4, <2>3 DEF Touches, Adds, Bodied
  <2> QED BY <2>1, <2>2, <2>3
<1>5. \A x : Held(h, x) /\ ~Held(g, x) => x[1] = g.cur
  BY <1>1, <1>2 DEF Touches, Adds
<1>6. \A x : Held(g, x) => Held(h, x)
  BY <1>1, <1>2 DEF Touches, Keeps
<1>7. State(h) /\ h.cur = g.cur /\ h.room = g.room /\ Belongs(h, h.ip)
  BY <1>1, <1>2 DEF Good, Touches
<1>8. ASSUME NEW x, Bodied(g, x) PROVE Bodied(h, x)
  <2>1. Bodied(e, x)
    BY <1>1, <1>8 DEF Bodied
  <2> QED BY <1>2, <2>1, BodiedOn
<1> QED BY <1>3, <1>4, <1>5, <1>6, <1>7, <1>8 DEF Made

LEMMA MadeByDefinition ==
  ASSUME NEW k, Called(k), NEW g, State(g), g.room = k, g.torn = {}, ~Nested(g),
         NEW p, NEW nodes, Trees(nodes), NEW n
  PROVE  Made(g, n, FunctionOfTree(p, nodes, g))
<1> DEFINE r == Register(p, g)
           id == <<g.cur, p.name>>
           e == EnterFunction(p, id, r)
           b == FunctionBody(nodes, e)
           h == FinishFunction(p, nodes, id, b)
<1>1. State(r) /\ Notes(g, r) /\ Held(r, <<g.cur, p.name>>)
  BY RegisterNotes
<1> HIDE DEF r
<1>2. Made(g, n, r)
  BY <1>1, MadeNotes
<1>3. r.cur = g.cur /\ r.room = k /\ r.torn = {} /\ ~Nested(r) /\ r.fault = g.fault
  BY <1>1 DEF Notes, Nested
<1>4. Made(g, n, Nothing(r)) /\ Made(g, n, Die(r, "undefined"))
  <2>1. Quiet(r, Nothing(r)) /\ Quiet(r, Die(r, "undefined"))
    BY <1>1, Quiets DEF GenFaults
  <2> QED BY <1>2, <2>1, MadeQuiet
<1>5. ASSUME Empty(Fn(r, id)) PROVE Made(g, n, h)
  <2>1. Good(e) /\ e.ip = id /\ e.room = k
    BY <1>1, <1>3, <1>5, EnterFunctionIs
  <2>2. e.ip # NoFunction
    BY <2>1 DEF NoFunction
  <2>3. Delivers(e, b)
    BY <2>1, FunctionBodyDelivers
  <2> HIDE DEF b
  <2>4. Delivers(e, h)
    BY <2>1, <2>2, <2>3, FinishFunctionDelivers
  <2> HIDE DEF h
  <2>5. Made(r, n, h)
    BY <1>1, <1>3, <1>5, <2>4, MadeByBody
  <2>6. /\ \A x : Held(g, x) => Held(r, x) /\ Fn(r, x) = Fn(g, x)
        /\ \A x : Held(r, x) /\ ~Held(g, x) => x[1] = g.cur /\ Empty(Fn(r, x))
        /\ r.ip = g.ip
        /\ \A x : Bodied(r, x) <=> Bodied(g, x)
        /\ \A x : Belongs(r, x) <=> Belongs(g, x)
    BY <1>1, NotesKeep DEF Notes
  <2>7. /\ \A x : Held(g, x) => Held(h, x)
        /\ \A x : Held(h, x) /\ ~Held(g, x) => x[1] = g.cur
    BY <1>3, <2>5, <2>6 DEF Made
  <2>8. ASSUME NEW x, Apart(g, n, x) PROVE Fn(h, x) = Fn(g, x)
    <3>1. Held(g, x) /\ Apart(r, n, x)
      BY <1>3, <2>6, <2>8 DEF Apart
    <3> QED BY <2>5, <2>6, <3>1 DEF Made
  <2>9. /\ State(h) /\ h.cur = g.cur /\ h.room = g.room
        /\ Belongs(g, g.ip) => Belongs(h, h.ip)
    BY <1>3, <2>5, <2>6 DEF Made
  <2>10. \A x : Bodied(h, x) /\ ~Bodied(g, x) /\ x \notin h.torn
                  => Own(Fn(h, x).body, x)
    BY <2>5, <2>6 DEF Made
  <2>11. \A x : Bodied(g, x) => Bodied(h, x)
    BY <2>5, <2>6 DEF Made
  <2> QED BY <2>7, <2>8, <2>9, <2>10, <2>11 DEF Made
<1>6. Made(g, n, DefineFunction(p, nodes, id, r))
  BY <1>4, <1>5 DEF DefineFunction
<1> QED BY <1>6 DEF FunctionOfTree, r

LEMMA codegenMakes ==
  ASSUME GenRecursion, NEW g, State(g), g.room = MaxCalls, g.torn = {},
         NEW n, Tree(n), n.kind = "Function" \/ Belongs(g, g.ip)
  PROVE  Made(g, n, codegen(n, g))
<1> DEFINE c == Roomed(g, g.room - 1)
           r == NodeAST(n, c)
<1>1. DOMAIN g = GenFields /\ g.room \in Nat
  BY DEF State, Shape
<1>2. codegen(n, g) = GenDispatch("codegen", n, g)
  BY <1>1 DEF codegen, GenRecursion
<1>3. Notes(g, g)
  BY DEF Notes
<1>4. Made(g, n, g)
  BY <1>3, MadeNotes
<1>5. CASE n.kind \notin {"Prototype", "Function"}
  BY <1>5, MadeByTree DEF Good
<1>6. CASE n.kind \in {"Prototype", "Function"} /\ g.fault # "none"
  BY <1>2, <1>4, <1>6 DEF GenDispatch
<1>7. CASE n.kind \in {"Prototype", "Function"} /\ g.fault = "none" /\ g.room = 0
  <2>1. Quiet(g, Die(g, "stack"))
    BY Quiets DEF GenFaults
  <2>2. Made(g, n, Die(g, "stack"))
    BY <1>4, <2>1, MadeQuiet
  <2> QED BY <1>2, <1>7, <2>2 DEF GenDispatch
<1>8. CASE n.kind \in {"Prototype", "Function"} /\ g.fault = "none" /\ g.room # 0
  <2>1. [g EXCEPT !.room = @ - 1] = c
    BY <1>1 DEF Roomed, GenFields
  <2>2. codegen(n, g) = Roomed(r, g.room)
    BY <1>2, <1>8, <2>1 DEF GenDispatch, GenMethod, Roomed
  <2>3. g.room - 1 \in Nat /\ g.room - 1 < MaxCalls
    BY <1>1, <1>8
  <2>4. State(c) /\ c.room = g.room - 1 /\ c.torn = {} /\ ~Nested(c)
    <3>1. State(c) /\ c.room = g.room - 1 /\ c.torn = {}
      BY <2>3, RoomedIs
    <3> QED BY <2>3, <3>1 DEF Nested
  <2> HIDE DEF c
  <2>5. CASE n.kind = "Prototype"
    <3>1. r = PrototypeAST(n, c)
      BY <2>5 DEF NodeAST
    <3>2. "isExtern" \in n.flags
      BY <2>5, TreeKids
    <3>3. State(r) /\ Notes(c, r)
      BY <2>4, <3>1, <3>2, PrototypeASTNotes
    <3>4. Made(c, n, r)
      BY <3>3, MadeNotes
    <3> HIDE DEF r
    <3>5. Made(g, n, Roomed(r, g.room))
      BY <2>3, <3>4, MadeRoomed DEF c
    <3> QED BY <2>2, <3>5
  <2>6. CASE n.kind = "Function"
    <3>1. r = FunctionOfTree(n.kids[1], n.kids[2].kids, c)
      BY <2>6 DEF NodeAST, FunctionAST
    <3>2. Trees(n.kids[2].kids)
      BY <2>6, TreeKids
    <3>3. Called(c.room)
      BY <2>3, <2>4, AllDeliver
    <3>4. Made(c, n, r)
      BY <2>4, <3>1, <3>2, <3>3, MadeByDefinition
    <3> HIDE DEF r
    <3>5. Made(g, n, Roomed(r, g.room))
      BY <2>3, <3>4, MadeRoomed DEF c
    <3> QED BY <2>2, <3>5
  <2> QED BY <1>8, <2>5, <2>6
<1> QED BY <1>5, <1>6, <1>7, <1>8

-----------------------------------------------------------------------------
(***************************************************************************)
(* The parser makes trees.                                                 *)
(***************************************************************************)
ParseFields == {"lex", "flag", "errs", "node", "fault", "garbage", "room", "orderly",
                "oob", "refused", "empty"}
ParseMethods == {"parseIdentifier", "CallArguments", "parseCast", "parseParen",
                 "parsePrimary", "parseBinOpRHS", "parseExpression", "parseArguments",
                 "parsePrototype", "parseFunction", "parseStatementsUntillCurly",
                 "parseIfStatement", "parseForStatement", "parseDeclaration",
                 "parseStatement", "handleExpression"}

Ready(s) == DOMAIN s = ParseFields
Sprout(node) == node = Null \/ Tree(node)
Sprouts(node) == node = Null \/ Trees(node.kids)

(* Where a method goes on after null, it stays null. *)
Goes(s, r) == Ready(r) /\ r.room = s.room /\ (IsNull(s) => IsNull(r))
Passes(s, r) == Goes(s, r) /\ r.node \in {Null, s.node}

Yields(m, node) ==
  IF m = "parseArguments" THEN TRUE
  ELSE IF m \in {"CallArguments", "parseStatementsUntillCurly"} THEN Sprouts(node)
  ELSE IF m = "parseFunction" THEN node = Null \/ (Tree(node) /\ node.kind = "Function")
  ELSE Sprout(node)
CallYields(k) ==
  \A m \in ParseMethods : \A s, x :
    Ready(s) /\ s.room = k /\ (m = "parseBinOpRHS" => Sprout(s.node))
      => Goes(s, Call(m, s, x)) /\ Yields(m, Call(m, s, x).node)

LEMMA GoesAll ==
  ASSUME NEW s, NEW r, NEW t, Goes(s, r), Goes(r, t)
  PROVE  Goes(s, t)
BY DEF Goes

LEMMA PassesGoes ==
  ASSUME NEW s, NEW r, NEW t, Goes(s, r), Passes(r, t)
  PROVE  Goes(s, t) /\ t.node \in {Null, r.node}
BY GoesAll DEF Passes

LEMMA RaisePasses ==
  ASSUME NEW s, Ready(s), NEW fault
  PROVE  Passes(s, Raise(s, fault)) /\ IsNull(Raise(s, fault))
BY DEF Raise, Ready, ParseFields, Passes, Goes, IsNull

LEMMA SamePasses ==
  ASSUME NEW s, Ready(s)
  PROVE  Passes(s, s)
BY DEF Passes, Goes

LEMMA LexedPasses ==
  ASSUME NEW s, Ready(s), NEW l
  PROVE  Passes(s, Lexed(s, l))
<1> DEFINE t == [s EXCEPT !.lex = l]
<1>1. Ready(t) /\ t.room = s.room /\ t.node = s.node
  BY DEF Ready, ParseFields
<1> HIDE DEF t
<1>2. Passes(s, t)
  BY <1>1 DEF Passes, Goes, IsNull
<1>3. Passes(s, Raise(t, "throw"))
  BY <1>1, RaisePasses DEF Passes, Goes, IsNull
<1> QED BY <1>2, <1>3 DEF Lexed, t

LEMMA EatPasses ==
  ASSUME NEW s, Ready(s)
  PROVE  Passes(s, EatAnyway(s)) /\ Passes(s, Eat(s)) /\ Passes(s, EatStar(s))
<1>1. Passes(s, EatAnyway(s))
  BY SamePasses, LexedPasses DEF EatAnyway
<1>2. Passes(s, Eat(s))
  BY <1>1, SamePasses DEF Eat
<1> QED BY <1>1, <1>2, SamePasses DEF EatStar

LEMMA FailPasses ==
  ASSUME NEW s, Ready(s), NEW code
  PROVE  /\ Passes(s, Log(s, code))
         /\ Passes(s, Fail(s, code)) /\ IsNull(Fail(s, code))
         /\ Passes(s, Blame(s, code))
<1>1. ASSUME NEW t, Ready(t)
      PROVE  /\ Ready(Log(t, code)) /\ Log(t, code).node = t.node
             /\ Log(t, code).room = t.room
  BY <1>1 DEF Log, Ready, ParseFields
<1>2. Passes(s, Log(s, code))
  BY <1>1 DEF Passes, Goes, IsNull
<1> DEFINE t == [s EXCEPT !.node = Null]
<1>3. Ready(t) /\ t.room = s.room /\ t.node = Null
  BY DEF Ready, ParseFields
<1> HIDE DEF t
<1>4. Passes(s, Fail(s, code)) /\ IsNull(Fail(s, code))
  <2>1. CASE IsNull(s)
    BY <2>1, SamePasses DEF Fail
  <2>2. CASE ~IsNull(s)
    <3>1. Fail(s, code) = Log(t, code)
      BY <2>2 DEF Fail, t
    <3> QED BY <1>1, <1>3, <3>1 DEF Passes, Goes, IsNull
  <2> QED BY <2>1, <2>2
<1>5. Passes(s, Blame(s, code))
  BY <1>2, SamePasses DEF Blame
<1> QED BY <1>2, <1>4, <1>5

LEMMA ExpectPasses ==
  ASSUME NEW s, Ready(s), NEW tok, NEW code
  PROVE  Passes(s, Expect(s, tok, code))
BY EatPasses, FailPasses DEF Expect

LEMMA GiveGoes ==
  ASSUME NEW s, Ready(s), NEW node
  PROVE  /\ Goes(s, Give(s, node))
         /\ IsNull(s) => Give(s, node).node = Null
         /\ ~IsNull(s) => Give(s, node).node = node
<1> DEFINE t == [s EXCEPT !.node = node]
<1>1. Ready(t) /\ t.room = s.room /\ t.node = node
  BY DEF Ready, ParseFields
<1> HIDE DEF t
<1> QED BY <1>1 DEF Give, t, Goes, IsNull

LEMMA AheadPasses ==
  ASSUME NEW s, Ready(s), NEW n
  PROVE  Passes(s, Ahead(s, n))
<1> DEFINE a == lookAhead(s.lex, n)
           t == [s EXCEPT !.orderly = @ /\ Len(s.lex.buf) <= n,
                          !.oob = @ \/ (~a.ok /\ ~a.lex.thrown)]
           u == [t EXCEPT !.lex = a.lex]
<1>1. Ready(t) /\ t.room = s.room /\ t.node = s.node
  BY DEF Ready, ParseFields
<1> HIDE DEF a, t
<1>2. Ready(u) /\ u.room = s.room /\ u.node = s.node
  BY <1>1 DEF Ready, ParseFields
<1> HIDE DEF u
<1>3. Passes(s, Raise(u, "segv"))
  BY <1>2, RaisePasses DEF Passes, Goes, IsNull
<1>4. Passes(s, Lexed(t, a.lex))
  BY <1>1, LexedPasses DEF Passes, Goes, IsNull
<1>5. Passes(s, Looked(s, n, a))
  BY <1>3, <1>4 DEF Looked, t, u
<1> QED BY <1>5, SamePasses DEF Ahead, a

LEMMA DereferencedPasses ==
  ASSUME NEW e, Ready(e)
  PROVE  Passes(e, Dereferenced(e))
BY RaisePasses, SamePasses DEF Dereferenced

(* The trees the methods build. *)
LEMMA NodeIs ==
  ASSUME NEW kind, NEW name, NEW type, NEW kids, NEW flags
  PROVE  LET n == Node(kind, name, type, kids, flags)
         IN  /\ DOMAIN n = NodeFields /\ n.kind = kind /\ n.name = name /\ n.type = type
             /\ n.kids = kids /\ n.flags = flags
BY DEF Node, NodeFields

LEMMA BlockKids ==
  ASSUME NEW nodes
  PROVE  Block(nodes).kids = nodes
BY DEF Block, Node

(* Nodes without children, of one, of two, and of a list. *)
LEMMA LeafTree ==
  ASSUME NEW kind \in {"Number", "Dereference", "Variable"}, NEW name, NEW type,
         NEW flags, "isDefinition" \notin flags
  PROVE  Tree(Node(kind, name, type, <<>>, flags))
<1> DEFINE n == Node(kind, name, type, <<>>, flags)
<1>1. DOMAIN n = NodeFields /\ n.kind = kind /\ n.kids = <<>> /\ n.flags = flags
  BY NodeIs
<1> HIDE DEF n
<1>2. IsTree(n, {}) /\ Forest({})
  BY <1>1 DEF IsTree, NodeKinds, Forest
<1>3. Tree(n)
  BY <1>2, ForestMore
<1> QED BY <1>3 DEF n

LEMMA UnaryTree ==
  ASSUME NEW kind \in {"Variable", "Cast", "ToPointer"}, NEW name, NEW type,
         NEW m, Tree(m), NEW flags
  PROVE  Tree(Node(kind, name, type, <<m>>, flags))
<1> DEFINE n == Node(kind, name, type, <<m>>, flags)
<1>1. DOMAIN n = NodeFields /\ n.kind = kind /\ n.kids = <<m>>
  BY NodeIs
<1> HIDE DEF n
<1>2. PICK S : Forest(S) /\ m \in S
  BY DEF Tree
<1>3. IsTree(n, S)
  BY <1>1, <1>2 DEF IsTree, NodeKinds
<1>4. Tree(n)
  BY <1>2, <1>3, ForestMore
<1> QED BY <1>4 DEF n

LEMMA AssignedTree ==
  ASSUME NEW l, Tree(l), l.kind = "Variable", NEW m, Tree(m)
  PROVE  Tree([l EXCEPT !.kids = <<m>>])
<1> DEFINE n == [l EXCEPT !.kids = <<m>>]
<1>1. DOMAIN l = NodeFields
  BY TreeKids
<1>2. DOMAIN n = NodeFields /\ n.kind = "Variable" /\ n.kids = <<m>>
  BY <1>1 DEF NodeFields
<1> HIDE DEF n
<1>3. PICK S : Forest(S) /\ m \in S
  BY DEF Tree
<1>4. IsTree(n, S)
  BY <1>2, <1>3 DEF IsTree, NodeKinds
<1>5. Tree(n)
  BY <1>3, <1>4, ForestMore
<1> QED BY <1>5 DEF n

LEMMA BinaryTree ==
  ASSUME NEW name, NEW l, Tree(l), NEW r, Tree(r)
  PROVE  Tree(Node("Binary", name, NoText, <<l, r>>, {}))
<1> DEFINE n == Node("Binary", name, NoText, <<l, r>>, {})
<1>1. DOMAIN n = NodeFields /\ n.kind = "Binary" /\ n.kids = <<l, r>>
  BY NodeIs
<1> HIDE DEF n
<1>2. PICK S : Forest(S) /\ l \in S
  BY DEF Tree
<1>3. PICK U : Forest(U) /\ r \in U
  BY DEF Tree
<1>4. Forest(S \cup U)
  BY <1>2, <1>3, ForestBoth
<1>5. IsTree(n, S \cup U)
  BY <1>1, <1>2, <1>3 DEF IsTree, NodeKinds
<1>6. Tree(n)
  BY <1>4, <1>5, ForestMore
<1> QED BY <1>6 DEF n

LEMMA ListTree ==
  ASSUME NEW name, NEW nodes, Trees(nodes), NEW p, NEW block, Trees(block.kids)
  PROVE  /\ Tree(Node("Call", name, NoText, nodes, {}))
         /\ Tree(Node("Function", NoText, NoText, <<p, block>>, {}))
<1> DEFINE c == Node("Call", name, NoText, nodes, {})
           f == Node("Function", NoText, NoText, <<p, block>>, {})
<1>1. /\ DOMAIN c = NodeFields /\ c.kind = "Call" /\ c.kids = nodes
      /\ DOMAIN f = NodeFields /\ f.kind = "Function" /\ f.kids = <<p, block>>
  BY NodeIs
<1> HIDE DEF c, f
<1>2. PICK S : Forest(S) /\ nodes \in Seq(S)
  BY DEF Trees
<1>3. PICK U : Forest(U) /\ block.kids \in Seq(U)
  BY DEF Trees
<1>4. IsTree(c, S) /\ IsTree(f, U)
  BY <1>1, <1>2, <1>3 DEF IsTree, NodeKinds
<1>5. Tree(c) /\ Tree(f)
  BY <1>2, <1>3, <1>4, ForestMore
<1> QED BY <1>5 DEF c, f

LEMMA PrototypeTree ==
  ASSUME NEW name, NEW type, NEW kids, NEW flags, "isExtern" \in flags
  PROVE  Tree(Node("Prototype", name, type, kids, flags))
<1> DEFINE n == Node("Prototype", name, type, kids, flags)
<1>1. DOMAIN n = NodeFields /\ n.kind = "Prototype" /\ n.flags = flags
  BY NodeIs
<1> HIDE DEF n
<1>2. IsTree(n, {}) /\ Forest({})
  BY <1>1 DEF IsTree, NodeKinds, Forest
<1>3. Tree(n)
  BY <1>2, ForestMore
<1> QED BY <1>3 DEF n

LEMMA IfTree ==
  ASSUME NEW c, Tree(c), NEW t, Trees(t.kids), NEW e, Trees(e.kids)
  PROVE  Tree(Node("If", NoText, NoText, <<c, t, e>>, {}))
<1> DEFINE n == Node("If", NoText, NoText, <<c, t, e>>, {})
<1>1. DOMAIN n = NodeFields /\ n.kind = "If" /\ n.kids = <<c, t, e>>
  BY NodeIs
<1> HIDE DEF n
<1>2. PICK S : Forest(S) /\ c \in S
  BY DEF Tree
<1>3. PICK U : Forest(U) /\ t.kids \in Seq(U)
  BY DEF Trees
<1>4. PICK V : Forest(V) /\ e.kids \in Seq(V)
  BY DEF Trees
<1> DEFINE W == S \cup (U \cup V)
<1>5. Forest(W)
  BY <1>2, <1>3, <1>4, ForestBoth
<1>6. c \in W /\ t.kids \in Seq(W) /\ e.kids \in Seq(W)
  BY <1>2, <1>3, <1>4
<1> HIDE DEF W
<1>7. IsTree(n, W)
  BY <1>1, <1>6 DEF IsTree, NodeKinds
<1>8. Tree(n)
  BY <1>5, <1>7, ForestMore
<1> QED BY <1>8 DEF n

LEMMA ForTree ==
  ASSUME NEW i, Tree(i), NEW c, Tree(c), NEW a, Tree(a), NEW b, Trees(b.kids)
  PROVE  Tree(Node("For", NoText, NoText, <<i, c, a, b>>, {}))
<1> DEFINE n == Node("For", NoText, NoText, <<i, c, a, b>>, {})
<1>1. DOMAIN n = NodeFields /\ n.kind = "For" /\ n.kids = <<i, c, a, b>>
  BY NodeIs
<1> HIDE DEF n
<1>2. PICK S : Forest(S) /\ i \in S
  BY DEF Tree
<1>3. PICK U : Forest(U) /\ c \in U
  BY DEF Tree
<1>4. PICK V : Forest(V) /\ a \in V
  BY DEF Tree
<1>5. PICK X : Forest(X) /\ b.kids \in Seq(X)
  BY DEF Trees
<1> DEFINE W == (S \cup U) \cup (V \cup X)
<1>6. Forest(W)
  BY <1>2, <1>3, <1>4, <1>5, ForestBoth
<1>7. i \in W /\ c \in W /\ a \in W /\ b.kids \in Seq(W)
  BY <1>2, <1>3, <1>4, <1>5
<1> HIDE DEF W
<1>8. IsTree(n, W)
  BY <1>1, <1>7 DEF IsTree, NodeKinds
<1>9. Tree(n)
  BY <1>6, <1>8, ForestMore
<1> QED BY <1>9 DEF n

(* Calls in the course of a method that began at s. *)
LEMMA CallGoes ==
  ASSUME NEW k, CallYields(k), NEW s, s.room = k, NEW r, Goes(s, r),
         NEW m \in ParseMethods, NEW x, m = "parseBinOpRHS" => Sprout(r.node)
  PROVE  /\ Goes(s, Call(m, r, x)) /\ Goes(r, Call(m, r, x))
         /\ Yields(m, Call(m, r, x).node)
<1>1. Ready(r) /\ r.room = k
  BY DEF Goes
<1>2. Goes(r, Call(m, r, x)) /\ Yields(m, Call(m, r, x).node)
  BY <1>1 DEF CallYields
<1> QED BY <1>2, GoesAll

(* Those that yield a tree. *)
Sprouting == {"parseIdentifier", "parseCast", "parseParen", "parsePrimary",
              "parseExpression", "parsePrototype", "parseIfStatement",
              "parseForStatement", "parseDeclaration", "parseStatement", "handleExpression"}
LEMMA ParsedGoes ==
  ASSUME NEW k, CallYields(k), NEW s, s.room = k, NEW r, Goes(s, r)
  PROVE  /\ \A m \in Sprouting : /\ Goes(s, Parsed(m, r)) /\ Goes(r, Parsed(m, r))
                                 /\ Sprout(Parsed(m, r).node)
         /\ Goes(s, Parsed("parseFunction", r))
         /\ Sprout(Parsed("parseFunction", r).node)
         /\ Goes(s, Parsed("CallArguments", r)) /\ Goes(r, Parsed("CallArguments", r))
         /\ Sprouts(Parsed("CallArguments", r).node)
         /\ Goes(s, Parsed("parseArguments", r))
<1>1. \A m \in Sprouting : m \in ParseMethods /\ m # "parseBinOpRHS"
                           /\ m \notin {"parseArguments", "CallArguments", "parseFunction",
                                        "parseStatementsUntillCurly"}
  BY DEF Sprouting, ParseMethods
<1>2. \A m \in Sprouting : /\ Goes(s, Parsed(m, r)) /\ Goes(r, Parsed(m, r))
                           /\ Yields(m, Parsed(m, r).node)
  BY <1>1, CallGoes DEF Parsed
<1>3. \A m \in Sprouting : Sprout(Parsed(m, r).node)
  BY <1>1, <1>2 DEF Yields
<1>4. \A m \in {"parseFunction", "CallArguments", "parseArguments"} :
        m \in ParseMethods /\ m # "parseBinOpRHS"
  BY DEF ParseMethods
<1>5. \A m \in {"parseFunction", "CallArguments", "parseArguments"} :
        /\ Goes(s, Parsed(m, r)) /\ Goes(r, Parsed(m, r))
        /\ Yields(m, Parsed(m, r).node)
  BY <1>4, CallGoes DEF Parsed
<1> QED BY <1>2, <1>3, <1>5 DEF Yields, Sprout

LEMMA SproutPasses ==
  ASSUME NEW r, Sprout(r.node), NEW t, Passes(r, t)
  PROVE  Sprout(t.node)
BY DEF Sprout, Passes

(* The result of an expression after what its caller logs. *)
LEMMA BlamedGoes ==
  ASSUME NEW k, CallYields(k), NEW s, s.room = k, NEW r, Goes(s, r),
         NEW m \in {"parseExpression", "parseStatement"}, NEW code
  PROVE  LET a == Blame(Parsed(m, r), code)
         IN  Goes(s, a) /\ Goes(r, a) /\ Sprout(a.node) /\ Ready(a)
<1> DEFINE p == Parsed(m, r)
<1>1. Goes(s, p) /\ Goes(r, p) /\ Sprout(p.node)
  BY ParsedGoes DEF Sprouting
<1> HIDE DEF p
<1>2. Passes(p, Blame(p, code))
  BY <1>1, FailPasses DEF Goes
<1> QED BY <1>1, <1>2, PassesGoes, SproutPasses DEF Goes, p

LEMMA GivenSprout ==
  ASSUME NEW s, NEW r, Goes(s, r), NEW node, ~IsNull(r) => Tree(node)
  PROVE  Goes(s, Give(r, node)) /\ Sprout(Give(r, node).node)
<1>1. /\ Goes(r, Give(r, node))
      /\ IsNull(r) => Give(r, node).node = Null
      /\ ~IsNull(r) => Give(r, node).node = node
  BY GiveGoes DEF Goes
<1> QED BY <1>1, GoesAll DEF Sprout

LEMMA GivenSprouts ==
  ASSUME NEW s, NEW r, Goes(s, r), NEW nodes, ~IsNull(r) => Trees(nodes)
  PROVE  Goes(s, Give(r, Block(nodes))) /\ Sprouts(Give(r, Block(nodes)).node)
<1>1. /\ Goes(r, Give(r, Block(nodes)))
      /\ IsNull(r) => Give(r, Block(nodes)).node = Null
      /\ ~IsNull(r) => Give(r, Block(nodes)).node = Block(nodes)
  BY GiveGoes DEF Goes
<1> QED BY <1>1, GoesAll, BlockKids DEF Sprouts

LEMMA FailedSprout ==
  ASSUME NEW s, NEW r, Goes(s, r), NEW code
  PROVE  /\ Goes(s, Fail(r, code)) /\ Fail(r, code).node = Null
         /\ Sprout(Fail(r, code).node) /\ Sprouts(Fail(r, code).node)
<1>1. Passes(r, Fail(r, code)) /\ IsNull(Fail(r, code))
  BY FailPasses DEF Goes
<1> QED BY <1>1, PassesGoes DEF IsNull, Sprout, Sprouts

LEMMA EatGoes ==
  ASSUME NEW s, NEW r, Goes(s, r)
  PROVE  /\ Goes(s, Eat(r)) /\ Goes(r, Eat(r)) /\ Eat(r).node \in {Null, r.node}
         /\ Goes(s, EatStar(r)) /\ EatStar(r).node \in {Null, r.node}
         /\ Goes(s, EatAnyway(r)) /\ EatAnyway(r).node \in {Null, r.node}
<1>1. Ready(r)
  BY DEF Goes
<1> QED BY <1>1, EatPasses, PassesGoes DEF Passes

LEMMA ExpectGoes ==
  ASSUME NEW s, NEW r, Goes(s, r), NEW tok, NEW code
  PROVE  Goes(s, Expect(r, tok, code)) /\ Goes(r, Expect(r, tok, code))
<1>1. Ready(r)
  BY DEF Goes
<1> QED BY <1>1, ExpectPasses, PassesGoes DEF Passes

LEMMA GoesAgain ==
  ASSUME NEW s, Ready(s)
  PROVE  Goes(s, s)
BY DEF Goes

LEMMA parseNumberYields ==
  ASSUME NEW s, Ready(s)
  PROVE  /\ Goes(s, parseNumber(s)) /\ Sprout(parseNumber(s).node)
         /\ Goes(s, parseNullptr(s)) /\ Sprout(parseNullptr(s).node)
<1>1. Goes(s, Eat(s))
  BY GoesAgain, EatGoes
<1>2. Tree(Node("Number", s.lex.cur.value, NoText, <<>>, {}))
  BY LeafTree
<1>3. Tree(Node("Number", "0", "tok_int", <<>>, {"isPointer", "isNull"}))
  BY LeafTree
<1> QED BY <1>1, <1>2, <1>3, GivenSprout DEF parseNumber, parseNullptr

LEMMA CallArgumentsYields ==
  ASSUME NEW k, CallYields(k), NEW s, Ready(s), s.room = k
  PROVE  Goes(s, CallArguments(s)) /\ Sprouts(CallArguments(s).node)
<1> DEFINE a == Blame(Parsed("parseExpression", s), "MISSING_ARG_IN_FUNC_CALL")
           e == Eat(a)
           rest == Parsed("CallArguments", e)
<1>1. Goes(s, a) /\ Sprout(a.node)
  BY GoesAgain, BlamedGoes
<1> HIDE DEF a
<1>2. Goes(s, e) /\ Goes(a, e)
  BY <1>1, EatGoes
<1> HIDE DEF e
<1>3. Goes(s, rest) /\ Goes(e, rest) /\ Sprouts(rest.node)
  BY <1>2, ParsedGoes
<1> HIDE DEF rest
<1>4. ~IsNull(e) => Trees(<<a.node>>)
  <2>1. ~IsNull(e) => Tree(a.node)
    BY <1>1, <1>2 DEF Goes, Sprout, IsNull
  <2>2. <<a.node>> \o <<>> = <<a.node>>
    OBVIOUS
  <2> QED BY <2>1, <2>2, NoTrees, TreesFirst
<1>5. ~IsNull(rest) => Trees(<<a.node>> \o rest.node.kids)
  <2>1. ~IsNull(rest) => Tree(a.node) /\ Trees(rest.node.kids)
    BY <1>1, <1>2, <1>3 DEF Goes, Sprout, Sprouts, IsNull
  <2> QED BY <2>1, TreesFirst
<1>6. Goes(s, Give(e, Block(<<a.node>>))) /\ Sprouts(Give(e, Block(<<a.node>>)).node)
  BY <1>2, <1>4, GivenSprouts
<1>7. LET b == Give(rest, Block(<<a.node>> \o rest.node.kids))
      IN  Goes(s, b) /\ Sprouts(b.node)
  BY <1>3, <1>5, GivenSprouts
<1>8. LET b == Fail(a, "MISSING_OPEN_ROUND_OR_COMMA_IN_FUNC_CALL")
      IN  Goes(s, b) /\ Sprouts(b.node)
  BY <1>1, FailedSprout
<1> QED BY <1>6, <1>7, <1>8 DEF CallArguments, rest, e, a

LEMMA parseIdentifierYields ==
  ASSUME NEW k, CallYields(k), NEW s, Ready(s), s.room = k
  PROVE  Goes(s, parseIdentifier(s)) /\ Sprout(parseIdentifier(s).node)
<1> DEFINE a == Eat(s)
           b == Eat(a)
           args == IF Tok(b) = "tok_close_round" THEN Give(Eat(b), Block(<<>>))
                   ELSE Parsed("CallArguments", b)
<1>1. Goes(s, a)
  BY GoesAgain, EatGoes
<1> HIDE DEF a
<1>2. Goes(s, b)
  BY <1>1, EatGoes
<1> HIDE DEF b
<1>3. Goes(s, args) /\ Sprouts(args.node)
  <2>1. Goes(s, Eat(b))
    BY <1>2, EatGoes
  <2>2. LET e == Give(Eat(b), Block(<<>>)) IN Goes(s, e) /\ Sprouts(e.node)
    BY <2>1, NoTrees, GivenSprouts
  <2>3. LET e == Parsed("CallArguments", b) IN Goes(s, e) /\ Sprouts(e.node)
    BY <1>2, ParsedGoes
  <2> QED BY <2>2, <2>3
<1> HIDE DEF args
<1>4. Tree(Node("Variable", Ident(s), NoText, <<>>, {}))
  BY LeafTree
<1>5. LET e == Give(a, Node("Variable", Ident(s), NoText, <<>>, {}))
      IN  Goes(s, e) /\ Sprout(e.node)
  BY <1>1, <1>4, GivenSprout
<1>6. ~IsNull(args) => Tree(Node("Call", Ident(s), NoText, args.node.kids, {}))
  <2>1. ~IsNull(args) => Trees(args.node.kids)
    BY <1>3 DEF Sprouts, IsNull
  <2> QED BY <2>1, ListTree
<1>7. LET e == Give(args, Node("Call", Ident(s), NoText, args.node.kids, {}))
      IN  Goes(s, e) /\ Sprout(e.node)
  BY <1>3, <1>6, GivenSprout
<1> QED BY <1>5, <1>7 DEF parseIdentifier, args, b, a

LEMMA parseDereferenceYields ==
  ASSUME NEW s, Ready(s)
  PROVE  Goes(s, parseDereference(s)) /\ Sprout(parseDereference(s).node)
<1> DEFINE a == Eat(s)
           e == Expect(a, "tok_identifier", "EXPECTED_TOKEN")
<1>1. Goes(s, a)
  BY GoesAgain, EatGoes
<1> HIDE DEF a
<1>2. Goes(s, e)
  BY <1>1, ExpectGoes
<1> HIDE DEF e
<1>3. Tree(Node("Dereference", Ident(a), NoText, <<>>, {"isPointer"}))
  BY LeafTree
<1>4. LET d == Give(e, Node("Dereference", Ident(a), NoText, <<>>, {"isPointer"}))
      IN  Goes(s, d) /\ Sprout(d.node)
  BY <1>2, <1>3, GivenSprout
<1> QED BY <1>4 DEF parseDereference, e, a

LEMMA parseCastYields ==
  ASSUME NEW k, CallYields(k), NEW s, Ready(s), s.room = k
  PROVE  Goes(s, parseCast(s)) /\ Sprout(parseCast(s).node)
<1> DEFINE a == Eat(s)
           b == Eat(a)
           t == EatStar(b)
           c == Expect(t, "tok_close_round", "UNEXPECTED_TOKEN_IN_EXPRESSION")
           r == Blame(Parsed("parseExpression", c), "CAST_ERROR")
           n == Node("Cast", NoText, Tok(a), <<r.node>>, Pointer(b))
<1>1. Goes(s, a)
  BY GoesAgain, EatGoes
<1> HIDE DEF a
<1>2. Goes(s, b)
  BY <1>1, EatGoes
<1> HIDE DEF b
<1>3. Goes(s, t)
  BY <1>2, EatGoes
<1> HIDE DEF t
<1>4. Goes(s, c)
  BY <1>3, ExpectGoes
<1> HIDE DEF c
<1>5. Goes(s, r) /\ Sprout(r.node)
  BY <1>4, BlamedGoes
<1> HIDE DEF r
<1>6. ~IsNull(r) => Tree(n)
  BY <1>5, UnaryTree DEF Sprout, IsNull
<1> HIDE DEF n
<1>7. Goes(s, Give(r, n)) /\ Sprout(Give(r, n).node)
  BY <1>5, <1>6, GivenSprout
<1>8. IsNull(c) => Sprout(c.node)
  BY DEF Sprout, IsNull
<1>9. /\ Goes(s, Fail(a, "UNEXPECTED_TOKEN_IN_EXPRESSION"))
      /\ Sprout(Fail(a, "UNEXPECTED_TOKEN_IN_EXPRESSION").node)
      /\ Goes(s, Fail(b, "ERROR_IN_VOID_DATATYPE"))
      /\ Sprout(Fail(b, "ERROR_IN_VOID_DATATYPE").node)
  BY <1>1, <1>2, FailedSprout
<1>10. Goes(s, CastTo(a)) /\ Sprout(CastTo(a).node)
  BY <1>4, <1>7, <1>8, <1>9 DEF CastTo, n, r, c, t, b
<1> QED BY <1>10 DEF parseCast, a

LEMMA ParenthesisedGoes ==
  ASSUME NEW s, NEW e, Goes(s, e), Sprout(e.node)
  PROVE  Goes(s, Parenthesised(e)) /\ Sprout(Parenthesised(e).node)
<1> DEFINE n == [e EXCEPT !.node = Null]
           l == Log(n, "EXPECTED_TOKEN")
<1>1. Ready(e)
  BY DEF Goes
<1>2. Ready(n) /\ n.room = e.room /\ n.node = Null
  BY <1>1 DEF Ready, ParseFields
<1> HIDE DEF n
<1>3. Passes(n, l)
  BY <1>2, FailPasses
<1> HIDE DEF l
<1>4. Goes(s, l) /\ Sprout(l.node)
  BY <1>2, <1>3 DEF Passes, Goes, IsNull, Sprout
<1>5. Goes(s, EatAnyway(e)) /\ Sprout(EatAnyway(e).node)
  BY EatGoes DEF Sprout
<1> QED BY <1>4, <1>5 DEF Parenthesised, l, n

LEMMA parseParenYields ==
  ASSUME NEW k, CallYields(k), NEW s, Ready(s), s.room = k
  PROVE  Goes(s, parseParen(s)) /\ Sprout(parseParen(s).node)
<1> DEFINE a == Ahead(s, 3)
           b == Eat(a)
           e == Parsed("parseExpression", b)
<1>1. Goes(s, a)
  BY AheadPasses DEF Passes
<1> HIDE DEF a
<1>2. Goes(s, b)
  BY <1>1, EatGoes
<1> HIDE DEF b
<1>3. Goes(s, e) /\ Sprout(e.node)
  BY <1>2, ParsedGoes DEF Sprouting
<1> HIDE DEF e
<1>4. Goes(s, Parenthesised(e)) /\ Sprout(Parenthesised(e).node)
  BY <1>3, ParenthesisedGoes
<1>5. Goes(s, Parsed("parseCast", a)) /\ Sprout(Parsed("parseCast", a).node)
  BY <1>1, ParsedGoes DEF Sprouting
<1>6. IsNull(a) => Sprout(a.node)
  BY DEF Sprout, IsNull
<1> QED BY <1>1, <1>4, <1>5, <1>6 DEF parseParen, e, b, a

LEMMA parsePrimaryYields ==
  ASSUME NEW k, CallYields(k), NEW s, Ready(s), s.room = k
  PROVE  Goes(s, parsePrimary(s)) /\ Sprout(parsePrimary(s).node)
<1>1. /\ Goes(s, Parsed("parseIdentifier", s)) /\ Sprout(Parsed("parseIdentifier", s).node)
      /\ Goes(s, Parsed("parseParen", s)) /\ Sprout(Parsed("parseParen", s).node)
  BY GoesAgain, ParsedGoes DEF Sprouting
<1>2. LET f == Fail(s, "UNEXPECTED_TOKEN_IN_EXPRESSION") IN Goes(s, f) /\ Sprout(f.node)
  BY GoesAgain, FailedSprout
<1> QED BY <1>1, <1>2, parseNumberYields, parseDereferenceYields DEF parsePrimary

LEMMA parseBinOpRHSYields ==
  ASSUME NEW k, CallYields(k), NEW l, Ready(l), l.room = k, Sprout(l.node), NEW prec
  PROVE  Goes(l, parseBinOpRHS(prec, l)) /\ Sprout(parseBinOpRHS(prec, l).node)
<1> DEFINE own == getTokPrecedence(l)
           e == Eat(l)
           r == Parsed("parsePrimary", e)
           rhs == IF own < getTokPrecedence(r)
                  THEN Call("parseBinOpRHS", r, own + 1) ELSE r
           binary == Node("Binary", Ident(l), NoText, <<l.node, rhs.node>>, {})
           b == Give(rhs, binary)
<1>0. "parseBinOpRHS" \in ParseMethods
  BY DEF ParseMethods
<1>1. Goes(l, l) /\ Goes(l, e)
  BY GoesAgain, EatGoes
<1> HIDE DEF e
<1>2. Goes(l, r) /\ Sprout(r.node)
  BY <1>1, ParsedGoes DEF Sprouting
<1> HIDE DEF r
<1>3. Goes(l, rhs) /\ Sprout(rhs.node)
  <2> DEFINE c == Call("parseBinOpRHS", r, own + 1)
  <2>1. Goes(l, c) /\ Yields("parseBinOpRHS", c.node)
    BY <1>0, <1>2, CallGoes
  <2>2. Sprout(c.node)
    BY <2>1 DEF Yields
  <2> QED BY <1>2, <2>1, <2>2
<1> HIDE DEF rhs
<1>4. ~IsNull(rhs) => Tree(binary)
  <2>1. ~IsNull(rhs) => Tree(l.node) /\ Tree(rhs.node)
    BY <1>3 DEF Goes, Sprout, IsNull
  <2> QED BY <2>1, BinaryTree
<1> HIDE DEF binary
<1>5. Goes(l, b) /\ Sprout(b.node)
  BY <1>3, <1>4, GivenSprout
<1> HIDE DEF b
<1>6. LET c == Call("parseBinOpRHS", b, prec)
      IN  Goes(l, c) /\ Yields("parseBinOpRHS", c.node)
  BY <1>0, <1>5, CallGoes
<1>7. Sprout(Call("parseBinOpRHS", b, prec).node)
  BY <1>6 DEF Yields
<1> QED BY <1>1, <1>6, <1>7 DEF parseBinOpRHS, b, binary, rhs, r, e

LEMMA AssignmentYields ==
  ASSUME NEW k, CallYields(k), NEW s, s.room = k, NEW l, Goes(s, l), Tree(l.node)
  PROVE  Goes(s, Assignment(l)) /\ Sprout(Assignment(l).node)
<1> DEFINE f == [l EXCEPT !.flag = TRUE]
           e == Eat(f)
           r == Blame(Parsed("parseExpression", e), "EXPECTED_VARIABLE")
           n == [l.node EXCEPT !.kids = <<r.node>>]
           x == [l EXCEPT !.node = Null, !.refused = TRUE]
<1>1. Goes(s, f)
  BY DEF Goes, Ready, ParseFields, IsNull
<1>2. Goes(s, x) /\ Sprout(x.node)
  BY DEF Goes, Ready, ParseFields, IsNull, Sprout
<1> HIDE DEF f, x
<1>3. Goes(s, e)
  BY <1>1, EatGoes
<1> HIDE DEF e
<1>4. Goes(s, r) /\ Sprout(r.node)
  BY <1>3, BlamedGoes
<1> HIDE DEF r
<1>5. l.node.kind = "Variable" /\ ~IsNull(r) => Tree(n)
  BY <1>4, AssignedTree DEF Sprout, IsNull
<1> HIDE DEF n
<1>6. l.node.kind = "Variable" => Goes(s, Give(r, n)) /\ Sprout(Give(r, n).node)
  BY <1>4, <1>5, GivenSprout
<1>7. LET t == Fail(r, "EXPECTED_VARIABLE") IN Goes(s, t) /\ Sprout(t.node)
  BY <1>4, FailedSprout
<1> QED BY <1>2, <1>6, <1>7 DEF Assignment, n, r, e, f, x

LEMMA parseExpressionYields ==
  ASSUME NEW k, CallYields(k), NEW s, Ready(s), s.room = k
  PROVE  Goes(s, parseExpression(s)) /\ Sprout(parseExpression(s).node)
<1> DEFINE l == Parsed("parsePrimary", s)
<1>1. Goes(s, l) /\ Sprout(l.node)
  BY GoesAgain, ParsedGoes DEF Sprouting
<1> HIDE DEF l
<1>2. ~IsNull(l) => Goes(s, Assignment(l)) /\ Sprout(Assignment(l).node)
  BY <1>1, AssignmentYields DEF Sprout, IsNull
<1>3. LET c == Call("parseBinOpRHS", l, 0)
      IN  Goes(s, c) /\ Yields("parseBinOpRHS", c.node)
  BY <1>1, CallGoes DEF ParseMethods
<1>4. Sprout(Call("parseBinOpRHS", l, 0).node)
  BY <1>3 DEF Yields
<1> QED BY <1>2, <1>3, <1>4 DEF parseExpression, l

LEMMA parseAssigmentYields ==
  ASSUME NEW k, CallYields(k), NEW s, s.room = k, NEW d, Goes(s, d)
  PROVE  Goes(s, parseAssigment(d)) /\ Sprout(parseAssigment(d).node)
<1> DEFINE a == Eat(d)
           b == EatStar(a)
           c == Eat(b)
           e == Eat(c)
           r == Blame(Parsed("parseExpression", e), "CANNOT_GENERATE_RHS")
           n == Node("Variable", Ident(b), Tok(d), <<r.node>>, {"isDefinition"} \cup Pointer(a))
<1>1. Goes(s, a)
  BY EatGoes
<1> HIDE DEF a
<1>2. Goes(s, b)
  BY <1>1, EatGoes
<1> HIDE DEF b
<1>3. Goes(s, c)
  BY <1>2, EatGoes
<1> HIDE DEF c
<1>4. Goes(s, e)
  BY <1>3, EatGoes
<1> HIDE DEF e
<1>5. Goes(s, r) /\ Sprout(r.node)
  BY <1>4, BlamedGoes
<1> HIDE DEF r
<1>6. ~IsNull(r) => Tree(n)
  BY <1>5, UnaryTree DEF Sprout, IsNull
<1> HIDE DEF n
<1>7. Goes(s, Give(r, n)) /\ Sprout(Give(r, n).node)
  BY <1>5, <1>6, GivenSprout
<1> QED BY <1>7 DEF parseAssigment, n, r, e, c, b, a

LEMMA parseArgumentsGoes ==
  ASSUME NEW k, CallYields(k), NEW s, Ready(s), s.room = k
  PROVE  Goes(s, parseArguments(s))
<1>1. Goes(s, s) /\ Goes(s, Eat(s))
  BY GoesAgain, EatGoes
<1>2. Goes(s, Give(Eat(s), Block(<<>>)))
  BY <1>1, NoTrees, GivenSprouts
<1>3. Goes(s, Fail(s, "EXPECTED_DATATYPE_FUNCTION_ARG"))
  BY <1>1, FailedSprout
<1>4. ASSUME NEW type, NEW a, Goes(s, a) PROVE Goes(s, ArgumentOf(type, a))
  <2> DEFINE b == EatStar(a)
             c == Expect(b, "tok_identifier", "EXPECTED_IDENTIFIER_NAME")
             d == IF Tok(c) = "tok_comma" THEN AnotherArgument(Eat(c)) ELSE c
             rest == Parsed("parseArguments", d)
             n == Block(<<Node("Argument", Ident(b), type, <<>>, Pointer(a))>>
                          \o rest.node.kids)
  <2>1. Goes(s, b)
    BY <1>4, EatGoes
  <2> HIDE DEF b
  <2>2. Goes(s, c)
    BY <2>1, ExpectGoes
  <2> HIDE DEF c
  <2>3. Goes(s, d)
    <3>1. Goes(s, Eat(c))
      BY <2>2, EatGoes
    <3>2. Goes(s, AnotherArgument(Eat(c)))
      BY <3>1, FailedSprout DEF AnotherArgument
    <3> QED BY <2>2, <3>2
  <2> HIDE DEF d
  <2>4. Goes(s, rest)
    BY <2>3, ParsedGoes
  <2> HIDE DEF rest, n
  <2>5. Goes(s, Give(rest, n))
    <3>1. Ready(rest)
      BY <2>4 DEF Goes
    <3> QED BY <2>4, <3>1, GiveGoes, GoesAll
  <2> QED BY <2>5 DEF ArgumentOf, n, rest, d, c, b
<1> QED BY <1>1, <1>2, <1>3, <1>4 DEF parseArguments

LEMMA parsePrototypeYields ==
  ASSUME NEW k, CallYields(k), NEW s, Ready(s), s.room = k
  PROVE  Goes(s, parsePrototype(s)) /\ Sprout(parsePrototype(s).node)
<1> DEFINE a == Eat(s)
           b == EatStar(a)
           c == Eat(b)
           e == Eat(c)
           d == Parsed("parseArguments", e)
           null == IF Tok(s) = "tok_void_ptr" THEN {"isNull"} ELSE {}
           n == Node("Prototype", Ident(b), Tok(s), d.node.kids,
                     {"isExtern"} \cup Pointer(a) \cup null)
           f == Fail(c, "EXPECTED_TOKEN")
<1>0. Goes(s, s)
  BY GoesAgain
<1>1. Goes(s, a)
  BY <1>0, EatGoes
<1> HIDE DEF a
<1>2. Goes(s, b)
  BY <1>1, EatGoes
<1> HIDE DEF b
<1>3. Goes(s, c)
  BY <1>2, EatGoes
<1> HIDE DEF c
<1>4. Goes(s, e)
  BY <1>3, EatGoes
<1> HIDE DEF e
<1>5. Goes(s, d)
  BY <1>4, ParsedGoes
<1> HIDE DEF d
<1>6. Tree(n)
  BY PrototypeTree
<1> HIDE DEF n
<1>7. Goes(s, Give(d, n)) /\ Sprout(Give(d, n).node)
  BY <1>5, <1>6, GivenSprout
<1>8. /\ LET t == Fail(s, "EXPECTED_RETURN_DATATYPE") IN Goes(s, t) /\ Sprout(t.node)
      /\ LET t == Fail(b, "EXPECTED_IDENTIFIER_NAME") IN Goes(s, t) /\ Sprout(t.node)
  BY <1>0, <1>2, FailedSprout
<1>9. Goes(s, EatAnyway(f)) /\ Sprout(EatAnyway(f).node)
  <2>1. Goes(s, f) /\ f.node = Null
    BY <1>3, FailedSprout
  <2> HIDE DEF f
  <2> QED BY <2>1, EatGoes DEF Sprout
<1> QED BY <1>7, <1>8, <1>9 DEF parsePrototype, n, d, e, c, b, a

LEMMA parseStatementsUntillCurlyYields ==
  ASSUME NEW k, CallYields(k), NEW s, Ready(s), s.room = k, NEW x
  PROVE  LET r == parseStatementsUntillCurly(s, x) IN Goes(s, r) /\ Sprouts(r.node)
<1> DEFINE e == Parsed("parseStatement", s)
           rest == Call("parseStatementsUntillCurly", e, x)
<1>0. Goes(s, s)
  BY GoesAgain
<1>1. Goes(s, e) /\ Sprout(e.node)
  BY <1>0, ParsedGoes DEF Sprouting
<1> HIDE DEF e
<1>2. Goes(s, rest) /\ Goes(e, rest) /\ Sprouts(rest.node)
  <2>1. Goes(s, rest) /\ Goes(e, rest) /\ Yields("parseStatementsUntillCurly", rest.node)
    BY <1>1, CallGoes DEF ParseMethods
  <2> QED BY <2>1 DEF Yields
<1> HIDE DEF rest
<1>3. ~IsNull(rest) => Trees(<<e.node>> \o rest.node.kids)
  <2>1. ~IsNull(rest) => Tree(e.node) /\ Trees(rest.node.kids)
    BY <1>1, <1>2 DEF Goes, Sprout, Sprouts, IsNull
  <2> QED BY <2>1, TreesFirst
<1>4. LET b == Give(rest, Block(<<e.node>> \o rest.node.kids))
      IN  Goes(s, b) /\ Sprouts(b.node)
  BY <1>2, <1>3, GivenSprouts
<1>5. LET b == Give(s, Block(<<>>)) IN Goes(s, b) /\ Sprouts(b.node)
  BY <1>0, NoTrees, GivenSprouts
<1>6. /\ LET b == Fail(s, "EXPECTED_TOKEN") IN Goes(s, b) /\ Sprouts(b.node)
      /\ LET b == Fail(e, "EXPECTED_TOKEN") IN Goes(s, b) /\ Sprouts(b.node)
  BY <1>0, <1>1, FailedSprout
<1> QED BY <1>4, <1>5, <1>6 DEF parseStatementsUntillCurly, rest, e

(* A block between braces, begun at r in a method that began at s. *)
LEMMA BracesYield ==
  ASSUME NEW k, CallYields(k), NEW s, s.room = k, NEW r, Goes(s, r), NEW code, NEW x
  PROVE  LET b == Braces(r, code, x)
         IN  Goes(s, b) /\ Goes(r, b) /\ (~IsNull(b) => Trees(b.node.kids))
<1> DEFINE e == Expect(r, "tok_open_curly", code)
           body == Call("parseStatementsUntillCurly", e, x)
           c == Eat(body)
           b == Give(c, body.node)
<1>1. Goes(s, e) /\ Goes(r, e)
  BY ExpectGoes
<1> HIDE DEF e
<1>2. Goes(s, body) /\ Goes(e, body) /\ Sprouts(body.node)
  <2>1. /\ Goes(s, body) /\ Goes(e, body)
        /\ Yields("parseStatementsUntillCurly", body.node)
    BY <1>1, CallGoes DEF ParseMethods
  <2> QED BY <2>1 DEF Yields
<1> HIDE DEF body
<1>3. Goes(s, c) /\ Goes(body, c)
  BY <1>2, EatGoes
<1> HIDE DEF c
<1>4. /\ Goes(c, b)
      /\ IsNull(c) => b.node = Null
      /\ ~IsNull(c) => b.node = body.node
  BY <1>3, GiveGoes DEF Goes
<1> HIDE DEF b
<1>5. ~IsNull(b) => Trees(b.node.kids)
  BY <1>2, <1>3, <1>4 DEF Goes, IsNull, Sprouts
<1>6. Goes(s, b)
  BY <1>3, <1>4, GoesAll
<1>7. Goes(r, b)
  <2>1. Goes(r, body)
    BY <1>1, <1>2, GoesAll
  <2>2. Goes(r, c)
    BY <1>3, <2>1, GoesAll
  <2> QED BY <1>4, <2>2, GoesAll
<1> QED BY <1>5, <1>6, <1>7 DEF Braces, b, c, body, e

LEMMA parseFunctionYields ==
  ASSUME NEW k, CallYields(k), NEW s, Ready(s), s.room = k
  PROVE  Goes(s, parseFunction(s)) /\ Yields("parseFunction", parseFunction(s).node)
<1> DEFINE proto == Parsed("parsePrototype", s)
           body == Braces(proto, "EXPECTED_TOKEN", FALSE)
           p == [proto.node EXCEPT !.flags = @ \ {"isExtern"}]
           n == Node("Function", NoText, NoText, <<p, body.node>>, {})
<1>1. Goes(s, proto)
  BY GoesAgain, ParsedGoes DEF Sprouting
<1> HIDE DEF proto
<1>2. Goes(s, body) /\ (~IsNull(body) => Trees(body.node.kids))
  BY <1>1, BracesYield
<1> HIDE DEF body, p
<1>3. ~IsNull(body) => Tree(n) /\ n.kind = "Function"
  <2> SUFFICES ASSUME ~IsNull(body) PROVE Tree(n) /\ n.kind = "Function"
    OBVIOUS
  <2>1. Trees(body.node.kids)
    BY <1>2
  <2>2. Trees(<<>>)
    BY NoTrees
  <2>3. Tree(n)
    BY <2>1, <2>2, ListTree
  <2>4. n.kind = "Function"
    BY NodeIs
  <2> QED BY <2>3, <2>4
<1> HIDE DEF n
<1>4. /\ Goes(s, Give(body, n))
      /\ IsNull(body) => Give(body, n).node = Null
      /\ ~IsNull(body) => Give(body, n).node = n
  <2>1. Ready(body)
    BY <1>2 DEF Goes
  <2> QED BY <1>2, <2>1, GiveGoes, GoesAll
<1>5. Yields("parseFunction", Give(body, n).node)
  BY <1>3, <1>4 DEF Yields
<1> QED BY <1>4, <1>5 DEF parseFunction, n, p, body, proto

LEMMA ElseBranchYields ==
  ASSUME NEW k, CallYields(k), NEW s, s.room = k, NEW then, Goes(s, then)
  PROVE  LET e == ElseBranch(then)
         IN  Goes(s, e) /\ (~IsNull(e) => Trees(e.node.kids))
<1> DEFINE a == Eat(then)
<1>1. Goes(s, a)
  BY EatGoes
<1> HIDE DEF a
<1>2. LET e == Give(then, Block(<<>>)) IN Goes(s, e) /\ Sprouts(e.node)
  BY NoTrees, GivenSprouts
<1>3. LET e == Fail(a, "UNEXPECTED_TOKEN_IN_EXPRESSION") IN Goes(s, e) /\ Sprouts(e.node)
  BY <1>1, FailedSprout
<1>4. LET e == Braces(a, "EXPECTED_TOKEN", FALSE)
      IN  Goes(s, e) /\ (~IsNull(e) => Trees(e.node.kids))
  BY <1>1, BracesYield
<1> QED BY <1>2, <1>3, <1>4 DEF ElseBranch, ElseBlock, a, Sprouts, IsNull

LEMMA parseIfStatementYields ==
  ASSUME NEW k, CallYields(k), NEW s, Ready(s), s.room = k
  PROVE  Goes(s, parseIfStatement(s)) /\ Sprout(parseIfStatement(s).node)
<1> DEFINE a == Eat(s)
           b == Expect(a, "tok_open_round", "EXPECTED_TOKEN")
           condition == Parsed("parseExpression", b)
           c == Expect(condition, "tok_close_round", "EXPECTED_TOKEN")
           then == Braces(c, "EXPECTED_TOKEN", TRUE)
           else == ElseBranch(then)
           n == Node("If", NoText, NoText, <<condition.node, then.node, else.node>>, {})
<1>1. Goes(s, a)
  BY GoesAgain, EatGoes
<1> HIDE DEF a
<1>2. Goes(s, b)
  BY <1>1, ExpectGoes
<1> HIDE DEF b
<1>3. Goes(s, condition) /\ Sprout(condition.node)
  BY <1>2, ParsedGoes DEF Sprouting
<1> HIDE DEF condition
<1>4. Goes(s, c) /\ Goes(condition, c)
  BY <1>3, ExpectGoes
<1> HIDE DEF c
<1>5. Goes(s, then) /\ Goes(c, then) /\ (~IsNull(then) => Trees(then.node.kids))
  BY <1>4, BracesYield
<1> HIDE DEF then
<1>6. Goes(s, else) /\ (~IsNull(else) => Trees(else.node.kids))
  BY <1>5, ElseBranchYields
<1> HIDE DEF else
<1>7. ~IsNull(then) => Tree(condition.node)
  BY <1>3, <1>4, <1>5 DEF Goes, IsNull, Sprout
<1>8. ~IsNull(then) /\ ~IsNull(else) => Tree(n)
  BY <1>5, <1>6, <1>7, IfTree
<1> HIDE DEF n
<1>9. ~IsNull(then) => Goes(s, Give(else, n)) /\ Sprout(Give(else, n).node)
  BY <1>6, <1>8, GivenSprout
<1>10. IsNull(then) => Sprout(then.node)
  BY DEF Sprout, IsNull
<1> QED BY <1>5, <1>9, <1>10 DEF parseIfStatement, n, else, then, c, condition, b, a

LEMMA parseForStatementYields ==
  ASSUME NEW k, CallYields(k), NEW s, Ready(s), s.room = k
  PROVE  Goes(s, parseForStatement(s)) /\ Sprout(parseForStatement(s).node)
<1> DEFINE h0 == Eat(s)
           h1 == Expect(h0, "tok_open_round", "EXPECTED_TOKEN")
           h == Ahead(h1, 2)
           init == ForInitialisation(h)
           condition == Blame(Parsed("parseStatement", init), "FOR_LOOP_FAILURE")
           e == Parsed("parseExpression", condition)
           u == [e EXCEPT !.flag = FALSE]
           increment == Blame(u, "FOR_LOOP_FAILURE")
           c == Expect(increment, "tok_close_round", "EXPECTED_TOKEN")
           body == Braces(c, "EXPECTED_TOKEN", FALSE)
           n == Node("For", NoText, NoText,
                     <<init.node, condition.node, increment.node, body.node>>, {})
<1>1. Goes(s, h)
  <2>1. Goes(s, h0)
    BY GoesAgain, EatGoes
  <2> HIDE DEF h0
  <2>2. Goes(s, h1)
    BY <2>1, ExpectGoes
  <2> HIDE DEF h1
  <2>3. Passes(h1, h)
    BY <2>2, AheadPasses DEF Goes
  <2> QED BY <2>2, <2>3, PassesGoes
<1> HIDE DEF h
<1>2. Goes(s, init) /\ Sprout(init.node)
  <2>1. LET t == Parsed("parseStatement", h) IN Goes(s, t) /\ Sprout(t.node)
    BY <1>1, ParsedGoes DEF Sprouting
  <2>2. \A code : Goes(s, Fail(h, code)) /\ Sprout(Fail(h, code).node)
    BY <1>1, FailedSprout
  <2>3. IsNull(h) => Sprout(h.node)
    BY DEF Sprout, IsNull
  <2> QED BY <1>1, <2>1, <2>2, <2>3 DEF ForInitialisation
<1> HIDE DEF init
<1>3. Goes(s, condition) /\ Sprout(condition.node) /\ Goes(init, condition)
  BY <1>2, BlamedGoes
<1> HIDE DEF condition
<1>4. Goes(s, e) /\ Sprout(e.node) /\ Goes(condition, e)
  BY <1>3, ParsedGoes DEF Sprouting
<1> HIDE DEF e
<1>5. Goes(s, u) /\ Goes(e, u) /\ u.node = e.node
  BY <1>4 DEF Goes, Ready, ParseFields, IsNull
<1> HIDE DEF u
<1>6. Goes(s, increment) /\ Sprout(increment.node)
  <2>1. Passes(u, increment)
    BY <1>5, FailPasses DEF Goes
  <2> QED BY <1>4, <1>5, <2>1, PassesGoes, SproutPasses
<1> HIDE DEF increment
<1>7. Goes(s, c) /\ Goes(increment, c)
  BY <1>6, ExpectGoes
<1> HIDE DEF c
<1>8. Goes(s, body) /\ Goes(c, body) /\ (~IsNull(body) => Trees(body.node.kids))
  BY <1>7, BracesYield
<1> HIDE DEF body
<1>9. ~IsNull(init) /\ ~IsNull(condition) /\ ~IsNull(body) => Tree(n)
  <2>1. ~IsNull(body) => Tree(increment.node)
    BY <1>6, <1>7, <1>8 DEF Goes, IsNull, Sprout
  <2>2. ~IsNull(init) /\ ~IsNull(condition) => Tree(init.node) /\ Tree(condition.node)
    BY <1>2, <1>3 DEF IsNull, Sprout
  <2> QED BY <1>8, <2>1, <2>2, ForTree
<1> HIDE DEF n
<1>10. ~IsNull(init) /\ ~IsNull(condition)
         => Goes(s, Give(body, n)) /\ Sprout(Give(body, n).node)
  BY <1>8, <1>9, GivenSprout
<1> QED BY <1>2, <1>3, <1>10
        DEF parseForStatement, ForHeader, n, body, c, increment, u, e, condition, init, h, h1, h0

LEMMA parseToPointerAssigmentYields ==
  ASSUME NEW k, CallYields(k), NEW s, Ready(s), s.room = k
  PROVE  LET r == parseToPointerAssigment(s) IN Goes(s, r) /\ Sprout(r.node)
<1> DEFINE a == Eat(s)
           b == Expect(a, "tok_identifier", "EXPECTED_TOKEN")
           c == Expect(b, "tok_assigment_operator", "EXPECTED_TOKEN")
           r == Blame(Parsed("parseExpression", c), "UNEXPECTED_TOKEN_IN_EXPRESSION")
           n == Node("ToPointer", Ident(a), NoText, <<r.node>>, {"isPointer"})
<1>1. Goes(s, a)
  BY GoesAgain, EatGoes
<1> HIDE DEF a
<1>2. Goes(s, b)
  BY <1>1, ExpectGoes
<1> HIDE DEF b
<1>3. Goes(s, c)
  BY <1>2, ExpectGoes
<1> HIDE DEF c
<1>4. Goes(s, r) /\ Sprout(r.node)
  BY <1>3, BlamedGoes
<1> HIDE DEF r
<1>5. ~IsNull(r) => Tree(n)
  BY <1>4, UnaryTree DEF Sprout, IsNull
<1> HIDE DEF n
<1>6. Goes(s, Give(r, n)) /\ Sprout(Give(r, n).node)
  BY <1>4, <1>5, GivenSprout
<1>7. IsNull(c) => Sprout(c.node)
  BY DEF Sprout, IsNull
<1> QED BY <1>3, <1>6, <1>7 DEF parseToPointerAssigment, n, r, c, b, a

LEMMA parseDeclarationYields ==
  ASSUME NEW k, CallYields(k), NEW s, Ready(s), s.room = k
  PROVE  Goes(s, parseDeclaration(s)) /\ Sprout(parseDeclaration(s).node)
<1> DEFINE a == Ahead(s, 3)
<1>1. Goes(s, a)
  BY AheadPasses DEF Passes
<1> HIDE DEF a
<1>2. \A code : Goes(s, Fail(a, code)) /\ Sprout(Fail(a, code).node)
  BY <1>1, FailedSprout
<1>3. LET t == Parsed("parseFunction", a) IN Goes(s, t) /\ Sprout(t.node)
  BY <1>1, ParsedGoes
<1>4. Goes(s, parseAssigment(a)) /\ Sprout(parseAssigment(a).node)
  BY <1>1, parseAssigmentYields
<1>5. Goes(s, Declaration(a)) /\ Sprout(Declaration(a).node)
  BY <1>2, <1>3, <1>4 DEF Declaration
<1>6. IsNull(a) => Sprout(a.node)
  BY DEF Sprout, IsNull
<1> QED BY <1>1, <1>5, <1>6 DEF parseDeclaration, DeclarationAhead, a

LEMMA ReturnStatementYields ==
  ASSUME NEW k, CallYields(k), NEW s, Ready(s), s.room = k
  PROVE  Goes(s, ReturnStatement(s)) /\ Sprout(ReturnStatement(s).node)
<1> DEFINE a == Eat(s)
           p == Parsed("parseExpression", a)
           e == Dereferenced(p)
           flags == e.node.flags \cup {"isReturn"}
           n == [e.node EXCEPT !.flags = flags]
<1>1. Goes(s, a)
  BY GoesAgain, EatGoes
<1> HIDE DEF a
<1>2. Goes(s, p) /\ Sprout(p.node)
  BY <1>1, ParsedGoes DEF Sprouting
<1> HIDE DEF p
<1>3. Goes(s, e) /\ Sprout(e.node)
  <2>1. Passes(p, e)
    BY <1>2, DereferencedPasses DEF Goes
  <2> QED BY <1>2, <2>1, PassesGoes, SproutPasses
<1> HIDE DEF e
<1>4. ~IsNull(e) => Tree(n)
  BY <1>3, TreeFlags DEF Sprout, IsNull
<1>5. Goes(s, Give(e, n)) /\ Sprout(Give(e, n).node)
  BY <1>3, <1>4, GivenSprout
<1>6. [e.node EXCEPT !.flags = @ \cup {"isReturn"}] = n
  OBVIOUS
<1> QED BY <1>5, <1>6 DEF ReturnStatement, e, p, a

LEMMA parseExternYields ==
  ASSUME NEW k, CallYields(k), NEW s, Ready(s), s.room = k
  PROVE  Goes(s, parseExtern(s)) /\ Sprout(parseExtern(s).node)
<1> DEFINE a == Eat(s)
<1>1. Goes(s, a)
  BY GoesAgain, EatGoes
<1> HIDE DEF a
<1>2. LET t == Parsed("parsePrototype", a) IN Goes(s, t) /\ Sprout(t.node)
  BY <1>1, ParsedGoes DEF Sprouting
<1>3. LET t == Fail(a, "EXPECTED_TYPE_AFTER_EXTERN") IN Goes(s, t) /\ Sprout(t.node)
  BY <1>1, FailedSprout
<1> QED BY <1>2, <1>3 DEF parseExtern, a

LEMMA StatementBodyYields ==
  ASSUME NEW k, CallYields(k), NEW s, Ready(s), s.room = k
  PROVE  Goes(s, StatementBody(s)) /\ Sprout(StatementBody(s).node)
<1>1. \A m \in {"parseDeclaration", "parseExpression", "parseIfStatement",
                "parseForStatement"} :
        Goes(s, Parsed(m, s)) /\ Sprout(Parsed(m, s).node)
  BY GoesAgain, ParsedGoes DEF Sprouting
<1>2. Goes(s, NoStatement(s)) /\ Sprout(NoStatement(s).node)
  BY DEF NoStatement, Goes, Ready, ParseFields, IsNull, Sprout
<1> QED BY <1>1, <1>2, parseExternYields, ReturnStatementYields,
           parseToPointerAssigmentYields DEF StatementBody

LEMMA EndStatementYields ==
  ASSUME NEW s, NEW e, Goes(s, e), Sprout(e.node)
  PROVE  Goes(s, EndStatement(s, e)) /\ Sprout(EndStatement(s, e).node)
<1> DEFINE n == [e EXCEPT !.node = Null]
           l == Log(n, "EXPECTED_END_STATEMENT_TOKEN")
           c == Semicolon(e)
           f == [c EXCEPT !.flag = FALSE]
<1>1. Ready(e)
  BY DEF Goes
<1>2. Ready(n) /\ n.room = e.room /\ n.node = Null
  BY <1>1 DEF Ready, ParseFields
<1> HIDE DEF n
<1>3. Passes(n, l)
  BY <1>2, FailPasses
<1> HIDE DEF l
<1>4. Goes(s, l) /\ Sprout(l.node)
  BY <1>2, <1>3 DEF Passes, Goes, IsNull, Sprout
<1>5. Goes(s, c) /\ Sprout(c.node)
  BY EatGoes DEF Sprout, Semicolon
<1> HIDE DEF c
<1>6. Goes(s, f) /\ Sprout(f.node)
  BY <1>5 DEF Goes, Ready, ParseFields, IsNull
<1> QED BY <1>4, <1>6 DEF EndStatement, f, c, l, n

LEMMA MethodYields ==
  ASSUME NEW k, CallYields(k), NEW s, Ready(s), s.room = k, NEW m \in ParseMethods,
         NEW x, m = "parseBinOpRHS" => Sprout(s.node)
  PROVE  Goes(s, Method(m, s, x)) /\ Yields(m, Method(m, s, x).node)
<1>1. CASE m \in {"parseIdentifier", "parseCast", "parseParen", "parsePrimary",
                  "parseExpression", "parsePrototype", "parseIfStatement",
                  "parseForStatement", "parseDeclaration"}
  <2>1. Goes(s, Method(m, s, x)) /\ Sprout(Method(m, s, x).node)
    BY <1>1, parseIdentifierYields, parseCastYields, parseParenYields, parsePrimaryYields,
       parseExpressionYields, parsePrototypeYields, parseIfStatementYields,
       parseForStatementYields, parseDeclarationYields DEF Method
  <2> QED BY <1>1, <2>1 DEF Yields
<1>2. CASE m = "parseBinOpRHS"
  <2>1. Goes(s, parseBinOpRHS(x, s)) /\ Sprout(parseBinOpRHS(x, s).node)
    BY <1>2, parseBinOpRHSYields
  <2> QED BY <1>2, <2>1 DEF Method, Yields
<1>3. CASE m = "CallArguments"
  <2>1. Goes(s, CallArguments(s)) /\ Sprouts(CallArguments(s).node)
    BY CallArgumentsYields
  <2> QED BY <1>3, <2>1 DEF Method, Yields
<1>4. CASE m = "parseStatementsUntillCurly"
  <2> DEFINE r == parseStatementsUntillCurly(s, x)
  <2>1. Goes(s, r) /\ Sprouts(r.node)
    BY parseStatementsUntillCurlyYields
  <2> QED BY <1>4, <2>1 DEF Method, Yields
<1>5. CASE m = "parseArguments"
  BY <1>5, parseArgumentsGoes DEF Method, Yields
<1>6. CASE m = "parseFunction"
  BY <1>6, parseFunctionYields DEF Method
<1>7. CASE m = "parseStatement"
  <2>1. Goes(s, parseStatement(s)) /\ Sprout(parseStatement(s).node)
    BY StatementBodyYields, EndStatementYields DEF parseStatement
  <2> QED BY <1>7, <2>1 DEF Method, Yields
<1>8. CASE m = "handleExpression"
  <2> DEFINE e == Parsed("parseExpression", s)
             d == Dereferenced(e)
  <2>1. Goes(s, e) /\ Sprout(e.node)
    BY GoesAgain, ParsedGoes DEF Sprouting
  <2> HIDE DEF e
  <2>2. Passes(e, d)
    BY <2>1, DereferencedPasses DEF Goes
  <2>3. Goes(s, d) /\ Sprout(d.node)
    BY <2>1, <2>2, PassesGoes, SproutPasses
  <2> QED BY <1>8, <2>3 DEF Method, handleExpression, Yields, e
<1> QED BY <1>1, <1>2, <1>3, <1>4, <1>5, <1>6, <1>7, <1>8 DEF ParseMethods

LEMMA NullYields ==
  ASSUME NEW s, IsNull(s), NEW m
  PROVE  Yields(m, s.node)
BY DEF IsNull, Yields, Sprout, Sprouts

LEMMA DispatchYields ==
  ASSUME NEW s, Ready(s), s.room \in Nat, s.room # 0 => CallYields(s.room - 1),
         NEW m \in ParseMethods, NEW x, m = "parseBinOpRHS" => Sprout(s.node)
  PROVE  Goes(s, Dispatch(m, s, x)) /\ Yields(m, Dispatch(m, s, x).node)
<1> DEFINE c == [s EXCEPT !.room = @ - 1]
           r == Method(m, c, x)
           h == [r EXCEPT !.room = s.room]
<1>1. CASE IsNull(s)
  BY <1>1, GoesAgain, NullYields DEF Dispatch
<1>2. CASE ~IsNull(s) /\ s.room = 0
  <2>1. Passes(s, Raise(s, "stack")) /\ IsNull(Raise(s, "stack"))
    BY RaisePasses
  <2> QED BY <1>2, <2>1, NullYields DEF Dispatch, Passes
<1>3. CASE ~IsNull(s) /\ s.room # 0
  <2>1. Ready(c) /\ c.room = s.room - 1 /\ c.node = s.node
    BY DEF Ready, ParseFields
  <2> HIDE DEF c
  <2>2. Goes(c, r) /\ Yields(m, r.node)
    BY <1>3, <2>1, MethodYields
  <2> HIDE DEF r
  <2>3. Ready(h) /\ h.room = s.room /\ h.node = r.node
    BY <2>2 DEF Goes, Ready, ParseFields
  <2>4. Goes(s, h) /\ Yields(m, h.node)
    BY <2>1, <2>2, <2>3 DEF Goes, IsNull
  <2> QED BY <1>3, <2>4 DEF Dispatch, c, r
<1> QED BY <1>1, <1>2, <1>3

LEMMA AllYield ==
  ASSUME ParseRecursion, NEW n \in Nat
  PROVE  CallYields(n)
<1> DEFINE Bad == {k \in Nat : ~CallYields(k)}
<1>1. CASE Bad = {}
  BY <1>1
<1>2. CASE Bad # {}
  <2>1. PICK k \in Bad : \A j \in Bad : k <= j
    BY <1>2, LeastNat
  <2>2. k \in Nat /\ ~CallYields(k)
    BY <2>1
  <2>3. k # 0 => CallYields(k - 1)
    <3> SUFFICES ASSUME k # 0, ~CallYields(k - 1) PROVE FALSE
      OBVIOUS
    <3>1. k - 1 \in Bad
      BY <2>2
    <3> QED BY <2>1, <2>2, <3>1
  <2>4. CallYields(k)
    <3> SUFFICES ASSUME NEW m \in ParseMethods, NEW s, NEW x, Ready(s), s.room = k,
                        m = "parseBinOpRHS" => Sprout(s.node)
                 PROVE  Goes(s, Call(m, s, x)) /\ Yields(m, Call(m, s, x).node)
      BY DEF CallYields
    <3>1. Call(m, s, x) = Dispatch(m, s, x)
      BY <2>2 DEF ParseRecursion
    <3> QED BY <2>2, <2>3, <3>1, DispatchYields
  <2> QED BY <2>2, <2>4
<1> QED BY <1>1, <1>2

(* What a parse of the compiler ends with. *)
LEMMA EndsYield ==
  ASSUME ParseRecursion, NEW op \in {"parseStatement", "parseFunction", "handleExpression"},
         NEW lx, NEW s \in Ends(op, lx)
  PROVE  /\ ~IsNull(s) => Tree(s.node)
         /\ ~IsNull(s) /\ op = "parseFunction" => s.node.kind = "Function"
<1>1. PICK g : s = Parsed(op, ParseState(lx, flag, g))
  <2>1. Usual \in Garbage
    BY GarbageAssumption DEF Usual
  <2> QED BY <2>1 DEF Ends, EndsOf, Runs
<1> DEFINE p == ParseState(lx, flag, g)
<1>2. Ready(p) /\ p.room = MaxCalls
  BY DEF ParseState, Ready, ParseFields
<1> HIDE DEF p
<1>3. op \in ParseMethods /\ op # "parseBinOpRHS"
  BY DEF ParseMethods
<1>4. Yields(op, s.node)
  <2>1. CallYields(MaxCalls)
    BY AllYield, MaxCallsAssumption
  <2> QED BY <1>1, <1>2, <1>3, <2>1 DEF CallYields, Parsed, p
<1> QED BY <1>4 DEF Yields, Sprout, IsNull

-----------------------------------------------------------------------------
(***************************************************************************)
(* The state of the compiler between two statements.                       *)
(***************************************************************************)
StaticId(id) == IsId(id) /\ id[1] = "static"

(* k is g but for what a line of the REPL makes and erases.                *)
Redone(g, k) ==
  /\ DOMAIN k = GenFields
  /\ k.cur \in Modules /\ k.fault \in GenFaults /\ k.room = g.room
  /\ k.protos = g.protos /\ k.builtins = g.builtins /\ k.redeclared = g.redeclared
  /\ k.vars = g.vars /\ k.scope = g.scope
  /\ DOMAIN k.mods = Modules /\ k.mods["static"] = g.mods["static"]
  /\ \A name \in DOMAIN k.mods["anonymous"] :
       \/ name \in Handles("anonymous") /\ IsFunction(k.mods["anonymous"][name])
       \/ /\ name \in DOMAIN g.mods["anonymous"]
          /\ k.mods["anonymous"][name] = g.mods["anonymous"][name]

(* The static functions of g and of k. *)
SameStatic(g, k) ==
  \A id : StaticId(id) => /\ Held(k, id) <=> Held(g, id)
                          /\ Bodied(k, id) <=> Bodied(g, id)
                          /\ Held(g, id) => Fn(k, id) = Fn(g, id)

LEMMA RedoneState ==
  ASSUME NEW g, State(g), NEW k, Redone(g, k)
  PROVE  State(k) /\ SameStatic(g, k)
<1>1. ASSUME NEW id, StaticId(id)
      PROVE  (Held(k, id) <=> Held(g, id)) /\ Fn(k, id) = Fn(g, id)
  BY <1>1 DEF StaticId, Redone, Held, Erased, Fn
<1>2. \A id : StaticId(id) => (Bodied(k, id) <=> Bodied(g, id))
  BY <1>1 DEF Bodied
<1>3. ASSUME NEW id, Held(k, id), ~StaticId(id)
      PROVE  \/ id[2] \in Handles(id[1]) /\ IsFunction(Fn(k, id))
             \/ Held(g, id) /\ Fn(k, id) = Fn(g, id)
  <2>1. IsId(id) /\ id[1] = "anonymous" /\ id[2] \in DOMAIN k.mods["anonymous"]
    BY <1>3 DEF Held, IsId, StaticId, Modules, Erased
  <2> QED BY <2>1 DEF Redone, Held, Erased, Fn
<1>4. \A id : Held(k, id) => IsFunction(Fn(k, id))
  BY <1>1, <1>3 DEF State, Shape
<1>5. ASSUME NEW id, Held(k, id), id[2] \notin Handles(id[1]) PROVE AgreesAt(k, id)
  <2>1. Held(g, id) /\ Fn(k, id) = Fn(g, id)
    BY <1>1, <1>3, <1>5
  <2>2. returnProto(k, id[2]) = returnProto(g, id[2])
    BY DEF Redone, returnProto
  <2>3. AgreesAt(g, id)
    BY <1>5, <2>1 DEF State, Agree
  <2> QED BY <2>1, <2>2, <2>3 DEF AgreesAt, Redone
<1>6. ASSUME NEW id, Lasts(g, id) PROVE Lasts(k, id)
  <2>1. CASE Bodied(g, id)
    <3>1. StaticId(id) \/ id[1] = "anonymous"
      BY <2>1 DEF Bodied, Held, IsId, StaticId, Modules
    <3> QED BY <1>2, <2>1, <3>1 DEF Lasts, Belongs
  <2> QED BY <1>6, <2>1 DEF Lasts, Belongs
<1>7. Variables(k) /\ Lasts(k, k.scope)
  BY <1>6 DEF Variables, State, Shape, Redone
<1>8. Shape(k)
  BY <1>4, <1>7 DEF State, Shape, Redone
<1>9. Agree(k)
  BY <1>5 DEF Agree
<1> QED BY <1>1, <1>2, <1>8, <1>9 DEF State, SameStatic

(* k is g but for what no later statement sees. *)
Alike(g, k) ==
  /\ DOMAIN k = GenFields
  /\ k.cur \in Modules /\ k.fault \in GenFaults /\ k.room = g.room
  /\ k.protos = g.protos /\ k.builtins = g.builtins /\ k.redeclared = g.redeclared
  /\ k.vars = g.vars /\ k.scope = g.scope /\ k.mods = g.mods /\ k.ip = g.ip

LEMMA AlikeState ==
  ASSUME NEW g, State(g), NEW k, Alike(g, k)
  PROVE  /\ State(k) /\ SameStatic(g, k)
         /\ Belongs(g, g.ip) => Belongs(k, k.ip)
<1>1. Redone(g, k)
  BY DEF Alike, Redone, State, Shape
<1>2. Belongs(g, g.ip) => Belongs(k, k.ip)
  BY DEF Alike, Belongs, Bodied, Held, Erased, Fn
<1> QED BY <1>1, <1>2, RedoneState

LEMMA SettledAlike ==
  ASSUME NEW g, State(g)
  PROVE  Alike(g, Settled(g)) /\ Settled(g).torn = {}
BY DEF State, Shape, Alike, Settled, GenFields

Freshly(g, stale) == [g EXCEPT !.errs = <<>>, !.stale = stale]
LEMMA FreshlyQuiet ==
  ASSUME NEW g, State(g), NEW stale
  PROVE  Quiet(g, Freshly(g, stale))
BY DEF State, Shape, Quiet, Freshly, GenFields

Within(g) == [g EXCEPT !.cur = "static"]
LEMMA WithinAlike ==
  ASSUME NEW g, State(g)
  PROVE  Alike(g, Within(g)) /\ Within(g).cur = "static" /\ Within(g).torn = g.torn
BY DEF State, Shape, Alike, Within, GenFields, Modules

LEMMA DieAlike ==
  ASSUME NEW g, State(g), NEW fault \in GenFaults
  PROVE  Alike(g, Die(g, fault)) /\ Alike(g, g)
BY DEF State, Shape, Alike, Die, GenFields

LEMMA addModuleAlike ==
  ASSUME NEW g, State(g), NEW mod
  PROVE  Alike(g, addModule(g, mod))
BY DieAlike DEF addModule, GenFaults

(* A new Codegenerator, which knows no function. *)
LEMMA NewState ==
  ASSUME NEW b \in BOOLEAN
  PROVE  LET g == NewCodegenerator(b)
         IN  /\ State(g) /\ g.room = MaxCalls /\ g.torn = {} /\ g.ip = NoFunction
             /\ \A id : ~Held(g, id)
<1> DEFINE g == NewCodegenerator(b)
<1>1. /\ DOMAIN g = GenFields /\ g.cur = "static" /\ g.mods = [m \in Modules |-> <<>>]
      /\ g.protos = <<>> /\ g.vars = <<>> /\ g.scope = NoFunction /\ g.ip = NoFunction
      /\ g.builtins \in {BuiltInFunctions, <<>>} /\ g.fault = "none"
      /\ g.room = MaxCalls /\ g.torn = {}
  BY DEF NewCodegenerator, GenFields, Modules
<1> HIDE DEF g
<1>2. \A id : ~Held(g, id)
  BY <1>1 DEF Held, IsId, Erased, Modules
<1>3. Named(BuiltInFunctions)
  BY NodeIs DEF Named, BuiltInFunctions
<1>4. Named(g.protos) /\ Named(g.builtins)
  BY <1>1, <1>3 DEF Named
<1>5. Variables(g) /\ Lasts(g, g.scope)
  BY <1>1 DEF Variables, Lasts, Belongs
<1>6. State(g)
  BY <1>1, <1>2, <1>4, <1>5, MaxCallsAssumption DEF State, Shape, Agree, Modules, GenFaults
<1> QED BY <1>1, <1>2, <1>6 DEF g

(* The functions of a line of the REPL. *)
DUMMY == <<"anonymous", DUMMY_FUNCTION>>
FunctionFor(ret, body) == [ret |-> ret, args |-> <<>>, names |-> <<>>, body |-> body]

LEMMA FunctionForIs ==
  ASSUME NEW ret, NEW body, body = NoBody \/ InOrder(body)
  PROVE  IsFunction(FunctionFor(ret, body))
BY DEF IsFunction, FunctionFor, FunctionFields

LEMMA HeadInOrder == InOrder(FunctionHead) /\ FunctionHead # NoBody
<1>1. InOrder(FunctionHead)
  BY FunctionHeadInOrder
<1> QED BY <1>1, InOrderLen

(* The modules of a codegenerator once the anonymous one is m. *)
LEMMA AnonymousRedone ==
  ASSUME NEW g, State(g), NEW k, NEW m,
         DOMAIN k = GenFields, k.cur \in Modules, k.fault \in GenFaults, k.room = g.room,
         k.protos = g.protos, k.builtins = g.builtins, k.redeclared = g.redeclared,
         k.vars = g.vars, k.scope = g.scope,
         k.mods = [g.mods EXCEPT !["anonymous"] = m],
         \A name \in DOMAIN m :
           \/ name \in Handles("anonymous") /\ IsFunction(m[name])
           \/ name \in DOMAIN g.mods["anonymous"] /\ m[name] = g.mods["anonymous"][name]
  PROVE  Redone(g, k) /\ k.mods["anonymous"] = m
<1>1. DOMAIN g.mods = Modules
  BY DEF State, Shape
<1>2. /\ DOMAIN k.mods = Modules /\ k.mods["static"] = g.mods["static"]
      /\ k.mods["anonymous"] = m
  BY <1>1 DEF Modules
<1> QED BY <1>2 DEF Redone

LEMMA DummyIs ==
  ASSUME NEW g, State(g)
  PROVE  LET k == Dummy(g)
         IN  /\ State(k) /\ SameStatic(g, k) /\ k.cur = "anonymous" /\ k.ip = DUMMY
             /\ k.room = g.room /\ k.torn = g.torn /\ Bodied(k, DUMMY)
<1> DEFINE m == Anonymous(g.mods["anonymous"], DUMMY_FUNCTION, "i32", FunctionHead)
           k == Dummy(g)
<1>1. DOMAIN g = GenFields /\ DOMAIN g.mods = Modules /\ g.fault \in GenFaults
  BY DEF State, Shape
<1>2. /\ DOMAIN m = DOMAIN g.mods["anonymous"] \cup {DUMMY_FUNCTION}
      /\ m[DUMMY_FUNCTION] = FunctionFor("i32", FunctionHead)
      /\ \A x \in DOMAIN g.mods["anonymous"] :
           x # DUMMY_FUNCTION => m[x] = g.mods["anonymous"][x]
  BY DEF Anonymous, With, FunctionFor
<1>3. IsFunction(m[DUMMY_FUNCTION])
  BY <1>2, HeadInOrder, FunctionForIs
<1>4. /\ DOMAIN k = GenFields /\ k.cur = "anonymous" /\ k.fault = g.fault
      /\ k.room = g.room /\ k.protos = g.protos /\ k.builtins = g.builtins
      /\ k.redeclared = g.redeclared /\ k.vars = g.vars /\ k.scope = g.scope
      /\ k.ip = DUMMY /\ k.torn = g.torn
      /\ k.mods = [g.mods EXCEPT !["anonymous"] = m]
  BY <1>1 DEF Dummy, GenFields, DUMMY, Modules
<1> HIDE DEF m, k
<1>5. DUMMY_FUNCTION \in Handles("anonymous")
  BY DEF Handles
<1>6. Redone(g, k) /\ k.mods["anonymous"] = m
  BY <1>1, <1>2, <1>3, <1>4, <1>5, AnonymousRedone DEF Modules
<1>7. Bodied(k, DUMMY)
  <2>1. Fn(k, DUMMY).body = FunctionHead /\ ~Erased(k, DUMMY)
    BY <1>2, <1>6 DEF Fn, DUMMY, Erased, FunctionFor
  <2>2. IsId(DUMMY)
    BY DEF IsId, DUMMY, Modules
  <2> QED BY <2>1, <2>2, HeadInOrder DEF Bodied, Held, Empty
<1> QED BY <1>4, <1>6, <1>7, RedoneState DEF k

Finished(g, ret, body) ==
  [g EXCEPT !.mods["anonymous"] =
     Anonymous(Anonymous(@, DUMMY_FUNCTION, "i32", NoBody), ANONYMOUS_FUNCTION, ret, body)]

LEMMA FinishedIs ==
  ASSUME NEW g, State(g), NEW ret, NEW body, InOrder(body)
  PROVE  LET k == Finished(g, ret, body)
         IN  State(k) /\ SameStatic(g, k) /\ k.room = g.room
<1> DEFINE a == Anonymous(g.mods["anonymous"], DUMMY_FUNCTION, "i32", NoBody)
           m == Anonymous(a, ANONYMOUS_FUNCTION, ret, body)
           k == Finished(g, ret, body)
<1>1. DOMAIN g = GenFields /\ DOMAIN g.mods = Modules /\ g.fault \in GenFaults
  BY DEF State, Shape
<1>2. /\ DOMAIN a = DOMAIN g.mods["anonymous"] \cup {DUMMY_FUNCTION}
      /\ a[DUMMY_FUNCTION] = FunctionFor("i32", NoBody)
      /\ \A x \in DOMAIN g.mods["anonymous"] :
           x # DUMMY_FUNCTION => a[x] = g.mods["anonymous"][x]
  BY DEF Anonymous, With, FunctionFor
<1>3. /\ DOMAIN k = GenFields /\ k.cur = g.cur /\ k.fault = g.fault
      /\ k.room = g.room /\ k.protos = g.protos /\ k.builtins = g.builtins
      /\ k.redeclared = g.redeclared /\ k.vars = g.vars /\ k.scope = g.scope
      /\ k.mods = [g.mods EXCEPT !["anonymous"] = m]
  BY <1>1 DEF Finished, GenFields, Modules
<1> HIDE DEF a, k
<1>4. /\ DOMAIN m = DOMAIN a \cup {ANONYMOUS_FUNCTION}
      /\ m[ANONYMOUS_FUNCTION] = FunctionFor(ret, body)
      /\ \A x \in DOMAIN a : x # ANONYMOUS_FUNCTION => m[x] = a[x]
  BY DEF Anonymous, With, FunctionFor
<1> HIDE DEF m
<1>5. IsFunction(FunctionFor(ret, body)) /\ IsFunction(FunctionFor("i32", NoBody))
  BY FunctionForIs
<1>6. ASSUME NEW name \in DOMAIN m
      PROVE  \/ name \in Handles("anonymous") /\ IsFunction(m[name])
             \/ name \in DOMAIN g.mods["anonymous"] /\ m[name] = g.mods["anonymous"][name]
  <2>1. CASE name = ANONYMOUS_FUNCTION
    BY <1>4, <1>5, <2>1 DEF Handles
  <2>2. CASE name = DUMMY_FUNCTION /\ name # ANONYMOUS_FUNCTION
    BY <1>2, <1>4, <1>5, <2>2 DEF Handles
  <2>3. CASE name # DUMMY_FUNCTION /\ name # ANONYMOUS_FUNCTION
    BY <1>2, <1>4, <1>6, <2>3
  <2> QED BY <2>1, <2>2, <2>3
<1>7. g.cur \in Modules
  BY DEF State, Shape
<1>8. Redone(g, k)
  BY <1>1, <1>3, <1>6, <1>7, AnonymousRedone
<1> QED BY <1>3, <1>8, RedoneState DEF k

LEMMA FinalIs ==
  ASSUME NEW g, State(g), Bodied(g, DUMMY)
  PROVE  LET k == Final(g) IN State(k) /\ SameStatic(g, k) /\ k.room = g.room
<1> DEFINE ret == IF "Prototype" \in g.stale THEN "void"
                  ELSE IF g.val = "float" THEN "float" ELSE "i32"
           body == Emit(Fn(g, DUMMY).body, Ret(Checks(g.val = ret, {})))
           f == Finished(g, ret, body)
           k == addModule(f, "anonymous")
<1>1. Final(g) = k
  BY DEF Final, Finished, DUMMY
<1>2. InOrder(body)
  BY BodiedBody, EmitFollows
<1> HIDE DEF ret, body
<1>3. State(f) /\ SameStatic(g, f) /\ f.room = g.room
  BY <1>2, FinishedIs
<1> HIDE DEF f
<1>4. Alike(f, k)
  BY <1>3, addModuleAlike
<1> HIDE DEF k
<1>5. State(k) /\ SameStatic(f, k) /\ k.room = f.room
  BY <1>3, <1>4, AlikeState DEF Alike
<1> QED BY <1>1, <1>3, <1>5 DEF SameStatic

LEMMA EraseFunctionsIs ==
  ASSUME NEW g, State(g)
  PROVE  LET k == EraseFunctions(g) IN State(k) /\ SameStatic(g, k) /\ k.room = g.room
<1> DEFINE kept == DOMAIN g.mods["anonymous"] \ {ANONYMOUS_FUNCTION, DUMMY_FUNCTION}
           m == [name \in kept |-> g.mods["anonymous"][name]]
           k == EraseFunctions(g)
<1>1. DOMAIN g = GenFields /\ DOMAIN g.mods = Modules /\ g.fault \in GenFaults
  BY DEF State, Shape
<1>2. /\ DOMAIN k = GenFields /\ k.cur = g.cur /\ k.fault = g.fault
      /\ k.room = g.room /\ k.protos = g.protos /\ k.builtins = g.builtins
      /\ k.redeclared = g.redeclared /\ k.vars = g.vars /\ k.scope = g.scope
      /\ k.mods = [g.mods EXCEPT !["anonymous"] = m]
  BY <1>1 DEF EraseFunctions, GenFields, Modules
<1> HIDE DEF k
<1>3. \A name \in DOMAIN m : /\ name \in DOMAIN g.mods["anonymous"]
                             /\ m[name] = g.mods["anonymous"][name]
  OBVIOUS
<1> HIDE DEF m
<1>4. g.cur \in Modules
  BY DEF State, Shape
<1>5. Redone(g, k)
  BY <1>1, <1>2, <1>3, <1>4, AnonymousRedone
<1> QED BY <1>2, <1>5, RedoneState DEF k

(* What one parse and the code generation of its tree make of g. *)
LEMMA Generated ==
  ASSUME GenRecursion, NEW g, State(g), g.room = MaxCalls, g.torn = {},
         NEW s, ~IsNull(s) => Tree(s.node), NEW kinds, NEW h \in Generate(s, g, kinds),
         ~IsNull(s) => s.node.kind = "Function" \/ Belongs(g, g.ip)
  PROVE  /\ IsNull(s) => h = g
         /\ ~IsNull(s) => Made(g, s.node, h)
<1>1. CASE IsNull(s)
  BY <1>1 DEF Generate
<1>2. CASE ~IsNull(s)
  <2>1. PICK stale : h = codegen(s.node, Freshly(g, stale))
    BY <1>2 DEF Generate, Freshly
  <2> DEFINE c == Freshly(g, stale)
             n == s.node
  <2>2. Quiet(g, c)
    BY FreshlyQuiet
  <2> HIDE DEF c
  <2>3. /\ State(c) /\ c.room = MaxCalls /\ c.torn = {} /\ c.ip = g.ip /\ c.cur = g.cur
        /\ c.room = g.room
        /\ \A x : Fn(c, x) = Fn(g, x)
        /\ \A x : Held(c, x) <=> Held(g, x)
        /\ \A x : Bodied(c, x) <=> Bodied(g, x)
        /\ \A x : Belongs(c, x) <=> Belongs(g, x)
    BY <2>2, QuietSame, QuietState DEF Quiet
  <2>4. Made(c, n, h)
    BY <1>2, <2>1, <2>3, codegenMakes DEF c
  <2>5. \A x : Apart(c, n, x) <=> Apart(g, n, x)
    BY <2>3 DEF Apart
  <2>6. Made(g, n, h)
    BY <2>3, <2>4, <2>5 DEF Made
  <2> QED BY <1>2, <2>6
<1> QED BY <1>1, <1>2

-----------------------------------------------------------------------------
(***************************************************************************)
(* The invariant of the compiler, and its steps.                           *)
(***************************************************************************)
GenInv ==
  /\ State(gen) /\ gen.room = MaxCalls /\ gen.torn = {}
  /\ host \in {"module", "repl"}
  /\ pc \in {"module", "repl"} => pc = host
  /\ host = "module" => Belongs(gen, gen.ip)

(* A function that only code of its own was generated into is about its    *)
(* own values.                                                             *)
OwnInv ==
  \A id : StaticId(id) /\ Bodied(gen, id) /\ id \notin loose => Own(Fn(gen, id).body, id)

(* What is in the JIT is what the static module is now, and as long as     *)
(* nothing failed, all of it.                                              *)
JitOf(j) ==
  /\ DOMAIN jit[j] \subseteq DOMAIN Static
  /\ \A name \in DOMAIN jit[j] : Empty(jit[j][name]) \/ jit[j][name] = Static[name]
ServedBy(j, name) == name \in DOMAIN jit[j] /\ jit[j][name] = Static[name]
JitInv ==
  host = "repl" =>
    /\ \E S : jit \in Seq(S)
    /\ \A j \in 1 .. Len(jit) : JitOf(j)
    /\ pc # "crashed" => \A name \in Served : \E j \in 1 .. Len(jit) : ServedBy(j, name)

CompilerInv == GenInv /\ OwnInv /\ JitInv

(* What a step from g to k does to the static functions, those of L being  *)
(* the loosened ones.                                                      *)
Stays(g, k, L) ==
  /\ \A id : StaticId(id) /\ Held(g, id) => Held(k, id)
  /\ \A id : StaticId(id) /\ Bodied(g, id) => Bodied(k, id)
  /\ \A id : StaticId(id) /\ Bodied(g, id) /\ id \notin L => Fn(k, id) = Fn(g, id)
Defines(g, k, L) ==
  \A id : StaticId(id) /\ Bodied(k, id) /\ ~Bodied(g, id) /\ id \notin L
            => Own(Fn(k, id).body, id)

(* A step keeps what only code of its own was generated into.              *)
Stepped ==
  /\ GenInv'
  /\ loose \subseteq loose'
  /\ Stays(gen, gen', loose')
  /\ Defines(gen, gen', loose')

LEMMA SameStays ==
  ASSUME NEW g, NEW k, SameStatic(g, k), NEW L
  PROVE  Stays(g, k, L) /\ Defines(g, k, L)
BY DEF SameStatic, Stays, Defines, Bodied

LEMMA MadeStays ==
  ASSUME NEW g, NEW n, NEW h, Made(g, n, h), NEW L, h.torn \subseteq L,
         n.kind \in {"Prototype", "Function"} \/ g.ip \in L
  PROVE  Stays(g, h, L) /\ Defines(g, h, L)
<1>1. ASSUME NEW id, Bodied(g, id), id \notin L PROVE Fn(h, id) = Fn(g, id)
  <2>1. Apart(g, n, id)
    BY <1>1 DEF Apart, Bodied
  <2> QED BY <2>1 DEF Made
<1> QED BY <1>1 DEF Stays, Defines, Made

(* What comes before and after code generation does not count.             *)
LEMMA StaysThrough ==
  ASSUME NEW g, NEW c, NEW h, NEW k, NEW L,
         SameStatic(g, c), Stays(c, h, L), Defines(c, h, L), SameStatic(h, k)
  PROVE  Stays(g, k, L) /\ Defines(g, k, L)
<1>1. ASSUME NEW id, StaticId(id)
      PROVE  /\ Held(c, id) <=> Held(g, id)
             /\ Bodied(c, id) <=> Bodied(g, id)
             /\ Held(g, id) => Fn(c, id) = Fn(g, id)
             /\ Held(k, id) <=> Held(h, id)
             /\ Bodied(k, id) <=> Bodied(h, id)
             /\ Held(h, id) => Fn(k, id) = Fn(h, id)
  BY <1>1 DEF SameStatic
<1>2. \A id : (Bodied(g, id) => Held(g, id)) /\ (Bodied(k, id) => Held(k, id))
  BY DEF Bodied
<1>3. /\ \A id : StaticId(id) /\ Held(g, id) => Held(k, id)
      /\ \A id : StaticId(id) /\ Bodied(g, id) => Bodied(k, id)
  BY <1>1 DEF Stays
<1>4. ASSUME NEW id, StaticId(id), Bodied(g, id), id \notin L PROVE Fn(k, id) = Fn(g, id)
  <2>1. Held(g, id) /\ Bodied(c, id) /\ Held(h, id)
    BY <1>1, <1>2, <1>4 DEF Stays
  <2> QED BY <1>1, <1>4, <2>1 DEF Stays
<1>5. ASSUME NEW id, StaticId(id), Bodied(k, id), ~Bodied(g, id), id \notin L
      PROVE  Own(Fn(k, id).body, id)
  <2>1. Bodied(h, id) /\ ~Bodied(c, id) /\ Held(h, id)
    BY <1>1, <1>2, <1>5
  <2>2. Fn(k, id) = Fn(h, id)
    BY <1>1, <1>5, <2>1
  <2> QED BY <1>5, <2>1, <2>2 DEF Defines
<1> QED BY <1>3, <1>4, <1>5 DEF Stays, Defines

LEMMA SameSelf ==
  ASSUME NEW g
  PROVE  SameStatic(g, g)
BY DEF SameStatic

(* The state that a statement leaves, from what code generation made.      *)
LEMMA SettledIs ==
  ASSUME NEW g, State(g)
  PROVE  LET k == Settled(g)
         IN  /\ State(k) /\ SameStatic(g, k) /\ k.room = g.room /\ k.torn = {}
             /\ Belongs(g, g.ip) => Belongs(k, k.ip)
BY SettledAlike, AlikeState DEF Alike

LEMMA SteppedByStatement ==
  ASSUME ParseRecursion, GenRecursion, GenInv, CompileStatement
  PROVE  Stepped
<1>1. PICK s \in Ends("parseStatement", lex) : \E g \in Generate(s, gen, Unset(s.node)) :
           /\ Took("parseStatement", lex, s, g, "module")
           /\ loose' = loose \cup IF IsNull(s) THEN {} ELSE Loosened(s.node, gen.ip, g)
  BY DEF CompileStatement
<1>2. PICK g \in Generate(s, gen, Unset(s.node)) :
           /\ Took("parseStatement", lex, s, g, "module")
           /\ loose' = loose \cup IF IsNull(s) THEN {} ELSE Loosened(s.node, gen.ip, g)
  BY <1>1
<1>3. pc = "module" /\ host' = host
  BY DEF CompileStatement
<1>4. host = "module" /\ Belongs(gen, gen.ip)
  BY <1>3 DEF GenInv
<1>5. gen' = Settled(g) /\ pc' \in {"module", "crashed"}
  BY <1>2 DEF Took
<1>6. ~IsNull(s) => Tree(s.node)
  BY <1>1, EndsYield
<1>7. /\ IsNull(s) => g = gen
      /\ ~IsNull(s) => Made(gen, s.node, g)
  BY <1>2, <1>4, <1>6, Generated DEF GenInv
<1>8. State(g) /\ g.room = MaxCalls /\ Belongs(g, g.ip)
  BY <1>4, <1>7 DEF GenInv, Made
<1>9. GenInv'
  <2>1. State(gen') /\ gen'.room = MaxCalls /\ gen'.torn = {} /\ Belongs(gen', gen'.ip)
    BY <1>5, <1>8, SettledIs
  <2> QED BY <1>3, <1>4, <1>5, <2>1 DEF GenInv
<1>10. Stays(gen, g, loose') /\ Defines(gen, g, loose')
  <2>1. CASE IsNull(s)
    BY <1>7, <2>1, SameSelf, SameStays
  <2>2. CASE ~IsNull(s)
    <3>1. /\ g.torn \subseteq loose'
          /\ s.node.kind \in {"Prototype", "Function"} \/ gen.ip \in loose'
      BY <1>2, <2>2 DEF Loosened
    <3> QED BY <1>7, <2>2, <3>1, MadeStays
  <2> QED BY <2>1, <2>2
<1>11. SameStatic(g, gen')
  BY <1>5, <1>8, SettledIs
<1>12. Stays(gen, gen', loose') /\ Defines(gen, gen', loose')
  BY <1>10, <1>11, SameSelf, StaysThrough
<1> QED BY <1>2, <1>9, <1>12 DEF Stepped

(* What a line of the REPL that defines a function adds to the JIT.        *)
FunctionAdded(a) ==
  /\ State(a) /\ SameStatic(a, gen')
  /\ jit' = jit \/ jit' = Append(jit, a.mods["static"])
  /\ pc' # "crashed" => jit' = Append(jit, a.mods["static"]) \/ SameStatic(gen, gen')

LEMMA SteppedByFunction ==
  ASSUME ParseRecursion, GenRecursion, GenInv, CompileFunction
  PROVE  /\ Stepped
         /\ Stays(gen, gen', {})
         /\ \E a : FunctionAdded(a)
<1> DEFINE d == lookAheadStatement(lex)
           static == Within(gen)
           Added(s, g) == IF IsNull(s) \/ g.fault # "none" THEN g ELSE addModule(g, "static")
           Taken(s, g) ==
             /\ Took("parseFunction", d.lex, s, Added(s, g), "ready")
             /\ jit' = IF IsNull(s) \/ Added(s, g).fault # "none" THEN jit
                       ELSE Append(jit, Added(s, g).mods["static"])
             /\ loose' = loose \cup IF IsNull(s) THEN {} ELSE Loosened(s.node, gen.ip, g)
<1>1. \E s \in Ends("parseFunction", d.lex) :
      \E g \in Generate(s, static, Unset(s.node)) : Taken(s, g)
  BY DEF CompileFunction, Within
<1>2. PICK s \in Ends("parseFunction", d.lex) :
        \E g \in Generate(s, static, Unset(s.node)) : Taken(s, g)
  BY <1>1
<1>3. PICK g \in Generate(s, static, Unset(s.node)) : Taken(s, g)
  BY <1>2
<1> DEFINE a == Added(s, g)
<1>4. /\ gen' = Settled(a) /\ pc' \in {"ready", "crashed"}
      /\ pc' # "crashed" => a.fault = "none"
      /\ jit' = IF IsNull(s) \/ a.fault # "none" THEN jit ELSE Append(jit, a.mods["static"])
      /\ loose' = loose \cup IF IsNull(s) THEN {} ELSE Loosened(s.node, gen.ip, g)
      /\ host' = host
  BY <1>3 DEF Took, CompileFunction
<1>5. State(static) /\ SameStatic(gen, static) /\ static.room = MaxCalls /\ static.torn = {}
  BY WithinAlike, AlikeState DEF GenInv, Alike
<1>6. ~IsNull(s) => Tree(s.node) /\ s.node.kind = "Function"
  BY <1>2, EndsYield
<1> HIDE DEF static
<1>7. /\ IsNull(s) => g = static
      /\ ~IsNull(s) => Made(static, s.node, g)
  BY <1>3, <1>5, <1>6, Generated
<1>8. State(g) /\ g.room = MaxCalls
  BY <1>5, <1>7 DEF Made
<1>9. Alike(g, a)
  BY <1>8, addModuleAlike, DieAlike DEF GenFaults
<1> HIDE DEF a
<1>10. State(a) /\ SameStatic(g, a) /\ a.room = MaxCalls
  BY <1>8, <1>9, AlikeState DEF Alike
<1>11. State(gen') /\ SameStatic(a, gen') /\ gen'.room = MaxCalls /\ gen'.torn = {}
  BY <1>4, <1>10, SettledIs
<1>12. SameStatic(g, gen')
  BY <1>10, <1>11 DEF SameStatic
<1>13. pc = "repl" /\ host = "repl"
  BY DEF CompileFunction, GenInv
<1>14. GenInv'
  BY <1>4, <1>11, <1>13 DEF GenInv
<1>15. IsNull(s) => SameStatic(gen, gen')
  BY <1>5, <1>7, <1>12 DEF SameStatic
<1>16. Stays(gen, gen', loose') /\ Defines(gen, gen', loose') /\ Stays(gen, gen', {})
  <2>1. CASE IsNull(s)
    BY <1>15, <2>1, SameStays
  <2>2. CASE ~IsNull(s)
    <3>1. g.torn \subseteq loose'
      BY <1>4, <2>2 DEF Loosened
    <3>2. Stays(static, g, loose') /\ Defines(static, g, loose')
      BY <1>6, <1>7, <2>2, <3>1, MadeStays
    <3>3. Stays(static, g, g.torn) /\ Defines(static, g, g.torn)
      BY <1>6, <1>7, <2>2, MadeStays
    <3>4. \A id : Bodied(static, id) => Fn(g, id) = Fn(static, id)
      <4>1. \A id : Bodied(static, id) => Apart(static, s.node, id)
        BY <1>6, <2>2 DEF Apart, Bodied
      <4> QED BY <1>7, <2>2, <4>1 DEF Made
    <3>5. Stays(static, g, {})
      BY <3>3, <3>4 DEF Stays
    <3>6. \A L : SameStatic(gen, static) /\ Stays(static, g, L) /\ SameStatic(g, gen')
                   => Stays(gen, gen', L)
      BY DEF SameStatic, Stays, Bodied
    <3> QED BY <1>5, <1>12, <3>2, <3>5, <3>6, StaysThrough
  <2> QED BY <2>1, <2>2
<1>17. FunctionAdded(a)
  BY <1>4, <1>10, <1>11, <1>15 DEF FunctionAdded
<1> QED BY <1>4, <1>14, <1>16, <1>17 DEF Stepped

LEMMA RemoveAppended ==
  ASSUME NEW S, NEW q \in Seq(S), NEW m
  PROVE  RemoveAt(Append(q, m), Len(q) + 1) = q
BY DEF RemoveAt

LEMMA SteppedByExpression ==
  ASSUME ParseRecursion, GenRecursion, GenInv, CompileExpression
  PROVE  /\ Stepped
         /\ SameStatic(gen, gen')
         /\ (\E S : jit \in Seq(S)) => jit' = jit
<1> DEFINE d == lookAheadStatement(lex)
           c == Dummy(gen)
           Finals(s, g) == IF IsNull(s) \/ g.fault # "none" THEN g
                           ELSE IF Stopped(g) THEN Die(g, "null") ELSE Final(g)
           Failed(s, f) == IsNull(s) \/ f.fault # "none"
           Left(s, f) == IF Failed(s, f) THEN f ELSE EraseFunctions(f)
           Taken(s, g) ==
             /\ Took("handleExpression", d.lex, s, Left(s, Finals(s, g)), "ready")
             /\ jit' = IF Failed(s, Finals(s, g)) THEN jit
                       ELSE removeModule(Append(jit, Finals(s, g).mods["anonymous"]),
                                         Len(jit) + 1)
<1>1. \E s \in Ends("handleExpression", d.lex) :
      \E g \in Generate(s, c, {"Prototype"} \cup Unset(s.node)) : Taken(s, g)
  BY DEF CompileExpression
<1>2. PICK s \in Ends("handleExpression", d.lex) :
        \E g \in Generate(s, c, {"Prototype"} \cup Unset(s.node)) : Taken(s, g)
  BY <1>1
<1>3. PICK g \in Generate(s, c, {"Prototype"} \cup Unset(s.node)) : Taken(s, g)
  BY <1>2
<1> DEFINE f == Finals(s, g)
           k == Left(s, f)
<1>4. /\ gen' = Settled(k) /\ pc' \in {"ready", "crashed"}
      /\ jit' = IF Failed(s, f) THEN jit
                ELSE removeModule(Append(jit, f.mods["anonymous"]), Len(jit) + 1)
      /\ host' = host /\ loose' = loose
  BY <1>3 DEF Took, CompileExpression
<1>5. /\ State(c) /\ SameStatic(gen, c) /\ c.cur = "anonymous" /\ c.ip = DUMMY
      /\ c.room = MaxCalls /\ c.torn = {} /\ Bodied(c, DUMMY)
  BY DummyIs DEF GenInv
<1>6. ~IsNull(s) => Tree(s.node)
  BY <1>2, EndsYield
<1> HIDE DEF c
<1>7. /\ IsNull(s) => g = c
      /\ ~IsNull(s) => Made(c, s.node, g)
  <2>1. Belongs(c, c.ip)
    BY <1>5 DEF Belongs
  <2> QED BY <1>3, <1>5, <1>6, <2>1, Generated
<1>8. State(g) /\ g.room = MaxCalls /\ Bodied(g, DUMMY)
  BY <1>5, <1>7 DEF Made
<1>9. SameStatic(c, g)
  <2>1. CASE IsNull(s)
    BY <1>7, <2>1, SameSelf
  <2>2. CASE ~IsNull(s)
    <3>1. ASSUME NEW id, StaticId(id), Held(c, id) PROVE Fn(g, id) = Fn(c, id) /\ Held(g, id)
      <4>1. id[1] # c.cur /\ id # c.ip
        BY <1>5, <3>1 DEF StaticId, DUMMY
      <4>2. Apart(c, s.node, id)
        BY <3>1, <4>1 DEF Apart
      <4> QED BY <1>7, <2>2, <3>1, <4>2 DEF Made
    <3>2. ASSUME NEW id, StaticId(id), Held(g, id) PROVE Held(c, id)
      BY <1>5, <1>7, <2>2, <3>2 DEF Made, StaticId
    <3> QED BY <3>1, <3>2 DEF SameStatic, Bodied
  <2> QED BY <2>1, <2>2
<1>10. State(f) /\ SameStatic(g, f) /\ f.room = MaxCalls
  <2>1. LET x == Die(g, "null") IN State(x) /\ SameStatic(g, x) /\ x.room = MaxCalls
    BY <1>8, DieAlike, AlikeState DEF Alike, GenFaults
  <2>2. LET x == Final(g) IN State(x) /\ SameStatic(g, x) /\ x.room = MaxCalls
    BY <1>8, FinalIs
  <2> QED BY <1>8, <2>1, <2>2, SameSelf
<1> HIDE DEF f
<1>11. State(k) /\ SameStatic(f, k) /\ k.room = MaxCalls
  BY <1>10, EraseFunctionsIs, SameSelf
<1> HIDE DEF k
<1>12. State(gen') /\ SameStatic(k, gen') /\ gen'.room = MaxCalls /\ gen'.torn = {}
  BY <1>4, <1>11, SettledIs
<1>13. SameStatic(gen, gen')
  <2>1. SameStatic(gen, g)
    BY <1>5, <1>9 DEF SameStatic
  <2>2. SameStatic(gen, k)
    BY <1>10, <1>11, <2>1 DEF SameStatic
  <2> QED BY <1>12, <2>2 DEF SameStatic
<1>14. GenInv'
  <2>1. pc = "repl" /\ host = "repl"
    BY DEF CompileExpression, GenInv
  <2> QED BY <1>4, <1>12, <2>1 DEF GenInv
<1>15. ASSUME NEW S, jit \in Seq(S) PROVE jit' = jit
  BY <1>4, <1>15, RemoveAppended DEF removeModule
<1> QED BY <1>4, <1>13, <1>14, <1>15, SameStays DEF Stepped

(* The functions of the static module by their names.                      *)
LEMMA StaticIs ==
  ASSUME NEW g, NEW name
  PROVE  LET id == <<"static", name>>
         IN  /\ StaticId(id) /\ Fn(g, id) = g.mods["static"][name]
             /\ Held(g, id) <=> name \in DOMAIN g.mods["static"]
             /\ Bodied(g, id) <=> name \in Bodies(g, "static")
BY DEF StaticId, IsId, Modules, Fn, Held, Bodied, Erased, Bodies

LEMMA JitOfKept ==
  ASSUME Stays(gen, gen', {}), NEW j, JitOf(j), jit'[j] = jit[j]
  PROVE  JitOf(j)'
<1>1. ASSUME NEW name \in DOMAIN Static PROVE name \in DOMAIN Static'
  <2> DEFINE id == <<"static", name>>
  <2>1. StaticId(id) /\ Held(gen, id)
    BY <1>1, StaticIs DEF Static
  <2>2. Held(gen', id)
    BY <2>1 DEF Stays
  <2> QED BY <2>2, StaticIs DEF Static
<1>2. ASSUME NEW name \in DOMAIN Static, ~Empty(Static[name]) PROVE Static'[name] = Static[name]
  <2> DEFINE id == <<"static", name>>
  <2>1. StaticId(id) /\ Bodied(gen, id)
    BY <1>2, StaticIs DEF Static, Bodied
  <2>2. Fn(gen', id) = Fn(gen, id)
    BY <2>1 DEF Stays
  <2> QED BY <2>2, StaticIs DEF Static
<1>3. /\ DOMAIN jit[j] \subseteq DOMAIN Static
      /\ \A name \in DOMAIN jit[j] : Empty(jit[j][name]) \/ jit[j][name] = Static[name]
  BY DEF JitOf
<1>4. DOMAIN jit'[j] \subseteq DOMAIN Static'
  BY <1>1, <1>3
<1>5. ASSUME NEW name \in DOMAIN jit'[j]
      PROVE  Empty(jit'[j][name]) \/ jit'[j][name] = Static'[name]
  <2>1. CASE Empty(jit[j][name])
    BY <2>1
  <2>2. CASE ~Empty(jit[j][name])
    <3>1. jit[j][name] = Static[name] /\ name \in DOMAIN Static
      BY <1>3, <1>5, <2>2
    <3> QED BY <1>2, <2>2, <3>1
  <2> QED BY <2>1, <2>2
<1> QED BY <1>4, <1>5 DEF JitOf, Empty

LEMMA JitKept ==
  ASSUME JitInv, Stays(gen, gen', {}), jit' = jit, host' = host,
         pc' # "crashed" => pc # "crashed" /\ SameStatic(gen, gen')
  PROVE  JitInv'
<1> SUFFICES ASSUME host = "repl"
             PROVE  /\ \E S : jit' \in Seq(S)
                    /\ \A j \in 1 .. Len(jit') : JitOf(j)'
                    /\ pc' # "crashed" => \A name \in Served' :
                                            \E j \in 1 .. Len(jit') : ServedBy(j, name)'
  BY DEF JitInv
<1>1. /\ \E S : jit \in Seq(S)
      /\ \A j \in 1 .. Len(jit) : JitOf(j)
      /\ pc # "crashed" => \A name \in Served : \E j \in 1 .. Len(jit) : ServedBy(j, name)
  BY DEF JitInv
<1>2. ASSUME NEW j \in 1 .. Len(jit') PROVE JitOf(j)'
  BY <1>1, <1>2, JitOfKept
<1>3. ASSUME pc' # "crashed", NEW name \in Served'
      PROVE  \E j \in 1 .. Len(jit') : ServedBy(j, name)'
  <2>1. name \in Served /\ Static'[name] = Static[name]
    BY <1>3, StaticIs DEF SameStatic, Served, Static, Bodied
  <2>2. PICK j \in 1 .. Len(jit) : ServedBy(j, name)
    BY <1>1, <1>3, <2>1
  <2> QED BY <2>1, <2>2 DEF ServedBy
<1> QED BY <1>1, <1>2, <1>3

LEMMA JitGrows ==
  ASSUME JitInv, host = "repl", Stays(gen, gen', {}),
         NEW a, State(a), SameStatic(a, gen'), jit' = Append(jit, a.mods["static"])
  PROVE  JitInv'
<1> DEFINE m == a.mods["static"]
<1>1. PICK S : jit \in Seq(S)
  BY DEF JitInv
<1>0. PICK n \in Nat : n = Len(jit)
  BY <1>1
<1>2. /\ jit' \in Seq(S \cup {m}) /\ Len(jit') = n + 1
      /\ jit'[n + 1] = m
      /\ \A j \in 1 .. n : jit'[j] = jit[j]
  BY <1>0, <1>1
<1>3. /\ DOMAIN Static' = DOMAIN m
      /\ \A name \in DOMAIN m : Static'[name] = m[name]
  <2>1. ASSUME NEW name
        PROVE  /\ name \in DOMAIN Static' <=> name \in DOMAIN m
               /\ name \in DOMAIN m => Static'[name] = m[name]
    <3> DEFINE id == <<"static", name>>
    <3>1. /\ StaticId(id)
          /\ Fn(a, id) = m[name] /\ (Held(a, id) <=> name \in DOMAIN m)
          /\ Fn(gen', id) = Static'[name] /\ (Held(gen', id) <=> name \in DOMAIN Static')
      BY StaticIs DEF Static
    <3> QED BY <3>1 DEF SameStatic
  <2> QED BY <2>1
<1>4. JitOf(n + 1)'
  BY <1>2, <1>3 DEF JitOf
<1>5. ASSUME NEW j \in 1 .. n PROVE JitOf(j)'
  <2>1. JitOf(j)
    BY <1>0, <1>5 DEF JitInv
  <2>2. jit'[j] = jit[j]
    BY <1>2
  <2> QED BY <2>1, <2>2, JitOfKept
<1>6. \A j \in 1 .. Len(jit') : JitOf(j)'
  <2>1. \A j \in 1 .. Len(jit') : j \in 1 .. n \/ j = n + 1
    BY <1>2
  <2> QED BY <1>4, <1>5, <2>1
<1>7. ASSUME NEW name \in Served' PROVE \E j \in 1 .. Len(jit') : ServedBy(j, name)'
  <2>1. name \in DOMAIN m /\ Static'[name] = m[name]
    BY <1>3, <1>7 DEF Served, Bodies, Static
  <2>2. ServedBy(n + 1, name)'
    BY <1>2, <2>1 DEF ServedBy
  <2>3. n + 1 \in 1 .. Len(jit')
    BY <1>2
  <2> QED BY <2>2, <2>3
<1> QED BY <1>2, <1>6, <1>7 DEF JitInv

LEMMA OwnKept ==
  ASSUME OwnInv, loose \subseteq loose', Stays(gen, gen', loose'), Defines(gen, gen', loose')
  PROVE  OwnInv'
<1> SUFFICES ASSUME NEW id, StaticId(id), Bodied(gen', id), id \notin loose'
             PROVE  Own(Fn(gen', id).body, id)
  BY DEF OwnInv
<1>1. CASE Bodied(gen, id)
  BY <1>1 DEF OwnInv, Stays
<1>2. CASE ~Bodied(gen, id)
  BY <1>2 DEF Defines
<1> QED BY <1>1, <1>2

LEMMA CompilerInit ==
  ASSUME CInit
  PROVE  CompilerInv
<1>1. /\ host \in {"module", "repl"} /\ pc = "ready"
      /\ gen = NewCodegenerator(host = "module") /\ jit = <<>> /\ loose = {}
  BY ModesAssumption DEF CInit, Init
<1>2. /\ State(gen) /\ gen.room = MaxCalls /\ gen.torn = {} /\ gen.ip = NoFunction
      /\ \A id : ~Held(gen, id)
  BY <1>1, NewState
<1>3. GenInv
  BY <1>1, <1>2 DEF GenInv, Belongs
<1>4. OwnInv
  BY <1>2 DEF OwnInv, Bodied
<1>5. JitInv
  <2>1. Served = {}
    BY <1>2, StaticIs DEF Served, Bodied
  <2>2. jit \in Seq({}) /\ Len(jit) = 0
    BY <1>1
  <2>3. \A j \in 1 .. Len(jit) : FALSE
    BY <2>2
  <2> QED BY <2>1, <2>2, <2>3 DEF JitInv
<1> QED BY <1>3, <1>4, <1>5 DEF CompilerInv

(* Nothing is compiled. *)
Uncompiled == UNCHANGED cvars /\ (pc' \in {host, "crashed", "ready"} \/ pc' = pc) /\ pc # "crashed"

LEMMA UncompiledStep ==
  ASSUME CompilerInv, Uncompiled
  PROVE  CompilerInv' /\ Stepped
<1>1. /\ gen' = gen /\ jit' = jit /\ host' = host /\ loose' = loose
      /\ pc # "crashed"
  BY DEF Uncompiled, cvars
<1>2. SameStatic(gen, gen')
  BY <1>1, SameSelf
<1>3. \A L : Stays(gen, gen', L) /\ Defines(gen, gen', L)
  BY <1>2, SameStays
<1>4. GenInv'
  BY <1>1 DEF CompilerInv, GenInv, Uncompiled
<1>5. JitInv'
  BY <1>1, <1>2, <1>3, JitKept DEF CompilerInv
<1>6. OwnInv'
  BY <1>1, <1>3, OwnKept DEF CompilerInv
<1> QED BY <1>1, <1>3, <1>4, <1>5, <1>6 DEF CompilerInv, Stepped

LEMMA CompilerStep ==
  ASSUME ParseRecursion, GenRecursion, CompilerInv, CNext
  PROVE  CompilerInv' /\ Stepped
<1>1. GenInv /\ OwnInv /\ JitInv
  BY DEF CompilerInv
<1>2. CASE NextText \/ EndModule \/ IgnoreLine \/ PrintErrors
  <2>1. Uncompiled
    BY <1>2 DEF Uncompiled, NextText, InitFromString, EndModule, ModuleEnd, IgnoreLine,
                ReplIgnore, PrintErrors, PrintDiagnostic
  <2> QED BY <2>1, UncompiledStep
<1>3. CASE CompileStatement
  <2>1. Stepped
    BY <1>1, <1>3, SteppedByStatement
  <2>2. JitInv'
    BY <1>1, <1>3 DEF JitInv, GenInv, CompileStatement
  <2>3. OwnInv'
    BY <1>1, <2>1, OwnKept DEF Stepped
  <2> QED BY <2>1, <2>2, <2>3 DEF CompilerInv, Stepped
<1>4. CASE CompileFunction
  <2>1. Stepped /\ Stays(gen, gen', {})
    BY <1>1, <1>4, SteppedByFunction
  <2>2. PICK a : FunctionAdded(a)
    BY <1>1, <1>4, SteppedByFunction
  <2>3. pc = "repl" /\ host = "repl" /\ host' = host
    BY <1>1, <1>4 DEF CompileFunction, GenInv
  <2>4. ASSUME jit' = Append(jit, a.mods["static"]) PROVE JitInv'
    BY <1>1, <2>1, <2>2, <2>3, <2>4, JitGrows DEF FunctionAdded
  <2>5. ASSUME jit' = jit, jit' # Append(jit, a.mods["static"]) PROVE JitInv'
    <3>1. pc' # "crashed" => SameStatic(gen, gen')
      BY <2>2, <2>5 DEF FunctionAdded
    <3> QED BY <1>1, <2>1, <2>3, <2>5, <3>1, JitKept
  <2>6. JitInv'
    BY <2>2, <2>4, <2>5 DEF FunctionAdded
  <2>7. OwnInv'
    BY <1>1, <2>1, OwnKept DEF Stepped
  <2> QED BY <2>1, <2>6, <2>7 DEF CompilerInv, Stepped
<1>5. CASE CompileExpression
  <2>1. /\ Stepped /\ SameStatic(gen, gen')
        /\ (\E S : jit \in Seq(S)) => jit' = jit
    BY <1>1, <1>5, SteppedByExpression
  <2>2. pc = "repl" /\ host = "repl" /\ host' = host
    BY <1>1, <1>5 DEF CompileExpression, GenInv
  <2>3. jit' = jit
    BY <1>1, <2>1, <2>2 DEF JitInv
  <2>4. JitInv'
    BY <1>1, <2>1, <2>2, <2>3, SameStays, JitKept
  <2>5. OwnInv'
    BY <1>1, <2>1, OwnKept DEF Stepped
  <2> QED BY <2>1, <2>4, <2>5 DEF CompilerInv, Stepped
<1> QED BY <1>2, <1>3, <1>4, <1>5 DEF CNext

(* The invariant of the compiler: the codegenerator is in order, functions *)
(* are about their own values, and the JIT holds what the static module    *)
(* holds (src/core/codegen.cpp, src/repl/repl.cpp).                        *)
THEOREM CompilerInvariant ==
  ASSUME ParseRecursion, GenRecursion
  PROVE  CSpec => []CompilerInv
<1>1. CInit => CompilerInv
  BY CompilerInit
<1>2. CompilerInv /\ [CNext]_allvars => CompilerInv'
  <2>1. ASSUME CompilerInv, CNext PROVE CompilerInv'
    BY <2>1, CompilerStep
  <2>2. ASSUME CompilerInv, UNCHANGED allvars PROVE CompilerInv'
    <3>1. /\ gen' = gen /\ jit' = jit /\ host' = host /\ loose' = loose /\ pc' = pc
      BY <2>2 DEF allvars, vars, cvars
    <3> QED BY <2>2, <3>1 DEF CompilerInv, GenInv, OwnInv, JitInv, JitOf, ServedBy, Static,
                              Served
  <2> QED BY <2>1, <2>2
<1> QED BY <1>1, <1>2, PTL DEF CSpec

(* The variables and the scope belong to functions that exist, the builder *)
(* of each function is in one of its blocks.                               *)
THEOREM GenTyped ==
  ASSUME ParseRecursion, GenRecursion
  PROVE  CSpec => []GenTypeOK
<1>1. ASSUME CompilerInv PROVE GenTypeOK
  <2>1. State(gen) /\ host \in {"module", "repl"}
    BY <1>1 DEF CompilerInv, GenInv
  <2>2. ASSUME NEW name \in Served
        PROVE  LET body == Static[name].body
               IN  body.ip \in body.placed /\ body.placed \subseteq 1 .. Len(body.code)
    <3> DEFINE id == <<"static", name>>
    <3>1. Bodied(gen, id) /\ Fn(gen, id) = Static[name]
      BY <2>2, StaticIs DEF Served, Static
    <3>2. InOrder(Fn(gen, id).body)
      BY <2>1, <3>1, BodiedBody
    <3> HIDE DEF id
    <3> QED BY <3>1, <3>2 DEF InOrder
  <2>3. ASSUME NEW id, Lasts(gen, id) PROVE Exists(id)
    <3>1. ASSUME Bodied(gen, id), id[1] = "static" PROVE id[2] \in Served
      <4>1. id = <<"static", id[2]>>
        BY <3>1 DEF Bodied, Held, IsId
      <4>2. Bodied(gen, <<"static", id[2]>>)
        BY <3>1, <4>1
      <4> QED BY <4>2, StaticIs DEF Served
    <3> QED BY <2>3, <3>1 DEF Lasts, Belongs, Exists
  <2>4. gen.fault \in GenFaults /\ Variables(gen) /\ Lasts(gen, gen.scope)
    BY <2>1 DEF State, Shape
  <2> QED BY <2>1, <2>2, <2>3, <2>4 DEF GenTypeOK, GenFaults, Variables
<1> QED BY <1>1, CompilerInvariant, PTL

(* No instruction of a function is about a value of another one, although  *)
(* namedValues outlives each function and each text.                       *)
THEOREM OwnValuesHold ==
  ASSUME ParseRecursion, GenRecursion
  PROVE  CSpec => []OwnValues
<1>1. ASSUME CompilerInv PROVE OwnValues
  <2> SUFFICES ASSUME NEW name \in Served, <<"static", name>> \notin loose
               PROVE  LET body == Static[name].body
                      IN  \A b \in body.placed : \A k \in 1 .. Len(body.code[b]) :
                            body.code[b][k].op = "work" =>
                              body.code[b][k].what.of \subseteq {<<"static", name>>}
    BY DEF OwnValues
  <2> DEFINE id == <<"static", name>>
  <2>1. StaticId(id) /\ Bodied(gen, id) /\ Fn(gen, id) = Static[name]
    BY StaticIs DEF Served, Static
  <2>2. Own(Fn(gen, id).body, id)
    BY <1>1, <2>1 DEF CompilerInv, OwnInv
  <2>3. InOrder(Fn(gen, id).body)
    BY <1>1, <2>1, BodiedBody DEF CompilerInv, GenInv
  <2>4. id = <<"static", name>>
    OBVIOUS
  <2> HIDE DEF id
  <2> QED BY <2>1, <2>2, <2>3, <2>4 DEF Own, InOrder
<1> QED BY <1>1, CompilerInvariant, PTL

(* The type of each function is that of the prototype calls are checked    *)
(* against, unless an extern gave it another (getFunction and              *)
(* PrototypeAST::codegen of src/core).                                     *)
THEOREM SignaturesHold ==
  ASSUME ParseRecursion, GenRecursion
  PROVE  CSpec => []SignaturesAgree
<1>1. ASSUME CompilerInv PROVE SignaturesAgree
  <2> SUFFICES ASSUME NEW mod \in {"static", "anonymous"},
                      NEW name \in DOMAIN gen.mods[mod] \ (gen.redeclared \cup Handles(mod))
               PROVE  SameType(gen.mods[mod][name], FunctionOf(returnProto(gen, name)))
    BY DEF SignaturesAgree
  <2> DEFINE id == <<mod, name>>
  <2>1. Held(gen, id) /\ id[1] = mod /\ id[2] = name /\ Fn(gen, id) = gen.mods[mod][name]
    BY DEF Held, IsId, Erased, Modules, Fn
  <2>2. AgreesAt(gen, id)
    BY <1>1, <2>1 DEF CompilerInv, GenInv, State, Agree
  <2> HIDE DEF id
  <2> QED BY <2>1, <2>2 DEF AgreesAt
<1> QED BY <1>1, CompilerInvariant, PTL

(* Whatever lines came, the first module of the JIT that has a body for a  *)
(* function has its present one (handleFunction of src/repl/repl.cpp).     *)
THEOREM JitServes ==
  ASSUME ParseRecursion, GenRecursion
  PROVE  CSpec => []JitServesDefinitions
<1>1. ASSUME CompilerInv, host = "repl", pc = "ready", NEW name \in Served
      PROVE  \E k \in 1 .. Len(jit) :
               /\ name \in DOMAIN jit[k] /\ jit[k][name] = Static[name]
               /\ \A j \in 1 .. k - 1 : name \notin DOMAIN jit[j] \/ Empty(jit[j][name])
  <2> DEFINE Full(j) == name \in DOMAIN jit[j] /\ ~Empty(jit[j][name])
             Places == {j \in 1 .. Len(jit) : Full(j)}
  <2>1. PICK j \in 1 .. Len(jit) : ServedBy(j, name)
    BY <1>1 DEF CompilerInv, JitInv
  <2>2. Len(jit) \in Nat
    <3>1. PICK S : jit \in Seq(S)
      BY <1>1 DEF CompilerInv, JitInv
    <3> QED BY <3>1
  <2>3. ~Empty(Static[name])
    BY <1>1 DEF Served, Bodies, Static
  <2>4. j \in Places
    BY <2>1, <2>3 DEF ServedBy
  <2>5. Places \subseteq Nat
    BY <2>2
  <2>6. PICK k \in Places : \A i \in Places : k <= i
    BY <2>4, <2>5, LeastNat
  <2>7. k \in 1 .. Len(jit) /\ Full(k)
    BY <2>6
  <2>8. jit[k][name] = Static[name]
    BY <1>1, <2>7 DEF CompilerInv, JitInv, JitOf
  <2>9. ASSUME NEW i \in 1 .. k - 1 PROVE ~Full(i)
    <3>1. i \in 1 .. Len(jit) /\ ~(k <= i)
      BY <2>2, <2>7
    <3> QED BY <2>6, <3>1
  <2> QED BY <2>7, <2>8, <2>9
<1>2. ASSUME CompilerInv PROVE JitServesDefinitions
  BY <1>1, <1>2 DEF JitServesDefinitions, CompilerInv, JitInv, JitOf
<1> QED BY <1>2, CompilerInvariant, PTL

(* No text changes the code of a function once it was accepted (FunctionAST *)
(* refuses a second definition), but for code outside functions.           *)
THEOREM DefinedStaysAlways ==
  ASSUME ParseRecursion, GenRecursion
  PROVE  CSpec => DefinedStays
<1> DEFINE A == \A name \in Served :
                  <<"static", name>> \notin loose' /\ Sound(gen, <<"static", name>>)
                    => gen'.mods["static"][name] = Static[name]
<1>1. ASSUME CompilerInv, CNext PROVE A
  <2> SUFFICES ASSUME NEW name \in Served, <<"static", name>> \notin loose'
               PROVE  gen'.mods["static"][name] = Static[name]
    OBVIOUS
  <2> DEFINE id == <<"static", name>>
  <2>1. StaticId(id) /\ Bodied(gen, id) /\ Fn(gen, id) = Static[name]
    BY StaticIs DEF Served, Static
  <2>2. Fn(gen', id) = gen'.mods["static"][name]
    BY StaticIs
  <2>3. Stays(gen, gen', loose')
    BY <1>1, CompilerStep DEF Stepped
  <2> QED BY <2>1, <2>2, <2>3 DEF Stays
<1>2. CompilerInv /\ [CNext]_allvars => [A]_allvars
  BY <1>1
<1>3. DefinedStays <=> [][A]_allvars
  BY DEF DefinedStays
<1> HIDE DEF A
<1> QED BY <1>2, <1>3, CompilerInvariant, PTL DEF CSpec
=============================================================================
