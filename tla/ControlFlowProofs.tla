-------------------------- MODULE ControlFlowProofs --------------------------
(***************************************************************************)
(* What code generation leaves of the blocks of a function, for bodies of  *)
(* any length and depth: the types, and exactly which bodies the verifier  *)
(* accepts.                                                                *)
(***************************************************************************)
EXTENDS ControlFlow, SequenceTheorems, TLAPS

Ops == {"work", "br", "condbr", "ret", "retvoid"}
Roles == {"work", "init", "step", "test"}
Whats == Nat \cup {{}} \cup [event : Roles, id : Nat, holds : BOOLEAN]
Instrs == [op : Ops, what : Whats, to : Seq(Nat)]
Bodies == [code : Seq(Seq(Instrs)), placed : SUBSET Nat, ip : Nat]
All(f) == 1 .. Len(f.code)

(* The builder is in a block of the function. *)
InOrder(f) == /\ f \in Bodies
              /\ 1 \in f.placed /\ f.placed \subseteq All(f)
              /\ f.ip \in f.placed
-----------------------------------------------------------------------------
(* The instructions, and the operations on bodies. *)
LEMMA Instructions ==
  ASSUME NEW what \in Whats, NEW b \in Nat, NEW c \in Nat
  PROVE  /\ Work(what) \in Instrs /\ Work(what).op = "work" /\ Len(Work(what).to) = 0
         /\ Br(b) \in Instrs /\ Br(b).op = "br"
         /\ \A j \in 1 .. Len(Br(b).to) : Br(b).to[j] = b
         /\ CondBr(what, b, c) \in Instrs /\ CondBr(what, b, c).op = "condbr"
         /\ \A j \in 1 .. Len(CondBr(what, b, c).to) : CondBr(what, b, c).to[j] \in {b, c}
         /\ Ret(what) \in Instrs /\ Ret(what).op = "ret" /\ Len(Ret(what).to) = 0
         /\ RetVoid \in Instrs /\ RetVoid.op = "retvoid" /\ Len(RetVoid.to) = 0
<1>1. {} \in Whats
  BY DEF Whats
<1>2. Work(what) \in Instrs /\ Work(what).op = "work" /\ Len(Work(what).to) = 0
  BY DEF Work, Instruction, Instrs, Ops
<1>3. /\ Br(b) \in Instrs /\ Br(b).op = "br"
      /\ \A j \in 1 .. Len(Br(b).to) : Br(b).to[j] = b
  BY <1>1 DEF Br, Instruction, Instrs, Ops
<1>4. /\ CondBr(what, b, c) \in Instrs /\ CondBr(what, b, c).op = "condbr"
      /\ \A j \in 1 .. Len(CondBr(what, b, c).to) : CondBr(what, b, c).to[j] \in {b, c}
  BY DEF CondBr, Instruction, Instrs, Ops
<1>5. Ret(what) \in Instrs /\ Ret(what).op = "ret" /\ Len(Ret(what).to) = 0
  BY DEF Ret, Instruction, Instrs, Ops
<1>6. RetVoid \in Instrs /\ RetVoid.op = "retvoid" /\ Len(RetVoid.to) = 0
  BY <1>1 DEF RetVoid, Instruction, Instrs, Ops
<1> QED
  BY <1>2, <1>3, <1>4, <1>5, <1>6

(* A new block is empty and in no function. *)
LEMMA Creates ==
  ASSUME NEW f, f \in Bodies
  PROVE  LET g == Create(f)
         IN  /\ g \in Bodies /\ g.placed = f.placed /\ g.ip = f.ip
             /\ Len(g.code) = Len(f.code) + 1
             /\ \A b \in All(f) : g.code[b] = f.code[b]
             /\ g.code[Len(f.code) + 1] = <<>>
<1>1. <<>> \in Seq(Instrs)
  OBVIOUS
<1>2. f.code \in Seq(Seq(Instrs))
  BY DEF Bodies
<1>3. Append(f.code, <<>>) \in Seq(Seq(Instrs))
  BY <1>1, <1>2
<1>4. /\ Create(f).code = Append(f.code, <<>>)
      /\ Create(f).placed = f.placed /\ Create(f).ip = f.ip
  BY DEF Create, Bodies
<1>5. Create(f) \in Bodies
  BY <1>3 DEF Create, Bodies
<1> QED
  BY <1>1, <1>2, <1>4, <1>5 DEF All

(* An instruction goes to the end of the block the builder is in. *)
LEMMA Emits ==
  ASSUME NEW f, f \in Bodies, f.ip \in All(f), NEW i \in Instrs
  PROVE  LET g == Emit(f, i)
         IN  /\ g \in Bodies /\ g.placed = f.placed /\ g.ip = f.ip
             /\ Len(g.code) = Len(f.code)
             /\ \A b \in All(f) \ {f.ip} : g.code[b] = f.code[b]
             /\ g.code[f.ip] = Append(f.code[f.ip], i)
<1> DEFINE c == [f.code EXCEPT ![f.ip] = Append(f.code[f.ip], i)]
<1>1. f.code \in Seq(Seq(Instrs)) /\ f.code[f.ip] \in Seq(Instrs)
  BY DEF Bodies, All
<1>2. Append(f.code[f.ip], i) \in Seq(Instrs)
  BY <1>1
<1>3. c \in Seq(Seq(Instrs)) /\ Len(c) = Len(f.code)
  BY <1>1, <1>2 DEF All
<1>4. Emit(f, i) = [f EXCEPT !.code = c]
  BY DEF Emit, Bodies
<1>5. c[f.ip] = Append(f.code[f.ip], i) /\ \A b \in All(f) \ {f.ip} : c[b] = f.code[b]
  BY <1>1 DEF All
<1> HIDE DEF c
<1>6. [f EXCEPT !.code = c] \in Bodies /\ [f EXCEPT !.code = c].code = c
      /\ [f EXCEPT !.code = c].placed = f.placed /\ [f EXCEPT !.code = c].ip = f.ip
  BY <1>3 DEF Bodies
<1> QED
  BY <1>3, <1>4, <1>5, <1>6

(* A block enters the function; the builder goes to a block. *)
LEMMA Places ==
  ASSUME NEW f, f \in Bodies, NEW b \in Nat
  PROVE  /\ Place(f, b) \in Bodies /\ Place(f, b).code = f.code
         /\ Place(f, b).placed = f.placed \cup {b} /\ Place(f, b).ip = f.ip
         /\ At(f, b) \in Bodies /\ At(f, b).code = f.code
         /\ At(f, b).placed = f.placed /\ At(f, b).ip = b
BY DEF Place, At, Bodies
-----------------------------------------------------------------------------
(* From f to g the builder has closed its block, with a branch to targets, *)
(* and made new blocks.                                                    *)
IsJump(i, targets) == /\ i.op \in {"br", "condbr"}
                      /\ \A j \in 1 .. Len(i.to) : i.to[j] \in targets
Jumped(f, g, targets) ==
  /\ g \in Bodies
  /\ Len(f.code) <= Len(g.code)
  /\ \E i \in Instrs : IsJump(i, targets) /\ g.code[f.ip] = Append(f.code[f.ip], i)
  /\ \A b \in All(f) \ {f.ip} : g.code[b] = f.code[b]
  /\ \A b \in All(g) \ All(f) : g.code[b] = <<>>

(* The way into then. *)
LEMMA IfHeads ==
  ASSUME NEW f, f \in Bodies, f.ip \in All(f), NEW c \in Whats
  PROVE  LET g == IfHead(f, c)
             n == Len(f.code)
         IN  /\ Jumped(f, g, {n + 1, n + 2}) /\ Len(g.code) = n + 3
             /\ g.placed = f.placed \cup {n + 1} /\ g.ip = n + 1
             /\ g.code[f.ip] = Append(f.code[f.ip], CondBr(c, n + 1, n + 2))
<1> DEFINE n == Len(f.code)
           g1 == Create(f)
           g2 == Create(g1)
           g3 == Create(g2)
           g4 == Place(g3, n + 1)
           i == CondBr(c, n + 1, n + 2)
           g5 == Emit(g4, i)
           g6 == At(g5, n + 1)
<1>0. n \in Nat /\ n + 1 \in Nat /\ n + 2 \in Nat
  BY DEF Bodies
<1>1. /\ g1 \in Bodies /\ g1.placed = f.placed /\ g1.ip = f.ip
      /\ Len(g1.code) = n + 1
      /\ \A b \in All(f) : g1.code[b] = f.code[b]
      /\ g1.code[n + 1] = <<>>
  BY Creates
<1>2. /\ g2 \in Bodies /\ g2.placed = g1.placed /\ g2.ip = g1.ip
      /\ Len(g2.code) = Len(g1.code) + 1
      /\ \A b \in All(g1) : g2.code[b] = g1.code[b]
      /\ g2.code[Len(g1.code) + 1] = <<>>
  BY ONLY <1>1, Creates
<1>3. /\ g3 \in Bodies /\ g3.placed = g2.placed /\ g3.ip = g2.ip
      /\ Len(g3.code) = Len(g2.code) + 1
      /\ \A b \in All(g2) : g3.code[b] = g2.code[b]
      /\ g3.code[Len(g2.code) + 1] = <<>>
  BY ONLY <1>2, Creates
<1>4. /\ g4 \in Bodies /\ g4.code = g3.code /\ g4.placed = g3.placed \cup {n + 1}
      /\ g4.ip = g3.ip
  BY ONLY <1>0, <1>3, Places
<1>5. i \in Instrs /\ IsJump(i, {n + 1, n + 2})
  BY <1>0, Instructions DEF IsJump
<1> HIDE DEF g1, g2, g3, g4, i
<1>6. /\ g5 \in Bodies /\ g5.placed = g4.placed /\ g5.ip = g4.ip
      /\ Len(g5.code) = Len(g4.code)
      /\ \A b \in All(g4) \ {g4.ip} : g5.code[b] = g4.code[b]
      /\ g5.code[g4.ip] = Append(g4.code[g4.ip], i)
  <2>1. g4.ip \in All(g4)
    BY <1>0, <1>1, <1>2, <1>3, <1>4 DEF All
  <2> QED BY <1>4, <1>5, <2>1, Emits
<1> HIDE DEF g5
<1>7. g6 \in Bodies /\ g6.code = g5.code /\ g6.placed = g5.placed /\ g6.ip = n + 1
  BY <1>0, <1>6, Places
<1> HIDE DEF g6
<1>8. /\ Len(g6.code) = n + 3
      /\ g6.placed = f.placed \cup {n + 1}
      /\ g6.code[f.ip] = Append(f.code[f.ip], i)
      /\ \A b \in All(f) \ {f.ip} : g6.code[b] = f.code[b]
      /\ \A b \in All(g6) \ All(f) : g6.code[b] = <<>>
  <2>1. Len(g6.code) = n + 3 /\ g4.ip = f.ip
    BY <1>0, <1>1, <1>2, <1>3, <1>4, <1>6, <1>7
  <2>2. g6.placed = f.placed \cup {n + 1}
    BY <1>1, <1>2, <1>3, <1>4, <1>6, <1>7
  <2>3. \A b \in All(f) : g4.code[b] = f.code[b]
    BY <1>0, <1>1, <1>2, <1>3, <1>4 DEF All
  <2>4. g4.code[n + 1] = <<>> /\ g4.code[n + 2] = <<>> /\ g4.code[n + 3] = <<>>
    <3>1. Len(g1.code) = n + 1 /\ Len(g2.code) = n + 2
      BY <1>0, <1>1, <1>2
    <3>2. g1.code[n + 1] = <<>> /\ g2.code[n + 2] = <<>> /\ g3.code[n + 3] = <<>>
      BY <1>0, <1>1, <1>2, <1>3, <3>1
    <3>3. n + 1 \in All(g1) /\ n + 1 \in All(g2) /\ n + 2 \in All(g2)
      BY <1>0, <3>1 DEF All
    <3> QED
      BY <1>2, <1>3, <1>4, <3>2, <3>3
  <2>5. \A b \in 1 .. n + 3 : b # f.ip => g6.code[b] = g4.code[b]
    BY <1>0, <1>6, <1>7, <2>1 DEF All
  <2>6. g6.code[f.ip] = Append(f.code[f.ip], i)
    BY <1>6, <1>7, <2>1, <2>3
  <2>7. \A b \in All(g6) \ All(f) : b \in {n + 1, n + 2, n + 3} /\ b # f.ip
    BY <1>0, <2>1 DEF All
  <2>8. \A b \in All(g6) \ All(f) : g6.code[b] = <<>>
    BY <1>0, <2>4, <2>5, <2>7
  <2> QED
    BY <1>0, <2>1, <2>2, <2>3, <2>5, <2>6, <2>8 DEF All
<1>9. Jumped(f, g6, {n + 1, n + 2})
  <2>1. Len(f.code) <= Len(g6.code)
    BY <1>0, <1>8
  <2> QED
    BY <1>5, <1>6, <1>7, <1>8, <2>1 DEF Jumped
<1>10. IfHead(f, c) = g6
  BY DEF IfHead, Fresh, g1, g2, g3, g4, g5, g6, i
<1> QED
  BY <1>7, <1>8, <1>9, <1>10 DEF i

(* From then to else. *)
LEMMA IfElses ==
  ASSUME NEW f, f \in Bodies, f.ip \in All(f), NEW else \in Nat, NEW merge \in Nat
  PROVE  LET g == IfElse(f, else, merge)
         IN  /\ Jumped(f, g, {merge}) /\ Len(g.code) = Len(f.code)
             /\ g.placed = f.placed \cup {else} /\ g.ip = else
<1> DEFINE i == Br(merge)
           g1 == Emit(f, i)
           g2 == Place(g1, else)
           g3 == At(g2, else)
<1>1. i \in Instrs /\ IsJump(i, {merge})
  <2>1. {} \in Whats
    BY DEF Whats
  <2> QED
    BY <2>1, Instructions DEF IsJump
<1> HIDE DEF i
<1>2. /\ g1 \in Bodies /\ g1.placed = f.placed /\ g1.ip = f.ip
      /\ Len(g1.code) = Len(f.code)
      /\ \A b \in All(f) \ {f.ip} : g1.code[b] = f.code[b]
      /\ g1.code[f.ip] = Append(f.code[f.ip], i)
  BY <1>1, Emits
<1> HIDE DEF g1
<1>3. g2 \in Bodies /\ g2.code = g1.code /\ g2.placed = g1.placed \cup {else}
  BY <1>2, Places
<1> HIDE DEF g2
<1>4. g3 \in Bodies /\ g3.code = g2.code /\ g3.placed = g2.placed /\ g3.ip = else
  BY <1>3, Places
<1> HIDE DEF g3
<1>5. Jumped(f, g3, {merge})
  <2>1. Len(g3.code) = Len(f.code) /\ Len(f.code) \in Nat
    BY <1>2, <1>3, <1>4 DEF Bodies
  <2>2. All(g3) \ All(f) = {}
    BY <2>1 DEF All
  <2> QED
    BY <1>1, <1>2, <1>3, <1>4, <2>1, <2>2 DEF Jumped
<1>6. IfElse(f, else, merge) = g3
  BY DEF IfElse, g1, g2, g3, i
<1> QED
  BY <1>2, <1>3, <1>4, <1>5, <1>6

LEMMA IfElseJumps ==
  ASSUME NEW f, f \in Bodies, f.ip \in All(f), NEW else \in Nat, NEW merge \in Nat
  PROVE  IfElse(f, else, merge).code[f.ip] = Append(f.code[f.ip], Br(merge))
<1> DEFINE g1 == Emit(f, Br(merge))
           g2 == Place(g1, else)
<1>1. Br(merge) \in Instrs
  BY Instructions DEF Whats
<1>2. g1 \in Bodies /\ g1.code[f.ip] = Append(f.code[f.ip], Br(merge))
  BY <1>1, Emits
<1> HIDE DEF g1
<1>3. g2 \in Bodies /\ g2.code = g1.code
  BY <1>2, Places
<1> HIDE DEF g2
<1>4. At(g2, else).code = g2.code
  BY <1>3, Places
<1>5. IfElse(f, else, merge) = At(g2, else)
  BY DEF IfElse, g1, g2
<1> QED
  BY <1>2, <1>3, <1>4, <1>5

(* IfEnd with and without a jump. *)
LEMMA IfEnds ==
  ASSUME NEW f, f \in Bodies, f.ip \in All(f), NEW merge \in Nat
  PROVE  /\ IfEnd(f, merge, TRUE) = IfElse(f, merge, merge)
         /\ LET g == IfEnd(f, merge, FALSE)
            IN  /\ g \in Bodies /\ g.code = f.code
                /\ g.placed = f.placed \cup {merge} /\ g.ip = merge
<1>1. IfEnd(f, merge, TRUE) = IfElse(f, merge, merge)
  BY DEF IfEnd, IfElse
<1> DEFINE p == Place(f, merge)
           g == At(p, merge)
<1>2. p \in Bodies /\ p.code = f.code /\ p.placed = f.placed \cup {merge}
  BY Places
<1>3. IfEnd(f, merge, FALSE) = g
  BY DEF IfEnd
<1> HIDE DEF p
<1>4. g \in Bodies /\ g.code = p.code /\ g.placed = p.placed /\ g.ip = merge
  BY <1>2, Places
<1> QED
  BY <1>1, <1>2, <1>3, <1>4

(* The way into a loop. *)
LEMMA ForEnters ==
  ASSUME NEW f, f \in Bodies, f.ip \in All(f), NEW c \in Whats
  PROVE  LET n == Len(f.code)
             g == ForEnter(ForBlocks(f), c, n + 1, n + 2)
         IN  /\ Jumped(f, g, {n + 1, n + 2}) /\ Len(g.code) = n + 2
             /\ g.placed = f.placed \cup {n + 1, n + 2} /\ g.ip = n + 1
             /\ g.code[f.ip] = Append(f.code[f.ip], CondBr(c, n + 1, n + 2))
<1> DEFINE n == Len(f.code)
           n1 == n + 1
           n2 == n + 2
           g1 == Create(f)
           g2 == Create(g1)
           g3 == Place(g2, n1)
           g4 == Place(g3, n2)
           i == CondBr(c, n + 1, n + 2)
           g5 == Emit(g4, i)
           g6 == At(g5, n + 1)
<1>0. n \in Nat /\ n1 \in Nat /\ n2 \in Nat
  BY DEF Bodies
<1>1. /\ g1 \in Bodies /\ g1.placed = f.placed /\ g1.ip = f.ip
      /\ Len(g1.code) = n + 1
      /\ \A b \in All(f) : g1.code[b] = f.code[b]
      /\ g1.code[n + 1] = <<>>
  BY Creates
<1>2. /\ g2 \in Bodies /\ g2.placed = g1.placed /\ g2.ip = g1.ip
      /\ Len(g2.code) = Len(g1.code) + 1
      /\ \A b \in All(g1) : g2.code[b] = g1.code[b]
      /\ g2.code[Len(g1.code) + 1] = <<>>
  BY ONLY <1>1, Creates
<1> HIDE DEF g1, g2, n1, n2
<1>3. /\ g3 \in Bodies /\ g3.code = g2.code /\ g3.placed = g2.placed \cup {n1}
      /\ g3.ip = g2.ip
  BY <1>0, <1>2, Places
<1> HIDE DEF g3
<1>4. /\ g4 \in Bodies /\ g4.code = g3.code /\ g4.placed = g3.placed \cup {n2}
      /\ g4.ip = g3.ip
  <2> HIDE DEF i, g5, g6
  <2>1. g3 \in Bodies /\ n2 \in Nat
    BY <1>0, <1>3
  <2> QED
    BY <2>1, Places
<1>5. i \in Instrs /\ IsJump(i, {n + 1, n + 2})
  BY <1>0, Instructions DEF IsJump, n1, n2
<1> HIDE DEF g4, i
<1> USE DEF n1, n2
<1>6. /\ g5 \in Bodies /\ g5.placed = g4.placed /\ g5.ip = g4.ip
      /\ Len(g5.code) = Len(g4.code)
      /\ \A b \in All(g4) \ {g4.ip} : g5.code[b] = g4.code[b]
      /\ g5.code[g4.ip] = Append(g4.code[g4.ip], i)
  <2>1. g4.ip \in All(g4)
    BY <1>0, <1>1, <1>2, <1>3, <1>4 DEF All
  <2> QED BY <1>4, <1>5, <2>1, Emits
<1> HIDE DEF g5
<1>7. g6 \in Bodies /\ g6.code = g5.code /\ g6.placed = g5.placed /\ g6.ip = n + 1
  BY <1>0, <1>6, Places
<1> HIDE DEF g6
<1>8. /\ Len(g6.code) = n + 2
      /\ g6.placed = f.placed \cup {n + 1, n + 2}
      /\ g6.code[f.ip] = Append(f.code[f.ip], i)
      /\ \A b \in All(f) \ {f.ip} : g6.code[b] = f.code[b]
      /\ \A b \in All(g6) \ All(f) : g6.code[b] = <<>>
  <2>1. Len(g6.code) = n + 2 /\ g4.ip = f.ip
    BY <1>0, <1>1, <1>2, <1>3, <1>4, <1>6, <1>7
  <2>2. g6.placed = f.placed \cup {n + 1, n + 2}
    BY <1>1, <1>2, <1>3, <1>4, <1>6, <1>7
  <2>3. \A b \in All(f) : g4.code[b] = f.code[b]
    BY <1>0, <1>1, <1>2, <1>3, <1>4 DEF All
  <2>4. g4.code[n + 1] = <<>> /\ g4.code[n + 2] = <<>>
    <3>1. n + 1 \in All(g1)
      BY <1>0, <1>1 DEF All
    <3> QED
      BY <1>0, <1>1, <1>2, <1>3, <1>4, <3>1
  <2>5. \A b \in 1 .. n + 2 : b # f.ip => g6.code[b] = g4.code[b]
    BY <1>0, <1>1, <1>2, <1>3, <1>4, <1>6, <1>7, <2>1 DEF All
  <2>6. g6.code[f.ip] = Append(f.code[f.ip], i)
    BY <1>6, <1>7, <2>1, <2>3
  <2>7. \A b \in All(g6) \ All(f) : b \in {n + 1, n + 2} /\ b # f.ip
    BY <1>0, <2>1 DEF All
  <2>8. \A b \in All(g6) \ All(f) : g6.code[b] = <<>>
    BY <1>0, <2>4, <2>5, <2>7
  <2> QED
    BY <1>0, <2>1, <2>2, <2>3, <2>5, <2>6, <2>8 DEF All
<1>9. Jumped(f, g6, {n + 1, n + 2})
  <2>1. Len(f.code) <= Len(g6.code)
    BY <1>0, <1>8
  <2> QED
    BY <1>5, <1>6, <1>7, <1>8, <2>1 DEF Jumped
<1>10. ForEnter(ForBlocks(f), c, n + 1, n + 2) = g6
  BY DEF ForEnter, ForBlocks, Fresh, g1, g2, g3, g4, g5, g6, i
<1> QED
  BY <1>7, <1>8, <1>9, <1>10 DEF i

(* Its back edge. *)
LEMMA ForEnds ==
  ASSUME NEW f, f \in Bodies, f.ip \in All(f), NEW c \in Whats, NEW after \in Nat
  PROVE  LET g == ForEnd(f, c, after)
         IN  /\ Jumped(f, g, {f.ip, after}) /\ Len(g.code) = Len(f.code)
             /\ g.placed = f.placed /\ g.ip = after
             /\ g.code[f.ip] = Append(f.code[f.ip], CondBr(c, f.ip, after))
<1> DEFINE i == CondBr(c, f.ip, after)
           g1 == Emit(f, i)
           g2 == At(g1, after)
<1>1. i \in Instrs /\ IsJump(i, {f.ip, after})
  <2>1. f.ip \in Nat
    BY DEF Bodies
  <2> QED
    BY <2>1, Instructions DEF IsJump
<1> HIDE DEF i
<1>2. /\ g1 \in Bodies /\ g1.placed = f.placed /\ g1.ip = f.ip
      /\ Len(g1.code) = Len(f.code)
      /\ \A b \in All(f) \ {f.ip} : g1.code[b] = f.code[b]
      /\ g1.code[f.ip] = Append(f.code[f.ip], i)
  BY <1>1, Emits
<1> HIDE DEF g1
<1>3. g2 \in Bodies /\ g2.code = g1.code /\ g2.placed = g1.placed /\ g2.ip = after
  BY <1>2, Places
<1> HIDE DEF g2
<1>4. Jumped(f, g2, {f.ip, after})
  <2>1. Len(g2.code) = Len(f.code) /\ Len(f.code) \in Nat
    BY <1>2, <1>3 DEF Bodies
  <2>2. All(g2) \ All(f) = {}
    BY <2>1 DEF All
  <2> QED
    BY <1>1, <1>2, <1>3, <2>1, <2>2 DEF Jumped
<1>5. ForEnd(f, c, after) = g2
  BY DEF ForEnd, g1, g2, i
<1> QED
  BY <1>2, <1>3, <1>4, <1>5 DEF i
-----------------------------------------------------------------------------
(* Terminators in a block, and what one more instruction does to them.     *)
NoTerm(c) == \A k \in 1 .. Len(c) : ~IsTerminator(c[k])
Inner(c) == \E k \in 1 .. Len(c) : k < Len(c) /\ IsTerminator(c[k])

(* A block and one more instruction. *)
LEMMA Appending ==
  ASSUME NEW c \in Seq(Instrs), NEW i \in Instrs
  PROVE  LET d == Append(c, i)
         IN  /\ d \in Seq(Instrs) /\ Len(c) \in Nat /\ Len(d) = Len(c) + 1
             /\ d[Len(c) + 1] = i /\ \A k \in 1 .. Len(c) : d[k] = c[k]
OBVIOUS

(* What that is to terminators. *)
LEMMA Closings ==
  ASSUME NEW c \in Seq(Instrs), NEW i \in Instrs
  PROVE  LET d == Append(c, i)
         IN  /\ NoTerm(c) /\ IsTerminator(i) => Closed(d)
             /\ NoTerm(c) /\ ~IsTerminator(i) => NoTerm(d)
             /\ Closed(c) => Inner(d)
             /\ Inner(c) => Inner(d)
             /\ Closed(c) => ~NoTerm(c) /\ ~Inner(c) /\ c # <<>>
<1> DEFINE d == Append(c, i)
<1>1. /\ d \in Seq(Instrs) /\ Len(c) \in Nat /\ Len(d) = Len(c) + 1
      /\ d[Len(c) + 1] = i /\ \A k \in 1 .. Len(c) : d[k] = c[k]
  BY Appending
<1> HIDE DEF d
<1>2. NoTerm(c) /\ IsTerminator(i) => Closed(d)
  BY <1>1 DEF NoTerm, Closed
<1>3. NoTerm(c) /\ ~IsTerminator(i) => NoTerm(d)
  BY <1>1 DEF NoTerm
<1>4. Closed(c) => Len(c) \in 1 .. Len(c) /\ IsTerminator(c[Len(c)])
  BY <1>1 DEF Closed
<1>5. Closed(c) => Inner(d)
  BY <1>1, <1>4 DEF Inner
<1>6. Inner(c) => Inner(d)
  BY <1>1 DEF Inner
<1>7. Closed(c) => ~NoTerm(c) /\ ~Inner(c) /\ c # <<>>
  BY <1>1, <1>4 DEF NoTerm, Inner, Closed
<1> QED
  BY <1>2, <1>3, <1>5, <1>6, <1>7 DEF d
-----------------------------------------------------------------------------
(* The inductive invariant of a body f under construction.  P are the      *)
(* blocks that open constructs will go on in: they are empty, and the      *)
(* builder is in none of them.  h, late and bare are the variables.        *)
Shape(f, P) ==
  /\ InOrder(f)
  /\ P \subseteq All(f) \ {1} /\ f.ip \notin P
  /\ P # {} => f.ip # 1
  /\ \A b \in P : f.code[b] = <<>>
(* Branches go to blocks that are in the function or will be. *)
Targets(f, P) ==
  \A b \in All(f) : \A k \in 1 .. Len(f.code[b]) :
    \A j \in 1 .. Len(f.code[b][k].to) : f.code[b][k].to[j] \in (f.placed \cup P) \ {1}
(* The blocks the builder has left for good.                               *)
Rest(f, P) == f.placed \ (P \cup {f.ip})
Finished(f, P, late_, bare_) ==
  ~bare_ /\ ~late_ => \A b \in Rest(f, P) : Closed(f.code[b])
(* The block it is in. *)
Opened(f, late_, h) ==
  /\ ~h => NoTerm(f.code[f.ip])
  /\ h /\ ~late_ => Closed(f.code[f.ip])
(* An if without else leaves an empty block, code after a return a block   *)
(* with a terminator inside.                                               *)
Gap(f, P, bare_) == bare_ => \E b \in Rest(f, P) : f.code[b] = <<>>
Dead(f, late_, h) == late_ => h /\ \E b \in f.placed : Inner(f.code[b])
Rets(f, h) ==
  /\ \A b \in All(f) : \A k \in 1 .. Len(f.code[b]) :
       f.code[b][k].op # "retvoid" /\ (f.code[b][k].op = "ret" => h)
  /\ h => \E b \in f.placed : \E k \in 1 .. Len(f.code[b]) : f.code[b][k].op = "ret"

Sane(f, P, late_, bare_, h) ==
  /\ Shape(f, P) /\ Targets(f, P)
  /\ Finished(f, P, late_, bare_) /\ Opened(f, late_, h)
  /\ Gap(f, P, bare_) /\ Dead(f, late_, h) /\ Rets(f, h)

(* g is f with instruction i at the insert point, and more blocks. *)
Grown(f, g, i) ==
  /\ g \in Bodies /\ Len(f.code) <= Len(g.code)
  /\ g.code[f.ip] = Append(f.code[f.ip], i)
  /\ \A b \in All(f) \ {f.ip} : g.code[b] = f.code[b]
  /\ \A b \in All(g) \ All(f) : g.code[b] = <<>>
  /\ f.placed \subseteq g.placed /\ g.placed \subseteq All(g)

(* Each instruction of g is one of f, or i. *)
LEMMA GrownBlocks ==
  ASSUME NEW f, NEW g, NEW i \in Instrs, NEW P, Shape(f, P), Grown(f, g, i)
  PROVE  /\ f.ip \in All(f) /\ f.code[f.ip] \in Seq(Instrs) /\ All(f) \subseteq All(g)
         /\ \A b \in All(f) : f.code[b] \in Seq(Instrs)
         /\ Len(f.code[f.ip]) \in Nat /\ Len(g.code[f.ip]) = Len(f.code[f.ip]) + 1
         /\ g.code[f.ip][Len(f.code[f.ip]) + 1] = i
         /\ \A b \in All(f) : \A k \in 1 .. Len(f.code[b]) :
              k \in 1 .. Len(g.code[b]) /\ g.code[b][k] = f.code[b][k]
         /\ \A b \in All(g) : \A k \in 1 .. Len(g.code[b]) :
              \/ b \in All(f) /\ k \in 1 .. Len(f.code[b]) /\ g.code[b][k] = f.code[b][k]
              \/ b = f.ip /\ g.code[b][k] = i
<1>1. f \in Bodies /\ f.ip \in All(f)
  BY DEF Shape, InOrder
<1>2. Len(f.code) \in Nat /\ Len(g.code) \in Nat /\ Len(f.code) <= Len(g.code)
  BY <1>1 DEF Grown, Bodies
<1>3. All(f) \subseteq All(g)
  BY <1>2 DEF All
<1>4. \A b \in All(f) : f.code[b] \in Seq(Instrs)
  BY <1>1 DEF Bodies, All
<1> DEFINE c == f.code[f.ip]
           d == g.code[f.ip]
<1>5. c \in Seq(Instrs) /\ d = Append(c, i)
  BY <1>1, <1>4 DEF Grown
<1> HIDE DEF c, d
<1>6. /\ Len(c) \in Nat /\ Len(d) = Len(c) + 1
      /\ d[Len(c) + 1] = i /\ \A k \in 1 .. Len(c) : d[k] = c[k]
  BY <1>5, Appending
<1>7. \A k \in 1 .. Len(c) : k \in 1 .. Len(d) /\ d[k] = c[k]
  BY <1>6
<1>8. \A k \in 1 .. Len(d) : (k \in 1 .. Len(c) /\ d[k] = c[k]) \/ d[k] = i
  BY <1>6
<1>9. /\ \A b \in All(f) \ {f.ip} : g.code[b] = f.code[b]
      /\ \A b \in All(g) \ All(f) : g.code[b] = <<>>
  BY DEF Grown
<1>10. \A b \in All(g) \ All(f) : \A k \in 1 .. Len(g.code[b]) : FALSE
  BY <1>9
<1>11. \A b \in All(f) : \A k \in 1 .. Len(f.code[b]) :
         k \in 1 .. Len(g.code[b]) /\ g.code[b][k] = f.code[b][k]
  BY <1>7, <1>9 DEF c, d
<1>12. \A b \in All(g) : \A k \in 1 .. Len(g.code[b]) :
         \/ b \in All(f) /\ k \in 1 .. Len(f.code[b]) /\ g.code[b][k] = f.code[b][k]
         \/ b = f.ip /\ g.code[b][k] = i
  <2> TAKE b \in All(g)
  <2> TAKE k \in 1 .. Len(g.code[b])
  <2>1. CASE b = f.ip
    BY <2>1, <1>1, <1>8 DEF c, d
  <2>2. CASE b \in All(f) \ {f.ip}
    BY <2>2, <1>9
  <2>3. CASE b \notin All(f)
    BY <2>3, <1>10
  <2> QED
    BY <2>1, <2>2, <2>3
<1> QED
  BY <1>1, <1>3, <1>4, <1>5, <1>6, <1>11, <1>12 DEF c, d

(* Branches stay inside. *)
LEMMA GrownTargets ==
  ASSUME NEW f, NEW g, NEW i \in Instrs, NEW P, NEW Q,
         Shape(f, P), Targets(f, P), Grown(f, g, i),
         f.placed \cup P \subseteq g.placed \cup Q,
         \A j \in 1 .. Len(i.to) : i.to[j] \in (g.placed \cup Q) \ {1}
  PROVE  Targets(g, Q)
<1> SUFFICES ASSUME NEW b \in All(g), NEW k \in 1 .. Len(g.code[b]),
                    NEW j \in 1 .. Len(g.code[b][k].to)
             PROVE  g.code[b][k].to[j] \in (g.placed \cup Q) \ {1}
  BY DEF Targets
<1>1. \/ b \in All(f) /\ k \in 1 .. Len(f.code[b]) /\ g.code[b][k] = f.code[b][k]
      \/ g.code[b][k] = i
  BY GrownBlocks
<1>2. CASE b \in All(f) /\ k \in 1 .. Len(f.code[b]) /\ g.code[b][k] = f.code[b][k]
  <2>1. f.code[b][k].to[j] \in (f.placed \cup P) \ {1}
    BY <1>2 DEF Targets
  <2> QED
    BY <1>2, <2>1
<1> QED
  BY <1>1, <1>2

(* Code after a return leaves a terminator inside a block. *)
LEMMA GrownHistory ==
  ASSUME NEW f, NEW g, NEW i \in Instrs, NEW P, NEW late_ \in BOOLEAN, NEW h \in BOOLEAN,
         Shape(f, P), Opened(f, late_, h), Dead(f, late_, h), Grown(f, g, i)
  PROVE  Dead(g, late_ \/ h, h)
<1> SUFFICES ASSUME late_ \/ h
             PROVE  h /\ \E b \in g.placed : Inner(g.code[b])
  BY DEF Dead
<1>1. f.ip \in f.placed /\ f.placed \subseteq All(f) /\ f.placed \subseteq g.placed
  BY DEF Shape, InOrder, Grown
<1>2. \A b \in All(f) : f.code[b] \in Seq(Instrs)
  BY GrownBlocks
<1>3. g.code[f.ip] = Append(f.code[f.ip], i) /\ \A b \in All(f) \ {f.ip} : g.code[b] = f.code[b]
  BY DEF Grown
<1>4. CASE late_
  <2>1. h
    BY <1>4 DEF Dead
  <2>2. PICK b \in f.placed : Inner(f.code[b])
    BY <1>4 DEF Dead
  <2>3. CASE b = f.ip
    <3>1. Inner(Append(f.code[b], i))
      BY <1>1, <1>2, <2>2, Closings
    <3> QED
      BY <1>1, <1>3, <2>1, <2>3, <3>1
  <2>4. CASE b # f.ip
    BY <1>1, <1>3, <2>1, <2>2, <2>4
  <2> QED
    BY <2>3, <2>4
<1>5. CASE ~late_
  <2>1. h /\ Closed(f.code[f.ip])
    BY <1>5 DEF Opened
  <2>2. Inner(Append(f.code[f.ip], i))
    BY <1>1, <1>2, <2>1, Closings
  <2> QED
    BY <1>1, <1>3, <2>1, <2>2
<1> QED
  BY <1>4, <1>5

(* Only a return statement returns a value. *)
LEMMA GrownRets ==
  ASSUME NEW f, NEW g, NEW i \in Instrs, NEW P, NEW h \in BOOLEAN,
         Shape(f, P), Rets(f, h), Grown(f, g, i), i.op # "retvoid"
  PROVE  Rets(g, h \/ i.op = "ret")
<1>1. f.ip \in f.placed /\ f.placed \subseteq All(f) /\ f.placed \subseteq g.placed
  BY DEF Shape, InOrder, Grown
<1>2. ASSUME NEW b \in All(g), NEW k \in 1 .. Len(g.code[b])
      PROVE  g.code[b][k].op # "retvoid" /\ (g.code[b][k].op = "ret" => h \/ i.op = "ret")
  <2>1. \/ b \in All(f) /\ k \in 1 .. Len(f.code[b]) /\ g.code[b][k] = f.code[b][k]
        \/ g.code[b][k] = i
    BY GrownBlocks
  <2> QED
    BY <2>1 DEF Rets
<1>3. ASSUME h PROVE \E b \in g.placed : \E k \in 1 .. Len(g.code[b]) : g.code[b][k].op = "ret"
  <2>1. PICK b \in f.placed : \E k \in 1 .. Len(f.code[b]) : f.code[b][k].op = "ret"
    BY <1>3 DEF Rets
  <2>2. PICK k \in 1 .. Len(f.code[b]) : f.code[b][k].op = "ret"
    BY <2>1
  <2>3. k \in 1 .. Len(g.code[b]) /\ g.code[b][k] = f.code[b][k]
    BY <1>1, GrownBlocks
  <2> QED
    BY <1>1, <2>2, <2>3
<1>4. ASSUME i.op = "ret"
      PROVE  \E b \in g.placed : \E k \in 1 .. Len(g.code[b]) : g.code[b][k].op = "ret"
  <2>1. /\ Len(f.code[f.ip]) \in Nat /\ Len(g.code[f.ip]) = Len(f.code[f.ip]) + 1
        /\ g.code[f.ip][Len(f.code[f.ip]) + 1] = i
    BY GrownBlocks
  <2>2. Len(f.code[f.ip]) + 1 \in 1 .. Len(g.code[f.ip])
    BY <2>1
  <2> QED
    BY <1>1, <1>4, <2>1, <2>2
<1> QED
  BY <1>2, <1>3, <1>4 DEF Rets

(* A statement. *)
LEMMA Works ==
  ASSUME NEW f, NEW P, NEW late_ \in BOOLEAN, NEW bare_ \in BOOLEAN, NEW h \in BOOLEAN,
         Sane(f, P, late_, bare_, h), NEW w \in Whats
  PROVE  LET g == Emit(f, Work(w))
         IN  /\ Sane(g, P, late_ \/ h, bare_, h)
             /\ Len(g.code) = Len(f.code) /\ g.placed = f.placed /\ g.ip = f.ip
<1> DEFINE i == Work(w)
           g == Emit(f, i)
<1>0. /\ Shape(f, P) /\ Targets(f, P)
      /\ Finished(f, P, late_, bare_) /\ Opened(f, late_, h)
      /\ Gap(f, P, bare_) /\ Dead(f, late_, h) /\ Rets(f, h)
  BY DEF Sane
<1>1. i \in Instrs /\ i.op = "work" /\ Len(i.to) = 0
  <2>1. 0 \in Nat
    OBVIOUS
  <2> QED
    BY <2>1, Instructions
<1>2. ~IsTerminator(i)
  BY <1>1 DEF IsTerminator, Terminators
<1> HIDE DEF i
<1>3. f \in Bodies /\ f.ip \in All(f) /\ f.ip \in f.placed /\ f.placed \subseteq All(f)
  BY <1>0 DEF Shape, InOrder
<1>4. /\ g \in Bodies /\ g.placed = f.placed /\ g.ip = f.ip
      /\ Len(g.code) = Len(f.code)
      /\ \A b \in All(f) \ {f.ip} : g.code[b] = f.code[b]
      /\ g.code[f.ip] = Append(f.code[f.ip], i)
  BY <1>1, <1>3, Emits
<1> HIDE DEF g
<1>5. All(g) = All(f) /\ Len(f.code) \in Nat
  BY <1>3, <1>4 DEF All, Bodies
<1>6. Grown(f, g, i)
  BY <1>3, <1>4, <1>5 DEF Grown
<1>7. f.code[f.ip] \in Seq(Instrs)
  BY <1>0, <1>1, <1>6, GrownBlocks
<1>8. Shape(g, P)
  BY <1>0, <1>4, <1>5 DEF Shape, InOrder
<1>9. Targets(g, P)
  BY <1>0, <1>1, <1>4, <1>6, GrownTargets
<1>10. Finished(g, P, late_ \/ h, bare_)
  BY <1>0, <1>3, <1>4 DEF Finished, Rest
<1>11. Opened(g, late_ \/ h, h)
  BY <1>0, <1>1, <1>2, <1>4, <1>7, Closings DEF Opened
<1>12. Gap(g, P, bare_)
  BY <1>0, <1>3, <1>4 DEF Gap, Rest
<1>13. Dead(g, late_ \/ h, h)
  BY <1>0, <1>1, <1>6, GrownHistory
<1>14. Rets(g, h)
  BY <1>0, <1>1, <1>6, GrownRets
<1> QED
  BY <1>4, <1>8, <1>9, <1>10, <1>11, <1>12, <1>13, <1>14 DEF Sane, g, i

(* A return as the last instruction of what was generated before it.       *)
LEMMA Returned ==
  ASSUME NEW f, NEW P, NEW late_ \in BOOLEAN, NEW bare_ \in BOOLEAN, NEW h \in BOOLEAN,
         Sane(f, P, late_, bare_, h), h => late_, NEW w \in Whats
  PROVE  LET g == Emit(f, Ret(w))
         IN  /\ Sane(g, P, late_, bare_, TRUE)
             /\ Len(g.code) = Len(f.code) /\ g.placed = f.placed /\ g.ip = f.ip
<1> DEFINE i == Ret(w)
           g == Emit(f, i)
<1>0. /\ Shape(f, P) /\ Targets(f, P)
      /\ Finished(f, P, late_, bare_) /\ Opened(f, late_, h)
      /\ Gap(f, P, bare_) /\ Dead(f, late_, h) /\ Rets(f, h)
  BY DEF Sane
<1>1. i \in Instrs /\ i.op = "ret" /\ Len(i.to) = 0
  <2>1. 0 \in Nat
    OBVIOUS
  <2> QED
    BY <2>1, Instructions
<1>2. IsTerminator(i)
  BY <1>1 DEF IsTerminator, Terminators
<1> HIDE DEF i
<1>3. f \in Bodies /\ f.ip \in All(f) /\ f.ip \in f.placed /\ f.placed \subseteq All(f)
  BY <1>0 DEF Shape, InOrder
<1>4. /\ g \in Bodies /\ g.placed = f.placed /\ g.ip = f.ip
      /\ Len(g.code) = Len(f.code)
      /\ \A b \in All(f) \ {f.ip} : g.code[b] = f.code[b]
      /\ g.code[f.ip] = Append(f.code[f.ip], i)
  BY <1>1, <1>3, Emits
<1> HIDE DEF g
<1>5. All(g) = All(f) /\ Len(f.code) \in Nat
  BY <1>3, <1>4 DEF All, Bodies
<1>6. Grown(f, g, i)
  BY <1>3, <1>4, <1>5 DEF Grown
<1>7. f.code[f.ip] \in Seq(Instrs)
  BY <1>0, <1>1, <1>6, GrownBlocks
<1>8. Shape(g, P)
  BY <1>0, <1>4, <1>5 DEF Shape, InOrder
<1>9. Targets(g, P)
  BY <1>0, <1>1, <1>4, <1>6, GrownTargets
<1>10. Finished(g, P, late_, bare_)
  BY <1>0, <1>3, <1>4 DEF Finished, Rest
<1>11. Opened(g, late_, TRUE)
  BY <1>0, <1>1, <1>2, <1>4, <1>7, Closings DEF Opened
<1>12. Gap(g, P, bare_)
  BY <1>0, <1>3, <1>4 DEF Gap, Rest
<1>13. Dead(g, late_, TRUE)
  <2>1. Dead(g, late_ \/ h, h)
    BY <1>0, <1>1, <1>6, GrownHistory
  <2> QED
    BY <2>1 DEF Dead
<1>14. Rets(g, TRUE)
  <2>1. Rets(g, h \/ i.op = "ret")
    BY <1>0, <1>1, <1>6, GrownRets
  <2> QED
    BY <1>1, <2>1
<1> QED
  BY <1>4, <1>8, <1>9, <1>10, <1>11, <1>12, <1>13, <1>14 DEF Sane, g, i

(* The builder closes its block and goes on in one that is empty. *)
LEMMA Jumps ==
  ASSUME NEW f, NEW g, NEW P, NEW Q, NEW targets,
         NEW late_ \in BOOLEAN, NEW bare_ \in BOOLEAN, NEW h \in BOOLEAN,
         Sane(f, P, late_, bare_, h), Jumped(f, g, targets),
         targets \subseteq (g.placed \cup Q) \ {1},
         f.placed \subseteq g.placed, g.placed \subseteq All(g), Q \subseteq All(g),
         P \subseteq g.placed \cup Q,
         g.ip \in g.placed, g.ip \notin Q,
         Q \cup {g.ip} \subseteq P \cup (All(g) \ All(f)),
         g.placed \ (Q \cup {g.ip}) \subseteq f.placed \ P
  PROVE  Sane(g, Q, late_ \/ h, bare_, h)
<1>0. /\ Shape(f, P) /\ Targets(f, P)
      /\ Finished(f, P, late_, bare_) /\ Opened(f, late_, h)
      /\ Gap(f, P, bare_) /\ Dead(f, late_, h) /\ Rets(f, h)
  BY DEF Sane
<1>1. PICK i \in Instrs : IsJump(i, targets) /\ g.code[f.ip] = Append(f.code[f.ip], i)
  BY DEF Jumped
<1>2. /\ i.op \in {"br", "condbr"}
      /\ \A j \in 1 .. Len(i.to) : i.to[j] \in targets
  BY <1>1 DEF IsJump
<1>3. IsTerminator(i)
  BY <1>2 DEF IsTerminator, Terminators
<1>4. Grown(f, g, i)
  BY <1>1 DEF Grown, Jumped
<1>5. /\ f.code[f.ip] \in Seq(Instrs) /\ All(f) \subseteq All(g)
      /\ f.ip \in f.placed /\ f.placed \subseteq All(f) /\ 1 \in f.placed
      /\ P \subseteq All(f) \ {1} /\ f.ip \notin P
  BY <1>0, <1>4, GrownBlocks DEF Shape, InOrder
<1>6. g.ip # f.ip /\ f.ip \notin Q /\ 1 \notin Q \cup {g.ip}
  BY <1>5
<1>7. \A b \in Q \cup {g.ip} : g.code[b] = <<>>
  <2>1. \A b \in P : g.code[b] = <<>>
    BY <1>0, <1>4, <1>5 DEF Shape, Grown
  <2>2. \A b \in All(g) \ All(f) : g.code[b] = <<>>
    BY <1>4 DEF Grown
  <2> QED
    BY <2>1, <2>2
<1>8. Shape(g, Q)
  BY <1>4, <1>5, <1>6, <1>7 DEF Shape, InOrder, Grown
<1>9. Targets(g, Q)
  BY <1>0, <1>2, <1>4, GrownTargets
<1>10. \A b \in Rest(f, P) : b \in Rest(g, Q) /\ g.code[b] = f.code[b]
  BY <1>4, <1>5, <1>6 DEF Rest, Grown
<1>11. \A b \in Rest(g, Q) : b = f.ip \/ (b \in Rest(f, P) /\ g.code[b] = f.code[b])
  BY <1>10 DEF Rest
<1>12. Finished(g, Q, late_ \/ h, bare_)
  <2> SUFFICES ASSUME ~bare_, ~late_, ~h, NEW b \in Rest(g, Q)
               PROVE  Closed(g.code[b])
    BY DEF Finished
  <2>1. CASE b = f.ip
    <3>1. NoTerm(f.code[f.ip])
      BY <1>0 DEF Opened
    <3>2. Closed(Append(f.code[f.ip], i))
      BY <1>3, <1>5, <3>1, Closings
    <3> QED
      BY <1>1, <2>1, <3>2
  <2>2. CASE b # f.ip
    BY <1>0, <1>11, <2>2 DEF Finished
  <2> QED
    BY <2>1, <2>2
<1>13. Opened(g, late_ \/ h, h)
  BY <1>7 DEF Opened, NoTerm
<1>14. Gap(g, Q, bare_)
  BY <1>0, <1>10 DEF Gap
<1>15. Dead(g, late_ \/ h, h)
  BY <1>0, <1>4, GrownHistory
<1>16. Rets(g, h)
  <2>1. Rets(g, h \/ i.op = "ret")
    BY <1>0, <1>2, <1>4, GrownRets
  <2> QED
    BY <1>2, <2>1
<1> QED
  BY <1>8, <1>9, <1>12, <1>13, <1>14, <1>15, <1>16 DEF Sane

(* The builder leaves an empty block for the merge block next. *)
Dropped(f, g, P, Q, next) ==
  /\ f.code[f.ip] = <<>>
  /\ next \in P /\ Q = P \ {next}
  /\ g \in Bodies /\ g.code = f.code /\ g.placed = f.placed \cup {next} /\ g.ip = next

(* That leaves a block without a terminator for good. *)
LEMMA Drops ==
  ASSUME NEW f, NEW g, NEW P, NEW Q, NEW next,
         NEW late_ \in BOOLEAN, NEW bare_ \in BOOLEAN, NEW h \in BOOLEAN,
         Sane(f, P, late_, bare_, h), h => late_, Dropped(f, g, P, Q, next)
  PROVE  Sane(g, Q, late_, TRUE, h)
<1> USE DEF Dropped
<1>0. /\ Shape(f, P) /\ Targets(f, P) /\ Opened(f, late_, h)
      /\ Dead(f, late_, h) /\ Rets(f, h)
  BY DEF Sane
<1>1. /\ f.ip \in f.placed /\ f.placed \subseteq All(f) /\ 1 \in f.placed
      /\ P \subseteq All(f) \ {1} /\ f.ip \notin P
      /\ \A b \in P : f.code[b] = <<>>
  BY <1>0 DEF Shape, InOrder
<1>2. All(g) = All(f)
  BY DEF All
<1>3. Shape(g, Q)
  BY <1>1, <1>2 DEF Shape, InOrder
<1>4. Targets(g, Q)
  <2>1. g.placed \cup Q = f.placed \cup P
    OBVIOUS
  <2> QED
    BY <1>0, <1>2, <2>1 DEF Targets
<1>5. Finished(g, Q, late_, TRUE)
  BY DEF Finished
<1>6. Opened(g, late_, h)
  BY <1>1 DEF Opened, NoTerm
<1>7. Gap(g, Q, TRUE)
  <2>1. f.ip \in Rest(g, Q)
    BY <1>1 DEF Rest
  <2> QED
    BY <2>1 DEF Gap
<1>8. Dead(g, late_, h)
  BY <1>0 DEF Dead
<1>9. Rets(g, h)
  BY <1>0, <1>2 DEF Rets
<1> QED
  BY <1>3, <1>4, <1>5, <1>6, <1>7, <1>8, <1>9 DEF Sane
-----------------------------------------------------------------------------
(* At the end of the body, with no construct open, what the verifier says. *)
LEMMA Judged ==
  ASSUME NEW f, NEW v \in BOOLEAN,
         NEW late_ \in BOOLEAN, NEW bare_ \in BOOLEAN, NEW h \in BOOLEAN,
         Sane(f, {}, late_, bare_, h)
  PROVE  LET g == FunctionEnd(f, v, h)
         IN  /\ g.placed = f.placed /\ g.ip = f.ip /\ Len(g.code) = Len(f.code)
             /\ Verified(g, v) <=> ~bare_ /\ ~late_ /\ (v # h)
<1>0. /\ Shape(f, {}) /\ Targets(f, {})
      /\ Finished(f, {}, late_, bare_) /\ Opened(f, late_, h)
      /\ Gap(f, {}, bare_) /\ Dead(f, late_, h) /\ Rets(f, h)
  BY DEF Sane
<1>1. /\ f \in Bodies /\ f.ip \in f.placed /\ f.placed \subseteq All(f)
  BY <1>0 DEF Shape, InOrder
<1>2. \A b \in All(f) : f.code[b] \in Seq(Instrs)
  BY <1>1 DEF Bodies, All
<1>3. RetVoid \in Instrs /\ RetVoid.op = "retvoid" /\ Len(RetVoid.to) = 0
  <2>1. {} \in Whats /\ 0 \in Nat
    BY DEF Whats
  <2> QED
    BY <2>1, Instructions
<1>4. \A b \in f.placed : \A c \in Seq(Instrs) :
        f.code[b] = c => (Closed(c) => ~NoTerm(c) /\ ~Inner(c) /\ c # <<>>)
  BY <1>3, Closings
<1>5. CASE ~h /\ v
  <2> DEFINE g == Emit(f, RetVoid)
  <2>1. /\ g \in Bodies /\ g.placed = f.placed /\ g.ip = f.ip
        /\ Len(g.code) = Len(f.code)
        /\ \A b \in All(f) \ {f.ip} : g.code[b] = f.code[b]
        /\ g.code[f.ip] = Append(f.code[f.ip], RetVoid)
    BY <1>1, <1>3, Emits
  <2>2. FunctionEnd(f, v, h) = g
    BY <1>5 DEF FunctionEnd
  <2> HIDE DEF g
  <2>3. Grown(f, g, RetVoid)
    BY <1>1, <2>1 DEF Grown, All, Bodies
  <2>4. ~late_
    BY <1>0, <1>5 DEF Dead
  <2>5. CASE bare_
    <3>1. PICK b \in f.placed \ {f.ip} : f.code[b] = <<>>
      BY <1>0, <2>5 DEF Gap, Rest
    <3>2. g.code[b] = <<>>
      BY <1>1, <2>1, <3>1
    <3>3. ~Closed(g.code[b])
      BY <3>2 DEF Closed
    <3> QED
      BY <2>1, <2>2, <2>5, <3>3 DEF Verified
  <2>6. CASE ~bare_
    <3>1. \A b \in f.placed : Closed(g.code[b])
      <4>1. Closed(g.code[f.ip])
        <5>1. NoTerm(f.code[f.ip])
          BY <1>0, <1>5 DEF Opened
        <5>2. IsTerminator(RetVoid)
          BY <1>3 DEF IsTerminator, Terminators
        <5>3. Closed(Append(f.code[f.ip], RetVoid))
          BY <1>1, <1>2, <1>3, <5>1, <5>2, Closings
        <5> QED
          BY <2>1, <5>3
      <4>2. \A b \in f.placed \ {f.ip} : Closed(g.code[b])
        BY <1>0, <1>1, <2>1, <2>4, <2>6 DEF Finished, Rest
      <4> QED
        BY <4>1, <4>2
    <3>2. Targets(g, {})
      BY <1>0, <1>3, <2>1, <2>3, GrownTargets
    <3>3. \A b \in f.placed : \A k \in 1 .. Len(g.code[b]) : Lands(g, g.code[b][k])
      BY <1>1, <2>1, <3>2 DEF Targets, Lands, All
    <3>4. \A b \in f.placed : \A k \in 1 .. Len(g.code[b]) : g.code[b][k].op # "ret"
      <4> TAKE b \in f.placed
      <4> TAKE k \in 1 .. Len(g.code[b])
      <4>1. b \in All(g)
        BY <1>1, <2>1 DEF All
      <4>2. \/ b \in All(f) /\ k \in 1 .. Len(f.code[b]) /\ g.code[b][k] = f.code[b][k]
            \/ g.code[b][k] = RetVoid
        BY <1>0, <1>3, <2>3, <4>1, GrownBlocks
      <4> QED
        BY <1>0, <1>3, <1>5, <4>2 DEF Rets
    <3>5. Verified(g, v)
      BY <1>5, <2>1, <3>1, <3>3, <3>4 DEF Verified, Returns
    <3> QED
      BY <1>5, <2>1, <2>2, <2>4, <2>6, <3>5
  <2> QED
    BY <2>5, <2>6
<1>6. CASE h \/ ~v
  <2>1. FunctionEnd(f, v, h) = f
    BY <1>6 DEF FunctionEnd
  <2>2. ASSUME Verified(f, v) PROVE ~bare_ /\ ~late_ /\ v # h
    <3>1. \A b \in f.placed : Closed(f.code[b])
      BY <2>2 DEF Verified
    <3>2. ~bare_
      <4>1. \A b \in f.placed : f.code[b] # <<>>
        BY <1>1, <1>2, <1>4, <3>1
      <4> QED
        BY <1>0, <4>1 DEF Gap, Rest
    <3>3. ~late_
      <4>1. \A b \in f.placed : ~Inner(f.code[b])
        BY <1>1, <1>2, <1>4, <3>1
      <4> QED
        BY <1>0, <4>1 DEF Dead
    <3>4. CASE h
      <4>1. PICK b \in f.placed : \E k \in 1 .. Len(f.code[b]) : f.code[b][k].op = "ret"
        BY <1>0, <3>4 DEF Rets
      <4>2. ~v
        BY <2>2, <4>1 DEF Verified, Returns
      <4> QED
        BY <3>2, <3>3, <3>4, <4>2
    <3>5. CASE ~h
      <4>1. NoTerm(f.code[f.ip])
        BY <1>0, <3>5 DEF Opened
      <4>2. ~Closed(f.code[f.ip])
        BY <1>1, <1>2, <1>4, <4>1
      <4> QED
        BY <1>1, <3>1, <4>2
    <3> QED
      BY <3>4, <3>5
  <2>3. ASSUME ~bare_, ~late_, v # h PROVE Verified(f, v)
    <3>1. h /\ ~v
      BY <1>6, <2>3
    <3>2. \A b \in f.placed : Closed(f.code[b])
      BY <1>0, <2>3, <3>1 DEF Finished, Rest, Opened
    <3>3. \A b \in f.placed : \A k \in 1 .. Len(f.code[b]) :
            Lands(f, f.code[b][k]) /\ f.code[b][k].op # "retvoid"
      BY <1>0, <1>1 DEF Targets, Lands, Rets
    <3> QED
      BY <3>1, <3>2, <3>3 DEF Verified, Returns
  <2> QED
    BY <2>1, <2>2, <2>3
<1> QED
  BY <1>5, <1>6
-----------------------------------------------------------------------------
(* The frames: which blocks each of them owns, and that it owns them alone.*)
FrameOf(T) == [kind : {"if", "else", "for"}, id : Nat, alt : Nat, next : Nat,
               outer : T, then : T]
Own(fr) == IF fr.kind = "if" THEN {fr.alt, fr.next} ELSE {fr.next}
Owned(fs) == UNION {Own(fs[k]) : k \in 1 .. Len(fs)}
Apart(fs) == /\ \A j, k \in 1 .. Len(fs) : j # k => Own(fs[j]) \cap Own(fs[k]) = {}
             /\ \A k \in 1 .. Len(fs) : fs[k].kind = "if" => fs[k].alt # fs[k].next
FramesOK(fs, f) ==
  /\ \E T : fs \in Seq(FrameOf(T))
  /\ Apart(fs)
  /\ \A k \in 1 .. Len(fs) :
       /\ {fs[k].alt, fs[k].next} \subseteq 2 .. Len(f.code)
       /\ fs[k].kind = "for" => fs[k].next \in f.placed

(* More blocks do not disturb the frames. *)
LEMMA FramesGrow ==
  ASSUME NEW fs, NEW f, NEW g, FramesOK(fs, f), Len(f.code) \in Nat, Len(g.code) \in Nat,
         Len(f.code) <= Len(g.code), f.placed \subseteq g.placed
  PROVE  FramesOK(fs, g)
<1>1. 2 .. Len(f.code) \subseteq 2 .. Len(g.code)
  OBVIOUS
<1> QED
  BY <1>1 DEF FramesOK

(* A sequence without its last element. *)
LEMMA Fronts ==
  ASSUME NEW A, NEW q \in Seq(A), q # <<>>
  PROVE  LET n == Len(q)
             out == SubSeq(q, 1, n - 1)
         IN  /\ n \in Nat \ {0} /\ q[n] \in A
             /\ out \in Seq(A) /\ Len(out) = n - 1
             /\ \A k \in 1 .. n - 1 : out[k] = q[k]
<1> DEFINE n == Len(q)
           m == n - 1
           out == SubSeq(q, 1, m)
<1>1. n \in Nat \ {0} /\ q[n] \in A /\ m \in Nat
  OBVIOUS
<1>2. \A k \in 1 .. m : q[k] \in A
  OBVIOUS
<1> HIDE DEF m
<1>3. /\ out \in Seq(A) /\ Len(out) = (IF 1 <= m THEN m - 1 + 1 ELSE 0)
      /\ \A k \in 1 .. m - 1 + 1 : out[k] = q[1 + k - 1]
  BY <1>1, <1>2, SubSeqProperties
<1>4. Len(out) = m /\ \A k \in 1 .. m : out[k] = q[k]
  BY <1>1, <1>3
<1> QED
  BY <1>1, <1>3, <1>4 DEF m

(* A construct ends, and gives up its blocks. *)
LEMMA FramesPop ==
  ASSUME NEW fs, NEW f, FramesOK(fs, f), fs # <<>>
  PROVE  LET top == fs[Len(fs)]
             out == SubSeq(fs, 1, Len(fs) - 1)
         IN  /\ FramesOK(out, f) /\ Len(out) = Len(fs) - 1 /\ Len(fs) \in Nat \ {0}
             /\ Own(top) \subseteq Owned(fs) /\ Owned(out) = Owned(fs) \ Own(top)
             /\ top.kind \in {"if", "else", "for"} /\ top.id \in Nat
             /\ top.alt \in 2 .. Len(f.code) /\ top.next \in 2 .. Len(f.code)
             /\ top.kind = "if" => top.alt # top.next
             /\ top.kind = "for" => top.next \in f.placed
<1> DEFINE n == Len(fs)
           top == fs[n]
           out == SubSeq(fs, 1, n - 1)
<1>1. PICK T : fs \in Seq(FrameOf(T))
  BY DEF FramesOK
<1>2. n \in Nat \ {0} /\ n \in 1 .. n /\ top \in FrameOf(T)
  BY <1>1
<1>3. /\ out \in Seq(FrameOf(T)) /\ Len(out) = n - 1
      /\ \A k \in 1 .. n - 1 : out[k] = fs[k]
  BY <1>1, Fronts
<1> HIDE DEF out
<1>4. Owned(fs) = Owned(out) \cup Own(top)
  <2>1. \A k \in 1 .. n : k = n \/ (k \in 1 .. Len(out) /\ out[k] = fs[k])
    BY <1>2, <1>3
  <2>2. \A k \in 1 .. Len(out) : k \in 1 .. n /\ out[k] = fs[k]
    BY <1>2, <1>3
  <2> QED
    BY <1>2, <2>1, <2>2 DEF Owned
<1>5. Owned(out) \cap Own(top) = {}
  <2>1. \A k \in 1 .. Len(out) : k \in 1 .. n /\ k # n /\ out[k] = fs[k]
    BY <1>2, <1>3
  <2>2. \A k \in 1 .. Len(out) : Own(out[k]) \cap Own(top) = {}
    BY <1>2, <2>1 DEF FramesOK, Apart
  <2> QED
    BY <2>2 DEF Owned
<1>6. FramesOK(out, f)
  <2>1. \A k \in 1 .. Len(out) : k \in 1 .. n /\ out[k] = fs[k]
    BY <1>2, <1>3
  <2>2. Apart(out)
    BY <2>1 DEF FramesOK, Apart
  <2> QED
    BY <1>3, <2>1, <2>2 DEF FramesOK
<1>7. top.kind \in {"if", "else", "for"} /\ top.id \in Nat
  BY <1>2 DEF FrameOf
<1>8. /\ top.alt \in 2 .. Len(f.code) /\ top.next \in 2 .. Len(f.code)
      /\ top.kind = "if" => top.alt # top.next
      /\ top.kind = "for" => top.next \in f.placed
  BY <1>2 DEF FramesOK, Apart
<1> QED
  BY <1>2, <1>3, <1>4, <1>5, <1>6, <1>7, <1>8 DEF out

(* A construct begins, and owns new blocks. *)
LEMMA FramesPush ==
  ASSUME NEW fs, NEW f, FramesOK(fs, f), NEW kind \in {"if", "else", "for"},
         NEW id \in Nat, NEW alt \in Nat, NEW next \in Nat, NEW outer, NEW then,
         {alt, next} \subseteq 2 .. Len(f.code),
         kind = "for" => next \in f.placed,
         kind = "if" => alt # next /\ alt \notin Owned(fs),
         next \notin Owned(fs)
  PROVE  LET fr == [kind |-> kind, id |-> id, alt |-> alt, next |-> next,
                    outer |-> outer, then |-> then]
             all == Append(fs, fr)
         IN  /\ FramesOK(all, f) /\ Len(all) = Len(fs) + 1 /\ Len(fs) \in Nat
             /\ Owned(all) = Owned(fs) \cup IF kind = "if" THEN {alt, next} ELSE {next}
<1> DEFINE fr == [kind |-> kind, id |-> id, alt |-> alt, next |-> next,
                  outer |-> outer, then |-> then]
           all == Append(fs, fr)
           n == Len(fs)
           own == IF kind = "if" THEN {alt, next} ELSE {next}
<1>1. PICK T : fs \in Seq(FrameOf(T))
  BY DEF FramesOK
<1> DEFINE U == T \cup {outer, then}
<1>2. FrameOf(T) \subseteq FrameOf(U)
  BY DEF FrameOf
<1>3. fr \in FrameOf(U)
  BY DEF FrameOf
<1>4. n \in Nat
  BY <1>1
<1>5. fs \in Seq(FrameOf(U))
  <2> HIDE DEF U
  <2> QED
    BY <1>1, <1>2
<1>6. Own(fr) = own /\ fr.alt = alt /\ fr.next = next /\ fr.kind = kind
  BY DEF Own
<1> HIDE DEF fr, U
<1>7. /\ all \in Seq(FrameOf(U)) /\ Len(all) = n + 1 /\ all[n + 1] = fr
      /\ \A k \in 1 .. n : all[k] = fs[k]
  BY <1>3, <1>5
<1> HIDE DEF all, own
<1>8. \A k \in 1 .. n + 1 : (k \in 1 .. n /\ all[k] = fs[k]) \/ (k = n + 1 /\ all[k] = fr)
  BY <1>4, <1>7
<1>9. 1 .. n \subseteq 1 .. n + 1 /\ n + 1 \in 1 .. n + 1 /\ n + 1 \notin 1 .. n
  BY <1>4
<1>10. Owned(all) = Owned(fs) \cup own
  <2>1. \A k \in 1 .. Len(all) : Own(all[k]) \subseteq Owned(fs) \cup own
    BY <1>6, <1>7, <1>8 DEF Owned
  <2>2. \A k \in 1 .. n : Own(fs[k]) \subseteq Owned(all)
    BY <1>7, <1>9 DEF Owned
  <2>3. own \subseteq Owned(all)
    BY <1>6, <1>7, <1>9 DEF Owned
  <2> QED
    BY <2>1, <2>2, <2>3 DEF Owned
<1>11. \A k \in 1 .. n : Own(fs[k]) \cap own = {}
  <2>1. own \cap Owned(fs) = {}
    BY DEF own
  <2> QED
    BY <2>1 DEF Owned
<1>12. Apart(all)
  <2>1. \A j, k \in 1 .. n + 1 : j # k => Own(all[j]) \cap Own(all[k]) = {}
    <3> TAKE j, k \in 1 .. n + 1
    <3> HAVE j # k
    <3>1. CASE j \in 1 .. n /\ k \in 1 .. n
      BY <1>7, <3>1 DEF FramesOK, Apart
    <3>2. CASE j \in 1 .. n /\ k = n + 1
      BY <1>6, <1>7, <1>11, <3>2
    <3>3. CASE j = n + 1 /\ k \in 1 .. n
      BY <1>6, <1>7, <1>11, <3>3
    <3> QED
      BY <1>8, <3>1, <3>2, <3>3
  <2>2. \A k \in 1 .. n + 1 : all[k].kind = "if" => all[k].alt # all[k].next
    BY <1>6, <1>8 DEF FramesOK, Apart
  <2> QED
    BY <1>7, <2>1, <2>2 DEF Apart
<1>13. \A k \in 1 .. n + 1 : /\ {all[k].alt, all[k].next} \subseteq 2 .. Len(f.code)
                             /\ all[k].kind = "for" => all[k].next \in f.placed
  BY <1>6, <1>8 DEF FramesOK
<1> QED
  BY <1>4, <1>7, <1>10, <1>12, <1>13 DEF FramesOK, all, fr, own

(* An if on its way from then to else. *)
LEMMA ElseFrame ==
  ASSUME NEW T, NEW fr \in FrameOf(T), NEW x
  PROVE  [fr EXCEPT !.kind = "else", !.then = x]
           = [kind |-> "else", id |-> fr.id, alt |-> fr.alt, next |-> fr.next,
              outer |-> fr.outer, then |-> x]
<1> DEFINE a == [fr EXCEPT !.kind = "else", !.then = x]
           b == [kind |-> "else", id |-> fr.id, alt |-> fr.alt, next |-> fr.next,
                 outer |-> fr.outer, then |-> x]
           D == {"kind", "id", "alt", "next", "outer", "then"}
<1>1. DOMAIN fr = D
  BY DEF FrameOf
<1>2. a = [d \in D |-> a[d]] /\ b = [d \in D |-> b[d]]
  BY <1>1
<1>3. \A d \in D : a[d] = b[d]
  <2>1. b["kind"] = "else" /\ b["then"] = x
    OBVIOUS
  <2>2. /\ b["id"] = fr["id"] /\ b["alt"] = fr["alt"] /\ b["next"] = fr["next"]
        /\ b["outer"] = fr["outer"]
    OBVIOUS
  <2>3. a["kind"] = "else" /\ a["then"] = x
    BY <1>1
  <2>4. /\ a["id"] = fr["id"] /\ a["alt"] = fr["alt"] /\ a["next"] = fr["next"]
        /\ a["outer"] = fr["outer"]
    BY <1>1
  <2> HIDE DEF a, b
  <2> QED
    BY <2>1, <2>2, <2>3, <2>4
<1> HIDE DEF a, b
<1>4. a = b
  BY <1>2, <1>3
<1> QED
  BY <1>4 DEF a, b
-----------------------------------------------------------------------------
(* The inductive invariant. *)
Flags == /\ void \in BOOLEAN /\ hasTerminator \in BOOLEAN
         /\ late \in BOOLEAN /\ bare \in BOOLEAN
         /\ nested \in BOOLEAN /\ buried \in BOOLEAN
         /\ nodes \in 0 .. MaxNodes
Underway == /\ Flags
            /\ Sane(fn, Owned(frames), late, bare, hasTerminator)
            /\ FramesOK(frames, fn)
            /\ Len(frames) <= MaxDepth
            /\ hasTerminator /\ ~late => frames = <<>>
IInv == IF pc = "building" THEN Underway ELSE TypeOK /\ VerifierExplained

(* What every event may rely on. *)
LEMMA UnderwayFacts ==
  ASSUME Underway
  PROVE  LET P == Owned(frames)
             n == Len(fn.code)
         IN  /\ late \in BOOLEAN /\ bare \in BOOLEAN /\ hasTerminator \in BOOLEAN
             /\ nodes \in Nat /\ nodes + 1 \in Whats
             /\ \A role \in Roles : \A id \in Nat : S!Done(role, id) \in Whats
             /\ fn \in Bodies /\ n \in Nat \ {0} /\ fn.ip \in All(fn)
             /\ fn.ip \in fn.placed /\ fn.placed \subseteq All(fn) /\ 1 \in fn.placed
             /\ P \subseteq All(fn) \ {1} /\ fn.ip \notin P
             /\ P # {} => fn.ip # 1
             /\ \A b \in P : fn.code[b] = <<>>
             /\ \A k \in Nat : Len(fn.code) <= k => 1 .. Len(fn.code) \subseteq 1 .. k
<1>1. Shape(fn, Owned(frames))
  BY DEF Underway, Sane
<1>2. \A role \in Roles : \A id \in Nat : S!Done(role, id) \in Whats
  BY DEF S!Done, Whats, Roles
<1>3. nodes \in Nat /\ nodes + 1 \in Whats
  BY BoundsAssumption DEF Underway, Flags, Whats
<1>4. Len(fn.code) \in Nat \ {0}
  BY <1>1 DEF Shape, InOrder, Bodies, All
<1> QED
  BY <1>1, <1>2, <1>3, <1>4 DEF Underway, Flags, Shape, InOrder

(* The type invariant, while the walk lasts. *)
LEMMA UnderwayTypes == Underway /\ pc = "building" => TypeOK
<1> SUFFICES ASSUME Underway, pc = "building" PROVE TypeOK
  OBVIOUS
<1>1. /\ Len(fn.code) \in Nat \ {0}
      /\ 1 \in fn.placed /\ fn.placed \subseteq 1 .. Len(fn.code) /\ fn.ip \in fn.placed
  BY UnderwayFacts DEF All
<1>2. \A k \in 1 .. Len(frames) :
        /\ frames[k].kind \in {"if", "else", "for"}
        /\ {frames[k].alt, frames[k].next} \subseteq 2 .. Len(fn.code)
  <2>1. PICK T : frames \in Seq(FrameOf(T))
    BY DEF Underway, FramesOK
  <2>2. \A k \in 1 .. Len(frames) : frames[k] \in FrameOf(T)
    BY <2>1
  <2>3. \A fr \in FrameOf(T) : fr.kind \in {"if", "else", "for"}
    BY DEF FrameOf
  <2> QED
    BY <2>2, <2>3 DEF Underway, FramesOK
<1> QED
  BY <1>1, <1>2 DEF TypeOK, Underway, Flags

(* It holds of the entry block. *)
LEMMA InitInv == Init => IInv
<1> SUFFICES ASSUME Init PROVE Underway /\ pc = "building"
  BY DEF IInv
<1> DEFINE g == Create(NoBody)
           p == Place(g, 1)
           f == At(p, 1)
<1>1. NoBody \in Bodies /\ NoBody.placed = {} /\ Len(NoBody.code) = 0
  BY DEF NoBody, Bodies
<1>2. g \in Bodies /\ g.placed = {} /\ Len(g.code) = 1 /\ g.code[1] = <<>>
  <2>1. /\ g \in Bodies /\ g.placed = NoBody.placed
        /\ Len(g.code) = Len(NoBody.code) + 1
        /\ g.code[Len(NoBody.code) + 1] = <<>>
    BY <1>1, Creates
  <2> QED
    BY <1>1, <2>1
<1> HIDE DEF g
<1>3. p \in Bodies /\ p.code = g.code /\ p.placed = {1}
  BY <1>2, Places
<1> HIDE DEF p
<1>4. f \in Bodies /\ f.code = g.code /\ f.placed = {1} /\ f.ip = 1
  BY <1>3, Places
<1>5. FunctionHead = f
  BY DEF FunctionHead, g, p
<1> HIDE DEF f
<1>6. All(f) = {1} /\ Rest(f, {}) = {} /\ f.code[1] = <<>>
  BY <1>2, <1>4 DEF All, Rest
<1>7. Sane(f, {}, FALSE, FALSE, FALSE)
  <2>1. Shape(f, {})
    BY <1>4, <1>6 DEF Shape, InOrder
  <2>2. Targets(f, {}) /\ Rets(f, FALSE)
    BY <1>6 DEF Targets, Rets
  <2>3. Opened(f, FALSE, FALSE)
    BY <1>4, <1>6 DEF Opened, NoTerm
  <2> QED
    BY <1>6, <2>1, <2>2, <2>3 DEF Sane, Finished, Gap, Dead
<1>8. frames = <<>> /\ Owned(frames) = {} /\ Len(frames) = 0
  BY DEF Init, Owned
<1>9. FramesOK(frames, fn)
  <2>1. frames \in Seq(FrameOf({}))
    BY <1>8
  <2> QED
    BY <1>8, <2>1 DEF FramesOK, Apart
<1>10. Sane(fn, Owned(frames), late, bare, hasTerminator)
  BY <1>5, <1>7, <1>8 DEF Init
<1>11. Len(frames) <= MaxDepth /\ nodes \in 0 .. MaxNodes
  BY <1>8, BoundsAssumption DEF Init
<1>12. Flags
  BY <1>11 DEF Init, Flags
<1> QED
  BY <1>8, <1>9, <1>10, <1>11, <1>12 DEF Init, Underway
-----------------------------------------------------------------------------
(* The events of a function under construction, one by one. *)
LEMMA StatementInv == Underway /\ (Statement \/ BuriedReturn) => Underway'
<1> SUFFICES ASSUME Underway, Statement \/ BuriedReturn PROVE Underway'
  OBVIOUS
<1> DEFINE P == Owned(frames)
           w == S!Done("work", nodes + 1)
           g == Emit(fn, Work(w))
<1>1. /\ fn' = g /\ frames' = frames /\ late' = (late \/ hasTerminator)
      /\ void' = void /\ hasTerminator' = hasTerminator /\ bare' = bare
      /\ nested' = nested /\ buried' \in {buried, TRUE}
      /\ nodes < MaxNodes /\ nodes' = nodes + 1
  BY DEF Statement, BuriedReturn, Building, Meet
<1>2. w \in Whats
  <2>1. nodes \in Nat
    BY UnderwayFacts
  <2>2. nodes + 1 \in Nat
    BY <2>1
  <2> QED
    BY <2>2 DEF S!Done, Whats, Roles
<1> HIDE DEF w
<1>3. /\ Sane(g, P, late \/ hasTerminator, bare, hasTerminator)
      /\ Len(g.code) = Len(fn.code) /\ g.placed = fn.placed
  BY <1>2, UnderwayFacts, Works DEF Underway
<1> HIDE DEF g
<1>4. FramesOK(frames, g)
  BY <1>3, UnderwayFacts, FramesGrow DEF Underway
<1>5. Flags'
  <2>1. nodes' \in 0 .. MaxNodes
    BY <1>1, BoundsAssumption DEF Underway, Flags
  <2> QED
    BY <1>1, <2>1 DEF Underway, Flags
<1> HIDE DEF P
<1>6. P' = P /\ P = Owned(frames)
  BY <1>1 DEF P, Owned
<1> QED
  BY <1>1, <1>3, <1>4, <1>5, <1>6 DEF Underway

(* A return in the body of the function. *)
LEMMA ReturnInv == Underway /\ Return => Underway'
<1> SUFFICES ASSUME Underway, Return PROVE Underway'
  OBVIOUS
<1> DEFINE P == Owned(frames)
           w == S!Done("work", nodes + 1)
           g1 == Emit(fn, Work(w))
           g2 == Emit(g1, Ret(w))
<1>1. /\ fn' = g2 /\ frames' = frames /\ late' = (late \/ hasTerminator)
      /\ void' = void /\ hasTerminator' = TRUE /\ bare' = bare
      /\ nested' = nested /\ buried' = buried /\ frames = <<>>
      /\ nodes < MaxNodes /\ nodes' = nodes + 1
  BY DEF Return, Building, Meet
<1>2. w \in Whats
  <2>1. nodes \in Nat
    BY UnderwayFacts
  <2>2. nodes + 1 \in Nat
    BY <2>1
  <2> QED
    BY <2>2 DEF S!Done, Whats, Roles
<1> HIDE DEF w
<1>3. late \in BOOLEAN /\ bare \in BOOLEAN /\ hasTerminator \in BOOLEAN
  BY DEF Underway, Flags
<1>4. /\ Sane(g2, P, late', bare, hasTerminator')
      /\ Len(g2.code) = Len(fn.code) /\ g2.placed = fn.placed
  <2>1. Sane(fn, P, late, bare, hasTerminator)
    BY DEF Underway
  <2> HIDE DEF P
  <2>2. /\ late' \in BOOLEAN /\ hasTerminator' \in BOOLEAN
        /\ late' = (late \/ hasTerminator) /\ hasTerminator'
    BY <1>1, <1>3
  <2>3. Sane(g2, P, late', bare, hasTerminator')
    <3>1. PICK f, Q, v : f = fn /\ Q = P /\ v = w
      OBVIOUS
    <3>2. PICK la \in BOOLEAN, ba \in BOOLEAN, h \in BOOLEAN, l \in BOOLEAN, t \in BOOLEAN :
            /\ la = late /\ ba = bare /\ h = hasTerminator
            /\ l = late' /\ t = hasTerminator'
      BY <1>3, <2>2
    <3>3. l = (la \/ h) /\ t
      BY <2>2, <3>2
    <3>4. Sane(f, Q, la, ba, h) /\ v \in Whats
      BY <1>2, <2>1, <3>1, <3>2
    <3>5. PICK f1 : f1 = Emit(f, Work(v))
      OBVIOUS
    <3>6. Sane(f1, Q, l, ba, h)
      BY <3>3, <3>4, <3>5, Works
    <3>7. h => l
      BY <3>3
    <3>8. Sane(Emit(f1, Ret(v)), Q, l, ba, TRUE)
      BY <3>4, <3>6, <3>7, Returned
    <3>9. t = TRUE
      BY <3>3
    <3> QED
      BY <3>1, <3>2, <3>5, <3>8, <3>9
  <2>4. fn \in Bodies /\ fn.ip \in All(fn)
    BY UnderwayFacts
  <2>5. Work(w) \in Instrs /\ Ret(w) \in Instrs
    <3>1. 0 \in Nat
      OBVIOUS
    <3> QED
      BY <1>2, <3>1, Instructions
  <2>6. /\ g1 \in Bodies /\ g1.ip = fn.ip /\ g1.placed = fn.placed
        /\ Len(g1.code) = Len(fn.code)
    BY <2>4, <2>5, Emits
  <2> HIDE DEF g1
  <2>7. g1.ip \in All(g1)
    BY <2>4, <2>6 DEF All
  <2>8. g2.placed = g1.placed /\ Len(g2.code) = Len(g1.code)
    BY <2>5, <2>6, <2>7, Emits
  <2> QED
    BY <2>3, <2>6, <2>8
<1> HIDE DEF g2
<1>5. FramesOK(frames, g2)
  BY <1>4, UnderwayFacts, FramesGrow DEF Underway
<1>6. Flags'
  BY <1>1, BoundsAssumption DEF Underway, Flags
<1> HIDE DEF P
<1>7. P' = P /\ P = Owned(frames)
  BY <1>1 DEF P, Owned
<1> QED
  BY <1>1, <1>4, <1>5, <1>6, <1>7 DEF Underway

(* Into an if. *)
LEMMA EnterIfInv == Underway /\ EnterIf => Underway'
<1> SUFFICES ASSUME Underway, EnterIf PROVE Underway'
  OBVIOUS
<1> DEFINE P == Owned(frames)
           n == Len(fn.code)
           g == IfHead(fn, nodes + 1)
           fr == Frame("if", n + 2, n + 3)
           Q == P \cup {n + 2, n + 3}
<1>1. /\ fn' = g /\ frames' = Append(frames, fr) /\ late' = (late \/ hasTerminator)
      /\ void' = void /\ hasTerminator' = hasTerminator /\ bare' = bare
      /\ nested' = (nested \/ InLoop) /\ buried' = buried
      /\ nodes < MaxNodes /\ nodes' = nodes + 1 /\ Len(frames) < MaxDepth
  BY DEF EnterIf, Building, Meet, Open, Fresh
<1>2. /\ n \in Nat \ {0} /\ P \subseteq 1 .. n /\ fn.placed \subseteq 1 .. n
      /\ nodes \in Nat /\ nodes + 1 \in Whats /\ fn \in Bodies /\ fn.ip \in All(fn)
  BY UnderwayFacts DEF All
<1>3. /\ Jumped(fn, g, {n + 1, n + 2}) /\ Len(g.code) = n + 3
      /\ g.placed = fn.placed \cup {n + 1} /\ g.ip = n + 1
  BY <1>2, IfHeads
<1> HIDE DEF g
<1>4. All(g) = All(fn) \cup {n + 1, n + 2, n + 3} /\ All(fn) = 1 .. n
  BY <1>2, <1>3 DEF All
<1>5. Sane(g, Q, late \/ hasTerminator, bare, hasTerminator)
  <2>1. /\ n + 1 \notin 1 .. n /\ n + 2 \notin 1 .. n /\ n + 3 \notin 1 .. n
        /\ n + 1 # n + 2 /\ n + 1 # n + 3 /\ n + 1 # 1 /\ n + 2 # 1
    BY <1>2
  <2> HIDE DEF n, P
  <2>2. Sane(fn, P, late, bare, hasTerminator) /\ late \in BOOLEAN /\ bare \in BOOLEAN
        /\ hasTerminator \in BOOLEAN
    BY DEF Underway, Flags, P
  <2>3. /\ {n + 1, n + 2} \subseteq (g.placed \cup Q) \ {1}
        /\ fn.placed \subseteq g.placed /\ g.placed \subseteq All(g) /\ Q \subseteq All(g)
        /\ P \subseteq g.placed \cup Q /\ g.ip \in g.placed /\ g.ip \notin Q
        /\ Q \cup {g.ip} \subseteq P \cup (All(g) \ All(fn))
        /\ g.placed \ (Q \cup {g.ip}) \subseteq fn.placed \ P
    BY <1>2, <1>3, <1>4, <2>1
  <2> DEFINE targets == {n + 1, n + 2}
  <2>4. Jumped(fn, g, targets) /\ targets \subseteq (g.placed \cup Q) \ {1}
    BY <1>3, <2>3
  <2> HIDE DEF Q, targets
  <2> QED
    BY <2>2, <2>3, <2>4, Jumps
<1>6. FramesOK(frames, g)
  BY <1>2, <1>3, FramesGrow DEF Underway
<1>7. /\ FramesOK(Append(frames, fr), g) /\ Len(Append(frames, fr)) = Len(frames) + 1
      /\ Len(frames) \in Nat /\ Owned(Append(frames, fr)) = Q
  <2>1. /\ nodes + 1 \in Nat /\ n + 2 \in Nat /\ n + 3 \in Nat /\ n + 2 # n + 3
        /\ n + 2 \notin P /\ n + 3 \notin P
        /\ {n + 2, n + 3} \subseteq 2 .. Len(g.code)
    BY <1>2, <1>3
  <2> DEFINE a == n + 2
             m == n + 3
             id == nodes + 1
  <2>2. fr = [kind |-> "if", id |-> id, alt |-> a, next |-> m,
              outer |-> body, then |-> <<>>]
    BY DEF Frame
  <2>3. a \in Nat /\ m \in Nat /\ id \in Nat /\ a # m /\ a \notin Owned(frames)
        /\ m \notin Owned(frames) /\ {a, m} \subseteq 2 .. Len(g.code)
    BY <2>1
  <2>4. Q = Owned(frames) \cup {a, m}
    OBVIOUS
  <2> HIDE DEF fr, a, m, id, Q
  <2> QED
    BY <1>6, <2>2, <2>3, <2>4, FramesPush
<1>8. Flags'
  <2>1. InLoop \in BOOLEAN
    BY DEF InLoop
  <2> QED
    BY <1>1, <2>1, BoundsAssumption DEF Underway, Flags
<1>9. Len(Append(frames, fr)) <= MaxDepth
  BY <1>1, <1>7, BoundsAssumption
<1> HIDE DEF fr, Q
<1>10. Owned(frames)' = Q
  BY <1>1, <1>7 DEF Owned
<1> QED
  BY <1>1, <1>3, <1>5, <1>7, <1>8, <1>9, <1>10 DEF Underway

(* From then to else. *)
LEMMA ElseInv == Underway /\ Else => Underway'
<1> SUFFICES ASSUME Underway, Else PROVE Underway'
  OBVIOUS
<1> DEFINE P == Owned(frames)
           n == Len(fn.code)
           alt == Top.alt
           next == Top.next
           g == IfElse(fn, alt, next)
           fr == [Top EXCEPT !.kind = "else", !.then = body]
           R == P \ {alt, next}
           Q == P \ {alt}
<1>1. /\ fn' = g /\ frames' = Append(Outer, fr) /\ late' = (late \/ hasTerminator)
      /\ void' = void /\ hasTerminator' = hasTerminator /\ bare' = bare
      /\ nested' = nested /\ buried' = buried /\ nodes' = nodes
      /\ frames # <<>> /\ Top.kind = "if"
  BY DEF Else, Building
<1>2. /\ n \in Nat \ {0} /\ fn \in Bodies /\ fn.ip \in All(fn) /\ fn.ip \in fn.placed
      /\ fn.placed \subseteq All(fn) /\ 1 \in fn.placed /\ fn.ip \notin P
      /\ P \subseteq All(fn) \ {1}
  BY UnderwayFacts
<1>3. /\ FramesOK(Outer, fn) /\ Len(Outer) = Len(frames) - 1 /\ Len(frames) \in Nat \ {0}
      /\ {alt, next} \subseteq P /\ Owned(Outer) = R /\ Top.id \in Nat
      /\ alt \in 2 .. n /\ next \in 2 .. n /\ alt # next
  <2>1. Own(Top) = {alt, next}
    BY <1>1 DEF Own
  <2> QED
    BY <1>1, <2>1, FramesPop DEF Underway, Top, Outer
<1>4. /\ Jumped(fn, g, {next}) /\ Len(g.code) = n
      /\ g.placed = fn.placed \cup {alt} /\ g.ip = alt
  <2>1. alt \in Nat /\ next \in Nat
    BY <1>2, <1>3
  <2> HIDE DEF alt, next
  <2> QED
    BY <1>2, <2>1, IfElses
<1> HIDE DEF g
<1>5. All(g) = All(fn)
  BY <1>4 DEF All
<1>6. Sane(g, Q, late \/ hasTerminator, bare, hasTerminator)
  <2> HIDE DEF n, P, alt, next
  <2>1. Sane(fn, P, late, bare, hasTerminator) /\ late \in BOOLEAN /\ bare \in BOOLEAN
        /\ hasTerminator \in BOOLEAN
    BY DEF Underway, Flags, P
  <2>2. /\ next # 1 /\ next \in Q /\ alt \in P /\ alt \notin Q /\ alt \in All(fn)
    BY <1>2, <1>3
  <2>3. /\ {next} \subseteq (g.placed \cup Q) \ {1}
        /\ fn.placed \subseteq g.placed /\ g.placed \subseteq All(g) /\ Q \subseteq All(g)
        /\ P \subseteq g.placed \cup Q /\ g.ip \in g.placed /\ g.ip \notin Q
        /\ Q \cup {g.ip} \subseteq P \cup (All(g) \ All(fn))
        /\ g.placed \ (Q \cup {g.ip}) \subseteq fn.placed \ P
    BY <1>2, <1>4, <1>5, <2>2
  <2> DEFINE targets == {next}
  <2>4. Jumped(fn, g, targets) /\ targets \subseteq (g.placed \cup Q) \ {1}
    BY <1>4, <2>3
  <2> HIDE DEF Q, targets
  <2> QED
    BY <2>1, <2>3, <2>4, Jumps
<1>7. FramesOK(Outer, g)
  BY <1>2, <1>3, <1>4, FramesGrow
<1>8. /\ FramesOK(Append(Outer, fr), g) /\ Len(Append(Outer, fr)) = Len(Outer) + 1
      /\ Owned(Append(Outer, fr)) = Q
  <2>1. PICK T : frames \in Seq(FrameOf(T))
    BY DEF Underway, FramesOK
  <2>2. Top \in FrameOf(T)
    BY <1>1, <2>1, Fronts DEF Top
  <2> DEFINE id == Top.id
             outer == Top.outer
  <2>3. fr = [kind |-> "else", id |-> id, alt |-> alt, next |-> next,
              outer |-> outer, then |-> body]
    BY <2>2, ElseFrame
  <2>4. /\ alt \in Nat /\ next \in Nat /\ id \in Nat /\ {alt, next} \subseteq 2 .. Len(g.code)
        /\ next \notin Owned(Outer)
    BY <1>2, <1>3, <1>4
  <2>5. Q = Owned(Outer) \cup {next}
    BY <1>3
  <2> HIDE DEF fr, alt, next, id, outer, Q, R, P, n
  <2>6. "else" \in {"if", "else", "for"}
    OBVIOUS
  <2> QED
    BY <1>7, <2>3, <2>4, <2>5, <2>6, FramesPush
<1>9. Flags'
  BY <1>1 DEF Underway, Flags
<1>10. Len(Append(Outer, fr)) <= MaxDepth
  BY <1>3, <1>8 DEF Underway
<1> HIDE DEF fr, Q
<1>11. Owned(frames)' = Q
  BY <1>1, <1>8 DEF Owned
<1>12. Append(Outer, fr) # <<>>
  BY <1>3, <1>8
<1>13. hasTerminator => late'
  BY <1>1
<1> QED
  BY <1>1, <1>6, <1>8, <1>9, <1>10, <1>11, <1>13 DEF Underway

(* Out of an if with an else. *)
LEMMA EndElseInv == Underway /\ EndElse => Underway'
<1> SUFFICES ASSUME Underway, EndElse PROVE Underway'
  OBVIOUS
<1> DEFINE P == Owned(frames)
           n == Len(fn.code)
           next == Top.next
           g == IfElse(fn, next, next)
           Q == P \ {next}
<1>1. /\ fn' = IfEnd(fn, next, TRUE) /\ frames' = Outer /\ late' = (late \/ hasTerminator)
      /\ void' = void /\ hasTerminator' = hasTerminator /\ bare' = bare
      /\ nested' = nested /\ buried' = buried /\ nodes' = nodes
      /\ frames # <<>> /\ Top.kind = "else"
  BY DEF EndElse, Building
<1>2. /\ n \in Nat \ {0} /\ fn \in Bodies /\ fn.ip \in All(fn) /\ fn.ip \in fn.placed
      /\ fn.placed \subseteq All(fn) /\ 1 \in fn.placed /\ fn.ip \notin P
      /\ P \subseteq All(fn) \ {1}
  BY UnderwayFacts
<1>3. /\ FramesOK(Outer, fn) /\ Len(Outer) = Len(frames) - 1 /\ Len(frames) \in Nat \ {0}
      /\ next \in P /\ Owned(Outer) = Q /\ next \in 2 .. n
  <2>1. Own(Top) = {next}
    BY <1>1 DEF Own
  <2> QED
    BY <1>1, <2>1, FramesPop DEF Underway, Top, Outer
<1>4. next \in Nat
  BY <1>2, <1>3
<1>5. /\ fn' = g
      /\ Jumped(fn, g, {next}) /\ Len(g.code) = n
      /\ g.placed = fn.placed \cup {next} /\ g.ip = next
  <2> HIDE DEF next
  <2> QED
    <3>1. IfEnd(fn, next, TRUE) = IfElse(fn, next, next)
      BY <1>2, <1>4, IfEnds
    <3>2. fn' = g
      BY <1>1, <3>1
    <3>3. /\ Jumped(fn, g, {next}) /\ Len(g.code) = n
          /\ g.placed = fn.placed \cup {next} /\ g.ip = next
      BY <1>2, <1>4, IfElses
    <3> QED
      BY <3>2, <3>3
<1> HIDE DEF g
<1>6. All(g) = All(fn)
  BY <1>5 DEF All
<1>7. Sane(g, Q, late \/ hasTerminator, bare, hasTerminator)
  <2> HIDE DEF n, P, next
  <2>1. Sane(fn, P, late, bare, hasTerminator) /\ late \in BOOLEAN /\ bare \in BOOLEAN
        /\ hasTerminator \in BOOLEAN
    BY DEF Underway, Flags, P
  <2>2. next # 1 /\ next \in P /\ next \notin Q /\ next \in All(fn)
    BY <1>2, <1>3
  <2>3. /\ {next} \subseteq (g.placed \cup Q) \ {1}
        /\ fn.placed \subseteq g.placed /\ g.placed \subseteq All(g) /\ Q \subseteq All(g)
        /\ P \subseteq g.placed \cup Q /\ g.ip \in g.placed /\ g.ip \notin Q
        /\ Q \cup {g.ip} \subseteq P \cup (All(g) \ All(fn))
        /\ g.placed \ (Q \cup {g.ip}) \subseteq fn.placed \ P
    BY <1>2, <1>5, <1>6, <2>2
  <2> DEFINE targets == {next}
  <2>4. Jumped(fn, g, targets) /\ targets \subseteq (g.placed \cup Q) \ {1}
    BY <1>5, <2>3
  <2> HIDE DEF Q, targets
  <2> QED
    BY <2>1, <2>3, <2>4, Jumps
<1>8. FramesOK(Outer, g)
  BY <1>2, <1>3, <1>5, FramesGrow
<1>9. Flags'
  BY <1>1 DEF Underway, Flags
<1>10. Len(Outer) <= MaxDepth
  BY <1>3, BoundsAssumption DEF Underway
<1>11. hasTerminator /\ ~late' => Outer = <<>>
  BY <1>1
<1> HIDE DEF Q
<1>12. Owned(frames)' = Q
  BY <1>1, <1>3 DEF Owned
<1> QED
  BY <1>1, <1>5, <1>7, <1>8, <1>9, <1>10, <1>11, <1>12 DEF Underway

(* Out of an if without. *)
LEMMA EndIfInv == Underway /\ EndIf => Underway'
<1> SUFFICES ASSUME Underway, EndIf PROVE Underway'
  OBVIOUS
<1> DEFINE P == Owned(frames)
           n == Len(fn.code)
           alt == Top.alt
           next == Top.next
           g == IfElse(fn, alt, next)
           e == IfEnd(g, next, FALSE)
           Q == P \ {alt}
           R == Q \ {next}
<1>1. /\ fn' = e /\ frames' = Outer /\ late' = (late \/ hasTerminator)
      /\ void' = void /\ hasTerminator' = hasTerminator /\ bare' = TRUE
      /\ nested' = nested /\ buried' = buried /\ nodes' = nodes
      /\ frames # <<>> /\ Top.kind = "if"
  BY DEF EndIf, Building
<1>2. /\ n \in Nat \ {0} /\ fn \in Bodies /\ fn.ip \in All(fn) /\ fn.ip \in fn.placed
      /\ fn.placed \subseteq All(fn) /\ 1 \in fn.placed /\ fn.ip \notin P
      /\ P \subseteq All(fn) \ {1} /\ \A b \in P : fn.code[b] = <<>>
  BY UnderwayFacts
<1>3. /\ FramesOK(Outer, fn) /\ Len(Outer) = Len(frames) - 1 /\ Len(frames) \in Nat \ {0}
      /\ {alt, next} \subseteq P /\ Owned(Outer) = R
      /\ alt \in 2 .. n /\ next \in 2 .. n /\ alt # next
  <2>1. Own(Top) = {alt, next}
    BY <1>1 DEF Own
  <2> QED
    BY <1>1, <2>1, FramesPop DEF Underway, Top, Outer
<1>4. alt \in Nat /\ next \in Nat
  BY <1>2, <1>3
<1>5. /\ Jumped(fn, g, {next}) /\ Len(g.code) = n
      /\ g.placed = fn.placed \cup {alt} /\ g.ip = alt
  <2> HIDE DEF alt, next
  <2> QED
    BY <1>2, <1>4, IfElses
<1> HIDE DEF g
<1>6. All(g) = All(fn) /\ g \in Bodies /\ g.code[alt] = <<>>
  <2>1. All(g) = All(fn) /\ g \in Bodies
    BY <1>5 DEF All, Jumped
  <2>2. alt \in All(fn) \ {fn.ip} /\ fn.code[alt] = <<>>
    BY <1>2, <1>3
  <2>3. g.code[alt] = fn.code[alt]
    BY <1>5, <2>2 DEF Jumped
  <2> QED
    BY <2>1, <2>2, <2>3
<1>7. Sane(g, Q, late \/ hasTerminator, bare, hasTerminator)
  <2> HIDE DEF n, P, alt, next
  <2>1. Sane(fn, P, late, bare, hasTerminator) /\ late \in BOOLEAN /\ bare \in BOOLEAN
        /\ hasTerminator \in BOOLEAN
    BY DEF Underway, Flags, P
  <2>2. /\ next # 1 /\ next \in Q /\ alt \in P /\ alt \notin Q /\ alt \in All(fn)
    BY <1>2, <1>3
  <2>3. /\ {next} \subseteq (g.placed \cup Q) \ {1}
        /\ fn.placed \subseteq g.placed /\ g.placed \subseteq All(g) /\ Q \subseteq All(g)
        /\ P \subseteq g.placed \cup Q /\ g.ip \in g.placed /\ g.ip \notin Q
        /\ Q \cup {g.ip} \subseteq P \cup (All(g) \ All(fn))
        /\ g.placed \ (Q \cup {g.ip}) \subseteq fn.placed \ P
    BY <1>2, <1>5, <1>6, <2>2
  <2> DEFINE targets == {next}
  <2>4. Jumped(fn, g, targets) /\ targets \subseteq (g.placed \cup Q) \ {1}
    BY <1>5, <2>3
  <2> HIDE DEF Q, targets
  <2> QED
    BY <2>1, <2>3, <2>4, Jumps
<1>8. /\ e \in Bodies /\ e.code = g.code /\ e.placed = g.placed \cup {next} /\ e.ip = next
  <2>1. g.ip \in All(g)
    BY <1>2, <1>3, <1>5, <1>6 DEF All
  <2> HIDE DEF alt, next
  <2> QED
    BY <1>4, <1>6, <2>1, IfEnds
<1> HIDE DEF e
<1>9. Sane(e, R, late', bare', hasTerminator)
  <2>1. PICK l \in BOOLEAN, b \in BOOLEAN, h \in BOOLEAN :
          l = late' /\ b = bare /\ h = hasTerminator
    BY <1>1 DEF Underway, Flags
  <2>2. next \in Q
    BY <1>3
  <2>3. h => l
    BY <1>1, <2>1
  <2> HIDE DEF Q, R, P, n, alt, next
  <2>4. Sane(g, Q, l, b, h)
    BY <1>1, <1>7, <2>1
  <2>5. g.code[g.ip] = <<>>
    BY <1>5, <1>6
  <2>6. Dropped(g, e, Q, R, next)
    BY <1>8, <2>2, <2>5 DEF Dropped, R
  <2>7. Sane(e, R, l, TRUE, h)
    BY <2>3, <2>4, <2>6, Drops
  <2> QED
    BY <1>1, <2>1, <2>7
<1>10. FramesOK(Outer, e)
  <2>1. Len(e.code) = n
    BY <1>5, <1>8
  <2> QED
    BY <1>2, <1>3, <1>5, <1>8, <2>1, FramesGrow
<1>11. Flags'
  BY <1>1 DEF Underway, Flags
<1>12. Len(Outer) <= MaxDepth
  BY <1>3, BoundsAssumption DEF Underway
<1>13. hasTerminator /\ ~late' => Outer = <<>>
  BY <1>1
<1> HIDE DEF R
<1>14. Owned(frames)' = R
  BY <1>1, <1>3 DEF Owned
<1> QED
  BY <1>1, <1>9, <1>10, <1>11, <1>12, <1>13, <1>14 DEF Underway

(* Into a for. *)
LEMMA EnterForInv == Underway /\ EnterFor => Underway'
<1> SUFFICES ASSUME Underway, EnterFor PROVE Underway'
  OBVIOUS
<1> DEFINE P == Owned(frames)
           n == Len(fn.code)
           w == S!Done("init", nodes + 1)
           f == Emit(fn, Work(w))
           g == ForEnter(ForBlocks(f), nodes + 1, n + 1, n + 2)
           fr == Frame("for", n + 2, n + 2)
           Q == P \cup {n + 2}
<1>1. /\ fn' = g /\ frames' = Append(frames, fr) /\ late' = (late \/ hasTerminator)
      /\ void' = void /\ hasTerminator' = hasTerminator /\ bare' = bare
      /\ nested' = (nested \/ InLoop) /\ buried' = buried
      /\ nodes < MaxNodes /\ nodes' = nodes + 1 /\ Len(frames) < MaxDepth
  BY DEF EnterFor, Building, Meet, Open, Fresh
<1>2. /\ n \in Nat \ {0} /\ P \subseteq 1 .. n
      /\ nodes \in Nat /\ nodes + 1 \in Whats /\ nodes + 1 \in Nat
  BY UnderwayFacts DEF All
<1>3. w \in Whats
  BY <1>2 DEF S!Done, Whats, Roles
<1> HIDE DEF w
<1>4. /\ Sane(f, P, late \/ hasTerminator, bare, hasTerminator)
      /\ Len(f.code) = n /\ f.placed = fn.placed
  BY <1>3, UnderwayFacts, Works DEF Underway
<1> HIDE DEF f
<1>5. /\ f \in Bodies /\ f.ip \in All(f) /\ f.ip \in f.placed /\ f.placed \subseteq All(f)
  BY <1>4 DEF Sane, Shape, InOrder
<1>6. /\ Jumped(f, g, {n + 1, n + 2}) /\ Len(g.code) = n + 2
      /\ g.placed = f.placed \cup {n + 1, n + 2} /\ g.ip = n + 1
  BY <1>2, <1>4, <1>5, ForEnters
<1> HIDE DEF g
<1>7. All(g) = All(f) \cup {n + 1, n + 2} /\ All(f) = 1 .. n
  BY <1>2, <1>4, <1>6 DEF All
<1>8. PICK l \in BOOLEAN, b \in BOOLEAN, h \in BOOLEAN :
        l = late' /\ b = bare /\ h = hasTerminator
  BY <1>1 DEF Underway, Flags
<1>9. Sane(g, Q, late', bare, hasTerminator)
  <2>1. /\ n + 1 \notin 1 .. n /\ n + 2 \notin 1 .. n
        /\ n + 1 # n + 2 /\ n + 1 # 1 /\ n + 2 # 1
    BY <1>2
  <2> HIDE DEF n, P
  <2>2. Sane(f, P, l, b, h)
    BY <1>1, <1>4, <1>8
  <2> DEFINE targets == {n + 1, n + 2}
  <2>3. /\ Jumped(f, g, targets) /\ targets \subseteq (g.placed \cup Q) \ {1}
        /\ f.placed \subseteq g.placed /\ g.placed \subseteq All(g) /\ Q \subseteq All(g)
        /\ P \subseteq g.placed \cup Q /\ g.ip \in g.placed /\ g.ip \notin Q
        /\ Q \cup {g.ip} \subseteq P \cup (All(g) \ All(f))
        /\ g.placed \ (Q \cup {g.ip}) \subseteq f.placed \ P
    BY <1>2, <1>5, <1>6, <1>7, <2>1
  <2> HIDE DEF Q, targets
  <2>5. Sane(g, Q, l \/ h, b, h)
    BY <2>2, <2>3, Jumps
  <2>6. (l \/ h) = l
    BY <1>1, <1>8
  <2> QED
    BY <1>8, <2>5, <2>6
<1>10. FramesOK(frames, g)
  BY <1>2, <1>4, <1>6, FramesGrow DEF Underway
<1>11. /\ FramesOK(Append(frames, fr), g) /\ Len(Append(frames, fr)) = Len(frames) + 1
       /\ Len(frames) \in Nat /\ Owned(Append(frames, fr)) = Q
  <2>1. n + 2 \in Nat /\ n + 2 \notin P /\ n + 2 \in 2 .. Len(g.code) /\ n + 2 \in g.placed
    BY <1>2, <1>6
  <2> DEFINE m == n + 2
             id == nodes + 1
  <2>2. fr = [kind |-> "for", id |-> id, alt |-> m, next |-> m,
              outer |-> body, then |-> <<>>]
    BY DEF Frame
  <2>3. m \in Nat /\ id \in Nat /\ m \notin Owned(frames) /\ {m, m} \subseteq 2 .. Len(g.code)
        /\ m \in g.placed
    BY <1>2, <2>1
  <2>4. Q = Owned(frames) \cup {m}
    OBVIOUS
  <2> HIDE DEF fr, m, id, Q
  <2>5. "for" \in {"if", "else", "for"} /\ "for" # "if"
    OBVIOUS
  <2> QED
    BY <1>10, <2>2, <2>3, <2>4, <2>5, FramesPush
<1>12. Flags'
  <2>1. InLoop \in BOOLEAN
    BY DEF InLoop
  <2> QED
    BY <1>1, <2>1, BoundsAssumption DEF Underway, Flags
<1>13. Len(Append(frames, fr)) <= MaxDepth
  BY <1>1, <1>11, BoundsAssumption
<1>14. hasTerminator => late'
  BY <1>1
<1> HIDE DEF fr, Q
<1>15. Owned(frames)' = Q
  BY <1>1, <1>11 DEF Owned
<1> QED
  BY <1>1, <1>9, <1>11, <1>12, <1>13, <1>14, <1>15 DEF Underway

(* Out of it. *)
LEMMA EndForInv == Underway /\ EndFor => Underway'
<1> SUFFICES ASSUME Underway, EndFor PROVE Underway'
  OBVIOUS
<1> DEFINE P == Owned(frames)
           n == Len(fn.code)
           next == Top.next
           w == S!Done("step", Top.id)
           f == Emit(fn, Work(w))
           g == ForEnd(f, Top.id, next)
           Q == P \ {next}
<1>1. /\ fn' = g /\ frames' = Outer /\ late' = (late \/ hasTerminator)
      /\ void' = void /\ hasTerminator' = hasTerminator /\ bare' = bare
      /\ nested' = nested /\ buried' = buried /\ nodes' = nodes
      /\ frames # <<>> /\ Top.kind = "for"
  BY DEF EndFor, Building
<1>2. n \in Nat \ {0} /\ P \subseteq 1 .. n
  BY UnderwayFacts DEF All
<1>3. /\ FramesOK(Outer, fn) /\ Len(Outer) = Len(frames) - 1 /\ Len(frames) \in Nat \ {0}
      /\ next \in P /\ Owned(Outer) = Q /\ next \in 2 .. n /\ next \in fn.placed
      /\ Top.id \in Nat
  <2>1. Own(Top) = {next}
    BY <1>1 DEF Own
  <2> QED
    BY <1>1, <2>1, FramesPop DEF Underway, Top, Outer
<1>4. next \in Nat
  BY <1>2, <1>3
<1>5. w \in Whats /\ Top.id \in Whats
  BY <1>3 DEF S!Done, Whats, Roles
<1> HIDE DEF w
<1>6. /\ Sane(f, P, late \/ hasTerminator, bare, hasTerminator)
      /\ Len(f.code) = n /\ f.placed = fn.placed
  BY <1>5, UnderwayFacts, Works DEF Underway
<1> HIDE DEF f
<1>7. /\ f \in Bodies /\ f.ip \in All(f) /\ f.ip \in f.placed /\ f.placed \subseteq All(f)
      /\ f.ip \notin P /\ (P # {} => f.ip # 1) /\ 1 \in f.placed
  BY <1>6 DEF Sane, Shape, InOrder
<1>8. /\ Jumped(f, g, {f.ip, next}) /\ Len(g.code) = Len(f.code)
      /\ g.placed = f.placed /\ g.ip = next
  <2> DEFINE c == Top.id
  <2>1. c \in Whats
    BY <1>5
  <2> HIDE DEF c, next
  <2> QED
    BY <1>4, <1>7, <2>1, ForEnds DEF c
<1> HIDE DEF g
<1>9. All(g) = All(f)
  BY <1>8 DEF All
<1>10. PICK l \in BOOLEAN, b \in BOOLEAN, h \in BOOLEAN :
         l = late' /\ b = bare /\ h = hasTerminator
  BY <1>1 DEF Underway, Flags
<1>11. Sane(g, Q, late', bare, hasTerminator)
  <2> HIDE DEF n, P, next
  <2>1. Sane(f, P, l, b, h)
    BY <1>1, <1>6, <1>10
  <2>2. /\ next # 1 /\ next \in P /\ next \notin Q /\ next \in f.placed
        /\ f.ip # 1 /\ P \subseteq All(f)
    BY <1>2, <1>3, <1>6, <1>7 DEF All, n
  <2> DEFINE targets == {f.ip, next}
  <2>3. /\ Jumped(f, g, targets) /\ targets \subseteq (g.placed \cup Q) \ {1}
        /\ f.placed \subseteq g.placed /\ g.placed \subseteq All(g) /\ Q \subseteq All(g)
        /\ P \subseteq g.placed \cup Q /\ g.ip \in g.placed /\ g.ip \notin Q
        /\ Q \cup {g.ip} \subseteq P \cup (All(g) \ All(f))
        /\ g.placed \ (Q \cup {g.ip}) \subseteq f.placed \ P
    BY <1>7, <1>8, <1>9, <2>2
  <2> HIDE DEF Q, targets
  <2>4. Sane(g, Q, l \/ h, b, h)
    BY <2>1, <2>3, Jumps
  <2>5. (l \/ h) = l
    BY <1>1, <1>10
  <2> QED
    BY <1>10, <2>4, <2>5
<1>12. FramesOK(Outer, g)
  BY <1>2, <1>3, <1>6, <1>8, FramesGrow
<1>13. Flags'
  BY <1>1 DEF Underway, Flags
<1>14. Len(Outer) <= MaxDepth
  BY <1>3, BoundsAssumption DEF Underway
<1>15. hasTerminator => late'
  BY <1>1
<1> HIDE DEF Q
<1>16. Owned(frames)' = Q
  BY <1>1, <1>3 DEF Owned
<1> QED
  BY <1>1, <1>11, <1>12, <1>13, <1>14, <1>15, <1>16 DEF Underway
-----------------------------------------------------------------------------
(* The end of the walk. *)
LEMMA FailInv == Underway /\ Fail => TypeOK' /\ VerifierExplained'
<1> SUFFICES ASSUME Underway, Fail PROVE TypeOK' /\ VerifierExplained'
  OBVIOUS
<1>1. TypeOK
  BY UnderwayTypes DEF Fail
<1> QED
  BY <1>1 DEF Fail, TypeOK, VerifierExplained

(* The verifier judges the function. *)
LEMMA EndFunctionInv == Underway /\ EndFunction => TypeOK' /\ VerifierExplained'
<1> SUFFICES ASSUME Underway, EndFunction PROVE TypeOK' /\ VerifierExplained'
  OBVIOUS
<1>1. TypeOK
  BY UnderwayTypes DEF EndFunction
<1>2. Owned(frames) = {}
  <2>1. 1 .. Len(frames) = {}
    BY DEF EndFunction
  <2> QED
    BY <2>1 DEF Owned
<1>3. PICK v \in BOOLEAN, l \in BOOLEAN, b \in BOOLEAN, h \in BOOLEAN :
        v = void /\ l = late /\ b = bare /\ h = hasTerminator
  BY DEF Underway, Flags
<1>4. Sane(fn, {}, l, b, h)
  BY <1>2, <1>3 DEF Underway
<1>5. PICK g : g = FunctionEnd(fn, v, h)
  OBVIOUS
<1>6. /\ g.placed = fn.placed /\ g.ip = fn.ip /\ Len(g.code) = Len(fn.code)
      /\ Verified(g, v) <=> ~b /\ ~l /\ (v # h)
  BY <1>4, <1>5, Judged
<1>7. /\ fn' = g /\ frames' = frames /\ void' = void /\ hasTerminator' = hasTerminator
      /\ nodes' = nodes /\ late' = late /\ bare' = bare /\ nested' = nested
      /\ buried' = buried
  BY <1>3, <1>5 DEF EndFunction
<1>8. pc' = IF Verified(g, v) THEN "accepted" ELSE "refused"
  BY <1>3, <1>7 DEF EndFunction
<1>9. TypeOK'
  BY <1>1, <1>6, <1>7, <1>8 DEF TypeOK
<1>10. pc' # "refused" <=> ~b /\ ~l /\ (v # h)
  BY <1>6, <1>8
<1>11. VerifierExplained'
  BY <1>3, <1>7, <1>10 DEF VerifierExplained
<1> QED
  BY <1>9, <1>11

(* The run changes nothing of what was built. *)
RunStep == Run \/ RunWork \/ RunBr \/ RunCondBr \/ RunRet

(* So what held of the function goes on to hold. *)
LEMMA RunInv ==
  TypeOK /\ VerifierExplained /\ (RunStep \/ UNCHANGED vars) => TypeOK' /\ VerifierExplained'
<1> SUFFICES ASSUME TypeOK, VerifierExplained, RunStep \/ UNCHANGED vars
             PROVE  TypeOK' /\ VerifierExplained'
  OBVIOUS
<1>1. /\ fn' = fn /\ frames' = frames /\ void' = void /\ hasTerminator' = hasTerminator
      /\ nodes' = nodes /\ late' = late /\ bare' = bare /\ nested' = nested
      /\ buried' = buried
  BY DEF RunStep, Run, RunWork, RunBr, RunCondBr, RunRet, built, vars
<1>2. \/ pc' = pc
      \/ pc \in {"accepted", "running"} /\ pc' \in {"running", "returned"}
  BY DEF RunStep, Run, RunWork, RunBr, RunCondBr, RunRet, Running, vars
<1>3. TypeOK'
  BY <1>1, <1>2 DEF TypeOK
<1>4. VerifierExplained'
  BY <1>1, <1>2 DEF VerifierExplained
<1> QED
  BY <1>3, <1>4

(* The invariant is inductive. *)
LEMMA NextInv == IInv /\ [Next]_vars => IInv'
<1> SUFFICES ASSUME IInv, [Next]_vars PROVE IInv'
  OBVIOUS
<1> DEFINE Event == Statement \/ Return \/ BuriedReturn \/ EnterIf \/ Else \/ EndElse
                      \/ EndIf \/ EnterFor \/ EndFor
<1>1. CASE Event
  <2>1. pc = "building" /\ pc' = "building"
    BY <1>1 DEF Statement, Return, BuriedReturn, EnterIf, Else, EndElse, EndIf, EnterFor,
                EndFor, Building
  <2>2. Underway
    BY <2>1 DEF IInv
  <2>3. Underway'
    BY <1>1, <2>2, StatementInv, ReturnInv, EnterIfInv, ElseInv, EndElseInv, EndIfInv,
       EnterForInv, EndForInv
  <2> QED
    BY <2>1, <2>3 DEF IInv
<1>2. CASE Fail
  <2>1. pc = "building" /\ pc' = "failed"
    BY <1>2 DEF Fail
  <2> QED
    BY <1>2, <2>1, FailInv DEF IInv
<1>3. CASE EndFunction
  <2>1. pc = "building" /\ pc' \in {"accepted", "refused"}
    BY <1>3 DEF EndFunction
  <2> QED
    BY <1>3, <2>1, EndFunctionInv DEF IInv
<1>4. CASE RunStep
  <2>1. pc # "building" /\ pc' # "building"
    BY <1>4 DEF RunStep, Run, RunWork, RunBr, RunCondBr, RunRet, Running
  <2> QED
    BY <1>4, <2>1, RunInv DEF IInv
<1>5. CASE UNCHANGED vars
  <2>1. CASE pc = "building"
    <3>1. Underway /\ pc' = "building"
      BY <1>5, <2>1 DEF IInv, vars
    <3>2. Underway'
      BY <1>5, <3>1 DEF Underway, Flags, Owned, vars
    <3> QED
      BY <3>1, <3>2 DEF IInv
  <2>2. CASE pc # "building"
    <3>1. pc' # "building"
      BY <1>5, <2>2 DEF vars
    <3> QED
      BY <1>5, <2>2, <3>1, RunInv DEF IInv
  <2> QED
    BY <2>1, <2>2
<1> QED
  BY <1>1, <1>2, <1>3, <1>4, <1>5 DEF Next, RunStep

(* It has the properties as a consequence. *)
LEMMA Consequences == IInv => TypeOK /\ VerifierExplained
<1>1. CASE pc = "building"
  BY <1>1, UnderwayTypes DEF IInv, VerifierExplained
<1>2. CASE pc # "building"
  BY <1>2 DEF IInv
<1> QED
  BY <1>1, <1>2

(* And so it holds always. *)
LEMMA Invariance == Spec => []IInv
<1> QED
  BY InitInv, NextInv, PTL DEF Spec

(* Code generation keeps the builder in a block that is in the function,   *)
(* and the blocks of constructs in progress distinct from the entry,       *)
(* whatever the body.                                                      *)
THEOREM TypeCorrect == Spec => []TypeOK
<1>1. IInv => TypeOK
  BY Consequences
<1> QED
  BY <1>1, Invariance, PTL

(* For a body of any length and nesting, verifyFunction accepts the        *)
(* function exactly when every if has an else and the return is the last   *)
(* statement, or the function is void and has none.                        *)
THEOREM VerifierPredicted == Spec => []VerifierExplained
<1>1. IInv => VerifierExplained
  BY Consequences
<1> QED
  BY <1>1, Invariance, PTL
=============================================================================
