--------------------------- MODULE ControlFlowRuns ---------------------------
(***************************************************************************)
(* The generated code does what the program says, for bodies of any length *)
(* and depth: ControlFlow implements Structured, unless control flow is    *)
(* nested in a loop or a return is buried in a construct.                  *)
(*                                                                         *)
(* The argument labels every position of the code, an instruction or the   *)
(* end of a block, with what is left of the program when it is reached; it *)
(* is in order if each instruction leads from its label to the label of    *)
(* where it goes on (Flow).  While the function is being built that needs  *)
(* the rest of its source, which is not met yet: the invariant says that   *)
(* there is a labelling for each source that could follow (Explained).     *)
(***************************************************************************)
EXTENDS ControlFlowProofs

-----------------------------------------------------------------------------
(* Programs, and what is left of them.                                     *)
Kinds == {"work", "return", "if", "for", "test", "step"}
IsProgram(s) == /\ \E A : s \in Seq(A)
                /\ \A j \in 1 .. Len(s) : s[j].kind \in Kinds

LEMMA ProgramEmpty ==
  /\ IsProgram(<<>>)
  /\ \A s : IsProgram(s) => <<>> \o s = s /\ s \o <<>> = s
<1>1. <<>> \in Seq({}) /\ Len(<<>>) = 0
  OBVIOUS
<1>2. IsProgram(<<>>)
  BY <1>1 DEF IsProgram
<1>3. ASSUME NEW s, IsProgram(s) PROVE <<>> \o s = s /\ s \o <<>> = s
  <2>1. PICK A : s \in Seq(A)
    BY <1>3 DEF IsProgram
  <2> QED BY <2>1, ConcatEmptySeq
<1> QED BY <1>2, <1>3

LEMMA ProgramOne ==
  ASSUME NEW t, t.kind \in Kinds
  PROVE  IsProgram(<<t>>)
<1>1. PICK s : s = <<t>>
  OBVIOUS
<1>2. s \in Seq({t}) /\ Len(s) = 1 /\ s[1] = t
  BY <1>1
<1>3. \A j \in 1 .. Len(s) : s[j].kind \in Kinds
  BY <1>2
<1>4. IsProgram(s)
  BY <1>2, <1>3 DEF IsProgram
<1> QED BY <1>1, <1>4

LEMMA ProgramConcat ==
  ASSUME NEW s, NEW t, IsProgram(s), IsProgram(t)
  PROVE  IsProgram(s \o t)
<1>1. PICK A : s \in Seq(A)
  BY DEF IsProgram
<1>2. PICK B : t \in Seq(B)
  BY DEF IsProgram
<1>3. PICK C : C = A \cup B
  OBVIOUS
<1>4. s \in Seq(C) /\ t \in Seq(C)
  BY <1>1, <1>2, <1>3
<1>5. /\ s \o t \in Seq(C) /\ Len(s \o t) = Len(s) + Len(t)
      /\ \A j \in 1 .. Len(s) + Len(t) :
           (s \o t)[j] = IF j <= Len(s) THEN s[j] ELSE t[j - Len(s)]
  BY <1>4, ConcatProperties
<1>6. Len(s) \in Nat /\ Len(t) \in Nat
  BY <1>4
<1>7. ASSUME NEW j \in 1 .. Len(s) + Len(t) PROVE (s \o t)[j].kind \in Kinds
  <2>1. CASE j <= Len(s)
    BY <1>5, <1>6, <2>1 DEF IsProgram
  <2>2. CASE ~(j <= Len(s))
    <3>1. j - Len(s) \in 1 .. Len(t)
      BY <1>6, <2>2
    <3> QED BY <1>5, <2>2, <3>1 DEF IsProgram
  <2> QED BY <2>1, <2>2
<1> QED BY <1>5, <1>7 DEF IsProgram

LEMMA ProgramAssociates ==
  ASSUME NEW s, NEW t, NEW u, IsProgram(s), IsProgram(t), IsProgram(u)
  PROVE  (s \o t) \o u = s \o (t \o u)
<1>1. PICK A : s \in Seq(A)
  BY DEF IsProgram
<1>2. PICK B : t \in Seq(B)
  BY DEF IsProgram
<1>3. PICK C : u \in Seq(C)
  BY DEF IsProgram
<1>4. PICK D : D = A \cup B \cup C
  OBVIOUS
<1>5. s \in Seq(D) /\ t \in Seq(D) /\ u \in Seq(D)
  BY <1>1, <1>2, <1>3, <1>4
<1> QED BY <1>5, ConcatAssociative

LEMMA ProgramAppend ==
  ASSUME NEW s, NEW t, IsProgram(s), t.kind \in Kinds
  PROVE  Append(s, t) = s \o <<t>> /\ IsProgram(Append(s, t))
<1>1. PICK A : s \in Seq(A)
  BY DEF IsProgram
<1>2. PICK D : D = A \cup {t}
  OBVIOUS
<1>3. s \in Seq(D) /\ t \in D
  BY <1>1, <1>2
<1>4. Append(s, t) = s \o <<t>>
  BY <1>3, AppendIsConcat
<1> QED BY <1>4, ProgramOne, ProgramConcat

LEMMA ProgramShift ==
  ASSUME NEW s, NEW t, NEW u, IsProgram(s), IsProgram(u), t.kind \in Kinds
  PROVE  Append(s, t) \o u = s \o (<<t>> \o u)
<1>1. PICK x : x = <<t>>
  OBVIOUS
<1>2. IsProgram(x) /\ Append(s, t) = s \o x
  BY <1>1, ProgramOne, ProgramAppend
<1>3. (s \o x) \o u = s \o (x \o u)
  BY <1>2, ProgramAssociates
<1> QED BY <1>1, <1>2, <1>3

LEMMA ProgramCons ==
  ASSUME NEW t, NEW s, t.kind \in Kinds, IsProgram(s)
  PROVE  /\ IsProgram(<<t>> \o s) /\ <<t>> \o s # <<>>
         /\ Head(<<t>> \o s) = t /\ Tail(<<t>> \o s) = s
<1>1. PICK A : s \in Seq(A)
  BY DEF IsProgram
<1>2. PICK D : D = A \cup {t}
  OBVIOUS
<1>3. s \in Seq(D) /\ <<t>> \in Seq(D) /\ Len(<<t>>) = 1 /\ <<t>>[1] = t
  <2>1. t \in D
    BY <1>2
  <2>2. <<t>> \in Seq(D)
    BY <2>1
  <2> QED BY <1>1, <1>2, <2>2
<1> DEFINE r == <<t>> \o s
<1>4. /\ r \in Seq(D) /\ Len(r) = Len(<<t>>) + Len(s)
      /\ \A j \in 1 .. Len(<<t>>) + Len(s) :
           r[j] = IF j <= Len(<<t>>) THEN <<t>>[j] ELSE s[j - Len(<<t>>)]
  BY <1>3, ConcatProperties
<1>5. Len(s) \in Nat
  BY <1>1
<1> HIDE DEF r
<1>6. Len(r) = Len(s) + 1 /\ r[1] = t /\ \A j \in 1 .. Len(s) : r[j + 1] = s[j]
  <2>1. Len(r) = Len(s) + 1 /\ r[1] = t
    BY <1>3, <1>4, <1>5
  <2>2. ASSUME NEW j \in 1 .. Len(s) PROVE r[j + 1] = s[j]
    <3>1. j + 1 \in 1 .. Len(<<t>>) + Len(s) /\ ~(j + 1 <= Len(<<t>>))
          /\ j + 1 - Len(<<t>>) = j
      BY <1>3, <1>5
    <3> QED BY <1>4, <3>1
  <2> QED BY <2>1, <2>2
<1>7. r # <<>> /\ Head(r) = t
  <2>1. r # <<>>
    BY <1>4, <1>5, <1>6, EmptySeq
  <2> QED BY <1>4, <1>6, <2>1, HeadTailProperties
<1>8. Tail(r) = s
  <2>1. /\ Tail(r) \in Seq(D) /\ Len(Tail(r)) = Len(r) - 1
        /\ \A j \in 1 .. Len(Tail(r)) : Tail(r)[j] = r[j + 1]
    BY <1>4, <1>7, HeadTailProperties
  <2>2. Len(Tail(r)) = Len(s) /\ \A j \in 1 .. Len(s) : Tail(r)[j] = s[j]
    BY <1>5, <1>6, <2>1
  <2> QED BY <1>3, <2>1, <2>2, SeqEqual
<1>9. IsProgram(r)
  BY ProgramOne, ProgramConcat DEF r
<1> QED BY <1>7, <1>8, <1>9 DEF r

(* A program is none of the marks of a run that is not under way.          *)
LEMMA ProgramRuns ==
  ASSUME NEW s, IsProgram(s)
  PROVE  s # S!Idle /\ s # S!Over /\ s # S!Stuck
<1>1. ASSUME NEW k, k \notin Kinds PROVE s # << [kind |-> k, id |-> 0] >>
  <2>1. PICK m : m = [kind |-> k, id |-> 0]
    OBVIOUS
  <2>2. m.kind = k
    BY <2>1
  <2>3. ASSUME s = <<m>> PROVE FALSE
    <3>1. 1 \in 1 .. Len(s) /\ s[1] = m
      BY <2>3
    <3>2. s[1].kind \in Kinds
      BY <3>1 DEF IsProgram
    <3> QED BY <1>1, <2>2, <3>1, <3>2
  <2> QED BY <2>1, <2>3
<1>2. "idle" \notin Kinds /\ "over" \notin Kinds /\ "stuck" \notin Kinds
  BY DEF Kinds
<1> QED BY <1>1, <1>2 DEF S!Idle, S!Over, S!Stuck

(* Event e leads from what is left, p, to what is left then, q.            *)
Steps(p, e, q) ==
  /\ IsProgram(p) /\ IsProgram(q) /\ p # <<>>
  /\ q = S!Advance(p, e)
  /\ \E role \in Roles, holds \in BOOLEAN :
       e = [event |-> role, id |-> Head(p).id, holds |-> holds]

ForTree(id, whole) == [kind |-> "for", id |-> id, body |-> whole]
TestPart(id, whole) == [kind |-> "test", id |-> id, body |-> whole]
StepPart(id, whole) == [kind |-> "step", id |-> id, body |-> whole]

LEMMA WorkSteps ==
  ASSUME NEW id, NEW s, IsProgram(s)
  PROVE  /\ Steps(<< [kind |-> "work", id |-> id] >> \o s, S!Done("work", id), s)
         /\ Steps(<< [kind |-> "return", id |-> id] >> \o s, S!Done("work", id), <<>>)
<1>1. ASSUME NEW kind \in {"work", "return"}, NEW q, IsProgram(q),
             q = IF kind = "work" THEN s ELSE <<>>
      PROVE  Steps(<< [kind |-> kind, id |-> id] >> \o s, S!Done("work", id), q)
  <2> DEFINE t == [kind |-> kind, id |-> id]
             p == <<t>> \o s
             e == S!Done("work", id)
  <2>1. IsProgram(p) /\ p # <<>> /\ Head(p) = t /\ Tail(p) = s
    BY ProgramCons DEF Kinds
  <2> HIDE DEF p
  <2>2. S!After(t, s, e) = q
    BY <1>1 DEF S!After
  <2>3. S!Advance(p, e) = q
    BY <2>1, <2>2 DEF S!Advance
  <2>4. e = [event |-> "work", id |-> Head(p).id, holds |-> TRUE]
    <3>1. Head(p).id = id
      BY <2>1
    <3> QED BY <3>1 DEF S!Done
  <2> QED BY <1>1, <2>1, <2>3, <2>4 DEF Steps, Roles, p
<1> QED BY <1>1, ProgramEmpty

LEMMA IfSteps ==
  ASSUME NEW id, NEW then, NEW else, NEW s,
         IsProgram(s), IsProgram(then), IsProgram(else)
  PROVE  LET t == [kind |-> "if", id |-> id, then |-> then, else |-> else]
         IN  /\ Steps(<<t>> \o s, S!Tested(id, TRUE), then \o s)
             /\ Steps(<<t>> \o s, S!Tested(id, FALSE), else \o s)
<1> DEFINE t == [kind |-> "if", id |-> id, then |-> then, else |-> else]
           p == <<t>> \o s
<1>1. IsProgram(p) /\ p # <<>> /\ Head(p) = t /\ Tail(p) = s
  BY ProgramCons DEF Kinds
<1> HIDE DEF p
<1>2. ASSUME NEW h \in BOOLEAN, NEW q, q = (IF h THEN then ELSE else) \o s
      PROVE  Steps(p, S!Tested(id, h), q)
  <2> DEFINE e == S!Tested(id, h)
  <2>1. e = [event |-> "test", id |-> Head(p).id, holds |-> h]
    BY <1>1 DEF S!Tested
  <2>2. S!After(t, s, e) = q
    BY <1>2 DEF S!After, S!Tested
  <2>3. S!Advance(p, e) = q
    BY <1>1, <2>2 DEF S!Advance
  <2>4. IsProgram(q)
    BY <1>2, ProgramConcat
  <2> QED BY <1>1, <2>1, <2>3, <2>4 DEF Steps, Roles
<1> QED BY <1>2 DEF p

LEMMA ForSteps ==
  ASSUME NEW id, NEW whole, NEW s, IsProgram(s), IsProgram(whole)
  PROVE  LET test == <<TestPart(id, whole)>> \o s
             step == <<StepPart(id, whole)>> \o s
         IN  /\ Steps(<<ForTree(id, whole)>> \o s, S!Done("init", id), test)
             /\ Steps(test, S!Tested(id, TRUE), whole \o step)
             /\ Steps(test, S!Tested(id, FALSE), s)
             /\ Steps(step, S!Done("step", id), test)
<1> DEFINE f == ForTree(id, whole)
           t == TestPart(id, whole)
           d == StepPart(id, whole)
<1>1. /\ f.kind = "for" /\ t.kind = "test" /\ d.kind = "step"
      /\ f.id = id /\ t.id = id /\ d.id = id /\ t.body = whole
      /\ S!Part(f, "test") = t /\ S!Part(t, "step") = d /\ S!Part(d, "test") = t
  BY DEF ForTree, TestPart, StepPart, S!Part
<1>2. PICK F, E, D : F = <<f>> \o s /\ E = <<t>> \o s /\ D = <<d>> \o s
  OBVIOUS
<1> HIDE DEF f, t, d
<1>3. /\ IsProgram(F) /\ F # <<>> /\ Head(F) = f /\ Tail(F) = s
      /\ IsProgram(E) /\ E # <<>> /\ Head(E) = t /\ Tail(E) = s
      /\ IsProgram(D) /\ D # <<>> /\ Head(D) = d /\ Tail(D) = s
  BY <1>1, <1>2, ProgramCons DEF Kinds
<1>4. Steps(F, S!Done("init", id), E)
  <2>1. S!Done("init", id) = [event |-> "init", id |-> Head(F).id, holds |-> TRUE]
    BY <1>1, <1>3 DEF S!Done
  <2>2. S!After(f, s, S!Done("init", id)) = E
    BY <1>1, <1>2 DEF S!After
  <2>3. S!Advance(F, S!Done("init", id)) = E
    BY <1>3, <2>2 DEF S!Advance
  <2> QED BY <1>3, <2>1, <2>3 DEF Steps, Roles
<1>5. Steps(D, S!Done("step", id), E)
  <2>1. S!Done("step", id) = [event |-> "step", id |-> Head(D).id, holds |-> TRUE]
    BY <1>1, <1>3 DEF S!Done
  <2>2. S!After(d, s, S!Done("step", id)) = E
    BY <1>1, <1>2 DEF S!After
  <2>3. S!Advance(D, S!Done("step", id)) = E
    BY <1>3, <2>2 DEF S!Advance
  <2> QED BY <1>3, <2>1, <2>3 DEF Steps, Roles
<1>6. ASSUME NEW h \in BOOLEAN, NEW q, q = IF h THEN whole \o D ELSE s
      PROVE  Steps(E, S!Tested(id, h), q)
  <2> DEFINE e == S!Tested(id, h)
  <2>1. e = [event |-> "test", id |-> Head(E).id, holds |-> h]
    BY <1>1, <1>3 DEF S!Tested
  <2>2. (whole \o <<d>>) \o s = whole \o D
    <3>1. IsProgram(<<d>>)
      BY <1>1, ProgramOne DEF Kinds
    <3> QED BY <1>2, <3>1, ProgramAssociates
  <2>3. S!After(t, s, e) = q
    <3>1. t.kind = "test" /\ e = S!Tested(t.id, e.holds) /\ e.holds = h
      BY <1>1 DEF S!Tested
    <3>2. S!After(t, s, e) = IF h THEN t.body \o <<S!Part(t, "step")>> \o s ELSE s
      BY <1>1, <3>1 DEF S!After
    <3> QED BY <1>1, <1>6, <2>2, <3>2
  <2>4. S!Advance(E, e) = q
    BY <1>3, <2>3 DEF S!Advance
  <2>5. IsProgram(q)
    BY <1>3, <1>6, ProgramConcat
  <2> QED BY <1>3, <2>1, <2>4, <2>5 DEF Steps, Roles
<1>7. Steps(E, S!Tested(id, TRUE), whole \o D) /\ Steps(E, S!Tested(id, FALSE), s)
  BY <1>6
<1> QED BY <1>2, <1>4, <1>5, <1>7 DEF f, t, d

-----------------------------------------------------------------------------
(* Labelled code.  Labelling T marks a position, the k-th instruction of   *)
(* block b or the end of the block, with what is left of the program when  *)
(* it is reached.                                                          *)
Positions == Nat \X Nat
Mark(T, b, k) == T[<<b, k>>]

(* Instruction i, at position k of block b, goes on as the labels say.     *)
Leads(f, T, i, b, k) ==
  /\ i.op = "work" => Steps(Mark(T, b, k), i.what, Mark(T, b, k + 1))
  /\ i.op = "br" => /\ Len(i.to) = 1 /\ i.to[1] \in All(f)
                    /\ Mark(T, i.to[1], 1) = Mark(T, b, k)
  /\ i.op = "condbr" =>
       /\ Len(i.to) = 2 /\ i.to[1] \in All(f) /\ i.to[2] \in All(f)
       /\ Steps(Mark(T, b, k), S!Tested(i.what, TRUE), Mark(T, i.to[1], 1))
       /\ Steps(Mark(T, b, k), S!Tested(i.what, FALSE), Mark(T, i.to[2], 1))
  /\ i.op \in {"ret", "retvoid"} => Mark(T, b, k) = <<>>

Flow(f, T) ==
  \A b \in All(f) : \A k \in 1 .. Len(f.code[b]) : Leads(f, T, f.code[b][k], b, k)

(* g is f with instruction i at the insert point, and more empty blocks.   *)
Longer(f, g, i) ==
  /\ Len(f.code) <= Len(g.code)
  /\ g.code[f.ip] = Append(f.code[f.ip], i)
  /\ \A b \in All(f) \ {f.ip} : g.code[b] = f.code[b]
  /\ \A b \in All(g) \ All(f) : g.code[b] = <<>>

(* U labels the positions of f as T does.                                  *)
Agree(f, T, U) ==
  \A b \in All(f) : \A k \in 1 .. Len(f.code[b]) + 1 : Mark(U, b, k) = Mark(T, b, k)

End(f, b) == Len(f.code[b]) + 1

LEMMA FlowGrows ==
  ASSUME NEW f, f \in Bodies, f.ip \in All(f), NEW g, g \in Bodies,
         NEW i \in Instrs, Longer(f, g, i), NEW T, NEW U, Flow(f, T),
         Agree(f, T, U), Leads(g, U, i, f.ip, End(f, f.ip))
  PROVE  Flow(g, U)
<1>1. \A b \in All(f) : f.code[b] \in Seq(Instrs) /\ Len(f.code[b]) \in Nat
  BY DEF Bodies, All
<1>2. All(f) \subseteq All(g)
  BY DEF Bodies, All, Longer
<1>3. ASSUME NEW b \in All(f), NEW k \in 1 .. Len(f.code[b])
      PROVE  Leads(g, U, f.code[b][k], b, k)
  <2>1. k \in 1 .. Len(f.code[b]) + 1 /\ k + 1 \in 1 .. Len(f.code[b]) + 1
    BY <1>1
  <2>2. Mark(U, b, k) = Mark(T, b, k) /\ Mark(U, b, k + 1) = Mark(T, b, k + 1)
    BY <2>1 DEF Agree
  <2>3. \A c \in All(f) : Mark(U, c, 1) = Mark(T, c, 1)
    <3>1. \A c \in All(f) : 1 \in 1 .. Len(f.code[c]) + 1
      BY <1>1
    <3> QED BY <3>1 DEF Agree
  <2>4. Leads(f, T, f.code[b][k], b, k)
    BY DEF Flow
  <2> QED BY <1>2, <2>2, <2>3, <2>4 DEF Leads
<1>4. ASSUME NEW b \in All(g), NEW k \in 1 .. Len(g.code[b])
      PROVE  Leads(g, U, g.code[b][k], b, k)
  <2>1. CASE b \in All(f) \ {f.ip}
    BY <1>3, <1>4, <2>1 DEF Longer
  <2>2. CASE b = f.ip
    <3>1. /\ Len(f.code[b]) \in Nat /\ Len(g.code[b]) = Len(f.code[b]) + 1
          /\ g.code[b][Len(f.code[b]) + 1] = i
          /\ \A j \in 1 .. Len(f.code[b]) : g.code[b][j] = f.code[b][j]
      <4>1. PICK c \in Seq(Instrs) : c = f.code[b]
        BY <1>1, <2>2
      <4>2. PICK d : d = g.code[b] /\ d = Append(c, i)
        BY <2>2, <4>1 DEF Longer
      <4>3. /\ Len(c) \in Nat /\ Len(d) = Len(c) + 1 /\ d[Len(c) + 1] = i
            /\ \A j \in 1 .. Len(c) : d[j] = c[j]
        BY ONLY <4>2, c \in Seq(Instrs), i \in Instrs, Appending
      <4> QED BY <4>1, <4>2, <4>3
    <3>2. CASE k \in 1 .. Len(f.code[b])
      BY <1>3, <2>2, <3>1, <3>2
    <3>3. CASE k = Len(f.code[b]) + 1
      BY <2>2, <3>1, <3>3 DEF End
    <3>4. k \in 1 .. Len(f.code[b]) \/ k = Len(f.code[b]) + 1
      BY <3>1
    <3> QED BY <3>2, <3>3, <3>4
  <2>3. CASE b \notin All(f)
    <3>1. g.code[b] = <<>>
      BY <2>3 DEF Longer
    <3> QED BY <1>4, <3>1
  <2> QED BY <2>1, <2>2, <2>3
<1> QED BY <1>4 DEF Flow

(* A label more.                                                           *)
Label(T, b, k, p) == [x \in Positions |-> IF x = <<b, k>> THEN p ELSE T[x]]

LEMMA Labels ==
  ASSUME NEW T, NEW b \in Nat, NEW k \in Nat, NEW p
  PROVE  /\ Mark(Label(T, b, k, p), b, k) = p
         /\ \A c \in Nat, j \in Nat :
              c # b \/ j # k => Mark(Label(T, b, k, p), c, j) = Mark(T, c, j)
<1>1. \A c \in Nat, j \in Nat : <<c, j>> \in Positions
  BY DEF Positions
<1>2. \A c \in Nat, j \in Nat : <<c, j>> = <<b, k>> => c = b /\ j = k
  OBVIOUS
<1> QED BY <1>1, <1>2 DEF Mark, Label

(* A label outside f.                                                      *)
LEMMA LabelsAgree ==
  ASSUME NEW f, f \in Bodies, NEW T, NEW U, NEW b \in Nat, NEW k \in Nat, NEW p,
         b \in All(f) => k \notin 1 .. End(f, b), Agree(f, T, U)
  PROVE  Agree(f, T, Label(U, b, k, p))
<1>1. ASSUME NEW c \in All(f), NEW j \in 1 .. Len(f.code[c]) + 1
      PROVE  Mark(Label(U, b, k, p), c, j) = Mark(T, c, j)
  <2>1. c \in Nat /\ j \in Nat
    BY DEF All
  <2>2. c # b \/ j # k
    BY DEF End
  <2>3. <<c, j>> \in Positions /\ <<c, j>> # <<b, k>>
    BY <2>1, <2>2 DEF Positions
  <2>4. Mark(Label(U, b, k, p), c, j) = Mark(U, c, j)
    BY <2>3 DEF Mark, Label
  <2> QED BY <2>4 DEF Agree
<1> QED BY <1>1 DEF Agree
-----------------------------------------------------------------------------
(* The source that is still to be met.  Level 0 is the body of the         *)
(* function, level l that of the l-th construct in progress.  At level l,  *)
(* F.rest[l] is what follows what was met, F.whole[l] the whole sequence,  *)
(* F.els[l] the else that follows, if this is a then, and F.left[l] what   *)
(* is left to do when what was met has been done.                          *)
Node(fr, whole, els) ==
  IF fr.kind = "for" THEN ForTree(fr.id, whole)
  ELSE [kind |-> "if", id |-> fr.id,
        then |-> IF fr.kind = "if" THEN whole ELSE fr.then,
        else |-> IF fr.kind = "if" THEN els ELSE whole]
Again(fr, whole) == IF fr.kind = "for" THEN << StepPart(fr.id, whole) >> ELSE <<>>

Future(F, fs, met) ==
  LET n == Len(fs)
  IN  /\ \A l \in 0 .. n : /\ IsProgram(F.rest[l]) /\ IsProgram(F.whole[l])
                           /\ IsProgram(F.left[l]) /\ IsProgram(F.els[l])
      /\ F.left[0] = F.rest[0]
      /\ F.whole[n] = met \o F.rest[n]
      /\ \A l \in 1 .. n :
           /\ F.whole[l - 1] = fs[l].outer \o
                (<< Node(fs[l], F.whole[l], F.els[l]) >> \o F.rest[l - 1])
           /\ F.left[l] = F.rest[l] \o (Again(fs[l], F.whole[l]) \o F.left[l - 1])

(* What the labels of a function under construction have to be.            *)
Entry(F, T) == Mark(T, 1, 1) = F.whole[0]
Cursor(F, T, f, fs) == Mark(T, f.ip, End(f, f.ip)) = F.left[Len(fs)]
Exits(F, T, fs) ==
  \A l \in 1 .. Len(fs) :
    /\ Mark(T, fs[l].next, 1) = F.left[l - 1]
    /\ fs[l].kind = "if" => Mark(T, fs[l].alt, 1) = F.els[l] \o F.left[l - 1]
Loop(F, T, f, fs) ==
  LET n == Len(fs)
  IN  fs # <<>> /\ fs[n].kind = "for" =>
        Mark(T, f.ip, 1) =
          F.whole[n] \o (<< StepPart(fs[n].id, F.whole[n]) >> \o F.left[n - 1])

Labelled(F, T, f, fs, h) ==
  /\ Flow(f, T)
  /\ Entry(F, T) /\ Exits(F, T, fs) /\ Loop(F, T, f, fs)
  /\ ~h => Cursor(F, T, f, fs)

Explained(f, fs, met, h) ==
  \A F : Future(F, fs, met) => \E T : Labelled(F, T, f, fs, h)

(* What was met is a program.                                              *)
Written(fs, met) ==
  /\ IsProgram(met)
  /\ \A l \in 1 .. Len(fs) : IsProgram(fs[l].outer) /\ IsProgram(fs[l].then)

LEMMA NodeKinds ==
  ASSUME NEW fr, NEW whole, NEW els
  PROVE  Node(fr, whole, els).kind \in Kinds
BY DEF Node, ForTree, Kinds

LEMMA AgainIsProgram ==
  ASSUME NEW fr, NEW whole
  PROVE  IsProgram(Again(fr, whole))
<1>1. StepPart(fr.id, whole).kind \in Kinds
  BY DEF StepPart, Kinds
<1> QED BY <1>1, ProgramOne, ProgramEmpty DEF Again

(* A tree that was met was part of what follows before.                    *)
Before(F, n, t) ==
  [rest  |-> [l \in 0 .. n |-> IF l = n THEN <<t>> \o F.rest[n] ELSE F.rest[l]],
   whole |-> F.whole,
   els   |-> F.els,
   left  |-> [l \in 0 .. n |-> IF l = n THEN <<t>> \o F.left[n] ELSE F.left[l]]]

LEMMA FutureBefore ==
  ASSUME NEW F, NEW fs, Len(fs) \in Nat, NEW met, IsProgram(met),
         NEW t, t.kind \in Kinds, Future(F, fs, Append(met, t))
  PROVE  LET n == Len(fs)
             G == Before(F, n, t)
         IN  /\ Future(G, fs, met)
             /\ G.whole = F.whole /\ G.els = F.els
             /\ G.left[n] = <<t>> \o F.left[n]
             /\ \A l \in 1 .. n : G.left[l - 1] = F.left[l - 1]
             /\ IsProgram(F.left[n])
<1>1. PICK n \in Nat : n = Len(fs)
  OBVIOUS
<1>2. PICK G : G = Before(F, n, t)
  OBVIOUS
<1>3. /\ G.whole = F.whole /\ G.els = F.els
      /\ G.rest[n] = <<t>> \o F.rest[n] /\ G.left[n] = <<t>> \o F.left[n]
      /\ \A l \in 0 .. n : l # n => G.rest[l] = F.rest[l] /\ G.left[l] = F.left[l]
  BY ONLY <1>2, n \in Nat DEF Before
<1>4. /\ \A l \in 0 .. n : /\ IsProgram(F.rest[l]) /\ IsProgram(F.whole[l])
                           /\ IsProgram(F.left[l]) /\ IsProgram(F.els[l])
      /\ F.left[0] = F.rest[0]
      /\ F.whole[n] = Append(met, t) \o F.rest[n]
      /\ \A l \in 1 .. n :
           /\ F.whole[l - 1] = fs[l].outer \o
                (<< Node(fs[l], F.whole[l], F.els[l]) >> \o F.rest[l - 1])
           /\ F.left[l] = F.rest[l] \o (Again(fs[l], F.whole[l]) \o F.left[l - 1])
  BY <1>1 DEF Future
<1>5. n \in 0 .. n /\ \A l \in 1 .. n : l - 1 \in 0 .. n /\ l - 1 # n /\ l \in 0 .. n
  BY <1>1
<1>6. IsProgram(<<t>>) /\ IsProgram(G.rest[n]) /\ IsProgram(G.left[n])
  <2>1. PICK x, r, s : x = <<t>> /\ r = F.rest[n] /\ s = F.left[n]
    OBVIOUS
  <2>2. IsProgram(x) /\ IsProgram(r) /\ IsProgram(s)
    BY <1>4, <1>5, <2>1, ProgramOne
  <2>3. IsProgram(x \o r) /\ IsProgram(x \o s)
    BY ONLY <2>2, ProgramConcat
  <2> QED BY <1>3, <2>1, <2>2, <2>3
<1>7. \A l \in 0 .. n : /\ IsProgram(G.rest[l]) /\ IsProgram(G.whole[l])
                        /\ IsProgram(G.left[l]) /\ IsProgram(G.els[l])
  BY <1>3, <1>4, <1>6
<1>8. G.left[0] = G.rest[0]
  <2>1. 0 \in 0 .. n
    BY <1>1
  <2> QED BY <1>3, <1>4, <2>1
<1>9. G.whole[n] = met \o G.rest[n]
  <2>1. Append(met, t) \o F.rest[n] = met \o (<<t>> \o F.rest[n])
    <3>1. PICK r : r = F.rest[n]
      OBVIOUS
    <3>2. IsProgram(r)
      BY <1>4, <1>5, <3>1
    <3>3. Append(met, t) \o r = met \o (<<t>> \o r)
      BY <3>2, ProgramShift
    <3> QED BY <3>1, <3>3
  <2> QED BY <1>3, <1>4, <2>1
<1>10. ASSUME NEW l \in 1 .. n
       PROVE  /\ G.whole[l - 1] = fs[l].outer \o
                   (<< Node(fs[l], G.whole[l], G.els[l]) >> \o G.rest[l - 1])
              /\ G.left[l] = G.rest[l] \o (Again(fs[l], G.whole[l]) \o G.left[l - 1])
  <2>1. G.rest[l - 1] = F.rest[l - 1] /\ G.left[l - 1] = F.left[l - 1]
    BY <1>3, <1>5
  <2>2. G.left[l] = G.rest[l] \o (Again(fs[l], F.whole[l]) \o F.left[l - 1])
    <3>1. CASE l = n
      <4>1. PICK w, q : w = Again(fs[l], F.whole[l]) /\ q = F.left[l - 1]
        OBVIOUS
      <4>2. PICK a : a = w \o q
        OBVIOUS
      <4>3. IsProgram(a)
        <5>1. IsProgram(w) /\ IsProgram(q)
          BY <1>4, <1>5, <4>1, AgainIsProgram
        <5> QED BY ONLY <4>2, <5>1, ProgramConcat
      <4>4. F.left[n] = F.rest[n] \o a
        BY <1>4, <3>1, <4>1, <4>2
      <4>5. PICK x, r : x = <<t>> /\ r = F.rest[n]
        OBVIOUS
      <4>6. IsProgram(x) /\ IsProgram(r)
        BY <1>4, <1>5, <1>6, <4>5
      <4>7. (x \o r) \o a = x \o (r \o a)
        BY ONLY <4>3, <4>6, ProgramAssociates
      <4>8. G.left[n] = x \o (r \o a) /\ G.rest[n] = x \o r
        BY <1>3, <4>4, <4>5
      <4> QED BY <3>1, <4>1, <4>2, <4>7, <4>8
    <3>2. CASE l # n
      BY <1>3, <1>4, <1>5, <3>2
    <3> QED BY <3>1, <3>2
  <2> QED BY <1>3, <1>4, <2>1, <2>2
<1>11. \A l \in 1 .. n : G.left[l - 1] = F.left[l - 1]
  BY <1>3, <1>5
<1>12. Future(G, fs, met)
  BY <1>1, <1>7, <1>8, <1>9, <1>10 DEF Future
<1> QED BY <1>1, <1>2, <1>3, <1>4, <1>5, <1>11, <1>12

(* What follows inside a construct says what follows with it.              *)
LEMMA FutureOutside ==
  ASSUME NEW F, NEW A, NEW fs \in Seq(A), NEW fr \in A, IsProgram(fr.outer),
         Future(F, Append(fs, fr), <<>>)
  PROVE  LET n == Len(fs)
             t == Node(fr, F.whole[n + 1], F.els[n + 1])
         IN  /\ Future(F, fs, Append(fr.outer, t)) /\ t.kind \in Kinds
             /\ IsProgram(F.whole[n + 1]) /\ IsProgram(F.els[n + 1])
             /\ IsProgram(F.rest[n + 1]) /\ F.whole[n + 1] = F.rest[n + 1]
             /\ F.left[n + 1] = F.rest[n + 1] \o (Again(fr, F.whole[n + 1]) \o F.left[n])
             /\ IsProgram(F.left[n])
<1>1. PICK n \in Nat : n = Len(fs)
  OBVIOUS
<1>2. PICK all : all = Append(fs, fr)
  OBVIOUS
<1>3. Len(all) = n + 1 /\ all[n + 1] = fr /\ \A l \in 1 .. n : all[l] = fs[l]
  BY <1>1, <1>2
<1>4. PICK t : t = Node(fr, F.whole[n + 1], F.els[n + 1])
  OBVIOUS
<1>5. /\ \A l \in 0 .. n + 1 : /\ IsProgram(F.rest[l]) /\ IsProgram(F.whole[l])
                               /\ IsProgram(F.left[l]) /\ IsProgram(F.els[l])
      /\ F.left[0] = F.rest[0]
      /\ F.whole[n + 1] = <<>> \o F.rest[n + 1]
      /\ \A l \in 1 .. n + 1 :
           /\ F.whole[l - 1] = all[l].outer \o
                (<< Node(all[l], F.whole[l], F.els[l]) >> \o F.rest[l - 1])
           /\ F.left[l] = F.rest[l] \o (Again(all[l], F.whole[l]) \o F.left[l - 1])
  BY <1>2, <1>3 DEF Future
<1>6. /\ n \in 0 .. n + 1 /\ n + 1 \in 0 .. n + 1 /\ n + 1 \in 1 .. n + 1
      /\ (n + 1) - 1 = n /\ 1 .. n \subseteq 1 .. n + 1 /\ 0 .. n \subseteq 0 .. n + 1
  BY <1>1
<1>7. /\ F.whole[n] = fr.outer \o (<<t>> \o F.rest[n])
      /\ F.left[n + 1] = F.rest[n + 1] \o (Again(fr, F.whole[n + 1]) \o F.left[n])
  BY <1>3, <1>4, <1>5, <1>6
<1>8. t.kind \in Kinds
  BY <1>4, NodeKinds
<1>9. F.whole[n] = Append(fr.outer, t) \o F.rest[n]
  <2>1. Append(fr.outer, t) \o F.rest[n] = fr.outer \o (<<t>> \o F.rest[n])
    <3>1. PICK o, r : o = fr.outer /\ r = F.rest[n]
      OBVIOUS
    <3>2. IsProgram(o) /\ IsProgram(r)
      BY <1>5, <1>6, <3>1
    <3>3. Append(o, t) \o r = o \o (<<t>> \o r)
      BY ONLY <1>8, <3>2, ProgramShift
    <3> QED BY <3>1, <3>3
  <2> QED BY <1>7, <2>1
<1>10. Future(F, fs, Append(fr.outer, t))
  <2>1. ASSUME NEW l \in 1 .. n
        PROVE  /\ F.whole[l - 1] = fs[l].outer \o
                     (<< Node(fs[l], F.whole[l], F.els[l]) >> \o F.rest[l - 1])
               /\ F.left[l] = F.rest[l] \o (Again(fs[l], F.whole[l]) \o F.left[l - 1])
    BY <1>3, <1>5, <1>6
  <2>2. /\ \A l \in 0 .. n : /\ IsProgram(F.rest[l]) /\ IsProgram(F.whole[l])
                             /\ IsProgram(F.left[l]) /\ IsProgram(F.els[l])
        /\ F.left[0] = F.rest[0]
    BY <1>5, <1>6
  <2> QED BY <1>1, <1>9, <2>1, <2>2 DEF Future
<1>11. F.whole[n + 1] = F.rest[n + 1]
  BY <1>5, <1>6, ProgramEmpty
<1> QED BY <1>1, <1>4, <1>5, <1>6, <1>7, <1>8, <1>10, <1>11

(* And the other way round, when nothing follows inside.                   *)
Inside(F, n, fr, met, els) ==
  [rest  |-> [l \in 0 .. n |-> IF l = n THEN <<>> ELSE F.rest[l]],
   whole |-> [l \in 0 .. n |-> IF l = n THEN met ELSE F.whole[l]],
   els   |-> [l \in 0 .. n |-> IF l = n THEN els ELSE F.els[l]],
   left  |-> [l \in 0 .. n |-> IF l = n THEN Again(fr, met) \o F.left[n - 1]
                                        ELSE F.left[l]]]

LEMMA FutureInside ==
  ASSUME NEW F, NEW A, NEW fs \in Seq(A), fs # <<>>, NEW met, NEW els,
         NEW n \in Nat, n = Len(fs), NEW fr, fr = fs[n],
         IsProgram(met), IsProgram(els), IsProgram(fr.outer),
         Future(F, SubSeq(fs, 1, n - 1), Append(fr.outer, Node(fr, met, els)))
  PROVE  LET G == Inside(F, n, fr, met, els)
         IN  /\ Future(G, fs, met)
             /\ G.whole[n] = met /\ G.els[n] = els
             /\ G.left[n] = Again(fr, met) \o F.left[n - 1]
             /\ \A l \in 0 .. n - 1 : /\ G.left[l] = F.left[l] /\ G.els[l] = F.els[l]
                                      /\ G.whole[l] = F.whole[l]
             /\ IsProgram(F.left[n - 1])
<1>1. n \in Nat \ {0} /\ n = Len(fs)
  BY EmptySeq
<1>2. fr = fs[n]
  OBVIOUS
<1>3. PICK out : out = SubSeq(fs, 1, n - 1)
  OBVIOUS
<1>4. Len(out) = n - 1 /\ \A l \in 1 .. n - 1 : out[l] = fs[l]
  BY <1>1, <1>3, Fronts
<1>5. PICK t : t = Node(fr, met, els)
  OBVIOUS
<1>6. PICK G : G = Inside(F, n, fr, met, els)
  OBVIOUS
<1>7. /\ G.rest[n] = <<>> /\ G.whole[n] = met /\ G.els[n] = els
      /\ G.left[n] = Again(fr, met) \o F.left[n - 1]
      /\ \A l \in 0 .. n : l # n =>
           /\ G.rest[l] = F.rest[l] /\ G.whole[l] = F.whole[l]
           /\ G.els[l] = F.els[l] /\ G.left[l] = F.left[l]
  <2>1. n \in Nat \ {0}
    BY <1>1
  <2> QED BY ONLY <1>6, <2>1 DEF Inside
<1>8. /\ \A l \in 0 .. n - 1 : /\ IsProgram(F.rest[l]) /\ IsProgram(F.whole[l])
                               /\ IsProgram(F.left[l]) /\ IsProgram(F.els[l])
      /\ F.left[0] = F.rest[0]
      /\ F.whole[n - 1] = Append(fr.outer, t) \o F.rest[n - 1]
      /\ \A l \in 1 .. n - 1 :
           /\ F.whole[l - 1] = out[l].outer \o
                (<< Node(out[l], F.whole[l], F.els[l]) >> \o F.rest[l - 1])
           /\ F.left[l] = F.rest[l] \o (Again(out[l], F.whole[l]) \o F.left[l - 1])
  BY <1>1, <1>2, <1>3, <1>4, <1>5 DEF Future
<1>9. /\ \A l \in 0 .. n - 1 : l \in 0 .. n /\ l # n
      /\ \A l \in 0 .. n : l # n => l \in 0 .. n - 1
      /\ \A l \in 1 .. n : l # n => l \in 1 .. n - 1
      /\ \A l \in 1 .. n - 1 : l \in 0 .. n - 1 /\ l - 1 \in 0 .. n - 1
      /\ n - 1 \in 0 .. n - 1 /\ 0 \in 0 .. n - 1
  BY <1>1
<1>10. \A l \in 0 .. n : /\ IsProgram(G.rest[l]) /\ IsProgram(G.whole[l])
                         /\ IsProgram(G.left[l]) /\ IsProgram(G.els[l])
  <2>1. IsProgram(G.left[n])
    <3>1. PICK w, q : w = Again(fr, met) /\ q = F.left[n - 1]
      OBVIOUS
    <3>2. IsProgram(w) /\ IsProgram(q)
      BY <1>8, <1>9, <3>1, AgainIsProgram
    <3>3. IsProgram(w \o q)
      BY ONLY <3>2, ProgramConcat
    <3> QED BY <1>7, <3>1, <3>3
  <2>2. IsProgram(G.rest[n]) /\ IsProgram(G.whole[n]) /\ IsProgram(G.els[n])
    BY <1>7, ProgramEmpty
  <2> QED BY <1>7, <1>8, <1>9, <2>1, <2>2
<1>11. G.left[0] = G.rest[0]
  BY <1>7, <1>8, <1>9
<1>12. G.whole[n] = met \o G.rest[n]
  BY <1>7, ProgramEmpty
<1>13. ASSUME NEW l \in 1 .. n
       PROVE  /\ G.whole[l - 1] = fs[l].outer \o
                   (<< Node(fs[l], G.whole[l], G.els[l]) >> \o G.rest[l - 1])
              /\ G.left[l] = G.rest[l] \o (Again(fs[l], G.whole[l]) \o G.left[l - 1])
  <2>1. CASE l = n
    <3>1. G.whole[n - 1] = F.whole[n - 1] /\ G.rest[n - 1] = F.rest[n - 1]
          /\ G.left[n - 1] = F.left[n - 1]
      BY <1>7, <1>9
    <3>2. F.whole[n - 1] = fr.outer \o (<<t>> \o F.rest[n - 1])
      <4>1. t.kind \in Kinds
        BY <1>5, NodeKinds
      <4>2. PICK o, r : o = fr.outer /\ r = F.rest[n - 1]
        OBVIOUS
      <4>3. IsProgram(o) /\ IsProgram(r)
        BY <1>1, <1>2, <1>8, <1>9, <4>2
      <4>4. Append(o, t) \o r = o \o (<<t>> \o r)
        BY ONLY <4>1, <4>3, ProgramShift
      <4> QED BY <1>8, <4>2, <4>4
    <3>3. G.left[n] = <<>> \o (Again(fr, met) \o F.left[n - 1])
      <4>1. PICK p : p = G.left[n]
        OBVIOUS
      <4>2. IsProgram(p)
        BY <1>1, <1>10, <4>1
      <4>3. <<>> \o p = p
        BY ONLY <4>2, ProgramEmpty
      <4> QED BY <1>7, <4>1, <4>3
    <3> QED BY <1>2, <1>5, <1>7, <2>1, <3>1, <3>2, <3>3
  <2>2. CASE l # n
    <3>1. l \in 1 .. n - 1 /\ l \in 0 .. n /\ l - 1 \in 0 .. n /\ l - 1 # n
      BY <1>9, <2>2
    <3>2. out[l] = fs[l]
      BY <1>4, <3>1
    <3>3. /\ F.whole[l - 1] = fs[l].outer \o
               (<< Node(fs[l], F.whole[l], F.els[l]) >> \o F.rest[l - 1])
          /\ F.left[l] = F.rest[l] \o (Again(fs[l], F.whole[l]) \o F.left[l - 1])
      BY <1>8, <3>1, <3>2
    <3>4. /\ G.rest[l] = F.rest[l] /\ G.whole[l] = F.whole[l]
          /\ G.els[l] = F.els[l] /\ G.left[l] = F.left[l]
          /\ G.rest[l - 1] = F.rest[l - 1] /\ G.whole[l - 1] = F.whole[l - 1]
          /\ G.left[l - 1] = F.left[l - 1]
      BY <1>7, <2>2, <3>1
    <3> QED BY <3>3, <3>4
  <2> QED BY <2>1, <2>2
<1>14. Future(G, fs, met)
  BY <1>1, <1>10, <1>11, <1>12, <1>13 DEF Future
<1> QED BY <1>1, <1>2, <1>6, <1>7, <1>8, <1>9, <1>14
-----------------------------------------------------------------------------
(* What the events of the walk do to labelled code.                        *)

(* A label at the end of the program: an event that does work.             *)
LEMMA WorkFlows ==
  ASSUME NEW f, f \in Bodies, f.ip \in All(f), NEW w, w \in Whats, NEW T, NEW p, NEW q,
         Flow(f, T), Mark(T, f.ip, End(f, f.ip)) = p, Steps(p, w, q)
  PROVE  LET g == Emit(f, Work(w))
             U == Label(T, f.ip, End(f, f.ip) + 1, q)
         IN  /\ g \in Bodies /\ g.ip = f.ip /\ All(g) = All(f) /\ g.placed = f.placed
             /\ Len(g.code) = Len(f.code) /\ End(g, f.ip) = End(f, f.ip) + 1
             /\ \A b \in All(f) \ {f.ip} : g.code[b] = f.code[b]
             /\ Flow(g, U) /\ Agree(f, T, U)
             /\ End(f, f.ip) + 1 \in Nat /\ f.ip \in Nat
<1>1. PICK i : i = Work(w)
  OBVIOUS
<1>2. i \in Instrs /\ i.op = "work" /\ i.what = w
  BY <1>1, Instructions DEF Work, Instruction
<1>3. PICK g : g = Emit(f, i)
  OBVIOUS
<1>4. /\ g \in Bodies /\ g.placed = f.placed /\ g.ip = f.ip
      /\ Len(g.code) = Len(f.code)
      /\ \A b \in All(f) \ {f.ip} : g.code[b] = f.code[b]
      /\ g.code[f.ip] = Append(f.code[f.ip], i)
  BY <1>2, <1>3, Emits
<1>5. All(g) = All(f) /\ Len(f.code) \in Nat
  BY <1>4 DEF All, Bodies
<1>6. Longer(f, g, i)
  BY <1>4, <1>5 DEF Longer
<1>7. PICK c \in Seq(Instrs) : c = f.code[f.ip]
  BY DEF Bodies, All
<1>8. Len(c) \in Nat /\ Len(g.code[f.ip]) = Len(c) + 1
  <2>1. g.code[f.ip] = Append(c, i)
    BY <1>4, <1>7
  <2> QED BY <1>2, <2>1, Appending
<1>9. PICK b \in Nat, k \in Nat : b = f.ip /\ k = End(f, f.ip)
  BY <1>7, <1>8 DEF Bodies, End
<1>10. k + 1 \in Nat /\ k \in 1 .. k /\ k + 1 \notin 1 .. k /\ k \in Nat
       /\ End(g, b) = k + 1 /\ End(f, b) = k
  <2>1. End(f, b) = Len(c) + 1 /\ End(g, b) = Len(c) + 1 + 1
    BY <1>7, <1>8, <1>9 DEF End
  <2>2. k = Len(c) + 1
    BY <1>9, <2>1
  <2> QED BY <1>8, <2>1, <2>2
<1>11. PICK U : U = Label(T, b, k + 1, q)
  OBVIOUS
<1>12. Agree(f, T, U)
  <2>1. Agree(f, T, T)
    BY DEF Agree
  <2> QED BY <1>9, <1>10, <1>11, <2>1, LabelsAgree
<1>13. Mark(U, b, k + 1) = q
  BY <1>9, <1>10, <1>11, Labels
<1>14. Mark(U, b, k) = Mark(T, b, k)
  <2>1. b \in All(f) /\ k \in 1 .. Len(f.code[b]) + 1
    BY <1>9, <1>10 DEF End
  <2> QED BY <1>12, <2>1 DEF Agree
<1>15. Leads(g, U, i, b, k)
  BY <1>2, <1>9, <1>13, <1>14 DEF Leads
<1>16. Flow(g, U)
  BY <1>2, <1>4, <1>6, <1>9, <1>12, <1>15, FlowGrows
<1> QED
  BY <1>1, <1>3, <1>4, <1>5, <1>9, <1>10, <1>11, <1>12, <1>13, <1>16

(* The constructs in progress go on in blocks of the function.             *)
Held(fs, f) ==
  /\ \E A : fs \in Seq(A)
  /\ \A l \in 1 .. Len(fs) : fs[l].alt \in All(f) /\ fs[l].next \in All(f)

LEMMA Stays ==
  ASSUME NEW f, f \in Bodies, 1 \in All(f), NEW fs, Held(fs, f), NEW T, NEW U,
         Agree(f, T, U), NEW F, NEW G, G.whole[0] = F.whole[0],
         \A l \in 1 .. Len(fs) : G.left[l - 1] = F.left[l - 1] /\ G.els[l] = F.els[l],
         Entry(G, T), Exits(G, T, fs)
  PROVE  Entry(F, U) /\ Exits(F, U, fs)
<1>1. \A b \in All(f) : Mark(U, b, 1) = Mark(T, b, 1)
  <2>1. \A b \in All(f) : 1 \in 1 .. Len(f.code[b]) + 1
    BY DEF Bodies, All
  <2> QED BY <2>1 DEF Agree
<1>2. Entry(F, U)
  BY <1>1 DEF Entry
<1>3. ASSUME NEW l \in 1 .. Len(fs)
      PROVE  /\ Mark(U, fs[l].next, 1) = F.left[l - 1]
             /\ fs[l].kind = "if" => Mark(U, fs[l].alt, 1) = F.els[l] \o F.left[l - 1]
  <2>1. /\ Mark(U, fs[l].next, 1) = Mark(T, fs[l].next, 1)
        /\ Mark(U, fs[l].alt, 1) = Mark(T, fs[l].alt, 1)
    BY <1>1 DEF Held
  <2>2. /\ Mark(T, fs[l].next, 1) = G.left[l - 1]
        /\ fs[l].kind = "if" => Mark(T, fs[l].alt, 1) = G.els[l] \o G.left[l - 1]
    BY DEF Exits
  <2>3. G.left[l - 1] = F.left[l - 1] /\ G.els[l] = F.els[l]
    OBVIOUS
  <2> QED BY <2>1, <2>2, <2>3
<1> QED BY <1>2, <1>3 DEF Exits

(* A statement.                                                            *)
LEMMA StatementExplained ==
  ASSUME NEW f, f \in Bodies, f.ip \in All(f), 1 \in All(f), NEW fs, Held(fs, f),
         NEW met, IsProgram(met), NEW id \in Nat, Explained(f, fs, met, FALSE)
  PROVE  Explained(Emit(f, Work(S!Done("work", id))), fs,
                   Append(met, [kind |-> "work", id |-> id]), FALSE)
<1> DEFINE t == [kind |-> "work", id |-> id]
<1>1. PICK w : w = S!Done("work", id)
  OBVIOUS
<1>2. w \in Whats
  BY <1>1 DEF S!Done, Whats, Roles
<1>3. PICK g : g = Emit(f, Work(w))
  OBVIOUS
<1>4. PICK n \in Nat : n = Len(fs)
  BY DEF Held
<1>5. t.kind \in Kinds
  BY DEF Kinds
<1> HIDE DEF t
<1>6. ASSUME NEW F, Future(F, fs, Append(met, t))
      PROVE  \E T : Labelled(F, T, g, fs, FALSE)
  <2>1. PICK G : G = Before(F, n, t)
    OBVIOUS
  <2>2. /\ Future(G, fs, met) /\ G.whole = F.whole /\ G.els = F.els
        /\ G.left[n] = <<t>> \o F.left[n]
        /\ \A l \in 1 .. n : G.left[l - 1] = F.left[l - 1]
        /\ IsProgram(F.left[n])
    BY <1>4, <1>5, <1>6, <2>1, FutureBefore
  <2>3. PICK T : Labelled(G, T, f, fs, FALSE)
    BY <2>2 DEF Explained
  <2>4. PICK q : q = F.left[n]
    OBVIOUS
  <2>5. PICK p : p = Mark(T, f.ip, End(f, f.ip)) /\ Steps(p, w, q)
    <3>1. Steps(<<t>> \o q, w, q)
      BY <1>1, <2>2, <2>4, WorkSteps DEF t
    <3> QED BY <1>4, <2>2, <2>3, <2>4, <3>1 DEF Labelled, Cursor
  <2>6. PICK U : U = Label(T, f.ip, End(f, f.ip) + 1, q)
    OBVIOUS
  <2>7. /\ g \in Bodies /\ g.ip = f.ip /\ All(g) = All(f)
        /\ End(g, f.ip) = End(f, f.ip) + 1
        /\ Flow(g, U) /\ Agree(f, T, U)
        /\ End(f, f.ip) + 1 \in Nat /\ f.ip \in Nat
    <3>1. Flow(f, T)
      BY <2>3 DEF Labelled
    <3> QED BY <1>2, <1>3, <2>5, <2>6, <3>1, WorkFlows
  <2>8. Entry(F, U) /\ Exits(F, U, fs)
    BY <1>4, <2>2, <2>3, <2>7, Stays DEF Labelled
  <2>9. Loop(F, U, g, fs)
    <3>1. Mark(U, f.ip, 1) = Mark(T, f.ip, 1)
      <4>1. 1 \in 1 .. Len(f.code[f.ip]) + 1
        BY DEF Bodies, All
      <4> QED BY <2>7, <4>1 DEF Agree
    <3>2. fs # <<>> => n \in 1 .. n
      BY <1>4, EmptySeq DEF Held
    <3> QED BY <1>4, <2>2, <2>3, <2>7, <3>1, <3>2 DEF Labelled, Loop
  <2>10. Cursor(F, U, g, fs)
    <3>1. Mark(U, f.ip, End(f, f.ip) + 1) = q
      BY <2>6, <2>7, Labels
    <3> QED BY <1>4, <2>4, <2>7, <3>1 DEF Cursor
  <2> QED BY <2>7, <2>8, <2>9, <2>10 DEF Labelled
<1> QED BY <1>1, <1>3, <1>6 DEF Explained, t

(* A jump, and a branch.                                                   *)
LEMMA JumpFlows ==
  ASSUME NEW f, f \in Bodies, f.ip \in All(f), NEW g, g \in Bodies,
         NEW b \in Nat, b \in All(g), Longer(f, g, Br(b)), NEW T, NEW U,
         Flow(f, T), Agree(f, T, U), Mark(U, b, 1) = Mark(T, f.ip, End(f, f.ip))
  PROVE  Flow(g, U)
<1>1. PICK i : i = Br(b)
  OBVIOUS
<1>2. i \in Instrs /\ i.op = "br" /\ Len(i.to) = 1 /\ i.to[1] = b
  BY <1>1, Instructions DEF Br, Instruction, Whats
<1>3. Mark(U, f.ip, End(f, f.ip)) = Mark(T, f.ip, End(f, f.ip))
  <2>1. End(f, f.ip) \in 1 .. Len(f.code[f.ip]) + 1
    BY DEF Bodies, All, End
  <2> QED BY <2>1 DEF Agree
<1>4. Leads(g, U, i, f.ip, End(f, f.ip))
  BY <1>2, <1>3 DEF Leads
<1> QED BY <1>1, <1>2, <1>4, FlowGrows

LEMMA BranchFlows ==
  ASSUME NEW f, f \in Bodies, f.ip \in All(f), NEW g, g \in Bodies, NEW c \in Whats,
         NEW a \in Nat, a \in All(g), NEW b \in Nat, b \in All(g),
         Longer(f, g, CondBr(c, a, b)), NEW T, NEW U, Flow(f, T), Agree(f, T, U),
         Steps(Mark(T, f.ip, End(f, f.ip)), S!Tested(c, TRUE), Mark(U, a, 1)),
         Steps(Mark(T, f.ip, End(f, f.ip)), S!Tested(c, FALSE), Mark(U, b, 1))
  PROVE  Flow(g, U)
<1>1. PICK i : i = CondBr(c, a, b)
  OBVIOUS
<1>2. /\ i \in Instrs /\ i.op = "condbr" /\ i.what = c
      /\ Len(i.to) = 2 /\ i.to[1] = a /\ i.to[2] = b
  BY <1>1, Instructions DEF CondBr, Instruction
<1>3. Mark(U, f.ip, End(f, f.ip)) = Mark(T, f.ip, End(f, f.ip))
  <2>1. End(f, f.ip) \in 1 .. Len(f.code[f.ip]) + 1
    BY DEF Bodies, All, End
  <2> QED BY <2>1 DEF Agree
<1>4. Leads(g, U, i, f.ip, End(f, f.ip))
  BY <1>2, <1>3 DEF Leads
<1> QED BY <1>1, <1>2, <1>4, FlowGrows

LEMMA Lengthens ==
  ASSUME NEW f, NEW g, NEW i, NEW targets, Jumped(f, g, targets),
         g.code[f.ip] = Append(f.code[f.ip], i)
  PROVE  Longer(f, g, i)
BY DEF Jumped, Longer

(* A return in the body of the function.                                   *)
LEMMA ReturnExplained ==
  ASSUME NEW f, f \in Bodies, f.ip \in All(f), 1 \in All(f), NEW met, IsProgram(met),
         NEW id \in Nat, Explained(f, <<>>, met, FALSE)
  PROVE  LET w == S!Done("work", id)
         IN  Explained(Emit(Emit(f, Work(w)), Ret(w)), <<>>,
                       Append(met, [kind |-> "return", id |-> id]), TRUE)
<1> DEFINE t == [kind |-> "return", id |-> id]
<1>1. PICK w : w = S!Done("work", id)
  OBVIOUS
<1>2. w \in Whats
  BY <1>1 DEF S!Done, Whats, Roles
<1>3. PICK e, g : e = Emit(f, Work(w)) /\ g = Emit(e, Ret(w))
  OBVIOUS
<1>4. PICK i \in Instrs : i = Ret(w) /\ i.op = "ret"
  <2>1. 0 \in Nat
    OBVIOUS
  <2> QED BY <1>2, <2>1, Instructions
<1>5. t.kind \in Kinds
  BY DEF Kinds
<1> HIDE DEF t
<1>6. PICK fs : fs = <<>>
  OBVIOUS
<1>7. Len(fs) = 0 /\ Held(fs, f)
  <2>1. fs \in Seq({}) /\ Len(fs) = 0
    BY <1>6
  <2> QED BY <2>1 DEF Held
<1>8. PICK n \in Nat : n = Len(fs)
  BY <1>7
<1>9. ASSUME NEW F, Future(F, fs, Append(met, t))
      PROVE  \E T : Labelled(F, T, g, fs, TRUE)
  <2>1. PICK G : G = Before(F, n, t)
    OBVIOUS
  <2>2. /\ Future(G, fs, met) /\ G.whole = F.whole /\ G.els = F.els
        /\ G.left[n] = <<t>> \o F.left[n] /\ IsProgram(F.left[n])
    BY <1>5, <1>8, <1>9, <2>1, FutureBefore
  <2>3. PICK T : Labelled(G, T, f, fs, FALSE)
    BY <1>6, <2>2 DEF Explained
  <2>4. PICK p : p = Mark(T, f.ip, End(f, f.ip)) /\ Steps(p, w, <<>>)
    <3>1. PICK s : s = F.left[n]
      OBVIOUS
    <3>2. Steps(<<t>> \o s, w, <<>>)
      BY <1>1, <2>2, <3>1, WorkSteps DEF t
    <3> QED BY <1>8, <2>2, <2>3, <3>1, <3>2 DEF Labelled, Cursor
  <2>5. PICK q, U : q = <<>> /\ U = Label(T, f.ip, End(f, f.ip) + 1, q)
    OBVIOUS
  <2>6. /\ e \in Bodies /\ e.ip = f.ip /\ All(e) = All(f)
        /\ End(e, f.ip) = End(f, f.ip) + 1
        /\ Flow(e, U) /\ Agree(f, T, U)
        /\ End(f, f.ip) + 1 \in Nat /\ f.ip \in Nat
    <3>1. Flow(f, T)
      BY <2>3 DEF Labelled
    <3> QED BY <1>2, <1>3, <2>4, <2>5, <3>1, WorkFlows
  <2>7. Mark(U, f.ip, End(f, f.ip) + 1) = <<>>
    BY <2>5, <2>6, Labels
  <2>8. /\ g \in Bodies /\ Len(g.code) = Len(e.code)
        /\ \A b \in All(e) \ {e.ip} : g.code[b] = e.code[b]
        /\ g.code[e.ip] = Append(e.code[e.ip], i)
    <3>1. e \in Bodies /\ e.ip \in All(e)
      BY <2>6
    <3>2. LET o == Emit(e, i)
          IN  /\ o \in Bodies /\ Len(o.code) = Len(e.code)
              /\ \A b \in All(e) \ {e.ip} : o.code[b] = e.code[b]
              /\ o.code[e.ip] = Append(e.code[e.ip], i)
      BY ONLY <3>1, i \in Instrs, Emits
    <3> QED BY <1>3, <1>4, <3>2
  <2>9. Longer(e, g, i)
    <3>1. Len(e.code) \in Nat
      BY <2>6 DEF Bodies
    <3> QED BY <2>8, <3>1 DEF Longer, All
  <2>10. Leads(g, U, i, e.ip, End(e, e.ip))
    BY <1>4, <2>6, <2>7 DEF Leads
  <2>11. Flow(g, U)
    <3>1. Agree(e, U, U)
      BY DEF Agree
    <3> QED BY <2>6, <2>8, <2>9, <2>10, <3>1, FlowGrows
  <2>12. Entry(F, U) /\ Exits(F, U, fs)
    <3>1. \A l \in 1 .. Len(fs) : G.left[l - 1] = F.left[l - 1] /\ G.els[l] = F.els[l]
      BY <1>7
    <3> QED BY <1>7, <2>2, <2>3, <2>6, <3>1, Stays DEF Labelled
  <2> QED BY <1>6, <2>11, <2>12 DEF Labelled, Loop
<1> QED BY <1>1, <1>3, <1>6, <1>9 DEF Explained, t

(* One frame more.                                                         *)
LEMMA Pushed ==
  ASSUME NEW fs, NEW fr, NEW f, Held(fs, f)
  PROVE  \E A : /\ fs \in Seq(A) /\ fr \in A
                /\ Append(fs, fr) \in Seq(A) /\ Len(fs) \in Nat
                /\ Len(Append(fs, fr)) = Len(fs) + 1 /\ Append(fs, fr) # <<>>
                /\ Append(fs, fr)[Len(fs) + 1] = fr
                /\ \A l \in 1 .. Len(fs) : Append(fs, fr)[l] = fs[l]
<1>1. PICK B : fs \in Seq(B)
  BY DEF Held
<1>2. PICK A : A = B \cup {fr}
  OBVIOUS
<1>3. fs \in Seq(A) /\ fr \in A
  BY <1>1, <1>2
<1>4. /\ Append(fs, fr) \in Seq(A) /\ Len(fs) \in Nat
      /\ Len(Append(fs, fr)) = Len(fs) + 1
      /\ Append(fs, fr)[Len(fs) + 1] = fr
      /\ \A l \in 1 .. Len(fs) : Append(fs, fr)[l] = fs[l]
  BY <1>3
<1>5. Append(fs, fr) # <<>>
  BY <1>4, EmptySeq
<1> QED BY <1>3, <1>4, <1>5

(* Into an if.                                                             *)
LEMMA EnterIfExplained ==
  ASSUME NEW f, f \in Bodies, f.ip \in All(f), 1 \in All(f), NEW fs, Held(fs, f),
         NEW met, IsProgram(met), NEW id \in Nat, Explained(f, fs, met, FALSE),
         NEW fr, fr.kind = "if", fr.id = id, fr.outer = met,
         fr.alt = Len(f.code) + 2, fr.next = Len(f.code) + 3
  PROVE  Explained(IfHead(f, id), Append(fs, fr), <<>>, FALSE)
<1>1. PICK m \in Nat : m = Len(fs)
  BY DEF Held
<1>2. PICK all : all = Append(fs, fr)
  OBVIOUS
<1>0. PICK A : /\ fs \in Seq(A) /\ fr \in A
               /\ Len(all) = m + 1 /\ all # <<>> /\ all[m + 1] = fr
               /\ \A l \in 1 .. m : all[l] = fs[l]
  <2>1. \E A : /\ fs \in Seq(A) /\ fr \in A
               /\ Append(fs, fr) \in Seq(A) /\ Len(fs) \in Nat
               /\ Len(Append(fs, fr)) = Len(fs) + 1 /\ Append(fs, fr) # <<>>
               /\ Append(fs, fr)[Len(fs) + 1] = fr
               /\ \A l \in 1 .. Len(fs) : Append(fs, fr)[l] = fs[l]
    BY ONLY Held(fs, f), Pushed
  <2> QED BY <1>1, <1>2, <2>1
<1>3. PICK n \in Nat : n = Len(f.code)
  BY DEF Bodies
<1>4. PICK a, b, c : a = n + 1 /\ b = n + 2 /\ c = n + 3
  OBVIOUS
<1>5. /\ a \in Nat /\ b \in Nat /\ c \in Nat /\ a # b /\ a # c /\ b # c
      /\ a \notin All(f) /\ b \notin All(f) /\ c \notin All(f)
  BY <1>3, <1>4 DEF All
<1>6. PICK g : g = IfHead(f, id)
  OBVIOUS
<1>7. id \in Whats
  BY DEF Whats
<1>8. /\ Jumped(f, g, {a, b}) /\ Len(g.code) = n + 3 /\ g.ip = a
      /\ g.code[f.ip] = Append(f.code[f.ip], CondBr(id, a, b))
  BY <1>3, <1>4, <1>6, <1>7, IfHeads
<1>9. /\ g \in Bodies /\ Longer(f, g, CondBr(id, a, b))
      /\ a \in All(g) /\ b \in All(g) /\ c \in All(g) /\ g.code[a] = <<>>
  <2>1. a \in All(g) /\ b \in All(g) /\ c \in All(g)
    BY <1>3, <1>4, <1>8 DEF All
  <2> QED BY <1>5, <1>8, <2>1, Lengthens DEF Jumped
<1>10. ASSUME NEW F, Future(F, all, <<>>)
       PROVE  \E T : Labelled(F, T, g, all, FALSE)
  <2>1. PICK whole, els, s : whole = F.whole[m + 1] /\ els = F.els[m + 1] /\ s = F.left[m]
    OBVIOUS
  <2>2. PICK t : t = Node(fr, whole, els)
    OBVIOUS
  <2>3. /\ Future(F, fs, Append(met, t)) /\ t.kind \in Kinds
        /\ IsProgram(whole) /\ IsProgram(els) /\ IsProgram(s)
        /\ whole = F.rest[m + 1]
        /\ F.left[m + 1] = whole \o (Again(fr, whole) \o s)
    <3>1. /\ fs \in Seq(A) /\ fr \in A /\ IsProgram(fr.outer)
          /\ Future(F, Append(fs, fr), <<>>)
      BY <1>0, <1>2, <1>10
    <3>2. LET k == Len(fs)
              u == Node(fr, F.whole[k + 1], F.els[k + 1])
          IN  /\ Future(F, fs, Append(fr.outer, u)) /\ u.kind \in Kinds
              /\ IsProgram(F.whole[k + 1]) /\ IsProgram(F.els[k + 1])
              /\ F.whole[k + 1] = F.rest[k + 1]
              /\ F.left[k + 1] = F.rest[k + 1] \o (Again(fr, F.whole[k + 1]) \o F.left[k])
              /\ IsProgram(F.left[k])
      BY ONLY <3>1, FutureOutside
    <3> QED BY <1>1, <2>1, <2>2, <3>2
  <2>4. F.left[m + 1] = whole \o s
    <3>1. Again(fr, whole) = <<>>
      BY DEF Again
    <3> QED BY <2>3, <3>1, ProgramEmpty
  <2>5. PICK G : G = Before(F, m, t)
    OBVIOUS
  <2>6. /\ Future(G, fs, met) /\ G.whole = F.whole /\ G.els = F.els
        /\ G.left[m] = <<t>> \o s
        /\ \A l \in 1 .. m : G.left[l - 1] = F.left[l - 1]
    <3>0. /\ Len(fs) \in Nat /\ IsProgram(met) /\ t.kind \in Kinds
          /\ Future(F, fs, Append(met, t))
      BY <1>1, <2>3
    <3>1. LET k == Len(fs)
              H == Before(F, k, t)
          IN  /\ Future(H, fs, met) /\ H.whole = F.whole /\ H.els = F.els
              /\ H.left[k] = <<t>> \o F.left[k]
              /\ \A l \in 1 .. k : H.left[l - 1] = F.left[l - 1]
      BY ONLY <3>0, FutureBefore
    <3> QED BY <1>1, <2>1, <2>5, <3>1
  <2>7. PICK T : Labelled(G, T, f, fs, FALSE)
    BY <2>6 DEF Explained
  <2>8. PICK x, y : x = whole \o s /\ y = els \o s
    OBVIOUS
  <2>19. PICK U1, U2, U : /\ U1 = Label(T, a, 1, x) /\ U2 = Label(U1, b, 1, y)
                          /\ U = Label(U2, c, 1, s)
    OBVIOUS
  <2>9. Agree(f, T, U)
    <3>1. Agree(f, T, T)
      BY DEF Agree
    <3>2. Agree(f, T, U1)
      BY <1>5, <2>19, <3>1, LabelsAgree
    <3>3. Agree(f, T, U2)
      BY <1>5, <2>19, <3>2, LabelsAgree
    <3> QED BY <1>5, <2>19, <3>3, LabelsAgree
  <2>10. Mark(U, a, 1) = whole \o s /\ Mark(U, b, 1) = els \o s /\ Mark(U, c, 1) = s
    <3>1. Mark(U1, a, 1) = x
      BY <1>5, <2>19, Labels
    <3>2. Mark(U2, b, 1) = y /\ Mark(U2, a, 1) = Mark(U1, a, 1)
      BY <1>5, <2>19, Labels
    <3>3. /\ Mark(U, c, 1) = s /\ Mark(U, b, 1) = Mark(U2, b, 1)
          /\ Mark(U, a, 1) = Mark(U2, a, 1)
      BY <1>5, <2>19, Labels
    <3> QED BY <2>8, <3>1, <3>2, <3>3
  <2>11. /\ Steps(<<t>> \o s, S!Tested(id, TRUE), whole \o s)
         /\ Steps(<<t>> \o s, S!Tested(id, FALSE), els \o s)
    <3>1. t = [kind |-> "if", id |-> id, then |-> whole, else |-> els]
      BY <2>2 DEF Node
    <3> QED BY <2>3, <3>1, IfSteps
  <2>12. Mark(T, f.ip, End(f, f.ip)) = <<t>> \o s
    BY <1>1, <2>6, <2>7 DEF Labelled, Cursor
  <2>13. Flow(g, U)
    <3>1. Flow(f, T)
      BY <2>7 DEF Labelled
    <3>2. /\ Steps(Mark(T, f.ip, End(f, f.ip)), S!Tested(id, TRUE), Mark(U, a, 1))
          /\ Steps(Mark(T, f.ip, End(f, f.ip)), S!Tested(id, FALSE), Mark(U, b, 1))
      BY <2>10, <2>11, <2>12
    <3> QED BY <1>5, <1>7, <1>9, <2>9, <3>1, <3>2, BranchFlows
  <2>14. Entry(F, U) /\ Exits(F, U, fs)
    BY <1>1, <2>6, <2>7, <2>9, Stays DEF Labelled
  <2>15. Exits(F, U, all)
    <3>1. ASSUME NEW l \in 1 .. m + 1
          PROVE  /\ Mark(U, all[l].next, 1) = F.left[l - 1]
                 /\ all[l].kind = "if" => Mark(U, all[l].alt, 1) = F.els[l] \o F.left[l - 1]
      <4>1. CASE l \in 1 .. m
        BY <1>0, <1>1, <2>14, <4>1 DEF Exits
      <4>2. CASE l = m + 1
        <5>1. all[l] = fr /\ fr.next = c /\ fr.alt = b /\ l - 1 = m
          BY <1>0, <1>3, <1>4, <4>2
        <5>2. F.left[l - 1] = s /\ F.els[l] = els
          BY <2>1, <4>2, <5>1
        <5> QED BY <2>10, <5>1, <5>2
      <4>3. l \in 1 .. m \/ l = m + 1
        OBVIOUS
      <4> QED BY <4>1, <4>2, <4>3
    <3> QED BY <1>0, <3>1 DEF Exits
  <2>16. Loop(F, U, g, all)
    BY <1>0 DEF Loop
  <2>17. Cursor(F, U, g, all)
    <3>1. End(g, g.ip) = 1
      BY <1>8, <1>9 DEF End
    <3> QED BY <1>0, <1>8, <2>4, <2>10, <3>1 DEF Cursor
  <2>18. Entry(F, U)
    BY <2>14
  <2> QED BY <2>13, <2>15, <2>16, <2>17, <2>18 DEF Labelled
<1> QED BY <1>2, <1>6, <1>10 DEF Explained

(* Into a for.                                                             *)
LEMMA EnterForExplained ==
  ASSUME NEW f, f \in Bodies, f.ip \in All(f), 1 \in All(f), NEW fs, Held(fs, f),
         NEW met, IsProgram(met), NEW id \in Nat, Explained(f, fs, met, FALSE),
         NEW fr, fr.kind = "for", fr.id = id, fr.outer = met,
         fr.next = Len(f.code) + 2
  PROVE  LET n == Len(f.code)
             e == Emit(f, Work(S!Done("init", id)))
         IN  Explained(ForEnter(ForBlocks(e), id, n + 1, n + 2), Append(fs, fr), <<>>,
                       FALSE)
<1>1. PICK m \in Nat : m = Len(fs)
  BY DEF Held
<1>2. PICK all : all = Append(fs, fr)
  OBVIOUS
<1>0. PICK A : /\ fs \in Seq(A) /\ fr \in A
               /\ Len(all) = m + 1 /\ all # <<>> /\ all[m + 1] = fr
               /\ \A l \in 1 .. m : all[l] = fs[l]
  <2>1. PICK h, r : h = f /\ r = fr
    OBVIOUS
  <2>2. Held(fs, h)
    BY <2>1
  <2>3. \E A : /\ fs \in Seq(A) /\ r \in A
               /\ Append(fs, r) \in Seq(A) /\ Len(fs) \in Nat
               /\ Len(Append(fs, r)) = Len(fs) + 1 /\ Append(fs, r) # <<>>
               /\ Append(fs, r)[Len(fs) + 1] = r
               /\ \A l \in 1 .. Len(fs) : Append(fs, r)[l] = fs[l]
    BY ONLY <2>2, Pushed
  <2> QED BY <1>1, <1>2, <2>1, <2>3
<1>3. PICK n \in Nat : n = Len(f.code)
  BY DEF Bodies
<1>4. PICK a, c : a = n + 1 /\ c = n + 2
  OBVIOUS
<1>5. a \in Nat /\ c \in Nat /\ a # c /\ a \notin All(f) /\ c \notin All(f)
  BY <1>3, <1>4 DEF All
<1>6. PICK w : w = S!Done("init", id)
  OBVIOUS
<1>7. id \in Whats /\ w \in Whats
  BY <1>6 DEF S!Done, Whats, Roles
<1>8. PICK e : e = Emit(f, Work(w))
  OBVIOUS
<1>9. PICK i \in Instrs : i = Work(w)
  BY <1>7, Instructions
<1>10. /\ e \in Bodies /\ e.ip = f.ip /\ Len(e.code) = n /\ All(e) = All(f)
  BY <1>3, <1>8, <1>9, Emits DEF All
<1>11. PICK g : g = ForEnter(ForBlocks(e), id, a, c)
  OBVIOUS
<1>12. /\ Jumped(e, g, {a, c}) /\ Len(g.code) = n + 2 /\ g.ip = a
       /\ g.code[e.ip] = Append(e.code[e.ip], CondBr(id, a, c))
  BY <1>4, <1>7, <1>10, <1>11, ForEnters
<1>13. /\ g \in Bodies /\ Longer(e, g, CondBr(id, a, c))
       /\ a \in All(g) /\ c \in All(g) /\ g.code[a] = <<>>
  <2>1. a \in All(g) /\ c \in All(g)
    BY <1>3, <1>4, <1>12 DEF All
  <2> QED BY <1>5, <1>10, <1>12, <2>1, Lengthens DEF Jumped
<1>14. ASSUME NEW F, Future(F, all, <<>>)
       PROVE  \E T : Labelled(F, T, g, all, FALSE)
  <2>1. PICK whole, s : whole = F.whole[m + 1] /\ s = F.left[m]
    OBVIOUS
  <2>2. PICK t : t = ForTree(id, whole)
    OBVIOUS
  <2>3. /\ Future(F, fs, Append(met, t)) /\ t.kind \in Kinds
        /\ IsProgram(whole) /\ IsProgram(s)
        /\ F.left[m + 1] = whole \o (Again(fr, whole) \o s)
    <3>1. /\ fs \in Seq(A) /\ fr \in A /\ IsProgram(fr.outer)
          /\ Future(F, Append(fs, fr), <<>>)
      BY <1>0, <1>2, <1>14
    <3>2. LET k == Len(fs)
              u == Node(fr, F.whole[k + 1], F.els[k + 1])
          IN  /\ Future(F, fs, Append(fr.outer, u)) /\ u.kind \in Kinds
              /\ IsProgram(F.whole[k + 1])
              /\ F.whole[k + 1] = F.rest[k + 1]
              /\ F.left[k + 1] = F.rest[k + 1] \o (Again(fr, F.whole[k + 1]) \o F.left[k])
              /\ IsProgram(F.left[k])
      BY ONLY <3>1, FutureOutside
    <3>3. Node(fr, F.whole[m + 1], F.els[m + 1]) = t
      BY <2>1, <2>2 DEF Node
    <3> QED BY <1>1, <2>1, <3>2, <3>3
  <2>4. PICK test, step : /\ test = <<TestPart(id, whole)>> \o s
                          /\ step = <<StepPart(id, whole)>> \o s
    OBVIOUS
  <2>5. /\ Steps(<<t>> \o s, w, test)
        /\ Steps(test, S!Tested(id, TRUE), whole \o step)
        /\ Steps(test, S!Tested(id, FALSE), s)
    BY <1>6, <2>2, <2>3, <2>4, ForSteps
  <2>6. F.left[m + 1] = whole \o step
    BY <2>3, <2>4 DEF Again
  <2>7. PICK G : G = Before(F, m, t)
    OBVIOUS
  <2>8. /\ Future(G, fs, met) /\ G.whole = F.whole /\ G.els = F.els
        /\ G.left[m] = <<t>> \o s
        /\ \A l \in 1 .. m : G.left[l - 1] = F.left[l - 1]
    <3>0. /\ Len(fs) \in Nat /\ IsProgram(met) /\ t.kind \in Kinds
          /\ Future(F, fs, Append(met, t))
      BY <1>1, <2>3
    <3>1. LET k == Len(fs)
              H == Before(F, k, t)
          IN  /\ Future(H, fs, met) /\ H.whole = F.whole /\ H.els = F.els
              /\ H.left[k] = <<t>> \o F.left[k]
              /\ \A l \in 1 .. k : H.left[l - 1] = F.left[l - 1]
      BY ONLY <3>0, FutureBefore
    <3> QED BY <1>1, <2>1, <2>7, <3>1
  <2>9. PICK T : Labelled(G, T, f, fs, FALSE)
    BY <2>8 DEF Explained
  <2>10. PICK p : p = Mark(T, f.ip, End(f, f.ip)) /\ Steps(p, w, test)
    BY <1>1, <2>5, <2>8, <2>9 DEF Labelled, Cursor
  <2>11. PICK U : U = Label(T, f.ip, End(f, f.ip) + 1, test)
    OBVIOUS
  <2>12. /\ End(e, f.ip) = End(f, f.ip) + 1 /\ Flow(e, U) /\ Agree(f, T, U)
         /\ End(f, f.ip) + 1 \in Nat /\ f.ip \in Nat
    <3>1. Flow(f, T)
      BY <2>9 DEF Labelled
    <3> QED BY <1>7, <1>8, <2>10, <2>11, <3>1, WorkFlows
  <2>13. Mark(U, e.ip, End(e, e.ip)) = test
    <3>1. Mark(U, f.ip, End(f, f.ip) + 1) = test
      BY <2>11, <2>12, Labels
    <3> QED BY <1>10, <2>12, <3>1
  <2>14. PICK x : x = whole \o step
    OBVIOUS
  <2>15. PICK V1, V : V1 = Label(U, a, 1, x) /\ V = Label(V1, c, 1, s)
    OBVIOUS
  <2>16. Agree(e, U, V)
    <3>1. Agree(e, U, U)
      BY DEF Agree
    <3>2. Agree(e, U, V1)
      BY <1>5, <1>10, <2>15, <3>1, LabelsAgree
    <3> QED BY <1>5, <1>10, <2>15, <3>2, LabelsAgree
  <2>17. Mark(V, a, 1) = x /\ Mark(V, c, 1) = s
    <3>1. Mark(V1, a, 1) = x
      BY <1>5, <2>15, Labels
    <3>2. Mark(V, c, 1) = s /\ Mark(V, a, 1) = Mark(V1, a, 1)
      BY <1>5, <2>15, Labels
    <3> QED BY <3>1, <3>2
  <2>18. Flow(g, V)
    <3>1. /\ Steps(Mark(U, e.ip, End(e, e.ip)), S!Tested(id, TRUE), Mark(V, a, 1))
          /\ Steps(Mark(U, e.ip, End(e, e.ip)), S!Tested(id, FALSE), Mark(V, c, 1))
      BY <2>5, <2>13, <2>14, <2>17
    <3>2. e.ip \in All(e)
      BY <1>10
    <3> QED BY <1>5, <1>7, <1>10, <1>13, <2>12, <2>16, <3>1, <3>2, BranchFlows
  <2>19. Entry(F, V) /\ Exits(F, V, fs)
    <3>1. Entry(F, U) /\ Exits(F, U, fs)
      BY <1>1, <2>8, <2>9, <2>12, Stays DEF Labelled
    <3>2. Held(fs, e) /\ 1 \in All(e)
      BY <1>10 DEF Held
    <3> QED BY <1>10, <2>16, <3>1, <3>2, Stays
  <2>20. Exits(F, V, all)
    <3>1. ASSUME NEW l \in 1 .. m + 1
          PROVE  /\ Mark(V, all[l].next, 1) = F.left[l - 1]
                 /\ all[l].kind = "if" => Mark(V, all[l].alt, 1) = F.els[l] \o F.left[l - 1]
      <4>1. CASE l \in 1 .. m
        BY <1>0, <1>1, <2>19, <4>1 DEF Exits
      <4>2. CASE l = m + 1
        <5>1. all[l] = fr /\ fr.next = c /\ l - 1 = m
          BY <1>0, <1>3, <1>4, <4>2
        <5>2. F.left[l - 1] = s
          BY <2>1, <4>2, <5>1
        <5> QED BY <2>17, <5>1, <5>2
      <4>3. l \in 1 .. m \/ l = m + 1
        OBVIOUS
      <4> QED BY <4>1, <4>2, <4>3
    <3> QED BY <1>0, <3>1 DEF Exits
  <2>21. Loop(F, V, g, all)
    <3>1. PICK k \in Nat : k = m + 1 /\ k - 1 = m /\ Len(all) = k /\ all[k] = fr
      BY <1>0
    <3>2. F.whole[k] = whole /\ F.left[k - 1] = s
      BY <2>1, <3>1
    <3>3. Mark(V, a, 1) = F.whole[k] \o (<< StepPart(fr.id, F.whole[k]) >> \o F.left[k - 1])
      BY <2>4, <2>14, <2>17, <3>2
    <3> QED BY <1>12, <3>1, <3>3 DEF Loop
  <2>22. Cursor(F, V, g, all)
    <3>1. End(g, g.ip) = 1
      BY <1>12, <1>13 DEF End
    <3> QED BY <1>0, <1>12, <2>6, <2>14, <2>17, <3>1 DEF Cursor
  <2>23. Entry(F, V)
    BY <2>19
  <2> QED BY <2>18, <2>20, <2>21, <2>22, <2>23 DEF Labelled
<1>15. Explained(g, all, <<>>, FALSE)
  BY <1>14 DEF Explained
<1> QED BY <1>2, <1>3, <1>4, <1>6, <1>8, <1>11, <1>15

(* Out of a part of a construct: the labels that follow from what they     *)
(* were inside, s being what is left after the construct.                  *)
Left(F, T, f, out, fr, met, els, s) ==
  /\ s = F.left[Len(out)] /\ IsProgram(s)
  /\ Flow(f, T) /\ Entry(F, T) /\ Exits(F, T, out)
  /\ Mark(T, fr.next, 1) = s
  /\ fr.kind = "if" => Mark(T, fr.alt, 1) = els \o s
  /\ Mark(T, f.ip, End(f, f.ip)) = Again(fr, met) \o s
  /\ fr.kind = "for" => Mark(T, f.ip, 1) = met \o (<< StepPart(fr.id, met) >> \o s)

LEMMA Leaving ==
  ASSUME NEW f, NEW fs, NEW A, fs \in Seq(A), fs # <<>>,
         NEW met, IsProgram(met), NEW els, IsProgram(els), Explained(f, fs, met, FALSE),
         NEW fr, fr = fs[Len(fs)], IsProgram(fr.outer),
         NEW out, out = SubSeq(fs, 1, Len(fs) - 1),
         NEW F, Future(F, out, Append(fr.outer, Node(fr, met, els)))
  PROVE  \E T, s : Left(F, T, f, out, fr, met, els, s)
<1>1. PICK n \in Nat \ {0} : n = Len(fs)
  BY EmptySeq
<1>2. PICK m \in Nat : m = n - 1 /\ m + 1 = n
  BY <1>1
<1>3. Len(out) = m /\ \A l \in 1 .. m : out[l] = fs[l]
  BY <1>1, <1>2, Fronts
<1>4. PICK s : s = F.left[m]
  OBVIOUS
<1>5. IsProgram(s)
  <2>1. m \in 0 .. m
    BY <1>2
  <2> QED BY <1>3, <1>4, <2>1 DEF Future
<1>6. PICK G : G = Inside(F, n, fr, met, els)
  OBVIOUS
<1>7. Future(G, fs, met)
  <2>1. /\ Future(F, SubSeq(fs, 1, n - 1), Append(fr.outer, Node(fr, met, els)))
        /\ n = Len(fs) /\ fr = fs[n] /\ n \in Nat
    BY <1>1
  <2>2. IsProgram(met) /\ IsProgram(fr.outer) /\ IsProgram(els) /\ fs # <<>>
        /\ fs \in Seq(A)
    OBVIOUS
  <2>3. Future(Inside(F, n, fr, met, els), fs, met)
    BY ONLY <2>1, <2>2, FutureInside
  <2> QED BY <1>6, <2>3
<1>8. /\ G.whole[n] = met /\ G.els[n] = els /\ G.left[n] = Again(fr, met) \o s
      /\ \A l \in 0 .. m : /\ G.left[l] = F.left[l] /\ G.els[l] = F.els[l]
                           /\ G.whole[l] = F.whole[l]
  <2>1. n \in Nat \ {0}
    OBVIOUS
  <2>2. /\ G.whole[n] = met /\ G.els[n] = els
        /\ G.left[n] = Again(fr, met) \o F.left[n - 1]
        /\ \A l \in 0 .. n : l # n =>
             /\ G.rest[l] = F.rest[l] /\ G.whole[l] = F.whole[l]
             /\ G.els[l] = F.els[l] /\ G.left[l] = F.left[l]
    BY ONLY <1>6, <2>1 DEF Inside
  <2>3. \A l \in 0 .. m : l \in 0 .. n /\ l # n
    BY <1>2
  <2>4. F.left[n - 1] = s
    BY <1>2, <1>4
  <2> QED BY <2>2, <2>3, <2>4
<1>9. PICK T : Labelled(G, T, f, fs, FALSE)
  BY <1>7 DEF Explained
<1>10. G.left[n - 1] = s
  <2>1. m \in 0 .. m
    BY <1>2
  <2> QED BY <1>2, <1>4, <1>8, <2>1
<1>11. Mark(T, fr.next, 1) = s /\ (fr.kind = "if" => Mark(T, fr.alt, 1) = els \o s)
  <2>1. n \in 1 .. Len(fs)
    BY <1>1
  <2>2. /\ Mark(T, fs[n].next, 1) = G.left[n - 1]
        /\ fs[n].kind = "if" => Mark(T, fs[n].alt, 1) = G.els[n] \o G.left[n - 1]
    BY <1>9, <2>1 DEF Labelled, Exits
  <2> QED BY <1>1, <1>8, <1>10, <2>2
<1>12. Mark(T, f.ip, End(f, f.ip)) = Again(fr, met) \o s
  BY <1>1, <1>8, <1>9 DEF Labelled, Cursor
<1>13. fr.kind = "for" => Mark(T, f.ip, 1) = met \o (<< StepPart(fr.id, met) >> \o s)
  <2>1. Loop(G, T, f, fs)
    BY <1>9 DEF Labelled
  <2>2. fs[n].kind = "for" =>
          Mark(T, f.ip, 1) =
            G.whole[n] \o (<< StepPart(fs[n].id, G.whole[n]) >> \o G.left[n - 1])
    BY <1>1, <2>1 DEF Loop
  <2> QED BY <1>1, <1>8, <1>10, <2>2
<1>14. Entry(F, T)
  <2>1. 0 \in 0 .. m
    BY <1>2
  <2> QED BY <1>8, <1>9, <2>1 DEF Labelled, Entry
<1>15. Exits(F, T, out)
  <2>1. ASSUME NEW l \in 1 .. m
        PROVE  /\ Mark(T, out[l].next, 1) = F.left[l - 1]
               /\ out[l].kind = "if" => Mark(T, out[l].alt, 1) = F.els[l] \o F.left[l - 1]
    <3>1. l \in 1 .. Len(fs)
      BY <1>1, <1>2
    <3>2. /\ Mark(T, fs[l].next, 1) = G.left[l - 1]
          /\ fs[l].kind = "if" => Mark(T, fs[l].alt, 1) = G.els[l] \o G.left[l - 1]
      BY <1>9, <3>1 DEF Labelled, Exits
    <3>3. l \in 0 .. m /\ l - 1 \in 0 .. m /\ out[l] = fs[l]
      BY <1>3
    <3>4. G.left[l - 1] = F.left[l - 1] /\ G.els[l] = F.els[l]
      BY <1>8, <3>3
    <3> QED BY <3>2, <3>3, <3>4
  <2> QED BY <1>3, <2>1 DEF Exits
<1>16. Flow(f, T)
  BY <1>9 DEF Labelled
<1>17. s = F.left[Len(out)]
  BY <1>3, <1>4
<1> QED BY <1>5, <1>11, <1>12, <1>13, <1>14, <1>15, <1>16, <1>17 DEF Left

(* A jump to block b, after which the builder goes on in block a.          *)
LEMMA Jumping ==
  ASSUME NEW f, f \in Bodies, f.ip \in All(f), NEW a \in All(f), NEW b \in All(f),
         a # f.ip, f.code[a] = <<>>
  PROVE  LET g == IfElse(f, a, b)
         IN  /\ g \in Bodies /\ Longer(f, g, Br(b)) /\ All(g) = All(f)
             /\ g.ip = a /\ End(g, a) = 1
<1>1. a \in Nat /\ b \in Nat
  BY DEF All
<1>2. PICK g : g = IfElse(f, a, b)
  OBVIOUS
<1>3. Jumped(f, g, {b}) /\ Len(g.code) = Len(f.code) /\ g.ip = a
  <2>1. LET e == IfElse(f, a, b)
        IN  /\ Jumped(f, e, {b}) /\ Len(e.code) = Len(f.code)
            /\ e.placed = f.placed \cup {a} /\ e.ip = a
    BY ONLY <1>1, f \in Bodies, f.ip \in All(f), IfElses
  <2> QED BY <1>2, <2>1
<1>4. g.code[f.ip] = Append(f.code[f.ip], Br(b))
  BY <1>1, <1>2, IfElseJumps
<1>5. g \in Bodies /\ All(g) = All(f) /\ g.code[a] = <<>>
  BY <1>3 DEF Jumped, All
<1>6. Longer(f, g, Br(b))
  BY <1>3, <1>4, Lengthens
<1> QED BY <1>2, <1>3, <1>5, <1>6 DEF End

LEMMA LeftJumps ==
  ASSUME NEW f, f \in Bodies, f.ip \in All(f), NEW g, g \in Bodies, All(g) = All(f),
         NEW F, NEW T, NEW out, NEW fr, NEW met, NEW els, NEW s,
         Left(F, T, f, out, fr, met, els, s), fr.kind # "for",
         fr.next \in All(f), Longer(f, g, Br(fr.next))
  PROVE  Flow(g, T) /\ Entry(F, T) /\ Exits(F, T, out)
<1>1. Mark(T, f.ip, End(f, f.ip)) = s
  <2>1. Again(fr, met) = <<>>
    BY DEF Again
  <2> QED BY <2>1, ProgramEmpty DEF Left
<1>2. Mark(T, fr.next, 1) = Mark(T, f.ip, End(f, f.ip))
  BY <1>1 DEF Left
<1>3. Flow(f, T) /\ Agree(f, T, T) /\ fr.next \in Nat /\ fr.next \in All(g)
  BY DEF Left, Agree, All
<1>4. Flow(g, T)
  BY <1>2, <1>3, JumpFlows
<1> QED BY <1>4 DEF Left

(* From then to else.                                                      *)
LEMMA ElseExplained ==
  ASSUME NEW f, f \in Bodies, f.ip \in All(f), NEW fs, Held(fs, f),
         fs # <<>>, NEW met, IsProgram(met), Explained(f, fs, met, FALSE),
         NEW fr, fr = fs[Len(fs)], fr.kind = "if", IsProgram(fr.outer),
         fr.alt # f.ip, f.code[fr.alt] = <<>>,
         NEW er, er.kind = "else", er.id = fr.id, er.next = fr.next,
         er.outer = fr.outer, er.then = met
  PROVE  Explained(IfElse(f, fr.alt, fr.next),
                   Append(SubSeq(fs, 1, Len(fs) - 1), er), <<>>, FALSE)
<1>1. PICK B : fs \in Seq(B)
  BY DEF Held
<1>2. PICK A : A = B \cup {er}
  OBVIOUS
<1>3. fs \in Seq(A) /\ er \in A
  BY <1>1, <1>2
<1>4. PICK n \in Nat \ {0} : n = Len(fs)
  BY <1>3, EmptySeq
<1>5. PICK m \in Nat : m = n - 1 /\ m + 1 = n
  BY <1>4
<1>6. PICK out : out = SubSeq(fs, 1, Len(fs) - 1)
  OBVIOUS
<1>7. out \in Seq(A) /\ Len(out) = m
  BY <1>3, <1>4, <1>5, <1>6, Fronts
<1>8. PICK all : all = Append(out, er)
  OBVIOUS
<1>9. /\ Len(all) = n /\ all[n] = er /\ \A l \in 1 .. m : all[l] = out[l]
      /\ n \in 1 .. n
  BY <1>3, <1>5, <1>7, <1>8
<1>10. PICK alt, next : alt = fr.alt /\ next = fr.next
  OBVIOUS
<1>11. alt \in All(f) /\ next \in All(f)
  <2>1. fs[n].alt \in All(f) /\ fs[n].next \in All(f)
    BY <1>4, <1>9 DEF Held
  <2> QED BY <1>4, <1>10, <2>1
<1>12. PICK g : g = IfElse(f, alt, next)
  OBVIOUS
<1>13. /\ g \in Bodies /\ Longer(f, g, Br(next)) /\ All(g) = All(f)
       /\ g.ip = alt /\ End(g, alt) = 1
  <2>1. f \in Bodies /\ f.ip \in All(f) /\ alt # f.ip /\ f.code[alt] = <<>>
    BY <1>10
  <2> QED BY ONLY <1>11, <1>12, <2>1, Jumping
<1>14. ASSUME NEW F, Future(F, all, <<>>)
       PROVE  \E T : Labelled(F, T, g, all, FALSE)
  <2>1. PICK els, t : els = F.whole[n] /\ t = Node(fr, met, els)
    OBVIOUS
  <2>2. /\ Future(F, out, Append(fr.outer, t)) /\ IsProgram(els)
        /\ F.left[n] = els \o (Again(er, els) \o F.left[m])
    <3>1. IsProgram(er.outer) /\ Future(F, Append(out, er), <<>>)
      BY <1>8, <1>14
    <3>2. LET k == Len(out)
              u == Node(er, F.whole[k + 1], F.els[k + 1])
          IN  /\ Future(F, out, Append(er.outer, u))
              /\ IsProgram(F.whole[k + 1])
              /\ F.whole[k + 1] = F.rest[k + 1]
              /\ F.left[k + 1] = F.rest[k + 1] \o (Again(er, F.whole[k + 1]) \o F.left[k])
      BY ONLY <1>3, <1>7, <3>1, FutureOutside
    <3>3. Node(er, F.whole[n], F.els[n]) = t
      BY <2>1 DEF Node
    <3> QED BY <1>5, <1>7, <2>1, <3>2, <3>3
  <2>3. PICK T, s : Left(F, T, f, out, fr, met, els, s)
    BY <1>3, <1>6, <2>1, <2>2, Leaving
  <2>4. s = F.left[m] /\ IsProgram(s)
    BY <1>7, <2>3 DEF Left
  <2>5. F.left[n] = els \o s
    <3>1. Again(er, els) = <<>>
      BY DEF Again
    <3> QED BY <2>2, <2>4, <3>1, ProgramEmpty
  <2>6. Mark(T, next, 1) = s /\ Mark(T, alt, 1) = els \o s
    BY <1>10, <2>3 DEF Left
  <2>7. Flow(g, T) /\ Entry(F, T) /\ Exits(F, T, out)
    BY <1>10, <1>11, <1>13, <2>3, LeftJumps
  <2>8. Exits(F, T, all)
    <3>1. ASSUME NEW l \in 1 .. n
          PROVE  /\ Mark(T, all[l].next, 1) = F.left[l - 1]
                 /\ all[l].kind = "if" => Mark(T, all[l].alt, 1) = F.els[l] \o F.left[l - 1]
      <4>1. CASE l \in 1 .. m
        BY <1>7, <1>9, <2>7, <4>1 DEF Exits
      <4>2. CASE l = n
        <5>1. all[l] = er /\ er.next = next /\ l - 1 = m
          BY <1>5, <1>9, <1>10, <4>2
        <5>2. F.left[l - 1] = s
          BY <2>4, <5>1
        <5> QED BY <2>6, <5>1, <5>2
      <4>3. l \in 1 .. m \/ l = n
        BY <1>5
      <4> QED BY <4>1, <4>2, <4>3
    <3> QED BY <1>9, <3>1 DEF Exits
  <2>9. Loop(F, T, g, all)
    BY <1>9 DEF Loop
  <2>10. Cursor(F, T, g, all)
    BY <1>9, <1>13, <2>5, <2>6 DEF Cursor
  <2> QED BY <2>7, <2>8, <2>9, <2>10 DEF Labelled
<1>15. Explained(g, all, <<>>, FALSE)
  BY <1>14 DEF Explained
<1> QED BY <1>6, <1>8, <1>10, <1>12, <1>15

(* Out of an if.                                                           *)
LEMMA EndElseExplained ==
  ASSUME NEW f, f \in Bodies, f.ip \in All(f), NEW fs, Held(fs, f),
         fs # <<>>, NEW met, IsProgram(met), Explained(f, fs, met, FALSE),
         NEW fr, fr = fs[Len(fs)], fr.kind = "else", IsProgram(fr.outer),
         fr.next # f.ip, f.code[fr.next] = <<>>,
         \A l \in 1 .. Len(fs) : l < Len(fs) => fs[l].kind # "for"
  PROVE  Explained(IfElse(f, fr.next, fr.next), SubSeq(fs, 1, Len(fs) - 1),
                   Append(fr.outer, Node(fr, met, <<>>)), FALSE)
<1>1. PICK A : fs \in Seq(A)
  BY DEF Held
<1>2. PICK n \in Nat \ {0} : n = Len(fs)
  BY <1>1, EmptySeq
<1>3. PICK m \in Nat : m = n - 1 /\ m < n /\ n \in 1 .. n
  BY <1>2
<1>4. PICK out : out = SubSeq(fs, 1, Len(fs) - 1)
  OBVIOUS
<1>5. out \in Seq(A) /\ Len(out) = m /\ \A l \in 1 .. m : out[l] = fs[l]
  BY <1>1, <1>2, <1>3, <1>4, Fronts
<1>6. out # <<>> => out[m].kind # "for"
  <2>1. ASSUME out # <<>> PROVE out[m].kind # "for"
    <3>1. m \in 1 .. m /\ m \in 1 .. Len(fs)
      BY <1>2, <1>3, <1>5, <2>1, EmptySeq
    <3> QED BY <1>2, <1>3, <1>5, <3>1
  <2> QED BY <2>1
<1>7. PICK next : next = fr.next
  OBVIOUS
<1>8. next \in All(f)
  <2>1. fs[n].next \in All(f)
    BY <1>2, <1>3 DEF Held
  <2> QED BY <1>2, <1>7, <2>1
<1>9. PICK g : g = IfElse(f, next, next)
  OBVIOUS
<1>10. /\ g \in Bodies /\ Longer(f, g, Br(next)) /\ All(g) = All(f)
       /\ g.ip = next /\ End(g, next) = 1
  <2>1. f \in Bodies /\ f.ip \in All(f) /\ next # f.ip /\ f.code[next] = <<>>
    BY <1>7
  <2> QED BY ONLY <1>8, <1>9, <2>1, Jumping
<1>11. ASSUME NEW F, Future(F, out, Append(fr.outer, Node(fr, met, <<>>)))
       PROVE  \E T : Labelled(F, T, g, out, FALSE)
  <2>1. PICK els : els = <<>>
    OBVIOUS
  <2>2. IsProgram(els) /\ Future(F, out, Append(fr.outer, Node(fr, met, els)))
    BY <1>11, <2>1, ProgramEmpty
  <2>3. PICK T, s : Left(F, T, f, out, fr, met, els, s)
    BY <1>1, <1>4, <2>2, Leaving
  <2>4. Mark(T, next, 1) = F.left[m]
    BY <1>5, <1>7, <2>3 DEF Left
  <2>5. Flow(g, T) /\ Entry(F, T) /\ Exits(F, T, out)
    BY <1>7, <1>8, <1>10, <2>3, LeftJumps
  <2>6. Loop(F, T, g, out)
    BY <1>5, <1>6 DEF Loop
  <2>7. Cursor(F, T, g, out)
    BY <1>5, <1>10, <2>4 DEF Cursor
  <2> QED BY <2>5, <2>6, <2>7 DEF Labelled
<1>12. Explained(g, out, Append(fr.outer, Node(fr, met, <<>>)), FALSE)
  BY <1>11 DEF Explained
<1> QED BY <1>4, <1>7, <1>9, <1>12

(* Out of a for.                                                           *)
LEMMA EndForExplained ==
  ASSUME NEW f, f \in Bodies, f.ip \in All(f), 1 \in All(f), NEW fs, Held(fs, f),
         fs # <<>>, NEW met, IsProgram(met), Explained(f, fs, met, FALSE),
         NEW fr, fr = fs[Len(fs)], fr.kind = "for", fr.id \in Nat, IsProgram(fr.outer),
         fr.next # f.ip, f.code[fr.next] = <<>>,
         \A l \in 1 .. Len(fs) : l < Len(fs) => fs[l].kind # "for"
  PROVE  Explained(ForEnd(Emit(f, Work(S!Done("step", fr.id))), fr.id, fr.next),
                   SubSeq(fs, 1, Len(fs) - 1),
                   Append(fr.outer, Node(fr, met, <<>>)), FALSE)
<1>1. PICK A : fs \in Seq(A)
  BY DEF Held
<1>2. PICK n \in Nat \ {0} : n = Len(fs)
  BY <1>1, EmptySeq
<1>3. PICK m \in Nat : m = n - 1 /\ m < n /\ n \in 1 .. n
  BY <1>2
<1>4. PICK out : out = SubSeq(fs, 1, Len(fs) - 1)
  OBVIOUS
<1>5. out \in Seq(A) /\ Len(out) = m /\ \A l \in 1 .. m : out[l] = fs[l]
  BY <1>1, <1>2, <1>3, <1>4, Fronts
<1>6. out # <<>> => out[m].kind # "for"
  <2>1. ASSUME out # <<>> PROVE out[m].kind # "for"
    <3>1. m \in 1 .. m /\ m \in 1 .. Len(fs)
      BY <1>2, <1>3, <1>5, <2>1, EmptySeq
    <3> QED BY <1>2, <1>3, <1>5, <3>1
  <2> QED BY <2>1
<1>7. PICK next, id : next = fr.next /\ id = fr.id /\ id \in Nat
  OBVIOUS
<1>8. next \in All(f) /\ next \in Nat
  <2>1. fs[n].next \in All(f)
    BY <1>2, <1>3 DEF Held
  <2> QED BY <1>2, <1>7, <2>1 DEF All
<1>9. PICK w : w = S!Done("step", id)
  OBVIOUS
<1>10. id \in Whats /\ w \in Whats
  BY <1>7, <1>9 DEF S!Done, Whats, Roles
<1>11. PICK e, g : e = Emit(f, Work(w)) /\ g = ForEnd(e, id, next)
  OBVIOUS
<1>12. PICK i \in Instrs : i = Work(w)
  BY <1>10, Instructions
<1>13. /\ e \in Bodies /\ e.ip = f.ip /\ Len(e.code) = Len(f.code) /\ All(e) = All(f)
       /\ \A b \in All(f) \ {f.ip} : e.code[b] = f.code[b]
  <2>1. LET o == Emit(f, i)
        IN  /\ o \in Bodies /\ o.ip = f.ip /\ Len(o.code) = Len(f.code)
            /\ \A b \in All(f) \ {f.ip} : o.code[b] = f.code[b]
    BY ONLY f \in Bodies, f.ip \in All(f), i \in Instrs, Emits
  <2>2. e = Emit(f, i)
    BY <1>11, <1>12
  <2> QED BY <2>1, <2>2 DEF All
<1>14. /\ Jumped(e, g, {e.ip, next}) /\ Len(g.code) = Len(e.code) /\ g.ip = next
       /\ g.code[e.ip] = Append(e.code[e.ip], CondBr(id, e.ip, next))
  <2>1. e \in Bodies /\ e.ip \in All(e) /\ id \in Whats /\ next \in Nat
    BY <1>8, <1>10, <1>13
  <2>2. LET o == ForEnd(e, id, next)
        IN  /\ Jumped(e, o, {e.ip, next}) /\ Len(o.code) = Len(e.code) /\ o.ip = next
            /\ o.code[e.ip] = Append(e.code[e.ip], CondBr(id, e.ip, next))
    BY ONLY <2>1, ForEnds
  <2> QED BY <1>11, <2>2
<1>15. /\ g \in Bodies /\ All(g) = All(e) /\ Longer(e, g, CondBr(id, e.ip, next))
       /\ End(g, next) = 1
  <2>1. e.code[next] = <<>> /\ next \in All(e) \ {e.ip}
    BY <1>7, <1>8, <1>13
  <2>2. g \in Bodies /\ All(g) = All(e) /\ g.code[next] = <<>>
    BY <1>14, <2>1 DEF Jumped, All
  <2>3. Longer(e, g, CondBr(id, e.ip, next))
    BY ONLY <1>14, Lengthens
  <2> QED BY <1>14, <2>2, <2>3 DEF End
<1>16. ASSUME NEW F, Future(F, out, Append(fr.outer, Node(fr, met, <<>>)))
       PROVE  \E T : Labelled(F, T, g, out, FALSE)
  <2>1. PICK els : els = <<>>
    OBVIOUS
  <2>2. IsProgram(els) /\ Future(F, out, Append(fr.outer, Node(fr, met, els)))
    BY <1>16, <2>1, ProgramEmpty
  <2>3. PICK T, s : Left(F, T, f, out, fr, met, els, s)
    BY <1>1, <1>4, <2>2, Leaving
  <2>4. PICK test, step : /\ test = <<TestPart(id, met)>> \o s
                          /\ step = <<StepPart(id, met)>> \o s
    OBVIOUS
  <2>5. IsProgram(s) /\ s = F.left[m] /\ Flow(f, T) /\ Mark(T, next, 1) = s
    BY <1>5, <1>7, <2>3 DEF Left
  <2>6. /\ Steps(step, w, test)
        /\ Steps(test, S!Tested(id, TRUE), met \o step)
        /\ Steps(test, S!Tested(id, FALSE), s)
    BY <1>9, <2>4, <2>5, ForSteps
  <2>7. PICK p : p = Mark(T, f.ip, End(f, f.ip)) /\ Steps(p, w, test)
    <3>1. Mark(T, f.ip, End(f, f.ip)) = step
      BY <1>7, <2>3, <2>4 DEF Left, Again
    <3> QED BY <2>6, <3>1
  <2>8. PICK U : U = Label(T, f.ip, End(f, f.ip) + 1, test)
    OBVIOUS
  <2>9. /\ End(e, f.ip) = End(f, f.ip) + 1 /\ Flow(e, U) /\ Agree(f, T, U)
        /\ End(f, f.ip) + 1 \in Nat /\ f.ip \in Nat
    BY <1>10, <1>11, <2>5, <2>7, <2>8, WorkFlows
  <2>10. Mark(U, e.ip, End(e, e.ip)) = test
    <3>1. Mark(U, f.ip, End(f, f.ip) + 1) = test
      BY <2>8, <2>9, Labels
    <3> QED BY <1>13, <2>9, <3>1
  <2>11. \A b \in All(f) : Mark(U, b, 1) = Mark(T, b, 1)
    <3>1. \A b \in All(f) : 1 \in 1 .. Len(f.code[b]) + 1
      BY DEF Bodies, All
    <3> QED BY <2>9, <3>1 DEF Agree
  <2>12. Mark(U, e.ip, 1) = met \o step
    <3>1. Mark(T, f.ip, 1) = met \o step
      BY <1>7, <2>3, <2>4 DEF Left
    <3> QED BY <1>13, <2>11, <3>1
  <2>13. Mark(U, next, 1) = s
    BY <1>8, <2>5, <2>11
  <2>14. Flow(g, U)
    <3>1. /\ Steps(Mark(U, e.ip, End(e, e.ip)), S!Tested(id, TRUE), Mark(U, e.ip, 1))
          /\ Steps(Mark(U, e.ip, End(e, e.ip)), S!Tested(id, FALSE), Mark(U, next, 1))
      BY <2>6, <2>10, <2>12, <2>13
    <3>2. /\ e.ip \in All(e) /\ e.ip \in All(g) /\ next \in All(g) /\ Agree(e, U, U)
          /\ e.ip \in Nat
      BY <1>8, <1>13, <1>15 DEF Agree, All
    <3> QED BY ONLY <1>8, <1>10, <1>13, <1>15, <2>9, <3>1, <3>2, BranchFlows
  <2>15. Entry(F, U) /\ Exits(F, U, out)
    <3>1. Held(out, f)
      <4>1. \A l \in 1 .. m : l \in 1 .. Len(fs)
        BY <1>2, <1>3
      <4> QED BY <1>5, <4>1 DEF Held
    <3>2. Entry(F, T) /\ Exits(F, T, out)
      BY <2>3 DEF Left
    <3>3. f \in Bodies /\ 1 \in All(f) /\ Agree(f, T, U)
      BY <2>9
    <3> QED BY ONLY <3>1, <3>2, <3>3, Stays
  <2>16. Loop(F, U, g, out)
    BY <1>5, <1>6 DEF Loop
  <2>17. Cursor(F, U, g, out)
    BY <1>5, <1>14, <1>15, <2>5, <2>13 DEF Cursor
  <2> QED BY <2>14, <2>15, <2>16, <2>17 DEF Labelled
<1>17. Explained(g, out, Append(fr.outer, Node(fr, met, <<>>)), FALSE)
  BY <1>16 DEF Explained
<1> QED BY <1>4, <1>7, <1>9, <1>11, <1>17
-----------------------------------------------------------------------------
(* The invariant: a function under construction is explained, as long as   *)
(* nothing was generated that the verifier rejects, or that is nested in a *)
(* loop or a return that is buried.                                        *)
Straight(fs) == \A l \in 1 .. Len(fs) : l < Len(fs) => fs[l].kind # "for"
Walk ==
  /\ Written(frames, body)
  /\ ~nested => Straight(frames)
  /\ ~late /\ ~bare /\ ~nested /\ ~buried =>
       Explained(fn, frames, body, hasTerminator)
  /\ todo = S!Idle

LEMMA WalkFacts ==
  ASSUME Underway
  PROVE  /\ fn \in Bodies /\ fn.ip \in All(fn) /\ 1 \in All(fn)
         /\ Held(frames, fn) /\ nodes + 1 \in Nat
<1>1. /\ fn \in Bodies /\ fn.ip \in All(fn) /\ 1 \in All(fn) /\ nodes + 1 \in Nat
  BY UnderwayFacts
<1>2. Held(frames, fn)
  <2>1. \A l \in 1 .. Len(frames) : {frames[l].alt, frames[l].next} \subseteq 2 .. Len(fn.code)
    BY DEF Underway, FramesOK
  <2>2. 2 .. Len(fn.code) \subseteq All(fn)
    BY DEF All
  <2>3. \E A : frames \in Seq(A)
    BY DEF Underway, FramesOK
  <2> QED BY <2>1, <2>2, <2>3 DEF Held
<1> QED BY <1>1, <1>2

LEMMA StillPlain ==
  ASSUME Underway, Walk, ~late, ~hasTerminator, ~bare, ~nested, ~buried
  PROVE  Explained(fn, frames, body, FALSE)
<1>1. PICK h \in BOOLEAN : h = hasTerminator
  BY DEF Underway, Flags
<1>2. Explained(fn, frames, body, h)
  BY <1>1 DEF Walk
<1>3. h = FALSE
  BY <1>1
<1> QED BY <1>2, <1>3

(* A statement, and a return in a construct. *)
LEMMA StatementWalk == Underway /\ Walk /\ (Statement \/ BuriedReturn) => Walk'
<1> SUFFICES ASSUME Underway, Walk, Statement \/ BuriedReturn PROVE Walk'
  OBVIOUS
<1>1. /\ frames' = frames /\ late' = (late \/ hasTerminator) /\ todo' = todo
      /\ hasTerminator' = hasTerminator /\ bare' = bare /\ nested' = nested
      /\ hasTerminator \in BOOLEAN
  BY DEF Statement, BuriedReturn, Building, idle, Underway, Flags
<1>2. \E kind \in {"work", "return"} : body' = Append(body, [kind |-> kind, id |-> nodes + 1])
  BY DEF Statement, BuriedReturn, Tree
<1>3. Written(frames', body')
  <2>1. PICK kind \in {"work", "return"} : body' = Append(body, [kind |-> kind, id |-> nodes + 1])
    BY <1>2
  <2>2. PICK t : t = [kind |-> kind, id |-> nodes + 1]
    OBVIOUS
  <2>3. t.kind \in Kinds
    BY <2>2 DEF Kinds
  <2>4. IsProgram(Append(body, t))
    BY <2>3, ProgramAppend DEF Walk, Written
  <2> QED BY <1>1, <2>1, <2>2, <2>4 DEF Walk, Written
<1>4. ASSUME ~late', ~bare', ~nested', ~buried'
      PROVE  Explained(fn', frames', body', hasTerminator')
  <2>1. Statement
    BY <1>4 DEF BuriedReturn
  <2>2. ~late /\ ~hasTerminator /\ ~bare /\ ~nested /\ ~buried
    <3>1. buried' = buried
      BY <2>1 DEF Statement
    <3>2. ~late /\ ~hasTerminator
      BY <1>1, <1>4
    <3>3. ~bare /\ ~nested /\ ~buried
      BY <1>1, <1>4, <3>1
    <3> QED BY <3>2, <3>3
  <2>3. Explained(fn, frames, body, FALSE)
    BY <2>2, StillPlain
  <2>4. PICK id \in Nat : id = nodes + 1
    BY WalkFacts
  <2>5. Explained(Emit(fn, Work(S!Done("work", id))), frames,
                  Append(body, [kind |-> "work", id |-> id]), FALSE)
    <3>1. PICK f, fs, met : f = fn /\ fs = frames /\ met = body
      OBVIOUS
    <3>2. /\ f \in Bodies /\ f.ip \in All(f) /\ 1 \in All(f) /\ Held(fs, f)
          /\ IsProgram(met) /\ Explained(f, fs, met, FALSE)
      BY <2>3, <3>1, WalkFacts DEF Walk, Written
    <3>3. Explained(Emit(f, Work(S!Done("work", id))), fs,
                    Append(met, [kind |-> "work", id |-> id]), FALSE)
      BY <3>2, StatementExplained
    <3> QED BY <3>1, <3>3
  <2>6. fn' = Emit(fn, Work(S!Done("work", id))) /\ body' = Append(body, [kind |-> "work", id |-> id])
    BY <2>1, <2>4 DEF Statement, Tree
  <2>7. hasTerminator' = FALSE
    BY <1>1, <2>2
  <2> QED BY <1>1, <2>5, <2>6, <2>7
<1> QED BY <1>1, <1>3, <1>4 DEF Walk

(* A return in the body of the function. *)
LEMMA ReturnWalk == Underway /\ Walk /\ Return => Walk'
<1> SUFFICES ASSUME Underway, Walk, Return PROVE Walk'
  OBVIOUS
<1>1. /\ frames' = frames /\ late' = (late \/ hasTerminator) /\ todo' = todo
      /\ hasTerminator' = TRUE /\ bare' = bare /\ nested' = nested
      /\ buried' = buried /\ frames = <<>>
  BY DEF Return, Building, idle
<1>2. PICK id \in Nat : id = nodes + 1
  BY WalkFacts
<1>3. body' = Append(body, [kind |-> "return", id |-> id])
  BY <1>2 DEF Return, Tree
<1>4. Written(frames', body')
  <2>1. PICK t : t = [kind |-> "return", id |-> id]
    OBVIOUS
  <2>2. IsProgram(Append(body, t))
    <3>1. t.kind \in Kinds
      BY <2>1 DEF Kinds
    <3> QED BY <3>1, ProgramAppend DEF Walk, Written
  <2> QED BY <1>1, <1>3, <2>1, <2>2 DEF Walk, Written
<1>5. ASSUME ~late', ~bare', ~nested', ~buried'
      PROVE  Explained(fn', frames', body', hasTerminator')
  <2>1. Explained(fn, <<>>, body, FALSE)
    BY <1>1, <1>5, StillPlain
  <2>2. LET w == S!Done("work", id)
        IN  Explained(Emit(Emit(fn, Work(w)), Ret(w)), <<>>,
                      Append(body, [kind |-> "return", id |-> id]), TRUE)
    <3>1. PICK f, met : f = fn /\ met = body
      OBVIOUS
    <3>2. /\ f \in Bodies /\ f.ip \in All(f) /\ 1 \in All(f)
          /\ IsProgram(met) /\ Explained(f, <<>>, met, FALSE)
      BY <2>1, <3>1, WalkFacts DEF Walk, Written
    <3>3. LET w == S!Done("work", id)
          IN  Explained(Emit(Emit(f, Work(w)), Ret(w)), <<>>,
                        Append(met, [kind |-> "return", id |-> id]), TRUE)
      BY <3>2, ReturnExplained
    <3> QED BY <3>1, <3>3
  <2>3. LET w == S!Done("work", id)
        IN  fn' = Emit(Emit(fn, Work(w)), Ret(w))
    BY <1>2 DEF Return
  <2> QED BY <1>1, <1>3, <2>2, <2>3
<1> QED BY <1>1, <1>4, <1>5 DEF Walk

(* The frames, one more and one less.                                      *)
LEMMA WrittenInto ==
  ASSUME NEW f, NEW fs, Held(fs, f), NEW met, Written(fs, met),
         NEW fr, IsProgram(fr.outer), IsProgram(fr.then)
  PROVE  /\ Written(Append(fs, fr), <<>>)
         /\ (\A l \in 1 .. Len(fs) : fs[l].kind # "for") => Straight(Append(fs, fr))
<1>1. PICK all : all = Append(fs, fr)
  OBVIOUS
<1>2. PICK n \in Nat : n = Len(fs)
  BY Pushed
<1>3. Len(all) = n + 1 /\ all[n + 1] = fr /\ \A l \in 1 .. n : all[l] = fs[l]
  BY <1>1, <1>2, Pushed
<1>4. \A l \in 1 .. n + 1 : l \in 1 .. n \/ l = n + 1
  OBVIOUS
<1>5. \A l \in 1 .. n : IsProgram(fs[l].outer) /\ IsProgram(fs[l].then)
  BY <1>2 DEF Written
<1>6. ASSUME NEW l \in 1 .. n + 1
      PROVE  IsProgram(all[l].outer) /\ IsProgram(all[l].then)
  BY <1>3, <1>4, <1>5
<1>7. Written(all, <<>>)
  BY <1>3, <1>6, ProgramEmpty DEF Written
<1>8. ASSUME \A l \in 1 .. Len(fs) : fs[l].kind # "for" PROVE Straight(all)
  <2>1. \A l \in 1 .. n : all[l].kind # "for"
    BY <1>2, <1>3, <1>8
  <2>2. \A l \in 1 .. n + 1 : l < n + 1 => l \in 1 .. n
    OBVIOUS
  <2> QED BY <1>3, <2>1, <2>2 DEF Straight
<1> QED BY <1>1, <1>7, <1>8

LEMMA WrittenOut ==
  ASSUME NEW f, NEW fs, Held(fs, f), fs # <<>>, NEW met, Written(fs, met),
         NEW fr, fr = fs[Len(fs)], NEW t, t.kind \in Kinds
  PROVE  LET out == SubSeq(fs, 1, Len(fs) - 1)
         IN  /\ Held(out, f) /\ Written(out, Append(fr.outer, t))
             /\ IsProgram(fr.outer) /\ IsProgram(fr.then)
             /\ Straight(fs) => Straight(out) /\ \A l \in 1 .. Len(out) : out[l].kind # "for"
<1>1. PICK A : fs \in Seq(A)
  BY DEF Held
<1>2. PICK n \in Nat \ {0} : n = Len(fs)
  BY <1>1, EmptySeq
<1>3. PICK out : out = SubSeq(fs, 1, Len(fs) - 1)
  OBVIOUS
<1>4. out \in Seq(A) /\ Len(out) = n - 1 /\ \A l \in 1 .. n - 1 : out[l] = fs[l]
  BY <1>1, <1>2, <1>3, Fronts
<1>5. n \in 1 .. n /\ \A l \in 1 .. n - 1 : l \in 1 .. n /\ l < n
  OBVIOUS
<1>6. /\ \A l \in 1 .. n : IsProgram(fs[l].outer) /\ IsProgram(fs[l].then)
      /\ \A l \in 1 .. n : {fs[l].alt, fs[l].next} \subseteq All(f)
  BY <1>2 DEF Written, Held
<1>7. IsProgram(fr.outer) /\ IsProgram(fr.then)
  BY <1>2, <1>5, <1>6
<1>8. IsProgram(Append(fr.outer, t))
  BY <1>7, ProgramAppend
<1>9. Held(out, f)
  <2>1. \A l \in 1 .. Len(out) : {out[l].alt, out[l].next} \subseteq All(f)
    BY <1>4, <1>5, <1>6
  <2> QED BY <1>4, <2>1 DEF Held
<1>10. Written(out, Append(fr.outer, t))
  BY <1>4, <1>5, <1>6, <1>8 DEF Written
<1>11. ASSUME Straight(fs)
       PROVE  Straight(out) /\ \A l \in 1 .. Len(out) : out[l].kind # "for"
  <2>1. \A l \in 1 .. n - 1 : fs[l].kind # "for"
    BY <1>2, <1>5, <1>11 DEF Straight
  <2> QED BY <1>4, <2>1 DEF Straight
<1> QED BY <1>3, <1>7, <1>9, <1>10, <1>11

(* Into an if and into a for.                                              *)
LEMMA FrameFacts ==
  ASSUME NEW kind, NEW alt, NEW next
  PROVE  LET fr == Frame(kind, alt, next)
         IN  /\ fr.kind = kind /\ fr.id = nodes + 1 /\ fr.alt = alt /\ fr.next = next
             /\ fr.outer = body /\ fr.then = <<>>
BY DEF Frame

LEMMA NotInLoop ==
  ~InLoop => \A l \in 1 .. Len(frames) : frames[l].kind # "for"
BY DEF InLoop

LEMMA EnterIfWalk == Underway /\ Walk /\ EnterIf => Walk'
<1> SUFFICES ASSUME Underway, Walk, EnterIf PROVE Walk'
  OBVIOUS
<1>1. PICK n \in Nat : n = Len(fn.code)
  BY UnderwayFacts
<1>2. PICK fr : fr = Frame("if", n + 2, n + 3)
  OBVIOUS
<1>3. /\ fn' = IfHead(fn, nodes + 1) /\ frames' = Append(frames, fr) /\ body' = <<>>
      /\ late' = (late \/ hasTerminator) /\ todo' = todo
      /\ hasTerminator' = hasTerminator /\ bare' = bare /\ buried' = buried
      /\ nested' = (nested \/ InLoop)
  BY <1>1, <1>2 DEF EnterIf, Building, idle, Fresh
<1>4. PICK id \in Nat : id = nodes + 1
  BY WalkFacts
<1>5. /\ fr.kind = "if" /\ fr.id = id /\ fr.alt = n + 2 /\ fr.next = n + 3
      /\ fr.outer = body /\ fr.then = <<>>
  BY <1>2, <1>4, FrameFacts
<1>6. /\ Written(frames', body')
      /\ (\A l \in 1 .. Len(frames) : frames[l].kind # "for") => Straight(frames')
  BY <1>3, <1>5, WalkFacts, WrittenInto, ProgramEmpty DEF Walk, Written
<1>7. ~nested' => Straight(frames')
  BY <1>3, <1>6, NotInLoop
<1>8. ASSUME ~late', ~bare', ~nested', ~buried'
      PROVE  Explained(fn', frames', body', hasTerminator')
  <2>1. ~late /\ ~hasTerminator /\ hasTerminator \in BOOLEAN
    BY <1>3, <1>8 DEF Underway, Flags
  <2>2. ~bare /\ ~nested /\ ~buried
    BY <1>3, <1>8
  <2>3. Explained(fn, frames, body, FALSE)
    BY <2>1, <2>2, StillPlain
  <2>4. Explained(IfHead(fn, id), Append(frames, fr), <<>>, FALSE)
    <3>1. PICK f, fs, met : f = fn /\ fs = frames /\ met = body
      OBVIOUS
    <3>2. /\ f \in Bodies /\ f.ip \in All(f) /\ 1 \in All(f) /\ Held(fs, f)
          /\ IsProgram(met) /\ Explained(f, fs, met, FALSE)
      BY <2>3, <3>1, WalkFacts DEF Walk, Written
    <3>3. fr.outer = met /\ fr.alt = Len(f.code) + 2 /\ fr.next = Len(f.code) + 3
      BY <1>1, <1>5, <3>1
    <3>4. Explained(IfHead(f, id), Append(fs, fr), <<>>, FALSE)
      BY <1>5, <3>2, <3>3, EnterIfExplained
    <3> QED BY <3>1, <3>4
  <2>5. hasTerminator' = FALSE
    BY <1>3, <2>1
  <2> QED BY <1>3, <1>4, <2>4, <2>5
<1> QED BY <1>3, <1>6, <1>7, <1>8 DEF Walk

LEMMA EnterForWalk == Underway /\ Walk /\ EnterFor => Walk'
<1> SUFFICES ASSUME Underway, Walk, EnterFor PROVE Walk'
  OBVIOUS
<1>1. PICK n \in Nat : n = Len(fn.code)
  BY UnderwayFacts
<1>2. PICK fr : fr = Frame("for", n + 2, n + 2)
  OBVIOUS
<1>3. /\ fn' = ForEnter(ForBlocks(Emit(fn, Work(S!Done("init", nodes + 1)))),
                        nodes + 1, n + 1, n + 2)
      /\ frames' = Append(frames, fr) /\ body' = <<>>
      /\ late' = (late \/ hasTerminator) /\ todo' = todo
      /\ hasTerminator' = hasTerminator /\ bare' = bare /\ buried' = buried
      /\ nested' = (nested \/ InLoop)
  BY <1>1, <1>2 DEF EnterFor, Building, idle, Fresh
<1>4. PICK id \in Nat : id = nodes + 1
  BY WalkFacts
<1>5. /\ fr.kind = "for" /\ fr.id = id /\ fr.next = n + 2
      /\ fr.outer = body /\ fr.then = <<>>
  BY <1>2, <1>4, FrameFacts
<1>6. /\ Written(frames', body')
      /\ (\A l \in 1 .. Len(frames) : frames[l].kind # "for") => Straight(frames')
  BY <1>3, <1>5, WalkFacts, WrittenInto, ProgramEmpty DEF Walk, Written
<1>7. ~nested' => Straight(frames')
  BY <1>3, <1>6, NotInLoop
<1>8. ASSUME ~late', ~bare', ~nested', ~buried'
      PROVE  Explained(fn', frames', body', hasTerminator')
  <2>1. ~late /\ ~hasTerminator /\ hasTerminator \in BOOLEAN
    BY <1>3, <1>8 DEF Underway, Flags
  <2>2. ~bare /\ ~nested /\ ~buried
    BY <1>3, <1>8
  <2>3. Explained(fn, frames, body, FALSE)
    BY <2>1, <2>2, StillPlain
  <2>4. Explained(ForEnter(ForBlocks(Emit(fn, Work(S!Done("init", id)))), id, n + 1, n + 2),
                  Append(frames, fr), <<>>, FALSE)
    <3>1. PICK f, fs, met : f = fn /\ fs = frames /\ met = body
      OBVIOUS
    <3>2. /\ f \in Bodies /\ f.ip \in All(f) /\ 1 \in All(f) /\ Held(fs, f)
          /\ IsProgram(met) /\ Explained(f, fs, met, FALSE)
      BY <2>3, <3>1, WalkFacts DEF Walk, Written
    <3>3. fr.outer = met /\ fr.next = Len(f.code) + 2 /\ n = Len(f.code)
      BY <1>1, <1>5, <3>1
    <3>4. LET k == Len(f.code)
              e == Emit(f, Work(S!Done("init", id)))
          IN  Explained(ForEnter(ForBlocks(e), id, k + 1, k + 2), Append(fs, fr), <<>>,
                        FALSE)
      BY <1>5, <3>2, <3>3, EnterForExplained
    <3> QED BY <3>1, <3>3, <3>4
  <2>5. hasTerminator' = FALSE
    BY <1>3, <2>1
  <2> QED BY <1>3, <1>4, <2>4, <2>5
<1> QED BY <1>3, <1>6, <1>7, <1>8 DEF Walk

(* Out of a construct.                                                     *)
LEMMA TopFacts ==
  ASSUME Underway, Walk, frames # <<>>
  PROVE  /\ Top = frames[Len(frames)] /\ Outer = SubSeq(frames, 1, Len(frames) - 1)
         /\ Top.id \in Nat /\ Top.kind \in {"if", "else", "for"}
         /\ \E A : Top \in FrameOf(A)
         /\ Top.next # fn.ip /\ fn.code[Top.next] = <<>>
         /\ Top.kind = "if" => Top.alt # fn.ip /\ fn.code[Top.alt] = <<>>
         /\ IsProgram(body) /\ IsProgram(Top.outer)
<1>1. Top = frames[Len(frames)] /\ Outer = SubSeq(frames, 1, Len(frames) - 1)
  BY DEF Top, Outer
<1>2. /\ Own(Top) \subseteq Owned(frames) /\ Len(frames) \in Nat \ {0}
      /\ Top.kind \in {"if", "else", "for"} /\ Top.id \in Nat
  BY <1>1, FramesPop DEF Underway
<1>3. fn.ip \notin Owned(frames) /\ \A b \in Owned(frames) : fn.code[b] = <<>>
  BY UnderwayFacts
<1>4. Top.next \in Own(Top) /\ (Top.kind = "if" => Top.alt \in Own(Top))
  BY DEF Own
<1>5. Len(frames) \in 1 .. Len(frames)
  BY <1>2
<1>6. \E A : Top \in FrameOf(A)
  <2>1. PICK A : frames \in Seq(FrameOf(A))
    BY DEF Underway, FramesOK
  <2>2. frames[Len(frames)] \in FrameOf(A)
    BY <1>5, <2>1
  <2> QED BY <1>1, <2>2
<1>7. IsProgram(body) /\ IsProgram(Top.outer)
  BY <1>1, <1>5 DEF Walk, Written
<1> QED BY <1>1, <1>2, <1>3, <1>4, <1>6, <1>7

LEMMA ElseWalk == Underway /\ Walk /\ Else => Walk'
<1> SUFFICES ASSUME Underway, Walk, Else PROVE Walk'
  OBVIOUS
<1>1. frames # <<>> /\ Top.kind = "if"
  BY DEF Else
<1>2. PICK fr, er : fr = Top /\ er = [Top EXCEPT !.kind = "else", !.then = body]
  OBVIOUS
<1>3. /\ fn' = IfElse(fn, fr.alt, fr.next) /\ frames' = Append(Outer, er) /\ body' = <<>>
      /\ late' = (late \/ hasTerminator) /\ todo' = todo
      /\ hasTerminator' = hasTerminator /\ bare' = bare /\ buried' = buried
      /\ nested' = nested
  BY <1>2 DEF Else, Building, idle
<1>4. /\ er.kind = "else" /\ er.id = fr.id /\ er.next = fr.next
      /\ er.outer = fr.outer /\ er.then = body
  <2>1. PICK A : fr \in FrameOf(A)
    BY <1>1, <1>2, TopFacts
  <2>2. er = [kind |-> "else", id |-> fr.id, alt |-> fr.alt, next |-> fr.next,
              outer |-> fr.outer, then |-> body]
    BY <1>2, <2>1, ElseFrame
  <2> QED BY <2>2
<1>5. PICK out : out = SubSeq(frames, 1, Len(frames) - 1)
  OBVIOUS
<1>6. PICK t : t = Node(fr, <<>>, <<>>)
  OBVIOUS
<1>7. /\ Held(out, fn) /\ Written(out, Append(fr.outer, t)) /\ IsProgram(fr.outer)
      /\ Straight(frames) => \A l \in 1 .. Len(out) : out[l].kind # "for"
  <2>1. t.kind \in Kinds /\ fr = frames[Len(frames)] /\ Held(frames, fn)
        /\ Written(frames, body)
    BY <1>1, <1>2, <1>6, NodeKinds, WalkFacts DEF Top, Walk
  <2> QED BY ONLY <1>1, <1>5, <2>1, WrittenOut
<1>8. Written(frames', body') /\ (~nested' => Straight(frames'))
  <2>1. IsProgram(er.outer) /\ IsProgram(er.then)
    BY <1>1, <1>4, <1>7, TopFacts
  <2>2. /\ Written(Append(out, er), <<>>)
        /\ (\A l \in 1 .. Len(out) : out[l].kind # "for") => Straight(Append(out, er))
    BY ONLY <1>7, <2>1, WrittenInto
  <2>3. frames' = Append(out, er)
    BY <1>1, <1>3, <1>5, TopFacts
  <2>4. ~nested => Straight(frames)
    BY DEF Walk
  <2> QED BY <1>3, <1>7, <2>2, <2>3, <2>4
<1>9. ASSUME ~late', ~bare', ~nested', ~buried'
      PROVE  Explained(fn', frames', body', hasTerminator')
  <2>1. ~late /\ ~hasTerminator /\ hasTerminator \in BOOLEAN
    BY <1>3, <1>9 DEF Underway, Flags
  <2>2. ~bare /\ ~nested /\ ~buried
    BY <1>3, <1>9
  <2>3. Explained(fn, frames, body, FALSE)
    BY <2>1, <2>2, StillPlain
  <2>4. Explained(IfElse(fn, fr.alt, fr.next), Append(out, er), <<>>, FALSE)
    <3>1. PICK f, fs, met : f = fn /\ fs = frames /\ met = body
      OBVIOUS
    <3>2. /\ f \in Bodies /\ f.ip \in All(f) /\ Held(fs, f) /\ fs # <<>>
          /\ IsProgram(met) /\ Explained(f, fs, met, FALSE)
      BY <1>1, <2>3, <3>1, WalkFacts DEF Walk, Written
    <3>3. /\ fr = fs[Len(fs)] /\ fr.kind = "if" /\ er.then = met
          /\ fr.alt # f.ip /\ f.code[fr.alt] = <<>>
      BY <1>1, <1>2, <1>4, <3>1, TopFacts
    <3>4. Explained(IfElse(f, fr.alt, fr.next),
                    Append(SubSeq(fs, 1, Len(fs) - 1), er), <<>>, FALSE)
      BY ONLY <1>4, <1>7, <3>2, <3>3, ElseExplained
    <3> QED BY <1>5, <3>1, <3>4
  <2>5. hasTerminator' = FALSE
    BY <1>3, <2>1
  <2>6. frames' = Append(out, er)
    BY <1>1, <1>3, <1>5, TopFacts
  <2> QED BY <1>3, <2>4, <2>5, <2>6
<1> QED BY <1>3, <1>8, <1>9 DEF Walk

(* What leaving does to the frames and to what was met.                    *)
LEMMA Leaves ==
  ASSUME Underway, Walk, frames # <<>>, NEW t, t.kind \in Kinds,
         frames' = Outer, body' = Append(Top.outer, t), nested' = nested
  PROVE  Written(frames', body') /\ (~nested' => Straight(frames'))
<1>1. PICK fr, out : fr = Top /\ out = SubSeq(frames, 1, Len(frames) - 1)
  OBVIOUS
<1>2. /\ Written(out, Append(fr.outer, t)) /\ (Straight(frames) => Straight(out))
  <2>1. fr = frames[Len(frames)] /\ Held(frames, fn) /\ Written(frames, body)
    BY <1>1, WalkFacts DEF Top, Walk
  <2> QED BY ONLY <1>1, <2>1, frames # <<>>, t.kind \in Kinds, WrittenOut
<1>3. frames' = out /\ body' = Append(fr.outer, t)
  BY <1>1, TopFacts
<1>4. ~nested => Straight(frames)
  BY DEF Walk
<1> QED BY <1>2, <1>3, <1>4

LEMMA EndElseWalk == Underway /\ Walk /\ EndElse => Walk'
<1> SUFFICES ASSUME Underway, Walk, EndElse PROVE Walk'
  OBVIOUS
<1>1. frames # <<>> /\ Top.kind = "else"
  BY DEF EndElse
<1>2. PICK fr : fr = Top
  OBVIOUS
<1>3. PICK t : t = Node(fr, body, <<>>)
  OBVIOUS
<1>4. /\ fn' = IfEnd(fn, fr.next, TRUE) /\ frames' = Outer
      /\ late' = (late \/ hasTerminator) /\ todo' = todo
      /\ hasTerminator' = hasTerminator /\ bare' = bare /\ buried' = buried
      /\ nested' = nested
  BY <1>2 DEF EndElse, Building, idle
<1>5. body' = Append(fr.outer, t)
  <2>1. t = IfTree(fr.then, body)
    BY <1>1, <1>2, <1>3 DEF Node, IfTree
  <2> QED BY <1>2, <2>1 DEF EndElse
<1>6. Written(frames', body') /\ (~nested' => Straight(frames'))
  BY <1>1, <1>2, <1>3, <1>4, <1>5, NodeKinds, Leaves
<1>7. ASSUME ~late', ~bare', ~nested', ~buried'
      PROVE  Explained(fn', frames', body', hasTerminator')
  <2>1. ~late /\ ~hasTerminator /\ hasTerminator \in BOOLEAN
    BY <1>4, <1>7 DEF Underway, Flags
  <2>2. ~bare /\ ~nested /\ ~buried
    BY <1>4, <1>7
  <2>3. Explained(fn, frames, body, FALSE) /\ Straight(frames)
    BY <2>1, <2>2, StillPlain DEF Walk
  <2>4. Explained(IfElse(fn, fr.next, fr.next), SubSeq(frames, 1, Len(frames) - 1),
                  Append(fr.outer, Node(fr, body, <<>>)), FALSE)
    <3>1. PICK f, fs, met : f = fn /\ fs = frames /\ met = body
      OBVIOUS
    <3>2. /\ f \in Bodies /\ f.ip \in All(f) /\ Held(fs, f) /\ fs # <<>>
          /\ IsProgram(met) /\ Explained(f, fs, met, FALSE)
          /\ \A l \in 1 .. Len(fs) : l < Len(fs) => fs[l].kind # "for"
      BY <1>1, <2>3, <3>1, WalkFacts DEF Walk, Written, Straight
    <3>3. /\ fr = fs[Len(fs)] /\ fr.kind = "else" /\ IsProgram(fr.outer)
          /\ fr.next # f.ip /\ f.code[fr.next] = <<>>
      BY <1>1, <1>2, <3>1, TopFacts
    <3>4. Explained(IfElse(f, fr.next, fr.next), SubSeq(fs, 1, Len(fs) - 1),
                    Append(fr.outer, Node(fr, met, <<>>)), FALSE)
      BY ONLY <3>2, <3>3, EndElseExplained
    <3> QED BY <3>1, <3>4
  <2>5. hasTerminator' = FALSE
    BY <1>4, <2>1
  <2>6. frames' = SubSeq(frames, 1, Len(frames) - 1)
    BY <1>1, <1>4, TopFacts
  <2>7. IfEnd(fn, fr.next, TRUE) = IfElse(fn, fr.next, fr.next)
    BY DEF IfEnd, IfElse
  <2> QED BY <1>3, <1>4, <1>5, <2>4, <2>5, <2>6, <2>7
<1> QED BY <1>4, <1>6, <1>7 DEF Walk

LEMMA EndIfWalk == Underway /\ Walk /\ EndIf => Walk'
<1> SUFFICES ASSUME Underway, Walk, EndIf PROVE Walk'
  OBVIOUS
<1>1. PICK t : t = IfTree(body, <<>>)
  OBVIOUS
<1>2. /\ frames # <<>> /\ frames' = Outer /\ body' = Append(Top.outer, t)
      /\ todo' = todo /\ bare' = TRUE /\ nested' = nested
  BY <1>1 DEF EndIf, Building, idle
<1>3. t.kind \in Kinds
  BY <1>1 DEF IfTree, Kinds
<1>4. Written(frames', body') /\ (~nested' => Straight(frames'))
  BY <1>2, <1>3, Leaves
<1> QED BY <1>2, <1>4 DEF Walk

LEMMA EndForWalk == Underway /\ Walk /\ EndFor => Walk'
<1> SUFFICES ASSUME Underway, Walk, EndFor PROVE Walk'
  OBVIOUS
<1>1. frames # <<>> /\ Top.kind = "for"
  BY DEF EndFor
<1>2. PICK fr : fr = Top
  OBVIOUS
<1>3. PICK t : t = Node(fr, body, <<>>)
  OBVIOUS
<1>4. /\ fn' = ForEnd(Emit(fn, Work(S!Done("step", fr.id))), fr.id, fr.next)
      /\ frames' = Outer
      /\ late' = (late \/ hasTerminator) /\ todo' = todo
      /\ hasTerminator' = hasTerminator /\ bare' = bare /\ buried' = buried
      /\ nested' = nested
  BY <1>2 DEF EndFor, Building, idle
<1>5. body' = Append(fr.outer, t)
  <2>1. t = [kind |-> "for", id |-> fr.id, body |-> body]
    BY <1>1, <1>2, <1>3 DEF Node, ForTree
  <2> QED BY <1>2, <2>1 DEF EndFor
<1>6. Written(frames', body') /\ (~nested' => Straight(frames'))
  BY <1>1, <1>2, <1>3, <1>4, <1>5, NodeKinds, Leaves
<1>7. ASSUME ~late', ~bare', ~nested', ~buried'
      PROVE  Explained(fn', frames', body', hasTerminator')
  <2>1. ~late /\ ~hasTerminator /\ hasTerminator \in BOOLEAN
    BY <1>4, <1>7 DEF Underway, Flags
  <2>2. ~bare /\ ~nested /\ ~buried
    BY <1>4, <1>7
  <2>3. Explained(fn, frames, body, FALSE) /\ Straight(frames)
    BY <2>1, <2>2, StillPlain DEF Walk
  <2>4. Explained(ForEnd(Emit(fn, Work(S!Done("step", fr.id))), fr.id, fr.next),
                  SubSeq(frames, 1, Len(frames) - 1),
                  Append(fr.outer, Node(fr, body, <<>>)), FALSE)
    <3>1. PICK f, fs, met : f = fn /\ fs = frames /\ met = body
      OBVIOUS
    <3>2. /\ f \in Bodies /\ f.ip \in All(f) /\ 1 \in All(f) /\ Held(fs, f) /\ fs # <<>>
          /\ IsProgram(met) /\ Explained(f, fs, met, FALSE)
          /\ \A l \in 1 .. Len(fs) : l < Len(fs) => fs[l].kind # "for"
      BY <1>1, <2>3, <3>1, WalkFacts DEF Walk, Written, Straight
    <3>3. /\ fr = fs[Len(fs)] /\ fr.kind = "for" /\ IsProgram(fr.outer) /\ fr.id \in Nat
          /\ fr.next # f.ip /\ f.code[fr.next] = <<>>
      BY <1>1, <1>2, <3>1, TopFacts
    <3>4. Explained(ForEnd(Emit(f, Work(S!Done("step", fr.id))), fr.id, fr.next),
                    SubSeq(fs, 1, Len(fs) - 1),
                    Append(fr.outer, Node(fr, met, <<>>)), FALSE)
      BY ONLY <3>2, <3>3, EndForExplained
    <3> QED BY <3>1, <3>4
  <2>5. hasTerminator' = FALSE
    BY <1>4, <2>1
  <2>6. frames' = SubSeq(frames, 1, Len(frames) - 1)
    BY <1>1, <1>4, TopFacts
  <2> QED BY <1>3, <1>4, <1>5, <2>4, <2>5, <2>6
<1> QED BY <1>4, <1>6, <1>7 DEF Walk

-----------------------------------------------------------------------------
(* At the end of the body nothing is still to be met.                      *)
LEMMA Completes ==
  ASSUME NEW f, InOrder(f), NEW met, IsProgram(met), NEW v \in BOOLEAN,
         NEW h \in BOOLEAN, v # h, NEW fs, fs = <<>>, Explained(f, fs, met, h)
  PROVE  LET g == FunctionEnd(f, v, h)
         IN  InOrder(g) /\ \E T : Flow(g, T) /\ Mark(T, 1, 1) = met
<1>1. f \in Bodies /\ f.ip \in All(f) /\ 1 \in All(f) /\ Len(fs) = 0
  BY DEF InOrder
<1>2. PICK F : F = [rest |-> [l \in 0 .. 0 |-> <<>>], whole |-> [l \in 0 .. 0 |-> met],
                    els |-> [l \in 0 .. 0 |-> <<>>], left |-> [l \in 0 .. 0 |-> <<>>]]
  OBVIOUS
<1>3. /\ F.rest[0] = <<>> /\ F.whole[0] = met /\ F.els[0] = <<>> /\ F.left[0] = <<>>
  BY <1>2
<1>4. Future(F, fs, met)
  <2>1. IsProgram(<<>>) /\ met = met \o <<>>
    BY ProgramEmpty
  <2>2. \A l \in 0 .. 0 : l = 0
    OBVIOUS
  <2>3. \A l \in 1 .. 0 : FALSE
    OBVIOUS
  <2> QED BY <1>1, <1>3, <2>1, <2>2, <2>3 DEF Future
<1>5. PICK T : Labelled(F, T, f, fs, h)
  BY <1>4 DEF Explained
<1>6. Flow(f, T) /\ Mark(T, 1, 1) = met
  BY <1>3, <1>5 DEF Labelled, Entry
<1>7. PICK g : g = FunctionEnd(f, v, h)
  OBVIOUS
<1>8. CASE h
  <2>1. g = f
    BY <1>7, <1>8 DEF FunctionEnd
  <2> QED BY <1>6, <1>7, <2>1
<1>9. CASE ~h
  <2>1. g = Emit(f, RetVoid)
    BY <1>7, <1>9 DEF FunctionEnd
  <2>2. PICK i \in Instrs : i = RetVoid /\ i.op = "retvoid"
    <3>1. 0 \in Nat /\ 0 \in Whats
      BY DEF Whats
    <3> QED BY <3>1, Instructions
  <2>3. /\ g \in Bodies /\ g.placed = f.placed /\ g.ip = f.ip /\ Len(g.code) = Len(f.code)
        /\ \A b \in All(f) \ {f.ip} : g.code[b] = f.code[b]
        /\ g.code[f.ip] = Append(f.code[f.ip], i)
    BY <1>1, <2>1, <2>2, Emits
  <2>4. InOrder(g)
    BY <2>3 DEF InOrder, All
  <2>5. Longer(f, g, i)
    <3>1. Len(f.code) \in Nat
      BY <1>1 DEF Bodies
    <3> QED BY <2>3, <3>1 DEF Longer, All
  <2>6. Mark(T, f.ip, End(f, f.ip)) = <<>>
    BY <1>1, <1>3, <1>5, <1>9 DEF Labelled, Cursor
  <2>7. Leads(g, T, i, f.ip, End(f, f.ip))
    BY <2>2, <2>6 DEF Leads
  <2>8. Flow(g, T)
    <3>1. Agree(f, T, T)
      BY DEF Agree
    <3> QED BY <1>1, <1>6, <2>3, <2>5, <2>7, <3>1, FlowGrows
  <2> QED BY <1>6, <1>7, <2>4, <2>8
<1> QED BY <1>8, <1>9

(* Where the instructions of a function in order go.                       *)
GoesOn(f, T, i, b, k) ==
  /\ i.op = "work" => /\ k + 1 \in 1 .. Len(f.code[b])
                      /\ Steps(Mark(T, b, k), i.what, Mark(T, b, k + 1))
  /\ i.op = "br" => /\ i.to[1] \in f.placed /\ 1 \in 1 .. Len(f.code[i.to[1]])
                    /\ Mark(T, i.to[1], 1) = Mark(T, b, k)
  /\ i.op = "condbr" =>
       \A holds \in BOOLEAN : \E c \in f.placed :
         /\ c = i.to[IF holds THEN 1 ELSE 2]
         /\ 1 \in 1 .. Len(f.code[c])
         /\ Steps(Mark(T, b, k), S!Tested(i.what, holds), Mark(T, c, 1))
  /\ i.op \in {"ret", "retvoid"} => Mark(T, b, k) = <<>>

LEMMA Onwards ==
  ASSUME NEW f, InOrder(f), NEW v, Verified(f, v), NEW T, Flow(f, T),
         NEW b \in f.placed, NEW k \in 1 .. Len(f.code[b]),
         NEW i, i = f.code[b][k]
  PROVE  GoesOn(f, T, i, b, k)
<1>1. f \in Bodies /\ f.placed \subseteq All(f)
  BY DEF InOrder
<1>2. \A c \in f.placed : f.code[c] \in Seq(Instrs) /\ 1 \in 1 .. Len(f.code[c])
  <2>1. ASSUME NEW c \in f.placed
        PROVE  f.code[c] \in Seq(Instrs) /\ 1 \in 1 .. Len(f.code[c])
    <3>1. f.code[c] \in Seq(Instrs)
      BY <1>1 DEF Bodies, All
    <3>2. f.code[c] # <<>>
      BY DEF Verified, Closed
    <3>3. Len(f.code[c]) \in Nat /\ Len(f.code[c]) # 0
      BY <3>1, <3>2, EmptySeq
    <3> QED BY <3>1, <3>3
  <2> QED BY <2>1
<1>3. IsTerminator(i) <=> k = Len(f.code[b])
  BY DEF Verified, Closed
<1>4. Leads(f, T, i, b, k)
  BY <1>1 DEF Flow
<1>5. \A j \in 1 .. Len(i.to) : i.to[j] \in f.placed
  BY DEF Verified, Lands
<1>6. ASSUME i.op = "work"
      PROVE  /\ k + 1 \in 1 .. Len(f.code[b])
             /\ Steps(Mark(T, b, k), i.what, Mark(T, b, k + 1))
  <2>1. k # Len(f.code[b])
    BY <1>3, <1>6 DEF IsTerminator, Terminators
  <2>2. Len(f.code[b]) \in Nat
    BY <1>2
  <2> QED BY <1>4, <1>6, <2>1, <2>2 DEF Leads
<1>7. ASSUME i.op = "br"
      PROVE  /\ i.to[1] \in f.placed /\ 1 \in 1 .. Len(f.code[i.to[1]])
             /\ Mark(T, i.to[1], 1) = Mark(T, b, k)
  <2>1. 1 \in 1 .. Len(i.to) /\ Mark(T, i.to[1], 1) = Mark(T, b, k)
    BY <1>4, <1>7 DEF Leads
  <2> QED BY <1>2, <1>5, <2>1
<1>8. ASSUME i.op = "condbr", NEW holds \in BOOLEAN
      PROVE  \E c \in f.placed :
               /\ c = i.to[IF holds THEN 1 ELSE 2]
               /\ 1 \in 1 .. Len(f.code[c])
               /\ Steps(Mark(T, b, k), S!Tested(i.what, holds), Mark(T, c, 1))
  <2>1. /\ 1 \in 1 .. Len(i.to) /\ 2 \in 1 .. Len(i.to)
        /\ Steps(Mark(T, b, k), S!Tested(i.what, TRUE), Mark(T, i.to[1], 1))
        /\ Steps(Mark(T, b, k), S!Tested(i.what, FALSE), Mark(T, i.to[2], 1))
    <3>1. /\ Len(i.to) = 2
          /\ Steps(Mark(T, b, k), S!Tested(i.what, TRUE), Mark(T, i.to[1], 1))
          /\ Steps(Mark(T, b, k), S!Tested(i.what, FALSE), Mark(T, i.to[2], 1))
      BY <1>4, <1>8 DEF Leads
    <3>2. 1 \in 1 .. Len(i.to) /\ 2 \in 1 .. Len(i.to)
      BY <3>1
    <3> QED BY <3>1, <3>2
  <2>2. CASE holds = TRUE
    <3>1. i.to[1] = i.to[IF holds THEN 1 ELSE 2] /\ i.to[1] \in f.placed
      BY <1>5, <2>1, <2>2
    <3> QED BY <1>2, <2>1, <2>2, <3>1
  <2>3. CASE holds = FALSE
    <3>1. i.to[2] = i.to[IF holds THEN 1 ELSE 2] /\ i.to[2] \in f.placed
      BY <1>5, <2>1, <2>3
    <3> QED BY <1>2, <2>1, <2>3, <3>1
  <2> QED BY <2>2, <2>3
<1>9. i.op \in {"ret", "retvoid"} => Mark(T, b, k) = <<>>
  BY <1>4 DEF Leads
<1> QED BY <1>6, <1>7, <1>8, <1>9 DEF GoesOn

(* The inductive invariant, of functions that are run.                     *)
Sound(T) == /\ InOrder(fn) /\ Verified(fn, void) /\ IsProgram(body)
            /\ Flow(fn, T) /\ Mark(T, 1, 1) = body
Along(T) == \E b \in fn.placed : \E k \in 1 .. Len(fn.code[b]) :
              at[1] = b /\ at[2] = k /\ todo = Mark(T, b, k)
RunsInv ==
  /\ IInv
  /\ pc = "building" => Walk
  /\ pc \in {"failed", "refused", "accepted"} => todo = S!Idle
  /\ pc = "accepted" => nested \/ buried \/ \E T : Sound(T)
  /\ pc = "running" => \E T : Sound(T) /\ Along(T)

LEMMA InitRuns == Init => RunsInv /\ S!SInit
<1> SUFFICES ASSUME Init PROVE RunsInv /\ S!SInit
  OBVIOUS
<1>1. /\ IInv /\ pc = "building" /\ frames = <<>> /\ body = <<>> /\ todo = S!Idle
      /\ hasTerminator = FALSE /\ fn = FunctionHead
  BY InitInv DEF Init
<1>2. S!SInit
  BY <1>1 DEF S!SInit
<1>3. Underway
  BY <1>1 DEF IInv
<1>4. PICK f, fs, met : f = fn /\ fs = frames /\ met = body
  OBVIOUS
<1>5. /\ f.ip = 1 /\ Len(f.code) = 1 /\ f.code[1] = <<>>
  BY <1>1, <1>4 DEF FunctionHead, At, Place, Create, NoBody
<1>6. fs = <<>> /\ Len(fs) = 0 /\ met = <<>> /\ IsProgram(met) /\ Written(fs, met)
  BY <1>1, <1>4, ProgramEmpty DEF Written
<1>7. ASSUME NEW F, Future(F, fs, met)
      PROVE  \E T : Labelled(F, T, f, fs, FALSE)
  <2>1. IsProgram(F.whole[0]) /\ F.whole[0] = F.left[0]
    <3>1. /\ F.whole[0] = met \o F.rest[0] /\ F.left[0] = F.rest[0]
          /\ IsProgram(F.rest[0]) /\ IsProgram(F.whole[0])
      BY <1>6, <1>7 DEF Future
    <3> QED BY <1>6, <3>1, ProgramEmpty
  <2>2. PICK q, T : q = F.whole[0] /\ T = [x \in Positions |-> q]
    OBVIOUS
  <2>3. Mark(T, 1, 1) = q
    BY <2>2 DEF Mark, Positions
  <2>4. Flow(f, T)
    <3>1. \A b \in All(f) : b = 1 /\ 1 .. Len(f.code[b]) = {}
      BY <1>5 DEF All
    <3> QED BY <3>1 DEF Flow
  <2>5. Entry(F, T)
    BY <2>2, <2>3 DEF Entry
  <2>6. Exits(F, T, fs) /\ Loop(F, T, f, fs)
    BY <1>6 DEF Exits, Loop
  <2>7. Cursor(F, T, f, fs)
    <3>1. End(f, f.ip) = 1
      BY <1>5 DEF End
    <3> QED BY <1>5, <1>6, <2>1, <2>2, <2>3, <3>1 DEF Cursor
  <2> QED BY <2>4, <2>5, <2>6, <2>7 DEF Labelled
<1>8. Explained(fn, frames, body, FALSE)
  BY <1>4, <1>7 DEF Explained
<1>9. Walk
  <2>1. Straight(frames)
    BY <1>1 DEF Straight
  <2> QED BY <1>1, <1>4, <1>6, <1>8, <2>1 DEF Walk
<1> QED BY <1>1, <1>2, <1>9 DEF RunsInv

(* The events of a function under construction leave the run to come.      *)
WalkStep == \/ Statement \/ Return \/ BuriedReturn \/ EnterIf \/ Else \/ EndElse
            \/ EndIf \/ EnterFor \/ EndFor
Followed == [S!Write \/ S!Start \/ S!Perform \/ S!Finish]_(S!svars)

LEMMA WalkRuns == RunsInv /\ WalkStep => RunsInv' /\ Followed
<1> SUFFICES ASSUME RunsInv, WalkStep PROVE RunsInv' /\ Followed
  OBVIOUS
<1>1. pc = "building" /\ pc' = "building" /\ todo' = todo
  BY DEF WalkStep, Statement, Return, BuriedReturn, EnterIf, Else, EndElse, EndIf,
         EnterFor, EndFor, Building, idle
<1>2. Underway /\ Walk
  BY <1>1 DEF RunsInv, IInv
<1>3. Walk'
  BY <1>2, StatementWalk, ReturnWalk, EnterIfWalk, ElseWalk, EndElseWalk, EndIfWalk,
     EnterForWalk, EndForWalk DEF WalkStep
<1>4. IInv'
  BY NextInv DEF RunsInv, WalkStep, Next
<1>5. S!Write
  BY <1>1, <1>2 DEF S!Write, Walk
<1> QED BY <1>1, <1>3, <1>4, <1>5 DEF RunsInv, Followed

LEMMA FailRuns == RunsInv /\ Fail => RunsInv' /\ Followed
<1> SUFFICES ASSUME RunsInv, Fail PROVE RunsInv' /\ Followed
  OBVIOUS
<1>1. pc = "building" /\ pc' = "failed" /\ todo' = todo /\ body' = body
  BY DEF Fail, idle
<1>2. todo = S!Idle
  BY <1>1 DEF RunsInv, Walk
<1>3. IInv'
  BY NextInv DEF RunsInv, Next
<1> QED BY <1>1, <1>2, <1>3 DEF RunsInv, Followed, S!Write

LEMMA EndFunctionRuns == RunsInv /\ EndFunction => RunsInv' /\ Followed
<1> SUFFICES ASSUME RunsInv, EndFunction PROVE RunsInv' /\ Followed
  OBVIOUS
<1>1. /\ pc = "building" /\ pc' \in {"accepted", "refused"} /\ todo' = todo
      /\ frames = <<>> /\ body' = body /\ void' = void
      /\ nested' = nested /\ buried' = buried
      /\ fn' = FunctionEnd(fn, void, hasTerminator)
      /\ pc' = "accepted" => Verified(fn', void)
  BY DEF EndFunction, idle
<1>2. Underway /\ Walk /\ todo = S!Idle
  BY <1>1 DEF RunsInv, IInv, Walk
<1>3. IInv'
  BY NextInv DEF RunsInv, Next
<1>4. ASSUME pc' = "accepted", ~nested, ~buried PROVE \E T : Sound(T)'
  <2>1. ~bare /\ ~late /\ (void # hasTerminator)
    <3>1. VerifierExplained'
      BY <1>3, Consequences, PTL
    <3>2. ~bare' /\ ~late' /\ (void' # hasTerminator')
      BY <1>4, <3>1 DEF VerifierExplained
    <3> QED BY <3>2 DEF EndFunction
  <2>2. PICK v \in BOOLEAN, h \in BOOLEAN : v = void /\ h = hasTerminator
    BY <1>2 DEF Underway, Flags
  <2>3. PICK f, fs, met : f = fn /\ fs = frames /\ met = body
    OBVIOUS
  <2>4. Explained(f, fs, met, h)
    BY <1>2, <1>4, <2>1, <2>2, <2>3 DEF Walk
  <2>5. InOrder(f) /\ IsProgram(met) /\ fs = <<>>
    <3>1. InOrder(fn)
      BY <1>2, UnderwayFacts DEF InOrder
    <3> QED BY <1>1, <1>2, <2>3, <3>1 DEF Walk, Written
  <2>6. v # h
    BY <2>1, <2>2
  <2>7. PICK g : g = FunctionEnd(f, v, h)
    OBVIOUS
  <2>8. InOrder(g) /\ \E T : Flow(g, T) /\ Mark(T, 1, 1) = met
    BY ONLY <2>4, <2>5, <2>6, <2>7, Completes
  <2>9. fn' = g /\ body' = met /\ Verified(g, void')
    BY <1>1, <1>4, <2>2, <2>3, <2>7
  <2> QED BY <2>5, <2>8, <2>9 DEF Sound
<1>5. pc' = "accepted" => nested' \/ buried' \/ \E T : Sound(T)'
  BY <1>1, <1>4
<1> QED BY <1>1, <1>2, <1>3, <1>5 DEF RunsInv, Followed, S!Write

(* An event of the run is a step of the program.                           *)
LEMMA StepsPerform ==
  ASSUME NEW e, Steps(todo, e, todo'), body' = body
  PROVE  S!Perform
<1>1. S!Running
  BY ProgramRuns DEF Steps, S!Running
<1>2. todo # <<>> /\ todo' # S!Stuck
  BY ProgramRuns DEF Steps
<1>3. PICK role \in Roles, holds \in BOOLEAN :
        e = [event |-> role, id |-> Head(todo).id, holds |-> holds]
  BY DEF Steps
<1>4. todo' = S!Advance(todo, [event |-> role, id |-> Head(todo).id, holds |-> holds])
  BY <1>3 DEF Steps
<1> QED BY <1>1, <1>2, <1>3, <1>4 DEF S!Perform, Roles

LEMMA StartRuns == ~Nested /\ ~Buried /\ RunsInv /\ Run => RunsInv' /\ Followed
<1> SUFFICES ASSUME ~Nested, ~Buried, RunsInv, Run PROVE RunsInv' /\ Followed
  OBVIOUS
<1>1. /\ pc = "accepted" /\ pc' = "running" /\ ~nested /\ ~buried
      /\ at' = <<1, 1>> /\ todo' = body
      /\ fn' = fn /\ void' = void /\ body' = body
  BY DEF Run, built
<1>2. todo = S!Idle
  BY <1>1 DEF RunsInv
<1>3. PICK T : Sound(T)
  BY <1>1 DEF RunsInv
<1>4. /\ 1 \in fn.placed /\ 1 \in 1 .. Len(fn.code[1])
  <2>1. 1 \in fn.placed /\ fn \in Bodies /\ 1 \in All(fn)
    BY <1>3 DEF Sound, InOrder
  <2>2. fn.code[1] \in Seq(Instrs)
    BY <2>1 DEF Bodies, All
  <2>3. fn.code[1] # <<>>
    BY <1>3, <2>1 DEF Sound, Verified, Closed
  <2>4. Len(fn.code[1]) \in Nat /\ Len(fn.code[1]) # 0
    BY <2>2, <2>3, EmptySeq
  <2> QED BY <2>1, <2>4
<1>5. Sound(T)'
  BY <1>1, <1>3 DEF Sound
<1>6. Along(T)'
  <2>1. at'[1] = 1 /\ at'[2] = 1 /\ todo' = Mark(T, 1, 1)
    BY <1>1, <1>3 DEF Sound
  <2> QED BY <1>1, <1>4, <2>1 DEF Along
<1>7. IInv'
  BY NextInv DEF RunsInv, Next
<1>8. S!Start
  BY <1>1, <1>2 DEF S!Start
<1> QED BY <1>1, <1>5, <1>6, <1>7, <1>8 DEF RunsInv, Followed

LEMMA OneRuns == RunsInv /\ (RunWork \/ RunBr \/ RunCondBr \/ RunRet) => RunsInv' /\ Followed
<1> SUFFICES ASSUME RunsInv, RunWork \/ RunBr \/ RunCondBr \/ RunRet
             PROVE  RunsInv' /\ Followed
  OBVIOUS
<1>1. /\ pc = "running" /\ fn' = fn /\ void' = void /\ body' = body
  BY DEF RunWork, RunBr, RunCondBr, RunRet, Running, built
<1>2. PICK T : Sound(T) /\ Along(T)
  BY <1>1 DEF RunsInv
<1>0. PICK b \in fn.placed : \E k \in 1 .. Len(fn.code[b]) :
        at[1] = b /\ at[2] = k /\ todo = Mark(T, b, k)
  BY <1>2 DEF Along
<1>3. PICK k \in 1 .. Len(fn.code[b]) :
        at[1] = b /\ at[2] = k /\ todo = Mark(T, b, k)
  BY <1>0
<1>4. PICK i : i = fn.code[b][k]
  OBVIOUS
<1>5. Instr = i
  BY <1>3, <1>4 DEF Instr
<1>6. GoesOn(fn, T, i, b, k)
  <2>1. PICK f, v : f = fn /\ v = void
    OBVIOUS
  <2>2. /\ InOrder(f) /\ Verified(f, v) /\ Flow(f, T) /\ b \in f.placed
        /\ k \in 1 .. Len(f.code[b]) /\ i = f.code[b][k]
    BY <1>2, <1>3, <1>4, <2>1 DEF Sound
  <2>3. GoesOn(f, T, i, b, k)
    BY ONLY <2>2, Onwards
  <2> QED BY <2>1, <2>3
<1>7. Sound(T)'
  BY <1>1, <1>2 DEF Sound
<1>8. IInv'
  BY NextInv DEF RunsInv, Next
<1>9. CASE RunWork
  <2>1. /\ i.op = "work" /\ pc' = "running" /\ at' = <<at[1], at[2] + 1>>
        /\ todo' = S!Advance(todo, i.what)
    BY <1>1, <1>5, <1>9 DEF RunWork
  <2>2. Steps(todo, i.what, todo') /\ todo' = Mark(T, b, k + 1)
    BY <1>3, <1>6, <2>1 DEF Steps, GoesOn
  <2>3. Along(T)'
    <3>1. k + 1 \in 1 .. Len(fn'.code[b]) /\ b \in fn'.placed
      BY <1>1, <1>6, <2>1 DEF GoesOn
    <3>2. at'[1] = b /\ at'[2] = k + 1
      BY <1>3, <2>1
    <3> QED BY <2>2, <3>1, <3>2 DEF Along
  <2> QED BY <1>1, <1>7, <1>8, <2>1, <2>2, <2>3, StepsPerform DEF RunsInv, Followed
<1>10. CASE RunBr
  <2>1. i.op = "br" /\ pc' = "running" /\ at' = <<i.to[1], 1>> /\ todo' = todo
    BY <1>1, <1>5, <1>10 DEF RunBr
  <2>2. Along(T)'
    <3>1. PICK c : c = i.to[1]
      OBVIOUS
    <3>2. c \in fn'.placed /\ 1 \in 1 .. Len(fn'.code[c]) /\ todo' = Mark(T, c, 1)
      BY <1>1, <1>3, <1>6, <2>1, <3>1 DEF GoesOn
    <3>3. at'[1] = c /\ at'[2] = 1
      BY <2>1, <3>1
    <3> QED BY <3>2, <3>3 DEF Along
  <2> QED BY <1>1, <1>7, <1>8, <2>1, <2>2 DEF RunsInv, Followed, S!svars
<1>11. CASE RunCondBr
  <2>1. PICK holds \in BOOLEAN :
          /\ i.op = "condbr" /\ pc' = "running"
          /\ at' = <<i.to[IF holds THEN 1 ELSE 2], 1>>
          /\ todo' = S!Advance(todo, S!Tested(i.what, holds))
    BY <1>1, <1>5, <1>11 DEF RunCondBr
  <2>2. PICK c \in fn.placed :
          /\ c = i.to[IF holds THEN 1 ELSE 2]
          /\ 1 \in 1 .. Len(fn.code[c])
          /\ Steps(Mark(T, b, k), S!Tested(i.what, holds), Mark(T, c, 1))
    BY <1>6, <2>1 DEF GoesOn
  <2>3. Steps(todo, S!Tested(i.what, holds), todo') /\ todo' = Mark(T, c, 1)
    BY <1>3, <2>1, <2>2 DEF Steps
  <2>4. Along(T)'
    <3>1. at'[1] = c /\ at'[2] = 1
      BY <2>1, <2>2
    <3> QED BY <1>1, <2>2, <2>3, <3>1 DEF Along
  <2> QED BY <1>1, <1>7, <1>8, <2>1, <2>3, <2>4, StepsPerform DEF RunsInv, Followed
<1>12. CASE RunRet
  <2>1. /\ i.op \in {"ret", "retvoid"} /\ pc' = "returned"
        /\ todo' = IF todo = <<>> THEN S!Over ELSE S!Stuck
    BY <1>5, <1>12 DEF RunRet
  <2>2. todo = <<>>
    BY <1>3, <1>6, <2>1 DEF GoesOn
  <2>3. S!Finish
    BY <1>1, <2>1, <2>2 DEF S!Finish
  <2> QED BY <1>8, <2>1, <2>3 DEF RunsInv, Followed
<1> QED BY <1>9, <1>10, <1>11, <1>12

LEMMA StutterRuns == RunsInv /\ UNCHANGED vars => RunsInv' /\ Followed
<1> SUFFICES ASSUME RunsInv, UNCHANGED vars PROVE RunsInv' /\ Followed
  OBVIOUS
<1>1. /\ fn' = fn /\ frames' = frames /\ void' = void /\ pc' = pc /\ body' = body
      /\ hasTerminator' = hasTerminator /\ late' = late /\ bare' = bare
      /\ nested' = nested /\ buried' = buried /\ at' = at /\ todo' = todo
  BY DEF vars
<1>2. IInv'
  BY NextInv DEF RunsInv
<1>3. pc' = "building" => Walk'
  BY <1>1 DEF RunsInv, Walk
<1>4. ASSUME pc' = "accepted" PROVE nested' \/ buried' \/ \E T : Sound(T)'
  BY <1>1, <1>4 DEF RunsInv, Sound
<1>5. ASSUME pc' = "running" PROVE \E T : Sound(T)' /\ Along(T)'
  BY <1>1, <1>5 DEF RunsInv, Sound, Along
<1>6. pc' \in {"failed", "refused", "accepted"} => todo' = S!Idle
  BY <1>1 DEF RunsInv
<1> QED BY <1>1, <1>2, <1>3, <1>4, <1>5, <1>6 DEF RunsInv, Followed, S!svars

(* Functions without control flow inside a loop and without a return       *)
(* inside a branch or loop, of any length and depth, do when they run what *)
(* the program says: each statement and each test, in that order.          *)
THEOREM Refinement ==
  ASSUME ~Nested, ~Buried
  PROVE  Spec => ImplementsStructured
<1>1. Init => RunsInv /\ S!SInit
  BY InitRuns
<1>2. RunsInv /\ [Next]_vars => RunsInv' /\ Followed
  BY WalkRuns, FailRuns, EndFunctionRuns, StartRuns, OneRuns, StutterRuns
     DEF Next, WalkStep
<1>3. RunsInv /\ [Next]_vars => RunsInv' /\ [S!Write \/ S!Start \/ S!Perform \/ S!Finish]_(S!svars)
  BY <1>2 DEF Followed
<1> QED BY <1>1, <1>3, PTL DEF Spec, ImplementsStructured, S!SSpec
=============================================================================
