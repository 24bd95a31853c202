---------------------------- MODULE ParserProofs ----------------------------
(***************************************************************************)
(* Proofs about Parser, for every text, every history of texts and every   *)
(* depth of the calls.  They hold of the Call that is Dispatch, which is   *)
(* how the instances close the recursion (Recursion); induction is over    *)
(* the room on the stack.                                                  *)
(***************************************************************************)
EXTENDS Parser, LexerOpsProofs

(* Call is what the methods of the parser do, wherever the stack has room  *)
(* for a number of calls.                                                  *)
Recursion ==
  \A m, s, x : s.room \in Nat => Call(m, s, x) = Dispatch(m, s, x)

-----------------------------------------------------------------------------
(***************************************************************************)
(* The lexer under the parser.                                             *)
(***************************************************************************)

(* A lexer that reads a text, with at most three tokens looked ahead, none *)
(* of which ends the text.                                                 *)
Reading(lx) ==
  /\ lx \in LexerState
  /\ lx.start # 0
  /\ lx.start <= Len(lx.data) + 1
  /\ Len(lx.buf) <= 3
  /\ \A i \in 1 .. Len(lx.buf) : lx.buf[i].tok \notin EndTokens

(* Nothing is left to read: gettok finds the same end again and again. *)
Endless == {"end", "unmatched", "stray"}
AtEnd(lx) ==
  /\ lx.cur.tok \in EndTokens
  /\ lx.buf = <<>>
  /\ ClassAt(lx.data, SkipNewLines(lx.data, lx.start)) \in Endless

LEMMA GettokReads ==
  ASSUME NEW lx, Reading(lx)
  PROVE  LET g == Gettok(lx)
         IN  /\ Reading(g)
             /\ g.data = lx.data
             /\ Len(g.buf) = IF lx.buf = <<>> THEN 0 ELSE Len(lx.buf) - 1
             /\ AtEnd(lx) => AtEnd(g) /\ ~g.thrown
             /\ g.cur.tok \in EndTokens /\ ~g.thrown => AtEnd(g)
<1> DEFINE g == Gettok(lx)
           i == SkipNewLines(lx.data, lx.start)
<1> SUFFICES /\ Reading(g)
             /\ g.data = lx.data
             /\ Len(g.buf) = IF lx.buf = <<>> THEN 0 ELSE Len(lx.buf) - 1
             /\ AtEnd(lx) => AtEnd(g) /\ ~g.thrown
             /\ g.cur.tok \in EndTokens /\ ~g.thrown => AtEnd(g)
  OBVIOUS
<1>1. /\ lx \in LexerState /\ lx.start # 0 /\ lx.start <= Len(lx.data) + 1
      /\ lx.data \in Seq(Lexeme) /\ lx.start \in Nat /\ lx.cur \in MovableToken
      /\ lx.buf \in Seq(MovableToken) /\ Len(lx.buf) \in Nat
      /\ Len(lx.data) \in Nat
  BY LenProperties DEF Reading, LexerState
<1>2. g \in LexerState /\ g.data = lx.data /\ g.start # 0
      /\ g.start <= Len(g.data) + 1
  BY <1>1, GettokType
<1>3. CASE lx.buf # <<>>
  <2>1. g.cur = Head(lx.buf) /\ g.buf = Tail(lx.buf)
    BY <1>1, <1>3, GettokPops
  <2>2. /\ Head(lx.buf) = lx.buf[1] /\ 1 \in 1 .. Len(lx.buf)
        /\ Len(Tail(lx.buf)) = Len(lx.buf) - 1
        /\ \A j \in 1 .. Len(Tail(lx.buf)) : Tail(lx.buf)[j] = lx.buf[j + 1]
    BY <1>1, <1>3, HeadTailProperties, EmptySeq
  <2>3. g.cur.tok \notin EndTokens
    BY <2>1, <2>2 DEF Reading
  <2>4. \A j \in 1 .. Len(g.buf) : g.buf[j].tok \notin EndTokens
    <3> SUFFICES ASSUME NEW j \in 1 .. Len(g.buf)
                 PROVE  g.buf[j].tok \notin EndTokens
      OBVIOUS
    <3>1. j + 1 \in 1 .. Len(lx.buf) /\ g.buf[j] = lx.buf[j + 1]
      BY <1>1, <2>1, <2>2
    <3> QED BY <3>1 DEF Reading
  <2>5. Len(g.buf) = Len(lx.buf) - 1
    BY <2>1, <2>2
  <2> HIDE DEF g
  <2> QED BY <1>1, <1>2, <1>3, <2>3, <2>4, <2>5 DEF Reading, AtEnd
<1>4. CASE lx.buf = <<>>
  <2>1. /\ g.buf = <<>> /\ g.cur = Scan(lx.data, lx.cur, lx.start)
        /\ g.start = ScanEnd(lx.data, i)
        /\ g.thrown = Throws(lx.data, lx.start)
    BY <1>1, <1>4, GettokScans
  <2>2. Len(g.buf) = 0 /\ Reading(g)
    BY <1>2, <2>1 DEF Reading
  <2>3. SkipNewLines(lx.data, i) = i
    BY <1>1, SkipNewLinesIdempotent
  <2>4. g.cur = ScanAt(lx.data, lx.cur, i)
        /\ g.thrown = (ClassAt(lx.data, i) = "overflow")
    BY <1>1, <2>1 DEF Scan, Throws
  <2>5. ASSUME ClassAt(lx.data, i) \in Endless
        PROVE  /\ g.start = i /\ ~g.thrown
               /\ ClassAt(g.data, SkipNewLines(g.data, g.start)) \in Endless
    BY <1>2, <2>1, <2>3, <2>4, <2>5 DEF ScanEnd, Consumed, Endless
  <2>6. ASSUME AtEnd(lx) PROVE AtEnd(g) /\ ~g.thrown
    <3>1. ClassAt(lx.data, i) \in Endless /\ lx.cur.tok \in EndTokens
      BY <2>6 DEF AtEnd
    <3>2. g.cur.tok \in EndTokens
      BY <1>1, <2>4, <3>1 DEF ScanAt, Endless, EndTokens, MovableToken
    <3> QED BY <2>1, <2>5, <3>1, <3>2 DEF AtEnd
  <2>7. ASSUME g.cur.tok \in EndTokens, ~g.thrown PROVE AtEnd(g)
    <3>1. ClassAt(lx.data, i) \in Endless
      <4>1. ClassAt(lx.data, i) \in Classes \cup {"end"}
        <5>1. i \in 1 .. Len(lx.data) => lx.data[i] \in Lexeme
          BY <1>1, ElementOfSeq
        <5> HIDE DEF i
        <5> QED BY <5>1 DEF ClassAt, Lexeme
      <4>2. ClassAt(lx.data, i) # "overflow"
        BY <2>4, <2>7
      <4>3. CASE ClassAt(lx.data, i) = "word"
        <5> DEFINE w == WordToken(lx.data[i].text)
        <5>1. w \notin EndTokens
          BY WordTokenInTokens
        <5>2. g.cur.tok = w
          BY <1>1, <2>4, <4>3 DEF ScanAt, MovableToken
        <5> QED BY <2>7, <5>1, <5>2
      <4>4. CASE ClassAt(lx.data, i) = "number"
        BY <1>1, <2>4, <2>7, <4>4 DEF ScanAt, MovableToken, EndTokens
      <4>5. CASE ClassAt(lx.data, i) = "malformed"
        BY <1>1, <2>4, <2>7, <4>5 DEF ScanAt, MovableToken, EndTokens
      <4>6. CASE ClassAt(lx.data, i) = "newline"
        <5>1. Skipped(lx.data, lx.start, i)
          BY <1>1, SkipNewLinesStops
        <5> QED BY <1>1, <4>6, <5>1 DEF Skipped, ClassAt
      <4> QED BY <4>1, <4>2, <4>3, <4>4, <4>5, <4>6 DEF Classes, Endless
    <3> QED BY <2>1, <2>5, <2>7, <3>1 DEF AtEnd
  <2> HIDE DEF g
  <2> QED BY <1>2, <1>4, <2>2, <2>6, <2>7
<1> QED BY <1>3, <1>4

(* A look-ahead that has made k turns since the lexer was lx. *)
Turned(lx, k, a) ==
  /\ Reading(a.lex)
  /\ a.lex.data = lx.data
  /\ a.ok \in BOOLEAN
  /\ a.ok => /\ ~AtEnd(lx) \/ k = 0
             /\ ~a.lex.thrown \/ k = 0
             /\ a.temp \in Seq(MovableToken) /\ Len(a.temp) = k
             /\ \A i \in 1 .. k : a.temp[i].tok \notin EndTokens
             /\ Len(a.lex.buf) = IF Len(lx.buf) <= k THEN 0 ELSE Len(lx.buf) - k
             /\ k = 0 => a.lex = lx
  /\ ~a.ok => a.lex.thrown \/ AtEnd(a.lex)

LEMMA TurnTurns ==
  ASSUME NEW lx, Reading(lx), NEW k \in Nat, NEW a, Turned(lx, k, a)
  PROVE  Turned(lx, k + 1, Turn(a))
<1>1. Len(lx.buf) \in Nat
  BY LenProperties DEF Reading, LexerState
<1>2. CASE ~a.ok
  BY <1>2 DEF Turned, Turn
<1>3. CASE a.ok
  <2> DEFINE l == Gettok(a.lex)
             t == Append(a.temp, l.cur)
  <2>1. /\ Reading(l) /\ l.data = lx.data
        /\ Len(l.buf) = IF a.lex.buf = <<>> THEN 0 ELSE Len(a.lex.buf) - 1
        /\ AtEnd(a.lex) => AtEnd(l) /\ ~l.thrown
        /\ l.cur.tok \in EndTokens /\ ~l.thrown => AtEnd(l)
    BY GettokReads DEF Turned
  <2>2. Turn(a) = [lex |-> l, temp |-> t,
                   ok |-> ~l.thrown /\ l.cur.tok \notin EndTokens]
    BY <1>3 DEF Turn, Read
  <2>3. l.cur \in MovableToken /\ a.temp \in Seq(MovableToken) /\ Len(a.temp) = k
    BY <1>3, <2>1 DEF Turned, Reading, LexerState
  <2>4. /\ t \in Seq(MovableToken) /\ Len(t) = k + 1 /\ t[k + 1] = l.cur
        /\ \A i \in 1 .. k : t[i] = a.temp[i]
    BY <2>3, AppendProperties
  <2>5. a.lex.buf = <<>> <=> Len(a.lex.buf) = 0
    BY EmptySeq DEF Turned, Reading, LexerState
  <2>6. Len(l.buf) = IF Len(lx.buf) <= k + 1 THEN 0 ELSE Len(lx.buf) - (k + 1)
    <3>1. Len(a.lex.buf) = IF Len(lx.buf) <= k THEN 0 ELSE Len(lx.buf) - k
      BY <1>3 DEF Turned
    <3>2. Len(l.buf) = IF Len(a.lex.buf) = 0 THEN 0 ELSE Len(a.lex.buf) - 1
      BY <2>1, <2>5
    <3> QED BY <1>1, <3>1, <3>2
  <2> HIDE DEF l, t
  <2>7. ASSUME ~l.thrown, l.cur.tok \notin EndTokens
        PROVE  \A i \in 1 .. k + 1 : t[i].tok \notin EndTokens
    <3> SUFFICES ASSUME NEW i \in 1 .. k + 1 PROVE t[i].tok \notin EndTokens
      OBVIOUS
    <3>1. CASE i = k + 1
      BY <2>4, <2>7, <3>1
    <3>2. CASE i \in 1 .. k
      BY <1>3, <2>4, <3>2 DEF Turned
    <3> QED BY <3>1, <3>2
  <2>8. ASSUME ~l.thrown, l.cur.tok \notin EndTokens PROVE ~AtEnd(lx)
    <3>1. CASE k = 0
      <4>1. a.lex = lx
        BY <1>3, <3>1 DEF Turned
      <4> QED BY <2>1, <2>8, <4>1 DEF AtEnd
    <3> QED BY <1>3, <3>1 DEF Turned
  <2>9. k + 1 # 0
    OBVIOUS
  <2>10. l.thrown \/ l.cur.tok \in EndTokens => l.thrown \/ AtEnd(l)
    BY <2>1
  <2>11. Turn(a).lex = l /\ Turn(a).temp = t
         /\ Turn(a).ok = (~l.thrown /\ l.cur.tok \notin EndTokens)
    BY <2>2
  <2> QED BY <2>1, <2>4, <2>6, <2>7, <2>8, <2>9, <2>10, <2>11 DEF Turned
<1> QED BY <1>2, <1>3 DEF Turned

(* A look-ahead of two or three tokens, of which no more were buffered:    *)
(* either it leaves them all buffered, or the text ends (or a literal      *)
(* overflows).                                                             *)
LEMMA LookAheadReads ==
  ASSUME NEW lx, Reading(lx), NEW n \in {2, 3}, Len(lx.buf) <= n
  PROVE  LET a == lookAhead(lx, n)
         IN  /\ Reading(a.lex)
             /\ a.lex.data = lx.data
             /\ a.ok \in BOOLEAN
             /\ a.ok => /\ ~a.lex.thrown /\ ~AtEnd(lx)
                        /\ Len(a.lex.buf) = n /\ a.lex.cur = lx.cur
             /\ ~a.ok => a.lex.thrown \/ AtEnd(a.lex)
<1> DEFINE t == Turns(lx, n)
           l == [t.lex EXCEPT !.buf = @ \o t.temp, !.cur = lx.cur]
<1>1. /\ lx \in LexerState /\ lx.cur \in MovableToken /\ Len(lx.buf) \in Nat
      /\ lx.buf \in Seq(MovableToken)
  BY LenProperties DEF Reading, LexerState
<1>2. Turned(lx, n, t)
  <2> DEFINE a0 == [lex |-> lx, temp |-> <<>>, ok |-> TRUE]
  <2>1. /\ a0.lex = lx /\ a0.temp = <<>> /\ a0.ok = TRUE
        /\ a0.temp \in Seq(MovableToken) /\ Len(a0.temp) = 0
    OBVIOUS
  <2>2. Turned(lx, 0, a0)
    BY <1>1, <2>1 DEF Turned
  <2> HIDE DEF a0
  <2>3. Turned(lx, 1, Turn(a0))
    <3>1. Turned(lx, 0 + 1, Turn(a0))
      BY <2>2, TurnTurns
    <3> QED BY <3>1
  <2>4. Turned(lx, 2, Turn(Turn(a0)))
    <3>1. Turned(lx, 1 + 1, Turn(Turn(a0)))
      BY <2>3, TurnTurns
    <3> QED BY <3>1
  <2>5. Turned(lx, 3, Turn(Turn(Turn(a0))))
    <3>1. Turned(lx, 2 + 1, Turn(Turn(Turn(a0))))
      BY <2>4, TurnTurns
    <3> QED BY <3>1
  <2>6. t = IF n = 2 THEN Turn(Turn(a0)) ELSE Turn(Turn(Turn(a0)))
    BY DEF Turns, Rest, a0
  <2> HIDE DEF t
  <2> QED BY <2>4, <2>5, <2>6
<1>3. lookAhead(lx, n) = [ok |-> t.ok, lex |-> IF t.ok THEN l ELSE t.lex]
  BY DEF lookAhead, Buffered
<1>4. CASE t.ok
  <2>1. /\ Reading(t.lex) /\ t.lex.data = lx.data /\ ~t.lex.thrown
        /\ t.lex \in LexerState /\ ~AtEnd(lx)
        /\ t.temp \in Seq(MovableToken) /\ Len(t.temp) = n
        /\ \A i \in 1 .. n : t.temp[i].tok \notin EndTokens
        /\ Len(t.lex.buf) = 0 /\ t.lex.buf \in Seq(MovableToken)
    <3>1. Len(lx.buf) <= n /\ n # 0
      OBVIOUS
    <3> HIDE DEF t
    <3> QED BY <1>2, <1>4, <3>1 DEF Turned, Reading, LexerState
  <2> HIDE DEF t
  <2>2. t.lex.buf \o t.temp = t.temp
    <3>1. t.lex.buf = <<>>
      BY <2>1, EmptySeq
    <3> QED BY <2>1, <3>1
  <2>3. l = [t.lex EXCEPT !.buf = t.temp, !.cur = lx.cur]
    BY <2>2
  <2>4. /\ l \in LexerState /\ l.data = lx.data /\ l.start = t.lex.start
        /\ l.buf = t.temp /\ l.cur = lx.cur /\ l.thrown = t.lex.thrown
    BY <1>1, <2>1, <2>3 DEF LexerState
  <2> HIDE DEF l
  <2>5. Reading(l)
    BY <2>1, <2>4 DEF Reading
  <2>6. lookAhead(lx, n).ok = TRUE /\ lookAhead(lx, n).lex = l
    BY <1>3, <1>4
  <2> QED BY <2>1, <2>4, <2>5, <2>6
<1>5. CASE ~t.ok
  <2>1. /\ Reading(t.lex) /\ t.lex.data = lx.data
        /\ t.lex.thrown \/ AtEnd(t.lex)
        /\ t.ok = FALSE
    BY <1>2, <1>5 DEF Turned
  <2> HIDE DEF t, l
  <2>2. lookAhead(lx, n).ok = FALSE /\ lookAhead(lx, n).lex = t.lex
    BY <1>3, <2>1
  <2> QED BY <2>1, <2>2
<1> QED BY <1>4, <1>5


-----------------------------------------------------------------------------
(***************************************************************************)
(* Where the lexer stands in a text that has no stray lexeme.              *)
(***************************************************************************)
Strayless(d) == \A i \in 1 .. Len(d) : d[i].class # "stray"

(* The lexeme a token was read from, and those that end a statement. *)
Place(t) == IF t.tok \in EndTokens THEN t.after ELSE t.after - 1
Ending == {"tok_end_statement", "tok_close_curly"}

Stands(d, t) ==
  /\ Place(t) \in 1 .. Len(d) + 1
  /\ t.tok \in Ending => /\ Place(t) \in 1 .. Len(d)
                         /\ d[Place(t)].class = "word"
                         /\ WordToken(d[Place(t)].text) = t.tok

(* t is what is read when scanning goes on from p. *)
ReadFrom(d, p, t) == Skipped(d, p, Place(t)) /\ Stands(d, t)

(* Each token of buf is read after the one before it, the first after c,   *)
(* and the scanner goes on from p after the last.                          *)
AfterOf(c, buf, i) == IF i = 1 THEN c.after ELSE buf[i - 1].after
Linked(d, c, buf, p) ==
  /\ \A i \in 1 .. Len(buf) : ReadFrom(d, AfterOf(c, buf, i), buf[i])
  /\ p = AfterOf(c, buf, Len(buf) + 1)

Placed(lx) ==
  Stands(lx.data, lx.cur) /\ Linked(lx.data, lx.cur, lx.buf, lx.start)

LEMMA ScanReads ==
  ASSUME NEW d \in Seq(Lexeme), NEW c \in MovableToken,
         NEW p \in Nat \ {0}, p <= Len(d) + 1, Strayless(d), ~Throws(d, p)
  PROVE  ReadFrom(d, p, Scan(d, c, p))
<1> DEFINE i == SkipNewLines(d, p)
           a == ScanEnd(d, i)
           k == ClassAt(d, i)
           t == Scan(d, c, p)
<1>1. Skipped(d, p, i) /\ Len(d) \in Nat
  BY SkipNewLinesStops, LenProperties
<1>2. i \in 1 .. Len(d) + 1
  BY <1>1 DEF Skipped
<1>3. k \in Classes \cup {"end"}
  <2>1. i \in 1 .. Len(d) => d[i] \in Lexeme
    BY ElementOfSeq
  <2> HIDE DEF i
  <2> QED BY <2>1 DEF ClassAt, Lexeme
<1>4. k \notin {"overflow", "stray", "newline"}
  <2>1. k # "overflow"
    BY DEF Throws
  <2>2. k # "newline"
    BY <1>1, <1>2 DEF Skipped, ClassAt
  <2>3. k # "stray"
    BY DEF Strayless, ClassAt
  <2> QED BY <2>1, <2>2, <2>3
<1>5. t = ScanAt(d, c, i)
  BY DEF Scan
<1>6. k = "end" \/ (i \in 1 .. Len(d) /\ d[i].class = k)
  BY DEF ClassAt
<1>7. Place(t) = i /\ Stands(d, t)
  <2> HIDE DEF t
  <2>1. CASE k \in {"end", "unmatched"}
    <3>1. a = i
      BY <2>1 DEF ScanEnd, Consumed
    <3>2. t.tok \in EndTokens /\ t.after = i
      <4> HIDE DEF i
      <4> QED BY <1>5, <2>1, <3>1 DEF ScanAt, MovableToken, EndTokens
    <3>3. t.tok \notin Ending
      BY <3>2 DEF EndTokens, Ending
    <3> QED BY <1>2, <3>2, <3>3 DEF Place, Stands
  <2>2. CASE k \in {"word", "number", "malformed"}
    <3>1. a = i + 1
      BY <2>2 DEF ScanEnd, Consumed
    <3>2. t.after = i + 1
      <4> HIDE DEF i
      <4> QED BY <1>5, <2>2, <3>1 DEF ScanAt, MovableToken
    <3>3. /\ t.tok \notin EndTokens
          /\ t.tok \in Ending => k = "word" /\ WordToken(d[i].text) = t.tok
      <4>1. CASE k = "word"
        <5> DEFINE w == WordToken(d[i].text)
        <5>1. w \notin EndTokens
          BY WordTokenInTokens
        <5>2. t.tok = w
          <6> HIDE DEF i
          <6> QED BY <1>5, <4>1 DEF ScanAt, MovableToken
        <5> QED BY <4>1, <5>1, <5>2
      <4>2. CASE k \in {"number", "malformed"}
        <5>1. t.tok \in {"tok_number", "tok_malformed_number"}
          <6> HIDE DEF i
          <6> QED BY <1>5, <4>2 DEF ScanAt, MovableToken
        <5> QED BY <5>1 DEF EndTokens, Ending
      <4> QED BY <2>2, <4>1, <4>2
    <3>4. Place(t) = i
      BY <1>2, <3>2, <3>3 DEF Place
    <3> QED BY <1>2, <1>6, <2>2, <3>3, <3>4 DEF Stands
  <2> QED BY <1>3, <1>4, <2>1, <2>2 DEF Classes
<1> QED BY <1>1, <1>7 DEF ReadFrom

(* Reading the text places a lexer, ...                                    *)
LEMMA GettokScansPlaced ==
  ASSUME NEW lx, Reading(lx), Strayless(lx.data), lx.buf = <<>>,
         ~Gettok(lx).thrown
  PROVE  Placed(Gettok(lx)) /\ ReadFrom(lx.data, lx.start, Gettok(lx).cur)
<1> DEFINE g == Gettok(lx)
<1>1. /\ lx \in LexerState /\ lx.start \in Nat \ {0}
      /\ lx.start <= Len(lx.data) + 1
      /\ lx.data \in Seq(Lexeme) /\ lx.cur \in MovableToken
  BY DEF Reading, LexerState
<1>2. /\ g.data = lx.data /\ g.buf = <<>>
      /\ g.cur = Scan(lx.data, lx.cur, lx.start)
      /\ g.start = ScanEnd(lx.data, SkipNewLines(lx.data, lx.start))
      /\ g.thrown = Throws(lx.data, lx.start)
  BY <1>1, GettokScans
<1>3. g.cur.after = g.start
  BY <1>1, <1>2, ScanType
<1> HIDE DEF g
<1>4. ReadFrom(lx.data, lx.start, g.cur)
  BY <1>1, <1>2, ScanReads DEF g
<1>5. Linked(g.data, g.cur, g.buf, g.start)
  <2>1. Len(g.buf) = 0
    BY <1>2
  <2> QED BY <1>3, <2>1 DEF Linked, AfterOf
<1> QED BY <1>2, <1>4, <1>5 DEF Placed, ReadFrom, g

(* ... and every later gettok moves it on.                                 *)
LEMMA GettokPlaced ==
  ASSUME NEW lx, Reading(lx), Strayless(lx.data), Placed(lx),
         ~Gettok(lx).thrown
  PROVE  /\ Placed(Gettok(lx))
         /\ ReadFrom(lx.data, lx.cur.after, Gettok(lx).cur)
         /\ lx.cur.after <= Place(Gettok(lx).cur)
         /\ Place(lx.cur) <= Place(Gettok(lx).cur)
<1> DEFINE g == Gettok(lx)
<1>1. /\ lx \in LexerState /\ lx.start # 0
      /\ lx.data \in Seq(Lexeme) /\ lx.cur \in MovableToken
      /\ lx.buf \in Seq(MovableToken) /\ Len(lx.buf) \in Nat
      /\ lx.cur.after \in Nat
  BY LenProperties DEF Reading, LexerState, MovableToken
<1>2. Placed(g) /\ ReadFrom(lx.data, lx.cur.after, g.cur)
  <2>1. CASE lx.buf = <<>>
    <3>1. Len(lx.buf) = 0
      BY <2>1
    <3>2. lx.start = lx.cur.after
      BY <3>1 DEF Placed, Linked, AfterOf
    <3> QED BY <2>1, <3>2, GettokScansPlaced
  <2>2. CASE lx.buf # <<>>
    <3>1. /\ g.data = lx.data /\ g.start = lx.start
          /\ g.cur = Head(lx.buf) /\ g.buf = Tail(lx.buf)
      BY <1>1, <2>2, GettokPops
    <3> HIDE DEF g
    <3>2. /\ g.cur = lx.buf[1] /\ 1 \in 1 .. Len(lx.buf)
          /\ Len(g.buf) = Len(lx.buf) - 1
          /\ \A j \in 1 .. Len(g.buf) : g.buf[j] = lx.buf[j + 1]
      BY <1>1, <2>2, <3>1, HeadTailProperties, EmptySeq
    <3>3. ASSUME NEW j \in 1 .. Len(g.buf) + 1
          PROVE  AfterOf(g.cur, g.buf, j) = AfterOf(lx.cur, lx.buf, j + 1)
      <4>1. CASE j = 1
        BY <3>2, <4>1 DEF AfterOf
      <4>2. CASE j # 1
        <5>1. j - 1 \in 1 .. Len(g.buf) /\ (j - 1) + 1 = j /\ (j + 1) - 1 = j
              /\ j + 1 # 1
          BY <1>1, <3>2, <4>2
        <5>2. g.buf[j - 1] = lx.buf[j]
          BY <3>2, <5>1
        <5> QED BY <4>2, <5>1, <5>2 DEF AfterOf
      <4> QED BY <4>1, <4>2
    <3>4. \A i \in 1 .. Len(lx.buf) :
            ReadFrom(lx.data, AfterOf(lx.cur, lx.buf, i), lx.buf[i])
      BY DEF Placed, Linked
    <3>5. ReadFrom(lx.data, lx.cur.after, g.cur)
      BY <3>2, <3>4 DEF AfterOf
    <3>6. ASSUME NEW j \in 1 .. Len(g.buf)
          PROVE  ReadFrom(g.data, AfterOf(g.cur, g.buf, j), g.buf[j])
      <4>1. j + 1 \in 1 .. Len(lx.buf) /\ j \in 1 .. Len(g.buf) + 1
            /\ g.buf[j] = lx.buf[j + 1]
        BY <1>1, <3>2
      <4> QED BY <3>1, <3>3, <3>4, <4>1
    <3>7. g.start = AfterOf(g.cur, g.buf, Len(g.buf) + 1)
      <4>1. Len(g.buf) + 1 \in 1 .. Len(g.buf) + 1
            /\ (Len(g.buf) + 1) + 1 = Len(lx.buf) + 1
        BY <1>1, <3>2
      <4> QED BY <3>1, <3>3, <4>1 DEF Placed, Linked
    <3> QED BY <3>5, <3>6, <3>7, <3>1 DEF Placed, Linked, ReadFrom
  <2> QED BY <2>1, <2>2
<1> HIDE DEF g
<1>3. lx.cur.after <= Place(g.cur) /\ Place(g.cur) \in Nat
  <2>1. Len(lx.data) \in Nat
    BY <1>1, LenProperties
  <2> QED BY <1>1, <1>2, <2>1 DEF ReadFrom, Skipped
<1>4. Place(lx.cur) <= lx.cur.after /\ Place(lx.cur) \in Int
  BY <1>1 DEF Place
<1> QED BY <1>1, <1>2, <1>3, <1>4 DEF g

(* A look-ahead that has made k turns.                                     *)
Trailed(lx, k, a) ==
  /\ a.ok => /\ \A i \in 1 .. k :
                  ReadFrom(lx.data, AfterOf(lx.cur, a.temp, i), a.temp[i])
             /\ a.lex.cur.after = AfterOf(lx.cur, a.temp, k + 1)
  /\ \/ a.lex.thrown /\ k # 0
     \/ Placed(a.lex) /\ Place(lx.cur) <= Place(a.lex.cur)

LEMMA TurnTrails ==
  ASSUME NEW lx, Reading(lx), Strayless(lx.data), Placed(lx), NEW k \in Nat,
         NEW a, Turned(lx, k, a), Trailed(lx, k, a)
  PROVE  Trailed(lx, k + 1, Turn(a))
<1>1. CASE ~a.ok
  <2>1. Turn(a) = a /\ k + 1 # 0
    BY <1>1 DEF Turn
  <2> QED BY <1>1, <2>1 DEF Trailed
<1>2. CASE a.ok
  <2> DEFINE l == Gettok(a.lex)
             t == Append(a.temp, l.cur)
  <2>1. /\ Reading(a.lex) /\ a.lex.data = lx.data
        /\ ~a.lex.thrown \/ k = 0
        /\ a.temp \in Seq(MovableToken) /\ Len(a.temp) = k
    BY <1>2 DEF Turned
  <2>2. /\ Turn(a).lex = l /\ Turn(a).temp = t
        /\ Turn(a).ok = (~l.thrown /\ l.cur.tok \notin EndTokens)
    BY <1>2 DEF Turn, Read
  <2>3. Placed(a.lex) /\ Place(lx.cur) <= Place(a.lex.cur)
        /\ Stands(lx.data, lx.cur)
    BY <2>1 DEF Trailed, Placed
  <2>4. Reading(l) /\ l.data = lx.data
    BY <2>1, GettokReads
  <2>5. l.cur \in MovableToken /\ l.thrown \in BOOLEAN
    BY <2>4 DEF Reading, LexerState
  <2>6. /\ t \in Seq(MovableToken) /\ Len(t) = k + 1 /\ t[k + 1] = l.cur
        /\ \A i \in 1 .. k : t[i] = a.temp[i]
    BY <2>1, <2>5, AppendProperties
  <2>7. ASSUME ~l.thrown
        PROVE  /\ Placed(l) /\ Place(lx.cur) <= Place(l.cur)
               /\ ReadFrom(lx.data, a.lex.cur.after, l.cur)
    <3>1. /\ Placed(l) /\ Place(a.lex.cur) <= Place(l.cur)
          /\ ReadFrom(lx.data, a.lex.cur.after, l.cur)
      BY <2>1, <2>3, <2>7, GettokPlaced
    <3>2. /\ Place(lx.cur) \in Int /\ Place(a.lex.cur) \in Int
          /\ Place(l.cur) \in Int
      <4>1. Len(lx.data) \in Nat
        BY LenProperties DEF Reading, LexerState
      <4> QED BY <2>1, <2>3, <2>4, <3>1, <4>1 DEF Placed, Stands
    <3> QED BY <2>3, <3>1, <3>2
  <2> HIDE DEF l, t
  <2>8. ASSUME ~l.thrown, NEW i \in 1 .. k + 1
        PROVE  ReadFrom(lx.data, AfterOf(lx.cur, t, i), t[i])
    <3>1. AfterOf(lx.cur, t, i) = AfterOf(lx.cur, a.temp, i)
      <4>1. i # 1 => i - 1 \in 1 .. k
        OBVIOUS
      <4> QED BY <2>6, <4>1 DEF AfterOf
    <3>2. CASE i = k + 1
      BY <1>2, <2>6, <2>7, <2>8, <3>1, <3>2 DEF Trailed
    <3>3. CASE i \in 1 .. k
      BY <1>2, <2>6, <3>1, <3>3 DEF Trailed
    <3> QED BY <3>2, <3>3
  <2>9. l.cur.after = AfterOf(lx.cur, t, (k + 1) + 1)
    <3>1. (k + 1) + 1 # 1 /\ ((k + 1) + 1) - 1 = k + 1
      OBVIOUS
    <3> QED BY <2>6, <3>1 DEF AfterOf
  <2> DEFINE b == Turn(a)
  <2>10. /\ b.lex = l /\ b.temp = t
         /\ b.ok => ~l.thrown
    BY <2>2
  <2> HIDE DEF b
  <2>11. ASSUME b.ok
         PROVE  /\ \A i \in 1 .. k + 1 :
                     ReadFrom(lx.data, AfterOf(lx.cur, b.temp, i), b.temp[i])
                /\ b.lex.cur.after = AfterOf(lx.cur, b.temp, (k + 1) + 1)
    BY <2>8, <2>9, <2>10, <2>11
  <2>12. \/ b.lex.thrown /\ k + 1 # 0
         \/ Placed(b.lex) /\ Place(lx.cur) <= Place(b.lex.cur)
    BY <2>5, <2>7, <2>10
  <2>13. Trailed(lx, k + 1, b)
    BY <2>11, <2>12 DEF Trailed
  <2> QED BY <2>13 DEF b
<1> QED BY <1>1, <1>2

(* A look-ahead leaves the lexer where it was, or if it fails further on.  *)
LEMMA LookAheadPlaced ==
  ASSUME NEW lx, Reading(lx), Strayless(lx.data), Placed(lx),
         NEW n \in {2, 3}, Len(lx.buf) <= n
  PROVE  LET a == lookAhead(lx, n)
         IN  ~a.lex.thrown => /\ Placed(a.lex)
                              /\ Place(lx.cur) <= Place(a.lex.cur)
<1> DEFINE t == Turns(lx, n)
           l == [t.lex EXCEPT !.buf = @ \o t.temp, !.cur = lx.cur]
<1>1. /\ lx \in LexerState /\ lx.cur \in MovableToken /\ Len(lx.buf) \in Nat
      /\ lx.cur.after \in Nat
  BY LenProperties DEF Reading, LexerState, MovableToken
<1>2. Turned(lx, n, t) /\ Trailed(lx, n, t)
  <2> DEFINE a0 == [lex |-> lx, temp |-> <<>>, ok |-> TRUE]
             Both(k, a) == Turned(lx, k, a) /\ Trailed(lx, k, a)
  <2>1. /\ a0.lex = lx /\ a0.temp = <<>> /\ a0.ok = TRUE
        /\ a0.temp \in Seq(MovableToken) /\ Len(a0.temp) = 0
    OBVIOUS
  <2>2. Both(0, a0)
    <3>1. Turned(lx, 0, a0)
      BY <1>1, <2>1 DEF Turned
    <3> HIDE DEF a0
    <3>2. lx.cur.after = AfterOf(lx.cur, a0.temp, 0 + 1)
      BY DEF AfterOf
    <3>3. Place(lx.cur) <= Place(lx.cur)
      BY <1>1 DEF Place
    <3> QED BY <2>1, <3>1, <3>2, <3>3 DEF Trailed
  <2>3. ASSUME NEW k \in Nat, NEW a, Both(k, a) PROVE Both(k + 1, Turn(a))
    BY <2>3, TurnTurns, TurnTrails
  <2> HIDE DEF a0, Both
  <2>4. Both(1, Turn(a0))
    <3>1. Both(0 + 1, Turn(a0))
      BY <2>2, <2>3
    <3> QED BY <3>1
  <2>5. Both(2, Turn(Turn(a0)))
    <3>1. Both(1 + 1, Turn(Turn(a0)))
      BY <2>3, <2>4
    <3> QED BY <3>1
  <2>6. Both(3, Turn(Turn(Turn(a0))))
    <3>1. Both(2 + 1, Turn(Turn(Turn(a0))))
      BY <2>3, <2>5
    <3> QED BY <3>1
  <2>7. t = IF n = 2 THEN Turn(Turn(a0)) ELSE Turn(Turn(Turn(a0)))
    BY DEF Turns, Rest, a0
  <2> HIDE DEF t
  <2>8. Both(n, t)
    BY <2>5, <2>6, <2>7
  <2> QED BY <2>8 DEF Both
<1>3. lookAhead(lx, n) = [ok |-> t.ok, lex |-> IF t.ok THEN l ELSE t.lex]
  BY DEF lookAhead, Buffered
<1>4. CASE t.ok
  <2>1. /\ t.lex.data = lx.data /\ ~t.lex.thrown /\ t.lex \in LexerState
        /\ t.temp \in Seq(MovableToken) /\ Len(t.temp) = n
        /\ Len(t.lex.buf) = 0 /\ t.lex.buf \in Seq(MovableToken)
    <3>1. Len(lx.buf) <= n /\ n # 0
      OBVIOUS
    <3> HIDE DEF t
    <3> QED BY <1>2, <1>4, <3>1 DEF Turned, Reading, LexerState
  <2> HIDE DEF t
  <2>2. Placed(t.lex)
    BY <1>2, <2>1 DEF Trailed
  <2>3. t.lex.start = t.lex.cur.after
    BY <2>1, <2>2 DEF Placed, Linked, AfterOf
  <2>4. t.lex.buf \o t.temp = t.temp
    <3>1. t.lex.buf = <<>>
      BY <2>1, EmptySeq
    <3> QED BY <2>1, <3>1
  <2>5. /\ l.data = lx.data /\ l.start = t.lex.start
        /\ l.buf = t.temp /\ l.cur = lx.cur
    BY <2>1, <2>4 DEF LexerState
  <2>6. Linked(l.data, l.cur, l.buf, l.start)
    BY <1>2, <1>4, <2>1, <2>3, <2>5 DEF Trailed, Linked
  <2>7. Placed(l) /\ Place(lx.cur) <= Place(l.cur)
    <3>1. Place(lx.cur) <= Place(lx.cur)
      BY <1>1 DEF Place
    <3> QED BY <2>5, <2>6, <3>1 DEF Placed
  <2> HIDE DEF l
  <2> QED BY <1>3, <1>4, <2>7
<1>5. CASE ~t.ok
  <2> HIDE DEF t, l
  <2>1. lookAhead(lx, n).lex = t.lex
    BY <1>3, <1>5
  <2> QED BY <1>2, <2>1 DEF Trailed
<1> QED BY <1>4, <1>5
-----------------------------------------------------------------------------
(***************************************************************************)
(* Parse states, and what the small steps of the methods do to them.       *)
(***************************************************************************)
Fields == {"lex", "flag", "errs", "node", "fault", "garbage", "room",
           "orderly", "oob", "refused", "empty"}
NodeFields == {"kind", "name", "type", "kids", "flags"}
IsNode(n) == DOMAIN n = NodeFields
Faults == {"none", "throw", "null", "stack", "segv"}

(* The diagnostics of the parser. *)
Codes ==
  {"CANNOT_GENERATE_RHS", "CAST_ERROR", "ERROR_IN_VOID_DATATYPE",
   "EXPECTED_DATATYPE_FUNCTION_ARG", "EXPECTED_END_STATEMENT_TOKEN",
   "EXPECTED_IDENTIFIER_NAME", "EXPECTED_RETURN_DATATYPE", "EXPECTED_TOKEN",
   "EXPECTED_TYPE_AFTER_EXTERN", "EXPECTED_VARIABLE", "FOR_LOOP_FAILURE",
   "MISSING_ARG_IN_FUNC_CALL", "MISSING_OPEN_ROUND_OR_COMMA_IN_FUNC_CALL",
   "UNEXPECTED_TOKEN_IN_DECLARATION", "UNEXPECTED_TOKEN_IN_EXPRESSION"}

LEMMA CodesAre ==
  /\ "CANNOT_GENERATE_RHS" \in Codes
  /\ "CAST_ERROR" \in Codes
  /\ "ERROR_IN_VOID_DATATYPE" \in Codes
  /\ "EXPECTED_DATATYPE_FUNCTION_ARG" \in Codes
  /\ "EXPECTED_END_STATEMENT_TOKEN" \in Codes
  /\ "EXPECTED_IDENTIFIER_NAME" \in Codes
  /\ "EXPECTED_RETURN_DATATYPE" \in Codes
  /\ "EXPECTED_TOKEN" \in Codes
  /\ "EXPECTED_TYPE_AFTER_EXTERN" \in Codes
  /\ "EXPECTED_VARIABLE" \in Codes
  /\ "FOR_LOOP_FAILURE" \in Codes
  /\ "MISSING_ARG_IN_FUNC_CALL" \in Codes
  /\ "MISSING_OPEN_ROUND_OR_COMMA_IN_FUNC_CALL" \in Codes
  /\ "UNEXPECTED_TOKEN_IN_DECLARATION" \in Codes
  /\ "UNEXPECTED_TOKEN_IN_EXPRESSION" \in Codes
BY DEF Codes

(* Why a parse returned nullptr can be told. *)
Reported(s) == s.errs # <<>> \/ s.fault # "none"
Explained(s) == Reported(s) \/ s.refused \/ s.empty

(* l is where the parse d of the text d.data, begun at d.from, may stand.  *)
Kept(l, d) == Placed(l) /\ d.from <= Place(l.cur)

(* What holds all through a parse d with room n: nothing is logged until   *)
(* the parse fails, a parse that failed says why, after a look-ahead that  *)
(* failed the parse has failed or is going to, since it stands at the end  *)
(* of the text, and in a text without stray lexemes the parse moves on.    *)
Underway(s, n, d) ==
  /\ DOMAIN s = Fields
  /\ IsNode(s.node)
  /\ Reading(s.lex)
  /\ s.lex.data = d.data /\ d.from \in Int
  /\ s.flag \in BOOLEAN
  /\ s.errs \in Seq(Codes)
  /\ s.fault \in Faults
  /\ n \in Nat /\ s.room = n
  /\ s.orderly = TRUE
  /\ s.oob \in BOOLEAN /\ s.refused \in BOOLEAN /\ s.empty \in BOOLEAN
  /\ s.node # Null => s.errs = <<>> /\ s.fault = "none"
  /\ s.node = Null => Explained(s)
  /\ s.oob => IF s.node = Null THEN Reported(s) ELSE AtEnd(s.lex)
  /\ s.fault = "none" /\ Strayless(d.data) => Kept(s.lex, d)

(* And no look-ahead failed, unless the parse did. *)
OnCourse(s, n, d) == Underway(s, n, d) /\ (s.node # Null => ~s.oob)

(* What the methods know of a state without looking into it.               *)
LEMMA OnCourseUnderway ==
  ASSUME NEW s, NEW n, NEW d, OnCourse(s, n, d)
  PROVE  Underway(s, n, d)
BY DEF OnCourse

LEMMA NullOnCourse ==
  ASSUME NEW s, NEW n, NEW d, Underway(s, n, d), IsNull(s)
  PROVE  OnCourse(s, n, d)
BY DEF OnCourse, IsNull

(* A token that is there is none of the end of the text. *)
LEMMA TokenOnCourse ==
  ASSUME NEW s, NEW n, NEW d, Underway(s, n, d), Tok(s) \notin EndTokens
  PROVE  OnCourse(s, n, d)
BY DEF OnCourse, Underway, AtEnd, Tok

LEMMA NotNullNode ==
  ASSUME NEW s, NEW n, NEW d, Underway(s, n, d), ~IsNull(s)
  PROVE  IsNode(s.node) /\ s.node # Null /\ ~Faulted(s) /\ s.errs = <<>>
BY DEF Underway, IsNull, Faulted

LEMMA MadeNode ==
  ASSUME NEW kind, kind # "nullptr", NEW name, NEW type, NEW kids, NEW flags
  PROVE  LET v == Node(kind, name, type, kids, flags)
         IN  IsNode(v) /\ v # Null
<1> DEFINE v == Node(kind, name, type, kids, flags)
<1> SUFFICES IsNode(v) /\ v # Null
  OBVIOUS
<1>1. IsNode(v) /\ v.kind = kind /\ Null.kind = "nullptr"
  BY DEF Node, Null, IsNode, NodeFields
<1> HIDE DEF v
<1> QED BY <1>1

(* A fault ends the parse wherever the lexer is. *)
LEMMA RaiseLexOnCourse ==
  ASSUME NEW s, NEW n, NEW d, Underway(s, n, d), NEW f \in Faults \ {"none"},
         NEW u, DOMAIN u = Fields, Reading(u.lex), u.lex.data = d.data,
         u.flag = s.flag, u.errs = s.errs, u.room = s.room, u.orderly = TRUE,
         u.oob \in BOOLEAN, u.refused = s.refused, u.empty = s.empty
  PROVE  /\ OnCourse(Raise(u, f), n, d) /\ IsNull(Raise(u, f))
         /\ Raise(u, f).lex = u.lex
<1> DEFINE t == Raise(u, f)
<1>1. /\ DOMAIN t = Fields /\ t.node = Null /\ t.fault = f
      /\ t.lex = u.lex /\ t.flag = u.flag /\ t.errs = u.errs
      /\ t.room = u.room /\ t.orderly = u.orderly /\ t.oob = u.oob
      /\ t.refused = u.refused /\ t.empty = u.empty
  BY DEF Raise, Fields
<1>2. IsNode(Null)
  BY DEF IsNode, Null, Node, NodeFields
<1> SUFFICES OnCourse(t, n, d) /\ IsNull(t) /\ t.lex = u.lex
  OBVIOUS
<1> HIDE DEF t
<1> QED BY <1>1, <1>2 DEF Underway, OnCourse, IsNull, Explained, Reported

LEMMA RaiseOnCourse ==
  ASSUME NEW s, NEW n, NEW d, Underway(s, n, d), NEW f \in Faults \ {"none"}
  PROVE  OnCourse(Raise(s, f), n, d) /\ IsNull(Raise(s, f))
<1>1. /\ DOMAIN s = Fields /\ Reading(s.lex) /\ s.lex.data = d.data
      /\ s.orderly = TRUE /\ s.oob \in BOOLEAN
  BY DEF Underway
<1> QED BY <1>1, RaiseLexOnCourse

(* Null in the place of what s returned. *)
Lost(s, e) ==
  /\ DOMAIN e = Fields /\ e.node = Null
  /\ e.lex = s.lex /\ e.flag = s.flag /\ e.errs = s.errs /\ e.fault = s.fault
  /\ e.room = s.room /\ e.orderly = s.orderly /\ e.oob = s.oob
  /\ e.refused = s.refused /\ e.empty = s.empty

LEMMA LogLost ==
  ASSUME NEW s, NEW n, NEW d, Underway(s, n, d), NEW code \in Codes,
         NEW e, Lost(s, e)
  PROVE  OnCourse(Log(e, code), n, d) /\ IsNull(Log(e, code))
<1> DEFINE t == Log(e, code)
<1> SUFFICES OnCourse(t, n, d) /\ IsNull(t)
  OBVIOUS
<1>1. IsNode(Null)
  BY DEF IsNode, Null, Node, NodeFields
<1>2. CASE Faulted(e)
  <2>1. t = e
    BY <1>2 DEF Log
  <2>2. e.fault # "none"
    BY <1>2 DEF Faulted
  <2> HIDE DEF t
  <2> QED BY <1>1, <2>1, <2>2
        DEF Lost, Underway, OnCourse, IsNull, Explained, Reported
<1>3. CASE ~Faulted(e)
  <2>1. t = [e EXCEPT !.errs = Append(@, code)]
    BY <1>3 DEF Log
  <2>2. /\ DOMAIN t = Fields /\ t.node = Null /\ t.fault = s.fault
        /\ t.lex = s.lex /\ t.flag = s.flag /\ t.errs = Append(s.errs, code)
        /\ t.room = s.room /\ t.orderly = s.orderly /\ t.oob = s.oob
        /\ t.refused = s.refused /\ t.empty = s.empty
    BY <2>1 DEF Lost, Fields
  <2>3. s.errs \in Seq(Codes)
    BY DEF Underway
  <2>4. t.errs \in Seq(Codes) /\ Len(t.errs) = Len(s.errs) + 1
        /\ Len(s.errs) \in Nat
    BY <2>2, <2>3, AppendProperties, LenProperties
  <2>5. t.errs # <<>>
    BY <2>4, EmptySeq
  <2> HIDE DEF t
  <2> QED BY <1>1, <2>2, <2>4, <2>5
        DEF Underway, OnCourse, IsNull, Explained, Reported
<1> QED BY <1>2, <1>3

LEMMA LogNullOnCourse ==
  ASSUME NEW s, NEW n, NEW d, Underway(s, n, d), NEW code \in Codes
  PROVE  LET t == Log([s EXCEPT !.node = Null], code)
         IN  OnCourse(t, n, d) /\ IsNull(t)
<1>1. Lost(s, [s EXCEPT !.node = Null])
  BY DEF Underway, Fields, Lost
<1> QED BY <1>1, LogLost

LEMMA FailOnCourse ==
  ASSUME NEW s, NEW n, NEW d, Underway(s, n, d), NEW code \in Codes
  PROVE  OnCourse(Fail(s, code), n, d) /\ IsNull(Fail(s, code))
<1>1. CASE IsNull(s)
  BY <1>1, NullOnCourse DEF Fail
<1>2. CASE ~IsNull(s)
  BY <1>2, LogNullOnCourse DEF Fail
<1> QED BY <1>1, <1>2

LEMMA BlameOnCourse ==
  ASSUME NEW s, NEW n, NEW d, OnCourse(s, n, d), NEW code \in Codes
  PROVE  OnCourse(Blame(s, code), n, d)
<1>1. CASE IsNull(s)
  <2>1. Lost(s, s)
    BY <1>1 DEF OnCourse, Underway, IsNull, Lost
  <2> QED BY <1>1, <2>1, LogLost, OnCourseUnderway DEF Blame
<1> QED BY <1>1 DEF Blame

LEMMA GiveUnderway ==
  ASSUME NEW s, NEW n, NEW d, Underway(s, n, d), NEW v,
         ~IsNull(s) => IsNode(v) /\ v # Null
  PROVE  /\ Underway(Give(s, v), n, d)
         /\ OnCourse(s, n, d) => OnCourse(Give(s, v), n, d)
<1> DEFINE t == [s EXCEPT !.node = v]
<1>1. CASE IsNull(s)
  BY <1>1 DEF Give
<1>2. CASE ~IsNull(s)
  <2>1. /\ DOMAIN t = Fields /\ t.node = v /\ t.fault = s.fault
        /\ t.lex = s.lex /\ t.flag = s.flag /\ t.errs = s.errs
        /\ t.room = s.room /\ t.orderly = s.orderly /\ t.oob = s.oob
        /\ t.refused = s.refused /\ t.empty = s.empty
    BY DEF Underway, Fields
  <2>2. Give(s, v) = t
    BY <1>2 DEF Give
  <2> HIDE DEF t
  <2> QED BY <1>2, <2>1, <2>2
        DEF Underway, OnCourse, IsNull, Explained, Reported
<1> QED BY <1>1, <1>2

LEMMA FlagUnderway ==
  ASSUME NEW s, NEW n, NEW d, Underway(s, n, d), NEW b \in BOOLEAN
  PROVE  LET t == [s EXCEPT !.flag = b]
         IN  /\ Underway(t, n, d)
             /\ OnCourse(s, n, d) => OnCourse(t, n, d)
             /\ t.node = s.node /\ t.lex = s.lex
<1> DEFINE t == [s EXCEPT !.flag = b]
<1>1. /\ DOMAIN t = Fields /\ t.node = s.node /\ t.fault = s.fault
      /\ t.lex = s.lex /\ t.flag = b /\ t.errs = s.errs
      /\ t.room = s.room /\ t.orderly = s.orderly /\ t.oob = s.oob
      /\ t.refused = s.refused /\ t.empty = s.empty
  BY DEF Underway, Fields
<1> HIDE DEF t
<1> QED BY <1>1 DEF Underway, OnCourse, Explained, Reported

(* A lexer moves on under a parse. *)
LEMMA LexedUnderway ==
  ASSUME NEW s, NEW n, NEW d, Underway(s, n, d), NEW l,
         Reading(l), l.data = d.data, AtEnd(s.lex) => AtEnd(l),
         s.fault = "none" /\ ~l.thrown /\ Strayless(d.data) => Kept(l, d)
  PROVE  /\ Underway(Lexed(s, l), n, d)
         /\ OnCourse(s, n, d) => OnCourse(Lexed(s, l), n, d)
         /\ Lexed(s, l).lex = l
<1> DEFINE t == [s EXCEPT !.lex = l]
<1>1. /\ DOMAIN t = Fields /\ t.node = s.node /\ t.fault = s.fault
      /\ t.lex = l /\ t.flag = s.flag /\ t.errs = s.errs
      /\ t.room = s.room /\ t.orderly = s.orderly /\ t.oob = s.oob
      /\ t.refused = s.refused /\ t.empty = s.empty
  BY DEF Underway, Fields
<1>2. s.orderly = TRUE /\ s.oob \in BOOLEAN
  BY DEF Underway
<1>3. CASE l.thrown
  <2>1. Lexed(s, l) = Raise(t, "throw")
    BY <1>3 DEF Lexed
  <2>2. "throw" \in Faults \ {"none"}
    BY DEF Faults
  <2> HIDE DEF t
  <2>3. Reading(t.lex) /\ t.lex.data = d.data /\ t.orderly = TRUE
        /\ t.oob \in BOOLEAN
    BY <1>1, <1>2
  <2>5. /\ DOMAIN t = Fields /\ t.flag = s.flag /\ t.errs = s.errs
        /\ t.room = s.room /\ t.refused = s.refused /\ t.empty = s.empty
    BY <1>1
  <2>6. OnCourse(Raise(t, "throw"), n, d)
    BY <2>2, <2>3, <2>5, RaiseLexOnCourse
  <2>7. Raise(t, "throw").lex = t.lex
    BY <2>5 DEF Raise, Fields
  <2> QED BY <1>1, <2>1, <2>6, <2>7, OnCourseUnderway
<1>4. CASE ~l.thrown
  <2>1. Lexed(s, l) = t
    BY <1>4 DEF Lexed
  <2> HIDE DEF t
  <2>2. Underway(t, n, d) /\ (OnCourse(s, n, d) => OnCourse(t, n, d))
    BY <1>1, <1>4 DEF Underway, OnCourse, Explained, Reported
  <2> QED BY <1>1, <2>1, <2>2
<1> QED BY <1>3, <1>4

LEMMA PlacedPlace ==
  ASSUME NEW lx, Reading(lx), Placed(lx)
  PROVE  Place(lx.cur) \in 1 .. Len(lx.data) + 1 /\ Len(lx.data) \in Nat
<1>1. Len(lx.data) \in Nat
  BY LenProperties DEF Reading, LexerState
<1> QED BY <1>1 DEF Placed, Stands

LEMMA EatAnywayUnderway ==
  ASSUME NEW s, NEW n, NEW d, Underway(s, n, d)
  PROVE  /\ Underway(EatAnyway(s), n, d)
         /\ OnCourse(s, n, d) => OnCourse(EatAnyway(s), n, d)
         /\ IsNull(EatAnyway(s)) \/ Len(EatAnyway(s).lex.buf) <= 2
<1>1. CASE Faulted(s)
  <2>1. IsNull(s)
    BY <1>1 DEF Underway, Faulted, IsNull
  <2> QED BY <1>1, <2>1 DEF EatAnyway
<1>2. CASE ~Faulted(s)
  <2> DEFINE g == Gettok(s.lex)
  <2>1. Reading(s.lex) /\ s.lex.data = d.data
    BY DEF Underway
  <2>2. /\ Reading(g) /\ g.data = d.data
        /\ AtEnd(s.lex) => AtEnd(g)
        /\ Len(g.buf) = IF s.lex.buf = <<>> THEN 0 ELSE Len(s.lex.buf) - 1
    BY <2>1, GettokReads
  <2>3. Len(g.buf) <= 2
    <3>1. /\ Len(s.lex.buf) \in Nat /\ Len(s.lex.buf) <= 3
          /\ s.lex.buf # <<>> => Len(s.lex.buf) # 0
      BY <2>1, LenProperties, EmptySeq DEF Reading, LexerState
    <3> HIDE DEF g
    <3> QED BY <2>2, <3>1
  <2>6. ASSUME s.fault = "none", ~g.thrown, Strayless(d.data) PROVE Kept(g, d)
    <3>1. Kept(s.lex, d) /\ d.from \in Int
      BY <2>6 DEF Underway
    <3>2. Placed(g) /\ Place(s.lex.cur) <= Place(g.cur)
      BY <2>1, <2>6, <3>1, GettokPlaced DEF Kept
    <3> HIDE DEF g
    <3> QED BY <2>1, <2>2, <3>1, <3>2, PlacedPlace DEF Kept
  <2> HIDE DEF g
  <2>4. EatAnyway(s) = Lexed(s, g)
    BY <1>2 DEF EatAnyway, g
  <2>5. /\ Underway(Lexed(s, g), n, d)
        /\ OnCourse(s, n, d) => OnCourse(Lexed(s, g), n, d)
        /\ Lexed(s, g).lex = g
    BY <2>2, <2>6, LexedUnderway
  <2> QED BY <2>3, <2>4, <2>5
<1> QED BY <1>1, <1>2

LEMMA EatAnywayNode ==
  ASSUME NEW s, NEW n, NEW d, Underway(s, n, d), ~IsNull(EatAnyway(s))
  PROVE  EatAnyway(s).node = s.node
<1> DEFINE g == Gettok(s.lex)
           u == [s EXCEPT !.lex = g]
<1>1. CASE Faulted(s)
  BY <1>1 DEF EatAnyway
<1>2. CASE ~Faulted(s)
  <2>1. DOMAIN u = Fields /\ u.node = s.node
    BY DEF Underway, Fields
  <2>2. EatAnyway(s) = IF g.thrown THEN Raise(u, "throw") ELSE u
    BY <1>2 DEF EatAnyway, Lexed
  <2> HIDE DEF u
  <2>3. Raise(u, "throw").node = Null
    BY <2>1 DEF Raise, Fields
  <2> QED BY <2>1, <2>2, <2>3 DEF IsNull
<1> QED BY <1>1, <1>2

LEMMA EatUnderway ==
  ASSUME NEW s, NEW n, NEW d, Underway(s, n, d)
  PROVE  /\ Underway(Eat(s), n, d)
         /\ OnCourse(s, n, d) => OnCourse(Eat(s), n, d)
         /\ IsNull(s) => Eat(s) = s
         /\ IsNull(Eat(s)) \/ Len(Eat(s).lex.buf) <= 2
<1>1. CASE IsNull(s)
  BY <1>1 DEF Eat
<1>2. CASE ~IsNull(s)
  <2>1. Eat(s) = EatAnyway(s)
    BY <1>2 DEF Eat
  <2> QED BY <1>2, <2>1, EatAnywayUnderway
<1> QED BY <1>1, <1>2

LEMMA ExpectOnCourse ==
  ASSUME NEW s, NEW n, NEW d, Underway(s, n, d), NEW code \in Codes,
         NEW tok, tok \notin EndTokens
  PROVE  LET t == Expect(s, tok, code)
         IN  OnCourse(t, n, d) /\ (IsNull(t) \/ Len(t.lex.buf) <= 2)
<1>1. CASE Tok(s) = tok
  <2>1. OnCourse(s, n, d)
    BY <1>1, TokenOnCourse
  <2>2. Expect(s, tok, code) = Eat(s)
    BY <1>1 DEF Expect
  <2> QED BY <2>1, <2>2, EatUnderway
<1>2. CASE Tok(s) # tok
  <2>1. Expect(s, tok, code) = Fail(s, code)
    BY <1>2 DEF Expect
  <2> QED BY <2>1, FailOnCourse
<1> QED BY <1>1, <1>2

LEMMA EatStarUnderway ==
  ASSUME NEW s, NEW n, NEW d, Underway(s, n, d)
  PROVE  /\ Underway(EatStar(s), n, d)
         /\ OnCourse(s, n, d) => OnCourse(EatStar(s), n, d)
BY EatUnderway DEF EatStar

LEMMA DereferencedOnCourse ==
  ASSUME NEW s, NEW n, NEW d, OnCourse(s, n, d)
  PROVE  OnCourse(Dereferenced(s), n, d)
<1>1. "null" \in Faults \ {"none"}
  BY DEF Faults
<1> QED BY <1>1, RaiseOnCourse, OnCourseUnderway DEF Dereferenced

(* A look-ahead keeps the contract of module Lexer, and if it fails the    *)
(* parse stands at the end of the text.                                    *)
LEMMA AheadUnderway ==
  ASSUME NEW s, NEW n, NEW d, Underway(s, n, d), NEW k \in {2, 3},
         IsNull(s) \/ Len(s.lex.buf) <= k
  PROVE  Underway(Ahead(s, k), n, d)
<1>1. CASE IsNull(s)
  BY <1>1 DEF Ahead
<1>2. CASE ~IsNull(s)
  <2> DEFINE a == lookAhead(s.lex, k)
             oob == s.oob \/ (~a.ok /\ ~a.lex.thrown)
             t == [s EXCEPT !.orderly = @ /\ Len(s.lex.buf) <= k,
                            !.oob = @ \/ (~a.ok /\ ~a.lex.thrown)]
             u == [t EXCEPT !.lex = a.lex]
  <2>1. Reading(s.lex) /\ s.lex.data = d.data /\ Len(s.lex.buf) <= k
    BY <1>2 DEF Underway
  <2>2. /\ Reading(a.lex) /\ a.lex.data = d.data /\ a.ok \in BOOLEAN
        /\ a.ok => ~a.lex.thrown /\ ~AtEnd(s.lex)
        /\ ~a.ok => a.lex.thrown \/ AtEnd(a.lex)
    BY <2>1, LookAheadReads
  <2>3. a.lex.thrown \in BOOLEAN
    BY <2>2 DEF Reading, LexerState
  <2>4. /\ DOMAIN t = Fields /\ t.node = s.node /\ t.fault = s.fault
        /\ t.lex = s.lex /\ t.flag = s.flag /\ t.errs = s.errs
        /\ t.room = s.room /\ t.orderly = TRUE /\ t.oob = oob
        /\ t.refused = s.refused /\ t.empty = s.empty
        /\ t.garbage = s.garbage
    BY <2>1 DEF Underway, Fields
  <2>5. Ahead(s, k) = IF t.oob /\ ~a.ok /\ t.garbage = <<>>
                      THEN Raise(u, "segv") ELSE Lexed(t, a.lex)
    BY <1>2, <2>4 DEF Ahead, Looked
  <2>6. ASSUME ~a.lex.thrown, s.fault = "none", Strayless(d.data)
        PROVE  Kept(a.lex, d)
    <3>1. Kept(s.lex, d) /\ d.from \in Int
      BY <2>6 DEF Underway
    <3>2. Placed(a.lex) /\ Place(s.lex.cur) <= Place(a.lex.cur)
      BY <2>1, <2>6, <3>1, LookAheadPlaced DEF Kept
    <3> HIDE DEF a
    <3> QED BY <2>1, <2>2, <3>1, <3>2, PlacedPlace DEF Kept
  <2>7. oob \in BOOLEAN
    OBVIOUS
  <2>8. ASSUME ~a.lex.thrown PROVE oob => AtEnd(a.lex)
    <3>1. s.oob => AtEnd(s.lex)
      BY <1>2 DEF Underway, IsNull
    <3> HIDE DEF a
    <3> QED BY <2>2, <2>8, <3>1 DEF oob
  <2> HIDE DEF a, oob, t
  <2>9. /\ DOMAIN u = Fields /\ u.node = s.node /\ u.fault = s.fault
        /\ u.lex = a.lex /\ u.flag = s.flag /\ u.errs = s.errs
        /\ u.room = s.room /\ u.orderly = TRUE /\ u.oob = oob
        /\ u.refused = s.refused /\ u.empty = s.empty
    BY <2>4 DEF Fields
  <2>10. "segv" \in Faults \ {"none"} /\ "throw" \in Faults \ {"none"}
    BY DEF Faults
  <2>11. Lexed(t, a.lex) = IF a.lex.thrown THEN Raise(u, "throw") ELSE u
    BY DEF Lexed
  <2> HIDE DEF u
  <2>12. /\ OnCourse(Raise(u, "segv"), n, d)
         /\ OnCourse(Raise(u, "throw"), n, d)
    BY <2>2, <2>7, <2>9, <2>10, RaiseLexOnCourse
  <2>13. ASSUME ~a.lex.thrown PROVE Underway(u, n, d)
    <3>1. u.node # Null
      BY <1>2, <2>9 DEF IsNull
    <3> QED BY <2>2, <2>6, <2>7, <2>8, <2>9, <2>13, <3>1
            DEF Underway, Explained, Reported
  <2> QED BY <2>5, <2>11, <2>12, <2>13, OnCourseUnderway
<1> QED BY <1>1, <1>2

LEMMA AheadThree ==
  ASSUME NEW s, NEW n, NEW d, Underway(s, n, d)
  PROVE  Underway(Ahead(s, 3), n, d)
<1>1. Len(s.lex.buf) <= 3
  BY DEF Underway, Reading
<1> QED BY <1>1, AheadUnderway

-----------------------------------------------------------------------------
(***************************************************************************)
(* The methods, when the calls they make stay on course.                   *)
(***************************************************************************)
Methods == {"parseIdentifier", "CallArguments", "parseCast", "parseParen",
            "parsePrimary", "parseBinOpRHS", "parseExpression",
            "parseArguments", "parsePrototype", "parseFunction",
            "parseStatementsUntillCurly", "parseIfStatement",
            "parseForStatement", "parseDeclaration", "parseStatement",
            "handleExpression"}

(* These two take what came before them on trust. *)
Trusting == {"parseIdentifier", "parseBinOpRHS"}

CallsOnCourse(n, d) ==
  \A m \in Methods : \A s, x :
    Underway(s, n, d) /\ (m \in Trusting => OnCourse(s, n, d)) =>
      OnCourse(Call(m, s, x), n, d)

LEMMA CalledOnCourse ==
  ASSUME NEW n, NEW d, CallsOnCourse(n, d), NEW s, Underway(s, n, d), NEW x,
         NEW m \in Methods \ Trusting
  PROVE  OnCourse(Call(m, s, x), n, d) /\ OnCourse(Parsed(m, s), n, d)
BY DEF CallsOnCourse, Parsed

LEMMA TrustedOnCourse ==
  ASSUME NEW n, NEW d, CallsOnCourse(n, d), NEW s, OnCourse(s, n, d), NEW x,
         NEW m \in Trusting
  PROVE  OnCourse(Call(m, s, x), n, d) /\ OnCourse(Parsed(m, s), n, d)
<1>1. m \in Methods
  BY DEF Trusting, Methods
<1> QED BY <1>1, OnCourseUnderway DEF CallsOnCourse, Parsed

LEMMA ParsesOnCourse ==
  ASSUME NEW n, NEW d, CallsOnCourse(n, d), NEW s, Underway(s, n, d)
  PROVE  \A m \in Methods \ Trusting : OnCourse(Parsed(m, s), n, d)
BY CalledOnCourse

(* A node in the place of what s returned. *)
LEMMA GiveNode ==
  ASSUME NEW s, NEW n, NEW d, OnCourse(s, n, d),
         NEW kind, kind # "nullptr", NEW name, NEW type, NEW kids, NEW flags
  PROVE  OnCourse(Give(s, Node(kind, name, type, kids, flags)), n, d)
BY MadeNode, GiveUnderway, OnCourseUnderway

LEMMA GiveBlock ==
  ASSUME NEW s, NEW n, NEW d, OnCourse(s, n, d), NEW nodes
  PROVE  OnCourse(Give(s, Block(nodes)), n, d)
BY GiveNode DEF Block

LEMMA EatOnCourse ==
  ASSUME NEW s, NEW n, NEW d, OnCourse(s, n, d)
  PROVE  OnCourse(Eat(s), n, d)
BY EatUnderway, OnCourseUnderway

LEMMA CallArgumentsOnCourse ==
  ASSUME NEW n, NEW d, CallsOnCourse(n, d), NEW s, Underway(s, n, d)
  PROVE  OnCourse(CallArguments(s), n, d)
<1> DEFINE a == Blame(Parsed("parseExpression", s), "MISSING_ARG_IN_FUNC_CALL")
           rest == Parsed("CallArguments", Eat(a))
<1>1. "parseExpression" \in Methods \ Trusting
      /\ "CallArguments" \in Methods \ Trusting
  BY DEF Methods, Trusting
<1>2. OnCourse(a, n, d)
  BY <1>1, CalledOnCourse, BlameOnCourse, CodesAre
<1>3. OnCourse(Eat(a), n, d) /\ Underway(Eat(a), n, d) /\ Underway(a, n, d)
  BY <1>2, EatOnCourse, OnCourseUnderway
<1>4. OnCourse(rest, n, d)
  BY <1>1, <1>3, CalledOnCourse
<1>5. OnCourse(Fail(a, "MISSING_OPEN_ROUND_OR_COMMA_IN_FUNC_CALL"), n, d)
  BY <1>3, FailOnCourse, CodesAre
<1> HIDE DEF a, rest
<1>6. OnCourse(Give(Eat(a), Block(<<a.node>>)), n, d)
  BY <1>3, GiveBlock
<1>7. OnCourse(Give(rest, Block(<<a.node>> \o rest.node.kids)), n, d)
  BY <1>4, GiveBlock
<1> QED BY <1>5, <1>6, <1>7 DEF CallArguments, a, rest

LEMMA parseIdentifierOnCourse ==
  ASSUME NEW n, NEW d, CallsOnCourse(n, d), NEW s, OnCourse(s, n, d)
  PROVE  OnCourse(parseIdentifier(s), n, d)
<1> DEFINE a == Eat(s)
           b == Eat(a)
           args == IF Tok(b) = "tok_close_round" THEN Give(Eat(b), Block(<<>>))
                   ELSE Parsed("CallArguments", b)
<1>1. "CallArguments" \in Methods \ Trusting
  BY DEF Methods, Trusting
<1>2. OnCourse(a, n, d) /\ OnCourse(b, n, d) /\ OnCourse(Eat(b), n, d)
      /\ Underway(b, n, d)
  BY EatOnCourse, OnCourseUnderway
<1> HIDE DEF a, b
<1>3. OnCourse(args, n, d)
  BY <1>1, <1>2, GiveBlock, CalledOnCourse
<1> HIDE DEF args
<1>4. OnCourse(Give(a, Node("Variable", Ident(s), NoText, <<>>, {})), n, d)
  BY <1>2, GiveNode
<1>5. OnCourse(Give(args, Node("Call", Ident(s), NoText, args.node.kids, {})), n, d)
  BY <1>3, GiveNode
<1> QED BY <1>4, <1>5 DEF parseIdentifier, a, b, args

LEMMA parseCastOnCourse ==
  ASSUME NEW n, NEW d, CallsOnCourse(n, d), NEW s, Underway(s, n, d)
  PROVE  OnCourse(parseCast(s), n, d)
<1> DEFINE a == Eat(s)
           b == Eat(a)
           c == Expect(EatStar(b), "tok_close_round",
                       "UNEXPECTED_TOKEN_IN_EXPRESSION")
           r == Blame(Parsed("parseExpression", c), "CAST_ERROR")
<1>1. "parseExpression" \in Methods \ Trusting
  BY DEF Methods, Trusting
<1>2. Underway(a, n, d) /\ Underway(b, n, d) /\ Underway(EatStar(b), n, d)
  BY EatUnderway, EatStarUnderway
<1> HIDE DEF a, b
<1>3. OnCourse(c, n, d) /\ Underway(c, n, d)
  BY <1>2, ExpectOnCourse, CodesAre, OnCourseUnderway DEF EndTokens
<1> HIDE DEF c
<1>4. OnCourse(r, n, d)
  BY <1>1, <1>3, CalledOnCourse, BlameOnCourse, CodesAre
<1> HIDE DEF r
<1>5. OnCourse(Give(r, Node("Cast", NoText, Tok(a), <<r.node>>, Pointer(b))), n, d)
  BY <1>4, GiveNode
<1>6. OnCourse(Fail(a, "UNEXPECTED_TOKEN_IN_EXPRESSION"), n, d)
      /\ OnCourse(Fail(b, "ERROR_IN_VOID_DATATYPE"), n, d)
  BY <1>2, FailOnCourse, CodesAre
<1> QED BY <1>3, <1>5, <1>6 DEF parseCast, CastTo, a, b, c, r

LEMMA parseParenOnCourse ==
  ASSUME NEW n, NEW d, CallsOnCourse(n, d), NEW s, Underway(s, n, d)
  PROVE  OnCourse(parseParen(s), n, d)
<1> DEFINE a == Ahead(s, 3)
           e == Parsed("parseExpression", Eat(a))
<1>1. "parseExpression" \in Methods \ Trusting
      /\ "parseCast" \in Methods \ Trusting
  BY DEF Methods, Trusting
<1>2. Underway(a, n, d)
  BY AheadThree
<1> HIDE DEF a
<1>3. OnCourse(e, n, d) /\ Underway(e, n, d) /\ OnCourse(Parsed("parseCast", a), n, d)
  BY <1>1, <1>2, EatUnderway, CalledOnCourse, OnCourseUnderway
<1> HIDE DEF e
<1>4. OnCourse(Parenthesised(e), n, d)
  <2>1. OnCourse(EatAnyway(e), n, d)
    BY <1>3, EatAnywayUnderway
  <2>2. OnCourse(Log([e EXCEPT !.node = Null], "EXPECTED_TOKEN"), n, d)
    BY <1>3, LogNullOnCourse, CodesAre
  <2> QED BY <2>1, <2>2 DEF Parenthesised
<1>5. IsNull(a) => OnCourse(a, n, d)
  BY <1>2, NullOnCourse
<1> QED BY <1>3, <1>4, <1>5 DEF parseParen, a, e

LEMMA parsePrimaryOnCourse ==
  ASSUME NEW n, NEW d, CallsOnCourse(n, d), NEW s, Underway(s, n, d)
  PROVE  OnCourse(parsePrimary(s), n, d)
<1>1. "parseParen" \in Methods \ Trusting /\ "parseIdentifier" \in Trusting
  BY DEF Methods, Trusting
<1>2. ASSUME Tok(s) = "tok_identifier"
      PROVE  OnCourse(Parsed("parseIdentifier", s), n, d)
  BY <1>1, <1>2, TokenOnCourse, TrustedOnCourse DEF EndTokens
<1>3. ASSUME Tok(s) = "tok_number" PROVE OnCourse(parseNumber(s), n, d)
  <2>1. OnCourse(Eat(s), n, d)
    BY <1>3, TokenOnCourse, EatOnCourse DEF EndTokens
  <2> QED BY <2>1, GiveNode DEF parseNumber
<1>4. OnCourse(Parsed("parseParen", s), n, d)
  BY <1>1, CalledOnCourse
<1>5. ASSUME Tok(s) = "tok_nullptr" PROVE OnCourse(parseNullptr(s), n, d)
  <2>1. OnCourse(Eat(s), n, d)
    BY <1>5, TokenOnCourse, EatOnCourse DEF EndTokens
  <2> QED BY <2>1, GiveNode DEF parseNullptr
<1>6. OnCourse(parseDereference(s), n, d)
  <2>1. Underway(Eat(s), n, d)
    BY EatUnderway
  <2>2. OnCourse(Expect(Eat(s), "tok_identifier", "EXPECTED_TOKEN"), n, d)
    BY <2>1, ExpectOnCourse, CodesAre DEF EndTokens
  <2> QED BY <2>2, GiveNode DEF parseDereference
<1>7. OnCourse(Fail(s, "UNEXPECTED_TOKEN_IN_EXPRESSION"), n, d)
  BY FailOnCourse, CodesAre
<1> QED BY <1>2, <1>3, <1>4, <1>5, <1>6, <1>7 DEF parsePrimary

LEMMA parseBinOpRHSOnCourse ==
  ASSUME NEW n, NEW d, CallsOnCourse(n, d), NEW l, OnCourse(l, n, d), NEW prec
  PROVE  OnCourse(parseBinOpRHS(prec, l), n, d)
<1> DEFINE own == getTokPrecedence(l)
           r == Parsed("parsePrimary", Eat(l))
           rhs == IF own < getTokPrecedence(r)
                  THEN Call("parseBinOpRHS", r, own + 1) ELSE r
           binary == Node("Binary", Ident(l), NoText, <<l.node, rhs.node>>, {})
<1>1. "parsePrimary" \in Methods \ Trusting /\ "parseBinOpRHS" \in Trusting
  BY DEF Methods, Trusting
<1>2. OnCourse(r, n, d)
  BY <1>1, EatOnCourse, OnCourseUnderway, CalledOnCourse
<1> HIDE DEF r
<1>3. OnCourse(Call("parseBinOpRHS", r, own + 1), n, d)
  BY <1>1, <1>2, TrustedOnCourse
<1>4. OnCourse(rhs, n, d)
  BY <1>2, <1>3
<1> HIDE DEF rhs
<1>5. OnCourse(Give(rhs, binary), n, d)
  BY <1>4, GiveNode
<1> HIDE DEF binary
<1>6. OnCourse(Call("parseBinOpRHS", Give(rhs, binary), prec), n, d)
  BY <1>1, <1>5, TrustedOnCourse
<1> QED BY <1>6 DEF parseBinOpRHS, r, rhs, binary

LEMMA AssignmentOnCourse ==
  ASSUME NEW n, NEW d, CallsOnCourse(n, d), NEW l, OnCourse(l, n, d), ~IsNull(l)
  PROVE  OnCourse(Assignment(l), n, d)
<1> DEFINE m == [l EXCEPT !.flag = TRUE]
           r == Blame(Parsed("parseExpression", Eat(m)), "EXPECTED_VARIABLE")
           t == [l EXCEPT !.node = Null, !.refused = TRUE]
           v == [l.node EXCEPT !.kids = <<r.node>>]
<1>1. "parseExpression" \in Methods \ Trusting
  BY DEF Methods, Trusting
<1>2. OnCourse(m, n, d)
  BY FlagUnderway, OnCourseUnderway
<1> HIDE DEF m
<1>3. OnCourse(r, n, d) /\ Underway(r, n, d)
  BY <1>1, <1>2, EatOnCourse, OnCourseUnderway, CalledOnCourse, BlameOnCourse, CodesAre
<1> HIDE DEF r
<1>4. OnCourse(t, n, d)
  <2>1. /\ DOMAIN t = Fields /\ t.node = Null /\ t.fault = l.fault
        /\ t.lex = l.lex /\ t.flag = l.flag /\ t.errs = l.errs
        /\ t.room = l.room /\ t.orderly = l.orderly /\ t.oob = l.oob
        /\ t.refused = TRUE /\ t.empty = l.empty
    BY DEF OnCourse, Underway, Fields
  <2>2. IsNode(Null)
    BY DEF IsNode, Null, Node, NodeFields
  <2>3. ~l.oob /\ Underway(l, n, d)
    BY DEF OnCourse, IsNull
  <2> HIDE DEF t
  <2> QED BY <2>1, <2>2, <2>3 DEF OnCourse, Underway, Explained, Reported
<1>5. ASSUME l.node.kind = "Variable" PROVE OnCourse(Give(r, v), n, d)
  <2>1. DOMAIN l.node = NodeFields
    BY DEF OnCourse, Underway, IsNode
  <2>2. DOMAIN v = NodeFields /\ v.kind = "Variable"
    BY <1>5, <2>1 DEF NodeFields
  <2>3. Null.kind = "nullptr"
    BY DEF Null, Node
  <2> HIDE DEF v
  <2>4. IsNode(v) /\ v # Null
    BY <2>2, <2>3 DEF IsNode
  <2> QED BY <1>3, <2>4, GiveUnderway
<1>6. OnCourse(Fail(r, "EXPECTED_VARIABLE"), n, d)
  BY <1>3, FailOnCourse, CodesAre
<1> QED BY <1>4, <1>5, <1>6 DEF Assignment, m, r, t, v

LEMMA parseExpressionOnCourse ==
  ASSUME NEW n, NEW d, CallsOnCourse(n, d), NEW s, Underway(s, n, d)
  PROVE  OnCourse(parseExpression(s), n, d)
<1> DEFINE l == Parsed("parsePrimary", s)
<1>1. "parsePrimary" \in Methods \ Trusting /\ "parseBinOpRHS" \in Trusting
  BY DEF Methods, Trusting
<1>2. OnCourse(l, n, d)
  BY <1>1, CalledOnCourse
<1> HIDE DEF l
<1>3. ~IsNull(l) => OnCourse(Assignment(l), n, d)
  BY <1>2, AssignmentOnCourse
<1>4. OnCourse(Call("parseBinOpRHS", l, 0), n, d)
  BY <1>1, <1>2, TrustedOnCourse
<1> QED BY <1>3, <1>4 DEF parseExpression, l

LEMMA parseAssigmentOnCourse ==
  ASSUME NEW n, NEW d, CallsOnCourse(n, d), NEW s, Underway(s, n, d)
  PROVE  OnCourse(parseAssigment(s), n, d)
<1> DEFINE a == Eat(s)
           b == EatStar(a)
           c == Eat(Eat(b))
           r == Blame(Parsed("parseExpression", c), "CANNOT_GENERATE_RHS")
<1>1. "parseExpression" \in Methods \ Trusting
  BY DEF Methods, Trusting
<1>2. Underway(a, n, d)
  BY EatUnderway
<1>3. Underway(b, n, d)
  BY <1>2, EatStarUnderway
<1>4. Underway(c, n, d)
  BY <1>3, EatUnderway
<1> HIDE DEF a, b, c
<1>5. OnCourse(r, n, d)
  BY <1>1, <1>4, CalledOnCourse, BlameOnCourse, CodesAre
<1> HIDE DEF r
<1> QED BY <1>5, GiveNode DEF parseAssigment, a, b, c, r

LEMMA parseArgumentsOnCourse ==
  ASSUME NEW n, NEW d, CallsOnCourse(n, d), NEW s, Underway(s, n, d)
  PROVE  OnCourse(parseArguments(s), n, d)
<1>1. ASSUME Tok(s) = "tok_close_round"
      PROVE  OnCourse(Give(Eat(s), Block(<<>>)), n, d)
  BY <1>1, TokenOnCourse, EatOnCourse, GiveBlock DEF EndTokens
<1>2. OnCourse(ArgumentOf(Tok(s), Eat(s)), n, d)
  <2> DEFINE a == Eat(s)
             b == EatStar(a)
             c == Expect(b, "tok_identifier", "EXPECTED_IDENTIFIER_NAME")
             e == IF Tok(c) = "tok_comma" THEN AnotherArgument(Eat(c)) ELSE c
             rest == Parsed("parseArguments", e)
             argument == Node("Argument", Ident(b), Tok(s), <<>>, Pointer(a))
  <2>1. "parseArguments" \in Methods \ Trusting
    BY DEF Methods, Trusting
  <2>2. Underway(b, n, d)
    BY EatUnderway, EatStarUnderway
  <2> HIDE DEF a, b
  <2>3. OnCourse(c, n, d) /\ Underway(c, n, d) /\ Underway(Eat(c), n, d)
    BY <2>2, ExpectOnCourse, CodesAre, OnCourseUnderway, EatUnderway DEF EndTokens
  <2> HIDE DEF c
  <2>4. Underway(AnotherArgument(Eat(c)), n, d)
    BY <2>3, FailOnCourse, CodesAre, OnCourseUnderway DEF AnotherArgument
  <2>5. Underway(e, n, d)
    BY <2>3, <2>4
  <2> HIDE DEF e
  <2>6. OnCourse(rest, n, d)
    BY <2>1, <2>5, CalledOnCourse
  <2> HIDE DEF rest, argument
  <2>7. OnCourse(Give(rest, Block(<<argument>> \o rest.node.kids)), n, d)
    BY <2>6, GiveBlock
  <2> QED BY <2>7 DEF ArgumentOf, a, b, c, e, rest, argument
<1>3. OnCourse(Fail(s, "EXPECTED_DATATYPE_FUNCTION_ARG"), n, d)
  BY FailOnCourse, CodesAre
<1> QED BY <1>1, <1>2, <1>3 DEF parseArguments

LEMMA parsePrototypeOnCourse ==
  ASSUME NEW n, NEW d, CallsOnCourse(n, d), NEW s, Underway(s, n, d)
  PROVE  OnCourse(parsePrototype(s), n, d)
<1> DEFINE a == Eat(s)
           b == EatStar(a)
           c == Eat(b)
           e == Parsed("parseArguments", Eat(c))
           null == IF Tok(s) = "tok_void_ptr" THEN {"isNull"} ELSE {}
<1>1. "parseArguments" \in Methods \ Trusting
  BY DEF Methods, Trusting
<1>2. Underway(b, n, d)
  BY EatUnderway, EatStarUnderway
<1>3. Underway(c, n, d) /\ Underway(Eat(c), n, d)
  BY <1>2, EatUnderway
<1> HIDE DEF a, b, c
<1>4. OnCourse(e, n, d)
  BY <1>1, <1>3, CalledOnCourse
<1>5. /\ OnCourse(Fail(s, "EXPECTED_RETURN_DATATYPE"), n, d)
      /\ OnCourse(Fail(b, "EXPECTED_IDENTIFIER_NAME"), n, d)
      /\ OnCourse(Fail(c, "EXPECTED_TOKEN"), n, d)
  BY <1>2, <1>3, FailOnCourse, CodesAre
<1>6. OnCourse(EatAnyway(Fail(c, "EXPECTED_TOKEN")), n, d)
  BY <1>5, EatAnywayUnderway, OnCourseUnderway
<1> HIDE DEF e, null
<1>7. OnCourse(Give(e, Node("Prototype", Ident(b), Tok(s), e.node.kids,
                            {"isExtern"} \cup Pointer(a) \cup null)), n, d)
  BY <1>4, GiveNode
<1> QED BY <1>5, <1>6, <1>7 DEF parsePrototype, a, b, c, e, null

LEMMA parseExternOnCourse ==
  ASSUME NEW n, NEW d, CallsOnCourse(n, d), NEW s, Underway(s, n, d)
  PROVE  OnCourse(parseExtern(s), n, d)
<1>1. "parsePrototype" \in Methods \ Trusting
  BY DEF Methods, Trusting
<1>2. Underway(Eat(s), n, d)
  BY EatUnderway
<1>3. OnCourse(Parsed("parsePrototype", Eat(s)), n, d)
  BY <1>1, <1>2, CalledOnCourse
<1>4. OnCourse(Fail(Eat(s), "EXPECTED_TYPE_AFTER_EXTERN"), n, d)
  BY <1>2, FailOnCourse, CodesAre
<1> QED BY <1>3, <1>4 DEF parseExtern

LEMMA parseStatementsUntillCurlyOnCourse ==
  ASSUME NEW n, NEW d, CallsOnCourse(n, d), NEW s, Underway(s, n, d), NEW x
  PROVE  OnCourse(parseStatementsUntillCurly(s, x), n, d)
<1> DEFINE e == Parsed("parseStatement", s)
           rest == Call("parseStatementsUntillCurly", e, x)
<1>1. "parseStatement" \in Methods \ Trusting
      /\ "parseStatementsUntillCurly" \in Methods \ Trusting
  BY DEF Methods, Trusting
<1>2. OnCourse(e, n, d) /\ Underway(e, n, d)
  BY <1>1, CalledOnCourse, OnCourseUnderway
<1> HIDE DEF e
<1>3. OnCourse(rest, n, d)
  BY <1>1, <1>2, CalledOnCourse
<1> HIDE DEF rest
<1>4. ASSUME Tok(s) = "tok_close_curly"
      PROVE  OnCourse(Give(s, Block(<<>>)), n, d)
  BY <1>4, TokenOnCourse, GiveBlock DEF EndTokens
<1>5. OnCourse(Fail(s, "EXPECTED_TOKEN"), n, d)
      /\ OnCourse(Fail(e, "EXPECTED_TOKEN"), n, d)
  BY <1>2, FailOnCourse, CodesAre
<1>6. OnCourse(Give(rest, Block(<<e.node>> \o rest.node.kids)), n, d)
  BY <1>3, GiveBlock
<1> QED BY <1>4, <1>5, <1>6 DEF parseStatementsUntillCurly, e, rest

LEMMA BracesOnCourse ==
  ASSUME NEW n, NEW d, CallsOnCourse(n, d), NEW s, Underway(s, n, d),
         NEW code \in Codes, NEW x
  PROVE  OnCourse(Braces(s, code, x), n, d)
<1> DEFINE e == Expect(s, "tok_open_curly", code)
           body == Call("parseStatementsUntillCurly", e, x)
<1>1. "parseStatementsUntillCurly" \in Methods \ Trusting
  BY DEF Methods, Trusting
<1>2. Underway(e, n, d)
  BY ExpectOnCourse, OnCourseUnderway DEF EndTokens
<1> HIDE DEF e
<1>3. OnCourse(body, n, d) /\ Underway(body, n, d) /\ OnCourse(Eat(body), n, d)
  BY <1>1, <1>2, CalledOnCourse, EatOnCourse, OnCourseUnderway
<1> HIDE DEF body
<1>4. ~IsNull(Eat(body)) => IsNode(body.node) /\ body.node # Null
  <2>1. ~IsNull(Eat(body)) => ~IsNull(body)
    BY <1>3, EatUnderway
  <2> QED BY <1>3, <2>1, NotNullNode
<1>5. OnCourse(Give(Eat(body), body.node), n, d)
  BY <1>3, <1>4, GiveUnderway, OnCourseUnderway
<1> QED BY <1>5 DEF Braces, e, body

LEMMA parseFunctionOnCourse ==
  ASSUME NEW n, NEW d, CallsOnCourse(n, d), NEW s, Underway(s, n, d)
  PROVE  OnCourse(parseFunction(s), n, d)
<1> DEFINE proto == Parsed("parsePrototype", s)
           body == Braces(proto, "EXPECTED_TOKEN", FALSE)
<1>1. "parsePrototype" \in Methods \ Trusting
  BY DEF Methods, Trusting
<1>2. Underway(proto, n, d)
  BY <1>1, CalledOnCourse, OnCourseUnderway
<1> HIDE DEF proto
<1>3. OnCourse(body, n, d)
  BY <1>2, BracesOnCourse, CodesAre
<1> HIDE DEF body
<1>4. OnCourse(Give(body, Node("Function", NoText, NoText,
             <<[proto.node EXCEPT !.flags = @ \ {"isExtern"}], body.node>>, {})),
               n, d)
  BY <1>3, GiveNode
<1> QED BY <1>4 DEF parseFunction, proto, body

LEMMA parseIfStatementOnCourse ==
  ASSUME NEW n, NEW d, CallsOnCourse(n, d), NEW s, Underway(s, n, d)
  PROVE  OnCourse(parseIfStatement(s), n, d)
<1> DEFINE a == Expect(Eat(s), "tok_open_round", "EXPECTED_TOKEN")
           condition == Parsed("parseExpression", a)
           c == Expect(condition, "tok_close_round", "EXPECTED_TOKEN")
           then == Braces(c, "EXPECTED_TOKEN", TRUE)
           else == ElseBranch(then)
<1>1. "parseExpression" \in Methods \ Trusting
  BY DEF Methods, Trusting
<1>2. Underway(a, n, d)
  BY EatUnderway, ExpectOnCourse, OnCourseUnderway, CodesAre DEF EndTokens
<1> HIDE DEF a
<1>3. Underway(condition, n, d)
  BY <1>1, <1>2, CalledOnCourse, OnCourseUnderway
<1> HIDE DEF condition
<1>4. Underway(c, n, d)
  BY <1>3, ExpectOnCourse, OnCourseUnderway, CodesAre DEF EndTokens
<1> HIDE DEF c
<1>5. OnCourse(then, n, d) /\ Underway(then, n, d)
  BY <1>4, BracesOnCourse, CodesAre, OnCourseUnderway
<1> HIDE DEF then
<1>6. OnCourse(else, n, d)
  <2>1. Underway(Eat(then), n, d)
    BY <1>5, EatUnderway
  <2>2. OnCourse(ElseBlock(Eat(then)), n, d)
    BY <2>1, BracesOnCourse, FailOnCourse, CodesAre DEF ElseBlock
  <2>3. OnCourse(Give(then, Block(<<>>)), n, d)
    BY <1>5, GiveBlock
  <2> QED BY <2>2, <2>3 DEF ElseBranch
<1> HIDE DEF else
<1>7. OnCourse(Give(else, Node("If", NoText, NoText,
                 <<condition.node, then.node, else.node>>, {})), n, d)
  BY <1>6, GiveNode
<1> QED BY <1>5, <1>7 DEF parseIfStatement, a, condition, c, then, else

LEMMA ForHeaderUnderway ==
  ASSUME NEW s, NEW n, NEW d, Underway(s, n, d)
  PROVE  Underway(ForHeader(s), n, d)
<1> DEFINE a == Expect(Eat(s), "tok_open_round", "EXPECTED_TOKEN")
<1>1. Underway(a, n, d) /\ (IsNull(a) \/ Len(a.lex.buf) <= 2)
  BY EatUnderway, ExpectOnCourse, OnCourseUnderway, CodesAre DEF EndTokens
<1> HIDE DEF a
<1> QED BY <1>1, AheadUnderway DEF ForHeader, a

LEMMA ForInitialisationUnderway ==
  ASSUME NEW n, NEW d, CallsOnCourse(n, d), NEW s, Underway(s, n, d)
  PROVE  LET init == ForInitialisation(ForHeader(s))
         IN  OnCourse(init, n, d) /\ Underway(init, n, d)
<1> DEFINE h == ForHeader(s)
           init == ForInitialisation(h)
<1>1. "parseStatement" \in Methods \ Trusting
  BY DEF Methods, Trusting
<1>2. Underway(h, n, d)
  BY ForHeaderUnderway
<1> HIDE DEF h
<1>3. IsNull(h) => OnCourse(h, n, d)
  BY <1>2, NullOnCourse
<1>4. OnCourse(Fail(h, "EXPECTED_IDENTIFIER_NAME"), n, d)
      /\ OnCourse(Fail(h, "EXPECTED_TOKEN"), n, d)
  BY <1>2, FailOnCourse, CodesAre
<1>5. OnCourse(Parsed("parseStatement", h), n, d)
  BY <1>1, <1>2, CalledOnCourse
<1>6. OnCourse(init, n, d)
  BY <1>3, <1>4, <1>5 DEF ForInitialisation
<1> QED BY <1>6, OnCourseUnderway DEF h

LEMMA parseForStatementOnCourse ==
  ASSUME NEW n, NEW d, CallsOnCourse(n, d), NEW s, Underway(s, n, d)
  PROVE  OnCourse(parseForStatement(s), n, d)
<1> DEFINE h == ForHeader(s)
           init == ForInitialisation(h)
           condition == Blame(Parsed("parseStatement", init), "FOR_LOOP_FAILURE")
           i == [Parsed("parseExpression", condition) EXCEPT !.flag = FALSE]
           increment == Blame(i, "FOR_LOOP_FAILURE")
           c == Expect(increment, "tok_close_round", "EXPECTED_TOKEN")
           body == Braces(c, "EXPECTED_TOKEN", FALSE)
<1>1. "parseExpression" \in Methods \ Trusting
      /\ "parseStatement" \in Methods \ Trusting
  BY DEF Methods, Trusting
<1>2. OnCourse(init, n, d) /\ Underway(init, n, d)
  BY ForInitialisationUnderway
<1> HIDE DEF init
<1>4. OnCourse(condition, n, d) /\ Underway(condition, n, d)
  BY <1>1, <1>2, CalledOnCourse, BlameOnCourse, CodesAre, OnCourseUnderway
<1> HIDE DEF condition
<1>5. OnCourse(i, n, d)
  BY <1>1, <1>4, CalledOnCourse, FlagUnderway, OnCourseUnderway
<1> HIDE DEF i
<1>6. Underway(increment, n, d)
  BY <1>5, BlameOnCourse, CodesAre, OnCourseUnderway
<1> HIDE DEF increment
<1>7. Underway(c, n, d)
  BY <1>6, ExpectOnCourse, OnCourseUnderway, CodesAre DEF EndTokens
<1> HIDE DEF c
<1>8. OnCourse(body, n, d)
  BY <1>7, BracesOnCourse, CodesAre
<1> HIDE DEF body
<1>9. OnCourse(Give(body, Node("For", NoText, NoText,
        <<init.node, condition.node, increment.node, body.node>>, {})), n, d)
  BY <1>8, GiveNode
<1> QED BY <1>2, <1>4, <1>9
        DEF parseForStatement, h, init, condition, i, increment, c, body

LEMMA parseToPointerAssigmentOnCourse ==
  ASSUME NEW n, NEW d, CallsOnCourse(n, d), NEW s, Underway(s, n, d)
  PROVE  OnCourse(parseToPointerAssigment(s), n, d)
<1> DEFINE a == Eat(s)
           b == Expect(a, "tok_identifier", "EXPECTED_TOKEN")
           c == Expect(b, "tok_assigment_operator", "EXPECTED_TOKEN")
           r == Blame(Parsed("parseExpression", c), "UNEXPECTED_TOKEN_IN_EXPRESSION")
<1>1. "parseExpression" \in Methods \ Trusting
  BY DEF Methods, Trusting
<1>2. Underway(a, n, d)
  BY EatUnderway
<1> HIDE DEF a
<1>3. Underway(b, n, d)
  BY <1>2, ExpectOnCourse, OnCourseUnderway, CodesAre DEF EndTokens
<1> HIDE DEF b
<1>4. OnCourse(c, n, d) /\ Underway(c, n, d)
  BY <1>3, ExpectOnCourse, OnCourseUnderway, CodesAre DEF EndTokens
<1> HIDE DEF c
<1>5. OnCourse(r, n, d)
  BY <1>1, <1>4, CalledOnCourse, BlameOnCourse, CodesAre
<1> HIDE DEF r
<1>6. OnCourse(Give(r, Node("ToPointer", Ident(a), NoText, <<r.node>>,
                            {"isPointer"})), n, d)
  BY <1>5, GiveNode
<1> QED BY <1>4, <1>6 DEF parseToPointerAssigment, a, b, c, r

LEMMA parseDeclarationOnCourse ==
  ASSUME NEW n, NEW d, CallsOnCourse(n, d), NEW s, Underway(s, n, d)
  PROVE  OnCourse(parseDeclaration(s), n, d)
<1> DEFINE a == Ahead(s, 3)
<1>1. "parseFunction" \in Methods \ Trusting
  BY DEF Methods, Trusting
<1>2. Underway(a, n, d)
  BY AheadThree
<1> HIDE DEF a
<1>3. IsNull(a) => OnCourse(a, n, d)
  BY <1>2, NullOnCourse
<1>4. /\ OnCourse(Fail(a, "UNEXPECTED_TOKEN_IN_DECLARATION"), n, d)
      /\ OnCourse(Fail(a, "ERROR_IN_VOID_DATATYPE"), n, d)
  BY <1>2, FailOnCourse, CodesAre
<1>5. OnCourse(Parsed("parseFunction", a), n, d)
  BY <1>1, <1>2, CalledOnCourse
<1>6. OnCourse(parseAssigment(a), n, d)
  BY <1>2, parseAssigmentOnCourse
<1>7. OnCourse(Declaration(a), n, d)
  BY <1>4, <1>5, <1>6 DEF Declaration
<1> QED BY <1>3, <1>7 DEF parseDeclaration, DeclarationAhead, a

LEMMA ReturnStatementOnCourse ==
  ASSUME NEW n, NEW d, CallsOnCourse(n, d), NEW s, Underway(s, n, d)
  PROVE  OnCourse(ReturnStatement(s), n, d)
<1> DEFINE e == Dereferenced(Parsed("parseExpression", Eat(s)))
           v == [e.node EXCEPT !.flags = @ \cup {"isReturn"}]
<1>1. "parseExpression" \in Methods \ Trusting
  BY DEF Methods, Trusting
<1>2. OnCourse(e, n, d) /\ Underway(e, n, d)
  BY <1>1, EatUnderway, CalledOnCourse, DereferencedOnCourse, OnCourseUnderway
<1> HIDE DEF e
<1>3. ~IsNull(e) => IsNode(v) /\ v # Null
  <2> SUFFICES ASSUME ~IsNull(e) PROVE IsNode(v) /\ v # Null
    OBVIOUS
  <2>1. DOMAIN e.node = NodeFields
    BY <1>2, NotNullNode DEF IsNode
  <2>2. DOMAIN v = NodeFields /\ v.flags = e.node.flags \cup {"isReturn"}
    BY <2>1 DEF NodeFields
  <2>3. "isReturn" \in v.flags /\ "isReturn" \notin Null.flags
    BY <2>2 DEF Null, Node
  <2> HIDE DEF v
  <2> QED BY <2>2, <2>3 DEF IsNode
<1> HIDE DEF v
<1>4. OnCourse(Give(e, v), n, d)
  BY <1>2, <1>3, GiveUnderway
<1> QED BY <1>4 DEF ReturnStatement, e, v

LEMMA handleExpressionOnCourse ==
  ASSUME NEW n, NEW d, CallsOnCourse(n, d), NEW s, Underway(s, n, d)
  PROVE  OnCourse(handleExpression(s), n, d)
<1>1. "parseExpression" \in Methods \ Trusting
  BY DEF Methods, Trusting
<1> QED BY <1>1, CalledOnCourse, DereferencedOnCourse DEF handleExpression

(* What a statement that begins with no token of a statement is made: null *)
(* without a word, for which EndStatement finds one unless it is a lone    *)
(* semicolon.                                                              *)
LEMMA EmptyStatementOnCourse ==
  ASSUME NEW s, NEW n, NEW d, Underway(s, n, d), ~IsNull(s),
         Tok(s) \notin {"tok_if", "tok_for"}, ~isDatatype(Tok(s))
  PROVE  LET e == NoStatement(s)
         IN  OnCourse(EndStatement(s, e), n, d) /\ IsNull(EndStatement(s, e))
<1> DEFINE e == NoStatement(s)
<1>1. /\ DOMAIN e = Fields /\ e.node = Null /\ e.fault = s.fault
      /\ e.lex = s.lex /\ e.flag = s.flag /\ e.errs = s.errs
      /\ e.room = s.room /\ e.orderly = s.orderly /\ e.oob = s.oob
      /\ e.refused = s.refused
      /\ e.empty = (s.empty \/ Tok(s) = "tok_end_statement")
  BY DEF Underway, Fields, NoStatement
<1> HIDE DEF e
<1>2. /\ ~Faulted(e) /\ Tok(e) = Tok(s) /\ e.node.kind # "Function"
  BY <1>1, NotNullNode DEF Faulted, Tok, Null, Node
<1>3. CASE Tok(s) # "tok_end_statement"
  <2> DEFINE f == [e EXCEPT !.node = Null]
  <2>1. Lost(s, f)
    <3>1. e.empty = s.empty
      BY <1>1, <1>3 DEF Underway
    <3> QED BY <1>1, <3>1 DEF Lost, Fields
  <2>2. /\ OnCourse(Log(f, "EXPECTED_END_STATEMENT_TOKEN"), n, d)
        /\ IsNull(Log(f, "EXPECTED_END_STATEMENT_TOKEN"))
    BY <2>1, LogLost, CodesAre
  <2> HIDE DEF f
  <2>3. EndStatement(s, e) = Log(f, "EXPECTED_END_STATEMENT_TOKEN")
    BY <1>2, <1>3 DEF EndStatement, f
  <2> QED BY <2>2, <2>3 DEF e
<1>4. CASE Tok(s) = "tok_end_statement"
  <2>1. ~s.oob
    BY <1>4, TokenOnCourse DEF OnCourse, IsNull, EndTokens
  <2>2. IsNode(Null)
    BY DEF IsNode, Null, Node, NodeFields
  <2>3. Underway(e, n, d)
    BY <1>1, <1>4, <2>1, <2>2 DEF Underway, Explained, Reported
  <2>4. OnCourse(EatAnyway(e), n, d) /\ IsNull(EatAnyway(e))
    BY <1>1, <2>3, NullOnCourse, EatAnywayUnderway, EatAnywayNode DEF IsNull
  <2>5. Semicolon(e) = EatAnyway(e)
    BY <1>2, <1>4 DEF Semicolon
  <2>6. EndStatement(s, e) = [Semicolon(e) EXCEPT !.flag = FALSE]
    BY <1>2, <1>4 DEF EndStatement
  <2>7. /\ OnCourse([EatAnyway(e) EXCEPT !.flag = FALSE], n, d)
        /\ IsNull([EatAnyway(e) EXCEPT !.flag = FALSE])
    BY <2>4, FlagUnderway, OnCourseUnderway DEF IsNull
  <2> QED BY <2>5, <2>6, <2>7 DEF e
<1> QED BY <1>3, <1>4

LEMMA EndStatementOnCourse ==
  ASSUME NEW s, NEW n, NEW d, NEW e, OnCourse(e, n, d)
  PROVE  OnCourse(EndStatement(s, e), n, d)
<1>1. OnCourse(Log([e EXCEPT !.node = Null], "EXPECTED_END_STATEMENT_TOKEN"), n, d)
  BY LogNullOnCourse, CodesAre, OnCourseUnderway
<1>2. OnCourse(Semicolon(e), n, d)
  BY EatAnywayUnderway, OnCourseUnderway DEF Semicolon
<1>3. OnCourse([Semicolon(e) EXCEPT !.flag = FALSE], n, d)
  BY <1>2, FlagUnderway, OnCourseUnderway
<1> QED BY <1>1, <1>3 DEF EndStatement

LEMMA StatementBodyOnCourse ==
  ASSUME NEW n, NEW d, CallsOnCourse(n, d), NEW s, Underway(s, n, d)
  PROVE  \/ OnCourse(StatementBody(s), n, d)
         \/ /\ StatementBody(s) = NoStatement(s)
            /\ Tok(s) \notin {"tok_if", "tok_for"} /\ ~isDatatype(Tok(s))
<1>1. /\ "parseDeclaration" \in Methods \ Trusting
      /\ "parseExpression" \in Methods \ Trusting
      /\ "parseIfStatement" \in Methods \ Trusting
      /\ "parseForStatement" \in Methods \ Trusting
  BY DEF Methods, Trusting
<1>2. /\ OnCourse(parseExtern(s), n, d)
      /\ OnCourse(ReturnStatement(s), n, d)
      /\ OnCourse(Parsed("parseDeclaration", s), n, d)
      /\ OnCourse(Parsed("parseExpression", s), n, d)
      /\ OnCourse(Parsed("parseIfStatement", s), n, d)
      /\ OnCourse(Parsed("parseForStatement", s), n, d)
      /\ OnCourse(parseToPointerAssigment(s), n, d)
  BY <1>1, CalledOnCourse, parseExternOnCourse, ReturnStatementOnCourse,
     parseToPointerAssigmentOnCourse
<1> QED BY <1>2 DEF StatementBody

LEMMA parseStatementOnCourse ==
  ASSUME NEW n, NEW d, CallsOnCourse(n, d), NEW s, Underway(s, n, d), ~IsNull(s)
  PROVE  OnCourse(parseStatement(s), n, d)
BY StatementBodyOnCourse, EndStatementOnCourse, EmptyStatementOnCourse
   DEF parseStatement

(* Any method. *)
LEMMA MethodOnCourse ==
  ASSUME NEW n, NEW d, CallsOnCourse(n, d), NEW s, Underway(s, n, d), ~IsNull(s),
         NEW m \in Methods, m \in Trusting => OnCourse(s, n, d), NEW x
  PROVE  OnCourse(Method(m, s, x), n, d)
<1>1. CASE m = "parseIdentifier"
  <2>1. OnCourse(s, n, d)
    BY <1>1 DEF Trusting
  <2> QED BY <1>1, <2>1, parseIdentifierOnCourse DEF Method
<1>2. CASE m = "CallArguments"
  BY <1>2, CallArgumentsOnCourse DEF Method
<1>3. CASE m = "parseCast"
  BY <1>3, parseCastOnCourse DEF Method
<1>4. CASE m = "parseParen"
  BY <1>4, parseParenOnCourse DEF Method
<1>5. CASE m = "parsePrimary"
  BY <1>5, parsePrimaryOnCourse DEF Method
<1>6. CASE m = "parseBinOpRHS"
  <2>1. OnCourse(s, n, d)
    BY <1>6 DEF Trusting
  <2> QED BY <1>6, <2>1, parseBinOpRHSOnCourse DEF Method
<1>7. CASE m = "parseExpression"
  BY <1>7, parseExpressionOnCourse DEF Method
<1>8. CASE m = "parseArguments"
  BY <1>8, parseArgumentsOnCourse DEF Method
<1>9. CASE m = "parsePrototype"
  BY <1>9, parsePrototypeOnCourse DEF Method
<1>10. CASE m = "parseFunction"
  BY <1>10, parseFunctionOnCourse DEF Method
<1>11. CASE m = "parseStatementsUntillCurly"
  BY <1>11, parseStatementsUntillCurlyOnCourse DEF Method
<1>12. CASE m = "parseIfStatement"
  BY <1>12, parseIfStatementOnCourse DEF Method
<1>13. CASE m = "parseForStatement"
  BY <1>13, parseForStatementOnCourse DEF Method
<1>14. CASE m = "parseDeclaration"
  BY <1>14, parseDeclarationOnCourse DEF Method
<1>15. CASE m = "parseStatement"
  BY <1>15, parseStatementOnCourse DEF Method
<1>16. CASE m = "handleExpression"
  BY <1>16, handleExpressionOnCourse DEF Method
<1> QED BY <1>1, <1>2, <1>3, <1>4, <1>5, <1>6, <1>7, <1>8, <1>9, <1>10, <1>11,
           <1>12, <1>13, <1>14, <1>15, <1>16 DEF Methods

LEMMA RoomUnderway ==
  ASSUME NEW s, NEW n, NEW d, Underway(s, n, d), NEW k \in Nat
  PROVE  LET t == [s EXCEPT !.room = k]
         IN  /\ Underway(t, k, d)
             /\ OnCourse(s, n, d) => OnCourse(t, k, d)
             /\ t.node = s.node
<1> DEFINE t == [s EXCEPT !.room = k]
<1>1. /\ DOMAIN t = Fields /\ t.node = s.node /\ t.fault = s.fault
      /\ t.lex = s.lex /\ t.flag = s.flag /\ t.errs = s.errs
      /\ t.room = k /\ t.orderly = s.orderly /\ t.oob = s.oob
      /\ t.refused = s.refused /\ t.empty = s.empty
  BY DEF Underway, Fields
<1> HIDE DEF t
<1> QED BY <1>1 DEF Underway, OnCourse, Explained, Reported

(* One call more. *)
LEMMA DispatchOnCourse ==
  ASSUME NEW n \in Nat, NEW d,
         n # 0 => CallsOnCourse(n - 1, d),
         NEW s, Underway(s, n, d),
         NEW m \in Methods, m \in Trusting => OnCourse(s, n, d), NEW x
  PROVE  OnCourse(Dispatch(m, s, x), n, d)
<1>1. s.room = n
  BY DEF Underway
<1>2. CASE IsNull(s)
  BY <1>2, NullOnCourse DEF Dispatch
<1>3. CASE ~IsNull(s) /\ n = 0
  <2>1. "stack" \in Faults \ {"none"}
    BY DEF Faults
  <2>2. Dispatch(m, s, x) = Raise(s, "stack")
    BY <1>1, <1>3 DEF Dispatch
  <2> QED BY <2>1, <2>2, RaiseOnCourse
<1>4. CASE ~IsNull(s) /\ n # 0
  <2> DEFINE e == [s EXCEPT !.room = n - 1]
             t == Method(m, e, x)
  <2>1. n - 1 \in Nat /\ CallsOnCourse(n - 1, d)
    BY <1>4
  <2>2. /\ Underway(e, n - 1, d) /\ ~IsNull(e)
        /\ m \in Trusting => OnCourse(e, n - 1, d)
    BY <1>4, <2>1, RoomUnderway DEF IsNull
  <2> HIDE DEF e
  <2>3. OnCourse(t, n - 1, d)
    BY <2>1, <2>2, MethodOnCourse
  <2> HIDE DEF t
  <2>4. OnCourse([t EXCEPT !.room = n], n, d)
    BY <2>1, <2>3, RoomUnderway, OnCourseUnderway
  <2>5. Dispatch(m, s, x) = [t EXCEPT !.room = n]
    BY <1>1, <1>4 DEF Dispatch, t, e
  <2> QED BY <2>4, <2>5
<1> QED BY <1>2, <1>3, <1>4

(* All calls stay on course: by the least room for which one would not.    *)
LEMMA AllOnCourse ==
  ASSUME Recursion, NEW n \in Nat, NEW d
  PROVE  CallsOnCourse(n, d)
<1> DEFINE Bad == {k \in Nat : ~CallsOnCourse(k, d)}
<1>1. CASE Bad = {}
  BY <1>1
<1>2. CASE Bad # {}
  <2>1. PICK k \in Bad : \A j \in Bad : k <= j
    BY <1>2, LeastNat
  <2>2. k \in Nat /\ ~CallsOnCourse(k, d)
    BY <2>1
  <2>3. k # 0 => CallsOnCourse(k - 1, d)
    <3> SUFFICES ASSUME k # 0, ~CallsOnCourse(k - 1, d) PROVE FALSE
      OBVIOUS
    <3>1. k - 1 \in Bad
      BY <2>2
    <3> QED BY <2>1, <2>2, <3>1
  <2>4. CallsOnCourse(k, d)
    <3> SUFFICES ASSUME NEW m \in Methods, NEW s, NEW x, Underway(s, k, d),
                        m \in Trusting => OnCourse(s, k, d)
                 PROVE  OnCourse(Call(m, s, x), k, d)
      BY DEF CallsOnCourse
    <3>1. OnCourse(Dispatch(m, s, x), k, d)
      BY <2>2, <2>3, DispatchOnCourse
    <3>2. s.room \in Nat
      BY <2>2 DEF Underway
    <3> QED BY <3>1, <3>2 DEF Recursion
  <2> QED BY <2>2, <2>4
<1> QED BY <1>1, <1>2

-----------------------------------------------------------------------------
(***************************************************************************)
(* Where a statement ends.                                                 *)
(***************************************************************************)

(* The last token that was read before the one at which l stands is one    *)
(* that ends a statement, and the parse d has read it.                     *)
Closed(l, d) ==
  \E p \in d.from .. Place(l.cur) - 1 :
    /\ d.data[p].class = "word" /\ WordToken(d.data[p].text) \in Ending
    /\ \A q \in p + 1 .. Place(l.cur) - 1 : d.data[q].class = "newline"

(* What the calls leave behind, besides being on course: a block is left   *)
(* at its closing brace, a statement behind the end of one, and what is no *)
(* definition of a function never becomes one.                             *)
Closing == {"parseFunction", "parseIfStatement", "parseForStatement",
            "parseStatement"}
Plain == {"parseIdentifier", "parseCast", "parseParen", "parsePrimary",
          "parseExpression", "parsePrototype"}
IsFunction(s) == s.node.kind = "Function"

Finished(m, s, t, d) ==
  /\ ~IsNull(t) => /\ m = "parseStatementsUntillCurly" =>
                       Tok(t) = "tok_close_curly"
                   /\ m \in Closing => Closed(t.lex, d)
  /\ IsFunction(t) => /\ m \notin Plain
                      /\ m = "parseBinOpRHS" => IsFunction(s)
                      /\ m = "parseDeclaration" => Closed(t.lex, d)

CallsFinish(n, d) ==
  \A m \in Methods : \A s, x :
    Underway(s, n, d) /\ (m \in Trusting => OnCourse(s, n, d)) =>
      Finished(m, s, Call(m, s, x), d)

LEMMA CalledFinishes ==
  ASSUME NEW n, NEW d, CallsFinish(n, d), NEW s, Underway(s, n, d), NEW x,
         NEW m \in Methods \ Trusting
  PROVE  Finished(m, s, Call(m, s, x), d) /\ Finished(m, s, Parsed(m, s), d)
BY DEF CallsFinish, Parsed

LEMMA TrustedFinishes ==
  ASSUME NEW n, NEW d, CallsFinish(n, d), NEW s, OnCourse(s, n, d), NEW x,
         NEW m \in Trusting
  PROVE  Finished(m, s, Call(m, s, x), d) /\ Finished(m, s, Parsed(m, s), d)
<1>1. m \in Methods
  BY DEF Trusting, Methods
<1> QED BY <1>1, OnCourseUnderway DEF CallsFinish, Parsed

LEMMA EatAnywayCloses ==
  ASSUME NEW s, NEW n, NEW d, Underway(s, n, d), Strayless(d.data),
         Tok(s) \in Ending, ~IsNull(EatAnyway(s))
  PROVE  Closed(EatAnyway(s).lex, d)
<1> DEFINE g == Gettok(s.lex)
           p == Place(s.lex.cur)
<1>1. ~Faulted(s)
  <2>1. Faulted(s) => IsNull(s)
    BY DEF Underway, Faulted, IsNull
  <2> QED BY <2>1 DEF EatAnyway
<1>2. /\ Reading(s.lex) /\ s.lex.data = d.data /\ d.from \in Int
      /\ Placed(s.lex) /\ d.from <= p
  BY <1>1 DEF Underway, Faulted, Kept
<1>3. EatAnyway(s) = Lexed(s, g) /\ ~g.thrown /\ EatAnyway(s).lex = g
  <2>1. EatAnyway(s) = Lexed(s, g)
    BY <1>1 DEF EatAnyway
  <2>2. ~g.thrown
    <3> SUFFICES ASSUME g.thrown PROVE FALSE
      OBVIOUS
    <3>1. EatAnyway(s) = Raise([s EXCEPT !.lex = g], "throw")
      BY <2>1 DEF Lexed
    <3> DEFINE u == [s EXCEPT !.lex = g]
    <3>2. DOMAIN u = Fields
      BY DEF Underway, Fields
    <3> HIDE DEF u
    <3>3. Raise(u, "throw").node = Null
      BY <3>2 DEF Raise, Fields
    <3> QED BY <3>1, <3>3 DEF IsNull, u
  <2>3. Lexed(s, g) = [s EXCEPT !.lex = g]
    BY <2>2 DEF Lexed
  <2> HIDE DEF g
  <2> QED BY <2>1, <2>2, <2>3 DEF Underway, Fields
<1>4. ReadFrom(d.data, s.lex.cur.after, g.cur)
  BY <1>2, <1>3, GettokPlaced
<1> HIDE DEF g
<1>5. /\ p \in 1 .. Len(d.data) /\ Len(d.data) \in Nat
      /\ d.data[p].class = "word" /\ WordToken(d.data[p].text) \in Ending
  <2>1. Len(d.data) \in Nat
    BY <1>2, PlacedPlace
  <2> QED BY <1>2, <2>1 DEF Placed, Stands, Tok
<1>6. p + 1 = s.lex.cur.after
  <2>1. s.lex.cur.after \in Nat
    BY <1>2 DEF Reading, LexerState, MovableToken
  <2>2. s.lex.cur.tok \notin EndTokens
    BY DEF Tok, Ending, EndTokens
  <2> QED BY <2>1, <2>2 DEF Place
<1> HIDE DEF p
<1>7. /\ Place(g.cur) \in p + 1 .. Len(d.data) + 1
      /\ \A q \in p + 1 .. Len(d.data) :
           q < Place(g.cur) => d.data[q].class = "newline"
  BY <1>4, <1>6 DEF ReadFrom, Skipped
<1>8. p \in d.from .. Place(g.cur) - 1
  BY <1>2, <1>5, <1>7 DEF p
<1>9. \A q \in p + 1 .. Place(g.cur) - 1 : d.data[q].class = "newline"
  BY <1>5, <1>7
<1> QED BY <1>3, <1>5, <1>8, <1>9 DEF Closed

LEMMA EatCloses ==
  ASSUME NEW s, NEW n, NEW d, Underway(s, n, d), Strayless(d.data),
         Tok(s) \in Ending, ~IsNull(Eat(s))
  PROVE  Closed(Eat(s).lex, d)
<1>1. Eat(s) = EatAnyway(s)
  BY DEF Eat
<1> QED BY <1>1, EatAnywayCloses

LEMMA NullPlain == ASSUME NEW s, IsNull(s) PROVE ~IsFunction(s)
BY DEF IsNull, IsFunction, Null, Node

(* What is given stands where it was parsed. *)
LEMMA GiveKeeps ==
  ASSUME NEW s, NEW n, NEW d, Underway(s, n, d), NEW v, ~IsNull(Give(s, v))
  PROVE  /\ ~IsNull(s) /\ Give(s, v).lex = s.lex
         /\ Give(s, v).node = v /\ Tok(Give(s, v)) = Tok(s)
<1>1. ~IsNull(s) /\ Give(s, v) = [s EXCEPT !.node = v]
  BY DEF Give
<1>2. DOMAIN s = Fields
  BY DEF Underway
<1>3. Give(s, v).lex = s.lex /\ Give(s, v).node = v
  BY <1>1, <1>2 DEF Fields
<1> QED BY <1>1, <1>3 DEF Tok

LEMMA GivesPlain ==
  ASSUME NEW s, NEW n, NEW d, Underway(s, n, d),
         NEW kind, kind # "Function", NEW name, NEW type, NEW kids, NEW flags
  PROVE  LET t == Give(s, Node(kind, name, type, kids, flags))
         IN  ~IsFunction(t)
<1> DEFINE v == Node(kind, name, type, kids, flags)
<1>1. v.kind = kind
  BY DEF Node
<1> HIDE DEF v
<1>2. ~IsNull(Give(s, v)) => Give(s, v).node = v
  BY GiveKeeps
<1> QED BY <1>1, <1>2, NullPlain DEF IsFunction, v

LEMMA parsePrimaryFinishes ==
  ASSUME NEW n, NEW d, CallsFinish(n, d), NEW s, Underway(s, n, d)
  PROVE  Finished("parsePrimary", s, parsePrimary(s), d)
<1> DEFINE t == parsePrimary(s)
<1>1. /\ "parseParen" \in (Methods \ Trusting) \cap Plain
      /\ "parseIdentifier" \in Trusting \cap Plain
  BY DEF Methods, Trusting, Plain
<1>2. ASSUME Tok(s) = "tok_identifier" PROVE ~IsFunction(Parsed("parseIdentifier", s))
  <2>1. OnCourse(s, n, d)
    BY <1>2, TokenOnCourse DEF EndTokens
  <2> QED BY <1>1, <2>1, TrustedFinishes DEF Finished
<1>3. ~IsFunction(parseNumber(s)) /\ ~IsFunction(parseNullptr(s))
  BY EatUnderway, GivesPlain DEF parseNumber, parseNullptr
<1>4. ~IsFunction(Parsed("parseParen", s))
  BY <1>1, CalledFinishes DEF Finished
<1>5. ~IsFunction(parseDereference(s))
  <2>1. Underway(Expect(Eat(s), "tok_identifier", "EXPECTED_TOKEN"), n, d)
    BY EatUnderway, ExpectOnCourse, OnCourseUnderway, CodesAre DEF EndTokens
  <2> QED BY <2>1, GivesPlain DEF parseDereference
<1>6. ~IsFunction(Fail(s, "UNEXPECTED_TOKEN_IN_EXPRESSION"))
  BY FailOnCourse, CodesAre, NullPlain
<1>7. ~IsFunction(t)
  BY <1>2, <1>3, <1>4, <1>5, <1>6 DEF parsePrimary
<1> HIDE DEF t
<1>8. Finished("parsePrimary", s, t, d)
  BY <1>7 DEF Finished, Closing
<1> QED BY <1>8 DEF t

LEMMA parseIdentifierFinishes ==
  ASSUME NEW n, NEW d, CallsOnCourse(n, d), NEW s, OnCourse(s, n, d)
  PROVE  Finished("parseIdentifier", s, parseIdentifier(s), d)
<1> DEFINE a == Eat(s)
           b == Eat(a)
           args == IF Tok(b) = "tok_close_round" THEN Give(Eat(b), Block(<<>>))
                   ELSE Parsed("CallArguments", b)
           t == parseIdentifier(s)
<1>1. "CallArguments" \in Methods \ Trusting
  BY DEF Methods, Trusting
<1>2. OnCourse(a, n, d) /\ OnCourse(b, n, d) /\ OnCourse(Eat(b), n, d)
      /\ Underway(a, n, d) /\ Underway(b, n, d)
  BY EatOnCourse, OnCourseUnderway
<1> HIDE DEF a, b
<1>3. Underway(args, n, d)
  BY <1>1, <1>2, GiveBlock, CalledOnCourse, OnCourseUnderway
<1> HIDE DEF args
<1>4. \/ t = Give(a, Node("Variable", Ident(s), NoText, <<>>, {}))
      \/ t = Give(args, Node("Call", Ident(s), NoText, args.node.kids, {}))
  BY DEF parseIdentifier, a, b, args
<1> HIDE DEF t
<1>5. ~IsFunction(t)
  BY <1>2, <1>3, <1>4, GivesPlain
<1>6. Finished("parseIdentifier", s, t, d)
  BY <1>5 DEF Finished, Closing
<1> QED BY <1>6 DEF t

LEMMA parseCastFinishes ==
  ASSUME NEW n, NEW d, CallsOnCourse(n, d), NEW s, Underway(s, n, d)
  PROVE  Finished("parseCast", s, parseCast(s), d)
<1> DEFINE a == Eat(s)
           b == Eat(a)
           c == Expect(EatStar(b), "tok_close_round",
                       "UNEXPECTED_TOKEN_IN_EXPRESSION")
           r == Blame(Parsed("parseExpression", c), "CAST_ERROR")
           t == parseCast(s)
<1>1. "parseExpression" \in Methods \ Trusting
  BY DEF Methods, Trusting
<1>2. Underway(a, n, d) /\ Underway(b, n, d) /\ Underway(EatStar(b), n, d)
  BY EatUnderway, EatStarUnderway
<1> HIDE DEF a, b
<1>3. Underway(c, n, d)
  BY <1>2, ExpectOnCourse, CodesAre, OnCourseUnderway DEF EndTokens
<1> HIDE DEF c
<1>4. Underway(r, n, d)
  BY <1>1, <1>3, CalledOnCourse, BlameOnCourse, CodesAre, OnCourseUnderway
<1> HIDE DEF r
<1>5. \/ t = Give(r, Node("Cast", NoText, Tok(a), <<r.node>>, Pointer(b)))
      \/ IsNull(t)
  <2>1. IsNull(Fail(a, "UNEXPECTED_TOKEN_IN_EXPRESSION"))
        /\ IsNull(Fail(b, "ERROR_IN_VOID_DATATYPE"))
    BY <1>2, FailOnCourse, CodesAre
  <2> QED BY <2>1 DEF parseCast, CastTo, a, b, c, r
<1> HIDE DEF t
<1>6. ~IsFunction(t)
  BY <1>4, <1>5, GivesPlain, NullPlain
<1>7. Finished("parseCast", s, t, d)
  BY <1>6 DEF Finished, Closing
<1> QED BY <1>7 DEF t

LEMMA parseParenFinishes ==
  ASSUME NEW n, NEW d, CallsOnCourse(n, d), CallsFinish(n, d),
         NEW s, Underway(s, n, d)
  PROVE  Finished("parseParen", s, parseParen(s), d)
<1> DEFINE a == Ahead(s, 3)
           e == Parsed("parseExpression", Eat(a))
           t == parseParen(s)
<1>1. /\ "parseExpression" \in (Methods \ Trusting) \cap Plain
      /\ "parseCast" \in (Methods \ Trusting) \cap Plain
  BY DEF Methods, Trusting, Plain
<1>2. Underway(a, n, d) /\ Underway(Eat(a), n, d)
  BY AheadThree, EatUnderway
<1> HIDE DEF a
<1>3. /\ Underway(e, n, d)
      /\ ~IsFunction(e)
      /\ ~IsFunction(Parsed("parseCast", a))
  BY <1>1, <1>2, CalledOnCourse, OnCourseUnderway, CalledFinishes DEF Finished
<1> HIDE DEF e
<1>4. ~IsFunction(Parenthesised(e))
  <2>1. CASE Tok(e) = "tok_close_round"
    <3>1. Parenthesised(e) = EatAnyway(e)
      BY <2>1 DEF Parenthesised
    <3> QED BY <1>3, <3>1, EatAnywayNode, NullPlain DEF IsFunction
  <2>2. CASE Tok(e) # "tok_close_round"
    <3>1. Parenthesised(e) = Log([e EXCEPT !.node = Null], "EXPECTED_TOKEN")
      BY <2>2 DEF Parenthesised
    <3> QED BY <1>3, <3>1, LogNullOnCourse, CodesAre, NullPlain
  <2> QED BY <2>1, <2>2
<1>5. \/ IsNull(t) \/ t = Parsed("parseCast", a) \/ t = Parenthesised(e)
  BY DEF parseParen, a, e
<1> HIDE DEF t
<1>6. ~IsFunction(t)
  BY <1>3, <1>4, <1>5, NullPlain
<1>7. Finished("parseParen", s, t, d)
  BY <1>6 DEF Finished, Closing
<1> QED BY <1>7 DEF t

LEMMA parseBinOpRHSFinishes ==
  ASSUME NEW n, NEW d, CallsOnCourse(n, d), CallsFinish(n, d),
         NEW l, OnCourse(l, n, d), NEW prec
  PROVE  Finished("parseBinOpRHS", l, parseBinOpRHS(prec, l), d)
<1> DEFINE own == getTokPrecedence(l)
           r == Parsed("parsePrimary", Eat(l))
           rhs == IF own < getTokPrecedence(r)
                  THEN Call("parseBinOpRHS", r, own + 1) ELSE r
           binary == Node("Binary", Ident(l), NoText, <<l.node, rhs.node>>, {})
           e == Give(rhs, binary)
           t == parseBinOpRHS(prec, l)
<1>1. "parsePrimary" \in Methods \ Trusting /\ "parseBinOpRHS" \in Trusting
  BY DEF Methods, Trusting
<1>2. OnCourse(r, n, d)
  BY <1>1, EatOnCourse, OnCourseUnderway, CalledOnCourse
<1> HIDE DEF r
<1>3. OnCourse(Call("parseBinOpRHS", r, own + 1), n, d)
  BY <1>1, <1>2, TrustedOnCourse
<1>4. OnCourse(rhs, n, d)
  BY <1>2, <1>3
<1> HIDE DEF rhs
<1>5. OnCourse(e, n, d) /\ ~IsFunction(e)
  BY <1>4, GiveNode, GivesPlain, OnCourseUnderway
<1>6. t = l \/ t = Call("parseBinOpRHS", e, prec)
  BY DEF parseBinOpRHS, r, rhs
<1> HIDE DEF e, t
<1>7. Finished("parseBinOpRHS", e, Call("parseBinOpRHS", e, prec), d)
  BY <1>1, <1>5, TrustedFinishes
<1>8. IsFunction(t) => IsFunction(l)
  BY <1>5, <1>6, <1>7 DEF Finished
<1>9. Finished("parseBinOpRHS", l, t, d)
  BY <1>8 DEF Finished, Closing, Plain
<1> QED BY <1>9 DEF t

LEMMA parseExpressionFinishes ==
  ASSUME NEW n, NEW d, CallsOnCourse(n, d), CallsFinish(n, d),
         NEW s, Underway(s, n, d)
  PROVE  Finished("parseExpression", s, parseExpression(s), d)
<1> DEFINE l == Parsed("parsePrimary", s)
           t == parseExpression(s)
           b == Call("parseBinOpRHS", l, 0)
<1>1. /\ "parsePrimary" \in (Methods \ Trusting) \cap Plain
      /\ "parseBinOpRHS" \in Trusting
  BY DEF Methods, Trusting, Plain
<1>2. OnCourse(l, n, d) /\ Underway(l, n, d) /\ ~IsFunction(l)
  BY <1>1, CalledOnCourse, OnCourseUnderway, CalledFinishes DEF Finished
<1> HIDE DEF l
<1>3. ~IsFunction(b)
  BY <1>1, <1>2, TrustedFinishes DEF Finished
<1> HIDE DEF b
<1>4. ASSUME ~IsNull(l) PROVE ~IsFunction(Assignment(l))
  <2> DEFINE m == [l EXCEPT !.flag = TRUE]
             r == Blame(Parsed("parseExpression", Eat(m)), "EXPECTED_VARIABLE")
             v == [l.node EXCEPT !.kids = <<r.node>>]
             z == [l EXCEPT !.node = Null, !.refused = TRUE]
  <2>1. "parseExpression" \in Methods \ Trusting
    BY DEF Methods, Trusting
  <2>2. OnCourse(m, n, d)
    BY <1>2, FlagUnderway, OnCourseUnderway
  <2> HIDE DEF m
  <2>3. Underway(r, n, d)
    BY <2>1, <2>2, EatOnCourse, OnCourseUnderway, CalledOnCourse,
       BlameOnCourse, CodesAre
  <2> HIDE DEF r
  <2>4. IsNull(z)
    BY <1>2 DEF Underway, Fields, IsNull
  <2>5. v.kind = l.node.kind
    BY <1>2 DEF Underway, IsNode, NodeFields
  <2> HIDE DEF v, z
  <2>6. IsNull(Fail(r, "EXPECTED_VARIABLE"))
    BY <2>3, FailOnCourse, CodesAre
  <2>7. ~IsFunction(Give(r, v))
    <3>1. ~IsNull(Give(r, v)) => Give(r, v).node = v
      BY <2>3, GiveKeeps
    <3> QED BY <1>2, <2>5, <3>1, NullPlain DEF IsFunction
  <2> QED BY <2>4, <2>6, <2>7, NullPlain DEF Assignment, m, r, v, z
<1>5. t = b \/ (~IsNull(l) /\ t = Assignment(l))
  BY DEF parseExpression, l, b
<1> HIDE DEF t
<1>6. ~IsFunction(t)
  BY <1>3, <1>4, <1>5
<1>7. Finished("parseExpression", s, t, d)
  BY <1>6 DEF Finished, Closing
<1> QED BY <1>7 DEF t

LEMMA parsePrototypeFinishes ==
  ASSUME NEW n, NEW d, CallsOnCourse(n, d), NEW s, Underway(s, n, d)
  PROVE  Finished("parsePrototype", s, parsePrototype(s), d)
<1> DEFINE a == Eat(s)
           b == EatStar(a)
           c == Eat(b)
           e == Parsed("parseArguments", Eat(c))
           null == IF Tok(s) = "tok_void_ptr" THEN {"isNull"} ELSE {}
           f == Fail(c, "EXPECTED_TOKEN")
           t == parsePrototype(s)
<1>1. "parseArguments" \in Methods \ Trusting
  BY DEF Methods, Trusting
<1>2. Underway(b, n, d)
  BY EatUnderway, EatStarUnderway
<1>3. Underway(c, n, d) /\ Underway(Eat(c), n, d)
  BY <1>2, EatUnderway
<1> HIDE DEF a, b, c
<1>4. Underway(e, n, d)
  BY <1>1, <1>3, CalledOnCourse, OnCourseUnderway
<1>5. /\ IsNull(Fail(s, "EXPECTED_RETURN_DATATYPE"))
      /\ IsNull(Fail(b, "EXPECTED_IDENTIFIER_NAME"))
      /\ IsNull(f) /\ Underway(f, n, d)
  BY <1>2, <1>3, FailOnCourse, CodesAre, OnCourseUnderway
<1> HIDE DEF e, null, f
<1>6. ~IsFunction(EatAnyway(f))
  BY <1>5, EatAnywayNode, NullPlain DEF IsFunction
<1>7. \/ IsNull(t) \/ t = EatAnyway(f)
      \/ t = Give(e, Node("Prototype", Ident(b), Tok(s), e.node.kids,
                          {"isExtern"} \cup Pointer(a) \cup null))
  BY <1>5 DEF parsePrototype, a, b, c, e, f, null
<1> HIDE DEF t
<1>8. ~IsFunction(t)
  BY <1>4, <1>6, <1>7, GivesPlain, NullPlain
<1>9. Finished("parsePrototype", s, t, d)
  BY <1>8 DEF Finished, Closing
<1> QED BY <1>9 DEF t

LEMMA parseStatementsUntillCurlyFinishes ==
  ASSUME NEW n, NEW d, CallsOnCourse(n, d), CallsFinish(n, d),
         NEW s, Underway(s, n, d), NEW x
  PROVE  Finished("parseStatementsUntillCurly", s,
                  parseStatementsUntillCurly(s, x), d)
<1> DEFINE e == Parsed("parseStatement", s)
           rest == Call("parseStatementsUntillCurly", e, x)
           t == parseStatementsUntillCurly(s, x)
           v == Block(<<e.node>> \o rest.node.kids)
<1>1. "parseStatement" \in Methods \ Trusting
      /\ "parseStatementsUntillCurly" \in Methods \ Trusting
  BY DEF Methods, Trusting
<1>2. Underway(e, n, d)
  BY <1>1, CalledOnCourse, OnCourseUnderway
<1> HIDE DEF e
<1>3. Underway(rest, n, d)
  BY <1>1, <1>2, CalledOnCourse, OnCourseUnderway
<1>4. ~IsNull(rest) => Tok(rest) = "tok_close_curly"
  BY <1>1, <1>2, CalledFinishes DEF Finished
<1> HIDE DEF rest, v
<1>5. /\ IsNull(Fail(s, "EXPECTED_TOKEN")) /\ IsNull(Fail(e, "EXPECTED_TOKEN"))
  BY <1>2, FailOnCourse, CodesAre
<1>6. \/ IsNull(t)
      \/ Tok(s) = "tok_close_curly" /\ t = Give(s, Block(<<>>))
      \/ t = Give(rest, v)
  BY <1>5 DEF parseStatementsUntillCurly, e, rest, v
<1> HIDE DEF t
<1>7. ASSUME ~IsNull(t) PROVE Tok(t) = "tok_close_curly"
  BY <1>3, <1>4, <1>6, <1>7, GiveKeeps
<1>8. Finished("parseStatementsUntillCurly", s, t, d)
  BY <1>7 DEF Finished, Closing, Plain
<1> QED BY <1>8 DEF t

LEMMA BracesClose ==
  ASSUME NEW n, NEW d, CallsOnCourse(n, d), CallsFinish(n, d),
         Strayless(d.data), NEW s, Underway(s, n, d), NEW code \in Codes, NEW x,
         ~IsNull(Braces(s, code, x))
  PROVE  Closed(Braces(s, code, x).lex, d)
<1> DEFINE e == Expect(s, "tok_open_curly", code)
           body == Call("parseStatementsUntillCurly", e, x)
           t == Give(Eat(body), body.node)
<1>1. "parseStatementsUntillCurly" \in Methods \ Trusting
  BY DEF Methods, Trusting
<1>2. Underway(e, n, d)
  BY ExpectOnCourse, OnCourseUnderway DEF EndTokens
<1>3. Braces(s, code, x) = t
  BY DEF Braces
<1> HIDE DEF e
<1>4. /\ Underway(body, n, d) /\ Underway(Eat(body), n, d)
      /\ ~IsNull(body) => Tok(body) = "tok_close_curly"
      /\ IsNull(body) => IsNull(Eat(body))
  BY <1>1, <1>2, CalledOnCourse, CalledFinishes, EatUnderway, OnCourseUnderway
     DEF Finished
<1> HIDE DEF body
<1>5. ~IsNull(Eat(body)) /\ t.lex = Eat(body).lex
  BY <1>3, <1>4, GiveKeeps
<1>6. Closed(Eat(body).lex, d)
  BY <1>4, <1>5, EatCloses DEF Ending
<1> QED BY <1>3, <1>5, <1>6

LEMMA parseFunctionFinishes ==
  ASSUME NEW n, NEW d, CallsOnCourse(n, d), CallsFinish(n, d),
         Strayless(d.data), NEW s, Underway(s, n, d)
  PROVE  Finished("parseFunction", s, parseFunction(s), d)
<1> DEFINE proto == Parsed("parsePrototype", s)
           body == Braces(proto, "EXPECTED_TOKEN", FALSE)
           v == Node("Function", NoText, NoText,
             <<[proto.node EXCEPT !.flags = @ \ {"isExtern"}], body.node>>, {})
           t == Give(body, v)
<1>1. "parsePrototype" \in Methods \ Trusting
  BY DEF Methods, Trusting
<1>2. Underway(proto, n, d)
  BY <1>1, CalledOnCourse, OnCourseUnderway
<1>3. parseFunction(s) = t
  BY DEF parseFunction
<1> HIDE DEF proto
<1>4. /\ Underway(body, n, d)
      /\ ~IsNull(body) => Closed(body.lex, d)
  BY <1>2, BracesOnCourse, BracesClose, CodesAre, OnCourseUnderway
<1> HIDE DEF body, v
<1>5. ~IsNull(t) => Closed(t.lex, d)
  BY <1>4, GiveKeeps
<1> HIDE DEF t
<1>6. Finished("parseFunction", s, t, d)
  BY <1>5 DEF Finished, Plain
<1> QED BY <1>3, <1>6

LEMMA parseIfStatementFinishes ==
  ASSUME NEW n, NEW d, CallsOnCourse(n, d), CallsFinish(n, d),
         Strayless(d.data), NEW s, Underway(s, n, d)
  PROVE  Finished("parseIfStatement", s, parseIfStatement(s), d)
<1> DEFINE a == Expect(Eat(s), "tok_open_round", "EXPECTED_TOKEN")
           condition == Parsed("parseExpression", a)
           c == Expect(condition, "tok_close_round", "EXPECTED_TOKEN")
           then == Braces(c, "EXPECTED_TOKEN", TRUE)
           else == ElseBranch(then)
           v == Node("If", NoText, NoText,
                     <<condition.node, then.node, else.node>>, {})
           t == parseIfStatement(s)
<1>1. "parseExpression" \in Methods \ Trusting
  BY DEF Methods, Trusting
<1>2. Underway(a, n, d)
  BY EatUnderway, ExpectOnCourse, OnCourseUnderway, CodesAre DEF EndTokens
<1>3. t = IF IsNull(then) THEN then ELSE Give(else, v)
  BY DEF parseIfStatement
<1> HIDE DEF a
<1>4. Underway(condition, n, d)
  BY <1>1, <1>2, CalledOnCourse, OnCourseUnderway
<1> HIDE DEF condition
<1>5. Underway(c, n, d)
  BY <1>4, ExpectOnCourse, OnCourseUnderway, CodesAre DEF EndTokens
<1> HIDE DEF c
<1>6. /\ OnCourse(then, n, d) /\ Underway(then, n, d)
      /\ ~IsNull(then) => Closed(then.lex, d)
  BY <1>5, BracesOnCourse, BracesClose, CodesAre, OnCourseUnderway
<1> HIDE DEF then
<1>7. Underway(else, n, d) /\ (~IsNull(else) => Closed(else.lex, d))
  <2>1. Underway(Eat(then), n, d)
    BY <1>6, EatUnderway
  <2> DEFINE b == ElseBlock(Eat(then))
             g == Give(then, Block(<<>>))
  <2>2. Underway(b, n, d) /\ (~IsNull(b) => Closed(b.lex, d))
    BY <2>1, BracesOnCourse, BracesClose, FailOnCourse, CodesAre,
       OnCourseUnderway DEF ElseBlock
  <2>3. Underway(g, n, d)
    BY <1>6, GiveBlock, OnCourseUnderway
  <2>4. ~IsNull(g) => Closed(g.lex, d)
    BY <1>6, GiveKeeps
  <2> HIDE DEF b, g
  <2> QED BY <2>2, <2>3, <2>4 DEF ElseBranch, b, g
<1> HIDE DEF else, v
<1>8. ~IsNull(Give(else, v)) => Closed(Give(else, v).lex, d)
  BY <1>7, GiveKeeps
<1> HIDE DEF t
<1>9. Finished("parseIfStatement", s, t, d)
  <2>1. ~IsNull(t) => Closed(t.lex, d)
    BY <1>3, <1>8
  <2> QED BY <2>1 DEF Finished, Plain
<1> QED BY <1>9 DEF t

LEMMA parseForStatementFinishes ==
  ASSUME NEW n, NEW d, CallsOnCourse(n, d), CallsFinish(n, d),
         Strayless(d.data), NEW s, Underway(s, n, d)
  PROVE  Finished("parseForStatement", s, parseForStatement(s), d)
<1> DEFINE h == ForHeader(s)
           init == ForInitialisation(h)
           condition == Blame(Parsed("parseStatement", init), "FOR_LOOP_FAILURE")
           i == [Parsed("parseExpression", condition) EXCEPT !.flag = FALSE]
           increment == Blame(i, "FOR_LOOP_FAILURE")
           c == Expect(increment, "tok_close_round", "EXPECTED_TOKEN")
           body == Braces(c, "EXPECTED_TOKEN", FALSE)
           v == Node("For", NoText, NoText,
             <<init.node, condition.node, increment.node, body.node>>, {})
           t == parseForStatement(s)
<1>1. "parseExpression" \in Methods \ Trusting
      /\ "parseStatement" \in Methods \ Trusting
  BY DEF Methods, Trusting
<1>2. IsNull(t) \/ t = Give(body, v)
  BY DEF parseForStatement
<1>3. Underway(init, n, d)
  BY ForInitialisationUnderway
<1> HIDE DEF init, t
<1>4. Underway(condition, n, d)
  BY <1>1, <1>3, CalledOnCourse, BlameOnCourse, CodesAre, OnCourseUnderway
<1> HIDE DEF condition
<1>5. OnCourse(i, n, d)
  BY <1>1, <1>4, CalledOnCourse, FlagUnderway, OnCourseUnderway
<1> HIDE DEF i
<1>6. Underway(increment, n, d)
  BY <1>5, BlameOnCourse, CodesAre, OnCourseUnderway
<1> HIDE DEF increment
<1>7. Underway(c, n, d)
  BY <1>6, ExpectOnCourse, OnCourseUnderway, CodesAre DEF EndTokens
<1> HIDE DEF c
<1>8. /\ Underway(body, n, d)
      /\ ~IsNull(body) => Closed(body.lex, d)
  BY <1>7, BracesOnCourse, BracesClose, CodesAre, OnCourseUnderway
<1> HIDE DEF body, v
<1>9. ~IsNull(t) => Closed(t.lex, d)
  BY <1>2, <1>8, GiveKeeps
<1>10. Finished("parseForStatement", s, t, d)
  BY <1>9 DEF Finished, Plain
<1> QED BY <1>10 DEF t

LEMMA parseDeclarationFinishes ==
  ASSUME NEW n, NEW d, CallsOnCourse(n, d), CallsFinish(n, d),
         NEW s, Underway(s, n, d)
  PROVE  Finished("parseDeclaration", s, parseDeclaration(s), d)
<1> DEFINE a == Ahead(s, 3)
           f == Parsed("parseFunction", a)
           t == parseDeclaration(s)
<1>1. "parseFunction" \in (Methods \ Trusting) \cap Closing
  BY DEF Methods, Trusting, Closing
<1>2. Underway(a, n, d)
  BY AheadThree
<1> HIDE DEF a
<1>3. IsNull(Fail(a, "UNEXPECTED_TOKEN_IN_DECLARATION"))
      /\ IsNull(Fail(a, "ERROR_IN_VOID_DATATYPE"))
  BY <1>2, FailOnCourse, CodesAre
<1>4. ~IsNull(f) => Closed(f.lex, d)
  BY <1>1, <1>2, CalledFinishes DEF Finished
<1> HIDE DEF f
<1>5. ~IsFunction(parseAssigment(a))
  <2> DEFINE b == EatStar(Eat(a))
             r == Blame(Parsed("parseExpression", Eat(Eat(b))),
                        "CANNOT_GENERATE_RHS")
  <2>1. "parseExpression" \in Methods \ Trusting
    BY DEF Methods, Trusting
  <2>2. Underway(Eat(Eat(b)), n, d)
    BY <1>2, EatUnderway, EatStarUnderway
  <2> HIDE DEF b
  <2>3. Underway(r, n, d)
    BY <2>1, <2>2, CalledOnCourse, BlameOnCourse, CodesAre, OnCourseUnderway
  <2> HIDE DEF r
  <2> QED BY <2>3, GivesPlain DEF parseAssigment, b, r
<1>6. IsNull(t) \/ t = f \/ t = parseAssigment(a)
  BY <1>3 DEF parseDeclaration, DeclarationAhead, Declaration, a, f
<1> HIDE DEF t
<1>7. IsFunction(t) => Closed(t.lex, d)
  BY <1>4, <1>5, <1>6, NullPlain
<1>8. Finished("parseDeclaration", s, t, d)
  BY <1>7 DEF Finished, Closing, Plain
<1> QED BY <1>8 DEF t

(* Only a declaration makes a function a statement.                        *)
LEMMA StatementBodyCloses ==
  ASSUME NEW n, NEW d, CallsOnCourse(n, d), CallsFinish(n, d),
         NEW s, Underway(s, n, d)
  PROVE  LET e == StatementBody(s)
         IN  ~IsNull(e) /\ (Tok(s) \in {"tok_if", "tok_for"} \/ IsFunction(e))
               => Closed(e.lex, d)
<1> DEFINE e == StatementBody(s)
           r == Dereferenced(Parsed("parseExpression", Eat(s)))
           Good(t) == ~IsNull(t) /\ IsFunction(t) => Closed(t.lex, d)
<1>1. /\ "parseDeclaration" \in Methods \ Trusting
      /\ "parseExpression" \in (Methods \ Trusting) \cap Plain
      /\ "parsePrototype" \in (Methods \ Trusting) \cap Plain
      /\ "parseIfStatement" \in (Methods \ Trusting) \cap Closing
      /\ "parseForStatement" \in (Methods \ Trusting) \cap Closing
  BY DEF Methods, Trusting, Plain, Closing
<1>2. Underway(Eat(s), n, d)
  BY EatUnderway
<1>3. Good(parseExtern(s))
  <2>1. ~IsFunction(Parsed("parsePrototype", Eat(s)))
    BY <1>1, <1>2, CalledFinishes DEF Finished
  <2>2. IsNull(Fail(Eat(s), "EXPECTED_TYPE_AFTER_EXTERN"))
    BY <1>2, FailOnCourse, CodesAre
  <2> QED BY <2>1, <2>2 DEF parseExtern
<1>4. Good(ReturnStatement(s))
  <2> DEFINE p == Parsed("parseExpression", Eat(s))
             v == [r.node EXCEPT !.flags = @ \cup {"isReturn"}]
  <2>1. OnCourse(p, n, d) /\ ~IsFunction(p)
    BY <1>1, <1>2, CalledOnCourse, CalledFinishes DEF Finished
  <2>2. IsNull(r) \/ r = p
    <3>1. "null" \in Faults \ {"none"}
      BY DEF Faults
    <3> HIDE DEF p
    <3>2. IsNull(Raise(p, "null"))
      BY <2>1, <3>1, RaiseOnCourse, OnCourseUnderway
    <3> QED BY <3>2 DEF Dereferenced, p
  <2>3. Underway(r, n, d)
    BY <2>1, DereferencedOnCourse, OnCourseUnderway
  <2>4. ~IsFunction(r)
    BY <2>1, <2>2, NullPlain
  <2> HIDE DEF p, r
  <2>5. v.kind = r.node.kind
    BY <2>3 DEF Underway, IsNode, NodeFields
  <2> HIDE DEF v
  <2>6. ~IsNull(Give(r, v)) => Give(r, v).node = v
    BY <2>3, GiveKeeps
  <2>7. ReturnStatement(s) = Give(r, v)
    BY DEF ReturnStatement, r, v
  <2> QED BY <2>4, <2>5, <2>6, <2>7 DEF IsFunction
<1>5. Good(Parsed("parseDeclaration", s)) /\ Good(Parsed("parseExpression", s))
  BY <1>1, CalledFinishes DEF Finished
<1>6. Good(parseToPointerAssigment(s))
  <2> DEFINE b == Expect(Eat(s), "tok_identifier", "EXPECTED_TOKEN")
             c == Expect(b, "tok_assigment_operator", "EXPECTED_TOKEN")
             q == Blame(Parsed("parseExpression", c), "UNEXPECTED_TOKEN_IN_EXPRESSION")
  <2>1. Underway(b, n, d)
    BY <1>2, ExpectOnCourse, OnCourseUnderway, CodesAre DEF EndTokens
  <2> HIDE DEF b
  <2>2. Underway(c, n, d)
    BY <2>1, ExpectOnCourse, OnCourseUnderway, CodesAre DEF EndTokens
  <2> HIDE DEF c
  <2>3. Underway(q, n, d)
    BY <1>1, <2>2, CalledOnCourse, BlameOnCourse, CodesAre, OnCourseUnderway
  <2> HIDE DEF q
  <2> QED BY <2>3, GivesPlain DEF parseToPointerAssigment, b, c, q
<1>7. LET t == Parsed("parseIfStatement", s) IN ~IsNull(t) => Closed(t.lex, d)
  BY <1>1, CalledFinishes DEF Finished
<1>8. LET t == Parsed("parseForStatement", s) IN ~IsNull(t) => Closed(t.lex, d)
  BY <1>1, CalledFinishes DEF Finished
<1>9. IsNull(NoStatement(s))
  BY DEF NoStatement, Underway, Fields, IsNull
<1> HIDE DEF Good, e
<1>10. CASE Tok(s) \in {"tok_if", "tok_for"}
  <2>1. Tok(s) = "tok_if" => e = Parsed("parseIfStatement", s)
    BY DEF StatementBody, isDatatype, DataTypes, Operator, e
  <2>2. Tok(s) = "tok_for" => e = Parsed("parseForStatement", s)
    BY DEF StatementBody, isDatatype, DataTypes, Operator, e
  <2> QED BY <1>7, <1>8, <1>10, <2>1, <2>2 DEF e
<1>11. CASE Tok(s) \notin {"tok_if", "tok_for"}
  <2>1. IsNull(e) \/ Good(e)
    BY <1>3, <1>4, <1>5, <1>6, <1>9, <1>11 DEF StatementBody, e
  <2> QED BY <1>11, <2>1 DEF e, Good
<1> QED BY <1>10, <1>11

LEMMA parseStatementFinishes ==
  ASSUME NEW n, NEW d, CallsOnCourse(n, d), CallsFinish(n, d),
         Strayless(d.data), NEW s, Underway(s, n, d), ~IsNull(s)
  PROVE  Finished("parseStatement", s, parseStatement(s), d)
<1> DEFINE e == StatementBody(s)
           t == parseStatement(s)
           u == Semicolon(e)
           expectSemicolon == /\ Tok(s) \notin {"tok_if", "tok_for"}
                              /\ ~IsFunction(e)
<1> SUFFICES ASSUME ~IsNull(t) PROVE Closed(t.lex, d)
  BY DEF Finished, Plain, IsFunction
<1>1. CASE OnCourse(e, n, d)
  <2>1. ~IsNull(e) /\ ~expectSemicolon => Closed(e.lex, d)
    BY StatementBodyCloses
  <2>2. t = IF Faulted(e) \/ (isDatatype(Tok(s)) /\ IsNull(e)) THEN e
            ELSE IF expectSemicolon /\ Tok(e) # "tok_end_statement"
            THEN Log([e EXCEPT !.node = Null], "EXPECTED_END_STATEMENT_TOKEN")
            ELSE [u EXCEPT !.flag = FALSE]
    BY DEF parseStatement, EndStatement, IsFunction
  <2>3. Underway(e, n, d) /\ (Faulted(e) => IsNull(e))
    BY <1>1, OnCourseUnderway, NotNullNode
  <2>4. IsNull(Log([e EXCEPT !.node = Null], "EXPECTED_END_STATEMENT_TOKEN"))
    BY <2>3, LogNullOnCourse, CodesAre
  <2> HIDE DEF t, e
  <2>5. /\ t = [u EXCEPT !.flag = FALSE]
        /\ ~expectSemicolon \/ Tok(e) = "tok_end_statement"
    BY <2>2, <2>3, <2>4
  <2>6. Underway(u, n, d)
    BY <2>3, EatAnywayUnderway DEF Semicolon
  <2> HIDE DEF u
  <2>7. t.lex = u.lex /\ ~IsNull(u)
    BY <2>5, <2>6, FlagUnderway DEF IsNull
  <2>8. CASE Tok(e) = "tok_end_statement"
    BY <2>3, <2>7, <2>8, EatAnywayCloses DEF Semicolon, u, Ending
  <2>9. CASE Tok(e) # "tok_end_statement"
    <3>1. u = e
      BY <2>9 DEF Semicolon, u
    <3> QED BY <2>1, <2>5, <2>7, <2>9, <3>1 DEF e
  <2> QED BY <2>8, <2>9 DEF t
<1>2. CASE ~OnCourse(e, n, d)
  <2>1. e = NoStatement(s) /\ Tok(s) \notin {"tok_if", "tok_for"} /\ ~isDatatype(Tok(s))
    BY <1>2, StatementBodyOnCourse
  <2>2. IsNull(EndStatement(s, NoStatement(s)))
    BY <2>1, EmptyStatementOnCourse
  <2>3. t = EndStatement(s, e)
    BY DEF parseStatement
  <2> HIDE DEF t, e
  <2>4. IsNull(t)
    BY <2>1, <2>2, <2>3
  <2> QED BY <2>4 DEF t
<1> QED BY <1>1, <1>2

(* Any method, one call more, and all calls, as above.                     *)
LEMMA MethodFinishes ==
  ASSUME NEW n, NEW d, CallsOnCourse(n, d), CallsFinish(n, d),
         Strayless(d.data), NEW s, Underway(s, n, d), ~IsNull(s),
         NEW m \in Methods, m \in Trusting => OnCourse(s, n, d), NEW x
  PROVE  Finished(m, s, Method(m, s, x), d)
<1>1. CASE m \in {"CallArguments", "parseArguments", "handleExpression"}
  BY <1>1 DEF Finished, Closing, Plain
<1>2. CASE m = "parseIdentifier"
  <2>1. OnCourse(s, n, d)
    BY <1>2 DEF Trusting
  <2> QED BY <1>2, <2>1, parseIdentifierFinishes DEF Method
<1>3. CASE m = "parseCast"
  BY <1>3, parseCastFinishes DEF Method
<1>4. CASE m = "parseParen"
  BY <1>4, parseParenFinishes DEF Method
<1>5. CASE m = "parsePrimary"
  BY <1>5, parsePrimaryFinishes DEF Method
<1>6. CASE m = "parseBinOpRHS"
  <2>1. OnCourse(s, n, d)
    BY <1>6 DEF Trusting
  <2> QED BY <1>6, <2>1, parseBinOpRHSFinishes DEF Method
<1>7. CASE m = "parseExpression"
  BY <1>7, parseExpressionFinishes DEF Method
<1>8. CASE m = "parsePrototype"
  BY <1>8, parsePrototypeFinishes DEF Method
<1>9. CASE m = "parseFunction"
  BY <1>9, parseFunctionFinishes DEF Method
<1>10. CASE m = "parseStatementsUntillCurly"
  BY <1>10, parseStatementsUntillCurlyFinishes DEF Method
<1>11. CASE m = "parseIfStatement"
  BY <1>11, parseIfStatementFinishes DEF Method
<1>12. CASE m = "parseForStatement"
  BY <1>12, parseForStatementFinishes DEF Method
<1>13. CASE m = "parseDeclaration"
  BY <1>13, parseDeclarationFinishes DEF Method
<1>14. CASE m = "parseStatement"
  BY <1>14, parseStatementFinishes DEF Method
<1> QED BY <1>1, <1>2, <1>3, <1>4, <1>5, <1>6, <1>7, <1>8, <1>9, <1>10, <1>11,
           <1>12, <1>13, <1>14 DEF Methods

LEMMA DispatchFinishes ==
  ASSUME NEW n \in Nat, NEW d, Strayless(d.data),
         n # 0 => CallsOnCourse(n - 1, d) /\ CallsFinish(n - 1, d),
         NEW s, Underway(s, n, d),
         NEW m \in Methods, m \in Trusting => OnCourse(s, n, d), NEW x
  PROVE  Finished(m, s, Dispatch(m, s, x), d)
<1>1. s.room = n
  BY DEF Underway
<1>2. CASE IsNull(s)
  <2>1. Dispatch(m, s, x) = s
    BY <1>2 DEF Dispatch
  <2> QED BY <1>2, <2>1, NullPlain DEF Finished
<1>3. CASE ~IsNull(s) /\ n = 0
  <2>1. "stack" \in Faults \ {"none"}
    BY DEF Faults
  <2>2. Dispatch(m, s, x) = Raise(s, "stack") /\ IsNull(Raise(s, "stack"))
    BY <1>1, <1>3, <2>1, RaiseOnCourse DEF Dispatch
  <2> QED BY <2>2, NullPlain DEF Finished
<1>4. CASE ~IsNull(s) /\ n # 0
  <2> DEFINE e == [s EXCEPT !.room = n - 1]
             t == Method(m, e, x)
             r == [t EXCEPT !.room = n]
  <2>1. n - 1 \in Nat /\ CallsOnCourse(n - 1, d) /\ CallsFinish(n - 1, d)
    BY <1>4
  <2>2. /\ Underway(e, n - 1, d) /\ ~IsNull(e)
        /\ m \in Trusting => OnCourse(e, n - 1, d)
    BY <1>4, <2>1, RoomUnderway DEF IsNull
  <2>3. IsFunction(e) => IsFunction(s)
    BY <2>1, RoomUnderway DEF IsFunction
  <2> HIDE DEF e
  <2>4. Underway(t, n - 1, d) /\ Finished(m, e, t, d)
    BY <2>1, <2>2, MethodOnCourse, MethodFinishes, OnCourseUnderway
  <2> HIDE DEF t
  <2>5. r.node = t.node /\ r.lex = t.lex
    BY <2>4 DEF Underway, Fields
  <2> HIDE DEF r
  <2>6. Finished(m, s, r, d)
    BY <2>3, <2>4, <2>5 DEF Finished, IsNull, IsFunction, Tok
  <2>7. Dispatch(m, s, x) = r
    BY <1>1, <1>4 DEF Dispatch, t, e, r
  <2> QED BY <2>6, <2>7
<1> QED BY <1>2, <1>3, <1>4

LEMMA AllFinish ==
  ASSUME Recursion, NEW n \in Nat, NEW d, Strayless(d.data)
  PROVE  CallsFinish(n, d)
<1> DEFINE Bad == {k \in Nat : ~CallsFinish(k, d)}
<1>1. CASE Bad = {}
  BY <1>1
<1>2. CASE Bad # {}
  <2>1. PICK k \in Bad : \A j \in Bad : k <= j
    BY <1>2, LeastNat
  <2>2. k \in Nat /\ ~CallsFinish(k, d)
    BY <2>1
  <2>3. k # 0 => CallsOnCourse(k - 1, d) /\ CallsFinish(k - 1, d)
    <3> SUFFICES ASSUME k # 0
                 PROVE  CallsOnCourse(k - 1, d) /\ CallsFinish(k - 1, d)
      OBVIOUS
    <3>1. k - 1 \in Nat
      BY <2>2
    <3>2. CallsOnCourse(k - 1, d)
      BY <3>1, AllOnCourse
    <3>3. k - 1 \notin Bad
      BY <2>1, <2>2
    <3> QED BY <3>1, <3>2, <3>3
  <2>4. CallsFinish(k, d)
    <3> SUFFICES ASSUME NEW m \in Methods, NEW s, NEW x, Underway(s, k, d),
                        m \in Trusting => OnCourse(s, k, d)
                 PROVE  Finished(m, s, Call(m, s, x), d)
      BY DEF CallsFinish
    <3>1. Finished(m, s, Dispatch(m, s, x), d)
      BY <2>2, <2>3, DispatchFinishes
    <3>2. s.room \in Nat
      BY <2>2 DEF Underway
    <3> QED BY <3>1, <3>2 DEF Recursion
  <2> QED BY <2>2, <2>4
<1> QED BY <1>1, <1>2
-----------------------------------------------------------------------------
(***************************************************************************)
(* The front end.                                                          *)
(***************************************************************************)
Assumptions == /\ TextsAssumption /\ ModesAssumption /\ BoundsAssumption
               /\ GarbageAssumption /\ MaxCallsAssumption

DiagnosticOK == diagnostic \in Seq(Codes)

(* A text that is being read is in the lexer, which stands in it if it has *)
(* no stray lexeme; a line of the REPL is looked at before anything of it  *)
(* is buffered.                                                            *)
TextAtHand ==
  /\ pc \in {"module", "repl"} =>
       Reading(lex) /\ (Strayless(lex.data) => Placed(lex))
  /\ pc = "repl" => lex.buf = <<>>

(* What the last parse keeps, which is about its outcome and its text. *)
Promises ==
  /\ LookAheadOrderly
  /\ AcceptedSilently
  /\ StatementEndsAtBoundary
  /\ FailedLookAheadReported
  /\ RefusalExplained

Inv == TypeOK /\ DiagnosticOK /\ TextAtHand /\ Promises

LEMMA PromisesKept ==
  ASSUME Promises, outcome' = outcome, lex'.data = lex.data
  PROVE  Promises'
<1>1. Accepted' = Accepted /\ Refused' = Refused /\ Scannable' = Scannable
  BY DEF Accepted, Refused, Scannable
<1>2. LookAheadOrderly' /\ AcceptedSilently'
  BY <1>1 DEF Promises, LookAheadOrderly, AcceptedSilently
<1>3. FailedLookAheadReported' /\ RefusalExplained'
  BY <1>1 DEF Promises, FailedLookAheadReported, RefusalExplained
<1>4. StatementEndsAtBoundary' = StatementEndsAtBoundary
  BY <1>1 DEF StatementEndsAtBoundary
<1> QED BY <1>2, <1>3, <1>4 DEF Promises

(* No parse promises nothing. *)
LEMMA NothingPromised ==
  ASSUME outcome.op = "none", outcome.orderly = TRUE, outcome.oob = FALSE
  PROVE  Promises
BY DEF Promises, LookAheadOrderly, AcceptedSilently, StatementEndsAtBoundary,
       FailedLookAheadReported, RefusalExplained, Accepted, Refused

LEMMA InitInv == ASSUME Init, Assumptions PROVE Inv
<1>1. /\ NewLexer \in LexerState
      /\ NewLexer.start <= Len(NewLexer.data) + 1
  <2>1. /\ <<>> \in Seq(Lexeme) /\ <<>> \in Seq(MovableToken)
        /\ Len(<<>>) = 0
    OBVIOUS
  <2>2. [tok |-> "tok_eof", ident |-> NoText, value |-> NoText, after |-> 0]
          \in MovableToken
    BY DEF MovableToken, Tokens, EndTokens
  <2> QED BY <2>1, <2>2 DEF NewLexer, LexerState
<1>2. /\ outcome.op = "none" /\ outcome.fault = "none" /\ outcome.orderly = TRUE
      /\ outcome.oob = FALSE
  BY DEF Init, NoOutcome
<1>3. diagnostic \in Seq(Codes) /\ Len(diagnostic) = 0
  BY DEF Init
<1>4. MaxErrors \in Nat /\ MaxInputs \in Nat
  BY DEF Assumptions, BoundsAssumption
<1>5. TypeOK
  <2>1. lex \in LexerState /\ lex.start <= Len(lex.data) + 1
    BY <1>1 DEF Init
  <2>2. inputs \in 0 .. MaxInputs /\ Len(diagnostic) <= MaxErrors
    BY <1>3, <1>4 DEF Init
  <2> QED BY <1>2, <2>1, <2>2 DEF Init, TypeOK
<1>6. Promises
  BY <1>2, NothingPromised
<1> QED BY <1>3, <1>5, <1>6 DEF Init, Inv, DiagnosticOK, TextAtHand

(* The parse that begins at lx. *)
Begun(lx) == [data |-> lx.data, from |-> CurrentIndex(lx)]

LEMMA ParseStateUnderway ==
  ASSUME Assumptions, NEW lx, Reading(lx), Strayless(lx.data) => Placed(lx),
         NEW fl \in BOOLEAN, NEW g
  PROVE  OnCourse(ParseState(lx, fl, g), MaxCalls, Begun(lx))
<1> DEFINE s == ParseState(lx, fl, g)
           d == Begun(lx)
<1> SUFFICES OnCourse(s, MaxCalls, d)
  OBVIOUS
<1>1. /\ DOMAIN s = Fields /\ s.node = None /\ s.fault = "none"
      /\ s.lex = lx /\ s.flag = fl /\ s.errs = <<>> /\ s.room = MaxCalls
      /\ s.orderly = TRUE /\ s.oob = FALSE /\ s.refused = FALSE
      /\ s.empty = FALSE
  BY DEF ParseState, Fields
<1>2. IsNode(None) /\ None # Null
  BY MadeNode DEF None, Block
<1>3. MaxCalls \in Nat /\ <<>> \in Seq(Codes) /\ "none" \in Faults
  BY DEF Assumptions, MaxCallsAssumption, Faults
<1>4. /\ d.data = lx.data /\ d.from = Place(lx.cur) /\ d.from \in Int
      /\ d.from <= Place(lx.cur)
  <2>1. lx.cur.after \in Nat
    BY DEF Reading, LexerState, MovableToken
  <2> QED BY <2>1 DEF Begun, CurrentIndex, Place
<1> HIDE DEF s, d
<1> QED BY <1>1, <1>2, <1>3, <1>4 DEF OnCourse, Underway, Kept

LEMMA EndsOnCourse ==
  ASSUME Recursion, Assumptions, NEW lx, Reading(lx), flag \in BOOLEAN,
         Strayless(lx.data) => Placed(lx),
         NEW op \in Methods \ Trusting, NEW s \in Ends(op, lx)
  PROVE  /\ OnCourse(s, MaxCalls, Begun(lx))
         /\ Strayless(lx.data) /\ op = "parseStatement" /\ ~IsNull(s) =>
              Closed(s.lex, Begun(lx))
<1>1. PICK g \in Garbage : s = Parsed(op, ParseState(lx, flag, g))
  <2>1. Garbage # {}
    BY DEF Assumptions, GarbageAssumption
  <2>2. Usual \in Garbage
    BY <2>1 DEF Usual
  <2> QED BY <2>2 DEF Ends, EndsOf, Runs
<1>2. MaxCalls \in Nat
  BY DEF Assumptions, MaxCallsAssumption
<1>3. Underway(ParseState(lx, flag, g), MaxCalls, Begun(lx))
  BY ParseStateUnderway, OnCourseUnderway
<1>4. OnCourse(s, MaxCalls, Begun(lx))
  BY <1>1, <1>2, <1>3, AllOnCourse, CalledOnCourse
<1>5. ASSUME Strayless(lx.data), op = "parseStatement", ~IsNull(s)
      PROVE  Closed(s.lex, Begun(lx))
  <2>1. Strayless(Begun(lx).data) /\ op \in Closing
    BY <1>5 DEF Begun, Closing
  <2>2. Finished(op, ParseState(lx, flag, g), s, Begun(lx))
    BY <1>1, <1>2, <1>3, <2>1, AllFinish, CalledFinishes
  <2> QED BY <1>5, <2>1, <2>2 DEF Finished
<1> QED BY <1>4, <1>5

LEMMA EndingWord ==
  ASSUME NEW str, WordToken(str) \in Ending
  PROVE  str \in {";", "}"}
BY DEF WordToken, isBuiltInKeyword, Ending

LEMMA RememberCodes ==
  ASSUME Inv, Assumptions, NEW codes \in Seq(Codes)
  PROVE  /\ Remember(codes) \in Seq(Codes)
         /\ Len(Remember(codes)) <= MaxErrors
<1> DEFINE all == diagnostic \o codes
           k == IF Len(all) < MaxErrors THEN Len(all) ELSE MaxErrors
<1>1. all \in Seq(Codes) /\ Len(all) \in Nat
  BY ConcatProperties, LenProperties DEF Inv, DiagnosticOK
<1>2. MaxErrors \in Nat \ {0}
  BY DEF Assumptions, BoundsAssumption
<1> HIDE DEF all
<1>3. k \in Nat /\ k <= Len(all) /\ k <= MaxErrors
  BY <1>1, <1>2
<1> HIDE DEF k
<1>4. SubSeq(all, 1, k) \in Seq(Codes) /\ Len(SubSeq(all, 1, k)) = k
  BY <1>1, <1>3, SubSeqProperties
<1> QED BY <1>3, <1>4 DEF Remember, all, k

(* Every parse that is made. *)
LEMMA ParseInv ==
  ASSUME Recursion, Assumptions, Inv, NEW lx, Reading(lx),
         Strayless(lx.data) => Placed(lx),
         NEW op \in {"parseStatement", "parseFunction", "handleExpression"},
         NEW next \in {"ready", "module", "crashed"},
         Parse(op, lx, next), inputs' = inputs, turn' \in BOOLEAN
  PROVE  Inv'
<1>1. op \in Methods \ Trusting /\ op # "none"
  BY DEF Methods, Trusting
<1>2. flag \in BOOLEAN
  BY DEF Inv, TypeOK
<1>3. PICK s \in Ends(op, lx) :
        /\ lex' = s.lex /\ flag' = s.flag /\ diagnostic' = Remember(s.errs)
        /\ outcome' = OutcomeOf(op, lx, s)
        /\ pc' = IF Faulted(s) THEN "crashed" ELSE next
  BY DEF Parse
<1>4. /\ OnCourse(s, MaxCalls, Begun(lx))
      /\ Strayless(lx.data) /\ op = "parseStatement" /\ ~IsNull(s) =>
           Closed(s.lex, Begun(lx))
  BY <1>1, <1>2, EndsOnCourse
<1>5. /\ Reading(s.lex) /\ s.flag \in BOOLEAN /\ s.errs \in Seq(Codes)
      /\ s.fault \in Faults /\ s.orderly = TRUE
      /\ s.node # Null => s.errs = <<>> /\ s.fault = "none" /\ ~s.oob
      /\ s.node = Null => Explained(s)
      /\ s.oob => s.node = Null /\ Reported(s)
      /\ s.lex.data = lx.data
      /\ ~Faulted(s) /\ Strayless(s.lex.data) => Placed(s.lex)
  BY <1>4 DEF OnCourse, Underway, Faulted, Kept, Begun
<1>6. /\ outcome'.op = op /\ outcome'.node = s.node /\ outcome'.errs = s.errs
      /\ outcome'.fault = s.fault /\ outcome'.orderly = s.orderly
      /\ outcome'.oob = s.oob /\ outcome'.refused = s.refused
      /\ outcome'.empty = s.empty
  BY <1>3 DEF OutcomeOf
<1>7. diagnostic' \in Seq(Codes) /\ Len(diagnostic') <= MaxErrors
  BY <1>3, <1>5, RememberCodes
<1>8. TypeOK'
  BY <1>3, <1>5, <1>6, <1>7 DEF Inv, TypeOK, Faults, Reading
<1>9. TextAtHand'
  BY <1>3, <1>5 DEF TextAtHand
<1>10. /\ LookAheadOrderly' /\ AcceptedSilently'
       /\ FailedLookAheadReported' /\ RefusalExplained'
  BY <1>1, <1>5, <1>6
     DEF LookAheadOrderly, AcceptedSilently, FailedLookAheadReported,
         RefusalExplained, Accepted, Refused, Explained, Reported
<1>11. StatementEndsAtBoundary'
  <2> SUFFICES ASSUME s.node # Null, op = "parseStatement", Scannable'
               PROVE  \E p \in CurrentIndex(lx) .. CurrentIndex(s.lex) - 1 :
                        /\ lx.data[p].class = "word"
                        /\ lx.data[p].text \in {";", "}"}
                        /\ \A q \in p + 1 .. CurrentIndex(s.lex) - 1 :
                             lx.data[q].class = "newline"
    <3>1. /\ outcome'.from = CurrentIndex(lx)
          /\ outcome'.upto = CurrentIndex(s.lex) /\ lex'.data = lx.data
      BY <1>3, <1>5 DEF OutcomeOf
    <3>2. StatementEndsAtBoundary' =
            (Accepted /\ outcome.op = "parseStatement" /\ Scannable =>
               \E p \in outcome.from .. outcome.upto - 1 :
                 /\ lex.data[p].class = "word" /\ lex.data[p].text \in {";", "}"}
                 /\ \A q \in p + 1 .. outcome.upto - 1 :
                      lex.data[q].class = "newline")'
      BY DEF StatementEndsAtBoundary
    <3> QED BY <1>6, <3>1, <3>2 DEF Accepted
  <2>1. Strayless(lx.data)
    BY <1>3, <1>5 DEF Scannable, Strayless
  <2>2. CurrentIndex(lx) = Begun(lx).from /\ lx.data = Begun(lx).data
        /\ CurrentIndex(s.lex) = Place(s.lex.cur)
    BY DEF Begun, CurrentIndex, Place
  <2>3. Closed(s.lex, Begun(lx))
    BY <1>4, <2>1 DEF IsNull
  <2> QED BY <2>2, <2>3, EndingWord DEF Closed
<1> QED BY <1>7, <1>8, <1>9, <1>10, <1>11 DEF Inv, Promises, DiagnosticOK

LEMMA lookAheadStatementReads ==
  ASSUME NEW lx, Reading(lx), lx.buf = <<>>, Strayless(lx.data) => Placed(lx)
  PROVE  LET a == lookAheadStatement(lx)
         IN  /\ Reading(a.lex) /\ a.lex.data = lx.data
             /\ a.kind \in {"tok_expression_repl", "tok_function_repl"} =>
                  (Strayless(a.lex.data) => Placed(a.lex))
<1> DEFINE l == lookAhead(lx, 2)
           a == lookAheadStatement(lx)
<1>1. Len(lx.buf) <= 2
  OBVIOUS
<1>2. Reading(l.lex) /\ l.lex.data = lx.data /\ (l.ok => ~l.lex.thrown)
  BY <1>1, LookAheadReads
<1>3. ~l.lex.thrown => (Strayless(lx.data) => Placed(l.lex))
  BY <1>1, LookAheadPlaced
<1> HIDE DEF l
<1>4. \/ a.lex = lx
      \/ /\ a.lex = l.lex
         /\ l.ok \/ a.kind = "tok_invalid_repl"
  BY DEF lookAheadStatement, l
<1> HIDE DEF a
<1>5. Reading(a.lex) /\ a.lex.data = lx.data
  BY <1>2, <1>4
<1>6. ASSUME a.kind \in {"tok_expression_repl", "tok_function_repl"},
             Strayless(a.lex.data)
      PROVE  Placed(a.lex)
  BY <1>2, <1>3, <1>4, <1>5, <1>6
<1> QED BY <1>5, <1>6 DEF a

LEMMA initFromStringReads ==
  ASSUME NEW lx \in LexerState, NEW t \in Seq(Lexeme)
  PROVE  /\ Reading(initFromString(lx, t))
         /\ initFromString(lx, t).buf = <<>>
         /\ initFromString(lx, t).data = t
<1> DEFINE l == initFromString(lx, t)
<1>1. /\ l.data = t /\ l.start = 1 /\ l.buf = <<>> /\ l \in LexerState
  <2>1. <<>> \in Seq(MovableToken)
    OBVIOUS
  <2> QED BY <2>1 DEF initFromString, LexerState, MovableToken
<1>2. Len(t) \in Nat
  BY LenProperties
<1> HIDE DEF l
<1>3. Reading(l)
  BY <1>1, <1>2 DEF Reading
<1> QED BY <1>1, <1>3 DEF l

LEMMA NextInv ==
  ASSUME Recursion, Assumptions, Inv, [Next]_vars
  PROVE  Inv'
<1>1. CASE InitFromString
  <2>1. PICK t \in IF inputs = 0 THEN Texts ELSE Sessions, m \in Modes :
          /\ lex' = Gettok(initFromString(lex, t))
          /\ pc' = IF lex'.thrown THEN "crashed" ELSE m
    BY <1>1 DEF InitFromString
  <2>2. t \in Seq(Lexeme) /\ m \in {"module", "repl"}
    BY DEF Assumptions, TextsAssumption, ModesAssumption
  <2>3. /\ Reading(lex') /\ lex'.buf = <<>>
        /\ ~lex'.thrown => (Strayless(lex'.data) => Placed(lex'))
    <3> DEFINE l == initFromString(lex, t)
    <3>1. Reading(l) /\ l.buf = <<>>
      BY <2>2, initFromStringReads DEF Inv, TypeOK
    <3> HIDE DEF l
    <3>2. Reading(Gettok(l)) /\ Len(Gettok(l).buf) = 0
          /\ Gettok(l).data = l.data
      BY <3>1, GettokReads
    <3>3. Gettok(l).buf = <<>>
      BY <3>2, EmptySeq DEF Reading, LexerState
    <3>4. ~Gettok(l).thrown /\ Strayless(Gettok(l).data) => Placed(Gettok(l))
      BY <3>1, <3>2, GettokScansPlaced
    <3> QED BY <2>1, <3>2, <3>3, <3>4 DEF l
  <2>4. /\ outcome'.op = "none" /\ outcome'.fault = "none"
        /\ outcome'.orderly = TRUE /\ outcome'.oob = FALSE
    BY <1>1 DEF InitFromString, NoOutcome
  <2>5. inputs' \in 0 .. MaxInputs
    <3>1. MaxInputs \in Nat /\ inputs \in Nat
      BY DEF Assumptions, BoundsAssumption, Inv, TypeOK
    <3> QED BY <1>1, <3>1 DEF InitFromString
  <2>6. TypeOK'
    BY <1>1, <2>1, <2>2, <2>3, <2>4, <2>5
       DEF InitFromString, Inv, TypeOK, Reading
  <2>7. Promises'
    BY <2>4 DEF Promises, LookAheadOrderly, AcceptedSilently,
       StatementEndsAtBoundary, FailedLookAheadReported, RefusalExplained,
       Accepted, Refused
  <2> QED BY <1>1, <2>1, <2>3, <2>6, <2>7
          DEF InitFromString, Inv, DiagnosticOK, TextAtHand
<1>2. CASE ModuleStatement
  <2>1. /\ Reading(lex) /\ turn' \in BOOLEAN
        /\ Strayless(lex.data) => Placed(lex)
    BY <1>2 DEF ModuleStatement, Inv, TextAtHand, TypeOK
  <2> QED BY <1>2, <2>1, ParseInv DEF ModuleStatement
<1>3. CASE ModuleEnd
  <2>1. Promises'
    BY <1>3, PromisesKept DEF ModuleEnd, Inv
  <2> QED BY <1>3, <2>1 DEF ModuleEnd, Inv, TypeOK, DiagnosticOK, TextAtHand
<1>4. CASE ReplIgnore
  <2>1. /\ Reading(lookAheadStatement(lex).lex)
        /\ lookAheadStatement(lex).lex.data = lex.data
    BY <1>4, lookAheadStatementReads DEF ReplIgnore, Inv, TextAtHand
  <2>2. /\ lex' = lookAheadStatement(lex).lex
        /\ pc' \in {"ready", "crashed"}
        /\ UNCHANGED <<flag, diagnostic, outcome, inputs, turn>>
    BY <1>4 DEF ReplIgnore
  <2>3. Promises'
    BY <2>1, <2>2, PromisesKept DEF Inv
  <2> QED BY <2>1, <2>2, <2>3
          DEF Inv, TypeOK, DiagnosticOK, TextAtHand, Reading
<1>5. CASE ReplExpression
  <2>1. LET lx == lookAheadStatement(lex).lex
        IN  Reading(lx) /\ (Strayless(lx.data) => Placed(lx))
    BY <1>5, lookAheadStatementReads DEF ReplExpression, Inv, TextAtHand
  <2>2. PICK next \in {"ready", "crashed"} :
          Parse("handleExpression", lookAheadStatement(lex).lex, next)
    BY <1>5 DEF ReplExpression
  <2>3. inputs' = inputs /\ turn' \in BOOLEAN
    BY <1>5 DEF ReplExpression, Inv, TypeOK
  <2> QED BY <2>1, <2>2, <2>3, ParseInv
<1>6. CASE ReplFunction
  <2>1. LET lx == lookAheadStatement(lex).lex
        IN  Reading(lx) /\ (Strayless(lx.data) => Placed(lx))
    BY <1>6, lookAheadStatementReads DEF ReplFunction, Inv, TextAtHand
  <2>2. Parse("parseFunction", lookAheadStatement(lex).lex, "ready")
    BY <1>6 DEF ReplFunction
  <2>3. inputs' = inputs /\ turn' \in BOOLEAN
    BY <1>6 DEF ReplFunction, Inv, TypeOK
  <2> QED BY <2>1, <2>2, <2>3, ParseInv
<1>7. CASE PrintDiagnostic
  <2>1. <<>> \in Seq(Codes) /\ Len(<<>>) = 0 /\ 0 <= MaxErrors
    BY DEF Assumptions, BoundsAssumption
  <2>2. Promises'
    BY <1>7, PromisesKept DEF PrintDiagnostic, Inv
  <2> QED BY <1>7, <2>1, <2>2
          DEF PrintDiagnostic, Inv, TypeOK, DiagnosticOK, TextAtHand
<1>8. CASE UNCHANGED vars
  <2>1. Promises'
    BY <1>8, PromisesKept DEF vars, Inv
  <2> QED BY <1>8, <2>1 DEF vars, Inv, TypeOK, DiagnosticOK, TextAtHand
<1> QED BY <1>1, <1>2, <1>3, <1>4, <1>5, <1>6, <1>7, <1>8 DEF Next

LEMMA Invariance == ASSUME Recursion PROVE Spec => []Inv
<1>1. Assumptions
  BY TextsAssumption, ModesAssumption, BoundsAssumption, GarbageAssumption,
     MaxCallsAssumption DEF Assumptions
<1>2. Init => Inv
  BY <1>1, InitInv
<1>3. Inv /\ [Next]_vars => Inv'
  BY <1>1, NextInv
<1> QED BY <1>2, <1>3, PTL DEF Spec

(* The front end keeps its types. *)
THEOREM TypeCorrect == ASSUME Recursion PROVE Spec => []TypeOK
<1>1. Inv => TypeOK
  BY DEF Inv
<1> QED BY <1>1, Invariance, PTL


(* Whatever the text, and at whatever depth of the calls, no look-ahead is *)
(* asked for fewer tokens than are buffered: the parser and the REPL keep  *)
(* the contract under which the lexer hands out tokens in order.           *)
THEOREM LookAheadStaysOrderly ==
  ASSUME Recursion PROVE Spec => []LookAheadOrderly
<1>1. Inv => LookAheadOrderly
  BY DEF Inv, Promises
<1> QED BY <1>1, Invariance, PTL

(* A method that returns a tree has logged nothing, at any depth of the    *)
(* descent: no alternative that was tried and given up left a diagnostic.  *)
THEOREM AcceptsSilently == ASSUME Recursion PROVE Spec => []AcceptedSilently
<1>1. Inv => AcceptedSilently
  BY DEF Inv, Promises
<1> QED BY <1>1, Invariance, PTL

(* A statement that is parsed ends in a semicolon or a closing brace of    *)
(* its own, in every text that the lexer can read: the statements of a     *)
(* module and of a block are cut apart where they end, and the loops over  *)
(* them come to an end.                                                    *)
THEOREM EndsAtBoundary ==
  ASSUME Recursion PROVE Spec => []StatementEndsAtBoundary
<1>1. Inv => StatementEndsAtBoundary
  BY DEF Inv, Promises
<1> QED BY <1>1, Invariance, PTL

(* An answer of an empty look-ahead deque never ends in a tree: the parse  *)
(* returns nullptr and logs, or the program dies.                          *)
THEOREM ReportsFailedLookAhead ==
  ASSUME Recursion PROVE Spec => []FailedLookAheadReported
<1>1. Inv => FailedLookAheadReported
  BY DEF Inv, Promises
<1> QED BY <1>1, Invariance, PTL

(* nullptr never comes without a reason: a diagnostic, a fault, the        *)
(* assignment flag or an empty statement.                                  *)
THEOREM ExplainsRefusal == ASSUME Recursion PROVE Spec => []RefusalExplained
<1>1. Inv => RefusalExplained
  BY DEF Inv, Promises
<1> QED BY <1>1, Invariance, PTL

-----------------------------------------------------------------------------
(***************************************************************************)
(* Two lexers, and two parses, that differ only in what no method reads.   *)
(***************************************************************************)

(* Tokens that differ at most in a number that is not theirs. *)
Same(c, e) ==
  /\ c.tok = e.tok /\ c.ident = e.ident /\ c.after = e.after
  /\ c.tok = "tok_number" => c.value = e.value

SameSeq(p, q) ==
  /\ p \in Seq(MovableToken) /\ q \in Seq(MovableToken)
  /\ Len(p) = Len(q)
  /\ \A i \in 1 .. Len(p) : Same(p[i], q[i])

(* Lexers in the same place of the same text. *)
Alike(l, h) ==
  /\ l \in LexerState /\ h \in LexerState
  /\ l.start <= Len(l.data) + 1
  /\ l.data = h.data /\ l.start = h.start /\ l.thrown = h.thrown
  /\ Same(l.cur, h.cur)
  /\ SameSeq(l.buf, h.buf)

LEMMA SameEmpty == SameSeq(<<>>, <<>>)
<1>1. <<>> \in Seq(MovableToken) /\ Len(<<>>) = 0
  OBVIOUS
<1> QED BY <1>1 DEF SameSeq

LEMMA SameTail ==
  ASSUME NEW p, NEW q, SameSeq(p, q), p # <<>>
  PROVE  q # <<>> /\ Same(Head(p), Head(q)) /\ SameSeq(Tail(p), Tail(q))
<1>1. /\ p \in Seq(MovableToken) /\ q \in Seq(MovableToken)
      /\ Len(p) = Len(q) /\ Len(p) \in Nat
  BY LenProperties DEF SameSeq
<1>2. Len(p) # 0 /\ q # <<>>
  BY <1>1, EmptySeq
<1>3. /\ Tail(p) \in Seq(MovableToken) /\ Tail(q) \in Seq(MovableToken)
      /\ Len(Tail(p)) = Len(p) - 1 /\ Len(Tail(q)) = Len(q) - 1
      /\ Head(p) = p[1] /\ Head(q) = q[1]
      /\ \A i \in 1 .. Len(p) - 1 :
           Tail(p)[i] = p[i + 1] /\ Tail(q)[i] = q[i + 1]
  BY <1>1, <1>2, HeadTailProperties
<1>4. ASSUME NEW i \in 1 .. Len(p) - 1 PROVE Same(Tail(p)[i], Tail(q)[i])
  <2>1. i + 1 \in 1 .. Len(p)
    BY <1>1
  <2> QED BY <1>3, <2>1 DEF SameSeq
<1>5. Same(Head(p), Head(q))
  BY <1>1, <1>2, <1>3 DEF SameSeq
<1> QED BY <1>1, <1>2, <1>3, <1>4, <1>5 DEF SameSeq

LEMMA SameAppend ==
  ASSUME NEW p, NEW q, SameSeq(p, q),
         NEW c \in MovableToken, NEW e \in MovableToken, Same(c, e)
  PROVE  SameSeq(Append(p, c), Append(q, e))
<1>1. /\ p \in Seq(MovableToken) /\ q \in Seq(MovableToken)
      /\ Len(p) = Len(q) /\ Len(p) \in Nat
  BY LenProperties DEF SameSeq
<1> DEFINE u == Append(p, c)
           v == Append(q, e)
<1>2. /\ u \in Seq(MovableToken) /\ v \in Seq(MovableToken)
      /\ Len(u) = Len(p) + 1 /\ Len(v) = Len(q) + 1
      /\ \A i \in 1 .. Len(p) : u[i] = p[i] /\ v[i] = q[i]
      /\ u[Len(p) + 1] = c /\ v[Len(p) + 1] = e
  BY <1>1, AppendProperties
<1> HIDE DEF u, v
<1>3. ASSUME NEW i \in 1 .. Len(p) + 1 PROVE Same(u[i], v[i])
  <2>1. CASE i = Len(p) + 1
    BY <1>2, <2>1
  <2>2. CASE i \in 1 .. Len(p)
    BY <1>2, <2>2 DEF SameSeq
  <2> QED BY <1>1, <2>1, <2>2
<1> QED BY <1>1, <1>2, <1>3 DEF SameSeq, u, v

LEMMA SameConcat ==
  ASSUME NEW p, NEW q, SameSeq(p, q), NEW u, NEW v, SameSeq(u, v)
  PROVE  SameSeq(p \o u, q \o v)
<1>1. /\ p \in Seq(MovableToken) /\ q \in Seq(MovableToken)
      /\ u \in Seq(MovableToken) /\ v \in Seq(MovableToken)
      /\ Len(p) = Len(q) /\ Len(p) \in Nat
      /\ Len(u) = Len(v) /\ Len(u) \in Nat
  BY LenProperties DEF SameSeq
<1> DEFINE x == p \o u
           y == q \o v
<1>2. /\ x \in Seq(MovableToken) /\ y \in Seq(MovableToken)
      /\ Len(x) = Len(p) + Len(u) /\ Len(y) = Len(q) + Len(v)
      /\ \A i \in 1 .. Len(p) + Len(u) :
           x[i] = IF i <= Len(p) THEN p[i] ELSE u[i - Len(p)]
      /\ \A i \in 1 .. Len(q) + Len(v) :
           y[i] = IF i <= Len(q) THEN q[i] ELSE v[i - Len(q)]
  BY <1>1, ConcatProperties
<1> HIDE DEF x, y
<1>3. ASSUME NEW i \in 1 .. Len(p) + Len(u) PROVE Same(x[i], y[i])
  <2>1. CASE i <= Len(p)
    <3>1. x[i] = p[i] /\ y[i] = q[i] /\ i \in 1 .. Len(p)
      BY <1>1, <1>2, <2>1
    <3> QED BY <3>1 DEF SameSeq
  <2>2. CASE ~(i <= Len(p))
    <3>1. /\ x[i] = u[i - Len(p)] /\ y[i] = v[i - Len(p)]
          /\ i - Len(p) \in 1 .. Len(u)
      BY <1>1, <1>2, <2>2
    <3> QED BY <3>1 DEF SameSeq
  <2> QED BY <2>1, <2>2
<1> QED BY <1>1, <1>2, <1>3 DEF SameSeq, x, y

(* What is scanned depends on the text and on the last word before it. *)
LEMMA SameScan ==
  ASSUME NEW d, NEW p, NEW c \in MovableToken, NEW e \in MovableToken,
         Same(c, e)
  PROVE  Same(Scan(d, c, p), Scan(d, e, p))
<1>1. CASE p = 0
  BY <1>1 DEF Scan, Same, MovableToken
<1>2. CASE p # 0
  <2> DEFINE i == SkipNewLines(d, p)
             a == ScanEnd(d, i)
             k == ClassAt(d, i)
             w == WordToken(d[i].text)
  <2>1. Scan(d, c, p) = ScanAt(d, c, i) /\ Scan(d, e, p) = ScanAt(d, e, i)
    BY <1>2 DEF Scan
  <2> HIDE DEF i
  <2>2. CASE k = "end"
    <3>1. /\ ScanAt(d, c, i) = [c EXCEPT !.tok = "tok_eof", !.after = a]
          /\ ScanAt(d, e, i) = [e EXCEPT !.tok = "tok_eof", !.after = a]
      BY <2>2 DEF ScanAt
    <3> HIDE DEF a
    <3> QED BY <2>1, <3>1 DEF Same, MovableToken
  <2>3. CASE k = "unmatched"
    <3>1. /\ ScanAt(d, c, i) = [c EXCEPT !.tok = "tok_no_match", !.after = a]
          /\ ScanAt(d, e, i) = [e EXCEPT !.tok = "tok_no_match", !.after = a]
      BY <2>3 DEF ScanAt
    <3> HIDE DEF a
    <3> QED BY <2>1, <3>1 DEF Same, MovableToken
  <2>4. CASE k = "word"
    <3>1. /\ ScanAt(d, c, i) =
               [c EXCEPT !.tok = w, !.ident = d[i].text, !.after = a]
          /\ ScanAt(d, e, i) =
               [e EXCEPT !.tok = w, !.ident = d[i].text, !.after = a]
      BY <2>4 DEF ScanAt
    <3>2. w # "tok_number"
      BY DEF WordToken, isBuiltInKeyword
    <3> HIDE DEF a, w
    <3> QED BY <2>1, <3>1, <3>2 DEF Same, MovableToken
  <2>5. CASE k = "number"
    <3>1. /\ ScanAt(d, c, i) =
               [c EXCEPT !.tok = "tok_number", !.value = d[i].text, !.after = a]
          /\ ScanAt(d, e, i) =
               [e EXCEPT !.tok = "tok_number", !.value = d[i].text, !.after = a]
      BY <2>5 DEF ScanAt
    <3> HIDE DEF a
    <3> QED BY <2>1, <3>1 DEF Same, MovableToken
  <2>6. CASE k = "malformed"
    <3>1. /\ ScanAt(d, c, i) =
               [c EXCEPT !.tok = "tok_malformed_number", !.after = a]
          /\ ScanAt(d, e, i) =
               [e EXCEPT !.tok = "tok_malformed_number", !.after = a]
      BY <2>6 DEF ScanAt
    <3> HIDE DEF a
    <3> QED BY <2>1, <3>1 DEF Same, MovableToken
  <2>7. CASE k \notin {"end", "unmatched", "word", "number", "malformed"}
    <3>1. /\ ScanAt(d, c, i) = [c EXCEPT !.after = a]
          /\ ScanAt(d, e, i) = [e EXCEPT !.after = a]
      BY <2>7 DEF ScanAt
    <3> HIDE DEF a
    <3> QED BY <2>1, <3>1 DEF Same, MovableToken
  <2> QED BY <2>2, <2>3, <2>4, <2>5, <2>6, <2>7
<1> QED BY <1>1, <1>2

LEMMA GettokAlike ==
  ASSUME NEW l, NEW h, Alike(l, h)
  PROVE  Alike(Gettok(l), Gettok(h))
<1>1. /\ l \in LexerState /\ h \in LexerState
      /\ l.start <= Len(l.data) + 1 /\ h.start <= Len(h.data) + 1
      /\ l.data = h.data /\ l.start = h.start
      /\ Same(l.cur, h.cur) /\ SameSeq(l.buf, h.buf)
      /\ l.cur \in MovableToken /\ h.cur \in MovableToken
  BY DEF Alike, LexerState
<1>2. /\ Gettok(l) \in LexerState /\ Gettok(h) \in LexerState
      /\ Gettok(l).data = l.data /\ Gettok(h).data = h.data
      /\ Gettok(l).start <= Len(l.data) + 1
  BY <1>1, GettokType
<1>3. CASE l.start # 0 /\ l.buf # <<>>
  <2>1. h.buf # <<>> /\ Same(Head(l.buf), Head(h.buf))
        /\ SameSeq(Tail(l.buf), Tail(h.buf))
    BY <1>1, <1>3, SameTail
  <2>2. /\ Gettok(l).start = l.start /\ Gettok(h).start = h.start
        /\ Gettok(l).cur = Head(l.buf) /\ Gettok(h).cur = Head(h.buf)
        /\ Gettok(l).buf = Tail(l.buf) /\ Gettok(h).buf = Tail(h.buf)
        /\ Gettok(l).thrown = FALSE /\ Gettok(h).thrown = FALSE
    BY <1>1, <1>3, <2>1, GettokPops
  <2> QED BY <1>1, <1>2, <2>1, <2>2 DEF Alike
<1>4. CASE l.start = 0 \/ l.buf = <<>>
  <2>1. l.buf = <<>> => h.buf = <<>>
    BY <1>1, EmptySeq DEF SameSeq
  <2>2. Gettok(l).buf = l.buf /\ Gettok(h).buf = h.buf
        /\ Gettok(l).cur = Scan(l.data, l.cur, l.start)
        /\ Gettok(h).cur = Scan(h.data, h.cur, h.start)
        /\ Gettok(l).start = Gettok(h).start
        /\ Gettok(l).thrown = Gettok(h).thrown
    BY <1>1, <1>4, <2>1, GettokScans
  <2>3. Same(Gettok(l).cur, Gettok(h).cur)
    BY <1>1, <2>2, SameScan
  <2> QED BY <1>1, <1>2, <2>2, <2>3 DEF Alike
<1> QED BY <1>3, <1>4

(* Look-aheads that have read the same. *)
AlikeTurns(a, b) ==
  /\ a.ok \in BOOLEAN /\ a.ok = b.ok
  /\ Alike(a.lex, b.lex) /\ SameSeq(a.temp, b.temp)

LEMMA TurnAlike ==
  ASSUME NEW a, NEW b, AlikeTurns(a, b)
  PROVE  AlikeTurns(Turn(a), Turn(b))
<1>1. CASE ~a.ok
  BY <1>1 DEF AlikeTurns, Turn
<1>2. CASE a.ok
  <2> DEFINE l == Gettok(a.lex)
             h == Gettok(b.lex)
  <2>1. Alike(l, h)
    BY GettokAlike DEF AlikeTurns
  <2> HIDE DEF l, h
  <2>2. /\ l.cur \in MovableToken /\ h.cur \in MovableToken
        /\ Same(l.cur, h.cur) /\ l.thrown = h.thrown
        /\ l.cur.tok = h.cur.tok
    BY <2>1 DEF Alike, LexerState, Same
  <2>3. SameSeq(Append(a.temp, l.cur), Append(b.temp, h.cur))
    BY <2>2, SameAppend DEF AlikeTurns
  <2>4. /\ Turn(a) = [lex |-> l, temp |-> Append(a.temp, l.cur),
                      ok |-> ~l.thrown /\ l.cur.tok \notin EndTokens]
        /\ Turn(b) = [lex |-> h, temp |-> Append(b.temp, h.cur),
                      ok |-> ~h.thrown /\ h.cur.tok \notin EndTokens]
    BY <1>2 DEF Turn, Read, AlikeTurns, l, h
  <2> QED BY <2>1, <2>2, <2>3, <2>4 DEF AlikeTurns
<1> QED BY <1>1, <1>2 DEF AlikeTurns

LEMMA lookAheadAlike ==
  ASSUME NEW l, NEW h, Alike(l, h), NEW n
  PROVE  /\ lookAhead(l, n).ok \in BOOLEAN
         /\ lookAhead(l, n).ok = lookAhead(h, n).ok
         /\ Alike(lookAhead(l, n).lex, lookAhead(h, n).lex)
<1> DEFINE o(x) == [lex |-> x, temp |-> <<>>, ok |-> TRUE]
           a == Turns(l, n)
           b == Turns(h, n)
<1>1. AlikeTurns(o(l), o(h))
  BY SameEmpty DEF AlikeTurns
<1>2. AlikeTurns(Turn(o(l)), Turn(o(h)))
  <2> HIDE DEF o
  <2> QED BY <1>1, TurnAlike
<1>3. AlikeTurns(Turn(Turn(o(l))), Turn(Turn(o(h))))
  <2> HIDE DEF o
  <2> QED BY <1>2, TurnAlike
<1>4. AlikeTurns(Turn(Turn(Turn(o(l)))), Turn(Turn(Turn(o(h)))))
  <2> HIDE DEF o
  <2> QED BY <1>3, TurnAlike
<1>5. AlikeTurns(a, b)
  <2>1. /\ a = IF n = 2 THEN Turn(Turn(o(l))) ELSE Turn(Turn(Turn(o(l))))
        /\ b = IF n = 2 THEN Turn(Turn(o(h))) ELSE Turn(Turn(Turn(o(h))))
    BY DEF Turns, Rest
  <2> HIDE DEF a, b, o
  <2> QED BY <1>3, <1>4, <2>1
<1> HIDE DEF a, b
<1>6. /\ lookAhead(l, n) =
           [ok |-> a.ok, lex |-> IF a.ok
              THEN [a.lex EXCEPT !.buf = @ \o a.temp, !.cur = l.cur] ELSE a.lex]
      /\ lookAhead(h, n) =
           [ok |-> b.ok, lex |-> IF b.ok
              THEN [b.lex EXCEPT !.buf = @ \o b.temp, !.cur = h.cur] ELSE b.lex]
  BY DEF lookAhead, Buffered, a, b
<1>7. CASE ~a.ok
  BY <1>5, <1>6, <1>7 DEF AlikeTurns
<1>8. CASE a.ok
  <2>1. SameSeq(a.lex.buf \o a.temp, b.lex.buf \o b.temp)
    BY <1>5, SameConcat DEF AlikeTurns, Alike
  <2> DEFINE u == [a.lex EXCEPT !.buf = a.lex.buf \o a.temp, !.cur = l.cur]
             v == [b.lex EXCEPT !.buf = b.lex.buf \o b.temp, !.cur = h.cur]
  <2>2. /\ a.lex \in LexerState /\ b.lex \in LexerState
        /\ l.cur \in MovableToken /\ h.cur \in MovableToken
        /\ a.lex.buf \o a.temp \in Seq(MovableToken)
        /\ b.lex.buf \o b.temp \in Seq(MovableToken)
    BY <1>5, <2>1 DEF AlikeTurns, Alike, SameSeq, LexerState
  <2>3. /\ u \in LexerState /\ v \in LexerState
        /\ u.data = a.lex.data /\ v.data = b.lex.data
        /\ u.start = a.lex.start /\ v.start = b.lex.start
        /\ u.thrown = a.lex.thrown /\ v.thrown = b.lex.thrown
        /\ u.cur = l.cur /\ v.cur = h.cur
        /\ u.buf = a.lex.buf \o a.temp /\ v.buf = b.lex.buf \o b.temp
    BY <2>2 DEF LexerState
  <2>4. lookAhead(l, n).lex = u /\ lookAhead(h, n).lex = v
        /\ lookAhead(l, n).ok = a.ok /\ lookAhead(h, n).ok = b.ok
    BY <1>5, <1>6, <1>8 DEF AlikeTurns
  <2> HIDE DEF u, v
  <2>5. Alike(u, v)
    BY <1>5, <2>1, <2>3 DEF AlikeTurns, Alike
  <2> QED BY <1>5, <2>4, <2>5 DEF AlikeTurns
<1> QED BY <1>7, <1>8

(* Two parses with room k that are the same but for their lexers. *)
Twins(k, s, r) ==
  /\ DOMAIN s = Fields /\ DOMAIN r = Fields
  /\ Alike(s.lex, r.lex)
  /\ s.room = k /\ r.room = k
  /\ s.flag = r.flag /\ s.errs = r.errs /\ s.node = r.node
  /\ s.fault = r.fault /\ s.garbage = r.garbage
  /\ s.orderly = r.orderly /\ s.oob = r.oob
  /\ s.refused = r.refused /\ s.empty = r.empty

(* What the methods read is the same in both. *)
LEMMA TwinsEqual ==
  ASSUME NEW k, NEW s, NEW r, Twins(k, s, r)
  PROVE  /\ Tok(s) = Tok(r) /\ Ident(s) = Ident(r) /\ s.node = r.node
         /\ IsNull(s) <=> IsNull(r)
         /\ Faulted(s) <=> Faulted(r)
         /\ getTokPrecedence(s) = getTokPrecedence(r)
         /\ Pointer(s) = Pointer(r)
         /\ \A op : Operator(s, op) <=> Operator(r, op)
BY DEF Twins, Alike, Same, Tok, Ident, IsNull, Faulted, getTokPrecedence,
       Pointer, Operator

LEMMA TwinSlots ==
  ASSUME NEW k, NEW s, NEW r, Twins(k, s, r), NEW i \in {1, 2, 3}
  PROVE  /\ Slot(s, i).tok = Slot(r, i).tok
         /\ \A tok : SlotIs(s, i, tok) <=> SlotIs(r, i, tok)
         /\ SlotStar(s, i) <=> SlotStar(r, i)
<1>1. /\ SameSeq(s.lex.buf, r.lex.buf) /\ s.garbage = r.garbage
      /\ s.lex.buf \in Seq(MovableToken) /\ Len(s.lex.buf) = Len(r.lex.buf)
  BY DEF Twins, Alike, SameSeq
<1>2. Len(s.lex.buf) \in Nat
  BY <1>1, LenProperties
<1>3. Slot(s, i).tok = Slot(r, i).tok /\ Slot(s, i).ident = Slot(r, i).ident
  <2>1. CASE i <= Len(s.lex.buf)
    <3>1. i \in 1 .. Len(s.lex.buf)
      BY <1>2, <2>1
    <3>2. Same(s.lex.buf[i], r.lex.buf[i])
      BY <1>1, <3>1 DEF SameSeq
    <3> QED BY <1>1, <2>1, <3>2 DEF Slot, Same
  <2>2. CASE ~(i <= Len(s.lex.buf))
    BY <1>1, <2>2 DEF Slot
  <2> QED BY <2>1, <2>2
<1> QED BY <1>3 DEF SlotIs, SlotStar

LEMMA RaiseTwins ==
  ASSUME NEW k, NEW s, NEW r, Twins(k, s, r), NEW f
  PROVE  Twins(k, Raise(s, f), Raise(r, f))
BY DEF Twins, Raise, Fields

LEMMA LogTwins ==
  ASSUME NEW k, NEW s, NEW r, Twins(k, s, r), NEW code
  PROVE  Twins(k, Log(s, code), Log(r, code))
BY DEF Twins, Log, Fields, Faulted

(* The other fields, whatever is made of them. *)
LEMMA FieldTwins ==
  ASSUME NEW k, NEW s, NEW r, Twins(k, s, r), NEW v
  PROVE  /\ Twins(k, [s EXCEPT !.node = v], [r EXCEPT !.node = v])
         /\ Twins(k, [s EXCEPT !.flag = v], [r EXCEPT !.flag = v])
         /\ Twins(v, [s EXCEPT !.room = v], [r EXCEPT !.room = v])
         /\ Twins(k, [s EXCEPT !.node = v, !.refused = TRUE],
                     [r EXCEPT !.node = v, !.refused = TRUE])
BY DEF Twins, Fields

LEMMA NoStatementTwins ==
  ASSUME NEW k, NEW s, NEW r, Twins(k, s, r)
  PROVE  Twins(k, NoStatement(s), NoStatement(r))
<1>1. Tok(s) = Tok(r)
  BY TwinsEqual
<1> QED BY <1>1 DEF Twins, Fields, NoStatement

LEMMA FailTwins ==
  ASSUME NEW k, NEW s, NEW r, Twins(k, s, r), NEW code
  PROVE  Twins(k, Fail(s, code), Fail(r, code))
BY TwinsEqual, FieldTwins, LogTwins DEF Fail

LEMMA BlameTwins ==
  ASSUME NEW k, NEW s, NEW r, Twins(k, s, r), NEW code
  PROVE  Twins(k, Blame(s, code), Blame(r, code))
BY TwinsEqual, LogTwins DEF Blame

LEMMA GiveTwins ==
  ASSUME NEW k, NEW s, NEW r, Twins(k, s, r), NEW v
  PROVE  Twins(k, Give(s, v), Give(r, v))
BY TwinsEqual, FieldTwins DEF Give

LEMMA DereferencedTwins ==
  ASSUME NEW k, NEW s, NEW r, Twins(k, s, r)
  PROVE  Twins(k, Dereferenced(s), Dereferenced(r))
BY TwinsEqual, RaiseTwins DEF Dereferenced

LEMMA LexedTwins ==
  ASSUME NEW k, NEW s, NEW r, Twins(k, s, r), NEW l, NEW h, Alike(l, h)
  PROVE  Twins(k, Lexed(s, l), Lexed(r, h))
<1> DEFINE u == [s EXCEPT !.lex = l]
           v == [r EXCEPT !.lex = h]
<1>1. Twins(k, u, v)
  BY DEF Twins, Fields
<1>2. l.thrown = h.thrown
  BY DEF Alike
<1> HIDE DEF u, v
<1>3. Twins(k, Raise(u, "throw"), Raise(v, "throw"))
  BY <1>1, RaiseTwins
<1> QED BY <1>1, <1>2, <1>3 DEF Lexed, u, v

LEMMA EatAnywayTwins ==
  ASSUME NEW k, NEW s, NEW r, Twins(k, s, r)
  PROVE  Twins(k, EatAnyway(s), EatAnyway(r))
<1>1. Alike(Gettok(s.lex), Gettok(r.lex))
  BY GettokAlike DEF Twins
<1>2. Twins(k, Lexed(s, Gettok(s.lex)), Lexed(r, Gettok(r.lex)))
  BY <1>1, LexedTwins
<1> QED BY <1>2, TwinsEqual DEF EatAnyway

LEMMA EatTwins ==
  ASSUME NEW k, NEW s, NEW r, Twins(k, s, r)
  PROVE  Twins(k, Eat(s), Eat(r))
BY EatAnywayTwins, TwinsEqual DEF Eat

LEMMA EatStarTwins ==
  ASSUME NEW k, NEW s, NEW r, Twins(k, s, r)
  PROVE  Twins(k, EatStar(s), EatStar(r))
BY EatTwins, TwinsEqual DEF EatStar

LEMMA ExpectTwins ==
  ASSUME NEW k, NEW s, NEW r, Twins(k, s, r), NEW tok, NEW code
  PROVE  Twins(k, Expect(s, tok, code), Expect(r, tok, code))
BY EatTwins, FailTwins, TwinsEqual DEF Expect

LEMMA AheadTwins ==
  ASSUME NEW k, NEW s, NEW r, Twins(k, s, r), NEW n
  PROVE  Twins(k, Ahead(s, n), Ahead(r, n))
<1> DEFINE A(t) == lookAhead(t.lex, n)
           orderly(t) == t.orderly /\ Len(t.lex.buf) <= n
           oob(t) == t.oob \/ (~A(t).ok /\ ~A(t).lex.thrown)
           T(t) == [t EXCEPT !.orderly = orderly(t), !.oob = oob(t)]
           L(t) == [T(t) EXCEPT !.lex = A(t).lex]
<1>1. Alike(A(s).lex, A(r).lex) /\ A(s).ok = A(r).ok /\ A(s).ok \in BOOLEAN
  BY lookAheadAlike DEF Twins
<1>2. A(s).lex.thrown = A(r).lex.thrown
  BY <1>1 DEF Alike
<1>3. orderly(s) = orderly(r)
  BY DEF Twins, Alike, SameSeq
<1>4. oob(s) = oob(r)
  BY <1>1, <1>2 DEF Twins
<1> HIDE DEF A, orderly, oob
<1>5. Twins(k, T(s), T(r)) /\ T(s).oob = oob(s) /\ T(r).oob = oob(r)
  BY <1>3, <1>4 DEF Twins, Fields
<1>6. Twins(k, Lexed(T(s), A(s).lex), Lexed(T(r), A(r).lex))
  <2> HIDE DEF T
  <2> QED BY <1>1, <1>5, LexedTwins
<1>7. Twins(k, L(s), L(r))
  <2> HIDE DEF T
  <2> QED BY <1>1, <1>5 DEF Twins, Fields
<1>8. Twins(k, Raise(L(s), "segv"), Raise(L(r), "segv"))
  <2> HIDE DEF L
  <2> QED BY <1>7, RaiseTwins
<1>9. \A t \in {s, r} :
        Looked(t, n, A(t)) =
          IF T(t).oob /\ ~A(t).ok /\ t.garbage = <<>>
          THEN Raise(L(t), "segv") ELSE Lexed(T(t), A(t).lex)
  BY DEF Looked, orderly, oob, A
<1>10. s.garbage = r.garbage
  BY DEF Twins
<1> HIDE DEF T, L
<1>11. Twins(k, Looked(s, n, A(s)), Looked(r, n, A(r)))
  BY <1>1, <1>4, <1>5, <1>6, <1>8, <1>9, <1>10
<1> QED BY <1>11, TwinsEqual DEF Ahead, A

-----------------------------------------------------------------------------
(***************************************************************************)
(* The methods keep twins twins, when the calls they make do.              *)
(***************************************************************************)
CallTwins(k) ==
  \A m \in Methods : \A s, r, x :
    Twins(k, s, r) => Twins(k, Call(m, s, x), Call(m, r, x))

LEMMA CalledTwins ==
  ASSUME NEW k, CallTwins(k), NEW s, NEW r, Twins(k, s, r)
  PROVE  /\ \A m \in Methods : \A x : Twins(k, Call(m, s, x), Call(m, r, x))
         /\ \A m \in Methods : Twins(k, Parsed(m, s), Parsed(m, r))
BY DEF CallTwins, Parsed

LEMMA ParsedTwins ==
  ASSUME NEW k, CallTwins(k), NEW s, NEW r, Twins(k, s, r)
  PROVE  /\ Twins(k, Parsed("parseExpression", s), Parsed("parseExpression", r))
         /\ Twins(k, Parsed("parseStatement", s), Parsed("parseStatement", r))
         /\ Twins(k, Parsed("parsePrimary", s), Parsed("parsePrimary", r))
BY CalledTwins DEF Methods

LEMMA CallArgumentsTwins ==
  ASSUME NEW k, CallTwins(k), NEW s, NEW r, Twins(k, s, r)
  PROVE  Twins(k, CallArguments(s), CallArguments(r))
<1> DEFINE a(t) == Blame(Parsed("parseExpression", t), "MISSING_ARG_IN_FUNC_CALL")
           rest(t) == Parsed("CallArguments", Eat(a(t)))
           all(t) == Block(<<a(t).node>> \o rest(t).node.kids)
<1>1. Twins(k, a(s), a(r))
  BY ParsedTwins, BlameTwins
<1> HIDE DEF a
<1>2. Twins(k, Eat(a(s)), Eat(a(r)))
  BY <1>1, EatTwins
<1>3. Twins(k, rest(s), rest(r))
  BY <1>2, CalledTwins DEF Methods
<1>4. a(s).node = a(r).node /\ Tok(a(s)) = Tok(a(r))
  BY <1>1, TwinsEqual
<1> HIDE DEF rest
<1>5. all(s) = all(r)
  BY <1>3, <1>4, TwinsEqual
<1> HIDE DEF all
<1>6. Twins(k, Give(Eat(a(s)), Block(<<a(s).node>>)),
               Give(Eat(a(r)), Block(<<a(r).node>>)))
  BY <1>2, <1>4, GiveTwins
<1>7. Twins(k, Give(rest(s), all(s)), Give(rest(r), all(r)))
  BY <1>3, <1>5, GiveTwins
<1>8. Twins(k, Fail(a(s), "MISSING_OPEN_ROUND_OR_COMMA_IN_FUNC_CALL"),
               Fail(a(r), "MISSING_OPEN_ROUND_OR_COMMA_IN_FUNC_CALL"))
  BY <1>1, FailTwins
<1> QED BY <1>4, <1>6, <1>7, <1>8 DEF CallArguments, a, rest, all

LEMMA parseIdentifierTwins ==
  ASSUME NEW k, CallTwins(k), NEW s, NEW r, Twins(k, s, r)
  PROVE  Twins(k, parseIdentifier(s), parseIdentifier(r))
<1> DEFINE a(t) == Eat(t)
           b(t) == Eat(a(t))
           args(t) == IF Tok(b(t)) = "tok_close_round"
                      THEN Give(Eat(b(t)), Block(<<>>))
                      ELSE Parsed("CallArguments", b(t))
           variable(t) == Node("Variable", Ident(t), NoText, <<>>, {})
           call(t) == Node("Call", Ident(t), NoText, args(t).node.kids, {})
<1>1. Twins(k, a(s), a(r))
  BY EatTwins
<1> HIDE DEF a
<1>2. Twins(k, b(s), b(r))
  BY <1>1, EatTwins
<1> HIDE DEF b
<1>3. Twins(k, args(s), args(r))
  <2>1. Twins(k, Give(Eat(b(s)), Block(<<>>)), Give(Eat(b(r)), Block(<<>>)))
    BY <1>2, EatTwins, GiveTwins
  <2>2. Twins(k, Parsed("CallArguments", b(s)), Parsed("CallArguments", b(r)))
    BY <1>2, CalledTwins DEF Methods
  <2> QED BY <1>2, <2>1, <2>2, TwinsEqual
<1> HIDE DEF args
<1>4. variable(s) = variable(r) /\ call(s) = call(r) /\ Tok(a(s)) = Tok(a(r))
  BY <1>1, <1>3, TwinsEqual
<1> HIDE DEF variable, call
<1>5. /\ Twins(k, Give(a(s), variable(s)), Give(a(r), variable(r)))
      /\ Twins(k, Give(args(s), call(s)), Give(args(r), call(r)))
  BY <1>1, <1>3, <1>4, GiveTwins
<1> QED BY <1>4, <1>5 DEF parseIdentifier, a, b, args, variable, call

LEMMA parseCastTwins ==
  ASSUME NEW k, CallTwins(k), NEW s, NEW r, Twins(k, s, r)
  PROVE  Twins(k, parseCast(s), parseCast(r))
<1> DEFINE a(t) == Eat(t)
           b(t) == Eat(a(t))
           c(t) == Expect(EatStar(b(t)), "tok_close_round",
                          "UNEXPECTED_TOKEN_IN_EXPRESSION")
           e(t) == Blame(Parsed("parseExpression", c(t)), "CAST_ERROR")
           cast(t) == Node("Cast", NoText, Tok(a(t)), <<e(t).node>>, Pointer(b(t)))
<1>1. Twins(k, a(s), a(r))
  BY EatTwins
<1> HIDE DEF a
<1>2. Twins(k, b(s), b(r))
  BY <1>1, EatTwins
<1> HIDE DEF b
<1>3. Twins(k, c(s), c(r))
  BY <1>2, EatStarTwins, ExpectTwins
<1> HIDE DEF c
<1>4. Twins(k, e(s), e(r))
  BY <1>3, ParsedTwins, BlameTwins
<1> HIDE DEF e
<1>5. /\ cast(s) = cast(r) /\ Tok(a(s)) = Tok(a(r))
      /\ Operator(b(s), "*") <=> Operator(b(r), "*")
      /\ IsNull(c(s)) <=> IsNull(c(r))
  BY <1>1, <1>2, <1>3, <1>4, TwinsEqual
<1> HIDE DEF cast
<1>6. /\ Twins(k, Fail(a(s), "UNEXPECTED_TOKEN_IN_EXPRESSION"),
                  Fail(a(r), "UNEXPECTED_TOKEN_IN_EXPRESSION"))
      /\ Twins(k, Fail(b(s), "ERROR_IN_VOID_DATATYPE"),
                  Fail(b(r), "ERROR_IN_VOID_DATATYPE"))
      /\ Twins(k, Give(e(s), cast(s)), Give(e(r), cast(r)))
  BY <1>1, <1>2, <1>4, <1>5, FailTwins, GiveTwins
<1> QED BY <1>3, <1>5, <1>6 DEF parseCast, CastTo, a, b, c, e, cast

LEMMA parseParenTwins ==
  ASSUME NEW k, CallTwins(k), NEW s, NEW r, Twins(k, s, r)
  PROVE  Twins(k, parseParen(s), parseParen(r))
<1> DEFINE a(t) == Ahead(t, 3)
           e(t) == Parsed("parseExpression", Eat(a(t)))
<1>1. Twins(k, a(s), a(r))
  BY AheadTwins
<1> HIDE DEF a
<1>2. Twins(k, e(s), e(r))
  BY <1>1, EatTwins, ParsedTwins
<1> HIDE DEF e
<1>3. Twins(k, Parenthesised(e(s)), Parenthesised(e(r)))
  <2>1. Twins(k, EatAnyway(e(s)), EatAnyway(e(r)))
    BY <1>2, EatAnywayTwins
  <2>2. Twins(k, [e(s) EXCEPT !.node = Null], [e(r) EXCEPT !.node = Null])
    BY <1>2, FieldTwins
  <2>3. Twins(k, Log([e(s) EXCEPT !.node = Null], "EXPECTED_TOKEN"),
                 Log([e(r) EXCEPT !.node = Null], "EXPECTED_TOKEN"))
    BY <2>2, LogTwins
  <2> QED BY <1>2, <2>1, <2>3, TwinsEqual DEF Parenthesised
<1>4. Twins(k, Parsed("parseCast", a(s)), Parsed("parseCast", a(r)))
  BY <1>1, CalledTwins DEF Methods
<1>5. isCastOperation(a(s)) <=> isCastOperation(a(r))
  BY <1>1, TwinSlots DEF isCastOperation, isPointerCast, isDataCast
<1> QED BY <1>1, <1>3, <1>4, <1>5, TwinsEqual DEF parseParen, a, e

LEMMA parsePrimaryTwins ==
  ASSUME NEW k, CallTwins(k), NEW s, NEW r, Twins(k, s, r)
  PROVE  Twins(k, parsePrimary(s), parsePrimary(r))
<1>1. /\ Twins(k, Parsed("parseIdentifier", s), Parsed("parseIdentifier", r))
      /\ Twins(k, Parsed("parseParen", s), Parsed("parseParen", r))
  BY CalledTwins DEF Methods
<1>2. Twins(k, Eat(s), Eat(r))
  BY EatTwins
<1>3. ASSUME Tok(s) = "tok_number"
      PROVE  Twins(k, parseNumber(s), parseNumber(r))
  <2>1. s.lex.cur.value = r.lex.cur.value
    BY <1>3 DEF Twins, Alike, Same, Tok
  <2> QED BY <1>2, <2>1, GiveTwins DEF parseNumber
<1>4. Twins(k, parseNullptr(s), parseNullptr(r))
  BY <1>2, GiveTwins DEF parseNullptr
<1>5. Twins(k, parseDereference(s), parseDereference(r))
  <2>1. Ident(Eat(s)) = Ident(Eat(r))
    BY <1>2, TwinsEqual
  <2>2. Twins(k, Expect(Eat(s), "tok_identifier", "EXPECTED_TOKEN"),
                 Expect(Eat(r), "tok_identifier", "EXPECTED_TOKEN"))
    BY <1>2, ExpectTwins
  <2> QED BY <2>1, <2>2, GiveTwins DEF parseDereference
<1>6. Twins(k, Fail(s, "UNEXPECTED_TOKEN_IN_EXPRESSION"),
               Fail(r, "UNEXPECTED_TOKEN_IN_EXPRESSION"))
  BY FailTwins
<1>7. Tok(s) = Tok(r) /\ (Operator(s, "*") <=> Operator(r, "*"))
  BY TwinsEqual
<1> QED BY <1>1, <1>3, <1>4, <1>5, <1>6, <1>7 DEF parsePrimary

LEMMA parseBinOpRHSTwins ==
  ASSUME NEW k, CallTwins(k), NEW s, NEW r, Twins(k, s, r), NEW prec
  PROVE  Twins(k, parseBinOpRHS(prec, s), parseBinOpRHS(prec, r))
<1> DEFINE own(l) == getTokPrecedence(l)
           p(l) == Parsed("parsePrimary", Eat(l))
           rhs(l) == IF own(l) < getTokPrecedence(p(l))
                     THEN Call("parseBinOpRHS", p(l), own(l) + 1) ELSE p(l)
           binary(l) == Node("Binary", Ident(l), NoText, <<l.node, rhs(l).node>>, {})
<1>1. Twins(k, p(s), p(r))
  BY EatTwins, ParsedTwins
<1> HIDE DEF p
<1>2. own(s) = own(r) /\ getTokPrecedence(p(s)) = getTokPrecedence(p(r))
  BY <1>1, TwinsEqual
<1> HIDE DEF own
<1>3. Twins(k, Call("parseBinOpRHS", p(s), own(s) + 1),
               Call("parseBinOpRHS", p(r), own(r) + 1))
  BY <1>1, <1>2, CalledTwins DEF Methods
<1>4. Twins(k, rhs(s), rhs(r))
  BY <1>1, <1>2, <1>3
<1> HIDE DEF rhs
<1>5. binary(s) = binary(r)
  BY <1>4, TwinsEqual
<1> HIDE DEF binary
<1>6. Twins(k, Give(rhs(s), binary(s)), Give(rhs(r), binary(r)))
  BY <1>4, <1>5, GiveTwins
<1>7. Twins(k, Call("parseBinOpRHS", Give(rhs(s), binary(s)), prec),
               Call("parseBinOpRHS", Give(rhs(r), binary(r)), prec))
  BY <1>6, CalledTwins DEF Methods
<1> QED BY <1>2, <1>7 DEF parseBinOpRHS, own, p, rhs, binary

LEMMA parseExpressionTwins ==
  ASSUME NEW k, CallTwins(k), NEW s, NEW r, Twins(k, s, r)
  PROVE  Twins(k, parseExpression(s), parseExpression(r))
<1> DEFINE l(t) == Parsed("parsePrimary", t)
           f(t) == [l(t) EXCEPT !.flag = TRUE]
           e(t) == Blame(Parsed("parseExpression", Eat(f(t))), "EXPECTED_VARIABLE")
           variable(t) == [l(t).node EXCEPT !.kids = <<e(t).node>>]
           refused(t) == [l(t) EXCEPT !.node = Null, !.refused = TRUE]
<1>1. Twins(k, l(s), l(r))
  BY ParsedTwins
<1>2. Twins(k, Call("parseBinOpRHS", l(s), 0), Call("parseBinOpRHS", l(r), 0))
  BY <1>1, CalledTwins DEF Methods
<1> HIDE DEF l
<1>3. Twins(k, f(s), f(r)) /\ Twins(k, refused(s), refused(r))
  BY <1>1, FieldTwins
<1> HIDE DEF f, refused
<1>4. Twins(k, e(s), e(r))
  BY <1>3, EatTwins, ParsedTwins, BlameTwins
<1> HIDE DEF e
<1>5. /\ variable(s) = variable(r) /\ l(s).node.kind = l(r).node.kind
      /\ l(s).flag = l(r).flag
  BY <1>1, <1>4 DEF Twins
<1> HIDE DEF variable
<1>6. Twins(k, Give(e(s), variable(s)), Give(e(r), variable(r)))
  BY <1>4, <1>5, GiveTwins
<1>7. Twins(k, Fail(e(s), "EXPECTED_VARIABLE"), Fail(e(r), "EXPECTED_VARIABLE"))
  BY <1>4, FailTwins
<1>8. Twins(k, Assignment(l(s)), Assignment(l(r)))
  BY <1>3, <1>5, <1>6, <1>7 DEF Assignment, f, e, variable, refused
<1> QED BY <1>1, <1>2, <1>8, TwinsEqual DEF parseExpression, l

LEMMA parseAssigmentTwins ==
  ASSUME NEW k, CallTwins(k), NEW s, NEW r, Twins(k, s, r)
  PROVE  Twins(k, parseAssigment(s), parseAssigment(r))
<1> DEFINE a(t) == Eat(t)
           b(t) == EatStar(a(t))
           e(t) == Blame(Parsed("parseExpression", Eat(Eat(b(t)))),
                         "CANNOT_GENERATE_RHS")
           variable(t) == Node("Variable", Ident(b(t)), Tok(t), <<e(t).node>>,
                               {"isDefinition"} \cup Pointer(a(t)))
<1>1. Twins(k, a(s), a(r))
  BY EatTwins
<1> HIDE DEF a
<1>2. Twins(k, b(s), b(r))
  BY <1>1, EatStarTwins
<1> HIDE DEF b
<1>3. Twins(k, e(s), e(r))
  BY <1>2, EatTwins, ParsedTwins, BlameTwins
<1> HIDE DEF e
<1>4. variable(s) = variable(r)
  BY <1>1, <1>2, <1>3, TwinsEqual
<1> HIDE DEF variable
<1> QED BY <1>3, <1>4, GiveTwins DEF parseAssigment, a, b, e, variable

LEMMA parseArgumentsTwins ==
  ASSUME NEW k, CallTwins(k), NEW s, NEW r, Twins(k, s, r)
  PROVE  Twins(k, parseArguments(s), parseArguments(r))
<1> DEFINE a(t) == Eat(t)
           b(t) == EatStar(a(t))
           c(t) == Expect(b(t), "tok_identifier", "EXPECTED_IDENTIFIER_NAME")
           d(t) == IF Tok(c(t)) = "tok_comma" THEN AnotherArgument(Eat(c(t)))
                   ELSE c(t)
           rest(t) == Parsed("parseArguments", d(t))
           all(t) == Block(<<Node("Argument", Ident(b(t)), Tok(t), <<>>,
                                  Pointer(a(t)))>> \o rest(t).node.kids)
<1>1. Twins(k, a(s), a(r))
  BY EatTwins
<1> HIDE DEF a
<1>2. Twins(k, b(s), b(r))
  BY <1>1, EatStarTwins
<1> HIDE DEF b
<1>3. Twins(k, c(s), c(r))
  BY <1>2, ExpectTwins
<1> HIDE DEF c
<1>4. Twins(k, d(s), d(r))
  <2>1. Twins(k, Eat(c(s)), Eat(c(r)))
    BY <1>3, EatTwins
  <2>2. Twins(k, AnotherArgument(Eat(c(s))), AnotherArgument(Eat(c(r))))
    BY <2>1, TwinsEqual, FailTwins DEF AnotherArgument
  <2> QED BY <1>3, <2>2, TwinsEqual
<1> HIDE DEF d
<1>5. Twins(k, rest(s), rest(r))
  BY <1>4, CalledTwins DEF Methods
<1> HIDE DEF rest
<1>6. all(s) = all(r)
  BY <1>1, <1>2, <1>5, TwinsEqual
<1> HIDE DEF all
<1>7. Twins(k, Give(rest(s), all(s)), Give(rest(r), all(r)))
  BY <1>5, <1>6, GiveTwins
<1>8. Twins(k, ArgumentOf(Tok(s), Eat(s)), ArgumentOf(Tok(r), Eat(r)))
  BY <1>7 DEF ArgumentOf, a, b, c, d, rest, all
<1>9. Twins(k, Give(Eat(s), Block(<<>>)), Give(Eat(r), Block(<<>>)))
  BY EatTwins, GiveTwins
<1>10. Twins(k, Fail(s, "EXPECTED_DATATYPE_FUNCTION_ARG"),
                Fail(r, "EXPECTED_DATATYPE_FUNCTION_ARG"))
  BY FailTwins
<1>11. Tok(s) = Tok(r)
  BY TwinsEqual
<1> QED BY <1>8, <1>9, <1>10, <1>11 DEF parseArguments

LEMMA parsePrototypeTwins ==
  ASSUME NEW k, CallTwins(k), NEW s, NEW r, Twins(k, s, r)
  PROVE  Twins(k, parsePrototype(s), parsePrototype(r))
<1> DEFINE a(t) == Eat(t)
           b(t) == EatStar(a(t))
           c(t) == Eat(b(t))
           d(t) == Parsed("parseArguments", Eat(c(t)))
           null(t) == IF Tok(t) = "tok_void_ptr" THEN {"isNull"} ELSE {}
           proto(t) == Node("Prototype", Ident(b(t)), Tok(t), d(t).node.kids,
                            {"isExtern"} \cup Pointer(a(t)) \cup null(t))
           lost(t) == Fail(c(t), "EXPECTED_TOKEN")
<1>1. Twins(k, a(s), a(r))
  BY EatTwins
<1> HIDE DEF a
<1>2. Twins(k, b(s), b(r))
  BY <1>1, EatStarTwins
<1> HIDE DEF b
<1>3. Twins(k, c(s), c(r))
  BY <1>2, EatTwins
<1> HIDE DEF c
<1>4. Twins(k, d(s), d(r))
  <2>1. Twins(k, Eat(c(s)), Eat(c(r)))
    BY <1>3, EatTwins
  <2> QED BY <2>1, CalledTwins DEF Methods
<1> HIDE DEF d
<1>5. /\ Tok(s) = Tok(r) /\ Tok(b(s)) = Tok(b(r)) /\ Tok(c(s)) = Tok(c(r))
      /\ proto(s) = proto(r)
  <2>1. /\ Tok(s) = Tok(r) /\ Tok(b(s)) = Tok(b(r)) /\ Tok(c(s)) = Tok(c(r))
        /\ Ident(b(s)) = Ident(b(r)) /\ Pointer(a(s)) = Pointer(a(r))
        /\ d(s).node = d(r).node
    BY <1>1, <1>2, <1>3, <1>4, TwinsEqual
  <2> QED BY <2>1
<1> HIDE DEF proto
<1>6. Twins(k, lost(s), lost(r))
  BY <1>3, FailTwins
<1> HIDE DEF lost
<1>7. /\ Twins(k, Fail(s, "EXPECTED_RETURN_DATATYPE"),
                  Fail(r, "EXPECTED_RETURN_DATATYPE"))
      /\ Twins(k, Fail(b(s), "EXPECTED_IDENTIFIER_NAME"),
                  Fail(b(r), "EXPECTED_IDENTIFIER_NAME"))
      /\ Twins(k, EatAnyway(lost(s)), EatAnyway(lost(r)))
      /\ Twins(k, Give(d(s), proto(s)), Give(d(r), proto(r)))
  BY <1>2, <1>4, <1>5, <1>6, FailTwins, EatAnywayTwins, GiveTwins
<1> QED BY <1>5, <1>7 DEF parsePrototype, a, b, c, d, null, proto, lost

LEMMA parseExternTwins ==
  ASSUME NEW k, CallTwins(k), NEW s, NEW r, Twins(k, s, r)
  PROVE  Twins(k, parseExtern(s), parseExtern(r))
<1>1. Twins(k, Eat(s), Eat(r))
  BY EatTwins
<1>2. Twins(k, Parsed("parsePrototype", Eat(s)), Parsed("parsePrototype", Eat(r)))
  BY <1>1, CalledTwins DEF Methods
<1>3. Twins(k, Fail(Eat(s), "EXPECTED_TYPE_AFTER_EXTERN"),
               Fail(Eat(r), "EXPECTED_TYPE_AFTER_EXTERN"))
  BY <1>1, FailTwins
<1>4. Tok(Eat(s)) = Tok(Eat(r))
  BY <1>1, TwinsEqual
<1> QED BY <1>2, <1>3, <1>4 DEF parseExtern

LEMMA parseStatementsUntillCurlyTwins ==
  ASSUME NEW k, CallTwins(k), NEW s, NEW r, Twins(k, s, r), NEW x
  PROVE  Twins(k, parseStatementsUntillCurly(s, x),
                  parseStatementsUntillCurly(r, x))
<1> DEFINE e(t) == Parsed("parseStatement", t)
           rest(t) == Call("parseStatementsUntillCurly", e(t), x)
           all(t) == Block(<<e(t).node>> \o rest(t).node.kids)
<1>1. Twins(k, e(s), e(r))
  BY ParsedTwins
<1> HIDE DEF e
<1>2. Twins(k, rest(s), rest(r))
  BY <1>1, CalledTwins DEF Methods
<1> HIDE DEF rest
<1>3. Tok(s) = Tok(r) /\ Tok(e(s)) = Tok(e(r)) /\ all(s) = all(r)
  BY <1>1, <1>2, TwinsEqual
<1> HIDE DEF all
<1>4. /\ Twins(k, Give(s, Block(<<>>)), Give(r, Block(<<>>)))
      /\ Twins(k, Fail(s, "EXPECTED_TOKEN"), Fail(r, "EXPECTED_TOKEN"))
      /\ Twins(k, Fail(e(s), "EXPECTED_TOKEN"), Fail(e(r), "EXPECTED_TOKEN"))
      /\ Twins(k, Give(rest(s), all(s)), Give(rest(r), all(r)))
  BY <1>1, <1>2, <1>3, GiveTwins, FailTwins
<1> QED BY <1>3, <1>4 DEF parseStatementsUntillCurly, e, rest, all

LEMMA BracesTwins ==
  ASSUME NEW k, CallTwins(k), NEW s, NEW r, Twins(k, s, r), NEW code, NEW x
  PROVE  Twins(k, Braces(s, code, x), Braces(r, code, x))
<1> DEFINE o(t) == Expect(t, "tok_open_curly", code)
           body(t) == Call("parseStatementsUntillCurly", o(t), x)
<1>1. Twins(k, o(s), o(r))
  BY ExpectTwins
<1> HIDE DEF o
<1>2. Twins(k, body(s), body(r))
  BY <1>1, CalledTwins DEF Methods
<1> HIDE DEF body
<1>3. Twins(k, Eat(body(s)), Eat(body(r))) /\ body(s).node = body(r).node
  BY <1>2, EatTwins, TwinsEqual
<1>4. Twins(k, Give(Eat(body(s)), body(s).node), Give(Eat(body(r)), body(r).node))
  BY <1>3, GiveTwins
<1> QED BY <1>4 DEF Braces, o, body

LEMMA parseFunctionTwins ==
  ASSUME NEW k, CallTwins(k), NEW s, NEW r, Twins(k, s, r)
  PROVE  Twins(k, parseFunction(s), parseFunction(r))
<1> DEFINE proto(t) == Parsed("parsePrototype", t)
           body(t) == Braces(proto(t), "EXPECTED_TOKEN", FALSE)
           fun(t) == Node("Function", NoText, NoText,
                       <<[proto(t).node EXCEPT !.flags = @ \ {"isExtern"}],
                         body(t).node>>, {})
<1>1. Twins(k, proto(s), proto(r))
  BY CalledTwins DEF Methods
<1> HIDE DEF proto
<1>2. Twins(k, body(s), body(r))
  BY <1>1, BracesTwins
<1> HIDE DEF body
<1>3. fun(s) = fun(r)
  <2>1. proto(s).node = proto(r).node /\ body(s).node = body(r).node
    BY <1>1, <1>2, TwinsEqual
  <2> QED BY <2>1
<1> HIDE DEF fun
<1>4. Twins(k, Give(body(s), fun(s)), Give(body(r), fun(r)))
  BY <1>2, <1>3, GiveTwins
<1> QED BY <1>4 DEF parseFunction, proto, body, fun

LEMMA parseIfStatementTwins ==
  ASSUME NEW k, CallTwins(k), NEW s, NEW r, Twins(k, s, r)
  PROVE  Twins(k, parseIfStatement(s), parseIfStatement(r))
<1> DEFINE o(t) == Expect(Eat(t), "tok_open_round", "EXPECTED_TOKEN")
           condition(t) == Parsed("parseExpression", o(t))
           c(t) == Expect(condition(t), "tok_close_round", "EXPECTED_TOKEN")
           then(t) == Braces(c(t), "EXPECTED_TOKEN", TRUE)
           after(t) == Eat(then(t))
           else(t) == ElseBranch(then(t))
           node(t) == Node("If", NoText, NoText,
                           <<condition(t).node, then(t).node, else(t).node>>, {})
<1>1. Twins(k, o(s), o(r))
  BY EatTwins, ExpectTwins
<1> HIDE DEF o
<1>2. Twins(k, condition(s), condition(r))
  BY <1>1, ParsedTwins
<1> HIDE DEF condition
<1>3. Twins(k, c(s), c(r))
  BY <1>2, ExpectTwins
<1> HIDE DEF c
<1>4. Twins(k, then(s), then(r))
  BY <1>3, BracesTwins
<1> HIDE DEF then
<1>5. Twins(k, after(s), after(r))
  BY <1>4, EatTwins
<1> HIDE DEF after
<1>6. Twins(k, ElseBlock(after(s)), ElseBlock(after(r)))
  <2>1. Twins(k, Fail(after(s), "UNEXPECTED_TOKEN_IN_EXPRESSION"),
                 Fail(after(r), "UNEXPECTED_TOKEN_IN_EXPRESSION"))
    BY <1>5, FailTwins
  <2>2. Twins(k, Braces(after(s), "EXPECTED_TOKEN", FALSE),
                 Braces(after(r), "EXPECTED_TOKEN", FALSE))
    BY <1>5, BracesTwins
  <2> QED BY <1>5, <2>1, <2>2, TwinsEqual DEF ElseBlock
<1>7. Twins(k, else(s), else(r))
  <2>1. Twins(k, Give(then(s), Block(<<>>)), Give(then(r), Block(<<>>)))
    BY <1>4, GiveTwins
  <2>2. Tok(then(s)) = Tok(then(r))
    BY <1>4, TwinsEqual
  <2> QED BY <1>6, <2>1, <2>2 DEF ElseBranch, after
<1> HIDE DEF else
<1>8. node(s) = node(r) /\ (IsNull(then(s)) <=> IsNull(then(r)))
  BY <1>2, <1>4, <1>7, TwinsEqual
<1> HIDE DEF node
<1>9. Twins(k, Give(else(s), node(s)), Give(else(r), node(r)))
  BY <1>7, <1>8, GiveTwins
<1> QED BY <1>4, <1>8, <1>9
        DEF parseIfStatement, o, condition, c, then, else, node

LEMMA ForInitialisationTwins ==
  ASSUME NEW k, CallTwins(k), NEW s, NEW r, Twins(k, s, r)
  PROVE  Twins(k, ForInitialisation(s), ForInitialisation(r))
<1>1. /\ Twins(k, Fail(s, "EXPECTED_IDENTIFIER_NAME"),
                  Fail(r, "EXPECTED_IDENTIFIER_NAME"))
      /\ Twins(k, Fail(s, "EXPECTED_TOKEN"), Fail(r, "EXPECTED_TOKEN"))
      /\ Twins(k, Parsed("parseStatement", s), Parsed("parseStatement", r))
  BY FailTwins, ParsedTwins
<1>2. /\ Tok(s) = Tok(r) /\ (IsNull(s) <=> IsNull(r))
      /\ \A i \in {1, 2} : \A tok : SlotIs(s, i, tok) <=> SlotIs(r, i, tok)
  BY TwinsEqual, TwinSlots
<1> QED BY <1>1, <1>2 DEF ForInitialisation

LEMMA parseForStatementTwins ==
  ASSUME NEW k, CallTwins(k), NEW s, NEW r, Twins(k, s, r)
  PROVE  Twins(k, parseForStatement(s), parseForStatement(r))
<1> DEFINE o(t) == Expect(Eat(t), "tok_open_round", "EXPECTED_TOKEN")
           init(t) == ForInitialisation(Ahead(o(t), 2))
           condition(t) == Blame(Parsed("parseStatement", init(t)),
                                 "FOR_LOOP_FAILURE")
           e(t) == Parsed("parseExpression", condition(t))
           increment(t) == Blame([e(t) EXCEPT !.flag = FALSE], "FOR_LOOP_FAILURE")
           c(t) == Expect(increment(t), "tok_close_round", "EXPECTED_TOKEN")
           body(t) == Braces(c(t), "EXPECTED_TOKEN", FALSE)
           node(t) == Node("For", NoText, NoText,
                           <<init(t).node, condition(t).node, increment(t).node,
                             body(t).node>>, {})
<1>1. Twins(k, o(s), o(r))
  BY EatTwins, ExpectTwins
<1> HIDE DEF o
<1>2. Twins(k, init(s), init(r))
  BY <1>1, AheadTwins, ForInitialisationTwins
<1> HIDE DEF init
<1>3. Twins(k, condition(s), condition(r))
  BY <1>2, ParsedTwins, BlameTwins
<1> HIDE DEF condition
<1>4. Twins(k, e(s), e(r))
  BY <1>3, ParsedTwins
<1> HIDE DEF e
<1>5. Twins(k, increment(s), increment(r))
  BY <1>4, FieldTwins, BlameTwins
<1> HIDE DEF increment
<1>6. Twins(k, c(s), c(r))
  BY <1>5, ExpectTwins
<1> HIDE DEF c
<1>7. Twins(k, body(s), body(r))
  BY <1>6, BracesTwins
<1> HIDE DEF body
<1>8. /\ node(s) = node(r)
      /\ IsNull(init(s)) <=> IsNull(init(r))
      /\ IsNull(condition(s)) <=> IsNull(condition(r))
  BY <1>2, <1>3, <1>5, <1>7, TwinsEqual
<1> HIDE DEF node
<1>9. Twins(k, Give(body(s), node(s)), Give(body(r), node(r)))
  BY <1>7, <1>8, GiveTwins
<1> QED BY <1>2, <1>3, <1>8, <1>9
        DEF parseForStatement, ForHeader, o, init, condition, e, increment, c,
            body, node

LEMMA parseToPointerAssigmentTwins ==
  ASSUME NEW k, CallTwins(k), NEW s, NEW r, Twins(k, s, r)
  PROVE  Twins(k, parseToPointerAssigment(s), parseToPointerAssigment(r))
<1> DEFINE a(t) == Eat(t)
           b(t) == Expect(a(t), "tok_identifier", "EXPECTED_TOKEN")
           c(t) == Expect(b(t), "tok_assigment_operator", "EXPECTED_TOKEN")
           e(t) == Blame(Parsed("parseExpression", c(t)),
                         "UNEXPECTED_TOKEN_IN_EXPRESSION")
           node(t) == Node("ToPointer", Ident(a(t)), NoText, <<e(t).node>>,
                           {"isPointer"})
<1>1. Twins(k, a(s), a(r))
  BY EatTwins
<1> HIDE DEF a
<1>2. Twins(k, b(s), b(r))
  BY <1>1, ExpectTwins
<1> HIDE DEF b
<1>3. Twins(k, c(s), c(r))
  BY <1>2, ExpectTwins
<1> HIDE DEF c
<1>4. Twins(k, e(s), e(r))
  BY <1>3, ParsedTwins, BlameTwins
<1> HIDE DEF e
<1>5. node(s) = node(r) /\ (IsNull(c(s)) <=> IsNull(c(r)))
  BY <1>1, <1>3, <1>4, TwinsEqual
<1> HIDE DEF node
<1>6. Twins(k, Give(e(s), node(s)), Give(e(r), node(r)))
  BY <1>4, <1>5, GiveTwins
<1> QED BY <1>3, <1>5, <1>6 DEF parseToPointerAssigment, a, b, c, e, node

LEMMA parseDeclarationTwins ==
  ASSUME NEW k, CallTwins(k), NEW s, NEW r, Twins(k, s, r)
  PROVE  Twins(k, parseDeclaration(s), parseDeclaration(r))
<1> DEFINE a(t) == Ahead(t, 3)
<1>1. Twins(k, a(s), a(r))
  BY AheadTwins
<1> HIDE DEF a
<1>2. /\ Twins(k, Fail(a(s), "UNEXPECTED_TOKEN_IN_DECLARATION"),
                  Fail(a(r), "UNEXPECTED_TOKEN_IN_DECLARATION"))
      /\ Twins(k, Fail(a(s), "ERROR_IN_VOID_DATATYPE"),
                  Fail(a(r), "ERROR_IN_VOID_DATATYPE"))
      /\ Twins(k, Parsed("parseFunction", a(s)), Parsed("parseFunction", a(r)))
      /\ Twins(k, parseAssigment(a(s)), parseAssigment(a(r)))
  BY <1>1, FailTwins, CalledTwins, parseAssigmentTwins DEF Methods
<1>3. /\ Tok(a(s)) = Tok(a(r)) /\ (IsNull(a(s)) <=> IsNull(a(r)))
      /\ \A i \in {1, 2, 3} : \A tok :
           SlotIs(a(s), i, tok) <=> SlotIs(a(r), i, tok)
      /\ SlotStar(a(s), 1) <=> SlotStar(a(r), 1)
  BY <1>1, TwinsEqual, TwinSlots
<1>4. Twins(k, Declaration(a(s)), Declaration(a(r)))
  BY <1>2, <1>3 DEF Declaration
<1> QED BY <1>1, <1>3, <1>4 DEF parseDeclaration, DeclarationAhead, a

LEMMA ReturnStatementTwins ==
  ASSUME NEW k, CallTwins(k), NEW s, NEW r, Twins(k, s, r)
  PROVE  Twins(k, ReturnStatement(s), ReturnStatement(r))
<1> DEFINE e(t) == Dereferenced(Parsed("parseExpression", Eat(t)))
           node(t) == [e(t).node EXCEPT !.flags = @ \cup {"isReturn"}]
<1>1. Twins(k, e(s), e(r))
  BY EatTwins, ParsedTwins, DereferencedTwins
<1> HIDE DEF e
<1>2. node(s) = node(r)
  <2>1. e(s).node = e(r).node
    BY <1>1, TwinsEqual
  <2> QED BY <2>1
<1> HIDE DEF node
<1>3. Twins(k, Give(e(s), node(s)), Give(e(r), node(r)))
  BY <1>1, <1>2, GiveTwins
<1> QED BY <1>3 DEF ReturnStatement, e, node

LEMMA handleExpressionTwins ==
  ASSUME NEW k, CallTwins(k), NEW s, NEW r, Twins(k, s, r)
  PROVE  Twins(k, handleExpression(s), handleExpression(r))
BY ParsedTwins, DereferencedTwins DEF handleExpression

LEMMA StatementBodyTwins ==
  ASSUME NEW k, CallTwins(k), NEW s, NEW r, Twins(k, s, r)
  PROVE  Twins(k, StatementBody(s), StatementBody(r))
<1>1. \A m \in Methods : Twins(k, Parsed(m, s), Parsed(m, r))
  BY CalledTwins
<1>2. /\ Twins(k, Parsed("parseDeclaration", s), Parsed("parseDeclaration", r))
      /\ Twins(k, Parsed("parseExpression", s), Parsed("parseExpression", r))
      /\ Twins(k, Parsed("parseIfStatement", s), Parsed("parseIfStatement", r))
      /\ Twins(k, Parsed("parseForStatement", s), Parsed("parseForStatement", r))
  BY <1>1 DEF Methods
<1>3. /\ Twins(k, parseExtern(s), parseExtern(r))
      /\ Twins(k, ReturnStatement(s), ReturnStatement(r))
      /\ Twins(k, parseToPointerAssigment(s), parseToPointerAssigment(r))
      /\ Twins(k, NoStatement(s), NoStatement(r))
  BY parseExternTwins, ReturnStatementTwins, parseToPointerAssigmentTwins,
     NoStatementTwins
<1>4. Tok(s) = Tok(r) /\ (Operator(s, "*") <=> Operator(r, "*"))
  BY TwinsEqual
<1> QED BY <1>2, <1>3, <1>4 DEF StatementBody

LEMMA parseStatementTwins ==
  ASSUME NEW k, CallTwins(k), NEW s, NEW r, Twins(k, s, r)
  PROVE  Twins(k, parseStatement(s), parseStatement(r))
<1> DEFINE e(t) == StatementBody(t)
           ended(t) == Semicolon(e(t))
           n(t) == [e(t) EXCEPT !.node = Null]
<1>1. Twins(k, e(s), e(r))
  BY StatementBodyTwins
<1> HIDE DEF e
<1>2. /\ Tok(s) = Tok(r) /\ Tok(e(s)) = Tok(e(r)) /\ e(s).node = e(r).node
      /\ IsNull(e(s)) <=> IsNull(e(r))
      /\ Faulted(e(s)) <=> Faulted(e(r))
  BY <1>1, TwinsEqual
<1>3. Twins(k, n(s), n(r))
  BY <1>1, FieldTwins
<1>4. Twins(k, ended(s), ended(r))
  BY <1>1, <1>2, EatAnywayTwins DEF Semicolon
<1> HIDE DEF ended, n
<1>5. /\ Twins(k, [ended(s) EXCEPT !.flag = FALSE], [ended(r) EXCEPT !.flag = FALSE])
      /\ Twins(k, Log(n(s), "EXPECTED_END_STATEMENT_TOKEN"),
                  Log(n(r), "EXPECTED_END_STATEMENT_TOKEN"))
  BY <1>3, <1>4, FieldTwins, LogTwins
<1>6. \A t \in {s, r} :
        parseStatement(t) =
          IF Faulted(e(t)) \/ (isDatatype(Tok(t)) /\ IsNull(e(t))) THEN e(t)
          ELSE IF /\ Tok(t) \notin {"tok_if", "tok_for"}
                  /\ e(t).node.kind # "Function"
                  /\ Tok(e(t)) # "tok_end_statement"
          THEN Log(n(t), "EXPECTED_END_STATEMENT_TOKEN")
          ELSE [ended(t) EXCEPT !.flag = FALSE]
  BY DEF parseStatement, EndStatement, e, ended, n
<1> QED BY <1>1, <1>2, <1>5, <1>6

(* Any method. *)
LEMMA MethodTwins ==
  ASSUME NEW k, CallTwins(k), NEW s, NEW r, Twins(k, s, r),
         NEW m \in Methods, NEW x
  PROVE  Twins(k, Method(m, s, x), Method(m, r, x))
<1>1. CASE m = "parseIdentifier"
  BY <1>1, parseIdentifierTwins DEF Method
<1>2. CASE m = "CallArguments"
  BY <1>2, CallArgumentsTwins DEF Method
<1>3. CASE m = "parseCast"
  BY <1>3, parseCastTwins DEF Method
<1>4. CASE m = "parseParen"
  BY <1>4, parseParenTwins DEF Method
<1>5. CASE m = "parsePrimary"
  BY <1>5, parsePrimaryTwins DEF Method
<1>6. CASE m = "parseBinOpRHS"
  BY <1>6, parseBinOpRHSTwins DEF Method
<1>7. CASE m = "parseExpression"
  BY <1>7, parseExpressionTwins DEF Method
<1>8. CASE m = "parseArguments"
  BY <1>8, parseArgumentsTwins DEF Method
<1>9. CASE m = "parsePrototype"
  BY <1>9, parsePrototypeTwins DEF Method
<1>10. CASE m = "parseFunction"
  BY <1>10, parseFunctionTwins DEF Method
<1>11. CASE m = "parseStatementsUntillCurly"
  BY <1>11, parseStatementsUntillCurlyTwins DEF Method
<1>12. CASE m = "parseIfStatement"
  BY <1>12, parseIfStatementTwins DEF Method
<1>13. CASE m = "parseForStatement"
  BY <1>13, parseForStatementTwins DEF Method
<1>14. CASE m = "parseDeclaration"
  BY <1>14, parseDeclarationTwins DEF Method
<1>15. CASE m = "parseStatement"
  BY <1>15, parseStatementTwins DEF Method
<1>16. CASE m = "handleExpression"
  BY <1>16, handleExpressionTwins DEF Method
<1> QED BY <1>1, <1>2, <1>3, <1>4, <1>5, <1>6, <1>7, <1>8, <1>9, <1>10, <1>11,
           <1>12, <1>13, <1>14, <1>15, <1>16 DEF Methods

(* One call more. *)
LEMMA DispatchTwins ==
  ASSUME NEW k \in Nat, k # 0 => CallTwins(k - 1),
         NEW s, NEW r, Twins(k, s, r), NEW m \in Methods, NEW x
  PROVE  Twins(k, Dispatch(m, s, x), Dispatch(m, r, x))
<1>1. s.room = k /\ r.room = k /\ (IsNull(s) <=> IsNull(r))
  BY TwinsEqual DEF Twins
<1>2. CASE IsNull(s)
  BY <1>1, <1>2 DEF Dispatch
<1>3. CASE ~IsNull(s) /\ k = 0
  <2>1. Twins(k, Raise(s, "stack"), Raise(r, "stack"))
    BY RaiseTwins
  <2> QED BY <1>1, <1>3, <2>1 DEF Dispatch
<1>4. CASE ~IsNull(s) /\ k # 0
  <2> DEFINE e(t) == [t EXCEPT !.room = k - 1]
             u(t) == Method(m, e(t), x)
  <2>1. Twins(k - 1, e(s), e(r))
    BY FieldTwins
  <2> HIDE DEF e
  <2>2. Twins(k - 1, u(s), u(r))
    BY <1>4, <2>1, MethodTwins
  <2> HIDE DEF u
  <2>3. Twins(k, [u(s) EXCEPT !.room = k], [u(r) EXCEPT !.room = k])
    BY <2>2, FieldTwins
  <2>4. /\ Dispatch(m, s, x) = [u(s) EXCEPT !.room = k]
        /\ Dispatch(m, r, x) = [u(r) EXCEPT !.room = k]
    BY <1>1, <1>4 DEF Dispatch, u, e
  <2> QED BY <2>3, <2>4
<1> QED BY <1>2, <1>3, <1>4

(* All calls: by the least room for which one would not. *)
LEMMA AllTwins ==
  ASSUME Recursion, NEW k \in Nat
  PROVE  CallTwins(k)
<1> DEFINE Bad == {j \in Nat : ~CallTwins(j)}
<1>1. CASE Bad = {}
  BY <1>1
<1>2. CASE Bad # {}
  <2>1. PICK j \in Bad : \A i \in Bad : j <= i
    BY <1>2, LeastNat
  <2>2. j \in Nat /\ ~CallTwins(j)
    BY <2>1
  <2>3. j # 0 => CallTwins(j - 1)
    <3> SUFFICES ASSUME j # 0, ~CallTwins(j - 1) PROVE FALSE
      OBVIOUS
    <3>1. j - 1 \in Bad
      BY <2>2
    <3> QED BY <2>1, <2>2, <3>1
  <2>4. ASSUME NEW m \in Methods, NEW s, NEW r, NEW x, Twins(j, s, r)
        PROVE  Twins(j, Call(m, s, x), Call(m, r, x))
    <3>1. s.room = j /\ r.room = j
      BY <2>4 DEF Twins
    <3>2. Call(m, s, x) = Dispatch(m, s, x) /\ Call(m, r, x) = Dispatch(m, r, x)
      BY <2>2, <3>1 DEF Recursion
    <3> QED BY <2>2, <2>3, <2>4, <3>2, DispatchTwins
  <2> QED BY <2>2, <2>4 DEF CallTwins
<1> QED BY <1>1, <1>2

-----------------------------------------------------------------------------
(***************************************************************************)
(* The first parse of a text.                                              *)
(***************************************************************************)

(* First tokens, other than the end of the text, that come without a word; *)
(* the word before them is of an earlier text.                             *)
Unworded == {"tok_number", "tok_malformed_number", "tok_no_match"}

LEMMA NewLexerType == NewLexer \in LexerState
<1>1. <<>> \in Seq(Lexeme) /\ <<>> \in Seq(MovableToken)
  OBVIOUS
<1>2. [tok |-> "tok_eof", ident |-> NoText, value |-> NoText, after |-> 0]
        \in MovableToken
  BY DEF MovableToken, Tokens, EndTokens
<1> QED BY <1>1, <1>2 DEF NewLexer, LexerState

(* What a lexer in use and a new one make of the beginning of a text.      *)
LEMMA FirstToken ==
  ASSUME NEW l \in LexerState, NEW h \in LexerState, NEW d \in Seq(Lexeme),
         ~Gettok(initFromString(l, d)).thrown,
         Gettok(initFromString(l, d)).cur.tok # "tok_eof",
         ClassAt(d, SkipNewLines(d, 1)) # "stray"
  PROVE  LET x == Gettok(initFromString(l, d))
             y == Gettok(initFromString(h, d))
         IN  /\ x.cur.tok = y.cur.tok /\ x.cur.after = y.cur.after
             /\ Alike(x, y) \/ x.cur.tok \in Unworded
<1> DEFINE u(t) == initFromString(t, d)
           x(t) == Gettok(u(t))
           i == SkipNewLines(d, 1)
           a == ScanEnd(d, i)
           k == ClassAt(d, i)
<1>1. \A t \in LexerState :
        /\ u(t) \in LexerState /\ u(t).data = d /\ u(t).start = 1
        /\ u(t).buf = <<>>
  <2>1. <<>> \in Seq(MovableToken)
    OBVIOUS
  <2> QED BY <2>1 DEF initFromString, LexerState, MovableToken
<1>2. Len(d) \in Nat
  BY LenProperties
<1> HIDE DEF u
<1>3. ASSUME NEW t \in LexerState
      PROVE  /\ x(t) \in LexerState /\ x(t).data = d /\ x(t).buf = <<>>
             /\ x(t).cur = ScanAt(d, u(t).cur, i) /\ x(t).start = a
             /\ x(t).thrown = (k = "overflow")
             /\ u(t).cur \in MovableToken
             /\ x(t).start <= Len(d) + 1
  <2>1. u(t) \in LexerState /\ u(t).start <= Len(u(t).data) + 1
    BY <1>1, <1>2
  <2>2. /\ x(t) \in LexerState /\ x(t).data = d /\ x(t).buf = <<>>
        /\ x(t).cur = Scan(d, u(t).cur, 1)
        /\ x(t).start = a /\ x(t).thrown = Throws(d, 1)
    BY <1>1, <2>1, GettokScans
  <2>3. x(t).start <= Len(d) + 1
    BY <1>1, <2>1, GettokType
  <2> QED BY <1>1, <2>2, <2>3 DEF Scan, Throws, LexerState
<1> HIDE DEF x
<1>4. k \in Classes \cup {"end"} /\ k # "newline"
  <2>1. Skipped(d, 1, i)
    BY <1>2, SkipNewLinesStops
  <2>2. i \in 1 .. Len(d) => d[i] \in Lexeme
    BY ElementOfSeq
  <2> QED BY <1>2, <2>1, <2>2 DEF Skipped, ClassAt, Lexeme
<1>5. x(l).thrown = FALSE /\ x(l).cur.tok # "tok_eof" /\ k # "stray"
  BY <1>3 DEF x, u
<1> HIDE DEF i, a, k
<1>6. k \in {"end", "unmatched", "word", "number", "malformed"}
  BY <1>3, <1>4, <1>5 DEF Classes
<1> DEFINE c(t) == u(t).cur
<1>7. /\ c(l) \in MovableToken /\ c(h) \in MovableToken
      /\ x(l).cur = ScanAt(d, c(l), i) /\ x(h).cur = ScanAt(d, c(h), i)
  BY <1>3
<1> HIDE DEF c
<1>8. CASE k = "word"
  <2> DEFINE w == WordToken(d[i].text)
  <2>1. /\ x(l).cur = [c(l) EXCEPT !.tok = w, !.ident = d[i].text, !.after = a]
        /\ x(h).cur = [c(h) EXCEPT !.tok = w, !.ident = d[i].text, !.after = a]
    BY <1>8, <1>7 DEF ScanAt, k, a
  <2>2. w # "tok_number"
    BY DEF WordToken, isBuiltInKeyword
  <2> HIDE DEF w
  <2>3. Same(x(l).cur, x(h).cur)
    BY <1>7, <2>1, <2>2 DEF Same, MovableToken
  <2>4. Alike(x(l), x(h))
    BY <1>3, <2>3, SameEmpty DEF Alike
  <2> QED BY <2>3, <2>4 DEF Same, x, u
<1>9. CASE k = "end"
  <2>1. x(l).cur = [c(l) EXCEPT !.tok = "tok_eof", !.after = a]
    BY <1>9, <1>7 DEF ScanAt, k, a
  <2> QED BY <1>5, <1>7, <2>1 DEF MovableToken
<1>10. CASE k = "number"
  <2>1. /\ x(l).cur = [c(l) EXCEPT !.tok = "tok_number",
                               !.value = d[i].text, !.after = a]
        /\ x(h).cur = [c(h) EXCEPT !.tok = "tok_number",
                               !.value = d[i].text, !.after = a]
    BY <1>10, <1>7 DEF ScanAt, k, a
  <2>2. /\ x(l).cur.tok = "tok_number" /\ x(h).cur.tok = "tok_number"
        /\ x(l).cur.after = a /\ x(h).cur.after = a
    BY <1>7, <2>1 DEF MovableToken
  <2> QED BY <2>2 DEF Unworded, x, u
<1>11. CASE k = "malformed"
  <2>1. /\ x(l).cur = [c(l) EXCEPT !.tok = "tok_malformed_number", !.after = a]
        /\ x(h).cur = [c(h) EXCEPT !.tok = "tok_malformed_number", !.after = a]
    BY <1>11, <1>7 DEF ScanAt, k, a
  <2>2. /\ x(l).cur.tok = "tok_malformed_number"
        /\ x(h).cur.tok = "tok_malformed_number"
        /\ x(l).cur.after = a /\ x(h).cur.after = a
    BY <1>7, <2>1 DEF MovableToken
  <2> QED BY <2>2 DEF Unworded, x, u
<1>12. CASE k = "unmatched"
  <2>1. /\ x(l).cur = [c(l) EXCEPT !.tok = "tok_no_match", !.after = a]
        /\ x(h).cur = [c(h) EXCEPT !.tok = "tok_no_match", !.after = a]
    BY <1>12, <1>7 DEF ScanAt, k, a
  <2>2. /\ x(l).cur.tok = "tok_no_match" /\ x(h).cur.tok = "tok_no_match"
        /\ x(l).cur.after = a /\ x(h).cur.after = a
    BY <1>7, <2>1 DEF MovableToken
  <2> QED BY <2>2 DEF Unworded, x, u
<1> QED BY <1>6, <1>8, <1>9, <1>10, <1>11, <1>12

(* A statement that begins with such a token is refused unread. *)
LEMMA UnwordedStatement ==
  ASSUME NEW s, DOMAIN s = Fields, Tok(s) \in Unworded, ~Faulted(s),
         s.empty = FALSE
  PROVE  LET t == parseStatement(s)
         IN  /\ t.node = Null /\ t.fault = s.fault /\ t.lex = s.lex
             /\ t.errs = Append(s.errs, "EXPECTED_END_STATEMENT_TOKEN")
             /\ t.orderly = s.orderly /\ t.oob = s.oob
             /\ t.refused = s.refused /\ t.empty = s.empty
             /\ DOMAIN t = Fields
<1> DEFINE e == NoStatement(s)
           n == [e EXCEPT !.node = Null]
           t == Log(n, "EXPECTED_END_STATEMENT_TOKEN")
<1>1. StatementBody(s) = e
  BY DEF StatementBody, Unworded, isDatatype, DataTypes, Operator
<1>2. /\ DOMAIN e = Fields /\ e.node = Null /\ e.fault = s.fault
      /\ e.lex = s.lex /\ e.errs = s.errs /\ e.orderly = s.orderly
      /\ e.oob = s.oob /\ e.refused = s.refused
      /\ e.empty = s.empty
  BY DEF NoStatement, Fields, Unworded
<1> HIDE DEF e
<1>3. /\ ~Faulted(e) /\ ~isDatatype(Tok(s)) /\ Tok(e) = Tok(s)
      /\ Tok(s) \notin {"tok_if", "tok_for", "tok_end_statement"}
      /\ e.node.kind # "Function"
  BY <1>2 DEF Faulted, Unworded, isDatatype, DataTypes, Tok, Null, Node
<1>4. parseStatement(s) = t
  BY <1>1, <1>3 DEF parseStatement, EndStatement
<1>5. /\ DOMAIN n = Fields /\ n.node = Null /\ n.fault = s.fault
      /\ n.lex = s.lex /\ n.errs = s.errs /\ n.orderly = s.orderly
      /\ n.oob = s.oob /\ n.refused = s.refused
      /\ n.empty = s.empty
  BY <1>2 DEF Fields
<1> HIDE DEF n
<1>6. ~Faulted(n)
  BY <1>5 DEF Faulted
<1>7. t = [n EXCEPT !.errs = Append(n.errs, "EXPECTED_END_STATEMENT_TOKEN")]
  BY <1>6 DEF Log
<1>8. /\ DOMAIN t = Fields /\ t.node = Null /\ t.fault = s.fault
      /\ t.lex = s.lex /\ t.orderly = s.orderly
      /\ t.errs = Append(s.errs, "EXPECTED_END_STATEMENT_TOKEN")
      /\ t.oob = s.oob /\ t.refused = s.refused
      /\ t.empty = s.empty
  BY <1>5, <1>7 DEF Fields
<1> QED BY <1>4, <1>8

(* What an outcome tells of a parse. *)
Agree(s, r) ==
  /\ CurrentIndex(s.lex) = CurrentIndex(r.lex)
  /\ s.node = r.node /\ s.errs = r.errs /\ s.fault = r.fault
  /\ s.orderly = r.orderly /\ s.oob = r.oob
  /\ s.refused = r.refused /\ s.empty = r.empty

(* The first statements of lexers that are alike, or stand at a token that *)
(* no statement begins with.                                               *)
LEMMA FirstStatement ==
  ASSUME Recursion, Assumptions, NEW x, NEW y, NEW g,
         x.cur.tok = y.cur.tok, x.cur.after = y.cur.after,
         Alike(x, y) \/ x.cur.tok \in Unworded
  PROVE  Agree(Parsed("parseStatement", ParseState(x, FALSE, g)),
               Parsed("parseStatement", ParseState(y, FALSE, g)))
<1> DEFINE s(l) == ParseState(l, FALSE, g)
           p(l) == Parsed("parseStatement", s(l))
<1>1. \A l : /\ DOMAIN s(l) = Fields /\ s(l).lex = l /\ s(l).flag = FALSE
             /\ s(l).errs = <<>> /\ s(l).node = None /\ s(l).fault = "none"
             /\ s(l).garbage = g /\ s(l).room = MaxCalls
             /\ s(l).orderly = TRUE /\ s(l).oob = FALSE
             /\ s(l).refused = FALSE /\ s(l).empty = FALSE
  BY DEF ParseState, Fields
<1>2. MaxCalls \in Nat /\ "parseStatement" \in Methods
  BY DEF Assumptions, MaxCallsAssumption, Methods
<1>3. CurrentIndex(x) = CurrentIndex(y)
  BY DEF CurrentIndex
<1> HIDE DEF s
<1>4. CASE Alike(x, y)
  <2>1. Twins(MaxCalls, s(x), s(y))
    BY <1>1, <1>4 DEF Twins
  <2>2. Twins(MaxCalls, p(x), p(y))
    BY <1>2, <2>1, AllTwins, CalledTwins
  <2> HIDE DEF p
  <2>3. CurrentIndex(p(x).lex) = CurrentIndex(p(y).lex)
    BY <2>2 DEF Twins, Alike, Same, CurrentIndex
  <2> QED BY <2>2, <2>3 DEF Twins, Agree, p, s
<1>5. CASE x.cur.tok \in Unworded
  <2>1. \A l : /\ p(l) = Dispatch("parseStatement", s(l), 0)
               /\ ~IsNull(s(l))
    <3>1. None # Null
      BY MadeNode DEF None, Block
    <3> QED BY <1>1, <1>2, <3>1 DEF Recursion, Parsed, IsNull
  <2>2. CASE MaxCalls = 0
    <3>1. \A l : p(l) = Raise(s(l), "stack")
      BY <1>1, <2>1, <2>2 DEF Dispatch
    <3>2. \A l : /\ p(l).lex = l /\ p(l).errs = <<>> /\ p(l).node = Null
                 /\ p(l).fault = "stack" /\ p(l).orderly = TRUE
                 /\ p(l).oob = FALSE /\ p(l).refused = FALSE
                 /\ p(l).empty = FALSE
      <4> HIDE DEF p
      <4> QED BY <1>1, <3>1 DEF Raise, Fields
    <3> HIDE DEF p
    <3>3. Agree(p(x), p(y))
      BY <1>3, <3>2 DEF Agree
    <3> QED BY <3>3 DEF p, s
  <2>3. CASE MaxCalls # 0
    <3> DEFINE c(l) == [s(l) EXCEPT !.room = MaxCalls - 1]
               t(l) == parseStatement(c(l))
    <3>1. \A l : p(l) = [t(l) EXCEPT !.room = MaxCalls]
      BY <1>1, <2>1, <2>3 DEF Dispatch, Method
    <3>2. \A l : /\ DOMAIN c(l) = Fields /\ c(l).lex = l
                 /\ c(l).errs = <<>> /\ c(l).fault = "none"
                 /\ c(l).orderly = TRUE /\ c(l).oob = FALSE
                 /\ c(l).refused = FALSE /\ c(l).empty = FALSE
      BY <1>1 DEF Fields
    <3> HIDE DEF p, c
    <3>3. ASSUME NEW l \in {x, y}
          PROVE  /\ p(l).lex = l /\ p(l).node = Null /\ p(l).fault = "none"
                 /\ p(l).errs = Append(<<>>, "EXPECTED_END_STATEMENT_TOKEN")
                 /\ p(l).orderly = TRUE /\ p(l).oob = FALSE
                 /\ p(l).refused = FALSE /\ p(l).empty = FALSE
      <4> DEFINE v == c(l)
      <4>1. /\ DOMAIN v = Fields /\ v.lex = l
            /\ v.errs = <<>> /\ v.fault = "none"
            /\ v.orderly = TRUE /\ v.oob = FALSE
            /\ v.refused = FALSE /\ v.empty = FALSE
        BY <3>2
      <4> HIDE DEF v
      <4>2. Tok(v) \in Unworded /\ ~Faulted(v)
        BY <1>5, <4>1 DEF Tok, Faulted
      <4> DEFINE w == parseStatement(v)
      <4>3. /\ w.node = Null /\ w.fault = v.fault /\ w.lex = v.lex
            /\ w.errs = Append(v.errs, "EXPECTED_END_STATEMENT_TOKEN")
            /\ w.orderly = v.orderly /\ w.oob = v.oob
            /\ w.refused = v.refused /\ w.empty = v.empty
            /\ DOMAIN w = Fields
        BY <4>1, <4>2, UnwordedStatement
      <4>4. p(l) = [w EXCEPT !.room = MaxCalls]
        BY <3>1 DEF v
      <4> HIDE DEF w
      <4> QED BY <4>1, <4>3, <4>4 DEF Fields
    <3>4. Agree(p(x), p(y))
      BY <1>3, <3>3 DEF Agree
    <3> QED BY <3>4 DEF p, s
  <2> QED BY <2>2, <2>3
<1> QED BY <1>4, <1>5

(* A module of which nothing has been parsed is in the lexer as its first  *)
(* gettok left it.                                                         *)
AtFirst ==
  pc = "module" /\ outcome = NoOutcome =>
    /\ ~lex.thrown
    /\ \E l \in LexerState : lex = Gettok(initFromString(l, lex.data))

LEMMA NextAtFirst ==
  ASSUME Assumptions, Inv, AtFirst, [Next]_vars
  PROVE  AtFirst'
<1>1. ASSUME NEW op, op # "none", NEW lx, NEW next, Parse(op, lx, next)
      PROVE  AtFirst'
  <2>1. outcome'.op = op /\ NoOutcome.op = "none"
    BY <1>1 DEF Parse, OutcomeOf, NoOutcome
  <2> QED BY <1>1, <2>1 DEF AtFirst
<1>2. CASE InitFromString
  <2>1. PICK t \in IF inputs = 0 THEN Texts ELSE Sessions, m \in Modes :
          /\ lex' = Gettok(initFromString(lex, t))
          /\ pc' = IF lex'.thrown THEN "crashed" ELSE m
    BY <1>2 DEF InitFromString
  <2>2. t \in Seq(Lexeme)
    BY DEF Assumptions, TextsAssumption
  <2>3. lex \in LexerState
    BY DEF Inv, TypeOK
  <2>4. lex'.data = t
    <3> DEFINE l == initFromString(lex, t)
    <3>1. Reading(l) /\ l.data = t
      BY <2>2, <2>3, initFromStringReads
    <3> HIDE DEF l
    <3>2. Gettok(l).data = t
      BY <3>1, GettokType DEF Reading
    <3> QED BY <2>1, <3>2 DEF l
  <2> QED BY <2>1, <2>3, <2>4 DEF AtFirst
<1>3. CASE ModuleStatement
  BY <1>1, <1>3 DEF ModuleStatement
<1>4. CASE ModuleEnd
  BY <1>4 DEF ModuleEnd, AtFirst
<1>5. CASE ReplIgnore
  BY <1>5 DEF ReplIgnore, AtFirst
<1>6. CASE ReplExpression
  BY <1>1, <1>6 DEF ReplExpression
<1>7. CASE ReplFunction
  BY <1>1, <1>7 DEF ReplFunction
<1>8. CASE PrintDiagnostic
  BY <1>8 DEF PrintDiagnostic, AtFirst
<1>9. CASE UNCHANGED vars
  BY <1>9 DEF vars, AtFirst
<1> QED BY <1>2, <1>3, <1>4, <1>5, <1>6, <1>7, <1>8, <1>9 DEF Next

LEMMA FirstParseFresh ==
  ASSUME Recursion, Assumptions, Inv, AtFirst, ModuleStatement,
         outcome = NoOutcome, ~flag, ~BeginsStray
  PROVE  outcome' \in FreshEnds
<1> DEFINE P(l, g) == Parsed("parseStatement", ParseState(l, FALSE, g))
<1>1. PICK g \in Garbage :
        outcome' = OutcomeOf("parseStatement", lex, P(lex, g))
  <2>1. PICK s \in Ends("parseStatement", lex) :
          outcome' = OutcomeOf("parseStatement", lex, s)
    BY DEF ModuleStatement, Parse
  <2>2. Usual \in Garbage
    BY DEF Assumptions, GarbageAssumption, Usual
  <2>3. flag = FALSE
    BY DEF Inv, TypeOK
  <2> QED BY <2>1, <2>2, <2>3 DEF Ends, EndsOf, Runs
<1>2. PICK l \in LexerState : lex = Gettok(initFromString(l, lex.data))
  BY DEF AtFirst, ModuleStatement
<1>3. /\ lex.data \in Seq(Lexeme) /\ ~lex.thrown /\ lex.cur.tok # "tok_eof"
      /\ ClassAt(lex.data, SkipNewLines(lex.data, 1)) # "stray"
  BY DEF Inv, TypeOK, LexerState, AtFirst, ModuleStatement, BeginsStray
<1>4. /\ lex.cur.tok = FreshLexer.cur.tok
      /\ lex.cur.after = FreshLexer.cur.after
      /\ Alike(lex, FreshLexer) \/ lex.cur.tok \in Unworded
  BY <1>2, <1>3, NewLexerType, FirstToken DEF FreshLexer
<1>5. Agree(P(lex, g), P(FreshLexer, g))
  BY <1>4, FirstStatement
<1>6. CurrentIndex(lex) = CurrentIndex(FreshLexer)
  BY <1>4 DEF CurrentIndex
<1> HIDE DEF P
<1>7. OutcomeOf("parseStatement", lex, P(lex, g))
        = OutcomeOf("parseStatement", FreshLexer, P(FreshLexer, g))
  BY <1>4, <1>5, <1>6 DEF Agree, OutcomeOf
<1>8. FreshEnds = {OutcomeOf("parseStatement", FreshLexer, P(FreshLexer, f)) :
                     f \in Garbage}
  BY DEF FreshEnds, FreshOutcomes, Runs, P
<1> QED BY <1>1, <1>7, <1>8

(* The first parse of a text has the outcome it would have were the text   *)
(* the first of all: nothing of the texts before it shows in it, if the    *)
(* assignment flag was not left set and the text does not begin with a     *)
(* stray lexeme.                                                           *)
THEOREM IndependentOfHistory ==
  ASSUME Recursion PROVE Spec => HistoryIndependent
<1>1. Assumptions
  BY TextsAssumption, ModesAssumption, BoundsAssumption, GarbageAssumption,
     MaxCallsAssumption DEF Assumptions
<1>2. Init => AtFirst
  BY DEF Init, AtFirst
<1>3. Inv /\ AtFirst /\ [Next]_vars => AtFirst'
  BY <1>1, NextAtFirst
<1>4. Inv /\ AtFirst /\ [Next]_vars =>
        [pc = "module" /\ pc' # "ready" /\ outcome = NoOutcome
           /\ ~flag /\ ~BeginsStray
         => outcome' \in FreshEnds]_vars
  <2> SUFFICES ASSUME Inv, AtFirst, [Next]_vars, ~UNCHANGED vars,
                      pc = "module", pc' # "ready", outcome = NoOutcome,
                      ~flag, ~BeginsStray
               PROVE  outcome' \in FreshEnds
    OBVIOUS
  <2>1. ModuleStatement
    BY DEF Next, InitFromString, ModuleEnd, ReplIgnore, ReplExpression,
           ReplFunction, PrintDiagnostic
  <2> QED BY <1>1, <2>1, FirstParseFresh
<1> QED BY <1>2, <1>3, <1>4, Invariance, PTL DEF Spec, HistoryIndependent
=============================================================================
