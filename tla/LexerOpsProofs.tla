--------------------------- MODULE LexerOpsProofs ---------------------------
(***************************************************************************)
(* Lemmas about the operators of LexerOps, for every set of spellings and  *)
(* every text: what gettok reads, where it stops, and the types of what it *)
(* returns.                                                                *)
(***************************************************************************)
EXTENDS LexerOps, SequenceTheorems, WellFoundedInduction, TLAPS

(* A non-empty set of natural numbers has a least element.                 *)
LEMMA LeastNat ==
  ASSUME NEW T, T \subseteq Nat, T # {}
  PROVE  \E x \in T : \A y \in T : x <= y
<1>1. PICK x \in T : \A y \in T : <<y, x>> \notin OpToRel(<, Nat)
  BY NatLessThanWellFounded, WFMin
<1>2. \A y \in T : ~(y < x)
  BY <1>1 DEF OpToRel
<1>3. \A y \in T : x <= y
  BY <1>2
<1> QED BY <1>3

(* What SkipNewLines promises: the first position, from p on, that is not  *)
(* a newline.                                                              *)
Skipped(d, p, i) ==
  /\ i \in p .. Len(d) + 1
  /\ i = Len(d) + 1 \/ d[i].class # "newline"
  /\ \A j \in p .. Len(d) : j < i => d[j].class = "newline"

LEMMA SkipNewLinesStops ==
  ASSUME NEW d \in Seq(Lexeme), NEW p \in Nat, p <= Len(d) + 1
  PROVE  Skipped(d, p, SkipNewLines(d, p))
<1> DEFINE T == {i \in p .. Len(d) + 1 :
                   i = Len(d) + 1 \/ d[i].class # "newline"}
<1>1. Len(d) \in Nat
  BY LenProperties
<1>2. Len(d) + 1 \in T /\ T \subseteq Nat
  BY <1>1
<1>3. PICK i \in T : \A j \in T : i <= j
  <2> HIDE DEF T
  <2> QED BY <1>2, LeastNat
<1>4. ASSUME NEW j \in p .. Len(d), j < i
      PROVE  d[j].class = "newline"
  <2>1. j \notin T
    BY <1>1, <1>2, <1>3, <1>4
  <2> QED BY <1>1, <2>1
<1>5. Skipped(d, p, i)
  BY <1>1, <1>3, <1>4 DEF Skipped
<1> QED BY <1>5 DEF Skipped, SkipNewLines

(* There is only one such position ...                                     *)
LEMMA SkippedUnique ==
  ASSUME NEW d \in Seq(Lexeme), NEW p \in Nat, NEW i, NEW j,
         Skipped(d, p, i), Skipped(d, p, j)
  PROVE  i = j
<1>1. Len(d) \in Nat
  BY LenProperties
<1>2. i \in Nat /\ j \in Nat /\ p <= i /\ p <= j
      /\ i <= Len(d) + 1 /\ j <= Len(d) + 1
  BY <1>1 DEF Skipped
<1>3. ~(i < j)
  BY <1>1, <1>2 DEF Skipped
<1>4. ~(j < i)
  BY <1>1, <1>2 DEF Skipped
<1> QED BY <1>2, <1>3, <1>4

(* ... so that skipping again stays there.                                 *)
LEMMA SkipNewLinesIdempotent ==
  ASSUME NEW d \in Seq(Lexeme), NEW p \in Nat, p <= Len(d) + 1
  PROVE  SkipNewLines(d, SkipNewLines(d, p)) = SkipNewLines(d, p)
<1> DEFINE i == SkipNewLines(d, p)
<1>1. Skipped(d, p, i) /\ Len(d) \in Nat
  BY SkipNewLinesStops, LenProperties
<1>2. i \in Nat /\ i <= Len(d) + 1
  BY <1>1 DEF Skipped
<1>3. Skipped(d, i, i)
  BY <1>1, <1>2 DEF Skipped
<1>4. Skipped(d, i, SkipNewLines(d, i))
  BY <1>2, SkipNewLinesStops
<1> QED BY <1>2, <1>3, <1>4, SkippedUnique

-----------------------------------------------------------------------------
(* The scanner stays within the text.                                      *)
LEMMA ScanEndInText ==
  ASSUME NEW d \in Seq(Lexeme), NEW p \in Nat, p <= Len(d) + 1
  PROVE  LET i == SkipNewLines(d, p)
         IN  /\ i \in Nat /\ p <= i
             /\ ScanEnd(d, i) \in Nat
             /\ i <= ScanEnd(d, i)
             /\ ScanEnd(d, i) <= Len(d) + 1
<1> DEFINE i == SkipNewLines(d, p)
<1>1. Skipped(d, p, i) /\ Len(d) \in Nat
  BY SkipNewLinesStops, LenProperties
<1>2. i \in Nat /\ p <= i /\ i <= Len(d) + 1
  BY <1>1 DEF Skipped
<1>3. Consumed(d, i) => i \in 1 .. Len(d)
  BY DEF Consumed, ClassAt
<1> QED BY <1>1, <1>2, <1>3 DEF ScanEnd

LEMMA WordTokenInTokens ==
  ASSUME NEW str
  PROVE  WordToken(str) \in Tokens \ EndTokens
BY DEF WordToken, isBuiltInKeyword, Tokens, DataTypes, EndTokens

(* Scan makes a token of the right type whose `after` is where scanning    *)
(* goes on.                                                                *)
LEMMA ScanType ==
  ASSUME NEW d \in Seq(Lexeme), NEW c \in MovableToken,
         NEW p \in Nat, p <= Len(d) + 1
  PROVE  /\ Scan(d, c, p) \in MovableToken
         /\ p # 0 => Scan(d, c, p).after = ScanEnd(d, SkipNewLines(d, p))
         /\ p = 0 => Scan(d, c, p).after = c.after
<1> DEFINE i == SkipNewLines(d, p)
           a == ScanEnd(d, i)
           k == ClassAt(d, i)
<1>1. i \in Nat /\ a \in Nat
  BY ScanEndInText
<1>2. i \in 1 .. Len(d) => d[i] \in Lexeme
  BY ElementOfSeq
<1>3. k \in {"word", "number"} => d[i].text \in Text
  BY <1>2 DEF ClassAt, Lexeme
<1>4. {"tok_empty_lexer", "tok_eof", "tok_no_match", "tok_identifier",
       "tok_number", "tok_malformed_number"} \subseteq Tokens
  BY DEF Tokens, DataTypes, EndTokens
<1>5. CASE p = 0
  BY <1>4, <1>5 DEF Scan, MovableToken
<1>6. CASE p # 0
  <2> DEFINE w == WordToken(d[i].text)
  <2>1. CASE k = "end"
    <3>1. Scan(d, c, p) = [c EXCEPT !.tok = "tok_eof", !.after = a]
      BY <1>6, <2>1 DEF Scan, ScanAt
    <3> QED BY <1>1, <1>4, <1>6, <3>1 DEF MovableToken
  <2>2. CASE k = "unmatched"
    <3>1. Scan(d, c, p) = [c EXCEPT !.tok = "tok_no_match", !.after = a]
      BY <1>6, <2>2 DEF Scan, ScanAt
    <3> QED BY <1>1, <1>4, <1>6, <3>1 DEF MovableToken
  <2>3. CASE k = "word"
    <3>1. Scan(d, c, p)
            = [c EXCEPT !.tok = w, !.ident = d[i].text, !.after = a]
      BY <1>6, <2>3 DEF Scan, ScanAt
    <3>2. w \in Tokens
      BY WordTokenInTokens
    <3> QED BY <1>1, <1>3, <1>6, <2>3, <3>1, <3>2 DEF MovableToken
  <2>4. CASE k = "number"
    <3>1. Scan(d, c, p)
            = [c EXCEPT !.tok = "tok_number", !.value = d[i].text, !.after = a]
      BY <1>6, <2>4 DEF Scan, ScanAt
    <3> QED BY <1>1, <1>3, <1>4, <1>6, <2>4, <3>1 DEF MovableToken
  <2>5. CASE k = "malformed"
    <3>1. Scan(d, c, p)
            = [c EXCEPT !.tok = "tok_malformed_number", !.after = a]
      BY <1>6, <2>5 DEF Scan, ScanAt
    <3> QED BY <1>1, <1>4, <1>6, <3>1 DEF MovableToken
  <2>6. CASE k \notin {"end", "unmatched", "word", "number", "malformed"}
    <3>1. Scan(d, c, p) = [c EXCEPT !.after = a]
      BY <1>6, <2>6 DEF Scan, ScanAt
    <3> QED BY <1>1, <1>6, <3>1 DEF MovableToken
  <2> QED BY <2>1, <2>2, <2>3, <2>4, <2>5, <2>6
<1> QED BY <1>5, <1>6

(* Where the text ends for the scanner it stays ended: an end token is     *)
(* scanned again and again.                                                *)
LEMMA EndTokenStays ==
  ASSUME NEW d \in Seq(Lexeme), NEW c \in MovableToken,
         NEW p \in Nat \ {0}, p <= Len(d) + 1,
         Scan(d, c, p).tok \in EndTokens, ~Throws(d, p)
  PROVE  LET e == Scan(d, c, p) IN Scan(d, e, e.after) = e
<1> DEFINE i == SkipNewLines(d, p)
           a == ScanEnd(d, i)
           k == ClassAt(d, i)
           e == Scan(d, c, p)
<1>1. i \in Nat \ {0} /\ SkipNewLines(d, i) = i
  BY ScanEndInText, SkipNewLinesIdempotent
<1>2. e \in MovableToken /\ e.after = a
  BY ScanType
<1>3. k # "overflow"
  BY DEF Throws
<1>4. k # "word"
  <2> SUFFICES ASSUME k = "word" PROVE FALSE
    OBVIOUS
  <2> DEFINE w == WordToken(d[i].text)
  <2>1. e = [c EXCEPT !.tok = w, !.ident = d[i].text, !.after = a]
    BY DEF Scan, ScanAt
  <2>2. w \notin EndTokens
    BY WordTokenInTokens
  <2> QED BY <2>1, <2>2 DEF MovableToken
<1>5. k # "number"
  <2> SUFFICES ASSUME k = "number" PROVE FALSE
    OBVIOUS
  <2>1. e = [c EXCEPT !.tok = "tok_number", !.value = d[i].text, !.after = a]
    BY DEF Scan, ScanAt
  <2> QED BY <2>1 DEF MovableToken, EndTokens
<1>6. k # "malformed"
  <2> SUFFICES ASSUME k = "malformed" PROVE FALSE
    OBVIOUS
  <2>1. e = [c EXCEPT !.tok = "tok_malformed_number", !.after = a]
    BY DEF Scan, ScanAt
  <2> QED BY <2>1 DEF MovableToken, EndTokens
<1>7. a = i
  BY <1>3, <1>4, <1>5, <1>6 DEF ScanEnd, Consumed
<1>8. CASE k = "end"
  <2>1. e = [c EXCEPT !.tok = "tok_eof", !.after = a]
    BY <1>8 DEF Scan, ScanAt
  <2>2. Scan(d, e, i) = [e EXCEPT !.tok = "tok_eof", !.after = a]
    BY <1>1, <1>8 DEF Scan, ScanAt
  <2> QED BY <1>2, <1>7, <2>1, <2>2 DEF MovableToken
<1>9. CASE k = "unmatched"
  <2>1. e = [c EXCEPT !.tok = "tok_no_match", !.after = a]
    BY <1>9 DEF Scan, ScanAt
  <2>2. Scan(d, e, i) = [e EXCEPT !.tok = "tok_no_match", !.after = a]
    BY <1>1, <1>9 DEF Scan, ScanAt
  <2> QED BY <1>2, <1>7, <2>1, <2>2 DEF MovableToken
<1>10. CASE k \notin {"end", "unmatched"}
  <2>1. Scan(d, e, i) = [e EXCEPT !.after = a]
    BY <1>1, <1>4, <1>5, <1>6, <1>10 DEF Scan, ScanAt
  <2> QED BY <1>2, <1>7, <2>1 DEF MovableToken
<1> QED BY <1>8, <1>9, <1>10

-----------------------------------------------------------------------------
(* The two ways gettok goes, and the lexers it makes.                      *)

LEMMA GettokPops ==
  ASSUME NEW lx \in LexerState, lx.start # 0, lx.buf # <<>>
  PROVE  /\ Gettok(lx) \in LexerState
         /\ Gettok(lx).data = lx.data
         /\ Gettok(lx).start = lx.start
         /\ Gettok(lx).cur = Head(lx.buf)
         /\ Gettok(lx).buf = Tail(lx.buf)
         /\ Gettok(lx).thrown = FALSE
<1>1. Gettok(lx) = [lx EXCEPT !.cur = Head(lx.buf), !.buf = Tail(lx.buf),
                              !.thrown = FALSE]
  BY DEF Gettok, Pop
<1>2. Head(lx.buf) \in MovableToken /\ Tail(lx.buf) \in Seq(MovableToken)
  BY HeadTailProperties DEF LexerState
<1> QED BY <1>1, <1>2 DEF LexerState

LEMMA GettokScans ==
  ASSUME NEW lx \in LexerState, lx.start <= Len(lx.data) + 1,
         lx.start = 0 \/ lx.buf = <<>>
  PROVE  /\ Gettok(lx) \in LexerState
         /\ Gettok(lx).data = lx.data
         /\ Gettok(lx).buf = lx.buf
         /\ Gettok(lx).cur = Scan(lx.data, lx.cur, lx.start)
         /\ Gettok(lx).start = IF lx.start = 0 THEN 0
               ELSE ScanEnd(lx.data, SkipNewLines(lx.data, lx.start))
         /\ Gettok(lx).thrown = Throws(lx.data, lx.start)
<1> DEFINE i == SkipNewLines(lx.data, lx.start)
           c == Scan(lx.data, lx.cur, lx.start)
           width == IF Consumed(lx.data, i) THEN 1 ELSE 0
<1>1. Gettok(lx) = ScanText(lx)
  BY DEF Gettok
<1>2. lx.data \in Seq(Lexeme) /\ lx.cur \in MovableToken /\ lx.start \in Nat
  BY DEF LexerState
<1>3. c \in MovableToken
  BY <1>2, ScanType
<1>4. CASE lx.start = 0
  <2>1. ScanText(lx) = [lx EXCEPT !.cur = c, !.thrown = FALSE]
    BY <1>4, <1>2 DEF ScanText, Scan
  <2>2. Throws(lx.data, lx.start) = FALSE
    BY <1>4 DEF Throws
  <2> QED BY <1>1, <1>3, <1>4, <2>1, <2>2 DEF LexerState
<1>5. CASE lx.start # 0
  <2> DEFINE line == lx.line + (i - lx.start)
             col == width + (IF i = lx.start THEN lx.col ELSE 0)
  <2>1. ScanText(lx) = [lx EXCEPT !.cur = c, !.start = ScanEnd(lx.data, i),
                                  !.line = line, !.col = col,
                                  !.thrown = Throws(lx.data, lx.start)]
    BY <1>5 DEF ScanText, Scan
  <2>2. i \in Nat /\ lx.start <= i /\ ScanEnd(lx.data, i) \in Nat
    BY <1>2, ScanEndInText
  <2>3. line \in Nat /\ col \in Nat
    BY <2>2 DEF LexerState
  <2>4. Throws(lx.data, lx.start) \in BOOLEAN
    BY DEF Throws
  <2> HIDE DEF i, c, width, line, col
  <2> QED BY <1>1, <1>3, <1>5, <2>1, <2>2, <2>3, <2>4 DEF LexerState, c, i
<1> QED BY <1>4, <1>5

(* Whatever it does, gettok keeps the text, a lexer without a text stays   *)
(* without one, and the scanner stays within the text.                     *)
LEMMA GettokType ==
  ASSUME NEW lx \in LexerState, lx.start <= Len(lx.data) + 1
  PROVE  /\ Gettok(lx) \in LexerState
         /\ Gettok(lx).data = lx.data
         /\ Gettok(lx).start <= Len(lx.data) + 1
         /\ Gettok(lx).start = 0 <=> lx.start = 0
<1>1. lx.data \in Seq(Lexeme) /\ lx.start \in Nat
  BY DEF LexerState
<1>2. CASE lx.start # 0 /\ lx.buf # <<>>
  BY <1>2, GettokPops
<1>3. CASE lx.start = 0 \/ lx.buf = <<>>
  <2> DEFINE a == ScanEnd(lx.data, SkipNewLines(lx.data, lx.start))
  <2>1. lx.start <= a /\ a <= Len(lx.data) + 1 /\ a \in Nat
    BY <1>1, ScanEndInText
  <2> HIDE DEF a
  <2>2. Gettok(lx).start = IF lx.start = 0 THEN 0 ELSE a
    BY <1>3, GettokScans DEF a
  <2>3. Gettok(lx) \in LexerState /\ Gettok(lx).data = lx.data
    BY <1>3, GettokScans
  <2>4. Len(lx.data) \in Nat
    BY <1>1, LenProperties
  <2> QED BY <1>1, <2>1, <2>2, <2>3, <2>4
<1> QED BY <1>2, <1>3
=============================================================================
