---------------------------- MODULE LexerProofs ----------------------------
(***************************************************************************)
(* Proofs about Lexer, for every set of texts and every bound on the       *)
(* look-aheads.  The types, EndNeverPending and FailureLeavesNothing hold  *)
(* of any caller; the order of the tokens, PositionSettles, the            *)
(* transparency of a successful look-ahead and the refinement of           *)
(* TokenStream hold of the callers that keep Contract.                     *)
(***************************************************************************)
EXTENDS Lexer, LexerOpsProofs, FiniteSetTheorems

-----------------------------------------------------------------------------
(* Lemmas on sequences.                                                    *)

LEMMA Singleton ==
  ASSUME NEW S, NEW c \in S
  PROVE  <<c>> \in Seq(S) /\ Len(<<c>>) = 1 /\ <<c>>[1] = c
OBVIOUS

LEMMA MoveHead ==
  ASSUME NEW S, NEW s \in Seq(S), NEW t \in Seq(S), t # <<>>
  PROVE  Append(s, Head(t)) \o Tail(t) = s \o t
<1> DEFINE a == Append(s, Head(t))
           l == a \o Tail(t)
           r == s \o t
<1>1. Len(s) \in Nat /\ Len(t) \in Nat \ {0}
  BY LenProperties, EmptySeq
<1>2. /\ Head(t) \in S /\ Head(t) = t[1]
      /\ Tail(t) \in Seq(S) /\ Len(Tail(t)) = Len(t) - 1
      /\ \A i \in 1 .. Len(Tail(t)) : Tail(t)[i] = t[i + 1]
  BY HeadTailProperties
<1>3. /\ a \in Seq(S) /\ Len(a) = Len(s) + 1
      /\ \A i \in 1 .. Len(s) : a[i] = s[i]
      /\ a[Len(s) + 1] = t[1]
  BY <1>2, AppendProperties
<1>4. /\ l \in Seq(S) /\ Len(l) = Len(a) + Len(Tail(t))
      /\ \A i \in 1 .. Len(a) + Len(Tail(t)) :
           l[i] = IF i <= Len(a) THEN a[i] ELSE Tail(t)[i - Len(a)]
  BY <1>2, <1>3, ConcatProperties
<1>5. /\ r \in Seq(S) /\ Len(r) = Len(s) + Len(t)
      /\ \A i \in 1 .. Len(s) + Len(t) :
           r[i] = IF i <= Len(s) THEN s[i] ELSE t[i - Len(s)]
  BY ConcatProperties
<1> HIDE DEF a, l, r
<1>6. Len(l) = Len(r)
  BY <1>1, <1>2, <1>3, <1>4, <1>5
<1>7. ASSUME NEW i \in 1 .. Len(l) PROVE l[i] = r[i]
  <2>1. i \in 1 .. Len(s) + Len(t)
    BY <1>1, <1>2, <1>3, <1>4
  <2>2. CASE i <= Len(s)
    <3>1. i \in 1 .. Len(s) /\ i <= Len(a) /\ i \in 1 .. Len(a) + Len(Tail(t))
      BY <1>1, <1>2, <1>3, <2>1, <2>2
    <3>2. l[i] = a[i] /\ a[i] = s[i]
      BY <1>3, <1>4, <3>1
    <3> QED BY <1>5, <2>1, <2>2, <3>2
  <2>3. CASE i = Len(s) + 1
    BY <1>1, <1>2, <1>3, <1>4, <1>5, <2>1, <2>3
  <2>4. CASE i > Len(s) + 1
    <3>1. l[i] = Tail(t)[i - Len(a)] /\ r[i] = t[i - Len(s)]
      BY <1>1, <1>2, <1>3, <1>4, <1>5, <2>1, <2>4
    <3>2. i - Len(a) \in 1 .. Len(Tail(t)) /\ i - Len(a) + 1 = i - Len(s)
      BY <1>1, <1>2, <1>3, <2>1, <2>4
    <3> QED BY <1>2, <3>1, <3>2
  <2> QED BY <1>1, <2>1, <2>2, <2>3, <2>4
<1>8. l = r
  BY <1>4, <1>5, <1>6, <1>7, SeqEqual
<1> QED BY <1>8 DEF a, l, r

LEMMA ConsTail ==
  ASSUME NEW S, NEW t \in Seq(S), t # <<>>
  PROVE  <<Head(t)>> \o Tail(t) = t
<1>1. Append(<<>>, Head(t)) = <<Head(t)>>
  OBVIOUS
<1>2. Append(<<>>, Head(t)) \o Tail(t) = <<>> \o t
  BY MoveHead, EmptySeq
<1>3. <<>> \o t = t
  BY ConcatEmptySeq
<1> QED BY <1>1, <1>2, <1>3

LEMMA ConsProperties ==
  ASSUME NEW S, NEW c \in S, NEW s \in Seq(S)
  PROVE  /\ <<c>> \o s \in Seq(S)
         /\ Len(<<c>> \o s) = Len(s) + 1
         /\ (<<c>> \o s)[1] = c
         /\ \A i \in 1 .. Len(s) : (<<c>> \o s)[i + 1] = s[i]
<1>1. <<c>> \in Seq(S) /\ Len(<<c>>) = 1 /\ <<c>>[1] = c
  BY Singleton
<1>2. Len(s) \in Nat
  BY LenProperties
<1>3. /\ <<c>> \o s \in Seq(S)
      /\ Len(<<c>> \o s) = Len(<<c>>) + Len(s)
      /\ \A i \in 1 .. Len(<<c>>) + Len(s) : (<<c>> \o s)[i] =
           IF i <= Len(<<c>>) THEN <<c>>[i] ELSE s[i - Len(<<c>>)]
  BY <1>1, ConcatProperties
<1>4. ASSUME NEW i \in 1 .. Len(s) PROVE (<<c>> \o s)[i + 1] = s[i]
  <2>1. i + 1 \in 1 .. Len(<<c>>) + Len(s) /\ ~(i + 1 <= Len(<<c>>))
        /\ i + 1 - Len(<<c>>) = i
    BY <1>1, <1>2
  <2> QED BY <1>3, <2>1
<1>5. 1 \in 1 .. Len(<<c>>) + Len(s) /\ 1 <= Len(<<c>>)
  BY <1>1, <1>2
<1> QED BY <1>1, <1>2, <1>3, <1>4, <1>5

LEMMA ConsAppend ==
  ASSUME NEW S, NEW c \in S, NEW s \in Seq(S), NEW e \in S
  PROVE  <<c>> \o Append(s, e) = Append(<<c>> \o s, e)
<1>1. <<c>> \in Seq(S) /\ <<e>> \in Seq(S)
  BY Singleton
<1>2. Append(s, e) = s \o <<e>>
  BY AppendIsConcat
<1>3. Append(<<c>> \o s, e) = (<<c>> \o s) \o <<e>>
  BY ConsProperties, AppendIsConcat
<1>4. (<<c>> \o s) \o <<e>> = <<c>> \o (s \o <<e>>)
  BY <1>1, ConcatAssociative
<1> QED BY <1>2, <1>3, <1>4

-----------------------------------------------------------------------------
(* Types.                                                                  *)

NoEnd(s) == \A i \in 1 .. Len(s) : s[i].tok \notin EndTokens

(* The part of the invariant that any caller preserves.                    *)
Base == /\ TypeOK
        /\ NoEnd(temp) /\ NoEnd(lex.buf)
        /\ pc # "looking" => temp = <<>>
        /\ pc = "looking" => count > 0

LEMMA NoEndAppend ==
  ASSUME NEW s \in Seq(MovableToken), NEW e \in MovableToken,
         NoEnd(s), e.tok \notin EndTokens
  PROVE  NoEnd(Append(s, e))
<1>1. Len(s) \in Nat
  BY LenProperties
<1>2. /\ Len(Append(s, e)) = Len(s) + 1
      /\ \A i \in 1 .. Len(s) : Append(s, e)[i] = s[i]
      /\ Append(s, e)[Len(s) + 1] = e
  BY AppendProperties
<1> QED BY <1>1, <1>2 DEF NoEnd

LEMMA NoEndConcat ==
  ASSUME NEW s \in Seq(MovableToken), NEW t \in Seq(MovableToken),
         NoEnd(s), NoEnd(t)
  PROVE  NoEnd(s \o t)
<1>1. Len(s) \in Nat /\ Len(t) \in Nat
  BY LenProperties
<1>2. /\ Len(s \o t) = Len(s) + Len(t)
      /\ \A i \in 1 .. Len(s) + Len(t) :
           (s \o t)[i] = IF i <= Len(s) THEN s[i] ELSE t[i - Len(s)]
  BY ConcatProperties
<1> SUFFICES ASSUME NEW i \in 1 .. Len(s \o t)
             PROVE  (s \o t)[i].tok \notin EndTokens
  BY DEF NoEnd
<1>3. CASE i <= Len(s)
  <2>1. i \in 1 .. Len(s) /\ (s \o t)[i] = s[i]
    BY <1>1, <1>2, <1>3
  <2> QED BY <2>1 DEF NoEnd
<1>4. CASE ~(i <= Len(s))
  <2>1. i - Len(s) \in 1 .. Len(t) /\ (s \o t)[i] = t[i - Len(s)]
    BY <1>1, <1>2, <1>4
  <2> QED BY <2>1 DEF NoEnd
<1> QED BY <1>3, <1>4

LEMMA NoEndTail ==
  ASSUME NEW s \in Seq(MovableToken), s # <<>>, NoEnd(s)
  PROVE  NoEnd(Tail(s)) /\ Head(s).tok \notin EndTokens
<1>1. Len(s) \in Nat \ {0}
  BY LenProperties, EmptySeq
<1>2. /\ Len(Tail(s)) = Len(s) - 1 /\ Head(s) = s[1]
      /\ \A i \in 1 .. Len(Tail(s)) : Tail(s)[i] = s[i + 1]
  BY HeadTailProperties
<1> QED BY <1>1, <1>2 DEF NoEnd

(* What a call of gettok does, whether it pops or scans.                   *)
LEMMA GettokBase ==
  ASSUME lex \in LexerState, lex.start <= Len(lex.data) + 1, NoEnd(lex.buf)
  PROVE  /\ Gettok(lex) \in LexerState
         /\ Gettok(lex).data = lex.data
         /\ Gettok(lex).start <= Len(Gettok(lex).data) + 1
         /\ Gettok(lex).start = 0 <=> lex.start = 0
         /\ NoEnd(Gettok(lex).buf)
<1>1. lex.buf \in Seq(MovableToken)
  BY DEF LexerState
<1>2. CASE lex.start # 0 /\ lex.buf # <<>>
  BY <1>1, <1>2, GettokType, GettokPops, NoEndTail
<1>3. CASE lex.start = 0 \/ lex.buf = <<>>
  BY <1>3, GettokType, GettokScans
<1> QED BY <1>2, <1>3

LEMMA NewLexerType == NewLexer \in LexerState /\ NewLexer.cur \in MovableToken
<1>1. NewLexer.cur \in MovableToken
  BY DEF NewLexer, MovableToken, Tokens, EndTokens
<1>2. <<>> \in Seq(Lexeme) /\ <<>> \in Seq(MovableToken)
  BY EmptySeq
<1> QED BY <1>1, <1>2 DEF NewLexer, LexerState

LEMMA InitBase == Init => Base
<1> SUFFICES ASSUME Init PROVE Base
  OBVIOUS
<1>1. lex \in LexerState /\ saved \in MovableToken
  BY NewLexerType DEF Init
<1>2. /\ lex.start = 0 /\ lex.data = <<>> /\ lex.buf = <<>> /\ temp = <<>>
      /\ Len(<<>>) = 0 /\ <<>> \in Seq(MovableToken)
  BY EmptySeq DEF Init, NewLexer
<1>3. count = 0 /\ pc = "idle" /\ answer = TRUE /\ 0 \in 0 .. MaxAhead
  BY MaxAheadAssumption DEF Init
<1> QED BY <1>1, <1>2, <1>3 DEF Base, TypeOK, NoEnd

LEMMA InitFromStringBase == Base /\ InitFromString => Base'
<1> SUFFICES ASSUME Base, InitFromString PROVE Base'
  OBVIOUS
<1>1. PICK d \in Inputs : lex' = initFromString(lex, d)
  BY DEF InitFromString
<1>2. d \in Seq(Lexeme) /\ Len(d) \in Nat
  BY InputsAssumption, LenProperties
<1>3. lex \in LexerState
  BY DEF Base, TypeOK
<1>4. [lex.cur EXCEPT !.after = 1] \in MovableToken
  BY <1>3 DEF LexerState, MovableToken
<1>5. <<>> \in Seq(MovableToken) /\ Len(<<>>) = 0
  BY EmptySeq
<1>6. lex' = [lex EXCEPT !.data = d, !.start = 1, !.buf = <<>>, !.line = 1,
                         !.col = 0, !.cur = [lex.cur EXCEPT !.after = 1],
                         !.thrown = FALSE]
  BY <1>1, <1>3 DEF initFromString, LexerState, MovableToken
<1>7. lex' \in LexerState /\ lex'.start = 1 /\ lex'.data = d /\ lex'.buf = <<>>
  BY <1>2, <1>3, <1>4, <1>5, <1>6 DEF LexerState
<1>8. lex'.start <= Len(lex'.data) + 1 /\ NoEnd(lex'.buf)
  BY <1>2, <1>5, <1>7 DEF NoEnd
<1>9. answer' \in BOOLEAN /\ UNCHANGED <<pc, count, temp, saved>>
  BY DEF InitFromString
<1> QED BY <1>7, <1>8, <1>9 DEF Base, TypeOK, NoEnd

LEMMA GetTokBase == Base /\ GetTok => Base'
<1> SUFFICES ASSUME Base, GetTok PROVE Base'
  OBVIOUS
<1>1. lex' = Gettok(lex)
  BY DEF GetTok
<1>2. /\ lex' \in LexerState /\ lex'.start <= Len(lex'.data) + 1
      /\ NoEnd(lex'.buf)
  BY <1>1, GettokBase DEF Base, TypeOK
<1>3. pc = "idle" /\ pc' \in {"idle", "aborted"}
      /\ UNCHANGED <<count, temp, saved, answer>>
  BY DEF GetTok
<1> QED BY <1>2, <1>3 DEF Base, TypeOK, NoEnd

LEMMA StartBase == Base /\ LookAheadStart => Base'
<1> SUFFICES ASSUME Base, LookAheadStart PROVE Base'
  OBVIOUS
<1>1. count' \in 1 .. MaxAhead /\ pc' = "looking" /\ temp' = <<>>
      /\ saved' = lex.cur /\ UNCHANGED <<lex, answer>>
  BY DEF LookAheadStart
<1>2. count' \in 0 .. MaxAhead /\ count' > 0 /\ count' \in Nat
  BY <1>1, MaxAheadAssumption
<1>3. <<>> \in Seq(MovableToken) /\ Len(<<>>) = 0
  BY EmptySeq
<1>4. saved' \in MovableToken
  BY <1>1 DEF Base, TypeOK, LexerState
<1> QED BY <1>1, <1>2, <1>3, <1>4 DEF Base, TypeOK, NoEnd

LEMMA ReadBase == Base /\ LookAheadRead => Base'
<1> SUFFICES ASSUME Base, LookAheadRead PROVE Base'
  OBVIOUS
<1>1. /\ lex' = Gettok(lex) /\ lex'.cur.tok \notin EndTokens
      /\ temp' = Append(temp, lex'.cur) /\ Len(temp) < count
      /\ pc = "looking" /\ UNCHANGED <<pc, count, saved, answer>>
  BY DEF LookAheadRead
<1>2. /\ lex' \in LexerState /\ lex'.start <= Len(lex'.data) + 1
      /\ NoEnd(lex'.buf)
  BY <1>1, GettokBase DEF Base, TypeOK
<1>3. lex'.cur \in MovableToken
  BY <1>2 DEF LexerState
<1>4. temp' \in Seq(MovableToken) /\ Len(temp') = Len(temp) + 1
      /\ Len(temp) \in Nat
  BY <1>1, <1>3, AppendProperties, LenProperties DEF Base, TypeOK
<1>5. NoEnd(temp')
  BY <1>1, <1>3, NoEndAppend DEF Base, TypeOK
<1>6. Len(temp') <= count'
  BY <1>1, <1>4, MaxAheadAssumption DEF Base, TypeOK
<1> QED BY <1>1, <1>2, <1>4, <1>5, <1>6 DEF Base, TypeOK

(* The two ways out of the loop that leave by Leave.                       *)
LEMMA LeaveBase ==
  ASSUME Base, lex' = Gettok(lex), Leave, pc' \in {"idle", "aborted"},
         answer' \in BOOLEAN
  PROVE  Base'
<1>1. /\ lex' \in LexerState /\ lex'.start <= Len(lex'.data) + 1
      /\ NoEnd(lex'.buf)
  BY GettokBase DEF Base, TypeOK
<1>2. temp' = <<>> /\ count' = 0 /\ saved' \in MovableToken
  BY NewLexerType DEF Leave
<1>3. <<>> \in Seq(MovableToken) /\ Len(<<>>) = 0 /\ 0 \in 0 .. MaxAhead
  BY EmptySeq, MaxAheadAssumption
<1> QED BY <1>1, <1>2, <1>3 DEF Base, TypeOK, NoEnd

LEMMA DoneBase == Base /\ LookAheadDone => Base'
<1> SUFFICES ASSUME Base, LookAheadDone PROVE Base'
  OBVIOUS
<1>1. /\ lex' = [lex EXCEPT !.buf = @ \o temp, !.cur = saved]
      /\ pc' = "idle" /\ answer' = TRUE /\ temp' = <<>> /\ count' = 0
      /\ saved' = NewLexer.cur
  BY DEF LookAheadDone, Leave
<1>2. /\ lex \in LexerState /\ saved \in MovableToken
      /\ temp \in Seq(MovableToken) /\ lex.buf \in Seq(MovableToken)
  BY DEF Base, TypeOK, LexerState
<1>3. lex.buf \o temp \in Seq(MovableToken) /\ NoEnd(lex.buf \o temp)
  BY <1>2, ConcatProperties, NoEndConcat DEF Base
<1>4. /\ lex' \in LexerState /\ lex'.buf = lex.buf \o temp
      /\ lex'.start = lex.start /\ lex'.data = lex.data
  BY <1>1, <1>2, <1>3 DEF LexerState
<1>5. <<>> \in Seq(MovableToken) /\ Len(<<>>) = 0 /\ 0 \in 0 .. MaxAhead
  BY EmptySeq, MaxAheadAssumption
<1> QED BY <1>1, <1>3, <1>4, <1>5, NewLexerType DEF Base, TypeOK, NoEnd

LEMMA NextBase == Base /\ [Next]_vars => Base'
<1> SUFFICES ASSUME Base, [Next]_vars PROVE Base'
  OBVIOUS
<1>1. CASE InitFromString
  BY <1>1, InitFromStringBase
<1>2. CASE GetTok
  BY <1>2, GetTokBase
<1>3. CASE LookAheadStart
  BY <1>3, StartBase
<1>4. CASE LookAheadRead
  BY <1>4, ReadBase
<1>5. CASE LookAheadFail
  BY <1>5, LeaveBase DEF LookAheadFail
<1>6. CASE LookAheadThrow
  BY <1>6, LeaveBase DEF LookAheadThrow, Base, TypeOK
<1>7. CASE LookAheadDone
  BY <1>7, DoneBase
<1>8. CASE UNCHANGED vars
  BY <1>8 DEF vars, Base, TypeOK, NoEnd
<1> QED BY <1>1, <1>2, <1>3, <1>4, <1>5, <1>6, <1>7, <1>8 DEF Next, LookAhead

THEOREM BaseInvariance == Spec => []Base
<1>1. Init => Base
  BY InitBase
<1>2. Base /\ [Next]_vars => Base'
  BY NextBase
<1> QED BY <1>1, <1>2, PTL DEF Spec

(* Every field keeps its type and the scanner stays within the text,       *)
(* whatever the callers do.                                                *)
THEOREM TypeCorrect == Spec => []TypeOK
<1>1. Base => TypeOK
  BY DEF Base
<1> QED BY <1>1, BaseInvariance, PTL

(* No end token waits in either buffer, whatever the callers do.           *)
THEOREM NoEndPending == Spec => []EndNeverPending
<1>1. Base => EndNeverPending
  BY NoEndConcat DEF Base, TypeOK, LexerState, EndNeverPending, Pending, NoEnd
<1> QED BY <1>1, BaseInvariance, PTL

(* A look-ahead that fails leaves the deque empty, whatever the callers do.*)
THEOREM FailureEmpties == Spec => FailureLeavesNothing
<1>1. Base /\ [Next]_vars
        => [pc = "looking" /\ pc' = "idle" /\ ~answer'
              => lex'.buf = <<>>]_vars
  <2> SUFFICES ASSUME Base, Next, pc = "looking", pc' = "idle", ~answer'
               PROVE  lex'.buf = <<>>
    OBVIOUS
  <2>1. LookAheadFail
    BY DEF Next, LookAhead, InitFromString, GetTok, LookAheadStart,
           LookAheadRead, LookAheadThrow, LookAheadDone
  <2>2. lex' = Gettok(lex) /\ lex'.cur.tok \in EndTokens
    BY <2>1 DEF LookAheadFail
  <2>3. lex \in LexerState /\ lex.start <= Len(lex.data) + 1
        /\ lex.buf \in Seq(MovableToken) /\ NoEnd(lex.buf)
    BY DEF Base, TypeOK, LexerState
  <2>4. CASE lex.start # 0 /\ lex.buf # <<>>
    BY <2>2, <2>3, <2>4, GettokPops, NoEndTail
  <2>5. CASE lex.buf = <<>>
    BY <2>2, <2>3, <2>5, GettokScans
  <2>6. CASE lex.start = 0
    <3>1. lex'.cur = Scan(lex.data, lex.cur, 0)
      BY <2>2, <2>3, <2>6, GettokScans
    <3>2. lex'.cur.tok = "tok_empty_lexer"
      BY <2>3, <3>1 DEF Scan, LexerState, MovableToken
    <3> QED BY <2>2, <3>2 DEF EndTokens
  <2> QED BY <2>4, <2>5, <2>6
<1> QED BY <1>1, BaseInvariance, PTL DEF Spec, FailureLeavesNothing

-----------------------------------------------------------------------------
(* Lines and columns.                                                      *)

(* line and col are those of position p of the text d.                     *)
Counted(d, p, line, col) ==
  p # 0 => /\ line = 1 + Cardinality(NewLinesIn(d, p))
           /\ col = Cardinality(ColumnsIn(d, p))

LEMMA FiniteCounts ==
  ASSUME NEW d \in Seq(Lexeme), NEW p \in Nat
  PROVE  /\ IsFiniteSet(NewLinesIn(d, p)) /\ IsFiniteSet(ColumnsIn(d, p))
         /\ Cardinality(NewLinesIn(d, p)) \in Nat
         /\ Cardinality(ColumnsIn(d, p)) \in Nat
<1>1. Len(d) \in Int /\ p - 1 \in Int
  BY LenProperties
<1>2. IsFiniteSet(1 .. Len(d)) /\ IsFiniteSet(1 .. p - 1)
  BY <1>1, FS_Interval
<1>3. NewLinesIn(d, p) \subseteq 1 .. Len(d) /\ ColumnsIn(d, p) \subseteq 1 .. p - 1
  BY DEF NewLinesIn, ColumnsIn
<1>4. IsFiniteSet(NewLinesIn(d, p)) /\ IsFiniteSet(ColumnsIn(d, p))
  BY <1>2, <1>3, FS_Subset
<1> QED BY <1>4, FS_CardinalityType

(* Skipping newlines adds those skipped to the ones counted, and consuming *)
(* a lexeme behind them adds none.                                         *)
LEMMA ScanCountsLines ==
  ASSUME NEW d \in Seq(Lexeme), NEW p \in Nat \ {0}, p <= Len(d) + 1
  PROVE  LET i == SkipNewLines(d, p)
         IN  Cardinality(NewLinesIn(d, ScanEnd(d, i)))
               = Cardinality(NewLinesIn(d, p)) + (i - p)
<1> DEFINE i == SkipNewLines(d, p)
           a == ScanEnd(d, i)
           old == NewLinesIn(d, p)
           new == p .. i - 1
<1>1. Skipped(d, p, i) /\ Len(d) \in Nat
  BY SkipNewLinesStops, LenProperties
<1>2. i \in Nat \ {0} /\ p <= i /\ i <= Len(d) + 1
  BY <1>1 DEF Skipped
<1>3. a \in {i, i + 1} /\ (a = i + 1 => d[i].class # "newline")
  <2>1. CASE Consumed(d, i)
    <3>1. d[i].class # "newline"
      BY <2>1 DEF Consumed, ClassAt
    <3> QED BY <2>1, <3>1 DEF ScanEnd
  <2>2. CASE ~Consumed(d, i)
    BY <1>2, <2>2 DEF ScanEnd
  <2> QED BY <2>1, <2>2
<1> HIDE DEF i, a
<1>4. NewLinesIn(d, a) = old \cup new
  <2>1. ASSUME NEW j \in 1 .. Len(d)
        PROVE  (j < a /\ d[j].class = "newline")
                 <=> (j < p /\ d[j].class = "newline") \/ j \in new
    <3>1. CASE j < p
      BY <1>2, <1>3, <2>1, <3>1
    <3>2. CASE p <= j /\ j < i
      <4>1. j \in p .. Len(d) /\ j \in new /\ j < a
        BY <1>1, <1>2, <1>3, <2>1, <3>2
      <4> QED BY <1>1, <3>2, <4>1 DEF Skipped
    <3>3. CASE j = i
      BY <1>2, <1>3, <3>3
    <3>4. CASE i < j
      BY <1>2, <1>3, <3>4
    <3> QED BY <1>2, <3>1, <3>2, <3>3, <3>4
  <2>2. new \subseteq 1 .. Len(d)
    BY <1>1, <1>2
  <2> QED BY <2>1, <2>2 DEF NewLinesIn
<1>5. old \cap new = {}
  BY DEF NewLinesIn
<1>6. IsFiniteSet(old) /\ Cardinality(old) \in Nat
  BY FiniteCounts
<1>7. IsFiniteSet(new) /\ Cardinality(new) = i - p
  <2>1. p \in Int /\ i - 1 \in Int
    BY <1>2
  <2>2. IsFiniteSet(new)
        /\ Cardinality(new) = IF p > i - 1 THEN 0 ELSE i - 1 - p + 1
    BY <2>1, FS_Interval
  <2> QED BY <1>2, <2>2
<1>8. Cardinality(old \cup new)
        = Cardinality(old) + Cardinality(new) - Cardinality(old \cap new)
  BY <1>6, <1>7, FS_Union
<1>9. Cardinality(old \cap new) = 0
  BY <1>5, FS_EmptySet
<1>10. Cardinality(old \cup new) = Cardinality(old) + (i - p)
  BY <1>2, <1>6, <1>7, <1>8, <1>9
<1> QED BY <1>4, <1>10 DEF i, a

(* The column starts again behind a newline and grows by the lexeme that   *)
(* is consumed.                                                            *)
LEMMA ScanCountsColumns ==
  ASSUME NEW d \in Seq(Lexeme), NEW p \in Nat \ {0}, p <= Len(d) + 1
  PROVE  LET i == SkipNewLines(d, p)
         IN  Cardinality(ColumnsIn(d, ScanEnd(d, i)))
               = (IF Consumed(d, i) THEN 1 ELSE 0)
                   + (IF i = p THEN Cardinality(ColumnsIn(d, p)) ELSE 0)
<1> DEFINE i == SkipNewLines(d, p)
           a == ScanEnd(d, i)
           kept == IF i = p THEN ColumnsIn(d, p) ELSE {}
<1>1. Skipped(d, p, i) /\ Len(d) \in Nat
  BY SkipNewLinesStops, LenProperties
<1>2. i \in Nat \ {0} /\ p <= i /\ i <= Len(d) + 1
  BY <1>1 DEF Skipped
<1>3. /\ Consumed(d, i) => a = i + 1 /\ i \in 1 .. Len(d)
      /\ ~Consumed(d, i) => a = i
  BY DEF ScanEnd, Consumed, ClassAt
<1>4. Consumed(d, i) => d[i].class # "newline"
  BY DEF Consumed, ClassAt
<1> HIDE DEF i, a
<1>5. \A j \in NewLinesIn(d, a) : j \in 1 .. Len(d) /\ j < i
  BY <1>1, <1>2, <1>3, <1>4 DEF NewLinesIn
<1>6. ColumnsIn(d, i) = kept
  <2>1. CASE i = p
    BY <2>1
  <2>2. CASE i # p
    <3>1. i - 1 \in p .. Len(d) /\ i - 1 < i /\ i - 1 \in 1 .. Len(d)
      BY <1>1, <1>2, <2>2
    <3>2. d[i - 1].class = "newline"
      BY <1>1, <3>1 DEF Skipped
    <3>3. i - 1 \in NewLinesIn(d, i)
      BY <3>1, <3>2 DEF NewLinesIn
    <3>4. \A k \in 1 .. i - 1 : ~(i - 1 < k)
      BY <1>2
    <3> QED BY <2>2, <3>3, <3>4 DEF ColumnsIn
  <2> QED BY <2>1, <2>2
<1>7. IsFiniteSet(kept) /\ Cardinality(kept) \in Nat
      /\ Cardinality(kept) = IF i = p THEN Cardinality(ColumnsIn(d, p)) ELSE 0
  <2>1. CASE i = p
    BY <2>1, FiniteCounts
  <2>2. CASE i # p
    BY <2>2, FS_EmptySet
  <2> QED BY <2>1, <2>2
<1>8. ASSUME Consumed(d, i)
      PROVE  Cardinality(ColumnsIn(d, a)) = 1 + Cardinality(kept)
  <2>1. NewLinesIn(d, a) = NewLinesIn(d, i)
    BY <1>2, <1>3, <1>4, <1>8 DEF NewLinesIn
  <2>2. ColumnsIn(d, a) = ColumnsIn(d, i) \cup {i}
    <3>1. 1 .. a - 1 = (1 .. i - 1) \cup {i}
      BY <1>2, <1>3, <1>8
    <3> QED BY <1>5, <2>1, <3>1 DEF ColumnsIn
  <2>3. i \notin ColumnsIn(d, i)
    BY <1>2 DEF ColumnsIn
  <2>4. Cardinality(kept \cup {i}) = Cardinality(kept) + 1
    BY <1>6, <1>7, <2>3, FS_AddElement
  <2> HIDE DEF kept
  <2> QED BY <1>6, <1>7, <2>2, <2>4
<1>9. ~Consumed(d, i) => ColumnsIn(d, a) = kept
  BY <1>3, <1>6
<1>10. Cardinality(ColumnsIn(d, a))
        = (IF Consumed(d, i) THEN 1 ELSE 0)
            + (IF i = p THEN Cardinality(ColumnsIn(d, p)) ELSE 0)
  <2> HIDE DEF kept
  <2> QED BY <1>7, <1>8, <1>9
<1> QED BY <1>10 DEF i, a

(* A call of gettok keeps the count, whether it pops or scans.             *)
LEMMA GettokCounts ==
  ASSUME NEW lx \in LexerState, lx.start <= Len(lx.data) + 1,
         Counted(lx.data, lx.start, lx.line, lx.col)
  PROVE  Counted(Gettok(lx).data, Gettok(lx).start,
                 Gettok(lx).line, Gettok(lx).col)
<1> DEFINE g == Gettok(lx)
           i == SkipNewLines(lx.data, lx.start)
           width == IF Consumed(lx.data, i) THEN 1 ELSE 0
<1>1. lx.data \in Seq(Lexeme) /\ lx.start \in Nat
  BY DEF LexerState
<1>2. CASE lx.start # 0 /\ lx.buf # <<>>
  <2>1. g = Pop(lx)
    BY <1>2 DEF Gettok
  <2>2. /\ g.data = lx.data /\ g.start = lx.start
        /\ g.line = lx.line /\ g.col = lx.col
    BY <2>1 DEF Pop, LexerState
  <2> QED BY <2>2
<1>3. CASE lx.start = 0
  <2>1. g.start = 0
    BY <1>1, <1>3, GettokType
  <2> QED BY <2>1 DEF Counted
<1>4. CASE lx.start # 0 /\ lx.buf = <<>>
  <2>1. g = ScanText(lx)
    BY <1>4 DEF Gettok
  <2>2. /\ g.data = lx.data /\ g.start = ScanEnd(lx.data, i)
        /\ g.line = lx.line + (i - lx.start)
        /\ g.col = width + (IF i = lx.start THEN lx.col ELSE 0)
    <3> HIDE DEF i
    <3> QED BY <1>4, <2>1 DEF ScanText, LexerState, i
  <2>3. i \in Nat /\ lx.start <= i
    BY <1>1, ScanEndInText
  <2>4. /\ lx.line = 1 + Cardinality(NewLinesIn(lx.data, lx.start))
        /\ lx.col = Cardinality(ColumnsIn(lx.data, lx.start))
    BY <1>4 DEF Counted
  <2>5. Cardinality(NewLinesIn(lx.data, g.start))
          = Cardinality(NewLinesIn(lx.data, lx.start)) + (i - lx.start)
    BY <1>1, <1>4, <2>2, ScanCountsLines
  <2>6. Cardinality(ColumnsIn(lx.data, g.start))
          = width + (IF i = lx.start
                     THEN Cardinality(ColumnsIn(lx.data, lx.start)) ELSE 0)
    BY <1>1, <1>4, <2>2, ScanCountsColumns
  <2>7. Cardinality(NewLinesIn(lx.data, lx.start)) \in Nat
    BY <1>1, FiniteCounts
  <2> HIDE DEF g, i, width
  <2>8. g.line = 1 + Cardinality(NewLinesIn(lx.data, g.start))
    BY <1>1, <2>2, <2>3, <2>4, <2>5, <2>7
  <2>9. g.col = Cardinality(ColumnsIn(lx.data, g.start))
    BY <2>2, <2>4, <2>6
  <2> QED BY <2>2, <2>8, <2>9 DEF Counted, g
<1> QED BY <1>2, <1>3, <1>4

(* However the callers mix reads and look-aheads, failed ones included,    *)
(* the line and the column are those of the scanner's place in the text,   *)
(* which is ahead of the current token while others wait.                  *)
Positions == Counted(lex.data, lex.start, lex.line, lex.col)

LEMMA ScannerCounts == Spec => [](Base /\ Positions)
<1>1. Init => Positions
  BY DEF Init, NewLexer, Counted, Positions
<1>2. Base /\ Positions /\ [Next]_vars => Positions'
  <2> SUFFICES ASSUME Base, Positions, [Next]_vars PROVE Positions'
    OBVIOUS
  <2>1. lex \in LexerState /\ lex.start <= Len(lex.data) + 1
    BY DEF Base, TypeOK
  <2>2. CASE InitFromString
    <3>1. PICK d \in Inputs : lex' = initFromString(lex, d)
      BY <2>2 DEF InitFromString
    <3>2. lex'.data = d /\ lex'.start = 1 /\ lex'.line = 1 /\ lex'.col = 0
      BY <2>1, <3>1 DEF initFromString, LexerState
    <3>3. NewLinesIn(d, 1) = {} /\ ColumnsIn(d, 1) = {}
      BY DEF NewLinesIn, ColumnsIn
    <3>4. Counted(d, 1, 1, 0)
      BY <3>3, FS_EmptySet DEF Counted
    <3> QED BY <3>2, <3>4 DEF Positions
  <2>3. CASE lex' = Gettok(lex)
    BY <2>1, <2>3, GettokCounts DEF Positions
  <2>4. CASE LookAheadDone
    <3>1. /\ lex'.data = lex.data /\ lex'.start = lex.start
          /\ lex'.line = lex.line /\ lex'.col = lex.col
      BY <2>1, <2>4 DEF LookAheadDone, LexerState
    <3> QED BY <3>1 DEF Positions
  <2>5. CASE lex' = lex
    BY <2>5 DEF Positions
  <2> QED
    BY <2>2, <2>3, <2>4, <2>5
       DEF Next, LookAhead, GetTok, LookAheadStart, LookAheadRead,
           LookAheadFail, LookAheadThrow, vars
<1> QED BY <1>1, <1>2, BaseInvariance, PTL DEF Spec

-----------------------------------------------------------------------------
(* The order of the tokens.                                                *)

FollowsIn(d, c, e) == e = Scan(d, c, c.after) /\ ~Throws(d, c.after)

(* ch is a run of successive tokens of d, and scanning goes on at p.       *)
Ordered(d, ch, p) ==
  /\ \A i \in 1 .. Len(ch) - 1 : FollowsIn(d, ch[i], ch[i + 1])
  /\ ch[Len(ch)].after = p

(* The tokens look-ahead has gone through; its last is the lexer's own.    *)
Seen == <<saved>> \o temp

(* While lookAhead runs, the lexer's own token is the last one it read.    *)
LookingAtLast == pc = "looking" => lex.cur = Seen[Len(temp) + 1]

(* PendingInOrder is preserved by a read only if the scanner's own token   *)
(* is the last of the chain (LookingAtLast), and by the return of          *)
(* lookAhead only if the old deque has drained (BufferDrains).             *)
Order == /\ pc # "aborted" => Ordered(lex.data, Chain, lex.start)
         /\ LookingAtLast
         /\ BufferDrains
         /\ lex.start = 0 => lex.buf = <<>> /\ pc # "looking"

LEMMA OrderedSingle ==
  ASSUME NEW d, NEW c \in MovableToken
  PROVE  Ordered(d, <<c>>, c.after)
<1>1. Len(<<c>>) = 1 /\ <<c>>[1] = c
  OBVIOUS
<1> QED BY <1>1 DEF Ordered

LEMMA OrderedTail ==
  ASSUME NEW d, NEW c \in MovableToken, NEW s \in Seq(MovableToken),
         NEW p, s # <<>>, Ordered(d, <<c>> \o s, p)
  PROVE  Ordered(d, s, p) /\ FollowsIn(d, c, s[1])
<1> DEFINE ch == <<c>> \o s
<1>1. Len(s) \in Nat \ {0}
  BY LenProperties, EmptySeq
<1>2. /\ Len(ch) = Len(s) + 1 /\ ch[1] = c
      /\ \A i \in 1 .. Len(s) : ch[i + 1] = s[i]
  BY ConsProperties
<1>3. /\ \A i \in 1 .. Len(ch) - 1 : FollowsIn(d, ch[i], ch[i + 1])
      /\ ch[Len(ch)].after = p
  BY DEF Ordered
<1> HIDE DEF ch
<1>4. ASSUME NEW i \in 1 .. Len(s) - 1 PROVE FollowsIn(d, s[i], s[i + 1])
  <2>1. i + 1 \in 1 .. Len(ch) - 1 /\ i \in 1 .. Len(s)
        /\ i + 1 \in 1 .. Len(s)
    BY <1>1, <1>2
  <2>2. FollowsIn(d, ch[i + 1], ch[(i + 1) + 1])
    BY <1>3, <2>1
  <2> QED BY <1>2, <2>1, <2>2
<1>5. s[Len(s)].after = p
  <2>1. Len(s) \in 1 .. Len(s)
    BY <1>1
  <2> QED BY <1>2, <1>3, <2>1
<1>6. FollowsIn(d, c, s[1])
  <2>1. 1 \in 1 .. Len(ch) - 1 /\ 1 \in 1 .. Len(s)
    BY <1>1, <1>2
  <2>2. FollowsIn(d, ch[1], ch[1 + 1])
    BY <1>3, <2>1
  <2> QED BY <1>2, <2>1, <2>2
<1> QED BY <1>4, <1>5, <1>6 DEF Ordered

LEMMA OrderedAppend ==
  ASSUME NEW d, NEW ch \in Seq(MovableToken), ch # <<>>, NEW p,
         NEW e \in MovableToken, Ordered(d, ch, p),
         FollowsIn(d, ch[Len(ch)], e)
  PROVE  Ordered(d, Append(ch, e), e.after)
<1> DEFINE a == Append(ch, e)
<1>1. Len(ch) \in Nat \ {0}
  BY LenProperties, EmptySeq
<1>2. /\ Len(a) = Len(ch) + 1 /\ a[Len(ch) + 1] = e
      /\ \A i \in 1 .. Len(ch) : a[i] = ch[i]
  BY AppendProperties
<1>3. \A i \in 1 .. Len(ch) - 1 : FollowsIn(d, ch[i], ch[i + 1])
  BY DEF Ordered
<1> HIDE DEF a
<1>4. ASSUME NEW i \in 1 .. Len(a) - 1 PROVE FollowsIn(d, a[i], a[i + 1])
  <2>1. i \in 1 .. Len(ch)
    BY <1>1, <1>2
  <2>2. CASE i = Len(ch)
    BY <1>2, <2>1, <2>2
  <2>3. CASE i # Len(ch)
    <3>1. i \in 1 .. Len(ch) - 1 /\ i + 1 \in 1 .. Len(ch)
      BY <1>1, <2>1, <2>3
    <3> QED BY <1>2, <1>3, <2>1, <3>1
  <2> QED BY <2>2, <2>3
<1>5. a[Len(a)].after = e.after
  BY <1>2
<1>6. Ordered(d, a, e.after)
  BY <1>4, <1>5 DEF Ordered
<1> QED BY <1>6 DEF a

(* Types of the parts, for the lemmas above.                               *)
LEMMA Parts ==
  ASSUME Base
  PROVE  /\ lex \in LexerState /\ lex.cur \in MovableToken
         /\ lex.buf \in Seq(MovableToken) /\ lex.data \in Seq(Lexeme)
         /\ lex.start \in Nat /\ lex.start <= Len(lex.data) + 1
         /\ temp \in Seq(MovableToken) /\ saved \in MovableToken
         /\ Current \in MovableToken
         /\ Pending \in Seq(MovableToken)
BY ConcatProperties DEF Base, TypeOK, LexerState, Current, Pending

(* A call of gettok in a lexer whose last pending token is c.              *)
LEMMA ScanFollows ==
  ASSUME Base, NEW c \in MovableToken, c.after = lex.start, c = lex.cur,
         lex.start = 0 \/ lex.buf = <<>>
  PROVE  /\ Gettok(lex).cur = Scan(lex.data, c, c.after)
         /\ Gettok(lex).cur \in MovableToken
         /\ Gettok(lex).cur.after = Gettok(lex).start
         /\ Gettok(lex).thrown = Throws(lex.data, c.after)
<1>1. lex \in LexerState /\ lex.start <= Len(lex.data) + 1
      /\ lex.data \in Seq(Lexeme) /\ lex.start \in Nat
  BY Parts
<1>2. /\ Gettok(lex).cur = Scan(lex.data, lex.cur, lex.start)
      /\ Gettok(lex).start = IF lex.start = 0 THEN 0
            ELSE ScanEnd(lex.data, SkipNewLines(lex.data, lex.start))
      /\ Gettok(lex).thrown = Throws(lex.data, lex.start)
  BY <1>1, GettokScans
<1>3. /\ Scan(lex.data, c, lex.start) \in MovableToken
      /\ lex.start # 0 => Scan(lex.data, c, lex.start).after
                            = ScanEnd(lex.data, SkipNewLines(lex.data, lex.start))
      /\ lex.start = 0 => Scan(lex.data, c, lex.start).after = c.after
  BY <1>1, ScanType
<1> QED BY <1>2, <1>3

(* Outside lookAhead the chain is the current token and the deque.         *)
LEMMA IdleChain ==
  ASSUME Base, pc # "looking"
  PROVE  Pending = lex.buf /\ Current = lex.cur /\ Chain = <<lex.cur>> \o lex.buf
<1>1. temp = <<>> /\ lex.buf \in Seq(MovableToken)
  BY Parts DEF Base
<1>2. <<>> \o lex.buf = lex.buf
  BY <1>1, ConcatEmptySeq
<1> QED BY <1>1, <1>2 DEF Pending, Current, Chain

(* With nothing in the deque, it ends with the scanner's own token.        *)
LEMMA ScannerIsLast ==
  ASSUME Base, Order, pc # "aborted", lex.buf = <<>>
  PROVE  /\ pc = "looking" => Chain = Seen
         /\ pc # "looking" => Chain = <<lex.cur>>
         /\ Chain \in Seq(MovableToken) /\ Chain # <<>>
         /\ Chain[Len(Chain)] = lex.cur
         /\ lex.cur.after = lex.start
<1>1. /\ temp \in Seq(MovableToken) /\ saved \in MovableToken
      /\ lex.cur \in MovableToken
  BY Parts
<1>2. CASE pc = "looking"
  <2>1. temp \o <<>> = temp
    BY <1>1, ConcatEmptySeq
  <2>2. Chain = Seen
    BY <1>2, <2>1 DEF Chain, Current, Pending, Seen
  <2>3. Seen \in Seq(MovableToken) /\ Len(Seen) = Len(temp) + 1
    BY <1>1, ConsProperties DEF Seen
  <2>4. Seen # <<>>
    BY <1>1, <2>3, LenProperties, EmptySeq
  <2>5. Seen[Len(Seen)] = lex.cur
    BY <1>2, <2>3 DEF Order, LookingAtLast, Seen
  <2> QED BY <1>2, <2>2, <2>3, <2>4, <2>5 DEF Order, Ordered
<1>3. CASE pc # "looking"
  <2>1. Chain = <<lex.cur>>
    <3>1. <<lex.cur>> \o <<>> = <<lex.cur>>
      BY <1>1, Singleton, ConcatEmptySeq
    <3> QED BY <1>3, <3>1, IdleChain
  <2>2. <<lex.cur>> \in Seq(MovableToken) /\ Len(<<lex.cur>>) = 1
        /\ <<lex.cur>>[1] = lex.cur
    BY <1>1, Singleton
  <2> QED BY <1>3, <2>1, <2>2, EmptySeq DEF Order, Ordered
<1> QED BY <1>2, <1>3

LEMMA InitOrder == Init => Order
<1> SUFFICES ASSUME Init PROVE Order
  OBVIOUS
<1>1. /\ lex.cur = NewLexer.cur /\ lex.buf = <<>> /\ lex.start = 0
      /\ NewLexer.cur.after = 0 /\ pc = "idle"
  BY DEF Init, NewLexer
<1>2. Base
  BY InitBase
<1>3. <<lex.cur>> \o <<>> = <<lex.cur>>
  BY <1>2, Parts, Singleton, ConcatEmptySeq
<1>4. Chain = <<lex.cur>>
  BY <1>1, <1>2, <1>3, IdleChain
<1>5. Ordered(lex.data, Chain, lex.start)
  BY <1>1, <1>2, <1>4, Parts, OrderedSingle
<1> QED BY <1>1, <1>5 DEF Order, LookingAtLast, BufferDrains

LEMMA InitFromStringOrder == Base /\ Base' /\ Order /\ InitFromString => Order'
<1> SUFFICES ASSUME Base, Base', Order, InitFromString PROVE Order'
  OBVIOUS
<1>1. PICK d \in Inputs : lex' = initFromString(lex, d)
  BY DEF InitFromString
<1>2. lex \in LexerState /\ lex.cur \in MovableToken
  BY Parts
<1>3. /\ lex'.buf = <<>> /\ lex'.start = 1 /\ lex'.cur.after = 1
      /\ lex'.cur \in MovableToken
  BY <1>1, <1>2 DEF initFromString, LexerState, MovableToken
<1>4. pc' = "idle" /\ temp' = <<>>
  BY DEF InitFromString, Base
<1>5. Chain' = <<lex'.cur>>
  <2>1. <<>> \o <<>> = <<>> /\ <<lex'.cur>> \o <<>> = <<lex'.cur>>
    BY <1>3, Singleton, EmptySeq, ConcatEmptySeq
  <2> QED BY <1>3, <1>4, <2>1 DEF Chain, Current, Pending
<1>6. Ordered(lex'.data, Chain', lex'.start)
  BY <1>3, <1>5, OrderedSingle
<1> QED BY <1>3, <1>4, <1>6 DEF Order, LookingAtLast, BufferDrains

LEMMA GetTokOrder == Base /\ Base' /\ Order /\ GetTok => Order'
<1> SUFFICES ASSUME Base, Base', Order, GetTok PROVE Order'
  OBVIOUS
<1>1. /\ lex' = Gettok(lex) /\ pc = "idle" /\ temp' = temp
      /\ pc' = IF lex'.thrown THEN "aborted" ELSE "idle"
  BY DEF GetTok
<1>2. /\ lex \in LexerState /\ lex.cur \in MovableToken
      /\ lex.buf \in Seq(MovableToken) /\ lex.start <= Len(lex.data) + 1
  BY Parts
<1>3. temp' = <<>>
  BY <1>1 DEF Base
<1>4. pc' # "looking"
  BY <1>1
<1>5. Chain' = <<lex'.cur>> \o lex'.buf
  <2>1. <<>> \o lex'.buf = lex'.buf
    BY ConcatEmptySeq DEF Base, TypeOK, LexerState
  <2> QED BY <1>3, <1>4, <2>1 DEF Chain, Current, Pending
<1>6. CASE lex.start # 0 /\ lex.buf # <<>>
  <2>1. /\ lex'.cur = Head(lex.buf) /\ lex'.buf = Tail(lex.buf)
        /\ lex'.data = lex.data /\ lex'.start = lex.start
    BY <1>1, <1>2, <1>6, GettokPops
  <2>2. Chain' = lex.buf
    BY <1>2, <1>5, <1>6, <2>1, ConsTail
  <2>3. Ordered(lex.data, <<lex.cur>> \o lex.buf, lex.start)
    BY <1>1, IdleChain DEF Order
  <2>4. Ordered(lex'.data, Chain', lex'.start)
    BY <1>2, <1>6, <2>1, <2>2, <2>3, OrderedTail
  <2> QED BY <1>4, <1>6, <2>1, <2>4 DEF Order, LookingAtLast, BufferDrains
<1>7. CASE lex.start = 0 \/ lex.buf = <<>>
  <2>1. lex.buf = <<>>
    BY <1>7 DEF Order
  <2>2. lex.cur.after = lex.start
    BY <1>1, <2>1, ScannerIsLast
  <2>3. /\ lex'.cur \in MovableToken /\ lex'.cur.after = lex'.start
        /\ lex'.buf = <<>>
    BY <1>1, <1>2, <1>7, <2>1, <2>2, ScanFollows, GettokScans
  <2>4. Chain' = <<lex'.cur>>
    BY <1>5, <2>3, Singleton, ConcatEmptySeq
  <2>5. Ordered(lex'.data, Chain', lex'.start)
    BY <2>3, <2>4, OrderedSingle
  <2> QED BY <1>4, <2>3, <2>5 DEF Order, LookingAtLast, BufferDrains
<1> QED BY <1>6, <1>7

(* The contract of the callers is needed here and only here.               *)
LEMMA StartOrder ==
  ASSUME Base, Base', Order, LookAheadStart, Disciplined
  PROVE  Order'
<1>1. /\ pc = "idle" /\ pc' = "looking" /\ lex' = lex /\ temp' = <<>>
      /\ saved' = lex.cur /\ Contract(count')
  BY DEF LookAheadStart
<1>2. temp = <<>>
  BY <1>1 DEF Base
<1>3. Chain' = Chain
  BY <1>1, <1>2 DEF Chain, Current, Pending
<1>4. lex.start # 0 /\ count' >= Len(lex.buf)
  BY <1>1 DEF Contract
<1>5. LookingAtLast'
  <2>1. <<saved'>> \o <<>> = <<saved'>> /\ Len(<<>>) + 1 = 1
        /\ <<saved'>>[1] = saved'
    BY <1>1, Parts, Singleton, EmptySeq, ConcatEmptySeq
  <2> QED BY <1>1, <2>1 DEF LookingAtLast, Seen
<1>6. BufferDrains'
  <2>1. Len(<<>>) = 0 /\ Len(lex.buf) \in Nat /\ count' \in Nat
    BY EmptySeq, Parts, LenProperties, MaxAheadAssumption DEF LookAheadStart
  <2> QED BY <1>1, <1>4, <2>1 DEF BufferDrains
<1> QED BY <1>1, <1>3, <1>4, <1>5, <1>6 DEF Order

LEMMA ReadOrder == Base /\ Base' /\ Order /\ LookAheadRead => Order'
<1> SUFFICES ASSUME Base, Base', Order, LookAheadRead PROVE Order'
  OBVIOUS
<1>1. /\ pc = "looking" /\ pc' = "looking" /\ lex' = Gettok(lex)
      /\ ~lex'.thrown /\ temp' = Append(temp, lex'.cur)
      /\ saved' = saved /\ count' = count /\ Len(temp) < count
  BY DEF LookAheadRead
<1>2. /\ lex \in LexerState /\ lex.cur \in MovableToken
      /\ lex.buf \in Seq(MovableToken) /\ lex.start <= Len(lex.data) + 1
      /\ temp \in Seq(MovableToken) /\ saved \in MovableToken
  BY Parts
<1>3. lex'.cur \in MovableToken /\ lex.start # 0 /\ lex'.start # 0
      /\ lex'.data = lex.data
  BY <1>1, <1>2, GettokType DEF Order, LexerState
<1>4. Len(temp') = Len(temp) + 1 /\ Len(temp) \in Nat
  BY <1>1, <1>2, <1>3, AppendProperties, LenProperties
<1>5. Seen' = Append(Seen, lex'.cur) /\ Seen \in Seq(MovableToken)
      /\ Len(Seen) = Len(temp) + 1
  BY <1>1, <1>2, <1>3, ConsAppend, ConsProperties DEF Seen
<1>6. LookingAtLast'
  <2>1. Seen'[Len(Seen) + 1] = lex'.cur
    BY <1>3, <1>5, AppendProperties
  <2> QED BY <1>4, <1>5, <2>1 DEF LookingAtLast, Seen
<1>7. CASE lex.buf # <<>>
  <2>1. /\ lex'.cur = Head(lex.buf) /\ lex'.buf = Tail(lex.buf)
        /\ lex'.start = lex.start
    BY <1>1, <1>2, <1>3, <1>7, GettokPops
  <2>2. Pending' = Pending
    BY <1>1, <1>2, <1>7, <2>1, MoveHead DEF Pending
  <2>3. Chain' = Chain
    BY <1>1, <2>2 DEF Chain, Current
  <2>4. Ordered(lex'.data, Chain', lex'.start)
    BY <1>1, <1>3, <2>1, <2>3 DEF Order
  <2>5. BufferDrains'
    <3>1. Len(temp) + Len(lex.buf) <= count
      BY <1>1, <1>7 DEF Order, BufferDrains
    <3>2. Len(lex'.buf) = Len(lex.buf) - 1 /\ Len(lex.buf) \in Nat
      BY <1>2, <1>7, <2>1, HeadTailProperties, LenProperties
    <3>3. Len(temp') + Len(lex'.buf) = Len(temp) + Len(lex.buf)
      <4>1. Len(temp') + Len(lex'.buf) = (Len(temp) + 1) + (Len(lex.buf) - 1)
        BY <1>4, <3>2
      <4>2. \A a, b \in Nat : (a + 1) + (b - 1) = a + b
        OBVIOUS
      <4>3. Len(temp) \in Nat /\ Len(lex.buf) \in Nat
        BY <1>4, <3>2
      <4> QED BY <4>1, <4>2, <4>3
    <3> QED BY <1>1, <1>3, <3>1, <3>3 DEF BufferDrains
  <2> QED BY <1>3, <1>6, <2>4, <2>5 DEF Order
<1>8. CASE lex.buf = <<>>
  <2>1. /\ Chain = Seen /\ Chain # <<>>
        /\ Chain[Len(Chain)] = lex.cur /\ lex.cur.after = lex.start
    BY <1>1, <1>8, ScannerIsLast
  <2>2. /\ lex'.cur = Scan(lex.data, lex.cur, lex.cur.after)
        /\ lex'.cur.after = lex'.start /\ ~Throws(lex.data, lex.cur.after)
    BY <1>1, <1>2, <1>8, <2>1, ScanFollows
  <2>3. lex'.buf = <<>>
    BY <1>1, <1>2, <1>8, GettokScans
  <2>4. Chain' = Append(Chain, lex'.cur)
    <3>1. temp' \o <<>> = temp'
      BY ConcatEmptySeq DEF Base, TypeOK
    <3>2. Chain' = Seen'
      BY <1>1, <2>3, <3>1 DEF Chain, Current, Pending, Seen
    <3> QED BY <1>5, <2>1, <3>2
  <2>5. Ordered(lex.data, Chain, lex.start)
    BY <1>1 DEF Order
  <2>6. Ordered(lex.data, Append(Chain, lex'.cur), lex'.cur.after)
    BY <1>3, <1>5, <2>1, <2>2, <2>5, OrderedAppend DEF FollowsIn
  <2> QED BY <1>3, <1>6, <2>2, <2>3, <2>4, <2>6 DEF Order, BufferDrains
<1> QED BY <1>7, <1>8

LEMMA FailOrder == Base /\ Base' /\ Order /\ LookAheadFail => Order'
<1> SUFFICES ASSUME Base, Base', Order, LookAheadFail PROVE Order'
  OBVIOUS
<1>1. /\ pc = "looking" /\ pc' = "idle" /\ lex' = Gettok(lex)
      /\ lex'.cur.tok \in EndTokens /\ temp' = <<>>
  BY DEF LookAheadFail, Leave
<1>2. /\ lex \in LexerState /\ lex.cur \in MovableToken
      /\ lex.buf \in Seq(MovableToken) /\ lex.start <= Len(lex.data) + 1
  BY Parts
<1>3. lex.start # 0 /\ NoEnd(lex.buf)
  BY <1>1 DEF Order, Base
<1>4. lex.buf = <<>>
  BY <1>1, <1>2, <1>3, GettokPops, NoEndTail
<1>5. lex.cur.after = lex.start
  BY <1>1, <1>4, ScannerIsLast
<1>6. /\ lex'.cur \in MovableToken /\ lex'.cur.after = lex'.start
      /\ lex'.buf = <<>>
  BY <1>1, <1>2, <1>4, <1>5, ScanFollows, GettokScans
<1>7. Chain' = <<lex'.cur>>
  <2>1. <<>> \o <<>> = <<>> /\ <<lex'.cur>> \o <<>> = <<lex'.cur>>
    BY <1>6, Singleton, EmptySeq, ConcatEmptySeq
  <2> QED BY <1>1, <1>6, <2>1 DEF Chain, Current, Pending
<1>8. Ordered(lex'.data, Chain', lex'.start)
  BY <1>6, <1>7, OrderedSingle
<1> QED BY <1>1, <1>6, <1>8 DEF Order, LookingAtLast, BufferDrains

LEMMA ThrowOrder == Base /\ Base' /\ Order /\ LookAheadThrow => Order'
<1> SUFFICES ASSUME Base, Base', Order, LookAheadThrow PROVE Order'
  OBVIOUS
<1>1. pc = "looking" /\ pc' = "aborted" /\ lex' = Gettok(lex)
  BY DEF LookAheadThrow
<1>2. lex.start # 0
  BY <1>1 DEF Order
<1>3. lex'.start # 0
  BY <1>1, <1>2, Parts, GettokType
<1> QED BY <1>1, <1>3 DEF Order, LookingAtLast, BufferDrains

(* At the return of lookAhead the deque it began with is empty, and what   *)
(* it read becomes the deque.                                              *)
LEMMA DoneDrained ==
  ASSUME Base, Order, LookAheadDone
  PROVE  /\ lex.start # 0 /\ lex.buf = <<>> /\ lex' \in LexerState
         /\ lex'.buf = temp /\ lex'.cur = saved /\ lex'.data = lex.data
         /\ lex'.start = lex.start
         /\ Len(temp) = count /\ count > 0
<1>1. /\ pc = "looking" /\ Len(temp) = count
      /\ lex' = [lex EXCEPT !.buf = @ \o temp, !.cur = saved]
  BY DEF LookAheadDone
<1>2. /\ lex \in LexerState /\ lex.buf \in Seq(MovableToken)
      /\ temp \in Seq(MovableToken) /\ saved \in MovableToken
  BY Parts
<1>3. lex.buf = <<>>
  <2>1. Len(temp) + Len(lex.buf) <= count => Len(lex.buf) = 0
    BY <1>1, <1>2, LenProperties
  <2> QED BY <1>1, <1>2, <2>1, EmptySeq DEF Order, BufferDrains
<1>4. lex.buf \o temp = temp
  BY <1>2, <1>3, ConcatEmptySeq
<1> QED BY <1>1, <1>2, <1>3, <1>4 DEF Order, Base, LexerState

LEMMA DoneOrder == Base /\ Base' /\ Order /\ LookAheadDone => Order'
<1> SUFFICES ASSUME Base, Base', Order, LookAheadDone PROVE Order'
  OBVIOUS
<1>1. pc = "looking" /\ pc' = "idle" /\ temp' = <<>>
  BY DEF LookAheadDone, Leave
<1>2. /\ lex.start # 0 /\ lex.buf = <<>> /\ lex'.buf = temp
      /\ lex'.cur = saved /\ lex'.data = lex.data /\ lex'.start = lex.start
  BY DoneDrained
<1>3. temp \o <<>> = temp /\ <<>> \o temp = temp
  BY Parts, ConcatEmptySeq
<1>4. Chain' = Chain
  BY <1>1, <1>2, <1>3 DEF Chain, Current, Pending
<1>5. Ordered(lex'.data, Chain', lex'.start)
  BY <1>1, <1>2, <1>4 DEF Order
<1> QED BY <1>1, <1>2, <1>5 DEF Order, LookingAtLast, BufferDrains

LEMMA NextOrder ==
  ASSUME Base, Base', Order, [Next]_vars, Disciplined
  PROVE  Order'
<1>1. CASE InitFromString
  BY <1>1, InitFromStringOrder
<1>2. CASE GetTok
  BY <1>2, GetTokOrder
<1>3. CASE LookAheadStart
  BY <1>3, StartOrder
<1>4. CASE LookAheadRead
  BY <1>4, ReadOrder
<1>5. CASE LookAheadFail
  BY <1>5, FailOrder
<1>6. CASE LookAheadThrow
  BY <1>6, ThrowOrder
<1>7. CASE LookAheadDone
  BY <1>7, DoneOrder
<1>8. CASE UNCHANGED vars
  BY <1>8 DEF vars, Order, LookingAtLast, Seen, BufferDrains, Chain, Current, Pending
<1> QED BY <1>1, <1>2, <1>3, <1>4, <1>5, <1>6, <1>7, <1>8 DEF Next, LookAhead

(* The inductive invariant of the disciplined lexer.                       *)
THEOREM OrderInvariance ==
  ASSUME Disciplined
  PROVE  Spec => [](Base /\ Order)
<1>1. Init => Base /\ Order
  BY InitBase, InitOrder
<1>2. Base /\ Order /\ [Next]_vars => (Base /\ Order)'
  BY NextBase, NextOrder
<1> QED BY <1>1, <1>2, PTL DEF Spec

LEMMA OrderImpliesPending ==
  ASSUME Base, Order
  PROVE  PendingInOrder
<1> SUFFICES ASSUME pc # "aborted" PROVE PendingInOrder
  BY DEF PendingInOrder
<1>1. Pending \in Seq(MovableToken) /\ Current \in MovableToken
  BY Parts
<1>2. Len(Chain) = Len(Pending) + 1 /\ Len(Pending) \in Nat
  BY <1>1, ConsProperties, LenProperties DEF Chain
<1>3. Ordered(lex.data, Chain, lex.start)
  BY DEF Order
<1>4. \A i \in 1 .. Len(Pending) : FollowsIn(lex.data, Chain[i], Chain[i + 1])
  BY <1>2, <1>3 DEF Ordered
<1> QED BY <1>3, <1>4 DEF PendingInOrder, Follows, FollowsIn, Ordered

(* However reads and look-aheads are mixed, the tokens waiting are the     *)
(* successors of the current token in the text, in order: none is lost,    *)
(* repeated or reordered by the two buffers; and a look-ahead has emptied  *)
(* the deque it began with before it pushes what it read.                  *)
THEOREM TokensInOrder ==
  ASSUME Disciplined
  PROVE  Spec => [](PendingInOrder /\ BufferDrains)
<1>1. Base /\ Order => PendingInOrder /\ BufferDrains
  BY OrderImpliesPending DEF Order
<1> QED BY <1>1, OrderInvariance, PTL

(* Once no token waits, the scanner stands behind the current token, so    *)
(* that the line and the column shown are its own, whatever look-aheads    *)
(* came before, failed ones included.                                      *)
THEOREM PositionsSettle ==
  ASSUME Disciplined
  PROVE  Spec => []PositionSettles
<1>1. Base /\ Order /\ Positions => PositionSettles
  <2> SUFFICES ASSUME Base, Order, Positions,
                      pc = "idle", lex.start # 0, lex.buf = <<>>
               PROVE  /\ lex.line = LineAt(lex.data, lex.cur.after)
                      /\ lex.col = ColumnAt(lex.data, lex.cur.after)
    BY DEF PositionSettles
  <2>1. lex.cur.after = lex.start
    BY ScannerIsLast
  <2> QED BY <2>1 DEF Positions, Counted, LineAt, ColumnAt
<1> QED BY <1>1, OrderInvariance, ScannerCounts, PTL

-----------------------------------------------------------------------------
(* Transparency of a look-ahead that returns true.                         *)

(* A token that waits at the head of the deque is the next of the text.    *)
LEMMA HeadFollows ==
  ASSUME Base, NEW c \in MovableToken, NEW s \in Seq(MovableToken), NEW p,
         s # <<>>, Ordered(lex.data, <<c>> \o s, p)
  PROVE  Head(s) = Scan(lex.data, c, c.after) /\ ~Throws(lex.data, c.after)
<1>1. FollowsIn(lex.data, c, s[1])
  BY OrderedTail
<1>2. Head(s) = s[1]
  BY HeadTailProperties
<1> QED BY <1>1, <1>2 DEF FollowsIn

(* A look-ahead that returns true leaves the current token and the next    *)
(* token to be read as they were before it.                                *)
THEOREM SuccessIsTransparent ==
  ASSUME Disciplined
  PROVE  Spec => SuccessTransparent
<1>1. Base /\ Order /\ [Next]_vars
        => [pc = "looking" /\ pc' = "idle" /\ answer'
              => lex'.cur = saved /\ Unread]_vars
  <2> SUFFICES ASSUME Base, Order, Next, pc = "looking", pc' = "idle", answer'
               PROVE  lex'.cur = saved /\ Unread
    OBVIOUS
  <2>1. LookAheadDone
    BY DEF Next, LookAhead, InitFromString, GetTok, LookAheadStart,
           LookAheadRead, LookAheadThrow, LookAheadFail
  <2>2. /\ lex.buf = <<>> /\ lex' \in LexerState /\ lex'.buf = temp
        /\ lex'.cur = saved /\ lex'.start # 0 /\ Len(temp) > 0
    BY <2>1, DoneDrained
  <2>3. temp \in Seq(MovableToken) /\ saved \in MovableToken /\ temp # <<>>
    BY <2>2, Parts, EmptySeq
  <2>4. Gettok(lex').cur = Head(temp)
    BY <2>2, <2>3, GettokPops
  <2>5. Chain = <<saved>> \o temp
    BY <2>2, ScannerIsLast DEF Order, Seen
  <2>6. Ordered(lex.data, <<saved>> \o temp, lex.start)
    BY <2>5 DEF Order
  <2>7. Head(temp) = Scan(lex.data, saved, saved.after)
    BY <2>3, <2>6, HeadFollows
  <2> QED BY <2>2, <2>4, <2>7 DEF Unread
<1> QED BY <1>1, OrderInvariance, PTL DEF Spec, SuccessTransparent

-----------------------------------------------------------------------------
(* The refinement.                                                         *)

(* TokenStream reads the text with the same operators.                     *)
LEMMA SameOperators ==
  ASSUME NEW d, NEW c, NEW p
  PROVE  /\ Abstract!Scan(d, c, p) = Scan(d, c, p)
         /\ Abstract!Throws(d, p) = Throws(d, p)
         /\ Abstract!EndTokens = EndTokens
         /\ Abstract!NewLexer = NewLexer
<1>1. \A q : Abstract!SkipNewLines(d, q) = SkipNewLines(d, q)
  BY DEF Abstract!SkipNewLines, SkipNewLines
<1>2. \A i : Abstract!ClassAt(d, i) = ClassAt(d, i)
  BY DEF Abstract!ClassAt, ClassAt
<1>3. \A i : Abstract!ScanEnd(d, i) = ScanEnd(d, i)
  BY <1>2 DEF Abstract!ScanEnd, ScanEnd, Abstract!Consumed, Consumed
<1>4. \A str : Abstract!WordToken(str) = WordToken(str)
  BY DEF Abstract!isBuiltInKeyword, isBuiltInKeyword,
         Abstract!WordToken, WordToken
<1>5. Abstract!Scan(d, c, p) = Scan(d, c, p)
  <2>1. ASSUME NEW i PROVE Abstract!ScanAt(d, c, i) = ScanAt(d, c, i)
    <3>1. /\ Abstract!ScanEnd(d, i) = ScanEnd(d, i)
          /\ Abstract!ClassAt(d, i) = ClassAt(d, i)
          /\ Abstract!WordToken(d[i].text) = WordToken(d[i].text)
      BY <1>2, <1>3, <1>4
    <3> QED BY <3>1, Zenon DEF Abstract!ScanAt, ScanAt
  <2>2. Abstract!SkipNewLines(d, p) = SkipNewLines(d, p)
    BY <1>1
  <2> QED BY <2>1, <2>2, Zenon DEF Abstract!Scan, Scan
<1>6. Abstract!Throws(d, p) = Throws(d, p)
  BY <1>1, <1>2 DEF Abstract!Throws, Throws
<1>7. Abstract!EndTokens = EndTokens /\ Abstract!NewLexer = NewLexer
  BY DEF Abstract!EndTokens, EndTokens, Abstract!NewLexer, NewLexer,
         Abstract!NoText, NoText
<1> QED BY <1>5, <1>6, <1>7

(* A call of gettok outside lookAhead reads the next token.                *)
LEMMA GetTokIsRead ==
  ASSUME Base, Order, GetTok
  PROVE  Abstract!Read
<1>1. /\ lex' = Gettok(lex) /\ pc = "idle"
      /\ pc' = IF lex'.thrown THEN "aborted" ELSE "idle"
  BY DEF GetTok
<1>2. /\ lex \in LexerState /\ lex.cur \in MovableToken
      /\ lex.buf \in Seq(MovableToken) /\ lex.start <= Len(lex.data) + 1
  BY Parts
<1>3. /\ lex'.data = lex.data /\ (lex'.start = 0 <=> lex.start = 0)
      /\ lex' \in LexerState
  BY <1>1, <1>2, GettokType
<1>4. Current = lex.cur /\ Current' = lex'.cur
  BY <1>1 DEF Current
<1>5. lex'.cur = Scan(lex.data, lex.cur, lex.cur.after)
      /\ lex'.thrown = Throws(lex.data, lex.cur.after)
  <2>1. CASE lex.start # 0 /\ lex.buf # <<>>
    <3>1. lex'.cur = Head(lex.buf) /\ lex'.thrown = FALSE
      BY <1>1, <1>2, <2>1, GettokPops
    <3>2. Ordered(lex.data, <<lex.cur>> \o lex.buf, lex.start)
      BY <1>1, IdleChain DEF Order
    <3>3. Head(lex.buf) = Scan(lex.data, lex.cur, lex.cur.after)
          /\ ~Throws(lex.data, lex.cur.after)
      BY <1>2, <2>1, <3>2, HeadFollows
    <3>4. Throws(lex.data, lex.cur.after) \in BOOLEAN
      BY DEF Throws
    <3> QED BY <3>1, <3>3, <3>4
  <2>2. CASE lex.start = 0 \/ lex.buf = <<>>
    <3>1. lex.cur.after = lex.start
      BY <1>1, <2>2, ScannerIsLast DEF Order
    <3> QED BY <1>1, <1>2, <2>2, <3>1, ScanFollows
  <2> QED BY <2>1, <2>2
<1>6. (pc' = "aborted") = Throws(lex.data, lex.cur.after)
  <2>1. Throws(lex.data, lex.cur.after) \in BOOLEAN
    BY DEF Throws
  <2> QED BY <1>1, <1>5, <2>1
<1>7. Current' = Abstract!NextToken
      /\ (pc' = "aborted") = Abstract!Throws(lex.data, Current.after)
  BY <1>4, <1>5, <1>6, SameOperators DEF Abstract!NextToken
<1>8. UNCHANGED <<lex.data, lex.start # 0>>
  <2>1. (lex'.start # 0) = (lex.start # 0)
    BY <1>3
  <2> QED BY <1>3, <2>1
<1> QED BY <1>7, <1>8 DEF Abstract!Read

(* A failed look-ahead gives up the text.                                  *)
LEMMA FailIsGiveUp ==
  ASSUME Base, Order, LookAheadFail
  PROVE  Abstract!GiveUp
<1>1. /\ pc = "looking" /\ pc' = "idle" /\ lex' = Gettok(lex)
      /\ lex'.cur.tok \in EndTokens /\ ~lex'.thrown
  BY DEF LookAheadFail
<1>2. /\ lex \in LexerState /\ lex.cur \in MovableToken
      /\ lex.buf \in Seq(MovableToken) /\ lex.data \in Seq(Lexeme)
      /\ lex.start \in Nat /\ lex.start <= Len(lex.data) + 1
  BY Parts
<1>3. lex.start # 0 /\ NoEnd(lex.buf)
  BY <1>1 DEF Order, Base
<1>4. lex.buf = <<>>
  BY <1>1, <1>2, <1>3, GettokPops, NoEndTail
<1>5. /\ lex'.cur = Scan(lex.data, lex.cur, lex.start)
      /\ ~Throws(lex.data, lex.start)
  BY <1>1, <1>2, <1>4, GettokScans
<1>6. Scan(lex.data, lex'.cur, lex'.cur.after) = lex'.cur
  BY <1>1, <1>2, <1>3, <1>5, EndTokenStays
<1>7. lex'.data = lex.data /\ lex'.start # 0
  BY <1>1, <1>2, <1>3, GettokType
<1>8. Current' = lex'.cur
  BY <1>1 DEF Current
<1>9. Abstract!Scan(lex.data, Current', Current'.after) = Current'
      /\ Current'.tok \in Abstract!EndTokens
  BY <1>1, <1>6, <1>8, SameOperators
<1>10. UNCHANGED <<lex.data, lex.start # 0, pc = "aborted">>
  BY <1>1, <1>3, <1>7
<1> QED BY <1>3, <1>9, <1>10 DEF Abstract!GiveUp

(* The lexer implements the token stream: the two buffers, the saved token *)
(* and the deque of lookAhead are invisible to a caller that keeps the     *)
(* contract, except that a look-ahead that fails moves the cursor to an    *)
(* end of the text.                                                        *)
THEOREM Refinement ==
  ASSUME Disciplined
  PROVE  Spec => ImplementsTokenStream
<1>1. Init => Abstract!Init
  <2> SUFFICES ASSUME Init PROVE Abstract!Init
    OBVIOUS
  <2>1. lex.data = NewLexer.data /\ lex.start = 0 /\ pc = "idle"
        /\ Current = NewLexer.cur
    BY DEF Init, NewLexer, Current
  <2> QED BY <2>1, SameOperators DEF Abstract!Init
<1>2. Base /\ Order /\ [Next]_vars => [Abstract!Next]_(Abstract!vars)
  <2> SUFFICES ASSUME Base, Order, [Next]_vars
               PROVE  [Abstract!Next]_(Abstract!vars)
    OBVIOUS
  <2>1. CASE InitFromString
    <3>1. PICK d \in Inputs : lex' = initFromString(lex, d)
      BY <2>1 DEF InitFromString
    <3>2. pc = "idle" /\ pc' = "idle"
      BY <2>1 DEF InitFromString
    <3>3. /\ lex'.data = d /\ lex'.start = 1
          /\ lex'.cur = [lex.cur EXCEPT !.after = 1]
      BY <3>1, Parts DEF initFromString, LexerState, MovableToken
    <3>4. Abstract!Load
      BY <3>2, <3>3 DEF Abstract!Load, Current
    <3> QED BY <3>2, <3>4 DEF Abstract!Next
  <2>2. CASE GetTok
    BY <2>2, GetTokIsRead DEF GetTok, Abstract!Next
  <2>3. CASE LookAheadStart
    BY <2>3 DEF LookAheadStart, Abstract!vars, Current
  <2>4. CASE LookAheadRead
    <3>1. /\ pc = "looking" /\ pc' = "looking" /\ saved' = saved
          /\ lex' = Gettok(lex)
      BY <2>4 DEF LookAheadRead
    <3>2. lex'.data = lex.data /\ (lex'.start = 0 <=> lex.start = 0)
      BY <3>1, Parts, GettokType
    <3> QED BY <3>1, <3>2 DEF Abstract!vars, Current
  <2>5. CASE LookAheadFail
    BY <2>5, FailIsGiveUp DEF LookAheadFail, Abstract!Next
  <2>6. CASE LookAheadThrow
    <3>1. pc = "looking" /\ pc' = "aborted" /\ lex' = Gettok(lex)
      BY <2>6 DEF LookAheadThrow
    <3>2. lex.start # 0 /\ lex'.data = lex.data /\ lex'.start # 0
      BY <3>1, Parts, GettokType DEF Order
    <3> QED BY <3>1, <3>2 DEF Abstract!Next, Abstract!Abort
  <2>7. CASE LookAheadDone
    <3>1. pc = "looking" /\ pc' = "idle"
      BY <2>7 DEF LookAheadDone
    <3>2. lex'.cur = saved /\ lex'.data = lex.data /\ lex'.start = lex.start
      BY <2>7, DoneDrained
    <3> QED BY <3>1, <3>2 DEF Abstract!vars, Current
  <2>8. CASE UNCHANGED vars
    BY <2>8 DEF vars, Abstract!vars, Current
  <2> QED BY <2>1, <2>2, <2>3, <2>4, <2>5, <2>6, <2>7, <2>8
          DEF Next, LookAhead
<1> QED
  BY <1>1, <1>2, OrderInvariance, PTL
     DEF Spec, ImplementsTokenStream, Abstract!Spec
=============================================================================
