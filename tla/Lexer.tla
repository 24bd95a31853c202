------------------------------- MODULE Lexer -------------------------------
(***************************************************************************)
(* The lexer as a state machine: initFromString, gettok and lookAhead of   *)
(* src/core/lexer.cpp.  A look-ahead is one step per turn of its loop      *)
(* (nothing else runs meanwhile): its locals are `count`, `temp`           *)
(* (tempBuffer) and `saved` (old, old_tok, oldNumb).                       *)
(***************************************************************************)
EXTENDS LexerOps, FiniteSets

CONSTANTS Inputs,        \* the texts the lexer can be given
          MaxAhead,      \* the largest count passed to lookAhead
          Disciplined    \* whether callers keep the contract below

ASSUME InputsAssumption == Inputs \subseteq Seq(Lexeme)
ASSUME MaxAheadAssumption == MaxAhead \in Nat \ {0}
ASSUME DisciplinedAssumption == Disciplined \in BOOLEAN

VARIABLES lex,           \* the struct Lexer
          pc,            \* "idle", "looking" (inside lookAhead) or "aborted"
          count, temp, saved,
          answer         \* what the last lookAhead returned

vars == <<lex, pc, count, temp, saved, answer>>

TypeOK ==
  /\ lex \in LexerState
  /\ lex.start <= Len(lex.data) + 1
  /\ pc \in {"idle", "looking", "aborted"}
  /\ count \in 0 .. MaxAhead
  /\ temp \in Seq(MovableToken)
  /\ Len(temp) <= count
  /\ saved \in MovableToken
  /\ answer \in BOOLEAN

Init ==
  /\ lex = NewLexer
  /\ pc = "idle"
  /\ count = 0
  /\ temp = <<>>
  /\ saved = NewLexer.cur
  /\ answer = TRUE

InitFromString ==
  /\ pc = "idle"
  /\ \E d \in Inputs : lex' = initFromString(lex, d)
  /\ answer' = TRUE
  /\ UNCHANGED <<pc, count, temp, saved>>

(* Nothing catches an exception: the program ends. *)
GetTok ==
  /\ pc = "idle"
  /\ lex' = Gettok(lex)
  /\ pc' = IF lex'.thrown THEN "aborted" ELSE "idle"
  /\ UNCHANGED <<count, temp, saved, answer>>

(* An assumption about the callers, which no line of the lexer states: a   *)
(* look-ahead is asked of a lexer that has a text, and never for fewer     *)
(* tokens than are buffered.  That the parser and the REPL keep it is the  *)
(* invariant LookAheadOrderly of module Parser.                            *)
Contract(n) == lex.start # 0 /\ n >= Len(lex.buf)

LookAheadStart ==
  /\ pc = "idle"
  /\ \E n \in 1 .. MaxAhead :
       /\ Disciplined => Contract(n)
       /\ count' = n
  /\ pc' = "looking"
  /\ temp' = <<>>
  /\ saved' = lex.cur
  /\ UNCHANGED <<lex, answer>>

(* A wrong turn of the loop, which stores the end of the text. *)
LookAheadReadPastEnd ==
  /\ pc = "looking"
  /\ Len(temp) < count
  /\ lex' = Gettok(lex)
  /\ ~lex'.thrown
  /\ temp' = Append(temp, lex'.cur)
  /\ UNCHANGED <<pc, count, saved, answer>>

(* One turn of the loop that reads another token. *)
LookAheadRead ==
  /\ pc = "looking"
  /\ Len(temp) < count
  /\ lex' = Gettok(lex)
  /\ ~lex'.thrown
  /\ lex'.cur.tok \notin EndTokens
  /\ temp' = Append(temp, lex'.cur)
  /\ UNCHANGED <<pc, count, saved, answer>>

(* The locals go out of scope. *)
Leave == /\ temp' = <<>>
         /\ count' = 0
         /\ saved' = NewLexer.cur

(* A wrong failure, which keeps what was read. *)
LookAheadFailKeeps ==
  /\ pc = "looking"
  /\ Len(temp) < count
  /\ lex' = [Gettok(lex) EXCEPT !.buf = temp]
  /\ ~lex'.thrown
  /\ lex'.cur.tok \in EndTokens
  /\ pc' = "idle"
  /\ answer' = FALSE
  /\ Leave

(* The early `return false`: nothing is restored, tempBuffer is dropped. *)
LookAheadFail ==
  /\ pc = "looking"
  /\ Len(temp) < count
  /\ lex' = Gettok(lex)
  /\ ~lex'.thrown
  /\ lex'.cur.tok \in EndTokens
  /\ pc' = "idle"
  /\ answer' = FALSE
  /\ Leave

LookAheadThrow ==
  /\ pc = "looking"
  /\ Len(temp) < count
  /\ lex' = Gettok(lex)
  /\ lex'.thrown
  /\ pc' = "aborted"
  /\ Leave
  /\ UNCHANGED answer

(* Lines and columns up to the position p of the text d.  A line begins    *)
(* behind a newline, which is itself in no column.                         *)
NewLinesIn(d, p) == {j \in 1 .. Len(d) : j < p /\ d[j].class = "newline"}
ColumnsIn(d, p) == {j \in 1 .. p - 1 : \A n \in NewLinesIn(d, p) : n < j}
LineAt(d, p) == 1 + Cardinality(NewLinesIn(d, p))
ColumnAt(d, p) == Cardinality(ColumnsIn(d, p))

(* Wrong returns: one that does not restore the current token, and one     *)
(* that takes the column back with it, while a token taken from the deque  *)
(* still adds nothing.                                                     *)
LookAheadDoneMoved ==
  /\ pc = "looking"
  /\ Len(temp) = count
  /\ lex' = [lex EXCEPT !.buf = @ \o temp]
  /\ pc' = "idle"
  /\ answer' = TRUE
  /\ Leave

LookAheadDoneUncounted ==
  /\ pc = "looking"
  /\ Len(temp) = count
  /\ lex' = [lex EXCEPT !.buf = @ \o temp, !.cur = saved,
                        !.col = ColumnAt(lex.data, saved.after)]
  /\ pc' = "idle"
  /\ answer' = TRUE
  /\ Leave

LookAheadDone ==
  /\ pc = "looking"
  /\ Len(temp) = count
  /\ lex' = [lex EXCEPT !.buf = @ \o temp, !.cur = saved]
  /\ pc' = "idle"
  /\ answer' = TRUE
  /\ Leave

LookAhead == LookAheadStart \/ LookAheadRead \/ LookAheadFail
             \/ LookAheadThrow \/ LookAheadDone

Next == InitFromString \/ GetTok \/ LookAhead

Spec == Init /\ [][Next]_vars
-----------------------------------------------------------------------------
(***************************************************************************)
(* Properties.                                                             *)
(***************************************************************************)
Follows(c, d) ==
  d = Scan(lex.data, c, c.after) /\ ~Throws(lex.data, c.after)

(* The tokens read but not yet handed out, in the order gettok will give   *)
(* them to the caller: those of a look-ahead in progress, then the buffer. *)
Pending == temp \o lex.buf
Current == IF pc = "looking" THEN saved ELSE lex.cur
Chain == <<Current>> \o Pending

(* Whatever mix of reads and look-aheads came before, the tokens waiting   *)
(* are exactly the successors of the current token in the text, in order,  *)
(* and scanning goes on right after the last of them: no token is lost,    *)
(* repeated or reordered by the two buffers of lookAhead.                  *)
PendingInOrder ==
  pc # "aborted" =>
    /\ \A i \in 1 .. Len(Pending) : Follows(Chain[i], Chain[i + 1])
    /\ Chain[Len(Chain)].after = lex.start

(* A look-ahead that comes to its end has emptied the buffer it began      *)
(* with, so that pushing tempBuffer at the back keeps the order.           *)
BufferDrains ==
  pc = "looking" => \/ lex.buf = <<>>
                    \/ lex.start # 0 /\ Len(temp) + Len(lex.buf) <= count

(* No end token ever waits in a buffer: lookAhead returns false before it  *)
(* stores one, so a token taken from the deque never ends the text.        *)
EndNeverPending ==
  \A i \in 1 .. Len(Pending) : Pending[i].tok \notin EndTokens

(* Whenever no token waits, the line and the column are those of the       *)
(* current token: whatever was looked ahead on the way, each lexeme has    *)
(* been counted once.  While tokens wait they are not, as the TODO of      *)
(* lookAhead says: a token is counted when it is looked ahead, and adds a  *)
(* columnOffset of 0 when it is taken from the deque.                      *)
PositionSettles ==
  pc = "idle" /\ lex.start # 0 /\ lex.buf = <<>> =>
    /\ lex.line = LineAt(lex.data, lex.cur.after)
    /\ lex.col = ColumnAt(lex.data, lex.cur.after)

(* What the program sees of a token. *)
Visible(c) == <<c.tok, c.ident, c.value>>
NextVisible(d, c) == Visible(Scan(d, c, c.after))

(* The documentation of lookAhead in lexer.h: "looking ahead won't change  *)
(* the next token that will be read".                                      *)
LookAheadTransparent ==
  [][pc = "looking" /\ pc' = "idle"
       => Visible(Gettok(lex').cur) = NextVisible(lex.data, saved)]_vars

Unread == Gettok(lex').cur = Scan(lex.data, saved, saved.after)

(* A look-ahead that returns true changes neither the current token nor    *)
(* the next one, nor where the text goes on after them.                    *)
SuccessTransparent ==
  [][pc = "looking" /\ pc' = "idle" /\ answer'
       => lex'.cur = saved /\ Unread]_vars

(* A look-ahead that returns false leaves the deque empty: the callers     *)
(* that index lookAheadToken without testing the answer read out of bounds *)
(* at the very first element, never a token of an earlier look-ahead.      *)
FailureLeavesNothing ==
  [][pc = "looking" /\ pc' = "idle" /\ ~answer' => lex'.buf = <<>>]_vars

Abstract == INSTANCE TokenStream WITH
              text <- lex.data, loaded <- (lex.start # 0), token <- Current,
              aborted <- (pc = "aborted")

(* The lexer implements the token stream. *)
ImplementsTokenStream == Abstract!Spec
=============================================================================
