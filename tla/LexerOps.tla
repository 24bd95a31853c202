------------------------------ MODULE LexerOps ------------------------------
(***************************************************************************)
(* The lexer of babycpp as operators on a lexer record: the struct Lexer   *)
(* of include/core/lexer.h and its method gettok (src/core/lexer.cpp).     *)
(* The text is a sequence of lexemes, one per match of MAIN_REGEX with     *)
(* `match_continuous` (leading blanks belong to the lexeme); text after    *)
(* the last lexeme is the terminating NUL.  A lexeme is                    *)
(*   "word"       a keyword, an operator, a punctuation or an identifier   *)
(*   "number"     a well formed literal that fits int or float             *)
(*   "malformed"  digits with two dots                                     *)
(*   "overflow"   a literal on which stoi / stof throws out_of_range       *)
(*   "newline"    \r or \n                                                 *)
(*   "stray"      matched by the regex and by no branch of gettok: a       *)
(*                leading dot, or the | of the newline character class     *)
(*   "unmatched"  a character the regex does not match (@, _, or blanks    *)
(*                right before the end of the text)                        *)
(* Positions are lexeme indices: `start` = 0 is the null pointer and       *)
(* Len(data) + 1 the terminating NUL.  A column counts lexemes.            *)
(***************************************************************************)
EXTENDS Naturals, Sequences

CONSTANT Text            \* the spellings a lexeme can have

NoText == ""             \* an empty identifierStr, a value never assigned

Classes == {"word", "number", "malformed", "overflow", "newline", "stray",
            "unmatched"}
Lexeme == [class: Classes, text: Text]

(* The tokens the lexer can produce (enum Token). *)
DataTypes == {"tok_int", "tok_float", "tok_void_ptr"}
EndTokens == {"tok_eof", "tok_no_match"}
Tokens == DataTypes \cup EndTokens \cup
  {"tok_extern", "tok_string", "tok_identifier", "tok_number", "tok_nullptr",
   "tok_operator", "tok_assigment_operator", "tok_open_curly",
   "tok_close_curly", "tok_open_round", "tok_close_round",
   "tok_end_statement", "tok_comma", "tok_return", "tok_if", "tok_else",
   "tok_for", "tok_empty_lexer", "tok_malformed_number"}

(* The table KEYWORDS, as isBuiltInKeyword reads it. *)
isBuiltInKeyword(str) ==
  CASE str = "int"     -> "tok_int"
    [] str = "float"   -> "tok_float"
    [] str = "string"  -> "tok_string"
    [] str = "void"    -> "tok_void_ptr"
    [] str = "extern"  -> "tok_extern"
    [] str = "return"  -> "tok_return"
    [] str = "if"      -> "tok_if"
    [] str = "else"    -> "tok_else"
    [] str = "for"     -> "tok_for"
    [] str = "nullptr" -> "tok_nullptr"
    [] str = "{"       -> "tok_open_curly"
    [] str = "}"       -> "tok_close_curly"
    [] str = "("       -> "tok_open_round"
    [] str = ")"       -> "tok_close_round"
    [] str = ";"       -> "tok_end_statement"
    [] str = ","       -> "tok_comma"
    [] str = "="       -> "tok_assigment_operator"
    [] str \in {"+", "-", "*", "<", "/"} -> "tok_operator"
    [] OTHER           -> "tok_no_match"

(***************************************************************************)
(* MovableToken, which is also the lexer's current token: `ident` is       *)
(* identifierStr and `value` is value, both as they stand when the token   *)
(* is the current one, so `ident` of a number is the text of the last word.*)
(* `after` is a history variable: the position scanning goes on from after *)
(* this token.  The field columnOffset is always 0 (a TODO of lookAhead).  *)
(***************************************************************************)
MovableToken == [tok: Tokens, ident: Text \cup {NoText},
                 value: Text \cup {NoText}, after: Nat]

LexerState == [data: Seq(Lexeme), start: Nat, cur: MovableToken,
               buf: Seq(MovableToken), line: Nat, col: Nat, thrown: BOOLEAN]

(* A lexer that was never given a text: currtok is -1, which is tok_eof. *)
NewLexer ==
  [data |-> <<>>, start |-> 0, buf |-> <<>>, line |-> 1, col |-> 1,
   cur |-> [tok |-> "tok_eof", ident |-> NoText, value |-> NoText, after |-> 0],
   thrown |-> FALSE]

(* A wrong initFromString, which does not clear lookAheadToken. *)
initFromStringKeepsBuffer(lx, d) ==
  [lx EXCEPT !.data = d, !.start = 1, !.line = 1, !.col = 0,
             !.cur.after = 1, !.thrown = FALSE]

(* Lexer::initFromString: the current token is left as it was. *)
initFromString(lx, d) ==
  [lx EXCEPT !.data = d, !.start = 1, !.buf = <<>>, !.line = 1, !.col = 0,
             !.cur.after = 1, !.thrown = FALSE]

(* Where the recursion of gettok on newlines stops. *)
SkipNewLines(d, p) ==
  CHOOSE i \in p .. Len(d) + 1 :
     /\ i = Len(d) + 1 \/ d[i].class # "newline"
     /\ \A j \in p .. Len(d) : j < i => d[j].class = "newline"

(* The class of what the scanner stands on; "end" is the terminating NUL. *)
ClassAt(d, i) == IF i \in 1 .. Len(d) THEN d[i].class ELSE "end"

(* A position is consumed when gettok moves `start` past it. *)
Consumed(d, i) ==
  ClassAt(d, i) \in {"word", "number", "malformed", "overflow"}

(* A wrong version, which also steps over what it cannot read. *)
ScanEndAlways(d, i) == i + 1

ScanEnd(d, i) == IF Consumed(d, i) THEN i + 1 ELSE i

(* The token of a lexeme that is a word. *)
WordToken(str) == IF isBuiltInKeyword(str) # "tok_no_match"
                  THEN isBuiltInKeyword(str) ELSE "tok_identifier"

(* The branches of gettok, behind the newlines: c is the current token. A  *)
(* stray lexeme falls off the end of gettok and changes nothing; an        *)
(* overflow throws before currtok is assigned.                             *)
ScanAt(d, c, i) ==
  LET a == ScanEnd(d, i)
      k == ClassAt(d, i)
  IN  CASE k = "end" -> [c EXCEPT !.tok = "tok_eof", !.after = a]
        [] k = "unmatched" -> [c EXCEPT !.tok = "tok_no_match", !.after = a]
        [] k = "word" -> [c EXCEPT !.tok = WordToken(d[i].text),
                                   !.ident = d[i].text, !.after = a]
        [] k = "number" ->
             [c EXCEPT !.tok = "tok_number", !.value = d[i].text, !.after = a]
        [] k = "malformed" ->
             [c EXCEPT !.tok = "tok_malformed_number", !.after = a]
        [] OTHER -> [c EXCEPT !.after = a]

(* gettok on an empty buffer at position p: the token it makes current. *)
Scan(d, c, p) == IF p = 0 THEN [c EXCEPT !.tok = "tok_empty_lexer"]
                 ELSE ScanAt(d, c, SkipNewLines(d, p))

(* Whether that gettok leaves by an exception. *)
Throws(d, p) == p # 0 /\ ClassAt(d, SkipNewLines(d, p)) = "overflow"

(* gettok reading the text: nothing but currtok changes without a text. *)
ScanText(lx) ==
  LET i == SkipNewLines(lx.data, lx.start)
      width == IF Consumed(lx.data, i) THEN 1 ELSE 0
  IN  IF lx.start = 0
      THEN [lx EXCEPT !.cur.tok = "tok_empty_lexer", !.thrown = FALSE]
      ELSE [lx EXCEPT !.cur = ScanAt(lx.data, lx.cur, i),
                      !.start = ScanEnd(lx.data, i),
                      !.line = @ + (i - lx.start),
                      !.col = width + (IF i = lx.start THEN @ ELSE 0),
                      !.thrown = Throws(lx.data, lx.start)]

(* A wrong version, which leaves the token at the front of the deque. *)
PopKeeps(lx) == [lx EXCEPT !.cur = Head(lx.buf), !.thrown = FALSE]

(* gettok on a buffer that holds a token. *)
Pop(lx) ==
  [lx EXCEPT !.cur = Head(lx.buf), !.buf = Tail(lx.buf), !.thrown = FALSE]

(* A wrong gettok, which reads the text whatever is buffered. *)
GettokIgnoresBuffer(lx) == ScanText(lx)

(* Lexer::gettok. *)
Gettok(lx) == IF lx.start # 0 /\ lx.buf # <<>> THEN Pop(lx) ELSE ScanText(lx)

(* The lexeme the current token was read from: Len(data) + 1 for the end. *)
CurrentIndex(lx) ==
  IF lx.cur.tok \in EndTokens THEN lx.cur.after ELSE lx.cur.after - 1
=============================================================================
