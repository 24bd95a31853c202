---------------------------- MODULE ParserTrees ----------------------------
(***************************************************************************)
(* What the trees that module Parser makes say of the texts they were made *)
(* from.  These properties are about trees of any depth, so that their     *)
(* definitions are recursive.                                              *)
(***************************************************************************)
EXTENDS Parser

(* The lexemes a parse consumed. *)
Eaten == SelectSeq(SubSeq(lex.data, outcome.from, outcome.upto - 1),
                   LAMBDA l : l.class # "newline")
EatenTexts == [i \in 1 .. Len(Eaten) |-> Eaten[i].text]

Match == [x \in {")", "}"} |-> IF x = ")" THEN "(" ELSE "{"]

(* The stack of open brackets after one more text; <<"?">> once they fail  *)
(* to match.                                                               *)
Bracket(open, x) ==
  CASE x \in {"(", "{"} -> Append(open, x)
    [] x \in {")", "}"} -> IF open # <<>> /\ Last(open) = Match[x]
                           THEN Front(open) ELSE <<"?">> \o open
    [] OTHER -> open

RECURSIVE Subtrees(_)
Subtrees(n) == {n} \cup UNION {Subtrees(n.kids[i]) : i \in 1 .. Len(n.kids)}

(* The names a tree defines were identifiers of the text, which            *)
(* parseAssigment does not make sure of, under a comment that says so.     *)
NamesAreIdentifiers ==
  \A n \in Subtrees(outcome.node) :
    "isDefinition" \in n.flags => isBuiltInKeyword(n.name) = "tok_no_match"

(* What is accepted is bracketed: every parenthesis and brace opened in it *)
(* is closed in it, properly nested.                                       *)
Bracketed ==
  Accepted /\ NamesAreIdentifiers /\ Scannable =>
    FoldLeft(Bracket, <<>>, EatenTexts) = <<>>

TypeText(tok) == CASE tok = "tok_int" -> "int" [] tok = "tok_float" -> "float"
                   [] tok = "tok_void_ptr" -> "void"

(* The words of a tree from left to right. *)
RECURSIVE Spelling(_)
Spelling(n) ==
  LET kid(i) == Spelling(n.kids[i])
      kids == FlattenSeq([i \in 1 .. Len(n.kids) |-> kid(i)])
      typed == IF n.type = NoText THEN <<>> ELSE <<TypeText(n.type)>>
      star == IF "isPointer" \in n.flags THEN <<"*">> ELSE <<>>
      words ==
        CASE n.kind = "Number" ->
               IF "isNull" \in n.flags THEN <<"nullptr">> ELSE <<n.name>>
          [] n.kind = "Variable" ->
               typed \o star \o <<n.name>>
                 \o (IF n.kids = <<>> THEN <<>> ELSE <<"=">> \o kids)
          [] n.kind = "Binary" -> kid(1) \o <<n.name>> \o kid(2)
          [] n.kind = "Call" -> <<n.name>> \o kids
          [] n.kind = "Dereference" -> <<"*", n.name>>
          [] n.kind = "ToPointer" -> <<"*", n.name, "=">> \o kids
          [] n.kind = "Cast" -> typed \o star \o kids
          [] n.kind = "If" -> <<"if">> \o kids
          [] n.kind = "For" -> <<"for">> \o kids
          [] n.kind \in {"Block", "Function"} -> kids
          [] n.kind = "Argument" -> typed \o star \o <<n.name>>
          [] n.kind = "Prototype" ->
               (IF "isExtern" \in n.flags THEN <<"extern">> ELSE <<>>)
                 \o typed \o star \o <<n.name>> \o kids
  IN  IF "isReturn" \in n.flags THEN <<"return">> \o words ELSE words

Punctuation == {"(", ")", "{", "}", ",", ";", "else"}

(* The tree is the text: the words of an accepted tree, from left to       *)
(* right, are the words consumed, none lost in a look-ahead, repeated or   *)
(* moved, whatever mix of buffered and scanned tokens the parser saw.      *)
TreeSpellsText ==
  Accepted /\ NamesAreIdentifiers /\ Scannable =>
    Spelling(outcome.node)
      = SelectSeq(EatenTexts, LAMBDA x : x \notin Punctuation)

Prec(n) == BIN_OP_PRECEDENCE(n.name)

(* Without parentheses, a binary operation binds its left operand at least *)
(* as tightly as itself and its right operand more tightly: operators      *)
(* group by BIN_OP_PRECEDENCE and to the left.                             *)
OperatorsGroup ==
  Accepted /\ "(" \notin ToSet(EatenTexts) =>
    \A n \in Subtrees(outcome.node) : n.kind = "Binary" =>
      /\ n.kids[1].kind = "Binary" => Prec(n.kids[1]) >= Prec(n)
      /\ n.kids[2].kind = "Binary" => Prec(n.kids[2]) > Prec(n)
=============================================================================
