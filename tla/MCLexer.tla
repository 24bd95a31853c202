------------------------------ MODULE MCLexer ------------------------------
(***************************************************************************)
(* Small instances of Lexer: every text of up to two lexemes drawn from    *)
(* one lexeme of each class, texts of three, and a few longer ones in      *)
(* which a look-ahead of three tokens leaves something to read.            *)
(***************************************************************************)
EXTENDS Lexer

W(s) == [class |-> "word", text |-> s]
N(s) == [class |-> "number", text |-> s]
NL   == [class |-> "newline", text |-> "nl"]

MCText == {"int", "x", "*", "(", ")", "=", "1", "nl", "1.2.3", "9e99", "|", "@"}

Alphabet == {W("int"), W("x"), N("1"), NL,
             [class |-> "malformed", text |-> "1.2.3"],
             [class |-> "overflow", text |-> "9e99"],
             [class |-> "stray", text |-> "|"],
             [class |-> "unmatched", text |-> "@"]}

Longer == { <<W("int"), W("*"), W("x"), W("="), N("1")>>,
            <<W("("), NL, W("int"), NL, W("*"), W(")"), W("x")>>,
            <<NL, NL, W("int"), W("x"), W("("), W(")"), NL>> }

Triples == [1 .. 3 -> {W("int"), N("1"), NL}]

MCInputs == UNION {[1 .. n -> Alphabet] : n \in 0 .. 2} \cup Triples \cup Longer

MCInputsSmall == UNION {[1 .. n -> {W("int"), N("1"), NL}] : n \in 0 .. 3}
=============================================================================
