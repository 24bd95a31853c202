------------------------------ MODULE MCParser ------------------------------
(***************************************************************************)
(* Instances of Parser.  The texts are sentences of the language and what  *)
(* is one edit away from them: each sentence cut short at every place, and *)
(* with every lexeme removed or replaced by another.                       *)
(***************************************************************************)
EXTENDS ParserTrees

W(s) == [class |-> "word", text |-> s]
N(s) == [class |-> "number", text |-> s]
NL   == [class |-> "newline", text |-> "nl"]
Stray == [class |-> "stray", text |-> "|"]
Odd  == [class |-> "unmatched", text |-> "@"]
Malformed == [class |-> "malformed", text |-> "1.2.3"]
Overflow == [class |-> "overflow", text |-> "9e99"]

MCText == {"int", "float", "void", "extern", "return", "if", "else", "for",
           "nullptr", "{", "}", "(", ")", ";", ",", "=", "+", "-", "*", "<",
           "/", "a", "b", "f", "1", "2", "nl", "|", "@", "1.2.3", "9e99"}

Digit(s) == IF s \in {"1", "2"} THEN N(s)
            ELSE IF s = "nl" THEN NL ELSE W(s)
Line(words) == [i \in 1 .. Len(words) |-> Digit(words[i])]

Sentences == {Line(words) : words \in {
  <<"a", "=", "b", "+", "1", ";">>,
  <<"int", "a", "=", "(", "1", ")", ";">>,
  <<"float", "*", "a", "=", "nullptr", ";">>,
  <<"*", "a", "=", "*", "b", ";">>,
  <<"extern", "int", "f", "(", "int", "a", ",", "float", "*", "b", ")", ";">>,
  <<"f", "(", "a", ",", "(", "1", ")", ")", ";">>,
  <<"a", "=", "(", "int", "*", ")", "b", ";">>,
  <<"a", "=", "(", "float", ")", "(", "1", "+", "2", ")", ";">>,
  <<"int", "f", "(", "int", "a", ")", "{", "return", "a", ";", "}">>,
  <<"void", "*", "f", "(", ")", "{", "}">>,
  <<"if", "(", "a", "<", "1", ")", "{", "b", "=", "1", ";", "}",
    "else", "{", "f", "(", ")", ";", "}">>,
  <<"for", "(", "int", "a", "=", "1", ";", "a", "<", "2", ";",
    "a", "=", "a", "+", "1", ")", "{", "f", "(", "a", ")", ";", "}">>,
  <<"for", "(", "a", "=", "1", ";", "a", ";", "a", ")", "{", "nl", "}">>,
  <<"a", "=", "(", "(", "b", ")", "+", "f", "(", "(", "1", ")", ",", "2",
    ")", ")", "*", "2", ";">>,
  <<"nl", "if", "(", "a", ")", "nl", "{", "if", "(", "b", ")", "{", "}",
    "nl", "return", "1", ";", "}", "a", "=", "1", ";", "b", "=", "2", ";">> }}

(* Every expression of four operands. *)
Ops == {"+", "-", "*", "<", "/"}
Expressions == {Line(<<"a", o, "b", p, "1", q, "2", ";">>) : o, p, q \in Ops}

MCPrograms == Expressions \cup Sentences

Replacements == {W(s) : s \in {"int", "void", "a", "=", "*", "(", ")", ";", "{",
                               "}", ",", "if"}}
                \cup {N("1"), NL, Stray, Odd, Malformed, Overflow}

Removals(t) == {RemoveAt(t, i) : i \in 1 .. Len(t)}
Substitutions(t) ==
  {ReplaceAt(t, i, x) : i \in 1 .. Len(t), x \in Replacements}

EditedTexts == Expressions \cup
  UNION {Prefixes(t) \cup Removals(t) \cup Substitutions(t) : t \in Sentences}

(* Texts for several inputs in a row: whole ones, and ones that leave the  *)
(* buffer, the flag or the current token behind.                           *)
SessionTexts == {Line(words) : words \in {
  <<"a", "=", "b", ";">>,
  <<"a", "=", "b", ")">>,
  <<"f", "(", "a", "=", "1", ")">>,
  <<"a", "<", "1">>,
  <<"int", "a", "1", ";">>,
  <<"int", "a", "=", "(", "int", ")", "b", ";">>,
  <<"int", "f", "(", ")", "{", "return", "a", ";", "}">>,
  <<"if", "(", "a", "=", "b", ")", "{", "a", "=", "1", ";", "}">>,
  <<"(", "1", ")">>,
  <<"(", "1", ")", ";">>,
  <<";">>, <<>> }} \cup {<<Stray, W("a"), W(";")>>, <<W("a"), Overflow>>}

MCTexts == EditedTexts \cup SessionTexts

(* A token as garbage memory can hold it. *)
G(t, i) == [tok |-> t, ident |-> i, value |-> NoText, after |-> 0]
Other == G("tok_eof", NoText)
Name == G("tok_identifier", "a")
Open == G("tok_open_round", "(")
Close == G("tok_close_round", ")")
Assign == G("tok_assigment_operator", "=")
Star == G("tok_operator", "*")
Type == G("tok_int", "int")

(* One pattern for each way the parser can take what it finds. *)
MCGarbage == { <<>>, <<Other, Other, Other>>, <<Name, Open, Other>>,
  <<Name, Assign, Other>>, <<Name, Other, Other>>, <<Star, Name, Open>>,
  <<Star, Name, Assign>>, <<Star, Name, Other>>, <<Type, Close, Other>>,
  <<Type, Star, Close>>, <<Assign, Other, Other>> }
=============================================================================
