----------------------------- MODULE MCCompiler -----------------------------
(***************************************************************************)
(* Instances of Compiler.  The first text of a module is any function of a *)
(* family that puts each small expression into each context; then come the *)
(* texts of a session: definitions, redefinitions, externs, functions that *)
(* fail, statements outside functions, and for the REPL expressions.       *)
(***************************************************************************)
EXTENDS CompilerTyping

MCFloats == {"1.5"}

W(s) == [class |-> "word", text |-> s]
N(s) == [class |-> "number", text |-> s]
Line(words) ==
  [i \in 1 .. Len(words) |-> IF words[i] \in {"1", "1.5"} THEN N(words[i]) ELSE W(words[i])]

MCText == {"int", "float", "void", "extern", "return", "if", "else", "for",
           "nullptr", "{", "}", "(", ")", ";", ",", "=", "+", "-", "*", "<",
           "a", "b", "p", "q", "v", "x", "f", "g", "h", "malloc", "free",
           "1", "1.5"}

(* Of each type one variable, a literal, and the ways to make others. *)
Simple == { <<"a">>, <<"b">>, <<"p">>, <<"q">>, <<"v">>, <<"1">>, <<"1.5">>,
            <<"*", "p">>, <<"*", "q">>, <<"*", "a">>, <<"x">> }
Others == { <<"nullptr">>, <<"malloc", "(", "1", ")">>, <<"free", "(", "v", ")">>,
            <<"(", "int", "*", ")", "q">>, <<"(", "float", "*", ")", "v">>,
            <<"(", "float", ")", "a">>, <<"(", "void", "*", ")", "a">>,
            <<"(", "int", "*", ")", "*", "p">>, <<"(", "p", "+", "1", ")", "+", "1">>,
            <<"(", "a", "<", "b", ")", "+", "b">>, <<"(", "a", "<", "1", ")", "+", "a">>,
            <<"1", "<", "1.5">>, <<"1", "+", "1", "<", "a">>, <<"h", "(", "1", ")">> }
Expressions ==
  Simple \cup Others \cup {l \o <<op>> \o r : l, r \in Simple, op \in {"+", "<"}}
    \cup {<<"p">> \o <<"-">> \o <<"1">>, <<"a", "-", "b">>}

Parameters == <<"int", "a", ",", "float", "b", ",", "int", "*", "p", ",",
               "float", "*", "q", ",", "void", "*", "v">>
Function(ret, body) ==
  ret \o <<"f", "(">> \o Parameters \o <<")", "{">> \o body \o <<"}">>

Contexts(e) == {
  Function(<<"int">>, <<"return">> \o e \o <<";">>),
  Function(<<"float">>, <<"return">> \o e \o <<";">>),
  Function(<<"int", "*">>, <<"return">> \o e \o <<";">>),
  Function(<<"void">>, <<"int", "x", "=">> \o e \o <<";">>),
  Function(<<"void">>, <<"float", "*", "x", "=">> \o e \o <<";">>),
  Function(<<"void">>, <<"void", "*", "x", "=">> \o e \o <<";">>),
  Function(<<"void">>, <<"b", "=">> \o e \o <<";">>),
  Function(<<"void">>, <<"p", "=">> \o e \o <<";">>),
  Function(<<"void">>, <<"*", "p", "=">> \o e \o <<";">>),
  Function(<<"void">>, <<"*", "q", "=">> \o e \o <<";">>),
  Function(<<"void">>, <<"if", "(">> \o e \o <<")", "{", "}", "else", "{", "a", ";", "}">>),
  Function(<<"int">>, <<"for", "(", "a", "=", "1", ";">> \o e
             \o <<";", "a", "=", "a", "+", "1", ")", "{", "a", ";", "}", "return", "a", ";">>),
  Function(<<"void">>, <<"free", "(">> \o e \o <<")", ";">>),
  Function(<<"int">>, <<"return", "f", "(">> \o e \o <<",", "b", ",", "p", ",", "q", ",",
             "v", ")", ";">>) }

Functions1 == {Line(text) : text \in UNION {Contexts(e) : e \in Expressions}}

(* Control flow around definitions, and names used twice. *)
Flow == {Line(Function(ret, body)) : ret \in {<<"int">>, <<"void">>}, body \in {
  <<"if", "(", "a", ")", "{", "int", "x", "=", "1", ";", "}", "return", "x", ";">>,
  <<"if", "(", "a", ")", "{", "int", "x", "=", "1", ";", "}", "else", "{", "x", ";", "}",
    "return", "x", ";">>,
  <<"if", "(", "b", ")", "{", "return", "a", ";", "}", "else", "{", "return", "b", ";", "}">>,
  <<"return", "a", ";", "a", "=", "1", ";">>,
  <<"for", "(", "int", "x", "=", "1", ";", "x", "<", "a", ";", "x", "=", "x", "+", "1", ")",
    "{", "if", "(", "x", ")", "{", "}", "else", "{", "b", "=", "b", "+", "x", ";", "}", "}">>,
  <<"float", "a", "=", "1", ";", "return", "a", ";">>,
  <<"int", "g", "(", ")", "{", "return", "1", ";", "}", "return", "a", ";">>,
  <<"if", "(", "a", ")", "{", "int", "g", "(", ")", "{", "return", "1", ";", "}", "}",
    "else", "{", "a", ";", "}", "return", "a", ";">>,
  <<"a", "=", "x", ";">> }}

SessionTexts == {Line(text) : text \in {
  <<"int", "g", "(", "int", "a", ")", "{", "return", "a", ";", "}">>,
  <<"int", "g", "(", "int", "b", ")", "{", "return", "1", ";", "}">>,
  <<"float", "g", "(", "float", "a", ",", "int", "b", ")", "{", "return", "a", ";", "}">>,
  <<"extern", "int", "g", "(", "int", "a", ")", ";">>,
  <<"extern", "float", "g", "(", "float", "b", ",", "int", "a", ")", ";">>,
  <<"extern", "void", "malloc", "(", ")", ";">>,
  <<"int", "h", "(", ")", "{", "return", "g", "(", "1", ")", ";", "}">>,
  <<"float", "h", "(", "float", "b", ")", "{", "return", "g", "(", "b", ",", "1", ")", ";", "}">>,
  <<"int", "h", "(", ")", "{", "return", "a", ";", "}">>,
  <<"int", "h", "(", ")", "{", "int", "x", "=", "1", ";", "x", "=", "a", ";", "}">>,
  <<"void", "h", "(", ")", "{", "int", "a", "=", "b", ";", "}">>,
  <<"void", "h", "(", "int", "*", "p", ")", "{", "p", "=", "(", "int", "*", ")", "malloc",
    "(", "1", ")", ";", "free", "(", "(", "void", "*", ")", "p", ")", ";", "}">>,
  <<"int", "h", "(", "int", "a", ")", "{", "return", "h", "(", "a", "-", "1", ")", ";", "}">>,
  <<"a", "=", "1", ";">>,
  <<"int", "x", "=", "1", ";">>,
  <<"if", "(", "a", ")", "{", "}", "else", "{", "a", ";", "}">>,
  <<"*", "p", "=", "1", ";">>,
  <<"1", "+", "1">>, <<"(", "1.5", ")">>, <<"1", "<", "1">>, <<"g", "(", "1", ")", ";">>,
  <<"h", "(", ")", "+", "1">>, <<"a", ";">>,
  <<"void", "h", "(", "int", "*", "p", ")", "{", "float", "*", "x", "=",
    "(", "float", "*", ")", "p", ";", "}">> }}

MCTexts == Functions1 \cup Flow \cup SessionTexts

(* One pattern is enough: no text has a look-ahead that fails. *)
MCGarbage == { <<>> }
=============================================================================
