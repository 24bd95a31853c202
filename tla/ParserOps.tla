----------------------------- MODULE ParserOps -----------------------------
(***************************************************************************)
(* The recursive descent parser of src/core/parser.cpp as operators on a   *)
(* parse state, one operator per method of Parser.  The methods call each  *)
(* other through the constant Call, which stands for Dispatch: the         *)
(* recursion is closed where the constants are given their values.         *)
(*                                                                         *)
(* A parse state s is what a method reads and writes: the lexer s.lex, the *)
(* flag processed_assigment s.flag, the diagnostics it pushed s.errs (the  *)
(* codes, in order) and s.node, what the last method returned; Null is     *)
(* nullptr.  An early `return nullptr` is an operator that leaves s.node   *)
(* Null, and on such a state Eat, Expect, Give and Call change nothing:    *)
(* the callers' tests for nullptr need no branch of their own,             *)
(* only the diagnostics they add do (Blame).                               *)
(*                                                                         *)
(* s.fault tells how the program leaves the parser otherwise: "throw" (an  *)
(* overflowing literal), "null" (a null pointer is dereferenced), "stack"  *)
(* (the call stack is used up) or "segv" (a read out of bounds that        *)
(* faults).  s.room is the number of calls the stack still has room for.   *)
(* s.garbage is what a read out of bounds of lookAheadToken finds, fixed   *)
(* before the parse; <<>> is memory that cannot be read.                   *)
(* History variables: s.orderly (every look-ahead kept the contract of     *)
(* module Lexer), s.oob (lookAheadToken was read out of bounds), s.refused *)
(* (an assignment was refused because of the flag) and s.empty (a          *)
(* statement began at a semicolon).                                        *)
(***************************************************************************)
EXTENDS LexerOps, Integers

CONSTANTS Call(_, _, _),  \* what a method does to a parse state: Dispatch
          MaxCalls        \* how deep calls, and turns of loops, can be nested

ASSUME MaxCallsAssumption == MaxCalls \in Nat

Node(kind, name, type, kids, flags) ==
  [kind |-> kind, name |-> name, type |-> type, kids |-> kids, flags |-> flags]

Null == Node("nullptr", NoText, NoText, <<>>, {})
Block(nodes) == Node("Block", NoText, NoText, nodes, {})
None == Block(<<>>)      \* not Null: nothing returned yet

ParseState(lx, flag, garbage) ==
  [lex |-> lx, flag |-> flag, errs |-> <<>>, node |-> None, fault |-> "none",
   garbage |-> garbage, room |-> MaxCalls, orderly |-> TRUE, oob |-> FALSE,
   refused |-> FALSE, empty |-> FALSE]

Tok(s) == s.lex.cur.tok
Ident(s) == s.lex.cur.ident
IsNull(s) == s.node = Null
Faulted(s) == s.fault # "none"

Raise(s, fault) == [s EXCEPT !.fault = fault, !.node = Null]

(* Wrong versions: one that logs nothing, one that forgets the return.     *)
LogNothing(s, code) == s
FailGoesOn(s, code) == IF Faulted(s) THEN s ELSE [s EXCEPT !.errs = Append(@, code)]
FailSilently(s, code) == [s EXCEPT !.node = Null]

(* logParserError, whatever the method has in hand. *)
Log(s, code) == IF Faulted(s) THEN s ELSE [s EXCEPT !.errs = Append(@, code)]
(* logParserError and return nullptr. *)
Fail(s, code) == IF IsNull(s) THEN s ELSE Log([s EXCEPT !.node = Null], code)
(* A caller that logs when the callee returned nullptr. *)
Blame(s, code) == IF IsNull(s) THEN Log(s, code) ELSE s
Give(s, node) == IF IsNull(s) THEN s ELSE [s EXCEPT !.node = node]

(* The state once the lexer has become l. *)
Lexed(s, l) == IF l.thrown THEN Raise([s EXCEPT !.lex = l], "throw")
                           ELSE [s EXCEPT !.lex = l]

(* lex->gettok(), also after a nullptr. *)
EatAnyway(s) == IF Faulted(s) THEN s ELSE Lexed(s, Gettok(s.lex))
Eat(s) == IF IsNull(s) THEN s ELSE EatAnyway(s)

(* A wrong version, which takes any token for the one expected. *)
ExpectAny(s, tok, code) == Eat(s)

(* if (lex->currtok != tok) { log; return nullptr; } lex->gettok(); *)
Expect(s, tok, code) == IF Tok(s) = tok THEN Eat(s) ELSE Fail(s, code)

Operator(s, op) == Tok(s) = "tok_operator" /\ Ident(s) = op
EatStar(s) == IF Operator(s, "*") THEN Eat(s) ELSE s
Pointer(s) == IF Operator(s, "*") THEN {"isPointer"} ELSE {}

(* A result used without a test for nullptr. *)
Dereferenced(e) == IF IsNull(e) /\ ~Faulted(e) THEN Raise(e, "null") ELSE e

isDatatype(tok) == tok \in DataTypes
isDeclarationToken(tok) == isDatatype(tok) \/ tok = "tok_extern"
-----------------------------------------------------------------------------
(* Lexer::lookAhead as a function.  Module Lexer has the same loop one     *)
(* turn at a time; a turn has read the token that is current in l.         *)
Read(l, temp) ==
  [lex |-> l, temp |-> Append(temp, l.cur),
   ok |-> ~l.thrown /\ l.cur.tok \notin EndTokens]
Turn(a) == IF a.ok THEN Read(Gettok(a.lex), a.temp) ELSE a

(* The loop, whose n is 2 or 3 in src/, and what the look-ahead a leaves.  *)
Rest(a, n) == IF n = 2 THEN a ELSE Turn(a)
Turns(lx, n) == Rest(Turn(Turn([lex |-> lx, temp |-> <<>>, ok |-> TRUE])), n)
(* The first is a wrong version, which keeps what was buffered before.     *)
BufferedAgain(lx, a) ==
  [ok |-> a.ok,
   lex |-> IF a.ok THEN [a.lex EXCEPT !.buf = lx.buf \o a.temp, !.cur = lx.cur]
                   ELSE a.lex]

Buffered(lx, a) ==
  [ok |-> a.ok,
   lex |-> IF a.ok THEN [a.lex EXCEPT !.buf = @ \o a.temp, !.cur = lx.cur]
                   ELSE a.lex]
lookAhead(lx, n) == Buffered(lx, Turns(lx, n))

(* A look-ahead of the parser, which never tests the answer and then reads *)
(* lookAheadToken[0]: out of bounds if the look-ahead a failed.            *)
Looked(s, n, a) ==
  LET t == [s EXCEPT !.orderly = @ /\ Len(s.lex.buf) <= n,
                     !.oob = @ \/ (~a.ok /\ ~a.lex.thrown)]
  IN  IF t.oob /\ ~a.ok /\ s.garbage = <<>>
      THEN Raise([t EXCEPT !.lex = a.lex], "segv")
      ELSE Lexed(t, a.lex)
Ahead(s, n) == IF IsNull(s) THEN s ELSE Looked(s, n, lookAhead(s.lex, n))

(* lookAheadToken[k - 1]. *)
Slot(s, k) == IF k <= Len(s.lex.buf) THEN s.lex.buf[k] ELSE s.garbage[k]
SlotIs(s, k, tok) == Slot(s, k).tok = tok
SlotStar(s, k) == SlotIs(s, k, "tok_operator") /\ Slot(s, k).ident = "*"

isPointerCast(s) == /\ isDatatype(Slot(s, 1).tok)
                    /\ SlotStar(s, 2)
                    /\ SlotIs(s, 3, "tok_close_round")
isDataCast(s) == isDatatype(Slot(s, 1).tok) /\ SlotIs(s, 2, "tok_close_round")
isCastOperation(s) == isPointerCast(s) \/ isDataCast(s)

BIN_OP_PRECEDENCE(op) ==
  CASE op = "<" -> 10 [] op \in {"+", "-"} -> 20 [] op = "*" -> 40
    [] op = "/" -> 50 [] OTHER -> -1
getTokPrecedence(s) ==
  IF Tok(s) = "tok_operator" THEN BIN_OP_PRECEDENCE(Ident(s)) ELSE -1
-----------------------------------------------------------------------------
(* A call of a method; the last argument of Call is the other parameter of *)
(* a method, where it has one.                                             *)
Parsed(method, s) == Call(method, s, 0)

parseNumber(s) == Give(Eat(s), Node("Number", s.lex.cur.value, NoText, <<>>, {}))

parseNullptr(s) ==
  Give(Eat(s), Node("Number", "0", "tok_int", <<>>, {"isPointer", "isNull"}))

(* The while loop of parseIdentifier over the arguments of a call. *)
CallArguments(s) ==
  LET a == Blame(Parsed("parseExpression", s), "MISSING_ARG_IN_FUNC_CALL")
      rest == Parsed("CallArguments", Eat(a))
  IN  IF Tok(a) = "tok_close_round" THEN Give(Eat(a), Block(<<a.node>>))
      ELSE IF Tok(a) = "tok_comma"
      THEN Give(rest, Block(<<a.node>> \o rest.node.kids))
      ELSE Fail(a, "MISSING_OPEN_ROUND_OR_COMMA_IN_FUNC_CALL")

parseIdentifier(s) ==
  LET a == Eat(s)
      b == Eat(a)
      args == IF Tok(b) = "tok_close_round" THEN Give(Eat(b), Block(<<>>))
              ELSE Parsed("CallArguments", b)
  IN  IF Tok(a) # "tok_open_round"
      THEN Give(a, Node("Variable", Ident(s), NoText, <<>>, {}))
      ELSE Give(args, Node("Call", Ident(s), NoText, args.node.kids, {}))

parseDereference(s) ==
  LET a == Eat(s)
  IN  Give(Expect(a, "tok_identifier", "EXPECTED_TOKEN"),
           Node("Dereference", Ident(a), NoText, <<>>, {"isPointer"}))

(* The type a of a cast and what comes after it. *)
CastTo(a) ==
  LET b == Eat(a)
      c == Expect(EatStar(b), "tok_close_round", "UNEXPECTED_TOKEN_IN_EXPRESSION")
      r == Blame(Parsed("parseExpression", c), "CAST_ERROR")
  IN  IF ~isDatatype(Tok(a)) THEN Fail(a, "UNEXPECTED_TOKEN_IN_EXPRESSION")
      ELSE IF Tok(a) = "tok_void_ptr" /\ ~Operator(b, "*")
      THEN Fail(b, "ERROR_IN_VOID_DATATYPE")
      ELSE IF IsNull(c) THEN c
      ELSE Give(r, Node("Cast", NoText, Tok(a), <<r.node>>, Pointer(b)))

parseCast(s) == CastTo(Eat(s))

Parenthesised(e) ==
  IF Tok(e) = "tok_close_round" THEN EatAnyway(e)
  ELSE Log([e EXCEPT !.node = Null], "EXPECTED_TOKEN")

parseParen(s) ==
  LET a == Ahead(s, 3)
  IN  IF IsNull(a) THEN a
      ELSE IF isCastOperation(a) THEN Parsed("parseCast", a)
      ELSE Parenthesised(Parsed("parseExpression", Eat(a)))

parsePrimary(s) ==
  CASE Tok(s) = "tok_identifier" -> Parsed("parseIdentifier", s)
    [] Tok(s) = "tok_number" -> parseNumber(s)
    [] Tok(s) = "tok_open_round" -> Parsed("parseParen", s)
    [] Tok(s) = "tok_nullptr" -> parseNullptr(s)
    [] Operator(s, "*") -> parseDereference(s)
    [] OTHER -> Fail(s, "UNEXPECTED_TOKEN_IN_EXPRESSION")

(* Wrong versions: one that lets operators of one precedence group to the  *)
(* right, one that reads the operator after it has been eaten.             *)
parseBinOpRHSLoose(prec, l) ==
  LET own == getTokPrecedence(l)
      r == Parsed("parsePrimary", Eat(l))
      rhs == IF own < getTokPrecedence(r)
             THEN Call("parseBinOpRHS", r, own) ELSE r
      binary == Node("Binary", Ident(l), NoText, <<l.node, rhs.node>>, {})
  IN  IF own < prec THEN l
      ELSE Call("parseBinOpRHS", Give(rhs, binary), prec)

parseBinOpRHSLate(prec, l) ==
  LET own == getTokPrecedence(l)
      r == Parsed("parsePrimary", Eat(l))
      rhs == IF own < getTokPrecedence(r)
             THEN Call("parseBinOpRHS", r, own + 1) ELSE r
      binary == Node("Binary", Ident(Eat(l)), NoText, <<l.node, rhs.node>>, {})
  IN  IF own < prec THEN l
      ELSE Call("parseBinOpRHS", Give(rhs, binary), prec)

parseBinOpRHS(prec, l) ==
  LET own == getTokPrecedence(l)
      r == Parsed("parsePrimary", Eat(l))
      rhs == IF own < getTokPrecedence(r)
             THEN Call("parseBinOpRHS", r, own + 1) ELSE r
      binary == Node("Binary", Ident(l), NoText, <<l.node, rhs.node>>, {})
  IN  IF own < prec THEN l
      ELSE Call("parseBinOpRHS", Give(rhs, binary), prec)

(* The assignment branch of parseExpression, l being its left hand side.   *)
(* The refusal of a second assignment only writes to the standard output.  *)
Assignment(l) ==
  LET r == Blame(Parsed("parseExpression", Eat([l EXCEPT !.flag = TRUE])),
                 "EXPECTED_VARIABLE")
  IN  IF l.flag THEN [l EXCEPT !.node = Null, !.refused = TRUE]
      ELSE IF l.node.kind # "Variable" THEN Fail(r, "EXPECTED_VARIABLE")
      ELSE Give(r, [l.node EXCEPT !.kids = <<r.node>>])

parseExpression(s) ==
  LET l == Parsed("parsePrimary", s)
  IN  IF ~IsNull(l) /\ Tok(l) = "tok_assigment_operator" THEN Assignment(l)
      ELSE Call("parseBinOpRHS", l, 0)
-----------------------------------------------------------------------------
(* Only the look-ahead of parseDeclaration tells what is eaten here: the   *)
(* token taken for the identifier of a pointer is not looked at.           *)
parseAssigment(s) ==
  LET a == Eat(s)
      b == EatStar(a)
      r == Blame(Parsed("parseExpression", Eat(Eat(b))), "CANNOT_GENERATE_RHS")
  IN  Give(r, Node("Variable", Ident(b), Tok(s), <<r.node>>,
                   {"isDefinition"} \cup Pointer(a)))

(* An argument of type `type`, a being what follows its type; after a      *)
(* comma there must be another.                                            *)
AnotherArgument(s) == IF Tok(s) = "tok_close_round"
                      THEN Fail(s, "EXPECTED_DATATYPE_FUNCTION_ARG") ELSE s
ArgumentOf(type, a) ==
  LET b == EatStar(a)
      c == Expect(b, "tok_identifier", "EXPECTED_IDENTIFIER_NAME")
      d == IF Tok(c) = "tok_comma" THEN AnotherArgument(Eat(c)) ELSE c
      rest == Parsed("parseArguments", d)
      argument == Node("Argument", Ident(b), type, <<>>, Pointer(a))
  IN  Give(rest, Block(<<argument>> \o rest.node.kids))

parseArguments(s) ==
  IF Tok(s) = "tok_close_round" THEN Give(Eat(s), Block(<<>>))
  ELSE IF isDatatype(Tok(s)) THEN ArgumentOf(Tok(s), Eat(s))
  ELSE Fail(s, "EXPECTED_DATATYPE_FUNCTION_ARG")

parsePrototype(s) ==
  LET a == Eat(s)
      b == EatStar(a)
      c == Eat(b)
      d == Parsed("parseArguments", Eat(c))
      null == IF Tok(s) = "tok_void_ptr" THEN {"isNull"} ELSE {}
  IN  IF ~isDatatype(Tok(s)) THEN Fail(s, "EXPECTED_RETURN_DATATYPE")
      ELSE IF Tok(b) # "tok_identifier" THEN Fail(b, "EXPECTED_IDENTIFIER_NAME")
      ELSE IF Tok(c) # "tok_open_round" THEN EatAnyway(Fail(c, "EXPECTED_TOKEN"))
      ELSE Give(d, Node("Prototype", Ident(b), Tok(s), d.node.kids,
                        {"isExtern"} \cup Pointer(a) \cup null))

parseExtern(s) ==
  LET a == Eat(s)
  IN  IF isDatatype(Tok(a)) THEN Parsed("parsePrototype", a)
      ELSE Fail(a, "EXPECTED_TYPE_AFTER_EXTERN")

(* The counter against SECURITY is never incremented. *)
parseStatementsUntillCurly(s, processingIf) ==
  LET e == Parsed("parseStatement", s)
      rest == Call("parseStatementsUntillCurly", e, processingIf)
  IN  IF Tok(s) = "tok_close_curly" THEN Give(s, Block(<<>>))
      ELSE IF Tok(s) = "tok_else" /\ processingIf THEN Fail(s, "EXPECTED_TOKEN")
      ELSE IF Tok(e) = "tok_eof" THEN Fail(e, "EXPECTED_TOKEN")
      ELSE Give(rest, Block(<<e.node>> \o rest.node.kids))

(* A block from its { to its }, with the caller's own check of the {. *)
Braces(s, code, processingIf) ==
  LET body == Call("parseStatementsUntillCurly",
                   Expect(s, "tok_open_curly", code), processingIf)
  IN  Give(Eat(body), body.node)

parseFunction(s) ==
  LET proto == Parsed("parsePrototype", s)
      body == Braces(proto, "EXPECTED_TOKEN", FALSE)
  IN  Give(body, Node("Function", NoText, NoText,
             <<[proto.node EXCEPT !.flags = @ \ {"isExtern"}], body.node>>, {}))

(* What follows else; `else if` is not supported. *)
ElseBlock(s) == IF Tok(s) = "tok_if"
                THEN Fail(s, "UNEXPECTED_TOKEN_IN_EXPRESSION")
                ELSE Braces(s, "EXPECTED_TOKEN", FALSE)
ElseBranch(then) == IF Tok(then) = "tok_else" THEN ElseBlock(Eat(then))
                    ELSE Give(then, Block(<<>>))

parseIfStatement(s) ==
  LET condition == Parsed("parseExpression",
                     Expect(Eat(s), "tok_open_round", "EXPECTED_TOKEN"))
      then == Braces(Expect(condition, "tok_close_round", "EXPECTED_TOKEN"),
                     "EXPECTED_TOKEN", TRUE)
      else == ElseBranch(then)
  IN  IF IsNull(then) THEN then
      ELSE Give(else, Node("If", NoText, NoText,
                           <<condition.node, then.node, else.node>>, {}))

(* `for (` and the two tokens after the first of the initialisation. *)
ForHeader(s) == Ahead(Expect(Eat(s), "tok_open_round", "EXPECTED_TOKEN"), 2)

ForInitialisation(s) ==
  LET typed == isDatatype(Tok(s))
  IN  IF IsNull(s) THEN s
      ELSE IF typed /\ ~SlotIs(s, 1, "tok_identifier")
      THEN Fail(s, "EXPECTED_IDENTIFIER_NAME")
      ELSE IF ~SlotIs(s, IF typed THEN 2 ELSE 1, "tok_assigment_operator")
      THEN Fail(s, "EXPECTED_TOKEN")
      ELSE Parsed("parseStatement", s)

parseForStatement(s) ==
  LET init == ForInitialisation(ForHeader(s))
      condition == Blame(Parsed("parseStatement", init), "FOR_LOOP_FAILURE")
      increment == Blame([Parsed("parseExpression", condition)
                            EXCEPT !.flag = FALSE], "FOR_LOOP_FAILURE")
      body == Braces(Expect(increment, "tok_close_round", "EXPECTED_TOKEN"),
                     "EXPECTED_TOKEN", FALSE)
  IN  IF IsNull(init) THEN init
      ELSE IF IsNull(condition) THEN condition
      ELSE Give(body, Node("For", NoText, NoText,
              <<init.node, condition.node, increment.node, body.node>>, {}))

parseToPointerAssigment(s) ==
  LET a == Eat(s)
      b == Expect(a, "tok_identifier", "EXPECTED_TOKEN")
      c == Expect(b, "tok_assigment_operator", "EXPECTED_TOKEN")
      r == Blame(Parsed("parseExpression", c), "UNEXPECTED_TOKEN_IN_EXPRESSION")
  IN  IF IsNull(c) THEN c
      ELSE Give(r, Node("ToPointer", Ident(a), NoText, <<r.node>>, {"isPointer"}))

(* What the two or three tokens ahead make of a declaration. *)
Declaration(a) ==
  LET named == SlotIs(a, 1, "tok_identifier")
      Then(tok) == SlotIs(a, IF named THEN 2 ELSE 3, tok)
  IN  IF ~named /\ ~SlotStar(a, 1)
      THEN Fail(a, "UNEXPECTED_TOKEN_IN_DECLARATION")
      ELSE IF Then("tok_open_round") THEN Parsed("parseFunction", a)
      ELSE IF ~Then("tok_assigment_operator")
      THEN Fail(a, "UNEXPECTED_TOKEN_IN_DECLARATION")
      ELSE IF named /\ Tok(a) = "tok_void_ptr"
      THEN Fail(a, "ERROR_IN_VOID_DATATYPE")
      ELSE parseAssigment(a)

DeclarationAhead(a) == IF IsNull(a) THEN a ELSE Declaration(a)
parseDeclaration(s) == DeclarationAhead(Ahead(s, 3))

(* `return` marks its expression without testing it for nullptr. *)
ReturnStatement(s) ==
  LET e == Dereferenced(Parsed("parseExpression", Eat(s)))
  IN  Give(e, [e.node EXCEPT !.flags = @ \cup {"isReturn"}])

(* No case of parseStatement: a lone semicolon, or what starts nothing. *)
NoStatement(s) ==
  [s EXCEPT !.node = Null, !.empty = @ \/ Tok(s) = "tok_end_statement"]

(* The parse that the first token of a statement selects. *)
StatementBody(s) ==
  CASE Tok(s) = "tok_extern" -> parseExtern(s)
    [] Tok(s) = "tok_return" -> ReturnStatement(s)
    [] isDatatype(Tok(s)) -> Parsed("parseDeclaration", s)
    [] Tok(s) = "tok_identifier" -> Parsed("parseExpression", s)
    [] Tok(s) = "tok_if" -> Parsed("parseIfStatement", s)
    [] Tok(s) = "tok_for" -> Parsed("parseForStatement", s)
    [] Operator(s, "*") -> parseToPointerAssigment(s)
    [] OTHER -> NoStatement(s)

Semicolon(e) == IF Tok(e) = "tok_end_statement" THEN EatAnyway(e) ELSE e

(* A wrong end of a statement, which does not insist on the semicolon.     *)
EndStatementLenient(s, e) ==
  IF Faulted(e) \/ (isDatatype(Tok(s)) /\ IsNull(e)) THEN e
  ELSE [Semicolon(e) EXCEPT !.flag = FALSE]

(* What parseStatement does after the parse e of a statement begun at s. *)
EndStatement(s, e) ==
  LET expectSemicolon == /\ Tok(s) \notin {"tok_if", "tok_for"}
                         /\ e.node.kind # "Function"
  IN  IF Faulted(e) \/ (isDatatype(Tok(s)) /\ IsNull(e)) THEN e
      ELSE IF expectSemicolon /\ Tok(e) # "tok_end_statement"
      THEN Log([e EXCEPT !.node = Null], "EXPECTED_END_STATEMENT_TOKEN")
      ELSE [Semicolon(e) EXCEPT !.flag = FALSE]

parseStatement(s) == EndStatement(s, StatementBody(s))

(* handleExpression (src/repl/repl.cpp) generates code for the tree        *)
(* without testing it for nullptr: a line that does not parse ends the     *)
(* program.                                                                *)
handleExpression(s) == Dereferenced(Parsed("parseExpression", s))

Method(name, s, x) ==
  CASE name = "parseIdentifier" -> parseIdentifier(s)
    [] name = "CallArguments" -> CallArguments(s)
    [] name = "parseCast" -> parseCast(s)
    [] name = "parseParen" -> parseParen(s)
    [] name = "parsePrimary" -> parsePrimary(s)
    [] name = "parseBinOpRHS" -> parseBinOpRHS(x, s)
    [] name = "parseExpression" -> parseExpression(s)
    [] name = "parseArguments" -> parseArguments(s)
    [] name = "parsePrototype" -> parsePrototype(s)
    [] name = "parseFunction" -> parseFunction(s)
    [] name = "parseStatementsUntillCurly" -> parseStatementsUntillCurly(s, x)
    [] name = "parseIfStatement" -> parseIfStatement(s)
    [] name = "parseForStatement" -> parseForStatement(s)
    [] name = "parseDeclaration" -> parseDeclaration(s)
    [] name = "parseStatement" -> parseStatement(s)
    [] name = "handleExpression" -> handleExpression(s)

(* A call of a method takes room on the stack until it returns. *)
Dispatch(method, s, x) ==
  LET called == [s EXCEPT !.room = @ - 1]
  IN  IF IsNull(s) THEN s
      ELSE IF s.room = 0 THEN Raise(s, "stack")
      ELSE [Method(method, called, x) EXCEPT !.room = s.room]
=============================================================================
