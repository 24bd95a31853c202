------------------------------- MODULE Parser -------------------------------
(***************************************************************************)
(* The front end at work: one Codegenerator (lexer, parser, diagnostics)   *)
(* is given text after text, and each is read either as a module, by the   *)
(* loop of generateModuleContent (src/core/codegen.cpp), or as a line of   *)
(* the REPL (src/repl/repl.cpp).  What survives from one text to the next  *)
(* is the lexer's current token, the parser's assignment flag and the      *)
(* queue of diagnostics.  Code generation is not part of this module: a    *)
(* parsed tree is only kept in `outcome`.                                  *)
(***************************************************************************)
EXTENDS ParserOps, SequencesExt

CONSTANTS Texts,         \* the texts the front end can be given
          Sessions,      \* those that others can come after, and that can
                         \* come after others
          Programs,      \* those that are whole programs of the language
          Modes,         \* how they are read: "module", "repl"
          Garbage,       \* what a read of lookAheadToken out of bounds finds
          MaxInputs,     \* bound: texts per behaviour
          MaxErrors      \* bound: diagnostics remembered, later ones dropped

ASSUME TextsAssumption ==
  Texts \subseteq Seq(Lexeme) /\ Sessions \cup Programs \subseteq Texts
ASSUME ModesAssumption == Modes \subseteq {"module", "repl"} /\ Modes # {}
ASSUME BoundsAssumption == MaxInputs \in Nat \ {0} /\ MaxErrors \in Nat \ {0}
ASSUME GarbageAssumption == Garbage # {}

VARIABLES lex, flag,     \* the struct Lexer, flags.processed_assigment
          diagnostic,    \* the codes of Diagnostic::errors, oldest first
          pc,            \* "ready" for a text, "module", "repl", "crashed"
          outcome,       \* the last parse
          inputs,        \* texts given so far
          turn           \* flips with every turn of a module's loop, so that
                         \* a turn that changes nothing else is a step

vars == <<lex, flag, diagnostic, pc, outcome, inputs, turn>>

(* A parse: the method, its first token, where that token and the one left *)
(* current stand in the text, and what became of it.                       *)
NoOutcome == [op |-> "none", first |-> "tok_eof", from |-> 1, upto |-> 1,
              node |-> Null, errs |-> <<>>, fault |-> "none",
              orderly |-> TRUE, oob |-> FALSE, refused |-> FALSE,
              empty |-> FALSE]

OutcomeOf(op, before, s) ==
  [op |-> op, first |-> before.cur.tok, from |-> CurrentIndex(before),
   upto |-> CurrentIndex(s.lex), node |-> s.node, errs |-> s.errs,
   fault |-> s.fault, orderly |-> s.orderly, oob |-> s.oob,
   refused |-> s.refused, empty |-> s.empty]

TypeOK ==
  /\ lex \in LexerState
  /\ lex.start <= Len(lex.data) + 1
  /\ flag \in BOOLEAN
  /\ Len(diagnostic) <= MaxErrors
  /\ pc \in {"ready", "module", "repl", "crashed"}
  /\ outcome.fault \in {"none", "throw", "null", "stack", "segv"}
  /\ inputs \in 0 .. MaxInputs
  /\ turn \in BOOLEAN

Init ==
  /\ lex = NewLexer
  /\ flag = FALSE
  /\ diagnostic = <<>>
  /\ pc = "ready"
  /\ outcome = NoOutcome
  /\ inputs = 0
  /\ turn = FALSE

(* Codegenerator::initFromString, and which driver will read the text.     *)
InitFromString ==
  /\ pc = "ready"
  /\ inputs < MaxInputs
  /\ inputs > 0 => lex.data \in Sessions
  /\ inputs' = inputs + 1
  /\ \E t \in IF inputs = 0 THEN Texts ELSE Sessions, m \in Modes :
       /\ lex' = Gettok(initFromString(lex, t))
       /\ pc' = IF lex'.thrown THEN "crashed" ELSE m
  /\ outcome' = NoOutcome
  /\ UNCHANGED <<flag, diagnostic, turn>>

Remember(codes) ==
  LET all == diagnostic \o codes
  IN  SubSeq(all, 1, IF Len(all) < MaxErrors THEN Len(all) ELSE MaxErrors)

(* A parse for each thing that a read out of bounds can find, and the ends *)
(* they come to: one, unless there is such a read.                         *)
Runs(op, lx, fl) == [g \in Garbage |-> Parsed(op, ParseState(lx, fl, g))]
Usual == CHOOSE g \in Garbage : TRUE
EndsOf(runs) == IF runs[Usual].oob THEN {runs[g] : g \in Garbage}
                                   ELSE {runs[Usual]}
Ends(op, lx) == EndsOf(Runs(op, lx, flag))

Parse(op, lx, next) ==
  \E s \in Ends(op, lx) :
    /\ lex' = s.lex
    /\ flag' = s.flag
    /\ diagnostic' = Remember(s.errs)
    /\ outcome' = OutcomeOf(op, lx, s)
    /\ pc' = IF Faulted(s) THEN "crashed" ELSE next

(* One turn of the loop of generateModuleContent, and its end.  The first  *)
(* is a wrong version, whose parser reads from a copy of the lexer.        *)
ModuleStatementCopies ==
  /\ pc = "module"
  /\ lex.cur.tok # "tok_eof"
  /\ outcome' \in {OutcomeOf("parseStatement", lex, s) : s \in Ends("parseStatement", lex)}
  /\ pc' = IF outcome'.fault = "none" THEN "module" ELSE "crashed"
  /\ turn' = ~turn
  /\ UNCHANGED <<lex, flag, diagnostic, inputs>>

ModuleStatement ==
  /\ pc = "module"
  /\ lex.cur.tok # "tok_eof"
  /\ Parse("parseStatement", lex, "module")
  /\ turn' = ~turn
  /\ UNCHANGED inputs

ModuleEnd ==
  /\ pc = "module"
  /\ lex.cur.tok = "tok_eof"
  /\ pc' = "ready"
  /\ UNCHANGED <<lex, flag, diagnostic, outcome, inputs, turn>>

(* repl::lookAheadStatement: what the line is, and the lexer after it.     *)
lookAheadStatement(lx) ==
  LET tok == lx.cur.tok
      a == lookAhead(lx, 2)
      Next1(t) == a.lex.buf[1].tok = t
      Next2(t) == a.lex.buf[2].tok = t
      Is(kind) == [kind |-> kind, lex |-> lx, ok |-> TRUE]
      Seen(kind) == [kind |-> kind, lex |-> a.lex, ok |-> ~a.lex.thrown]
  IN  IF tok = "tok_extern" THEN Is("tok_extern")
      ELSE IF tok \in {"tok_number", "tok_open_round"}
      THEN Is("tok_expression_repl")
      ELSE IF ~isDeclarationToken(tok) /\ tok # "tok_identifier"
      THEN Is("tok_invalid_repl")
      ELSE IF ~a.ok THEN Seen("tok_invalid_repl")
      ELSE IF tok = "tok_identifier"
      THEN Seen(IF Next1("tok_assigment_operator")
                THEN "tok_anonymous_assigment_repl" ELSE "tok_expression_repl")
      ELSE IF Next1("tok_identifier") /\ Next2("tok_assigment_operator")
      THEN Seen("tok_assigment_repl")
      ELSE IF Next1("tok_identifier") /\ Next2("tok_open_round")
      THEN Seen("tok_function_repl")
      ELSE Seen("tok_invalid_repl")

(* A line that is neither an expression nor a function is dropped. *)
ReplIgnore ==
  /\ pc = "repl"
  /\ LET d == lookAheadStatement(lex)
     IN  /\ d.kind \notin {"tok_expression_repl", "tok_function_repl"}
         /\ lex' = d.lex
         /\ pc' = IF d.ok THEN "ready" ELSE "crashed"
  /\ UNCHANGED <<flag, diagnostic, outcome, inputs, turn>>

(* A line that parses is given to code generation, whose null result ends  *)
(* the program too; which it is, is not part of this module.               *)
ReplExpression ==
  /\ pc = "repl"
  /\ LET d == lookAheadStatement(lex)
     IN  /\ d.kind = "tok_expression_repl"
         /\ \E next \in {"ready", "crashed"} :
              Parse("handleExpression", d.lex, next)
  /\ UNCHANGED <<inputs, turn>>

(* handleFunction returns when the parse fails. *)
ReplFunction ==
  /\ pc = "repl"
  /\ LET d == lookAheadStatement(lex)
     IN  /\ d.kind = "tok_function_repl"
         /\ Parse("parseFunction", d.lex, "ready")
  /\ UNCHANGED <<inputs, turn>>

(* printDiagnostic: the host empties the queue. *)
PrintDiagnostic ==
  /\ pc = "ready"
  /\ diagnostic # <<>>
  /\ diagnostic' = <<>>
  /\ UNCHANGED <<lex, flag, pc, outcome, inputs, turn>>

Next == \/ InitFromString \/ ModuleStatement \/ ModuleEnd
        \/ ReplIgnore \/ ReplExpression \/ ReplFunction \/ PrintDiagnostic

Spec == Init /\ [][Next]_vars

(* A module is read by a while loop without calls that block: as long as a *)
(* behaviour is in it, rounds follow, that change something or not. (Round *)
(* is less than ModuleStatement, to spare ENABLED a whole parse.)          *)
Round == pc = "module" /\ turn' = ~turn

FairSpec == Spec /\ WF_turn(Round)
-----------------------------------------------------------------------------
(***************************************************************************)
(* Properties of a parse.                                                  *)
(***************************************************************************)
Accepted == outcome.op # "none" /\ outcome.node # Null
Refused == outcome.op # "none" /\ outcome.node = Null

(* Every look-ahead of the parser and of the REPL is asked for at least as *)
(* many tokens as are still buffered, the contract under which module      *)
(* Lexer hands out the tokens in the order of the text.                    *)
LookAheadOrderly == outcome.orderly

(* A method that returns a tree has logged nothing: no diagnostic is left  *)
(* of an alternative the parser tried and gave up.                         *)
AcceptedSilently == Accepted => outcome.errs = <<>> /\ outcome.fault = "none"

(* On a stray lexeme gettok stands still and the token before it is read   *)
(* again, so that what was consumed is not a part of the text.             *)
Scannable == \A i \in 1 .. Len(lex.data) : lex.data[i].class # "stray"

(* A statement parsed with success ends where the next one begins: the     *)
(* last lexeme it consumed, newlines apart, is a semicolon or a closing    *)
(* brace.  So it is not empty, and the loop of parseStatementsUntillCurly  *)
(* comes to an end although its security counter never moves.              *)
StatementEndsAtBoundary ==
  Accepted /\ outcome.op = "parseStatement" /\ Scannable =>
    \E p \in outcome.from .. outcome.upto - 1 :
      /\ lex.data[p].class = "word" /\ lex.data[p].text \in {";", "}"}
      /\ \A q \in p + 1 .. outcome.upto - 1 : lex.data[q].class = "newline"

(* A look-ahead that fails is never mistaken for a statement: whatever the *)
(* memory past the empty deque holds, the parse returns nullptr and logs,  *)
(* or the program dies.                                                    *)
FailedLookAheadReported ==
  outcome.oob => Refused /\ (outcome.errs # <<>> \/ outcome.fault # "none")

(* nullptr comes with a diagnostic, but for the two cases the code has     *)
(* none for: an assignment refused for the flag, and a statement that is   *)
(* a lone semicolon (or one read again because gettok stands still).       *)
RefusalExplained ==
  Refused => \/ outcome.errs # <<>> \/ outcome.fault # "none"
             \/ outcome.refused \/ outcome.empty

(* A text is parsed as if it were the first: nothing of the texts before   *)
(* it - tokens left in the look-ahead buffer by a line that was dropped,   *)
(* the last identifierStr, the errors of a failed parse - changes what its *)
(* first parse does, unless the assignment flag was left set or the text   *)
(* begins with a stray lexeme, which leaves the old token current.         *)
FreshLexer == Gettok(initFromString(NewLexer, lex.data))
FreshOutcomes(runs) ==
  {OutcomeOf("parseStatement", FreshLexer, runs[g]) : g \in Garbage}
FreshEnds == FreshOutcomes(Runs("parseStatement", FreshLexer, FALSE))
BeginsStray ==
  LET i == SkipNewLines(lex.data, 1) IN ClassAt(lex.data, i) = "stray"
HistoryIndependent ==
  [][pc = "module" /\ pc' # "ready" /\ outcome = NoOutcome
       /\ ~flag /\ ~BeginsStray
     => outcome' \in FreshEnds]_vars

(* The loop of generateModuleContent reads a whole program to its end.     *)
(* (Of other texts that is not so: a statement that is refused without     *)
(* being consumed is tried again for ever.)                                *)
ModuleReachesEnd ==
  pc = "module" /\ inputs = 1 /\ lex.data \in Programs ~> pc = "ready"
-----------------------------------------------------------------------------
(***************************************************************************)
(* What comments and documents say, and the code does not do.              *)
(***************************************************************************)

(* parser.cpp, parseExpression: an assignment is refused with the message  *)
(* "cannot have multiple assignment in a statement".                       *)
RefusedHasTwoAssignments ==
  outcome.refused =>
    \E i, j \in outcome.from .. outcome.upto :
      i < j /\ lex.data[i].text = "=" /\ lex.data[j].text = "="

(* parser.cpp, isPointerCast: "this function expects 3 look ahead tokens". *)
LookAheadInBounds == ~outcome.oob
=============================================================================
