# A verification of babycpp

babycpp compiles a small C-like language to LLVM IR. This directory holds TLA+
models of its front end, its memory management, its code generation and the
sessions of the program around them, the TLC instances that check them, and
proofs that TLAPS checks. The reference is the code: every
definition that stands for code is listed with its lines in `PROJECT.json`
under `map`.

## 1. The system

| component | code | state | operations |
|---|---|---|---|
| Lexer | `src/core/lexer.cpp`, `include/core/lexer.h` | text, `start`, current token, look-ahead deque, line and column | `initFromString`, `gettok`, `lookAhead` |
| Parser | `src/core/parser.cpp`, `include/core/parser.h` | the flag `processed_assigment` | one recursive descent method per construct |
| Diagnostic | `include/core/diagnostic.h` | a queue of issues | `pushError`, `getError`, `printAll`, `clear` |
| SlabAllocator | `src/core/slabAllocator.cpp`, its header | a vector of slabs, a pointer into it | constructor, `alloc`, `clear`, destructor |
| FactoryAST | `include/core/factoryAST.h` | the nodes made, the allocator | `allocASTNode`, destructor |
| AST code generation | `src/core/AST.cpp`, `include/core/AST.h` | IR builder, basic blocks, `namedValues` | one `codegen` per node |
| Codegenerator | `src/core/codegen.cpp`, its header | lexer, parser, factory, diagnostics, `functionProtos`, `variableTypes`, module | `initFromString`, `generateModuleContent`, `printDiagnostic`, type unification |
| REPL | `src/repl/repl.cpp` | a static and an anonymous module, the JIT | `loop`, `lookAheadStatement`, `handleExpression`, `handleFunction` |
| JIT | `src/jit/jit.cpp` | the modules added | `addModule`, `removeModule`, `findSymbol` |
| Maya node | `examples/mayaNode` | a host program's node | drives a Codegenerator |

The program has one thread. A Codegenerator owns one of each of the lexer, the
parser, the factory and the diagnostics, which point at each other. The host (a
compiler run, the REPL, the Maya node) gives it a text with `initFromString`,
then either loops over the statements of a module or parses one line; the
parser pulls tokens from the lexer, sometimes looking ahead, makes nodes in the
factory, pushes diagnostics, and the tree it returns generates code.

What is hard here is not concurrency but history: state that survives a failed
step and changes the next one. The look-ahead deque, the three token fields
`lookAhead` restores by hand, the assignment flag, the bump allocator whose
current slab points into a vector that moves, objects whose destructors run
explicitly in memory with an owner of its own, and null results that some
callers test and some do not. Code generation adds its own: the insert point of
the builder, which every construct hands on to the next; `namedValues` and
`functionProtos`, which outlive functions and texts; functions that failed half
way and stay in the module; flags of a node that its constructor leaves unset;
datatypes and pointer flags that mirror the types of LLVM values and are
updated by hand. `PROJECT.json` lists each hazard at its line.

What makes each component correct:

- **Lexer**: tokens are handed out in the order of the text, none lost,
  repeated or moved, whatever is looked ahead; the position shown is that of
  the current token, at least when no token is looked ahead.
- **Parser**: what it accepts is bracketed, grouped by precedence and says what
  the text says; it never logs for what it accepts; what it refuses is
  explained; a statement consumes its tokens, so that the loops end; a text is
  read as if it were the first.
- **SlabAllocator**: objects are disjoint and live, blocks are deleted once.
- **FactoryAST**: each node is destroyed once, before its memory goes.
- **Code generation**: each basic block ends in one terminator, and the graph
  of blocks runs the statements the program says; a function is accepted
  exactly when it is well typed; its code is about its own variables; a call is
  checked against the type of what it calls; what was accepted stays.
- **REPL and JIT**: whatever lines come between, each function defined is
  served with its code, and expressions leave nothing behind.

## 2. The modules

| module | models | about |
|---|---|---|
| `LexerOps` | the lexer as operators on a record | `Gettok`, `Scan`, `initFromString` |
| `TokenStream` | what `lexer.h` promises | a cursor over a text |
| `Lexer` | the lexer as a state machine | one step per turn of the loop of `lookAhead` |
| `ParserOps` | every method of `Parser` | operators on a parse state |
| `Parser` | the front end over several texts | module loop and REPL lines |
| `ParserTrees` | no code: what the trees of `Parser` say of their texts | the properties that are recursive over trees |
| `Arena` | the interface `Allocator` | disjoint regions |
| `SlabAllocator` | the bump allocator | vector storage, heap blocks, objects |
| `FactoryAST` | the factory, on top of `SlabAllocator` | construction and destruction |
| `Blocks` | `llvm::IRBuilder`, basic blocks and `verifyFunction`; what `IfAST`, `ForAST` and `FunctionAST` emit around their children | operators on the body of a function |
| `Structured` | what a program of statements, ifs and fors means | the abstract specification of the generated code |
| `ControlFlow` | `FunctionAST::codegen` on one body, then a run of it | one action per event of the recursive walk |
| `CodegenOps` | every `codegen` method, and what it uses of `Codegenerator` | operators on the state of a Codegenerator |
| `Typing` | which functions are well typed | a judgement on trees, the reference for `CodegenOps` |
| `Compiler` | the compiler and the REPL with its JIT over several texts | `Parser` and `CodegenOps` composed |
| `CompilerTyping` | no code: what `Compiler` accepts against `Typing` | the comparison, which is recursive over trees |
| `LexerOpsProofs`, `LexerProofs`, `SlabAllocatorProofs`, `FactoryASTProofs`, `ControlFlowProofs`, `ControlFlowRuns`, `ParserProofs`, `CompilerProofs` | | theorems |
| `MCLexer`, `MCParser`, `MCSlab`, `MCFactory`, `MCCompiler` | | instances for TLC |

`Lexer` and `ParserOps` both use `LexerOps`; `Parser` uses `ParserOps`, and
`ParserTrees` extends `Parser`; `FactoryAST` extends `SlabAllocator`;
`ControlFlow` and `CodegenOps` use `Blocks`; `Compiler` extends `Parser`
and `CodegenOps`, and `CompilerTyping` extends `Compiler` and `ParserTrees` and
instantiates `Typing`. `Lexer` implements
`TokenStream`, `SlabAllocator` implements `Arena` and `ControlFlow` implements
`Structured`, each by an INSTANCE with a refinement mapping.

### How state and actions correspond to the code

**LexerOps, Lexer.** A text is a sequence of lexemes, one per match of the
regular expression, each of a class that decides what `gettok` does with it:
the characters of a lexeme matter to no property, the branch it takes does.
`start` is a position in that sequence (0 for the null pointer). `Scan` is the
part of `gettok` behind the buffer: skipping newlines, then keyword, number,
malformed number, identifier, end, or no match. Line and column are counted
there, so that they run ahead of the current token while others wait in the
deque: `lexer.h:131` plans a `columnOffset` that a token adds "once we processed
it", and the TODO at `lexer.cpp:151` calls the 0 passed for it wrong. The model
has this behaviour; that diagnostics show such a position is a known fault of
the code, and `PositionSettles` says how far it goes: once the deque has
drained, the position is that of the current token. Two things the code does
without saying so are kept: a literal out of range throws out of `gettok` after
`start` has moved, and a lexeme that no branch handles changes nothing at all,
so that the same token is current again. A `MovableToken` carries a history
field `after`, the position scanning goes on from.
In `Lexer` a look-ahead is a sequence of steps, with the locals `count`, `temp`
(tempBuffer) and `saved`; nothing else can run between them, but the invariants
about the two buffers are stated at each turn. `Contract` translates no line of
the lexer but is an assumption about its callers: a text has been given, and no
fewer tokens are asked for than are buffered. That those in `src/` keep it is
the invariant `LookAheadOrderly` of `MCParser`. Without it tokens change
places: asked for one token while two are buffered, `lookAhead` takes the first from the front of the deque and puts it
back behind the second. No caller in `src/` does this.

**ParserOps, Parser.** A method is an operator on a parse state: the lexer, the
flag, the diagnostics, the node returned. The methods call each other through
the constant `Call`, to which they give the name of a method and its parameter;
what a call does is `Dispatch`, and the configurations close the recursion with
`Call <- Dispatch`. So no operator of these modules is declared RECURSIVE, and
they can be proved about. A state has the `room` that is left on the stack,
`MaxCalls` at first, which each call in progress takes one of; the two loops
over statements and arguments and that of `parseBinOpRHS` are calls too, so
that a turn takes room as well. Without room the program dies with the fault
"stack". `nullptr` is sticky: after an early
return, `Eat`, `Expect`, `Give` and the other methods change nothing, and what
a caller logs about a null callee is `Blame`. Where the code goes on after a
null (the semicolon test of `parseStatement`, the closing bracket of
`parseParen`, the flag reset in the for header) the operator does so too. The ways a
parse can end the program are values of `fault`: an exception, a null
dereference (`return` of a bad expression), an overflow of the stack (by endless
recursion, when `(` comes before a lexeme `gettok` stands still on), and a read
of the look-ahead deque out of bounds, which reads one of the patterns of
`Garbage` or faults. In `Parser` a text is read as a module (`ModuleStatement` per turn of the loop) or as a REPL
line (`ReplIgnore`, `ReplExpression`, `ReplFunction`); the lexer, the flag and
the diagnostics survive from text to text. What code generation makes of the
trees is the business of `Compiler`; in `Parser` alone the REPL may die of it.

**SlabAllocator.** The vector of slabs is a sequence with a capacity and a
storage number that changes when the vector moves; `currentSlab` is a storage
number and an index, so that a dangling pointer is a state. Heap blocks come
from a set `Blocks`, any one that is not live, so that a deleted block can come
back. `objs` is a history variable: the memory handed out and not taken back.
`alloc` is one action with its two branches; the destructor is `clear`, then
the deletion of the first slab.

**FactoryAST.** `allocASTNode` allocates, constructs and remembers; the
destructor's loop is one step per node, and `EndDestroy` the destruction of the
members after it.

**Blocks, ControlFlow, Structured.** A body is the sequence of its blocks in
the order of `BasicBlock::Create`, the set of those inserted into the function,
and the insert point. An instruction keeps its operation, where it branches to
and what it is about. In `ControlFlow` the recursion of `IfAST::codegen` and
`ForAST::codegen` is a stack of frames, with the locals that are used again
(the else, merge and afterloop blocks), so that the events of the walk are
actions and bodies of any shape arise without trees being given. What was met
of the program is gathered on the side. After `verifyFunction` the body can be
run; `todo` follows the run event by event with the meaning `Structured` gives
to the program, and becomes `Stuck` if the run does what the program does not
say. So a step of a run is a step of `Structured`, or the refinement fails.

**CodegenOps.** A state `g` has the modules, the prototypes, the variables with
the function that owns each, scope and insert point, what the last `codegen`
returned (the LLVM type of the value) and what it left in its node (`datatype`,
`isPointer`). A method that generates several children is a chain of operators,
one for what it does after each child, which is the order in which a failure
leaves things half done. The methods call each other, and a loop over
statements or arguments its next turn, through the constant `Gen`, which the
configurations close with `Gen <- GenDispatch` as they close the parser's
`Call`; each call in progress takes one of the `room` on the stack (fault
"stack" without it). `torn` is a history of the functions that another function
was defined in the middle of: the builder ends up in the inner one, and what is
left of the outer one goes there. Undefined behaviour (a null or foreign value given to
LLVM, a builder in an erased block, code compiled by the JIT that does not
verify) stops the model with a `fault`. `flags.isNull` of a node that no
constructor set is chosen for each statement (`StaleBits`, the kinds of nodes
that can have it unset; of prototypes, those `handleExpression` makes, since
the parser sets the flag of the others). Builtin functions are those of the
compiler's host; the REPL's Codegenerator loads none. A node that is generated twice, the
condition of a for, is generated as if it were the first time.

**Typing.** The judgement knows types of the language where the code has three
notions of a type side by side. It answers `?` where the flags of a node are
known not to tell its type any more (a dereferenced pointer stays a pointer,
the result of pointer arithmetic does not become one, nullptr has no type of its own).

**Compiler.** `CompileStatement` is a turn of `generateModuleContent`,
`CompileFunction` and `CompileExpression` are `handleFunction` and
`handleExpression` whole: the dummy function, the final one, the module added
to the JIT and removed again, the functions erased. The JIT is the sequence of
modules added, each as it was then. `loose` is a history of the functions that
got code they are not about: statements outside functions, which go on where
the builder was left, and functions torn by one nested in them. The kinds of
nodes in a tree, which decide the flags that can be unset, are the constant
`Kinds` (`KindsOf` of `CompilerTyping` in the configurations): it walks a tree.

## 3. What TLC checks

| run | expected | question |
|---|---|---|
| `MCLexer` | pass | order, transparency of look-aheads that succeed, and the position once no token waits, under the contract; refinement of `TokenStream` |
| `MCLexerTransparent` | violated | does looking ahead leave the next token to be read as it was, as `lexer.h` says? (one that fails loses it) |
| `MCSlab` | pass | the allocator's invariants; refinement of `Arena` |
| `MCFactory` | pass | lifetimes of nodes and memory |
| `MCParser` | pass | sentences, their edits and sessions of three texts: what is accepted, refused and faulting; independence of history; the module loop ends |
| `MCParserRefusedTwice` | violated | does a refused assignment mean two? |
| `MCParserAheadBounds` | violated | are look-ahead tokens read only where there are some? |
| `MCControlFlow` | pass | which bodies the verifier accepts; refinement of `Structured` for bodies without the two defects below |
| `MCControlFlowLoops` | violated | does a loop repeat its body? |
| `MCControlFlowReturns` | violated | does a return return? |
| `MCCompiler` | pass | is what is accepted what is well typed; functions, variables, signatures and the JIT over sessions |
| `MCCompilerNull` | violated | is only nullptr generated as a null pointer? |

The violated runs are the `findings` of `PROJECT.json`, each with the line of
code and the line of documentation it contradicts. `MCControlFlow` leaves out of its runs
functions with control flow inside a loop (`Nested`) and with a return inside a
branch or loop (`Buried`); the two violated runs let them in, one each. All
bodies are still built and judged by the verifier in `MCControlFlow`.

Each property of a passing run has a mutant: a definition that models code is
replaced by a wrong version (kept next to it in the module, commented as wrong)
and the property must fail.

### Bounds

- `MCLexer`: every text of up to two lexemes over eight lexemes that cover all
  classes, every text of three over word, number and newline, and three longer
  texts, from which a look-ahead of three (the longest in `src/`, `MaxAhead`)
  leaves something. Texts follow each other without limit.
- `MCSlab`: five heap blocks, slabs of four bytes, requests of one to three:
  the vector moves at the first, second, third and fifth slab, slabs
  are left with zero, one or two bytes, and blocks come back after `clear`.
  `MCFactory`: four blocks of three words and nodes of one and two words.
  The supply of blocks ends; nothing in the code bounds it.
- `MCParser`: fifteen sentences that use every construct, with every prefix,
  every removal of a lexeme and every replacement of a lexeme by one of
  eighteen, and all expressions with three operators, each as the first text;
  then up to two (`MaxInputs` 3) of fourteen short texts that leave the flag,
  the deque or the token behind. The module loop is checked on the unedited
  sentences (`Programs`) too. `MaxErrors` 3 diagnostics are remembered, later
  ones dropped; no decision of the code reads them. `MaxCalls` is 30, more than
  any text of the instances needs (20 calls at once are enough), so that only
  the endless recursion before a stray lexeme uses the room up, as it does
  however much there is. `MCCompiler` has the same, for the calls of code
  generation as for those of the parser: no tree of the run uses it up.
- `MCControlFlow`: every body of up to five statements and constructs
  (`MaxNodes`) nested up to three deep (`MaxDepth`), which has an if or a loop
  in every branch of another, at the start, in the middle and at the end. What
  the verifier says is proved for every body (below).
- `MCCompiler`: about 3700 functions, each of 269 small expressions over five
  variables of the five types in each of fourteen contexts (returned, stored,
  conditions, arguments), and functions of control flow around definitions, as
  the first text; then up to two of 24 session texts, for the compiler and the
  REPL. Of the functions, some 140 are accepted, 2600 refused, and for some 900
  `Typing` answers `?`.
- `Garbage`: eleven patterns, one for each way the parser can take what it
  reads past the deque.

`CHECK_DEADLOCK FALSE` is set in every configuration: the system really stops,
when an exception ends the program, when the allocator is destroyed or its
blocks are used up, and when the texts are.

### Fairness

Only `MCParser` checks liveness (`ModuleReachesEnd`). `FairSpec` is weak
fairness of the next turn of the module loop: a behaviour in the loop takes
turns for ever or leaves it, which is what a while loop without blocking calls
does. It says nothing of progress: a turn may change nothing, and the model
then turns for ever (as it does when each turn reads from a copy of the lexer,
the mutant of this property). The texts it is about are sentences of the
language, since the loop of the code does not end on a statement that is
refused and not consumed.

## 4. What is proved

All theorems hold for every value of the constants that satisfies their named
assumptions (`InputsAssumption`, `MaxAheadAssumption`, `DisciplinedAssumption`,
`SlabSizeAssumption`, `SizesAssumption`, `SizeofAssumption`,
`BoundsAssumption`, `TextsAssumption`, `ModesAssumption`, `GarbageAssumption`,
`MaxCallsAssumption`), which TLC evaluates in the runs. Where a theorem has a
hypothesis of its own it is explained with it: `Disciplined` of the order of
tokens, `~Nested, ~Buried` of the refinement of `Structured`, `Recursion`
of those about the parser, `ParseRecursion` and `GenRecursion` of those about
the compiler.
Theorems of the model are theorems about the code only as far as the model is
faithful.

**SlabAllocatorProofs.** The inductive invariant `Inv` joins the type
invariant, the relation of the vector to its capacity, and the four parts
TLC checks: `CurrentSlabValid`, `SlabsOwnHeap`, `ObjectsInSlabs` and
`ObjectsApart`. None of them is inductive alone. That an object bumped from the
current slab is apart from the others needs that the others end below the stack
pointer (`ObjectsInSlabs`) and that no two slabs share a block
(`SlabsOwnHeap`); that a new slab's block is fresh needs that the live blocks
are those of the slabs; that the bump hits the last slab needs
`CurrentSlabValid`. There is one lemma per action, `AllocInv` from `BumpInv`
and `SpillInv`. From it: `TypeCorrect`, `CurrentSlabNeverDangles`, `HeapOwned`,
`ObjectsLive`, `ObjectsDisjoint`, then `MemoryAccounted` (`WasteBounded` and
`NoHoles`, which need the accounting lemmas on top of `Inv`), and `Refinement`:
each `alloc` is an `Alloc` of `Arena`, since what is handed out is apart from
all there is.

**FactoryASTProofs.** Each step of a factory is a step of its allocator or
leaves it alone (`FactorySteps`), so `Inv` holds of the allocator inside. On
top of it `Lifetimes` is inductive: until the destructor is done the memory
handed out is exactly that of the nodes in `ptrs`, each apart from the others;
afterwards there is none, and the destructor's loop has passed the last node.
`AllocHandsOut` takes from the refinement of `Arena` that an allocation adds
one new object. From it: `NodesNeverDangle` and `DestroyedOnce`.

**LexerOpsProofs** has no theorems about behaviours but the lemmas about
`gettok` the others use: where the skipping of newlines stops and that it is
idempotent, that scanning stays in the text, that an end token stays an end
token when read again, and what popping and scanning do to the record.

**LexerProofs.** For any callers, `Base` (types, an end token is never pending,
the locals while a look-ahead runs) is inductive and gives `TypeCorrect`,
`NoEndPending` and `FailureEmpties`: a look-ahead can only fail on a token it
has scanned, so the deque was empty. Also for any callers
(`ScannerCounts`), line and column count the lexemes before `start`, whoever
scanned them. Under the contract (`Disciplined`) `Order`
is inductive on top of `Base`: the chain of current token, `temp` and deque
follows the text, the lexer's own token is the last of it while a look-ahead
runs (`LookingAtLast`), and a look-ahead drains the deque before it ends. The
reason the contract is needed is `LookAheadDone`: pushing `temp` at the back
keeps the chain only if the deque is empty by then. From it: `TokensInOrder`
(the invariants `PendingInOrder` and `BufferDrains`), `PositionsSettle` (when
no token waits, the place of the scanner is that of the current token),
`SuccessIsTransparent` and `Refinement`. `LookAheadStaysOrderly` of
`ParserProofs` says that the parser keeps this contract.

**ControlFlowProofs.** Two theorems about bodies of any length and nesting:
`TypeCorrect`, and `VerifierPredicted`: `verifyFunction` accepts exactly the
functions in which every if has an else and the return is the last statement
(or that are void and have none). The bounds `MaxNodes` and `MaxDepth` are any
numbers. The invariant `Underway` has three parts. `FramesOK` says that each
construct in progress owns its else, merge or afterloop block alone. `Sane`
relates the body to the blocks owned: these are empty and no builder's, every
block left behind is closed (unless code followed a return or an if had no
else, when the body keeps a block that is not), branches go to blocks that are
in the function or owned. And after a return no construct begins that is not
counted as late. Each piece of control flow is then one of three moves of the
builder, a lemma each: it works in its block (`Works`, `Returned`), closes it
with a branch and goes on in an empty one (`Jumps`), or leaves it empty
(`Drops`). There is one lemma per action, and `Judged` reads the verdict off
the invariant.

**ControlFlowRuns.** `Refinement`: for bodies of any length and depth
without the two defects (`~Nested`, no control flow inside a loop, and
`~Buried`, no return inside a branch or loop, the cases the violated runs
`MCControlFlowLoops` and `MCControlFlowReturns` refute), `ControlFlow`
implements `Structured`: each step of a run is the step the program does next.
The argument labels each position of the code, an instruction or the end of a
block, with what is left of the program when it is reached. A labelling is in
order (`Flow`) if every instruction leads from its label to the label of where
it goes on. For the finished function that gives the theorem, since `todo` is
the label at `at` all along a run. While the function is built, the labels
depend on source that is not met yet: `Future` is a guess of what is still to
come of each open construct, and `Explained` says that for every future there
is a labelling that starts with the whole program, has the rest of it at the
insert point and the right rest at the blocks that open constructs own. There
is one lemma for each event of the walk, and `RunsInv` joins this (`Walk`) to
the invariant of `ControlFlowProofs`. As it quantifies over all futures and
labellings TLC cannot evaluate it; what TLC checks is the refinement.

**ParserProofs.** For any texts and histories of texts, whatever garbage lies
past the deque and however much room the stack has: `TypeCorrect`,
`LookAheadStaysOrderly`, `AcceptsSilently`, `EndsAtBoundary`,
`ReportsFailedLookAhead`, `ExplainsRefusal` and `IndependentOfHistory`. The
hypothesis `Recursion` says what the configurations say, that `Call` is
`Dispatch` (wherever the room is a number). It defines `Call` rather than restricting it: every call made by a
method has less room than the call of the method, so that there is such a
`Call`, and it is the only one.
The proofs are of the contract style. `Underway(s, n, d)` is what holds of a
state all through the parse `d` of a text: nothing is logged until the parse
fails, one that failed says why, after a look-ahead that failed the parse has
failed or stands at the end of the text, no look-ahead was asked for less than
is buffered, and without stray lexemes the parse never moves back. `OnCourse`
adds that a tree is not returned after a look-ahead that failed, which is only
true at the end of a method; that a failed look-ahead is always noticed takes
that at the end of the text no method that goes on finds a token it accepts.
Each method has a lemma that it turns `Underway` into `OnCourse` if its calls
do, and `AllOnCourse` is the induction over the room (as the least number for
which it fails, since the induction rules of the library cannot be used).
A second contract on top of it (`Finished`, `CallsFinish`) says where methods
stop: a statement behind its semicolon or closing brace, a block at its
closing brace, and that nothing but a function definition or a declaration
makes a node that a statement takes for a function, which is what decides
whether a semicolon is asked for. The invariant of the front end (`Inv`) then
only has to carry that a text being read is in a lexer that can read it.

`IndependentOfHistory` (the property `HistoryIndependent`) compares two parses
of a text, one by the lexer in use and one by a new one. Their states are
`Twins` if they differ only in their lexers, and these are `Alike` if they
stand in the same place of the text and their tokens differ at most in a number
kept from an earlier literal. No method reads that number unless the token is a
number, and then it is its own: so every small step, and every method if its
calls do, takes twins to twins, and `AllTwins` is once more the induction over
the room. Twins are what the first `gettok` leaves when the text begins with a
word. When it begins with a number, or with what cannot be read, the last
identifier of an earlier text is still there and the lexers are not alike; but
no statement begins so, and it is refused before the identifier is looked at
(`UnwordedStatement`). A stray lexeme leaves the old token current: that is the
exception the property makes. The invariant (`AtFirst`) says that a module of
which nothing has been parsed is in a lexer as the first `gettok` left it.

**CompilerProofs.** For any texts, sessions, literals and unset flags, and
however much room the stack has: `GenTyped`, `OwnValuesHold`, `SignaturesHold`,
`JitServes` and `DefinedStaysAlways`, all five properties of `MCCompiler` but
`TypingDecides`. Two hypotheses say what the configurations say: `Call` is
`Dispatch` and `Gen` is `GenDispatch`, wherever the room is a number. As for
the parser they define the two constants, since every call has less room than
its caller. Nothing is assumed of `Kinds` and `StaleBits`.

The inductive invariant is `CompilerInv`, of three parts.
- `GenInv` is about the Codegenerator between two statements: the shape of its
  state (`State`), that bodies are in order (`InOrder`: the insert point is one
  of the blocks placed), that variables and scope belong to functions that
  exist or were functions of the anonymous module (`Lasts`), that for a module
  the insert point does (`Belongs`), and that functions have the types of their
  prototypes (`Agree`, with the names an extern redeclared left out).
- `OwnInv`: every function with a body that is not loose is about its own
  values only (`Own`).
- `JitInv`: each module of the JIT holds, of each function, no body or the
  present one, and each function is in one of them. Served is then the least
  of the modules with a body (`LeastNat`).

None of the properties is inductive alone. That a function keeps its code while
others are generated depends on where the builder is; that its instructions
are about its own values, on every variable being of the function of the insert
point, which entering a function brings about by replacing `namedValues`, and
which fails where a function is defined inside another or code stands outside
functions. These two are what `torn` and `loose` record, and why `OwnValues`
and `DefinedStays` exempt the loose functions. That the JIT serves the present
code needs that code never changes: the same step (`Stays`) gives
`DefinedStays`.

Most of the proof is the contract of code generation. `Delivers(g, h)` says
what a method started in `g` may leave in `h`: a state in order with the
builder in a block (`Good`), nothing touched but the function of the insert
point and functions that are torn (`Touches`), and, unless that function is
torn, that its instructions and all variables are still its own (`Owning`). It
is transitive, so that each method, which is a chain of operators, has one
lemma per link that says the link delivers if the calls with less room do, and
`AllDeliver` is the induction over the room, as a least counterexample. `Made`
is the contract of a whole tree, which also says that the function it defines
is about its own values. The nodes `codegen` is given must be trees, with
children where their method looks for them. That the parser yields only such
trees (`AllYield`, `EndsYield`) is proved by the same induction for `Call`. No
induction over trees is needed for it: a node is a `Tree` if it is in a set of
nodes that holds the children of its nodes (`Forest`), and a new node is added
to the forest of its children.

**Not proved.**
- Of the parser, `Bracketed`, `TreeSpellsText` and `OperatorsGroup`: they
  say what trees of any depth have to do with their texts, by recursion
  over trees (`ParserTrees`), and a proof would need induction over such data.
- Of the compiler, `TypingDecides`: `Typing` is recursive over trees of any
  depth, and so is the agreement with it.
- Liveness (`ModuleReachesEnd`) and ENABLED, which this prover does not do.

## 5. What is not modelled

- The regular expression itself, and the characters of a lexeme; `columnNumber`
  counts lexemes. `std::bad_alloc`.
- The wording of diagnostics, and the line and column they carry. That the REPL
  never drains the queue is capped (`MaxErrors`).
- The values of constants and arithmetic on them, the signedness of conversions
  and comparisons (the code converts an int with `UIToFP`), the names of LLVM
  values, the allocas as instructions.
- What LLVM does beyond what `Blocks` says of its builder and verifier: its
  optimisation passes, ORC's layers below `addModule`, `removeModule` and
  `findSymbol`, the resolver of symbols.
- That code generation updates the nodes it visits: the condition of a for,
  generated twice, is generated from the tree as parsed.
- The name of a pointer definition may be any token (`parser.cpp:365`). The
  model has the behaviour; only a comment says what it should be.
- The Maya node, which needs a proprietary host; tests, build files and
  vendored code.

## 6. What could follow

1. The datatypes that a second code generation of a for's condition sees.
2. Typing of the expressions that are `?` today, once the code gives a
   dereferenced pointer the type it points at.
