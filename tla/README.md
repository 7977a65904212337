# SSLang, specified and checked

SSLang is a compiler for a small imperative language: a lexer, a recursive-descent
parser, a semantic analyzer and a generator of LLVM IR, run on two test files by
`main.cpp`. This directory models the whole way from the characters of a text to
the files on disk: the lexer, the parser, the symbol table, the semantic analyzer,
the code generator, analyzer and generator one after the other, and the driver
with the optimizer's verification and the object files.

Everything runs in one thread. What makes the program hard to test is state that
outlives the visit that set it (`currentLocals`, `lastValue`, the builder's
insertion point, `currentFunctionReturnType`, the scope stack), two visitors that
resolve names and types each in its own way and interpret every lexeme anew, two
tokens of lookahead, loops that end at a token that may never come,
artefacts written in steps, and failures that are reported on the console while
the compilation goes on with something missing.

## The system

| Part | Source | State | Operations | Depends on |
|---|---|---|---|---|
| Lexer | `src/lexer/Lexer.cpp` | a cursor into the text | `next` | |
| Parser | `src/parser/Parser.cpp`, `src/ast/AST.cpp` | current and next token | `parseProgram` and one function per construct | pulls tokens from the lexer, builds the tree |
| AST | `include/ast/ASTNodes.h` | none after construction | `accept`, `getType`, `toString` | `getType` reads the symbol table |
| Symbol table | `src/symbolTable/SymbolTable.cpp` | stack of scopes, scope counter, functions | `enterScope`, `leaveScope`, `addVariable`, `isDeclared`, `getSymbolInfo`, `addFunction`, `getFunctionInfo` | |
| Semantic analyzer | `src/semanticAnalyzer/SemanticAnalyzer.cpp` | the table, `insideFunction`, `currentFunctionReturnType` | one `visit` per node class | throws at the first node it does not accept |
| LLVM code generator | `src/llvmGen/LLVMCodeGen.cpp` | module, builder, `currentLocals`, `globals`, `lastValue`, `currentFunction` | one `visit` per node class | the tree only; not the symbol table |
| Optimizer | `src/llvmOptimize/LLVMOptimizer.cpp` | none | `optimize`: verify, then the O3 pipeline | throws if the module is invalid |
| Object files | `src/generateMachineCode/genObjFile.cpp` | none | `generateObjectFile` | |
| Driver | `src/main.cpp` | none between files | `runTestForFile`: parse, analyze, generate, write, object file, optimize, write, object file | catches what is thrown, per file |

What makes each part correct:

- *lexer*: the cursor stays in the text, loses nothing between two tokens and
  answers every call; what it promises the parser is `TokenStream`;
- *parser*: it accepts one language, described without lookahead by a grammar,
  keeps every lexeme in its place, builds only trees that the visitors are
  written for, and comes to an end on every text;
- *symbol table*: lexical scoping; a lookup sees the innermost declaration, and
  closing a scope uncovers exactly what it hid;
- *semantic analyzer*: the scopes open at a node are those of the source text
  around it, and what it accepts about types, returns and calls holds for the
  program as written;
- *code generator*: every accepted program becomes a valid module in which each
  statement occurs once, on the variables its author named;
- *driver*: every file is accounted for, artefacts are never newer than those
  they come after, and nothing optimized comes from a module that is not valid.

`PROJECT.json` lists the hazards with their lines and the properties aimed at
them. Several of these promises are broken; see "What the code does not keep".

## Modules

| Module | Models |
|---|---|
| `TokenStream` | what the lexer promises the parser: which kind of token may follow which |
| `Lexer` | `next` and its loops, over characters |
| `Literals` | how analyzer and generator read a lexeme again, by their regular expressions |
| `Tokens` | the kinds of tokens that parser and grammar treat alike |
| `Grammar` | the accepted language as a context-free grammar, without lookahead |
| `Parser` | the parse functions, over any tokens that `TokenStream` allows |
| `ParsedTrees` | what a finished tree is: the text's lexemes in order, in shapes the visitors expect |
| `SymbolTable` | the class as operators from a table to a table, so that an analyzer's action can chain calls |
| `SymbolTableClient` | a client calling every method in any order |
| `LexicalScoping` | what a symbol table promises: a stack of bindings per name, no stack of scopes |
| `SSLangAST` | the nodes in the shapes the parser builds, and `getType` |
| `SemanticAnalyzer` | the visitor that checks |
| `CodeGen` | the visitor that generates, with the module it builds |
| `Compiler` | analysis, then generation, and the properties that relate them |
| `Driver` | runs of `main` over its files, and what they leave on disk |
| `SymbolTableLemmas`, `SymbolTableProofs`, `SemanticAnalyzerProofs`, `LexerProofs`, `DriverProofs`, `CompilerProofs`, `CompilerShapeProofs`, `ParserProofs` | the proofs |
| `MC...` | constants for TLC |

The models meet where the parts of the program do. `TokenStream` stands between
`Lexer`, which implements it, and `Parser`, which assumes no more than it.
`TreesFitTheVisitors` shows that the parser builds the trees of `SSLangAST`, over
which `SemanticAnalyzer` and `CodeGen` are modelled. `Compiler` composes these
two. The ends that `Compiler` has (rejected, threw, crashed, a module that is
valid or not) are the sources of `Driver`.

### How the models correspond to the code

**Lexer.** The text is a sequence of characters with the null character behind
it, `cursor` is `m_beg`, and `method` is the loop under way; an action is one turn
of a loop or one branch of the switch in `next`. A comment is skipped by a loop
and `next` then calls itself, so the kind Comment is never returned. Letters,
digits and unknown characters are represented by a few of each, as no definition
tells two of them apart, and `add(`, `remove(` and the keywords by shorter words
with the same overlaps between a keyword, a method and an identifier. A token is
its kind and the position of its lexeme. A dot that is no method call takes the
next character along; at the end of a text that is the null character, and
`ReadPastEnd` is the undefined behaviour of the next call: any of the kinds in
`Garbage`, without moving.

**Literals.** A `PrimaryExpression` keeps the lexeme and not the kind of its token.
`getType` and `visitPrimaryExpression` of this module are the regular expressions
of `ASTNodes.h` and of `LLVMCodeGen.cpp` in their order. The magnitude of a number
is left out: in `CodeGen` any int or float literal may be one that `std::stoi` or
`std::stof` refuses, a float also for being too small (`ThrowOutOfRange`).

**Parser.** `current` and `ahead` are the two tokens of lookahead; `todo` is the C++
call stack, what each call under way has still to do, and `built` holds the nodes
these calls have begun. An action is one parse function, up to its first `consume`
or call, or one `consume` with the `advance` in it. Where a body is a loop, the
loop is a call to itself. A lexeme is represented by its position in the text.
The next token is any that the text's vocabulary has and `TokenStream` allows
there. Left out are the branches for Comment and the returns of `parseBinary` and
`parseAssignment` for a token on which nobody calls them.

**Programs.** A program is the sequence of its nodes in visiting order; an "end"
node closes a body. The analyzer's model does not start from a given program: at
each step it picks the next node among all that the grammar allows there and
appends it to `ast`, so that one run covers all programs up to the bound. The
parser's four lists become sections that are visited in order: declarations,
statements, expressions, functions and calls.

**Analyzer.** One action per `visit` method. A method that visits a body becomes
an action to the beginning of the body and one for the end (`OpenBody`,
`EndBody`; `VisitFunctionDefinition`, `EndFunctionDefinition`), and `visits` is
the C++ call stack in between. An if statement with an else goes from its then
body to its else body in one step, as the code does. `Throw` is any of the
exceptions: `main` catches it and destroys table and analyzer, so nothing of what
the method did before it is seen. A loop opens its scope and its block another,
in one step, because only the check of the condition lies between them. Types are
the code's own strings: a parameter's type is the parser's lexeme, which is why
`flt` and `float` are different types to the table.

**Generator.** One action per `visit` method, split in the same way; `frames` is
the call stack, with the block to branch back to and the one to go on in.
`evaluateExpression` is the operator `Evaluate`: it has a value and the
instructions it emitted, and the action puts these where the builder is. A
function is a sequence of blocks of instructions; an instruction keeps its
opcode, its variable or callee, the targets of a branch, the node it comes from
and whether its operands are well typed and of the same function. That is what
decides whether LLVM accepts the module, and it does not say what the program
computes. `lastValue`, `currentLocals`, the insertion point and the module's
symbol table, which renames what comes second under a name, are variables.
Every name that a log, a call or a definition puts into that table is in it: the
functions of the C library, and the strings with which values are printed
(`FormatsOf`). A function has a table of its own, in which its entry block comes
first and each parameter is named twice, for the argument and for its alloca.
`LLVMNames` is what they are called then: a parameter called `entry` becomes
`entry1`, and `currentLocals` is keyed by that. How a name with a number behind it is
spelled is the constant `Numbered`. An array with an element that folds to poison is
given up without a global; as the size of numbers is left out, a division of
constants either is poison or is not (`MayBePoison`).
`crashed` stands for a null value that is dereferenced or a load without a block
to go to, `threw` for the one exception the generator throws. LLVM built with
assertions stops at the first ill-typed instruction; the model goes on, as a
release build does.

**Driver.** An action is a stage of `runTestForFile`; what becomes of a source is a
property of the source here, decided in `OpenSource`, as the parser, the analyzer
and the generator have modules of their own. The author may change a file between
two runs; nothing removes artefacts. The text of IR is whole once it is printed,
while an object file is emptied when it is opened and whole after the passes.
`generateObjectFile` does not ask whether the stream opened, and LLVM ends the
process over the error it then finds; a target that was not found is dereferenced;
a target that emits no objects is only reported. The passes that generate code
work on the module itself, before anything has verified it, so that they may crash
on an invalid one, leave it invalid, or leave it valid. Stages are calls that
return; for the parser that is `ParsingEnds`, the others are loops over a tree.

### Not modelled

- LLVM's optimization passes: taken to keep a valid module valid. What its code
  generation does to an invalid module is a choice, as LLVM promises nothing.
- The Visitor interface, which has no state, and the two `codegen` files, which are
  empty.
- `toString`, `printContents` and the wording of messages, which no decision reads.
- The magnitude of numbers and the bytes of strings; the alignment and the value of
  operands. Whether a module is valid depends on none of them.
- Nesting of method calls and assignments beyond what `SSLangAST` says, in the
  models of the visitors. The parser's model has it to the length of its texts.
- Code no program reaches: `visit(AssignmentStatement)` in both visitors, as the
  parser never builds that node; the `currentFunction` branches of the generator's
  declarations, as none is parsed inside a function; the branch of `main` for a
  module that is null. `functionCalls` and `globalStringPointers` are never read.

## What is checked

| Run | Question | Bounds |
|---|---|---|
| `lexer` | does the cursor stay in the text and lose nothing, and who reads a lexeme how? | every text over six alphabets of 4 to 7 characters, up to 5 or 4 characters; two calls after the last token |
| `parser` | is the accepted language the grammar's, are the trees those of the visitors, does every text come to an end? | every text over 13 vocabularies, up to 4 to 13 tokens |
| `symbol_table` | do the counter and the scope numbers kept by hand follow the stack, and is the table lexical scoping? | 2 names, 2 types, 2 functions, 3 scopes |
| `semantic_analyzer` | do scopes and types follow the source text, and what do accepted returns and calls mean? | 2 names, 8 expressions, 4 parameter lists, 4 nodes and their ends, nesting 3 |
| `compiler_flow` | where does code go, and which functions have valid control flow? | functions `foo` and `main` with a parameter `entry`, a global called `main`, two ints and a condition, 6 nodes and their ends, nesting 3 |
| `compiler_types` | where do analyzer and generator agree about names and types, and what becomes of each statement? | 2 variables of any type, one called `entry` and one `entry1`, 2 functions, 5 expressions, a division and a method call as an argument, 4 parameter lists, 5 nodes and their ends, nesting 2 |
| `driver` | what lies on disk after runs that fail anywhere? | 2 files, 3 runs, any source in each run, 3 kinds of host |

The bounds. Every part of the lexer has an alphabet with the characters that it
tells apart. Five characters are enough for the longer method call with what
follows it, an identifier that contains a keyword, a number with a sign, a point
and digits on both sides of it, a string with an escaped quote that is closed, and a
comment that ends at a newline. A vocabulary has the
tokens that one part of the parser tells apart, and its length is that of the
longest production with what can go wrong in it: 13 tokens are a function of two
parameters, 12 an if in the body of an if or one whose two bodies have a statement,
11 a loop over a range with a statement. Texts may end after any token. `MaxNodes`
is the length from which a program gets only "end" nodes, so every program under
the bound is complete. With four nodes the analyzer meets a global, a function
that hides it, a body, a return and a second function or a call. The flow run
needs six for a loop in a branch of a function with statements on both sides, and
only three expressions, an int, a condition and an int without a value, as all that
an expression can do to control flow is to have none: the last is read from the
parameter that LLVM renames, which every function has there. The
types run needs five for a global, a function with a parameter of the same name, a
second function and statements in it; loops and branches are still there, one
deep. Its two variables are `entry` and what LLVM makes of it, so that a parameter is
lost, found under another name or left behind for the next function. No run has a
function with the name of a log's string; the theorems hold with it. Three scopes are two levels of hiding. Three runs of the driver leave an
artefact of an old run beside those of two later ones that failed at different
places. The names of functions are interchangeable in `compiler_types`, which is
its symmetry: no property and no definition tells them apart. The constant
`ResultTypes` limits the return types there to `int` and `flt`, one whose lexeme
is the type and one whose lexeme is not.

What the passing runs show:

- `CursorInText`: no loop overruns the null character; the one way past it is a dot
  that ends the text.
- `NothingLost`, `LongestMatch`: characters are skipped only as space, comment or
  quote, or behind a dot, and none is read twice; of two tokens that touch the
  second could not have been part of the first, and a string ends at the first
  quote that has no backslash before it.
- `LexemesReadAlike`: analyzer and generator agree on every lexeme with two
  exceptions, which it names: a decimal with nothing behind its point, and strings.
- `ImplementsTokenStream`: the lexer implements what the parser's model assumes,
  and answers every call, an unknown character included.
- `AcceptsTheGrammar`: the parser accepts the grammar's language and fails at the
  first token that no text of it has there; no choice by lookahead is a wrong one.
- `StopsAtBadTokens`: the parser consumes neither a dot nor anything unexpected, so
  that what the lexer reads after them is never used.
- `OpenParentheses`: an accepted text leaves exactly the parentheses open that
  follow an equals sign.
- `LexemesKeepTheirOrder`, `TreesFitTheVisitors`: every meaningful lexeme is in one
  list, in the order of the text, and every tree has a shape the visitors expect.
- `ParsingEnds`: no loop of the parser goes round without consuming.
- `TableInvariant`, `ImplementsLexicalScoping`: the table keeps its promise, also
  when the global scope is left and entered again.
- `ScopeDiscipline`: every `enterScope` meets its `leaveScope`.
- `EnvironmentIsLexical`: what the scope stack makes visible is what the text has
  in scope, stated without a stack: parameters of the enclosing function over the
  declarations.
- `ReturnsMatchTheirFunction`: the one `currentFunctionReturnType`, rewritten at
  the first return, never lets a return of another type pass.
- `CallsFollowDefinitions`: an accepted call comes after the only definition of
  its function and has the right number of arguments.
- `GlobalScopeFrozen`: after the declarations no step changes the global scope.
- `InsertPointDiscipline`: while a body is generated the exit block of each
  enclosing loop or branch is reserved, empty, and entered from the condition.
- `TidyFunctionsVerify`: a characterization, both ways, of the functions whose
  control flow is valid: no if without an else, returns only where a branch or
  the function ends, a return at the end of each then body and of each function
  with a loop or a branch. A function that returns a parameter which LLVM has
  renamed is left out, as that return leaves no code, and on the way back also
  bodies with expression statements or such parameters.
- `NamesResolveAsAnalyzed`, `PlainNodesAreWellTyped`: a name is to the generator
  what it was to the analyzer, and the instructions of a node are well typed, if
  its expressions are *plain* (operators on integers and booleans, one assignment
  at a time, no method) and name nothing that is `Misread`: a parameter that LLVM
  has renamed (`Lost`), or another name under which a parameter is filed, of this or
  of an earlier function (`Leaked`). The conditions name what the two visitors
  disagree about.
- `StatementsLoweredOnce`, `CallsInSourceOrder`: plain prints, returns and
  assignments become exactly one instruction, except that assignments to strings
  become none; `main` makes the calls in the order of the source, each to the
  definition it was checked against, unless something has a name that the C library,
  `main` or the strings of a log need (`Clash`).
- `StopsOnlyOn`: a complete list of what makes the generator crash or give up on
  an accepted program, with the literals it converts among it.
- `ArtefactsInOrder`: wherever files fail, no artefact is newer than one that is
  written before it, so an optimized module never lies beside an older unoptimized
  one of the same file.
- `OptimizedIsValid`: what is optimized was verified; the first object file was not.
- `EveryFileAccountedFor`: after a run a file is complete, reported, or not reached
  because the process died; the file it died on shows that.
- `RunEnds`: a run of the compiler ends on any files.

Every property is also run against a slip in a definition it depends on (the
`mutants` of `PROJECT.json`, kept beside the definitions and marked as slips) and
fails there.

### Fairness and deadlock

The program has one thread and its calls return, so the step that is under way is
taken: weak fairness of `Step` in `Lexer`, of `Parse` in `Parser` and of `Compile` in
`Driver`. Nothing is assumed of who calls: neither `Call` of the lexer nor `Start` of
the driver is fair. With it `Lexer` implements the fairness of `TokenStream` (every
call is answered), the parser ends and a run of the driver ends. Analyzer and
generator are loops over a finite tree; their properties are safety properties and
assume no fairness. Every run checks for deadlock: a visitor that can do nothing
before its end would be found, and the steps `Rest`, `Finished` and `Over` are what
the caller does after an end.

## What the code does not keep

Five runs check a sentence of the documentation or of a comment, and TLC finds a
program that breaks it.

| Run | The sentence | What happens |
|---|---|---|
| `documented_operators` | `Documentation.md:61-65`, `:75-76`, "x > y;", "not x;", "-x;" and others | the parser takes the semicolon for an expression and throws (`AST.cpp:287`) |
| `leaked_locals` | `LLVMCodeGen.h:55`, "Current function's local variables" | the parameters of earlier functions stay (`LLVMCodeGen.cpp:914`) |
| `stale_value` | `LLVMCodeGen.cpp:23`, a value representing the expression | a method call has the value of an earlier call (`:1003`, `:791`) |
| `unbranched_if` | `LLVMCodeGen.cpp:410`, then, else and merge blocks | an if without else has no branch (`:417`) |
| `unterminated_loop` | `LLVMCodeGen.cpp:928`, the current block gets a terminator | only the entry block is looked at (`:929`) |

The first of them goes on in the analyzer: without its semicolon an operator
expression is parsed, but as a statement or on its own it is always rejected
(`SemanticAnalyzer.cpp:82`, `:99`), which the theorem `OperatorStatementsAreRejected`
says of all programs. `tests/expression_testing` writes the expressions with the
semicolon too and passes, as its runner calls `parseExpression` alone. Of a parameter
that LLVM renames, or of the names of a log's strings, the source says nothing that
a run could refute; the passing runs and the theorems name them as exceptions.

## What is proved

TLAPS proves these for all constants that satisfy the named assumptions:

- `ClientAssumption` of the table: types and functions are such as it stores, any
  number of scopes;
- `LexemesAssumption` and `ProgramsAssumption`: names, int literals, float literals
  and the words true and false do not overlap, expressions and parameter lists
  are any of those that `SSLangAST` has;
- `CharsAssumption`: the classes of an alphabet are disjoint, keywords are words
  of letters;
- `VocabulariesAssumption`: any sets of tokens, of texts of any length;
- `DriverAssumption`: any number of files and runs.

The bounds of the runs are constants like the others: programs and texts have any
length and nesting.

| Theorem | Property |
|---|---|
| `SymbolTableProofs!TableInvariantHolds` | `TableInvariant` |
| `SemanticAnalyzerProofs!TypeCorrect`, `ScopesFollowVisits` | `TypeOK`, `ScopeDiscipline` |
| `SemanticAnalyzerProofs!GlobalScopeIsFrozen`, `CallsAlwaysFollowDefinitions` | `GlobalScopeFrozen`, `CallsFollowDefinitions` |
| `SemanticAnalyzerProofs!EnvironmentIsAlwaysLexical`, `ReturnsAlwaysMatch` | `EnvironmentIsLexical`, `ReturnsMatchTheirFunction` |
| `SemanticAnalyzerProofs!OperatorStatementsAreRejected` | no operator is accepted as a statement (not a property of a run) |
| `CompilerProofs!GeneratorTypeCorrect`, `InsertPointIsDisciplined` | the types of the generator's state, `InsertPointDiscipline` |
| `CompilerProofs!NamesAreResolved`, `PlainNodesAreTyped`, `StopsAreListed` | `NamesResolveAsAnalyzed`, `PlainNodesAreWellTyped`, `StopsOnlyOn` |
| `CompilerProofs!StatementsAreLowered`, `CallsKeepTheirOrder` | `StatementsLoweredOnce`, `CallsInSourceOrder` |
| `CompilerShapeProofs!TidyFunctionsAreValid` | `TidyFunctionsVerify` |
| `LexerProofs!LexerTypeCorrect`, `CursorStaysInText` | `TypeOK`, `CursorInText` |
| `LexerProofs!LexerKeepsThePromise` | the safety part of `ImplementsTokenStream` |
| `LexerProofs!TokensAreLongest`, `NothingGetsLost`, `LexemesAreReadAlike` | `LongestMatch`, `NothingLost`, `LexemesReadAlike` |
| `ParserProofs!ParserTypeCorrect`, `BadTokensAreNotPassed`, `ParenthesesStayOpen` | `TypeOK`, `StopsAtBadTokens`, `OpenParentheses` |
| `DriverProofs!DriverTypeCorrect`, `GenerationsStayInOrder`, `OptimizedIsVerified`, `NoFileIsForgotten` | `TypeOK`, `ArtefactsInOrder`, `OptimizedIsValid`, `EveryFileAccountedFor` |

That is every property of the `semantic_analyzer`, `compiler_flow` and
`compiler_types` runs, all of the `lexer` and `driver` runs but their liveness, and
all invariants of `symbol_table`.

**Table and scopes.** `SymbolTableLemmas` states once, for each method, that it keeps
a table consistent (typed, the counter equal to the depth, each symbol numbered
with its level) and what it does to the depth. The inductive invariant of the
analyzer is the conjunction `IInv == TypeOK /\ ScopeDiscipline /\ ScopeIdsHold`, the
last of which says that symbols carry the number of their scope (it is no property
of a run, as `TableInvariant` says so of any client),
and none of its parts is inductive alone: `leaveScope` keeps the type only of a
table that has a scope to leave, which is what the depth given by
`ScopeDiscipline` says; that depth is restored at the end of a body only because
`visits` is typed and has its function at the bottom; and the numbers stored by
`addVariable` are levels only while the counter is the depth.

**What the text says.** `SemanticAnalyzerProofs` sorts all steps of the analyzer into
six kinds, by what they do to the table and to `ast` (`Stays`, `Rejects`, `Declares`,
`Advances`, `Defines`, `Ends`; lemma `KindOfStep`), so that each later invariant has
six cases. Calls: `CallsInv` adds that the functions the table knows are the
definitions in the text, one each, and that accepted calls were resolved against
one of them. Scopes: `ScopesInv` says from the bottom up what the scopes hold. The
first is the declaration list, the second the parameters of the last function
definition, those above are empty; no function comes before a declaration. The
last is needed because `ReturnsMatchTheirFunction` reads the types of returns long
past in the table of now. That the return type is that of the enclosing function
holds only up to `NormalizedType`: the first return of a function rewrites it from
the parser's lexeme. Operators: no accepted text has a binary or unary expression
as a statement.

**Generator.** The generator walks the accepted text again, without the table. What it
can rely on is therefore a fact about that text, and `NestingInv`, at the end of
`SemanticAnalyzerProofs`, carries it over:
there is a stack of visits for every position, each the one before it changed by the
node there (`Nested`), and the bodies of the frames are those of the stack at `pos`
(`Reached`). That no "end" comes where the generator has no frame, and none is left
open at the end of the program, follows. `GenInv` adds `Open`: each frame that waits
for a block has one of its own, empty, entered by the condition it belongs to, and
not the one that code goes to. A step then either leaves the frames and puts
instructions where the builder is (`Put` into a block for which nobody waits), or
opens a body with blocks that are new, or closes the innermost. That is
`InsertPointDiscipline`.

The second half of `CompilerProofs` adds what the generator knows of names (`Known`): the locals are
filed under the LLVM names of the parameters of functions that were generated, and
those of the function under way are its own. They need
no assumption about how a name is numbered: a parameter that is not renamed is
filed under its own name (`KeptNameIsFiled`), and what is filed under another name
is `Misread` by definition, so that to prove is that every local comes from a
definition before `pos` (`NoLocalLeaks`). Of the rest, the globals are the declarations that were visited, in the
generator's types; the functions among the symbols are definitions of the text,
and a value that is left over has no code. `AllSane` says of the code put down that
an instruction of a plain node is well typed. It needs `Known` to be about a name at
the time it is evaluated, and `CallsInv` and `ScopesInv` for what the analyzer took
it for. From the same facts follows where the visits may fail (`StopStep`): an
evaluation yields no value, or none that is a constant, only at an expression that
`StopsOnlyOn` names. `LoweredInv` adds that a plain statement that has been visited has
its instruction and no second one. It is inductive with `Behind`, which says that every
instruction is of a node before `pos`: a visit then keeps what is there (`Grown`)
and adds code of its own node only, so that what it adds is all there is of that
node (`PutAddsOne`), while the other nodes have what they had (`OthersKept`). Of
the code it adds, all but the last instruction only read (`Readers`).

`OrderedInv` adds the calls. They are all in the entry of `main`, each after those of
earlier nodes (`CallsInMain`): a visit of a call puts one at the end, and by `Behind`
all that are there are of earlier nodes (`CallGoesLast`). Every plain call of a
generated function is among them (`CalledSoFar`), because its name is taken by then
(`NamesTaken`), not by a global, and all its arguments have values (`CallIsMade`). The
symbols it goes by must also be known when the generator has stopped, where `Known`
says nothing any more.

`CompilerShapeProofs` says what the blocks of the function under way look like
(`BodyShaped`), in two ways that a body cannot have at once. As long as its text is tidy
(`TidySoFar`), every block is closed but for those that a frame waits for and the one
that code goes to (`Settled`), and that one is closed already if a return has just left
it. Once the text is not tidy, the function stays invalid for good (`Broken`): code
follows a terminator, or a block that nobody waits for any more has none. The first
only holds if the returns show in the code, that is, find the names they read
(`Finds`): a return of a renamed parameter is a return in the text alone. The second
only holds if all of the text shows in the code (`Bare`). Why a step keeps this is a
fact about sequences of blocks, stated without the generator's state: `ShapeStep` says
that code is added to the current block, that blocks are new or that one frame is
done, and each visit is shown to be such a step (`ShapesOn`). The end of a function
(`EndShape`) adds the missing ret to the *entry*, which is why a function that branches
must return at its end and one that does not need not. What a function was found to be
then stays (`ShapesKept`), as no later code goes into it; `main` alone is given code
later, and what it is given only reads or calls (`MainShaped`).

The parts of these invariants were checked with TLC as invariants of `compiler_flow` or
`compiler_types` before they were proved. Two proof attempts corrected the model. One
showed that between functions
the insertion point is not that of `main` if a *global* is called `main`, which
the runs had not met as they had no such global (`compiler_flow` has one now, and
`InsertPointDiscipline` says which function it is then). The other, of what a visit of
a call emits (`CallEmits`), showed that two arms of a `CASE` overlapped: the code asks
for the callee before it looks at the arguments, and the model left it open which
comes first, although TLC took the arms in their order. `TypeOfBinary` had the same
fault; the arms of all others exclude each other.

**Lexer.** `TypeOK` and `CursorInText` are inductive together. The refinement needs
what the promise speaks of in terms of the cursor: after an End it is at the null
character, after an Unexpected at what caused it, and after two of them at an
unknown character (`StaysAtStops`). Each step then either does not show in the
promise, or is a `Request`, or returns a kind that takes characters (which the
cursor's place excludes after a stop) or one that stops. `LongestMatch` adds what a
string has passed (no quote without a backslash before it). `NothingLost` adds
that tokens are behind what is being read (`Placed`), so that the characters of two
tokens cannot mix, that a comment under way began with two slashes on its line, and
that what lies behind is accounted for (`Kept`). `LexemesReadAlike` adds how a lexeme is
spelled so far (`SpelledSoFar`), as the loops know it, from which follows what each
of the regular expressions says to it.

**Parser.** One invariant, about the calls that are under way: from the *place* where
the parser stands, the steps in `todo` lead to the end. A place counts the nodes that
have been begun, the parts of the program and the parentheses that have yet to be
closed, and says whether the last token was an equals sign. Each step has places
that it leads from and to; a call leads where the steps that take its place will
lead, so that a parse function keeps the invariant exactly if its steps lead where
its call does. Types follow as no step closes a node that was not begun,
`StopsAtBadTokens` as every step consumes only what it expects, and
`OpenParentheses` from the place at the end.

**Driver.** The three properties are proved with one inductive invariant, which adds
to them how far the file under way has come (`Progress`: the artefacts it has
opened are of this run and whole, the others are older), what is known of the files
before and after it (`Others`) and of one the process died on (`Deceased`), and what
the stages before have let pass (`Filtered`).

Only model-checked:

- liveness, which is out of the prover's reach: `ParsingEnds`, `RunEnds`, and that
  every call of the lexer is answered;
- `AcceptsTheGrammar`, `LexemesKeepTheirOrder` and `TreesFitTheVisitors`: derivations
  and trees of any height are recursive operators, which the prover cannot load;
- `ImplementsLexicalScoping`: its mapping filters the stack with `SelectSeq`, a
  recursive operator of the library.

Where a recursive *function* had to be known for every argument (`CodeOf`, the node
that follows a function), the proof takes the least argument at which it is wrong:
a well-founded set has one (`WFMin` of the library), and that needs no operator as
a parameter.


## Plan

Done: `SymbolTable` with `LexicalScoping`; `SSLangAST`, `SemanticAnalyzer`; `CodeGen`;
`Compiler`; `Lexer` with `TokenStream` and `Literals`; `Parser` with `Grammar`;
`Driver`; the proofs above.

Left: one run of parser and visitors on the same text, which `TreesFitTheVisitors`
stands for now.
