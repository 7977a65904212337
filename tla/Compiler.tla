------------------------------ MODULE Compiler ------------------------------
(***************************************************************************)
(* runTestForFile of main.cpp from the parsed program on: the semantic     *)
(* analyzer walks the program, and if it throws nothing the LLVM code      *)
(* generator walks it again.  The generator keeps names and types of its   *)
(* own, so what the analyzer accepts says something about the module only  *)
(* as far as the two agree.                                                *)
(***************************************************************************)
EXTENDS SemanticAnalyzer

CONSTANT Numbered(_, _)   \* a name with a number behind it

VARIABLES pos, status, globals, currentLocals, functions, symbols, insert,
          frames, lastValue

genVars == <<pos, status, globals, currentLocals, functions, symbols, insert,
             frames, lastValue>>

Gen == INSTANCE CodeGen WITH program <- ast

Analyze  == outcome = "visiting" /\ Next /\ UNCHANGED genVars
Generate == outcome = "accepted" /\ Gen!Next /\ UNCHANGED vars
Over     == /\ outcome # "visiting"
            /\ outcome = "accepted" => status # "generating"
            /\ UNCHANGED <<vars, genVars>>

CompilerInit == Init /\ Gen!Init
CompilerNext == Analyze \/ Generate \/ Over
CompilerSpec == CompilerInit /\ [][CompilerNext]_<<vars, genVars>>
-----------------------------------------------------------------------------
(***************************************************************************)
(* The program as its author sees it: types from declarations and          *)
(* parameters, bodies from braces.                                         *)
(***************************************************************************)
NodesOf(kind) == {i \in 1..Len(ast) : ast[i].node = kind}
EndOf(f)      == Gen!NextItem(f) - 1          \* of a function that is a node
BodyOf(f)     == f + 1 .. EndOf(f)            \* its nodes, its end included

InFunction(k) == \E f \in NodesOf("function") : k \in BodyOf(f)

Environment(k) ==
  IF InFunction(k) THEN [n \in Names |-> LexicalType(n, EnclosingFunction(k))]
                   ELSE [n \in Names |-> GlobalType(n)]

ParameterNames(f) == {f.parameters[i].name : i \in 1..Len(f.parameters)}
OwnParameters(k)  == IF InFunction(k) THEN ParameterNames(ast[EnclosingFunction(k)]) ELSE {}

\* The parameters of node k's function that LLVM has given another name: code for
\* node k does not find them.
Renamed(f) == {f.parameters[i].name : i \in {j \in 1..Len(f.parameters) :
                                              Gen!LLVMNames(f)[j] # f.parameters[j].name}}
Lost(k)    == IF InFunction(k) THEN Renamed(ast[EnclosingFunction(k)]) ELSE {}

\* The names that code for node k finds among the parameters generated so far,
\* those of an earlier function or one's own under another's name, although its
\* author did not name a parameter.
Leaked(k) ==
  {n \in Names \ OwnParameters(k) :
    \E f \in NodesOf("function") :
      f < k /\ Gen!Supported(ast[f]) /\ n \in Gen!FiledNames(ast[f])}

Misread(k) == Lost(k) \cup Leaked(k)

IRType(type) ==
  CASE type = "int"  -> Gen!I32 [] type = "float"  -> Gen!Float
    [] type = "bool" -> Gen!I1  [] type = "string" -> Gen!Ptr

\* Expressions that use only what the generator has code for: operators on
\* integers and booleans, one assignment at a time and not for its value, no
\* method.
PlainOperand(e, env) ==
  CASE e.kind = "primary" -> TypeOf(e, env) # "none"
    [] e.kind = "unary"   -> TypeOf(e, env) \in {"int", "bool"}

PlainBinary(e, env) ==
  LET type == TypeOf(e.left, env)
  IN  /\ PlainOperand(e.left, env) /\ PlainOperand(e.right, env)
      /\ type = TypeOf(e.right, env)
      /\ \/ e.op \in ArithmeticOps /\ type \in {"int", "bool"}
         \/ e.op \in ComparisonOps /\ type \in {"int", "bool", "string"}

PlainSimple(e, env) ==
  CASE e.kind \in {"primary", "unary"} -> PlainOperand(e, env)
    [] e.kind = "binary"               -> PlainBinary(e, env)
    [] OTHER                           -> FALSE

NamesIn(e) ==
  LET operand(o) == IF o.kind = "unary" THEN {o.expr.name} ELSE {o.name}
      simple(s)  == CASE s.kind = "binary" -> operand(s.left) \cup operand(s.right)
                      [] s.kind = "method" -> {}
                      [] OTHER             -> operand(s)
  IN  IF e.kind = "assign" THEN {e.name} \cup simple(e.expression) ELSE simple(e)

Plain(e, k) ==
  /\ IF e.kind = "assign" THEN PlainSimple(e.expression, Environment(k))
                          ELSE PlainSimple(e, Environment(k))
  /\ NamesIn(e) \cap Misread(k) = {}

\* Names that the C library, main or the strings of a log need.
Clash(n) == n \in Gen!Allocators \cup Gen!Formats \cup {"main", "printf"}
NoClash  == \A k \in NodesOf("function") \cup NodesOf("declaration") : ~Clash(ast[k].name)

\* The expressions of a node, and the nodes all of whose parts are plain.
ExpressionsOf(d) ==
  CASE d.node = "for"         -> {d.start, d.end}
    [] d.node = "declaration" -> {d.elements[i] : i \in 1..Len(d.elements)}
    [] d.node = "call"        -> {d.arguments[i] : i \in 1..Len(d.arguments)}
    [] d.node \in {"function", "end"} -> {}
    [] OTHER                  -> {d.expr}

\* The numbers of a node whose value the generator needs.
Converting(k) ==
  LET innermost(e) == IF e.kind = "assign" THEN e.expression ELSE e
      numbers(e)   == NamesIn(innermost(innermost(e))) \cap (IntLiterals \cup FloatLiterals)
  IN  \/ ast[k].node = "declaration" /\ ast[k].type \in {"int", "float"}
      \/ \E e \in ExpressionsOf(ast[k]) : numbers(e) # {}

PlainNode(k) ==
  /\ \A e \in ExpressionsOf(ast[k]) :
       Plain(e, k) /\ (e.kind = "assign" => ast[k].node = "expression")
  /\ ast[k].node = "print" => NoClash
  /\ ast[k].node = "call" =>
       /\ NoClash /\ GlobalType(ast[k].name) = "none"
       /\ \A e \in ExpressionsOf(ast[k]) : TypeOf(e, Environment(k)) = "int"
-----------------------------------------------------------------------------
(***************************************************************************)
(* The module as it has been built so far.                                 *)
(***************************************************************************)
Accepting == outcome = "accepted"
Stopped   == Accepting /\ status # "generating"

Places == UNION {UNION {{<<i, b, j>> : j \in 1..Len(functions[i].blocks[b])}
                          : b \in 1..Len(functions[i].blocks)} : i \in 1..Len(functions)}
InstrAt(p) == functions[p[1]].blocks[p[2]][p[3]]
Lowered(k, op) == {p \in Places : InstrAt(p).from = k /\ InstrAt(p).op = op}
Single(S) == \E p \in S : S = {p}

\* The definitions whose code is complete.
Complete == {i \in 1..Len(functions) : functions[i].node # 0
                                         /\ (i < Len(functions) \/ frames = <<>>)}

BlockIsClosed(block) ==
  /\ Gen!Terminated(block)
  /\ \A j \in 1..Len(block) - 1 : block[j].op \notin Gen!Terminators

ControlFlowIsValid(f) ==
  \A b \in 1..Len(f.blocks) :
    /\ BlockIsClosed(f.blocks[b])
    /\ \A j \in 1..Len(f.blocks[b]) : f.blocks[b][j].to \subseteq 2..Len(f.blocks)

\* Whether a body leaves its function with node i: at a ret, at which the branches
\* that end after it end as well.
Leaves(i) ==
  \E j \in 1..i : /\ ast[j].node = "return"
                  /\ \A m \in j+1..i : ast[m].node = "end" /\ ast[m].of = "else"

\* A node that names no parameter that is lost: without its value a ret or a log
\* leaves no code.
Finds(k) == \A e \in ExpressionsOf(ast[k]) : NamesIn(e) \cap Lost(k) = {}

\* A function that the generator gives a valid shape: no if without an else, a
\* ret only where a branch or the function ends, and a ret at the end of every
\* then body and of every function that has a loop or a branch.
Tidy(f) ==
  LET last == EndOf(f)
  IN  /\ \A i \in f+1..last-1 :
           /\ ast[i].node # "if"
           /\ Leaves(i) => ast[i+1].node = "end"
                            /\ ast[i+1].of \in {"thenElse", "else", "function"}
           /\ ast[i].node = "end" /\ ast[i].of = "thenElse" => Leaves(i - 1)
      /\ (\E i \in f+1..last-1 : ast[i].node \in {"for", "while", "ifElse"}) => Leaves(last - 1)
-----------------------------------------------------------------------------
(***************************************************************************)
(* Properties.                                                             *)
(***************************************************************************)
\* While a body is generated the code goes to the function under way, the block
\* that follows each enclosing loop or then body is still empty, no two bodies
\* wait for the same block, and a loop's condition leads into that block.
\* Between functions there is no insertion point but main's, which is that of
\* the main that was created last where a global of the name hides them all.
InsertPointDiscipline ==
  status = "generating" =>
    /\ frames # <<>> => insert.function = Len(functions)
    /\ frames = <<>> => \/ insert = Gen!NoInsert
                        \/ insert = Gen!EntryOf(IF symbols["main"].kind = "global"
                                                   THEN Len(functions) ELSE Gen!MainIndex)
    /\ \A i \in 1..Len(frames) :
         frames[i].next # 0 =>
           LET blocks == functions[insert.function].blocks
           IN  /\ blocks[frames[i].next] = <<>>
               /\ insert.block # frames[i].next
               /\ \A j \in 1..Len(frames) : frames[j].next = frames[i].next => i = j
               /\ frames[i].back # 0 =>
                    LET test == blocks[frames[i].back]
                    IN  frames[i].next \in test[Len(test)].to

\* Every tidy function has valid control flow when its definition has been
\* visited, however its loops and branches nest, and so has main in the end; a
\* function called main is not counted, as the calls are added to its entry, nor
\* one that returns a parameter which LLVM has renamed.
\* The other way round a function without expression statements and without such
\* parameters in its statements, some of which leave no code, that is not tidy and
\* has no if without an else is invalid.
TidyFunctionsVerify ==
  Accepting =>
    /\ \A i \in {j \in Complete : ast[functions[j].node].name # "main"} :
         LET f == functions[i].node
         IN  /\ Tidy(f) /\ (\A k \in BodyOf(f) : ast[k].node = "return" => Finds(k)) =>
                  ControlFlowIsValid(functions[i])
             /\ (\A k \in BodyOf(f) : ast[k].node \notin {"if", "expression"} /\ Finds(k)) =>
                  (ControlFlowIsValid(functions[i]) => Tidy(f))
    /\ status = "done" /\ NoClash =>
         LET main == functions[symbols["main"].index]
         IN  main.node = 0 /\ ControlFlowIsValid(main)

\* In a function body a name is to the generator what it was to the analyzer,
\* of the type that goes with the analyzer's and in reach of the function,
\* unless it is that of a parameter which LLVM has renamed, or a parameter of
\* this or an earlier function is filed under it.
NamesResolveAsAnalyzed ==
  Accepting /\ status = "generating" /\ frames # <<>> =>
    \A n \in Names \ Misread(pos) :
      LET type == Environment(pos)[n]
          v    == Gen!PrimaryValue(n, insert.function)
      IN  CASE type = "none"  -> Gen!IsNull(v)
            [] type = "array" -> v.type = globals[n]
            [] OTHER          -> /\ v.type = IRType(type)
                                 /\ \A i \in 1..Len(v.code) : v.code[i].ok

\* What the analyzer accepts and is plain yields well-typed instructions only:
\* its types imply those of the module.
PlainNodesAreWellTyped ==
  Stopped => \A p \in Places :
    InstrAt(p).from \in 1..Len(ast) /\ PlainNode(InstrAt(p).from) => InstrAt(p).ok

\* Every plain log, ret and assignment of a generated function has become one
\* call of printf, one return and one store, but for assignments to strings,
\* which become nothing.
StatementsLoweredOnce ==
  Stopped =>
    \A k \in 1..Len(ast) :
      k < pos /\ InFunction(k) /\ Gen!Supported(ast[EnclosingFunction(k)])
              /\ PlainNode(k) =>
        CASE ast[k].node = "print"  -> Single(Lowered(k, "print"))
          [] ast[k].node = "return" -> Single(Lowered(k, "ret"))
          [] ast[k].node = "expression" /\ ast[k].expr.kind = "assign" ->
               LET type == Environment(k)[ast[k].expr.name]
               IN  /\ type \in {"int", "float", "bool"} => Single(Lowered(k, "store"))
                   /\ type = "string" => Lowered(k, "store") = {}
          [] OTHER -> TRUE

\* Main makes the calls of the program in the order of the source, none twice;
\* every plain call of a generated function is among them, and calls the code
\* of the definition that the analyzer checked it against.
CallsInSourceOrder ==
  status = "done" /\ NoClash =>
    LET calls == {p \in Places : InstrAt(p).op = "call"}
    IN  /\ \A p, q \in calls : /\ p[1] = symbols["main"].index /\ p[2] = 1
                               /\ p[3] < q[3] => InstrAt(p).from < InstrAt(q).from
        /\ \A k \in NodesOf("call"), d \in NodesOf("function") :
             ast[k].name = ast[d].name /\ Gen!Supported(ast[d]) /\ PlainNode(k) =>
               /\ Single(Lowered(k, "call"))
               /\ functions[symbols[ast[k].name].index].node = d

\* The generator crashes on an accepted program only at an array initializer
\* that is not made of literals, at a variable on its own outside functions,
\* and at a loop over something that is not plain; it throws only there or at
\* a number.
StopsOnlyOn ==
  Stopped /\ status # "done" =>
    \/ status = "threw" /\ Converting(pos)
    \/ CASE ast[pos].node = "declaration" ->
              \E e \in ExpressionsOf(ast[pos]) : ~Plain(e, pos) \/ NamesIn(e) \cap Names # {}
         [] ast[pos].node = "expression" -> ~InFunction(pos) /\ ast[pos].expr.name \in Names
         [] OTHER -> ast[pos].node \in {"for", "while"} /\ ~PlainNode(pos)
-----------------------------------------------------------------------------
(***************************************************************************)
(* What the source says of itself and does not keep.                       *)
(***************************************************************************)
\* "Current function's local variables" (LLVMCodeGen.h:55): every entry of
\* currentLocals belongs to the function under way.
LocalsAreOfThisFunction ==
  Accepting /\ frames # <<>> => \A n \in Names : currentLocals[n] \in {0, insert.function}

\* The then, else and merge blocks of an if statement (LLVMCodeGen.cpp:410):
\* every block but the entry is the target of a branch.
EveryBlockIsReached ==
  Accepting => \A i \in Complete : \A b \in 2..Len(functions[i].blocks) :
    \E p \in Places : p[1] = i /\ b \in InstrAt(p).to

\* "After visiting all statements, ensure the current block has a terminator"
\* (LLVMCodeGen.cpp:928).  In a function without branches only the block that
\* the builder is left in can lack one.
LoopFunctionsEndTerminated ==
  Accepting => \A i \in Complete :
    (\A k \in BodyOf(functions[i].node) : ast[k].node \notin {"if", "ifElse"}) =>
      \A b \in 1..Len(functions[i].blocks) : Gen!Terminated(functions[i].blocks[b])

\* evaluateExpression returns a value "representing" its expression
\* (LLVMCodeGen.cpp:23): no value of an earlier node is left in lastValue when
\* the next evaluation starts, so none can be taken for it.
EvaluationStartsFresh ==
  Accepting /\ status = "generating" /\ pos <= Len(ast)
    /\ (\E e \in ExpressionsOf(ast[pos]) : e.kind = "method") => lastValue = Gen!Null
=============================================================================
