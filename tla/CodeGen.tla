------------------------------ MODULE CodeGen ------------------------------
(***************************************************************************)
(* LLVMCodeGen (src/llvmGen/LLVMCodeGen.cpp): the visitor that walks an    *)
(* accepted program and builds an LLVM module through one IRBuilder.       *)
(*                                                                         *)
(* A function is a sequence of basic blocks, a block a sequence of         *)
(* instructions.  An instruction keeps what decides whether the module is  *)
(* valid: its opcode, the variable or function it names, the blocks a      *)
(* branch may go to, the node it comes from, and ok, which is FALSE when   *)
(* an operand has the wrong type or belongs to another function.  An LLVM  *)
(* built with assertions stops where such an instruction is created; one   *)
(* built without goes on, as the model does.                               *)
(***************************************************************************)
EXTENDS SSLangAST, FiniteSets

CONSTANT Numbered(_, _)   \* a name with a number behind it, which is a name too

VARIABLES program,        \* the nodes in visiting order; never changed here
          pos,            \* the node that is visited next
          status,         \* "generating", "done", "threw" or "crashed"
          globals,        \* variable name |-> value type of its global
          currentLocals,  \* name |-> function that holds the alloca filed under it
          functions,      \* the functions of the module that have a body
          symbols,        \* the module's symbol table
          insert,         \* the builder's insertion point
          frames,         \* the visits under way, outermost first
          lastValue       \* what the last visit of an expression left

vars == <<pos, status, globals, currentLocals, functions, symbols, insert,
          frames, lastValue>>
-----------------------------------------------------------------------------
(***************************************************************************)
(* Types, values and instructions.  Only parameters are local variables,   *)
(* and only those of type int get this far, so every alloca is an i32.     *)
(***************************************************************************)
NoType == <<"none">>
I32    == <<"i32">>
I64    == <<"i64">>
Float  == <<"float">>
I1     == <<"i1">>
Ptr    == <<"ptr">>
Void   == <<"void">>
Bytes  == <<"bytes">>           \* the array of i8 that holds a string
ArrayOf(n) == <<"array", n>>    \* of i32

IntegerTypes == {I32, I1}

\* Slips: a return type and a variable's type that are taken for int.
ReturnTypeInt(keyword)   == I32
GlobalValueTypeNoBool(d) ==
  CASE d.type \in {"int", "bool"} -> I32 [] d.type = "float" -> Float
    [] d.type = "string" -> Bytes [] d.type = "array" -> ArrayOf(Len(d.elements))

ReturnType(keyword) ==
  CASE keyword = "int"  -> I32 [] keyword = "flt" -> Float
    [] keyword = "bool" -> I1  [] keyword = "str" -> Ptr

GlobalValueType(d) ==
  CASE d.type = "int"  -> I32 [] d.type = "float"  -> Float
    [] d.type = "bool" -> I1  [] d.type = "string" -> Bytes
    [] d.type = "array" -> ArrayOf(Len(d.elements))

\* A value, the function whose instruction it is (0: a constant or a global),
\* and the code that was emitted to compute it.
Constant(type) == [type |-> type, home |-> 0, code |-> <<>>]
Null           == Constant(NoType)
IsNull(v)      == v.type = NoType
IsConstant(v)  == v.home = 0 /\ v.code = <<>>
UsableIn(v, h) == v.home \in {0, h}

Instr(op, name, ok) == [op |-> op, name |-> name, ok |-> ok, from |-> pos, to |-> {}]
Branch(op, to, ok)  == [op |-> op, name |-> "", ok |-> ok, from |-> pos, to |-> to]

Terminators == {"br", "condbr", "ret"}
Terminated(block) == block # <<>> /\ block[Len(block)].op \in Terminators

NoInsert == [function |-> 0, block |-> 0]
NoLocal  == 0

\* The C library functions of the module, which the constructor or a log
\* declares; printf takes any arguments after its first.
Allocators == {"malloc", "realloc", "free"}
Signature(f) == CASE f = "malloc" -> <<I64>> [] f = "realloc" -> <<Ptr, I64>> [] OTHER -> <<Ptr>>
Result(f) == CASE f = "free" -> Void [] f = "printf" -> I32 [] OTHER -> Ptr

Symbol(kind, index) == [kind |-> kind, index |-> index]
NoSymbol == Symbol("none", 0)

\* The strings that a log puts into the module to print a value of a type: its
\* format, and the words for a value of type bool.
FormatsOf(type) ==
  CASE type = I32   -> {"printedFormatInt"}
    [] type = Float -> {"printedFloatInt"}
    [] type = I1    -> {"printedFormatBool", "trueStr", "falseStr"}
    [] type = Ptr   -> {"printedFormatString"}
    [] OTHER        -> {}
Formats     == UNION {FormatsOf(type) : type \in {I32, Float, I1, Ptr}}
SymbolNames == Names \cup Allocators \cup Formats \cup {"main", "printf"}

\* A slip: the last function to be created gets the name.
ClaimLast(table, name, symbol) == [table EXCEPT ![name] = symbol]

\* LLVM renames what is created under a name that is taken.
Claim(table, name, symbol) ==
  IF table[name] = NoSymbol THEN [table EXCEPT ![name] = symbol] ELSE table
ClaimAll(table, names, symbol) ==
  [n \in DOMAIN table |-> IF n \in names /\ table[n] = NoSymbol THEN symbol ELSE table[n]]

\* Within a function it puts a number behind such a name, the first after the
\* last it used there that makes a name not taken.
Enter(table, name) ==
  LET numbers == table.last + 1 .. table.last + Cardinality(table.taken) + 1
      free    == {k \in numbers : Numbered(name, k) \notin table.taken}
      k       == CHOOSE i \in free : \A j \in free : i <= j
  IN  IF name \notin table.taken
        THEN [table EXCEPT !.taken = @ \cup {name}, !.name = name]
        ELSE [taken |-> table.taken \cup {Numbered(name, k)}, last |-> k, name |-> Numbered(name, k)]
-----------------------------------------------------------------------------
(***************************************************************************)
(* evaluateExpression for code that goes to function h; last is lastValue  *)
(* when it starts.                                                         *)
(***************************************************************************)
Yield(type, op, name, ok, code, h) ==
  [type |-> type, home |-> h, code |-> Append(code, Instr(op, name, ok))]

LiteralValue(l) ==
  CASE l \in IntLiterals   -> Constant(I32)
    [] l \in FloatLiterals -> Constant(Float)
    [] OTHER               -> Constant(I1)

LocalValue(l, h) == Yield(I32, "load", l, currentLocals[l] = h, <<>>, h)

\* A string is used where it is, as a pointer; other globals are loaded.
GlobalValue(l, h) ==
  CASE globals[l] = NoType -> Null
    [] globals[l] = Bytes  -> Constant(Ptr)
    [] OTHER               -> Yield(globals[l], "load", l, TRUE, <<>>, h)

\* A slip: globals are looked up before locals.
PrimaryValueGlobalsFirst(l, h) ==
  CASE l \notin Names       -> LiteralValue(l)
    [] OTHER -> IF globals[l] = NoType /\ currentLocals[l] # NoLocal
                  THEN LocalValue(l, h) ELSE GlobalValue(l, h)

PrimaryValue(l, h) ==
  CASE l \notin Names -> LiteralValue(l)
    [] OTHER -> IF currentLocals[l] # NoLocal THEN LocalValue(l, h) ELSE GlobalValue(l, h)

\* The builder folds operations on constants.
Negated(v, h) ==
  LET ok == v.type \in IntegerTypes
  IN  IF IsNull(v) \/ (ok /\ IsConstant(v)) THEN v
      ELSE Yield(v.type, "arith", "", ok, v.code, h)

UnaryValue(e, h) == Negated(PrimaryValue(e.expr.name, h), h)

OperandValue(e, h) ==
  IF e.kind = "unary" THEN UnaryValue(e, h) ELSE PrimaryValue(e.name, h)

Combined(op, left, right, h) ==
  LET code == left.code \o right.code
      type == IF op \in ComparisonOps THEN I1 ELSE left.type
      ok   == /\ left.type = right.type
              /\ left.type \in IntegerTypes \cup (IF op \in ComparisonOps THEN {Ptr} ELSE {})
  IN  CASE IsNull(left) \/ IsNull(right) \/ op \in LogicalOps -> [Null EXCEPT !.code = code]
        [] OTHER -> IF ok /\ IsConstant(left) /\ IsConstant(right)
                      THEN Constant(type)
                      ELSE Yield(type, "arith", "", ok, code, h)

BinaryValue(e, h) == Combined(e.op, OperandValue(e.left, h), OperandValue(e.right, h), h)

\* visit(MethodCall) is empty: what lastValue held before it is its value.
SimpleValue(e, last, h) ==
  CASE e.kind = "primary" -> PrimaryValue(e.name, h)
    [] e.kind = "unary"   -> UnaryValue(e, h)
    [] e.kind = "binary"  -> BinaryValue(e, h)
    [] e.kind = "method"  -> last

\* An assignment leaves no value.  A global of another type is not stored to.
StoreTo(name, v, h) ==
  LET store(ok) == [Null EXCEPT !.code = Append(v.code, Instr("store", name, ok /\ UsableIn(v, h)))]
  IN  CASE IsNull(v)                     -> [Null EXCEPT !.code = v.code]
        [] OTHER ->
             CASE currentLocals[name] # NoLocal -> store(currentLocals[name] = h)
               [] OTHER -> IF globals[name] = v.type
                             THEN store(TRUE)
                             ELSE [Null EXCEPT !.code = v.code]

Evaluate(e, last, h) ==
  IF e.kind # "assign" THEN SimpleValue(e, last, h)
  ELSE LET rhs == e.expression
       IN  StoreTo(e.name,
                   IF rhs.kind = "assign"
                     THEN StoreTo(rhs.name, SimpleValue(rhs.expression, last, h), h)
                     ELSE SimpleValue(rhs, last, h),
                   h)
-----------------------------------------------------------------------------
(***************************************************************************)
(* Where code goes.                                                        *)
(***************************************************************************)
Put(fs, at, code)  == [fs EXCEPT ![at.function].blocks[at.block] = @ \o code]
NewBlocks(fs, f, n) == [fs EXCEPT ![f].blocks = @ \o [i \in 1..n |-> <<>>]]

Here           == insert.function
BlockCount     == Len(functions[Here].blocks)
Block(n)       == [insert EXCEPT !.block = n]
Frame(kind, back, next) == [kind |-> kind, back |-> back, next |-> next, locals |-> currentLocals]
EntryOf(f)     == [function |-> f, block |-> 1]

\* ensureMainFunctionExist: the module's functions, its symbols and main's
\* entry.  A global called main hides every main that is created.
NewFunction(node, result, params) ==
  [node |-> node, result |-> result, params |-> params, blocks |-> <<<<>>>>]

MainExists  == symbols["main"].kind = "function"
WithMain    == IF MainExists THEN functions ELSE Append(functions, NewFunction(0, I32, <<>>))
MainSymbols == Claim(symbols, "main", Symbol("function", Len(functions) + 1))
MainIndex   == IF MainExists THEN symbols["main"].index ELSE Len(functions) + 1
-----------------------------------------------------------------------------
(***************************************************************************)
(* The visit methods.                                                      *)
(***************************************************************************)
node == program[pos]
At(kind) == status = "generating" /\ pos <= Len(program) /\ node.node = kind

\* The module goes with the generator, unfinished: what is left is where it stopped.
Fail(how) == /\ status' = how
             /\ UNCHANGED <<pos, globals, currentLocals, functions, symbols, insert, frames, lastValue>>

\* The handler is over, and its expressions have been evaluated.
Proceed == pos' = pos + 1 /\ UNCHANGED status
Evaluated == Proceed /\ lastValue' = Null

\* What a visit evaluates, in order, and the function that gets the code.
Evaluations ==
  CASE node.node = "for"         -> <<node.start, node.end>>
    [] node.node = "declaration" -> node.elements
    [] node.node = "call"        -> node.arguments
    [] node.node \in {"function", "end"} -> <<>>
    [] OTHER                     -> <<node.expr>>

Home == IF frames # <<>> THEN Here
                         ELSE IF node.node = "call" THEN MainIndex ELSE 0

\* The lexemes an evaluation reads, in order.
Operands(e) ==
  LET operand(o) == IF o.kind = "unary" THEN <<o.expr.name>> ELSE <<o.name>>
      simple(s)  == CASE s.kind = "method" -> <<>>
                      [] s.kind = "binary" -> operand(s.left) \o operand(s.right)
                      [] OTHER             -> operand(s)
      rhs == IF e.kind = "assign" THEN e.expression ELSE e
  IN  simple(IF rhs.kind = "assign" THEN rhs.expression ELSE rhs)

\* A number that does not fit makes std::stoi or std::stof throw, unless the
\* visit has ended before it got there.  How large the numbers are is left out:
\* where one is converted either happens.
ThrowOutOfRange ==
  LET value(i) == Evaluate(Evaluations[i], IF i = 1 THEN lastValue ELSE Null, Home)
      loads(l) == Home = 0 /\ ~IsConstant(PrimaryValue(l, 0))
      converts(ls) == \E i \in 1..Len(ls) : /\ ls[i] \in IntLiterals \cup FloatLiterals
                                            /\ \A j \in 1..i-1 : ~loads(ls[j])
      goesOn(i) == ~IsNull(value(i)) /\ (Home = 0 => IsConstant(value(i)))
  IN  /\ status = "generating" /\ pos <= Len(program)
      /\ node.node = "call" => MainSymbols[node.name].kind \in {"function", "library"}
      /\ \/ node.node = "declaration" /\ node.type \in {"int", "float"}
         \/ \E i \in 1..Len(Evaluations) : /\ converts(Operands(Evaluations[i]))
                                           /\ \A j \in 1..i-1 : goesOn(j)
      /\ Fail("threw")

\* A division of constants is folded to poison where the divisor is zero, which
\* as the sizes of numbers is left out: either happens.
MayBePoison(e) == e.kind = "binary" /\ e.op \in {"/", "%"}

\* Outside functions there is nowhere to load a variable to, and an array is
\* initialized with the null value of an operator that has none.  An element
\* that is poison ends the visit, and there is no array.
VisitDeclaration ==
  /\ At("declaration")
  /\ LET values == [i \in 1..Len(node.elements) |->
                     Evaluate(node.elements[i], IF i = 1 THEN lastValue ELSE Null, 0)]
         usable(i) == ~IsNull(values[i]) /\ IsConstant(values[i])
     IN  \/ /\ \E i \in 1..Len(values) : ~usable(i)
            /\ Fail("crashed")
         \/ /\ node.type = "array"
            /\ \E i \in 1..Len(values) : /\ MayBePoison(node.elements[i])
                                           /\ \A j \in 1..i : usable(j)
            /\ Evaluated
            /\ UNCHANGED <<globals, currentLocals, functions, symbols, insert, frames>>
         \/ /\ \A i \in 1..Len(values) : usable(i)
            /\ globals' = [globals EXCEPT ![node.name] = GlobalValueType(node)]
            /\ symbols' = Claim(symbols, node.name, Symbol("global", 0))
            /\ lastValue' = IF values = <<>> THEN lastValue ELSE Null
            /\ Proceed
            /\ UNCHANGED <<currentLocals, functions, insert, frames>>

\* A top-level expression is visited and not evaluated: lastValue keeps it.
VisitExpression ==
  /\ At("expression") /\ frames = <<>>
  /\ LET v == Evaluate(node.expr, lastValue, 0)
     IN  IF ~IsConstant(v)
           THEN Fail("crashed")
           ELSE /\ lastValue' = v
                /\ Proceed
                /\ UNCHANGED <<globals, currentLocals, functions, symbols, insert, frames>>

VisitExpressionStatement ==
  /\ At("expression") /\ frames # <<>>
  /\ functions' = Put(functions, insert, Evaluate(node.expr, lastValue, Here).code)
  /\ Evaluated
  /\ UNCHANGED <<globals, currentLocals, symbols, insert, frames>>

\* A slip: only integers are printed.
PrintableInts(v) == v.type = I32

\* A string is printed as the global it is; any other pointer is not printed.
Printable(v) == v.type \in {I32, Float, I1} \/ (v.type = Ptr /\ IsConstant(v))

VisitPrintStatement ==
  /\ At("print")
  /\ LET v      == Evaluate(node.expr, lastValue, Here)
         callee == IF symbols["printf"].kind = "global" THEN "printf.1" ELSE "printf"
         print  == <<Instr("print", callee, symbols["printf"].kind # "function")>>
         table  == Claim(symbols, "printf", Symbol("library", 0))
     IN  /\ functions' = Put(functions, insert, v.code \o IF Printable(v) THEN print ELSE <<>>)
         /\ symbols' = IF Printable(v) THEN ClaimAll(table, FormatsOf(v.type), Symbol("global", 0))
                                       ELSE table
  /\ Evaluated
  /\ UNCHANGED <<globals, currentLocals, insert, frames>>

VisitReturnStatement ==
  /\ At("return")
  /\ LET v   == Evaluate(node.expr, lastValue, Here)
         ret == <<Instr("ret", "", v.type = functions[Here].result)>>
     IN  functions' = Put(functions, insert, v.code \o IF IsNull(v) THEN <<>> ELSE ret)
  /\ Evaluated
  /\ UNCHANGED <<globals, currentLocals, symbols, insert, frames>>

\* The loop's variable is a new alloca, the end is evaluated in every round.
VisitForLoopStatement ==
  /\ At("for")
  /\ LET start == Evaluate(node.start, lastValue, Here)
         end   == Evaluate(node.end, Null, Here)
         cond == BlockCount + 1 body == BlockCount + 2 exit == BlockCount + 3
         ok    == /\ start.type = end.type /\ start.type \in IntegerTypes
                  /\ UsableIn(start, Here)
         enter == start.code \o <<Instr("store", "loopVar", TRUE), Branch("br", {cond}, TRUE)>>
         test  == end.code \o <<Instr("load", "loopVar", TRUE), Instr("arith", "", ok),
                                Branch("condbr", {body, exit}, TRUE)>>
     IN  IF IsNull(start) \/ IsNull(end)
           THEN Fail("crashed")
           ELSE /\ functions' = Put(Put(NewBlocks(functions, Here, 3), insert, enter),
                                    Block(cond), test)
                /\ insert' = Block(body)
                /\ frames' = Append(frames, Frame("for", cond, exit))
                /\ Evaluated
                /\ UNCHANGED <<globals, currentLocals, symbols>>

VisitWhileLoopStatement ==
  /\ At("while")
  /\ LET v == Evaluate(node.expr, lastValue, Here)
         cond == BlockCount + 1 body == BlockCount + 2 exit == BlockCount + 3
         test == Append(v.code, Branch("condbr", {body, exit}, UsableIn(v, Here)))
     IN  CASE IsNull(v)    -> Fail("crashed")
           [] v.type = I1  ->
                /\ functions' = Put(Put(NewBlocks(functions, Here, 3), insert,
                                        <<Branch("br", {cond}, TRUE)>>),
                                    Block(cond), test)
                /\ insert' = Block(body)
                /\ frames' = Append(frames, Frame("while", cond, exit))
                /\ Evaluated
                /\ UNCHANGED <<globals, currentLocals, symbols>>
           [] OTHER -> Fail("threw")

\* Without an else there is no branch to the then block, nor one around it.
VisitIfStatement ==
  /\ At("if")
  /\ LET v == Evaluate(node.expr, lastValue, Here)
         then == BlockCount + 1
     IN  /\ functions' = Put(NewBlocks(functions, Here, 1), insert, v.code)
         /\ insert' = Block(then)
         /\ frames' = Append(frames, Frame("then", 0, 0))
  /\ Evaluated
  /\ UNCHANGED <<globals, currentLocals, symbols>>

VisitIfElseStatement ==
  /\ At("ifElse")
  /\ LET v == Evaluate(node.expr, lastValue, Here)
         then == BlockCount + 1 else == BlockCount + 2
         test == Branch("condbr", {then, else}, v.type = I1 /\ UsableIn(v, Here))
     IN  /\ functions' = Put(NewBlocks(functions, Here, 2), insert, Append(v.code, test))
         /\ insert' = Block(then)
         /\ frames' = Append(frames, Frame("thenElse", 0, else))
  /\ Evaluated
  /\ UNCHANGED <<globals, currentLocals, symbols>>

\* A slip: the code after a loop goes on in the loop's body.
EndBodyStaying ==
  /\ At("end") /\ frames[Len(frames)].kind # "function"
  /\ LET frame == frames[Len(frames)]
     IN  /\ functions' = Put(functions, insert,
                             IF frame.back = 0 THEN <<>> ELSE <<Branch("br", {frame.back}, TRUE)>>)
         /\ frames' = SubSeq(frames, 1, Len(frames) - 1)
                        \o IF frame.kind = "thenElse"
                             THEN <<[frame EXCEPT !.kind = "else", !.next = 0]>> ELSE <<>>
  /\ Proceed
  /\ UNCHANGED <<globals, currentLocals, symbols, insert, lastValue>>

\* The end of a body: a loop goes back to its condition, a then body that has an
\* else hands over to it, and nothing leads out of a branch.
EndBody ==
  LET frame == frames[Len(frames)]
      rest  == SubSeq(frames, 1, Len(frames) - 1)
      back  == Branch("br", {frame.back}, TRUE)
      step  == <<Instr("arith", "", TRUE), Instr("store", "loopVar", TRUE)>>
      code  == CASE frame.kind = "for"   -> Append(step, back)
                 [] frame.kind = "while" -> <<back>>
                 [] OTHER                -> <<>>
  IN  /\ At("end") /\ frame.kind # "function"
      /\ functions' = Put(functions, insert, code)
      /\ insert' = IF frame.next = 0 THEN insert ELSE Block(frame.next)
      /\ currentLocals' = frame.locals
      /\ frames' = IF frame.kind = "thenElse"
                     THEN Append(rest, [frame EXCEPT !.kind = "else", !.next = 0])
                     ELSE rest
      /\ Proceed
      /\ UNCHANGED <<globals, symbols, lastValue>>

\* Of the types a parameter can be given only "int" is one the generator knows;
\* a function with any other is left out, body and all.
Supported(f) == \A i \in 1..Len(f.parameters) : f.parameters[i].type = "int"

\* The function, call or end of the program that follows node i.
NextItem(i) ==
  CHOOSE j \in i+1..Len(program)+1 :
    /\ j <= Len(program) => program[j].node \in {"function", "call"}
    /\ \A k \in i+1..j-1 : program[k].node \notin {"function", "call"}

\* The names that the parameters have in LLVM, in order: the entry block has been
\* named before the first, and the alloca of each asks for its name again before
\* the next.
LLVMNames(f) ==
  LET n == Len(f.parameters)
      argument(table, i) == Enter(table, f.parameters[i].name)
      table[i \in 0..n] ==
        IF i = 0 THEN [taken |-> {"entry"}, last |-> 0, name |-> "entry"]
                 ELSE LET arg == argument(table[i - 1], i) IN Enter(arg, arg.name)
  IN  [i \in 1..n |-> argument(table[i - 1], i).name]

FiledNames(f) == {LLVMNames(f)[i] : i \in 1..Len(f.parameters)}

VisitFunctionDefinition ==
  LET index == Len(functions) + 1
      stores == [i \in 1..Len(node.parameters) |-> Instr("store", LLVMNames(node)[i], TRUE)]
      params == [i \in 1..Len(node.parameters) |-> I32]
      new    == NewFunction(pos, ReturnType(node.returnType), params)
  IN  /\ At("function")
      /\ IF Supported(node)
           THEN /\ functions' = Put(Append(functions, new), EntryOf(index), stores)
                /\ symbols' = Claim(symbols, node.name, Symbol("function", index))
                /\ insert' = EntryOf(index)
                /\ currentLocals' = [n \in Names |-> IF n \in FiledNames(node)
                                                      THEN index ELSE currentLocals[n]]
                /\ frames' = <<Frame("function", 0, 0)>>
                /\ Proceed
                /\ UNCHANGED <<globals, lastValue>>
           ELSE /\ pos' = NextItem(pos)
                /\ lastValue' = Null
                /\ UNCHANGED <<status, globals, currentLocals, functions, symbols, insert, frames>>

\* A slip: the builder stays where the last statement left it.
EndFunctionInPlace ==
  /\ At("end") /\ Len(frames) = 1
  /\ frames' = <<>>
  /\ Proceed
  /\ UNCHANGED <<globals, currentLocals, functions, symbols, insert, lastValue>>

\* Only the entry block is given a terminator it lacks.
EndFunctionDefinition ==
  LET entry == functions[Here].blocks[1]
      default == IF Terminated(entry) THEN <<>> ELSE <<Instr("ret", "", TRUE)>>
  IN  /\ At("end") /\ Len(frames) = 1
      /\ functions' = Put(functions, EntryOf(Here), default)
      /\ insert' = NoInsert
      /\ frames' = <<>>
      /\ Proceed
      /\ UNCHANGED <<globals, currentLocals, symbols, lastValue>>

\* Whether a call of callee with these arguments is well typed.
Matches(values, callee, name) ==
  LET types == IF callee.kind = "function" THEN WithMain[callee.index].params
                                           ELSE Signature(name)
  IN  /\ IF name = "printf" /\ callee.kind = "library"
           THEN Len(values) >= 1 ELSE Len(values) = Len(types)
      /\ \A i \in 1..Len(types) : values[i].type = types[i]
      /\ \A i \in 1..Len(values) : UsableIn(values[i], MainIndex)

ResultOf(callee, name) ==
  IF callee.kind = "function" THEN WithMain[callee.index].result ELSE Result(name)

\* What the first n of some values emit.
CodeOf(values, n) ==
  LET code[i \in 0..n] == IF i = 0 THEN <<>> ELSE code[i - 1] \o values[i].code
  IN  code[n]

\* A call goes to main.  Its arguments are evaluated up to the first that has
\* no value, which drops the call.
VisitFunctionCall ==
  LET callee == MainSymbols[node.name]
      values == [i \in 1..Len(node.arguments) |->
                  Evaluate(node.arguments[i], IF i = 1 THEN lastValue ELSE Null, MainIndex)]
      nulls  == {i \in 1..Len(values) : IsNull(values[i])}
      upTo   == IF nulls = {} THEN Len(values) ELSE CHOOSE i \in nulls : \A j \in nulls : i <= j
      call   == Instr("call", node.name, Matches(values, callee, node.name))
      found  == callee.kind \in {"function", "library"}
      emit(c) == functions' = Put(WithMain, EntryOf(MainIndex), c)
  IN  /\ At("call")
      /\ insert' = EntryOf(MainIndex)
      /\ symbols' = MainSymbols
      /\ CASE ~found -> emit(<<>>) /\ UNCHANGED lastValue
           [] found /\ nulls # {} -> emit(CodeOf(values, upTo)) /\ lastValue' = Null
           [] OTHER ->
                /\ emit(Append(CodeOf(values, upTo), call))
                /\ lastValue' = [type |-> ResultOf(callee, node.name),
                                 home |-> MainIndex, code |-> <<>>]
      /\ Proceed
      /\ UNCHANGED <<globals, currentLocals, frames>>

\* The rest of visit(Program).
EndProgram ==
  /\ status = "generating" /\ pos > Len(program)
  /\ functions' = Put(WithMain, EntryOf(MainIndex), <<Instr("ret", "", TRUE)>>)
  /\ symbols' = MainSymbols
  /\ insert' = NoInsert
  /\ globals' = [n \in Names |-> NoType]
  /\ currentLocals' = [n \in Names |-> NoLocal]
  /\ status' = "done"
  /\ UNCHANGED <<pos, frames, lastValue>>

Init == /\ pos = 1
        /\ status = "generating"
        /\ globals = [n \in Names |-> NoType]
        /\ currentLocals = [n \in Names |-> NoLocal]
        /\ functions = <<>>
        /\ symbols = [n \in SymbolNames |-> IF n \in Allocators THEN Symbol("library", 0)
                                                              ELSE NoSymbol]
        /\ insert = NoInsert
        /\ frames = <<>>
        /\ lastValue = Null

Next == \/ ThrowOutOfRange
        \/ VisitDeclaration
        \/ VisitExpression
        \/ VisitExpressionStatement
        \/ VisitPrintStatement
        \/ VisitReturnStatement
        \/ VisitForLoopStatement
        \/ VisitWhileLoopStatement
        \/ VisitIfStatement
        \/ VisitIfElseStatement
        \/ EndBody
        \/ VisitFunctionDefinition
        \/ EndFunctionDefinition
        \/ VisitFunctionCall
        \/ EndProgram
=============================================================================
