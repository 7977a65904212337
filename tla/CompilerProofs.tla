--------------------------- MODULE CompilerProofs ---------------------------
(***************************************************************************)
(* What the generator can rely on because the analyzer has accepted the    *)
(* program: the nodes it meets are properly nested, so its own stack of    *)
(* visits follows the analyzer's, and the insertion point is where the     *)
(* visit methods expect it.  On that rests what the generator knows of     *)
(* names, what it emits, where it stops and in which order it calls.  For  *)
(* every set of names, expressions and parameter lists and for programs of *)
(* every size and nesting.                                                 *)
(***************************************************************************)
EXTENDS Compiler, SemanticAnalyzerProofs, WellFoundedInduction

-----------------------------------------------------------------------------
(***************************************************************************)
(* The types of what the generator builds.                                 *)
(***************************************************************************)
ValueTypes == {Gen!NoType, Gen!I32, Gen!I64, Gen!Float, Gen!I1, Gen!Ptr, Gen!Void, Gen!Bytes}
                \cup {Gen!ArrayOf(n) : n \in Nat}

\* What instructions name; a parameter's alloca has the name that LLVM gave it.
AllocaNames == UNION {Gen!FiledNames(d) : d \in Node}
InstrNames  == Lexemes \cup Gen!SymbolNames \cup AllocaNames \cup {"", "loopVar", "printf.1"}

Instruction ==
  [op   : {"load", "store", "arith", "br", "condbr", "ret", "call", "print"},
   name : InstrNames,
   ok   : BOOLEAN, from : Nat, to : SUBSET Nat]

Code     == Seq(Instruction)
Value    == [type : ValueTypes, home : Nat, code : Code]
Function == [node : Nat, result : ValueTypes, params : Seq(ValueTypes),
             blocks : Seq(Code) \ {<<>>}]
Place    == [function : Nat, block : Nat]
FrameSet == [kind : VisitKinds, back : Nat, next : Nat, locals : [Names -> Nat]]

\* What names stand for in the module; a function has its code among functions.
SymbolsOk(table, count) ==
  /\ table \in [Gen!SymbolNames -> [kind : {"none", "function", "global", "library"}, index : Nat]]
  /\ \A n \in Gen!SymbolNames : /\ table[n].kind = "none" => table[n].index = 0
                                /\ table[n].kind = "function" => table[n].index \in 1..count
  /\ table["main"].kind # "library"

GenTypeOK ==
  /\ pos \in 1..Len(ast) + 1
  /\ status \in {"generating", "done", "threw", "crashed"}
  /\ globals \in [Names -> ValueTypes]
  /\ currentLocals \in [Names -> Nat]
  /\ functions \in Seq(Function)
  /\ SymbolsOk(symbols, Len(functions))
  /\ insert \in Place
  /\ frames \in Seq(FrameSet)
  /\ lastValue \in Value
-----------------------------------------------------------------------------
(***************************************************************************)
(* Evaluation yields values.                                               *)
(***************************************************************************)
\* What evaluation reads of the state.
Readable == globals \in [Names -> ValueTypes] /\ currentLocals \in [Names -> Nat] /\ pos \in Nat

LEMMA InstrNamesFacts ==
  /\ Lexemes \subseteq InstrNames /\ Gen!SymbolNames \subseteq InstrNames
  /\ AllocaNames \subseteq InstrNames
  /\ "" \in InstrNames /\ "loopVar" \in InstrNames /\ "printf.1" \in InstrNames
BY Zenon DEF InstrNames

LEMMA InstrTyped ==
  ASSUME pos \in Nat, NEW op \in {"load", "store", "arith", "ret", "call", "print"},
         NEW name \in InstrNames,
         NEW ok \in BOOLEAN
  PROVE  Gen!Instr(op, name, ok) \in Instruction
BY DEF Gen!Instr, Instruction

LEMMA BranchTyped ==
  ASSUME pos \in Nat, NEW op \in {"br", "condbr"}, NEW to \in SUBSET Nat, NEW ok \in BOOLEAN
  PROVE  Gen!Branch(op, to, ok) \in Instruction /\ Gen!Branch(op, to, ok).to = to
BY InstrNamesFacts DEF Gen!Branch, Instruction

LEMMA ConstantTyped ==
  ASSUME NEW type \in ValueTypes
  PROVE  Gen!Constant(type) \in Value
BY EmptySeq DEF Gen!Constant, Value, Code

LEMMA YieldTyped ==
  ASSUME pos \in Nat, NEW type \in ValueTypes, NEW op \in {"load", "arith"},
         NEW name \in Lexemes \cup {""}, NEW ok \in BOOLEAN, NEW code \in Code, NEW h \in Nat
  PROVE  Gen!Yield(type, op, name, ok, code, h) \in Value
<1>1. Gen!Instr(op, name, ok) \in Instruction
  BY InstrTyped, InstrNamesFacts
<1>2. Append(code, Gen!Instr(op, name, ok)) \in Code
  BY <1>1, AppendProperties DEF Code
<1>. QED  BY <1>2 DEF Gen!Yield, Value

LEMMA PrimaryTyped ==
  ASSUME Readable, NEW l \in Lexemes, NEW h \in Nat
  PROVE  Gen!PrimaryValue(l, h) \in Value
<1>0. {Gen!NoType, Gen!I32, Gen!Float, Gen!I1, Gen!Ptr} \subseteq ValueTypes
  BY DEF ValueTypes
<1>1. Gen!LiteralValue(l) \in Value
  BY <1>0, ConstantTyped DEF Gen!LiteralValue
<1>2. ASSUME l \in Names PROVE Gen!LocalValue(l, h) \in Value
  <2>1. (currentLocals[l] = h) \in BOOLEAN /\ <<>> \in Code
    BY EmptySeq DEF Code
  <2>. QED  BY <1>0, <2>1, YieldTyped DEF Gen!LocalValue, Readable
<1>3. ASSUME l \in Names PROVE Gen!GlobalValue(l, h) \in Value
  <2>1. globals[l] \in ValueTypes /\ <<>> \in Code /\ pos \in Nat
    BY <1>3, EmptySeq DEF Code, Readable
  <2>2. Gen!Yield(globals[l], "load", l, TRUE, <<>>, h) \in Value
    BY <2>1, YieldTyped
  <2>3. Gen!Null \in Value /\ Gen!Constant(Gen!Ptr) \in Value
    BY <1>0, ConstantTyped DEF Gen!Null
  <2>. QED  BY <2>2, <2>3 DEF Gen!GlobalValue
<1>. QED  BY <1>1, <1>2, <1>3 DEF Gen!PrimaryValue

LEMMA OperandTyped ==
  ASSUME Readable, NEW e \in Primary \cup Unary, NEW h \in Nat
  PROVE  Gen!OperandValue(e, h) \in Value
<1>1. CASE e.kind # "unary"
  <2>1. e.name \in Lexemes
    BY <1>1 DEF Primary, Unary
  <2>. QED  BY <1>1, <2>1, PrimaryTyped DEF Gen!OperandValue
<1>2. CASE e.kind = "unary"
  <2>1. e.expr.name \in Lexemes
    BY <1>2 DEF Primary, Unary
  <2>. DEFINE v == Gen!PrimaryValue(e.expr.name, h)
  <2>2. v \in Value
    BY <2>1, PrimaryTyped
  <2>. HIDE DEF v
  <2>3. v.type \in ValueTypes /\ v.code \in Code /\ (v.type \in Gen!IntegerTypes) \in BOOLEAN
    BY <2>2 DEF Value
  <2>4. Gen!Yield(v.type, "arith", "", v.type \in Gen!IntegerTypes, v.code, h) \in Value
    BY <2>3, YieldTyped DEF Readable
  <2>5. Gen!Negated(v, h) \in Value
    BY <2>2, <2>4 DEF Gen!Negated
  <2>. QED  BY <1>2, <2>5 DEF Gen!OperandValue, Gen!UnaryValue, v
<1>. QED  BY <1>1, <1>2

\* The instance has its own copy of these definitions of SSLangAST.
LEMMA SameOperators ==
  /\ Gen!ComparisonOps = ComparisonOps /\ Gen!LogicalOps = LogicalOps
  /\ Gen!ArithmeticOps = ArithmeticOps
BY DEF ComparisonOps, Gen!ComparisonOps, LogicalOps, Gen!LogicalOps, ArithmeticOps,
       Gen!ArithmeticOps

LEMMA BinaryTyped ==
  ASSUME Readable, NEW e \in Binary, NEW h \in Nat
  PROVE  Gen!BinaryValue(e, h) \in Value
<1>. DEFINE left == Gen!OperandValue(e.left, h)
            right == Gen!OperandValue(e.right, h)
<1>1. left \in Value /\ right \in Value
  BY OperandTyped DEF Binary
<1>. HIDE DEF left, right
<1>. DEFINE code == left.code \o right.code
            type == IF e.op \in ComparisonOps THEN Gen!I1 ELSE left.type
            ok   == /\ left.type = right.type
                    /\ left.type \in Gen!IntegerTypes
                                       \cup (IF e.op \in ComparisonOps THEN {Gen!Ptr} ELSE {})
<1>2. code \in Code
  <2>1. left.code \in Seq(Instruction) /\ right.code \in Seq(Instruction)
    BY <1>1 DEF Value, Code
  <2>. QED  BY <2>1, ConcatProperties DEF Code
<1>3. type \in ValueTypes /\ ok \in BOOLEAN
  BY <1>1 DEF Value, ValueTypes
<1>. HIDE DEF code, type, ok
<1>4. /\ Gen!Yield(type, "arith", "", ok, code, h) \in Value
      /\ Gen!Constant(type) \in Value
      /\ [Gen!Null EXCEPT !.code = code] \in Value
  <2>1. Gen!NoType \in ValueTypes
    BY DEF ValueTypes
  <2>2. [Gen!Null EXCEPT !.code = code] \in Value
    BY <1>2, <2>1, ConstantTyped DEF Gen!Null, Value
  <2>. QED  BY <1>2, <1>3, <2>2, YieldTyped, ConstantTyped DEF Readable
<1>5. \/ Gen!Combined(e.op, left, right, h) = [Gen!Null EXCEPT !.code = code]
      \/ Gen!Combined(e.op, left, right, h) = Gen!Constant(type)
      \/ Gen!Combined(e.op, left, right, h) = Gen!Yield(type, "arith", "", ok, code, h)
  BY SameOperators DEF Gen!Combined, code, type, ok
<1>6. Gen!BinaryValue(e, h) = Gen!Combined(e.op, left, right, h)
  BY DEF Gen!BinaryValue, left, right
<1>. QED  BY <1>4, <1>5, <1>6

LEMMA SimpleTyped ==
  ASSUME Readable, NEW e \in Simple \cup MethodCall, NEW last \in Value, NEW h \in Nat
  PROVE  Gen!SimpleValue(e, last, h) \in Value
<1>1. CASE e \in Primary
  <2>1. e.kind = "primary" /\ e.name \in Lexemes
    BY <1>1 DEF Primary
  <2>. QED  BY <2>1, PrimaryTyped DEF Gen!SimpleValue
<1>2. CASE e \in Unary
  <2>1. e.kind = "unary"
    BY <1>2 DEF Unary
  <2>2. Gen!UnaryValue(e, h) \in Value
    BY <1>2, <2>1, OperandTyped DEF Gen!OperandValue
  <2>. QED  BY <2>1, <2>2 DEF Gen!SimpleValue
<1>3. CASE e \in Binary
  <2>1. e.kind = "binary"
    BY <1>3 DEF Binary
  <2>. QED  BY <1>3, <2>1, BinaryTyped DEF Gen!SimpleValue
<1>4. CASE e \in MethodCall
  <2>1. e.kind = "method"
    BY <1>4 DEF MethodCall
  <2>. QED  BY <2>1 DEF Gen!SimpleValue
<1>. QED  BY <1>1, <1>2, <1>3, <1>4 DEF Simple

LEMMA StoreTyped ==
  ASSUME Readable, NEW name \in Names, NEW v \in Value, NEW h \in Nat
  PROVE  Gen!StoreTo(name, v, h) \in Value
<1>0. v.code \in Code
  BY DEF Value
<1>1. ASSUME NEW ok \in BOOLEAN
      PROVE  [Gen!Null EXCEPT !.code =
                Append(v.code, Gen!Instr("store", name, ok /\ Gen!UsableIn(v, h)))] \in Value
  <2>1. (ok /\ Gen!UsableIn(v, h)) \in BOOLEAN
    BY DEF Gen!UsableIn
  <2>2. Gen!Instr("store", name, ok /\ Gen!UsableIn(v, h)) \in Instruction
    BY <2>1, InstrTyped, InstrNamesFacts DEF Readable, Lexemes
  <2>3. Append(v.code, Gen!Instr("store", name, ok /\ Gen!UsableIn(v, h))) \in Code
    BY <1>0, <2>2, AppendProperties DEF Code
  <2>4. Gen!Null \in Value
    BY ConstantTyped DEF Gen!Null, ValueTypes
  <2>. QED  BY <2>3, <2>4 DEF Value
<1>2. [Gen!Null EXCEPT !.code = v.code] \in Value
  <2>1. Gen!Null \in Value
    BY ConstantTyped DEF Gen!Null, ValueTypes
  <2>. QED  BY <1>0, <2>1 DEF Value
<1>3. (currentLocals[name] = h) \in BOOLEAN
  OBVIOUS
<1>. QED  BY <1>1, <1>2, <1>3 DEF Gen!StoreTo

LEMMA EvaluateTyped ==
  ASSUME Readable, NEW e \in Expression, NEW last \in Value, NEW h \in Nat
  PROVE  Gen!Evaluate(e, last, h) \in Value
<1>1. CASE e \in Simple \cup MethodCall
  <2>1. e.kind # "assign"
    BY <1>1 DEF Simple, Primary, Unary, Binary, MethodCall
  <2>. QED  BY <1>1, <2>1, SimpleTyped DEF Gen!Evaluate
<1>2. CASE e \in PlainAssignment
  <2>1. e.kind = "assign" /\ e.name \in Names /\ e.expression \in Simple \cup MethodCall
    BY <1>2 DEF PlainAssignment
  <2>2. e.expression.kind # "assign"
    BY <2>1 DEF Simple, Primary, Unary, Binary, MethodCall
  <2>3. Gen!SimpleValue(e.expression, last, h) \in Value
    BY <2>1, SimpleTyped
  <2>4. Gen!StoreTo(e.name, Gen!SimpleValue(e.expression, last, h), h) \in Value
    BY <2>1, <2>3, StoreTyped
  <2>. QED  BY <2>1, <2>2, <2>4 DEF Gen!Evaluate
<1>3. CASE e \in NestedAssignment
  <2>. DEFINE f == e.expression
  <2>1. e.kind = "assign" /\ e.name \in Names /\ f \in PlainAssignment
    BY <1>3 DEF NestedAssignment
  <2>2. f.kind = "assign" /\ f.name \in Names /\ f.expression \in Simple \cup MethodCall
    BY <2>1 DEF PlainAssignment
  <2>3. Gen!SimpleValue(f.expression, last, h) \in Value
    BY <2>2, SimpleTyped
  <2>4. Gen!StoreTo(f.name, Gen!SimpleValue(f.expression, last, h), h) \in Value
    BY <2>2, <2>3, StoreTyped
  <2>5. Gen!StoreTo(e.name, Gen!StoreTo(f.name, Gen!SimpleValue(f.expression, last, h), h), h)
          \in Value
    BY <2>1, <2>4, StoreTyped
  <2>. QED  BY <2>1, <2>2, <2>5 DEF Gen!Evaluate
<1>. QED  BY <1>1, <1>2, <1>3 DEF Expression
-----------------------------------------------------------------------------
(***************************************************************************)
(* The module's functions and symbols.                                     *)
(***************************************************************************)
LEMMA BlocksFacts ==
  ASSUME NEW fs \in Seq(Function), NEW f \in 1..Len(fs)
  PROVE  /\ fs[f] \in Function
         /\ fs[f].blocks \in Seq(Code) /\ Len(fs[f].blocks) \in Nat \ {0}
         /\ \A b \in 1..Len(fs[f].blocks) : fs[f].blocks[b] \in Code
<1>1. fs[f] \in Function
  BY ElementOfSeq
<1>2. fs[f].blocks \in Seq(Code) /\ fs[f].blocks # <<>>
  BY <1>1 DEF Function
<1>3. Len(fs[f].blocks) \in Nat \ {0}
  BY <1>2, EmptySeq
<1>. QED  BY <1>1, <1>2, <1>3, ElementOfSeq

\* Code that is put somewhere changes the end of one block.
LEMMA PutFacts ==
  ASSUME NEW fs \in Seq(Function), NEW f \in 1..Len(fs), NEW b \in 1..Len(fs[f].blocks),
         NEW at, at.function = f, at.block = b, NEW code \in Code
  PROVE  LET gs == Gen!Put(fs, at, code)
         IN  /\ gs \in Seq(Function) /\ Len(gs) = Len(fs)
             /\ \A i \in 1..Len(fs) :
                  /\ Len(gs[i].blocks) = Len(fs[i].blocks)
                  /\ gs[i].node = fs[i].node /\ gs[i].params = fs[i].params
                  /\ gs[i].result = fs[i].result
                  /\ i # f => gs[i] = fs[i]
             /\ \A c \in 1..Len(fs[f].blocks) :
                  gs[f].blocks[c] = IF c = b THEN fs[f].blocks[b] \o code ELSE fs[f].blocks[c]
<1>. DEFINE bs == [fs[f].blocks EXCEPT ![b] = fs[f].blocks[b] \o code]
            g  == [fs[f] EXCEPT !.blocks = bs]
            gs == [fs EXCEPT ![f] = g]
<1>1. /\ fs[f] \in Function
      /\ fs[f].blocks \in Seq(Code) /\ Len(fs[f].blocks) \in Nat \ {0}
      /\ fs[f].blocks[b] \in Code
  BY BlocksFacts
<1>2. fs[f].blocks[b] \o code \in Code
  BY <1>1, ConcatProperties DEF Code
<1>3. /\ bs \in Seq(Code) /\ Len(bs) = Len(fs[f].blocks)
      /\ \A c \in 1..Len(fs[f].blocks) :
           bs[c] = IF c = b THEN fs[f].blocks[b] \o code ELSE fs[f].blocks[c]
  BY <1>1, <1>2, ExceptSeq
<1>. HIDE DEF bs
<1>4. bs # <<>>
  BY <1>1, <1>3, EmptySeq
<1>5. g \in Function /\ g.blocks = bs
      /\ g.node = fs[f].node /\ g.params = fs[f].params /\ g.result = fs[f].result
  BY <1>1, <1>3, <1>4 DEF Function
<1>. HIDE DEF g
<1>6. /\ gs \in Seq(Function) /\ Len(gs) = Len(fs)
      /\ \A j \in 1..Len(fs) : gs[j] = IF j = f THEN g ELSE fs[j]
  BY <1>5, ExceptSeq
<1>7. Gen!Put(fs, at, code) = gs
  BY DEF Gen!Put, g, bs
<1>. HIDE DEF gs
<1>. QED  BY <1>3, <1>5, <1>6, <1>7

LEMMA NewBlocksFacts ==
  ASSUME NEW fs \in Seq(Function), NEW f \in 1..Len(fs), NEW n \in Nat
  PROVE  LET gs == Gen!NewBlocks(fs, f, n)
         IN  /\ gs \in Seq(Function) /\ Len(gs) = Len(fs)
             /\ \A i \in 1..Len(fs) :
                  /\ gs[i].node = fs[i].node /\ gs[i].params = fs[i].params
                  /\ gs[i].result = fs[i].result
                  /\ i # f => gs[i] = fs[i]
             /\ Len(gs[f].blocks) = Len(fs[f].blocks) + n
             /\ \A c \in 1..Len(fs[f].blocks) : gs[f].blocks[c] = fs[f].blocks[c]
             /\ \A c \in Len(fs[f].blocks) + 1..Len(fs[f].blocks) + n : gs[f].blocks[c] = <<>>
<1>. DEFINE new == [i \in 1..n |-> <<>>]
            bs == fs[f].blocks \o new
            g  == [fs[f] EXCEPT !.blocks = bs]
            gs == [fs EXCEPT ![f] = g]
<1>1. /\ fs[f] \in Function
      /\ fs[f].blocks \in Seq(Code) /\ Len(fs[f].blocks) \in Nat \ {0}
  BY BlocksFacts
<1>2. new \in Seq(Code) /\ Len(new) = n /\ \A c \in 1..n : new[c] = <<>>
  <2>1. <<>> \in Code
    BY EmptySeq DEF Code
  <2>. QED  BY <2>1
<1>. HIDE DEF new
<1>3. /\ bs \in Seq(Code) /\ Len(bs) = Len(fs[f].blocks) + n
      /\ \A c \in 1..Len(fs[f].blocks) + n :
           bs[c] = IF c <= Len(fs[f].blocks) THEN fs[f].blocks[c] ELSE new[c - Len(fs[f].blocks)]
  <2>. DEFINE old == fs[f].blocks
  <2>1. old \in Seq(Code) /\ new \in Seq(Code)
    BY <1>1, <1>2
  <2>. HIDE DEF old
  <2>2. /\ old \o new \in Seq(Code) /\ Len(old \o new) = Len(old) + Len(new)
        /\ \A c \in 1..Len(old) + Len(new) :
             (old \o new)[c] = IF c <= Len(old) THEN old[c] ELSE new[c - Len(old)]
    BY <2>1, ConcatProperties
  <2>. QED  BY <1>2, <2>2 DEF old
<1>. HIDE DEF bs
<1>4. bs # <<>>
  BY <1>1, <1>3, EmptySeq
<1>5. g \in Function /\ g.blocks = bs
      /\ g.node = fs[f].node /\ g.params = fs[f].params /\ g.result = fs[f].result
  BY <1>1, <1>3, <1>4 DEF Function
<1>. HIDE DEF g
<1>6. /\ gs \in Seq(Function) /\ Len(gs) = Len(fs)
      /\ \A j \in 1..Len(fs) : gs[j] = IF j = f THEN g ELSE fs[j]
  BY <1>5, ExceptSeq
<1>7. Gen!NewBlocks(fs, f, n) = gs
  BY DEF Gen!NewBlocks, g, bs, new
<1>. HIDE DEF gs
<1>8. \A c \in Len(fs[f].blocks) + 1..Len(fs[f].blocks) + n : bs[c] = <<>>
  BY <1>1, <1>2, <1>3
<1>9. ASSUME NEW c \in 1..Len(fs[f].blocks) PROVE bs[c] = fs[f].blocks[c]
  <2>1. c \in 1..Len(fs[f].blocks) + n /\ c <= Len(fs[f].blocks)
    BY <1>1
  <2>. QED  BY <1>3, <2>1
<1>10. gs[f].blocks = bs /\ Len(bs) = Len(fs[f].blocks) + n
  BY <1>3, <1>5, <1>6
<1>11. \A i \in 1..Len(fs) :
         /\ gs[i].node = fs[i].node /\ gs[i].params = fs[i].params
         /\ gs[i].result = fs[i].result
         /\ i # f => gs[i] = fs[i]
  BY <1>5, <1>6
<1>. QED  BY <1>6, <1>7, <1>8, <1>9, <1>10, <1>11

LEMMA NewFunctionFacts ==
  ASSUME NEW fs \in Seq(Function), NEW n \in Nat, NEW result \in ValueTypes,
         NEW params \in Seq(ValueTypes)
  PROVE  LET new == Gen!NewFunction(n, result, params)
             gs  == Append(fs, new)
         IN  /\ gs \in Seq(Function) /\ Len(gs) = Len(fs) + 1 /\ Len(fs) \in Nat
             /\ gs[Len(fs) + 1] = new
             /\ \A i \in 1..Len(fs) : gs[i] = fs[i]
             /\ new.node = n /\ new.result = result /\ new.params = params
             /\ Len(new.blocks) = 1 /\ new.blocks[1] = <<>>
<1>. DEFINE new == Gen!NewFunction(n, result, params)
<1>1. <<<<>>>> \in Seq(Code) \ {<<>>}
  <2>1. <<>> \in Code
    BY EmptySeq DEF Code
  <2>. QED  BY <2>1
<1>2. /\ new \in Function /\ new.node = n /\ new.result = result /\ new.params = params
      /\ Len(new.blocks) = 1 /\ new.blocks[1] = <<>>
  BY <1>1 DEF Gen!NewFunction, Function
<1>. HIDE DEF new
<1>3. /\ Append(fs, new) \in Seq(Function) /\ Len(Append(fs, new)) = Len(fs) + 1
      /\ Append(fs, new)[Len(fs) + 1] = new
      /\ \A i \in 1..Len(fs) : Append(fs, new)[i] = fs[i]
  BY <1>2, AppendProperties
<1>4. Len(fs) \in Nat
  BY LenProperties
<1>. QED  BY <1>2, <1>3, <1>4 DEF new

\* A name that is free becomes the symbol's, any other stays what it was.
LEMMA ClaimFacts ==
  ASSUME NEW table, NEW count \in Nat, SymbolsOk(table, count),
         NEW kind \in {"function", "global", "library"}, NEW index \in Nat,
         NEW n \in Gen!SymbolNames, NEW more \in Nat, count <= more,
         kind = "function" => index \in 1..more,
         kind = "library" => n # "main"
  PROVE  LET after == Gen!Claim(table, n, Gen!Symbol(kind, index))
         IN  /\ SymbolsOk(after, more)
             /\ \A m \in Gen!SymbolNames : m # n => after[m] = table[m]
             /\ after[n] = IF table[n] = Gen!NoSymbol THEN Gen!Symbol(kind, index) ELSE table[n]
<1>. DEFINE s == Gen!Symbol(kind, index)
            set == [table EXCEPT ![n] = s]
<1>1. s \in [kind : {"none", "function", "global", "library"}, index : Nat]
      /\ s.kind = kind /\ s.index = index
  BY DEF Gen!Symbol
<1>. HIDE DEF s
<1>2. SymbolsOk(table, more)
  BY DEF SymbolsOk
<1>3. SymbolsOk(set, more)
  BY <1>1, <1>2 DEF SymbolsOk
<1>4. /\ \A m \in Gen!SymbolNames : m # n => set[m] = table[m]
      /\ set[n] = s
  BY DEF SymbolsOk
<1>. HIDE DEF set
<1>5. Gen!Claim(table, n, s) = IF table[n] = Gen!NoSymbol THEN set ELSE table
  BY DEF Gen!Claim, set
<1>. QED  BY <1>2, <1>3, <1>4, <1>5 DEF s

\* The symbols stay right when functions are added.
LEMMA SymbolsGrow ==
  ASSUME NEW table, NEW count \in Nat, NEW more \in Nat, count <= more, SymbolsOk(table, count)
  PROVE  SymbolsOk(table, more)
BY DEF SymbolsOk
-----------------------------------------------------------------------------
(***************************************************************************)
(* Induction over the natural numbers, and what rests on it: the smallest  *)
(* element of a set, and what the code of a list of values is.             *)
(***************************************************************************)
LEMMA Smallest ==
  ASSUME NEW T, T \subseteq Nat, T # {}
  PROVE  \E m \in T : \A k \in T : m <= k
<1>. DEFINE R == OpToRel(<, Nat)
<1>1. IsWellFoundedOn(R, Nat)
  BY NatLessThanWellFounded
<1>2. \E x \in T : \A y \in T : ~(<<y, x>> \in R)
  <2>. HIDE DEF R
  <2>. QED  BY <1>1, WFMin
<1>3. PICK x \in T : \A y \in T : ~(<<y, x>> \in R)
  BY <1>2
<1>4. \A y \in T : ~(y < x)
  BY <1>3 DEF OpToRel
<1>. QED  BY <1>4

LEMMA Induction ==
  ASSUME NEW S, 0 \in S, \A n \in Nat : n \in S => n + 1 \in S
  PROVE  Nat \subseteq S
<1>. DEFINE T == Nat \ S
<1>. SUFFICES ASSUME T # {} PROVE FALSE
  OBVIOUS
<1>1. PICK m \in T : \A k \in T : m <= k
  <2>1. T \subseteq Nat
    OBVIOUS
  <2>. HIDE DEF T
  <2>. QED  BY <2>1, Smallest
<1>2. m \in Nat /\ m # 0 /\ m - 1 \in Nat
  BY <1>1
<1>3. m - 1 \in S
  BY <1>1, <1>2
<1>. QED  BY <1>1, <1>2, <1>3

CodeStep(values, g, i) == IF i = 0 THEN <<>> ELSE g[i - 1] \o values[i].code

\* The recursive function of CodeOf exists and yields code of C.
LEMMA CodeOfIn ==
  ASSUME NEW C, <<>> \in C, \A a, b \in C : a \o b \in C,
         NEW n \in Nat, NEW values, \A i \in 1..n : values[i].code \in C
  PROVE  Gen!CodeOf(values, n) \in C
<1>. DEFINE T == {k \in Nat : k <= n => \E g \in [0..k -> C] :
                                 \A i \in 0..k : g[i] = CodeStep(values, g, i)}
<1>1. 0 \in T
  <2>. DEFINE g == [i \in 0..0 |-> <<>>]
  <2>1. g \in [0..0 -> C] /\ \A i \in 0..0 : g[i] = CodeStep(values, g, i)
    BY DEF CodeStep
  <2>. QED  BY <2>1
<1>2. ASSUME NEW k \in Nat, k \in T PROVE k + 1 \in T
  <2>. SUFFICES ASSUME k + 1 <= n
                PROVE  \E g \in [0..k + 1 -> C] :
                         \A i \in 0..k + 1 : g[i] = CodeStep(values, g, i)
    OBVIOUS
  <2>1. PICK g \in [0..k -> C] : \A i \in 0..k : g[i] = CodeStep(values, g, i)
    BY <1>2
  <2>. DEFINE c == g[k] \o values[k + 1].code
              h == [i \in 0..k + 1 |-> IF i = k + 1 THEN c ELSE g[i]]
  <2>2. c \in C
    <3>1. g[k] \in C /\ values[k + 1].code \in C
      OBVIOUS
    <3>. QED  BY <3>1
  <2>. HIDE DEF c
  <2>3. h \in [0..k + 1 -> C]
    BY <2>2
  <2>4. ASSUME NEW i \in 0..k + 1 PROVE h[i] = CodeStep(values, h, i)
    <3>1. CASE i = k + 1
      <4>1. h[i] = c /\ h[i - 1] = g[k] /\ i # 0
        BY <3>1
      <4>. HIDE DEF h
      <4>2. h[i] = h[i - 1] \o values[i].code
        BY <3>1, <4>1 DEF c
      <4>. QED  BY <4>1, <4>2 DEF CodeStep
    <3>2. CASE i \in 0..k
      <4>1. h[i] = g[i] /\ (i # 0 => h[i - 1] = g[i - 1])
        BY <3>2
      <4>. HIDE DEF h
      <4>. QED  BY <2>1, <3>2, <4>1 DEF CodeStep
    <3>. QED  BY <3>1, <3>2
  <2>. HIDE DEF h
  <2>. QED  BY <2>3, <2>4
<1>3. n \in T
  <2>. HIDE DEF T
  <2>1. Nat \subseteq T
    BY <1>1, <1>2, Induction
  <2>. QED  BY <2>1
<1>4. PICK g \in [0..n -> C] : \A i \in 0..n : g[i] = CodeStep(values, g, i)
  BY <1>3
<1>5. g = [i \in 0..n |-> IF i = 0 THEN <<>> ELSE g[i - 1] \o values[i].code]
  BY <1>4 DEF CodeStep
<1>. DEFINE code == CHOOSE code : code = [i \in 0..n |-> IF i = 0 THEN <<>>
                                                          ELSE code[i - 1] \o values[i].code]
<1>6. code = [i \in 0..n |-> IF i = 0 THEN <<>> ELSE code[i - 1] \o values[i].code]
  BY <1>5
<1>7. Gen!CodeOf(values, n) = code[n]
  BY DEF Gen!CodeOf
<1>. HIDE DEF code
<1>. DEFINE W == {k \in Nat : k <= n => code[k] \in C}
<1>8. 0 \in W
  <2>1. code[0] = <<>>
    BY <1>6
  <2>. QED  BY <2>1
<1>9. ASSUME NEW k \in Nat, k \in W PROVE k + 1 \in W
  <2>. SUFFICES ASSUME k + 1 <= n PROVE code[k + 1] \in C
    OBVIOUS
  <2>1. code[k + 1] = code[k] \o values[k + 1].code
    BY <1>6
  <2>2. code[k] \in C /\ values[k + 1].code \in C
    BY <1>9
  <2>. QED  BY <2>1, <2>2
<1>10. n \in W
  <2>. HIDE DEF W
  <2>1. Nat \subseteq W
    BY <1>8, <1>9, Induction
  <2>. QED  BY <2>1
<1>. QED  BY <1>7, <1>10

LEMMA CodeOfSeq ==
  ASSUME NEW S, NEW n \in Nat, NEW values, \A i \in 1..n : values[i].code \in Seq(S)
  PROVE  Gen!CodeOf(values, n) \in Seq(S)
<1>. DEFINE C == Seq(S)
<1>1. <<>> \in C /\ \A a, b \in C : a \o b \in C
  BY EmptySeq, ConcatProperties
<1>2. \A i \in 1..n : values[i].code \in C
  OBVIOUS
<1>. HIDE DEF C
<1>3. Gen!CodeOf(values, n) \in C
  BY <1>1, <1>2, CodeOfIn
<1>. QED  BY <1>3 DEF C

LEMMA CodeOfTyped ==
  ASSUME NEW n \in Nat, NEW values, \A i \in 1..n : values[i].code \in Code
  PROVE  Gen!CodeOf(values, n) \in Code
<1>. QED  BY CodeOfSeq DEF Code
-----------------------------------------------------------------------------
(***************************************************************************)
(* The blocks that wait: what bodies that are open ask of the function's   *)
(* blocks when code goes to block b.                                       *)
(***************************************************************************)
\* The block that frame f goes on in is empty, and code goes elsewhere.
WaitsFor(f, blocks, b) ==
  f.next # 0 => f.next \in 1..Len(blocks) /\ blocks[f.next] = <<>> /\ f.next # b

\* The condition of a loop is complete and leads to the block that waits.
LoopsBack(f, blocks, b) ==
  f.back # 0 => /\ f.next # 0 /\ f.back \in 1..Len(blocks) /\ f.back # b
                /\ blocks[f.back] # <<>>
                /\ f.next \in blocks[f.back][Len(blocks[f.back])].to

Distinct(fr) == \A i, j \in 1..Len(fr) : fr[i].next # 0 /\ fr[j].next = fr[i].next => i = j

\* Only loops go back.
Open(fr, blocks, b) ==
  /\ b \in 1..Len(blocks)
  /\ \A i \in 1..Len(fr) : /\ WaitsFor(fr[i], blocks, b) /\ LoopsBack(fr[i], blocks, b)
                           /\ fr[i].kind \notin {"for", "while"} => fr[i].back = 0
  /\ Distinct(fr)

\* Code in block b, or new blocks, disturb no frame.
LEMMA OpenKept ==
  ASSUME NEW fr, NEW blocks \in Seq(Code), NEW after \in Seq(Code), NEW b,
         Open(fr, blocks, b), Len(blocks) <= Len(after),
         \A c \in 1..Len(blocks) : c # b => after[c] = blocks[c]
  PROVE  Open(fr, after, b)
<1>1. Len(blocks) \in Nat /\ Len(after) \in Nat
  BY LenProperties
<1>2. b \in 1..Len(after)
  BY <1>1 DEF Open
<1>3. ASSUME NEW i \in 1..Len(fr)
      PROVE  WaitsFor(fr[i], after, b) /\ LoopsBack(fr[i], after, b)
  BY <1>1 DEF Open, WaitsFor, LoopsBack
<1>. QED  BY <1>2, <1>3 DEF Open

LEMMA FrontFacts ==
  ASSUME NEW S, NEW s \in Seq(S), s # <<>>
  PROVE  /\ Front(s) \in Seq(S) /\ Len(Front(s)) = Len(s) - 1
         /\ \A i \in 1..Len(s) - 1 : Front(s)[i] = s[i]
<1>. DEFINE n == Len(s)
            t == SubSeq(s, 1, n - 1)
<1>1. n \in Nat /\ n > 0 /\ \A i \in 1..n : s[i] \in S
  BY LenProperties, EmptySeq, ElementOfSeq
<1>. HIDE DEF n
<1>2. \A i \in 1..n - 1 : s[i] \in S
  BY <1>1
<1>3. /\ t \in Seq(S) /\ Len(t) = IF 1 <= n - 1 THEN n - 1 - 1 + 1 ELSE 0
      /\ \A i \in 1..n - 1 - 1 + 1 : t[i] = s[1 + i - 1]
  BY <1>1, <1>2, SubSeqProperties
<1>. HIDE DEF t
<1>4. Len(t) = n - 1
  BY <1>1, <1>3
<1>5. ASSUME NEW i \in 1..n - 1 PROVE t[i] = s[i]
  <2>1. i \in 1..n - 1 - 1 + 1 /\ 1 + i - 1 = i
    BY <1>1
  <2>2. t[i] = s[1 + i - 1]
    BY <1>3, <2>1
  <2>. QED  BY <2>1, <2>2
<1>. QED  BY <1>3, <1>4, <1>5 DEF Front, n, t

\* A body is opened: code goes to a new block, and the blocks that the new frame
\* names are new as well.
LEMMA OpenPush ==
  ASSUME NEW fr \in Seq(FrameSet), NEW blocks \in Seq(Code), NEW after \in Seq(Code),
         NEW b, NEW d \in Len(blocks) + 1..Len(after), NEW f \in FrameSet,
         Open(fr, blocks, b), Len(blocks) <= Len(after),
         \A c \in 1..Len(blocks) : c # b => after[c] = blocks[c],
         WaitsFor(f, after, d), LoopsBack(f, after, d),
         f.kind \notin {"for", "while"} => f.back = 0,
         f.next # 0 => f.next > Len(blocks)
  PROVE  Open(Append(fr, f), after, d)
<1>1. Len(blocks) \in Nat /\ Len(after) \in Nat /\ Len(fr) \in Nat
  BY LenProperties
<1>. DEFINE gr == Append(fr, f)
<1>2. /\ Len(gr) = Len(fr) + 1 /\ gr[Len(fr) + 1] = f
      /\ \A i \in 1..Len(fr) : gr[i] = fr[i]
  BY AppendProperties
<1>. HIDE DEF gr
<1>3. \A i \in 1..Len(fr) : fr[i] \in FrameSet
  BY ElementOfSeq
<1>4. ASSUME NEW i \in 1..Len(fr)
      PROVE  /\ WaitsFor(fr[i], after, d) /\ LoopsBack(fr[i], after, d)
             /\ fr[i].kind \notin {"for", "while"} => fr[i].back = 0
             /\ fr[i].next # 0 => fr[i].next <= Len(blocks)
  <2>1. /\ WaitsFor(fr[i], blocks, b) /\ LoopsBack(fr[i], blocks, b)
        /\ fr[i].kind \notin {"for", "while"} => fr[i].back = 0
    BY DEF Open
  <2>2. fr[i].next # 0 => fr[i].next \in 1..Len(blocks) /\ fr[i].next # d
    BY <1>1, <2>1 DEF WaitsFor
  <2>3. WaitsFor(fr[i], after, d)
    BY <1>1, <2>1, <2>2 DEF WaitsFor
  <2>4. LoopsBack(fr[i], after, d)
    BY <1>1, <2>1 DEF LoopsBack
  <2>. QED  BY <1>1, <2>1, <2>2, <2>3, <2>4
<1>5. Distinct(gr)
  <2>1. ASSUME NEW i \in 1..Len(gr), NEW j \in 1..Len(gr),
               gr[i].next # 0, gr[j].next = gr[i].next
        PROVE  i = j
    <3>1. f.next \in Nat
      BY DEF FrameSet
    <3>2. CASE i \in 1..Len(fr) /\ j \in 1..Len(fr)
      BY <1>2, <2>1, <3>2 DEF Open, Distinct
    <3>3. CASE i = Len(fr) + 1 /\ j \in 1..Len(fr)
      <4>1. fr[j].next = f.next /\ f.next # 0
        BY <1>2, <2>1, <3>3
      <4>2. fr[j].next <= Len(blocks) /\ f.next > Len(blocks)
        BY <1>4, <3>3, <4>1
      <4>. QED  BY <1>1, <3>1, <4>1, <4>2
    <3>4. CASE j = Len(fr) + 1 /\ i \in 1..Len(fr)
      <4>1. fr[i].next = f.next /\ f.next # 0
        BY <1>2, <2>1, <3>4
      <4>2. fr[i].next <= Len(blocks) /\ f.next > Len(blocks)
        BY <1>4, <3>4, <4>1
      <4>. QED  BY <1>1, <3>1, <4>1, <4>2
    <3>. QED  BY <1>1, <1>2, <3>2, <3>3, <3>4
  <2>. QED  BY <2>1 DEF Distinct
<1>6. d \in 1..Len(after)
  BY <1>1
<1>7. ASSUME NEW i \in 1..Len(gr)
      PROVE  /\ WaitsFor(gr[i], after, d) /\ LoopsBack(gr[i], after, d)
             /\ gr[i].kind \notin {"for", "while"} => gr[i].back = 0
  <2>1. CASE i \in 1..Len(fr)
    BY <1>2, <1>4, <2>1
  <2>2. CASE i = Len(fr) + 1
    BY <1>2, <2>2
  <2>. QED  BY <1>1, <1>2, <2>1, <2>2
<1>. QED  BY <1>5, <1>6, <1>7 DEF Open, gr

\* The innermost body is over: code goes to the block that waited for it, if one
\* did, and the frames around it still have theirs.
LEMMA OpenPop ==
  ASSUME NEW fr \in Seq(FrameSet), fr # <<>>, NEW blocks \in Seq(Code), NEW b,
         Open(fr, blocks, b)
  PROVE  LET f == fr[Len(fr)]
         IN  Open(Front(fr), blocks, IF f.next = 0 THEN b ELSE f.next)
<1>. DEFINE f == fr[Len(fr)]
            d == IF f.next = 0 THEN b ELSE f.next
            gr == Front(fr)
<1>1. Len(blocks) \in Nat /\ Len(fr) \in Nat /\ Len(fr) > 0
  BY LenProperties, EmptySeq
<1>2. /\ Len(gr) = Len(fr) - 1
      /\ \A i \in 1..Len(fr) - 1 : gr[i] = fr[i]
  BY FrontFacts
<1>. HIDE DEF gr
<1>3. WaitsFor(f, blocks, b)
  BY <1>1 DEF Open
<1>4. d \in 1..Len(blocks)
  BY <1>3 DEF Open, WaitsFor
<1>5. ASSUME NEW i \in 1..Len(gr)
      PROVE  /\ WaitsFor(gr[i], blocks, d) /\ LoopsBack(gr[i], blocks, d)
             /\ gr[i].kind \notin {"for", "while"} => gr[i].back = 0
  <2>1. i \in 1..Len(fr) /\ i # Len(fr) /\ gr[i] = fr[i]
    BY <1>1, <1>2
  <2>2. /\ WaitsFor(fr[i], blocks, b) /\ LoopsBack(fr[i], blocks, b)
        /\ fr[i].kind \notin {"for", "while"} => fr[i].back = 0
    BY <2>1 DEF Open
  <2>3. f.next # 0 => fr[i].next # f.next
    BY <1>1, <2>1 DEF Open, Distinct
  <2>. QED  BY <1>3, <2>1, <2>2, <2>3 DEF WaitsFor, LoopsBack
<1>6. Distinct(gr)
  BY <1>1, <1>2 DEF Open, Distinct
<1>. HIDE DEF d
<1>7. Open(gr, blocks, d)
  BY <1>4, <1>5, <1>6 DEF Open
<1>. QED  BY <1>7 DEF gr, d

\* An else body has nothing to wait for.
LEMMA OpenElse ==
  ASSUME NEW fr \in Seq(FrameSet), NEW blocks \in Seq(Code), NEW b, Open(fr, blocks, b),
         NEW f \in FrameSet, f.next = 0, f.back = 0
  PROVE  Open(Append(fr, f), blocks, b)
<1>1. Len(fr) \in Nat
  BY LenProperties
<1>. DEFINE gr == Append(fr, f)
<1>2. /\ Len(gr) = Len(fr) + 1 /\ gr[Len(fr) + 1] = f
      /\ \A i \in 1..Len(fr) : gr[i] = fr[i]
  BY AppendProperties
<1>. HIDE DEF gr
<1>3. ASSUME NEW i \in 1..Len(gr)
      PROVE  /\ WaitsFor(gr[i], blocks, b) /\ LoopsBack(gr[i], blocks, b)
             /\ gr[i].kind \notin {"for", "while"} => gr[i].back = 0
  <2>1. CASE i \in 1..Len(fr)
    BY <1>2, <2>1 DEF Open
  <2>2. CASE i = Len(fr) + 1
    BY <1>2, <2>2 DEF WaitsFor, LoopsBack
  <2>. QED  BY <1>1, <1>2, <2>1, <2>2
<1>4. Distinct(gr)
  <2>1. ASSUME NEW i \in 1..Len(gr), NEW j \in 1..Len(gr),
               gr[i].next # 0, gr[j].next = gr[i].next
        PROVE  i = j
    <3>1. i \in 1..Len(fr) /\ j \in 1..Len(fr)
      BY <1>1, <1>2, <2>1
    <3>. QED  BY <1>2, <2>1, <3>1 DEF Open, Distinct
  <2>. QED  BY <2>1 DEF Distinct
<1>. QED  BY <1>3, <1>4 DEF Open, gr
-----------------------------------------------------------------------------
(***************************************************************************)
(* The inductive invariant of the generator.                               *)
(***************************************************************************)
\* The visits under way are those of stack s.
FramesAre(s) == Len(frames) = Len(s) /\ \A i \in 1..Len(frames) : frames[i].kind = s[i]

\* The blocks of the function that was created last.
NewestBlocks == functions[Len(functions)].blocks

\* In a body code goes to the newest function, whose blocks are as the frames
\* expect them; between functions it goes nowhere or to the entry of main.
InsertOk ==
  /\ frames # <<>> => /\ functions # <<>> /\ insert.function = Len(functions)
                      /\ Open(frames, NewestBlocks, insert.block)
  /\ frames = <<>> /\ insert # Gen!NoInsert =>
       /\ symbols["main"].kind # "none"
       /\ insert = Gen!EntryOf(IF symbols["main"].kind = "global"
                                 THEN Len(functions) ELSE Gen!MainIndex)

\* The generator has come to the node whose surroundings the stack s gives.
Reached(st) == /\ Nested(ast, st) /\ Ordered(ast, st) /\ st[Len(ast)] = <<>>
               /\ FramesAre(st[pos - 1])

GenInv ==
  /\ outcome # "accepted" => Gen!Init
  /\ GenTypeOK
  /\ outcome = "accepted" /\ status # "done" => InsertOk /\ \E st : Reached(st)

CompilerInv == ScopesInv /\ NestingInv /\ GenInv

\* The generator visits a node that takes the stack from s to t.
AtNode(s, t) ==
  /\ GenTypeOK /\ InsertOk /\ status = "generating"
  /\ pos \in 1..Len(ast) /\ ast[pos] \in Node
  /\ s \in Seq(VisitKinds) /\ t \in Seq(VisitKinds) /\ Rooted(s)
  /\ Follows(ast[pos], s, t) /\ FramesAre(s)

Keeps      == GenTypeOK' /\ InsertOk'
Arrives(t) == Keeps /\ pos' = pos + 1 /\ FramesAre(t)'
Fails      == Keeps /\ UNCHANGED <<pos, frames>>
-----------------------------------------------------------------------------
LEMMA NodeFields ==
  ASSUME NEW node \in Node
  PROVE  /\ node.node \in {"expression", "print", "return", "while", "if", "ifElse"} =>
              node.expr \in Expression
         /\ node.node = "for" => node.start \in Expression /\ node.end \in Expression
         /\ node.node = "declaration" =>
              /\ node.name \in Names /\ node.elements \in Seq(Expression)
              /\ node.type \in {"int", "float", "string", "bool", "array"}
         /\ node.node = "function" =>
              /\ node.name \in Names /\ node.parameters \in Seq(ParamInfo)
              /\ node.returnType \in ReturnTypes
         /\ node.node = "call" => node.name \in Names /\ node.arguments \in Seq(Expression)
BY DEF Node

\* The visits that are under way, by the node that is visited.
LEMMA FramesAtNode ==
  ASSUME NEW s, NEW t, AtNode(s, t)
  PROVE  /\ frames = <<>> <=> s = <<>>
         /\ ast[pos].node \in {"print", "return", "while", "for", "if", "ifElse", "end"} =>
              frames # <<>>
         /\ ast[pos].node \in {"declaration", "call", "function"} => frames = <<>>
<1>1. /\ frames \in Seq(FrameSet) /\ s \in Seq(VisitKinds) /\ Len(frames) = Len(s)
  BY DEF AtNode, GenTypeOK, FramesAre
<1>2. /\ frames = <<>> <=> Len(frames) = 0
      /\ s = <<>> <=> Len(s) = 0
  BY <1>1, EmptySeq
<1>3. frames = <<>> <=> s = <<>>
  BY <1>1, <1>2
<1>4. /\ ast[pos].node \in {"print", "return", "while", "for", "if", "ifElse", "end"} => s # <<>>
      /\ ast[pos].node \in {"declaration", "call", "function"} => s = <<>>
  <2>1. <<"function">> # <<>>
    OBVIOUS
  <2>. QED  BY <2>1 DEF AtNode, Follows
<1>. QED  BY <1>3, <1>4

LEMMA ReadableState == GenTypeOK /\ ast \in Seq(Node) => Readable
<1>1. ast \in Seq(Node) => Len(ast) \in Nat
  BY LenProperties
<1>. QED  BY <1>1 DEF GenTypeOK, Readable

\* In a body code goes to a block of the newest function.
LEMMA BodyPlace ==
  ASSUME GenTypeOK, InsertOk, frames # <<>>
  PROVE  /\ Len(functions) \in 1..Len(functions)
         /\ insert.function = Len(functions)
         /\ insert.block \in 1..Len(NewestBlocks)
         /\ insert.function \in Nat
         /\ NewestBlocks \in Seq(Code)
         /\ Open(frames, NewestBlocks, insert.block)
<1>1. /\ functions \in Seq(Function) /\ functions # <<>>
      /\ insert.function = Len(functions)
      /\ Open(frames, NewestBlocks, insert.block)
  BY DEF GenTypeOK, InsertOk
<1>2. Len(functions) \in Nat /\ Len(functions) > 0
  BY <1>1, EmptySeq
<1>3. Len(functions) \in 1..Len(functions)
  BY <1>2
<1>4. NewestBlocks \in Seq(Code)
  BY <1>1, <1>3, BlocksFacts DEF NewestBlocks
<1>. QED  BY <1>1, <1>2, <1>3, <1>4 DEF Open

\* Code in a body leaves every block but its own alone.
LEMMA BodyCode ==
  ASSUME GenTypeOK, InsertOk, frames # <<>>, NEW code \in Code,
         functions' = Gen!Put(functions, insert, code)
  PROVE  /\ functions' \in Seq(Function) /\ Len(functions') = Len(functions)
         /\ functions' # <<>>
         /\ NewestBlocks' \in Seq(Code) /\ Len(NewestBlocks') = Len(NewestBlocks)
         /\ Open(frames, NewestBlocks', insert.block)
         /\ SymbolsOk(symbols, Len(functions'))
<1>. DEFINE f == Len(functions)
            gs == Gen!Put(functions, insert, code)
<1>1. /\ f \in 1..Len(functions) /\ insert.function = f
      /\ insert.block \in 1..Len(functions[f].blocks)
      /\ functions[f].blocks \in Seq(Code)
      /\ Open(frames, functions[f].blocks, insert.block)
      /\ functions \in Seq(Function)
  BY BodyPlace DEF NewestBlocks, GenTypeOK
<1>2. /\ gs \in Seq(Function) /\ Len(gs) = Len(functions)
      /\ Len(gs[f].blocks) = Len(functions[f].blocks)
      /\ \A c \in 1..Len(functions[f].blocks) :
           c # insert.block => gs[f].blocks[c] = functions[f].blocks[c]
  <2>. HIDE DEF f
  <2>. QED  BY <1>1, PutFacts
<1>. HIDE DEF gs
<1>3. gs[f].blocks \in Seq(Code)
  BY <1>1, <1>2, BlocksFacts
<1>4. Len(functions[f].blocks) \in Nat
  BY <1>1, LenProperties
<1>5. Open(frames, gs[f].blocks, insert.block)
  BY <1>1, <1>2, <1>3, <1>4, OpenKept
<1>6. NewestBlocks' = gs[f].blocks /\ functions' = gs
  BY <1>2 DEF NewestBlocks, gs
<1>7. gs # <<>>
  BY <1>1, <1>2
<1>. QED  BY <1>2, <1>3, <1>5, <1>6, <1>7 DEF GenTypeOK, NewestBlocks

LEMMA FailStep ==
  ASSUME GenTypeOK, InsertOk, NEW how \in {"threw", "crashed"}, Gen!Fail(how), UNCHANGED ast
  PROVE  Fails
BY DEF Gen!Fail, Fails, Keeps, GenTypeOK, InsertOk, NewestBlocks, Gen!MainIndex, Gen!MainExists

LEMMA NullTyped == Gen!Null \in Value
BY ConstantTyped DEF Gen!Null, ValueTypes

\* A statement that only adds code where the builder is.
LEMMA PlainStatement ==
  ASSUME NEW s, NEW t, AtNode(s, t), t = s, frames # <<>>, NEW code \in Code,
         functions' = Gen!Put(functions, insert, code), Gen!Evaluated,
         SymbolsOk(symbols', Len(functions)),
         UNCHANGED <<globals, currentLocals, insert, frames, ast>>
  PROVE  Arrives(t)
<1>1. GenTypeOK /\ InsertOk /\ pos \in 1..Len(ast) /\ FramesAre(s) /\ status = "generating"
  BY DEF AtNode
<1>2. /\ functions' \in Seq(Function) /\ Len(functions') = Len(functions)
      /\ functions' # <<>>
      /\ Open(frames, NewestBlocks', insert.block)
  BY <1>1, BodyCode
<1>3. pos' = pos + 1 /\ status' = status /\ lastValue' = Gen!Null
  BY DEF Gen!Evaluated, Gen!Proceed
<1>4. GenTypeOK'
  BY <1>1, <1>2, <1>3, NullTyped DEF GenTypeOK
<1>5. InsertOk'
  BY <1>1, <1>2 DEF InsertOk
<1>. QED  BY <1>1, <1>3, <1>4, <1>5 DEF Arrives, Keeps, FramesAre

\* The names of the C library are among the module's symbols.
LEMMA SymbolNamesFacts ==
  /\ "main" \in Gen!SymbolNames /\ "printf" \in Gen!SymbolNames /\ "printf" # "main"
  /\ Names \subseteq Gen!SymbolNames
BY DEF Gen!SymbolNames

\* The strings of a log are none of those that the C library or main needs.
LEMMA FormatsFacts ==
  /\ "main" \notin Gen!Formats /\ "printf" \notin Gen!Formats
  /\ \A type : Gen!FormatsOf(type) \subseteq Gen!Formats
<1>1. \A type \in {Gen!I32, Gen!Float, Gen!I1, Gen!Ptr} :
        /\ Gen!FormatsOf(type) \subseteq Gen!Formats
        /\ "main" \notin Gen!FormatsOf(type) /\ "printf" \notin Gen!FormatsOf(type)
  BY DEF Gen!Formats, Gen!FormatsOf
<1>2. \A type : type \notin {Gen!I32, Gen!Float, Gen!I1, Gen!Ptr} => Gen!FormatsOf(type) = {}
  BY DEF Gen!FormatsOf
<1>3. "main" \notin Gen!Formats /\ "printf" \notin Gen!Formats
  BY <1>1 DEF Gen!Formats
<1>. QED  BY <1>1, <1>2, <1>3, Zenon

\* What a log does to the symbols: names that were free become printf and its
\* strings.
PrintClaims ==
  \A n \in Gen!SymbolNames :
    \/ symbols'[n] = symbols[n]
    \/ /\ symbols[n] = Gen!NoSymbol
       /\ \/ n = "printf" /\ symbols'[n] = Gen!Symbol("library", 0)
          \/ n \in Gen!Formats /\ symbols'[n] = Gen!Symbol("global", 0)

LEMMA PrintSymbols ==
  ASSUME GenTypeOK, Gen!VisitPrintStatement
  PROVE  SymbolsOk(symbols', Len(functions)) /\ PrintClaims
<1>. DEFINE table == Gen!Claim(symbols, "printf", Gen!Symbol("library", 0))
            v == Gen!Evaluate(ast[pos].expr, lastValue, insert.function)
            all == Gen!ClaimAll(table, Gen!FormatsOf(v.type), Gen!Symbol("global", 0))
<1>1. symbols' = IF Gen!Printable(v) THEN all ELSE table
  BY DEF Gen!VisitPrintStatement, Gen!node, Gen!Here
<1>2. SymbolsOk(symbols, Len(functions)) /\ Len(functions) \in Nat
  BY LenProperties DEF GenTypeOK
<1>3. /\ SymbolsOk(table, Len(functions))
      /\ \A m \in Gen!SymbolNames : m # "printf" => table[m] = symbols[m]
      /\ table["printf"] = IF symbols["printf"] = Gen!NoSymbol
                             THEN Gen!Symbol("library", 0) ELSE symbols["printf"]
  BY <1>2, SymbolNamesFacts, ClaimFacts
<1>. HIDE DEF table, v
<1>4. Gen!FormatsOf(v.type) \subseteq Gen!Formats
  BY FormatsFacts
<1>5. /\ DOMAIN table = Gen!SymbolNames
      /\ \A m \in Gen!SymbolNames :
           all[m] = IF m \in Gen!FormatsOf(v.type) /\ table[m] = Gen!NoSymbol
                      THEN Gen!Symbol("global", 0) ELSE table[m]
      /\ all \in [Gen!SymbolNames -> [kind : {"none", "function", "global", "library"}, index : Nat]]
  <2>1. DOMAIN table = Gen!SymbolNames
    BY <1>3 DEF SymbolsOk
  <2>2. Gen!Symbol("global", 0) \in [kind : {"none", "function", "global", "library"}, index : Nat]
    BY DEF Gen!Symbol
  <2>3. all = [n \in Gen!SymbolNames |->
                 IF n \in Gen!FormatsOf(v.type) /\ table[n] = Gen!NoSymbol
                   THEN Gen!Symbol("global", 0) ELSE table[n]]
    BY <2>1 DEF Gen!ClaimAll
  <2>4. table \in [Gen!SymbolNames -> [kind : {"none", "function", "global", "library"}, index : Nat]]
    BY <1>3 DEF SymbolsOk
  <2>. HIDE DEF all
  <2>. QED  BY <2>1, <2>2, <2>3, <2>4
<1>6. Gen!Symbol("global", 0).kind = "global"
  BY DEF Gen!Symbol
<1>. HIDE DEF all
<1>7. SymbolsOk(all, Len(functions))
  <2>1. \A m \in Gen!SymbolNames : all[m] = table[m] \/ all[m] = Gen!Symbol("global", 0)
    BY <1>5, Zenon
  <2>2. \A m \in Gen!SymbolNames : /\ table[m].kind = "none" => table[m].index = 0
                                   /\ table[m].kind = "function" => table[m].index \in 1..Len(functions)
    BY <1>3, Zenon DEF SymbolsOk
  <2>3. \A m \in Gen!SymbolNames : /\ all[m].kind = "none" => all[m].index = 0
                                   /\ all[m].kind = "function" => all[m].index \in 1..Len(functions)
    BY <1>6, <2>1, <2>2
  <2>4. all["main"].kind # "library"
    BY <1>3, <1>6, <2>1, SymbolNamesFacts DEF SymbolsOk
  <2>. QED  BY <1>5, <2>3, <2>4, Zenon DEF SymbolsOk
<1>8. SymbolsOk(symbols', Len(functions))
  BY <1>1, <1>3, <1>7
<1>9. PrintClaims
  BY <1>1, <1>3, <1>4, <1>5, FormatsFacts DEF PrintClaims
<1>. QED  BY <1>8, <1>9

LEMMA ExpressionStatementStep ==
  ASSUME NEW s, NEW t, AtNode(s, t), ast \in Seq(Node), UNCHANGED ast,
         Gen!VisitExpressionStatement
  PROVE  Arrives(t)
<1>. DEFINE v == Gen!Evaluate(ast[pos].expr, lastValue, insert.function)
<1>1. /\ ast[pos].node = "expression" /\ frames # <<>>
      /\ functions' = Gen!Put(functions, insert, v.code)
      /\ Gen!Evaluated
      /\ UNCHANGED <<globals, currentLocals, symbols, insert, frames>>
  BY DEF Gen!VisitExpressionStatement, Gen!At, Gen!node, Gen!Here
<1>2. t = s
  BY <1>1 DEF AtNode, Follows
<1>3. v \in Value
  <2>1. ast[pos].expr \in Expression
    BY <1>1, NodeFields DEF AtNode
  <2>2. GenTypeOK /\ lastValue \in Value /\ insert.function \in Nat
    BY DEF AtNode, GenTypeOK, Place
  <2>. QED  BY <2>1, <2>2, ReadableState, EvaluateTyped
<1>. HIDE DEF v
<1>4. v.code \in Code /\ SymbolsOk(symbols', Len(functions))
  BY <1>1, <1>3 DEF Value, AtNode, GenTypeOK
<1>. QED  BY <1>1, <1>2, <1>4, PlainStatement

LEMMA PrintStatementStep ==
  ASSUME NEW s, NEW t, AtNode(s, t), ast \in Seq(Node), UNCHANGED ast,
         Gen!VisitPrintStatement
  PROVE  Arrives(t)
<1>. DEFINE v == Gen!Evaluate(ast[pos].expr, lastValue, insert.function)
            callee == IF symbols["printf"].kind = "global" THEN "printf.1" ELSE "printf"
            instr == Gen!Instr("print", callee, symbols["printf"].kind # "function")
            print == <<instr>>
            code  == v.code \o IF Gen!Printable(v) THEN print ELSE <<>>
<1>1. /\ ast[pos].node = "print"
      /\ functions' = Gen!Put(functions, insert, code)
      /\ Gen!Evaluated
      /\ UNCHANGED <<globals, currentLocals, insert, frames>>
  BY DEF Gen!VisitPrintStatement, Gen!At, Gen!node, Gen!Here
<1>2. t = s /\ frames # <<>>
  BY <1>1, FramesAtNode DEF AtNode, Follows
<1>3. code \in Code
  <2>1. v \in Value
    <3>1. ast[pos].expr \in Expression
      BY <1>1, NodeFields DEF AtNode
    <3>2. GenTypeOK /\ lastValue \in Value /\ insert.function \in Nat
      BY DEF AtNode, GenTypeOK, Place
    <3>. QED  BY <3>1, <3>2, ReadableState, EvaluateTyped
  <2>. HIDE DEF v
  <2>2. instr \in Instruction
    <3>1. pos \in Nat
      BY ReadableState DEF AtNode, Readable
    <3>2. callee \in InstrNames
      BY SymbolNamesFacts DEF InstrNames
    <3>3. (symbols["printf"].kind # "function") \in BOOLEAN
      OBVIOUS
    <3>. HIDE DEF callee
    <3>. QED  BY <3>1, <3>2, <3>3, InstrTyped
  <2>. HIDE DEF instr
  <2>3. v.code \in Seq(Instruction) /\ print \in Seq(Instruction) /\ <<>> \in Seq(Instruction)
    BY <2>1, <2>2, EmptySeq DEF Value, Code
  <2>. HIDE DEF print
  <2>. QED  BY <2>3, ConcatProperties DEF Code
<1>. HIDE DEF code
<1>4. SymbolsOk(symbols', Len(functions))
  BY PrintSymbols DEF AtNode
<1>. QED  BY <1>1, <1>2, <1>3, <1>4, PlainStatement

LEMMA ReturnStatementStep ==
  ASSUME NEW s, NEW t, AtNode(s, t), ast \in Seq(Node), UNCHANGED ast,
         Gen!VisitReturnStatement
  PROVE  Arrives(t)
<1>. DEFINE v == Gen!Evaluate(ast[pos].expr, lastValue, insert.function)
            instr == Gen!Instr("ret", "", v.type = functions[insert.function].result)
            ret  == <<instr>>
            code == v.code \o IF Gen!IsNull(v) THEN <<>> ELSE ret
<1>1. /\ ast[pos].node = "return"
      /\ functions' = Gen!Put(functions, insert, code)
      /\ Gen!Evaluated
      /\ UNCHANGED <<globals, currentLocals, symbols, insert, frames>>
  BY DEF Gen!VisitReturnStatement, Gen!At, Gen!node, Gen!Here
<1>2. t = s /\ frames # <<>>
  BY <1>1, FramesAtNode DEF AtNode, Follows
<1>3. code \in Code
  <2>1. v \in Value
    <3>1. ast[pos].expr \in Expression
      BY <1>1, NodeFields DEF AtNode
    <3>2. GenTypeOK /\ lastValue \in Value /\ insert.function \in Nat
      BY DEF AtNode, GenTypeOK, Place
    <3>. QED  BY <3>1, <3>2, ReadableState, EvaluateTyped
  <2>. HIDE DEF v
  <2>2. instr \in Instruction
    <3>1. pos \in Nat
      BY ReadableState DEF AtNode, Readable
    <3>2. (v.type = functions[insert.function].result) \in BOOLEAN
      OBVIOUS
    <3>. QED  BY <3>1, <3>2, InstrTyped, InstrNamesFacts
  <2>. HIDE DEF instr
  <2>3. v.code \in Seq(Instruction) /\ ret \in Seq(Instruction) /\ <<>> \in Seq(Instruction)
    BY <2>1, <2>2, EmptySeq DEF Value, Code
  <2>. HIDE DEF ret
  <2>. QED  BY <2>3, ConcatProperties DEF Code
<1>. HIDE DEF code
<1>4. SymbolsOk(symbols', Len(functions))
  BY <1>1 DEF AtNode, GenTypeOK
<1>. QED  BY <1>1, <1>2, <1>3, <1>4, PlainStatement
-----------------------------------------------------------------------------
(***************************************************************************)
(* The statements that open a body.                                        *)
(***************************************************************************)
LEMMA OpeningStatement ==
  ASSUME NEW s, NEW t, AtNode(s, t), frames # <<>>, UNCHANGED ast,
         NEW f \in FrameSet, t = Append(s, f.kind),
         functions' \in Seq(Function), Len(functions') = Len(functions),
         NewestBlocks' \in Seq(Code), Len(NewestBlocks) <= Len(NewestBlocks'),
         \A c \in 1..Len(NewestBlocks) : c # insert.block => NewestBlocks'[c] = NewestBlocks[c],
         NEW d \in Len(NewestBlocks) + 1..Len(NewestBlocks'),
         WaitsFor(f, NewestBlocks', d), LoopsBack(f, NewestBlocks', d),
         f.kind \notin {"for", "while"} => f.back = 0,
         f.next # 0 => f.next > Len(NewestBlocks),
         insert' = Gen!Block(d), frames' = Append(frames, f), Gen!Evaluated,
         UNCHANGED <<globals, currentLocals, symbols>>
  PROVE  Arrives(t)
<1>1. GenTypeOK /\ InsertOk /\ pos \in 1..Len(ast) /\ FramesAre(s) /\ s \in Seq(VisitKinds)
  BY DEF AtNode
<1>2. /\ frames \in Seq(FrameSet) /\ insert \in Place /\ f.kind \in VisitKinds
      /\ functions \in Seq(Function) /\ Len(functions) \in Nat
  BY <1>1, LenProperties DEF GenTypeOK, FrameSet
<1>3. /\ NewestBlocks \in Seq(Code) /\ Open(frames, NewestBlocks, insert.block)
      /\ insert.function = Len(functions) /\ Len(functions) > 0
  BY <1>1, <1>2, BodyPlace
<1>4. Open(frames', NewestBlocks', d)
  <2>. DEFINE old == NewestBlocks
              new == NewestBlocks'
  <2>. HIDE DEF old, new
  <2>1. /\ old \in Seq(Code) /\ new \in Seq(Code) /\ Open(frames, old, insert.block)
        /\ Len(old) <= Len(new)
        /\ \A c \in 1..Len(old) : c # insert.block => new[c] = old[c]
        /\ d \in Len(old) + 1..Len(new)
        /\ WaitsFor(f, new, d) /\ LoopsBack(f, new, d)
        /\ f.next # 0 => f.next > Len(old)
    BY <1>3 DEF old, new
  <2>2. Open(Append(frames, f), new, d)
    BY <1>2, <2>1, OpenPush
  <2>. QED  BY <2>2 DEF new
<1>5. /\ frames' \in Seq(FrameSet) /\ frames' # <<>> /\ Len(frames') = Len(frames) + 1
      /\ frames'[Len(frames) + 1] = f
      /\ \A i \in 1..Len(frames) : frames'[i] = frames[i]
  BY <1>2, AppendProperties
<1>6. /\ Len(t) = Len(s) + 1 /\ t[Len(s) + 1] = f.kind
      /\ \A i \in 1..Len(s) : t[i] = s[i]
  BY <1>1, <1>2, AppendProperties
<1>7. FramesAre(t)'
  <2>1. Len(frames) = Len(s) /\ \A i \in 1..Len(frames) : frames[i].kind = s[i]
    BY <1>1 DEF FramesAre
  <2>2. Len(frames) \in Nat
    BY <1>2, LenProperties
  <2>3. ASSUME NEW i \in 1..Len(frames') PROVE frames'[i].kind = t[i]
    <3>1. CASE i \in 1..Len(frames)
      BY <1>5, <1>6, <2>1, <3>1
    <3>2. CASE i = Len(frames) + 1
      BY <1>5, <1>6, <2>1, <3>2
    <3>3. i \in 1..Len(frames) \/ i = Len(frames) + 1
      <4>1. i \in 1..Len(frames) + 1
        BY <1>5
      <4>. QED  BY <2>2, <4>1
    <3>. QED  BY <3>1, <3>2, <3>3
  <2>4. Len(frames') = Len(t)
    BY <1>5, <1>6, <2>1
  <2>. QED  BY <2>3, <2>4 DEF FramesAre
<1>8. insert' \in Place /\ insert'.block = d /\ insert'.function = Len(functions')
  <2>1. d \in Nat
    BY <1>3, LenProperties
  <2>. QED  BY <1>2, <1>3, <2>1 DEF Place, Gen!Block
<1>9. pos' = pos + 1 /\ status' = status /\ lastValue' = Gen!Null
  BY DEF Gen!Evaluated, Gen!Proceed
<1>10. GenTypeOK'
  BY <1>1, <1>5, <1>8, <1>9, NullTyped DEF GenTypeOK
<1>11. InsertOk'
  <2>1. functions' # <<>>
    BY <1>2, <1>3, EmptySeq
  <2>. QED  BY <1>4, <1>5, <1>8, <2>1 DEF InsertOk
<1>. QED  BY <1>7, <1>9, <1>10, <1>11 DEF Arrives, Keeps

LEMMA LastOfConcat ==
  ASSUME NEW S, NEW s \in Seq(S), NEW u \in Seq(S), u # <<>>
  PROVE  /\ s \o u \in Seq(S) /\ s \o u # <<>>
         /\ (s \o u)[Len(s \o u)] = u[Len(u)]
<1>1. Len(s) \in Nat /\ Len(u) \in Nat /\ Len(u) > 0
  BY LenProperties, EmptySeq
<1>. DEFINE c == s \o u
<1>2. /\ c \in Seq(S) /\ Len(c) = Len(s) + Len(u)
      /\ \A i \in 1..Len(s) + Len(u) : c[i] = IF i <= Len(s) THEN s[i] ELSE u[i - Len(s)]
  BY ConcatProperties
<1>. HIDE DEF c
<1>3. c # <<>>
  BY <1>1, <1>2, EmptySeq
<1>4. c[Len(s) + Len(u)] = u[Len(s) + Len(u) - Len(s)]
  <2>1. Len(s) + Len(u) \in 1..Len(s) + Len(u) /\ ~(Len(s) + Len(u) <= Len(s))
    BY <1>1
  <2>. QED  BY <1>2, <2>1
<1>5. Len(s) + Len(u) - Len(s) = Len(u)
  BY <1>1
<1>. QED  BY <1>2, <1>3, <1>4, <1>5 DEF c

\* A loop gets three blocks, and its condition the first of them.
LEMMA LoopBlocks ==
  ASSUME GenTypeOK, InsertOk, frames # <<>>, NEW enter \in Code, NEW test \in Code,
         functions' = Gen!Put(Gen!Put(Gen!NewBlocks(functions, insert.function, 3), insert, enter),
                              Gen!Block(Len(NewestBlocks) + 1), test)
  PROVE  LET m == Len(NewestBlocks)
         IN  /\ functions' \in Seq(Function) /\ Len(functions') = Len(functions)
             /\ NewestBlocks' \in Seq(Code) /\ m \in Nat /\ Len(NewestBlocks') = m + 3
             /\ \A c \in 1..m : c # insert.block => NewestBlocks'[c] = NewestBlocks[c]
             /\ NewestBlocks'[m + 1] = test
             /\ NewestBlocks'[m + 2] = <<>> /\ NewestBlocks'[m + 3] = <<>>
<1>. DEFINE f  == Len(functions)
            m  == Len(functions[f].blocks)
            fs == Gen!NewBlocks(functions, f, 3)
            gs == Gen!Put(fs, insert, enter)
            at == Gen!Block(m + 1)
            hs == Gen!Put(gs, at, test)
<1>1. /\ f \in 1..Len(functions) /\ insert.function = f
      /\ insert.block \in 1..m /\ functions \in Seq(Function)
      /\ m \in Nat
  BY BodyPlace, LenProperties DEF NewestBlocks, GenTypeOK
<1>2. /\ fs \in Seq(Function) /\ Len(fs) = Len(functions)
      /\ Len(fs[f].blocks) = m + 3
      /\ \A c \in 1..m : fs[f].blocks[c] = functions[f].blocks[c]
      /\ \A c \in m + 1..m + 3 : fs[f].blocks[c] = <<>>
  <2>. HIDE DEF f
  <2>. QED  BY <1>1, NewBlocksFacts
<1>3. at.function = f /\ at.block = m + 1
  BY <1>1 DEF Gen!Block, GenTypeOK, Place
<1>. HIDE DEF fs, m, at
<1>4. /\ gs \in Seq(Function) /\ Len(gs) = Len(fs)
      /\ Len(gs[f].blocks) = m + 3
      /\ \A c \in 1..m + 3 : c # insert.block => gs[f].blocks[c] = fs[f].blocks[c]
  <2>1. /\ f \in 1..Len(fs) /\ insert.block \in 1..Len(fs[f].blocks)
        /\ fs \in Seq(Function) /\ insert.function = f
    BY <1>1, <1>2
  <2>. HIDE DEF f
  <2>2. /\ gs \in Seq(Function) /\ Len(gs) = Len(fs)
        /\ Len(gs[f].blocks) = Len(fs[f].blocks)
        /\ \A c \in 1..Len(fs[f].blocks) :
             c # insert.block => gs[f].blocks[c] = fs[f].blocks[c]
    BY <2>1, PutFacts
  <2>. HIDE DEF gs
  <2>. QED  BY <1>2, <2>2
<1>. HIDE DEF gs
<1>5. /\ hs \in Seq(Function) /\ Len(hs) = Len(gs)
      /\ Len(hs[f].blocks) = m + 3
      /\ \A c \in 1..m + 3 :
           hs[f].blocks[c] = IF c = m + 1 THEN gs[f].blocks[m + 1] \o test ELSE gs[f].blocks[c]
  <2>1. f \in 1..Len(gs) /\ m + 1 \in 1..Len(gs[f].blocks)
    BY <1>1, <1>2, <1>4
  <2>. HIDE DEF f
  <2>. QED  BY <1>3, <1>4, <2>1, PutFacts
<1>. HIDE DEF hs
<1>6. hs[f].blocks \in Seq(Code)
  BY <1>1, <1>2, <1>4, <1>5, BlocksFacts
<1>7. ASSUME NEW c \in 1..m, c # insert.block
      PROVE  hs[f].blocks[c] = functions[f].blocks[c]
  <2>1. c \in 1..m + 3 /\ c # m + 1
    BY <1>1
  <2>. QED  BY <1>2, <1>4, <1>5, <1>7, <2>1
<1>8. ASSUME NEW c \in m + 1..m + 3 PROVE gs[f].blocks[c] = <<>>
  <2>1. c \in 1..m + 3 /\ c # insert.block
    BY <1>1
  <2>. QED  BY <1>2, <1>4, <2>1
<1>9. hs[f].blocks[m + 2] = <<>> /\ hs[f].blocks[m + 3] = <<>>
  <2>1. /\ m + 2 \in 1..m + 3 /\ m + 2 \in m + 1..m + 3 /\ m + 2 # m + 1
        /\ m + 3 \in 1..m + 3 /\ m + 3 \in m + 1..m + 3 /\ m + 3 # m + 1
    BY <1>1
  <2>. QED  BY <1>5, <1>8, <2>1
<1>10. hs[f].blocks[m + 1] = test
  <2>1. hs[f].blocks[m + 1] = <<>> \o test
    <3>1. m + 1 \in 1..m + 3 /\ m + 1 \in m + 1..m + 3
      BY <1>1
    <3>. QED  BY <1>5, <1>8, <3>1
  <2>. QED  BY <2>1, ConcatEmptySeq DEF Code
<1>11. functions' = hs /\ m = Len(NewestBlocks)
  BY <1>1 DEF hs, gs, fs, at, m, NewestBlocks
<1>12. Len(hs) = Len(functions)
  BY <1>2, <1>4, <1>5
<1>13. NewestBlocks' = hs[f].blocks /\ NewestBlocks = functions[f].blocks
  BY <1>11, <1>12 DEF NewestBlocks
<1>. QED
  BY <1>1, <1>5, <1>6, <1>7, <1>9, <1>10, <1>11, <1>12, <1>13

\* A loop that is entered: its frame waits for the last of the three blocks.
LEMMA LoopStatement ==
  ASSUME NEW s, NEW t, AtNode(s, t), frames # <<>>, UNCHANGED ast,
         NEW kind \in {"for", "while"}, t = Append(s, kind),
         NEW enter \in Code, NEW test \in Code, test # <<>>,
         test[Len(test)].to = {Len(NewestBlocks) + 2, Len(NewestBlocks) + 3},
         functions' = Gen!Put(Gen!Put(Gen!NewBlocks(functions, insert.function, 3), insert, enter),
                              Gen!Block(Len(NewestBlocks) + 1), test),
         insert' = Gen!Block(Len(NewestBlocks) + 2),
         frames' = Append(frames, Gen!Frame(kind, Len(NewestBlocks) + 1, Len(NewestBlocks) + 3)),
         Gen!Evaluated, UNCHANGED <<globals, currentLocals, symbols>>
  PROVE  Arrives(t)
<1>. DEFINE m == Len(NewestBlocks)
            f == Gen!Frame(kind, m + 1, m + 3)
            d == m + 2
<1>1. GenTypeOK /\ InsertOk
  BY DEF AtNode
<1>2. /\ functions' \in Seq(Function) /\ Len(functions') = Len(functions)
      /\ NewestBlocks' \in Seq(Code) /\ m \in Nat /\ Len(NewestBlocks') = m + 3
      /\ \A c \in 1..m : c # insert.block => NewestBlocks'[c] = NewestBlocks[c]
      /\ NewestBlocks'[m + 1] = test
      /\ NewestBlocks'[m + 2] = <<>> /\ NewestBlocks'[m + 3] = <<>>
  BY <1>1, LoopBlocks
<1>3. f \in FrameSet /\ f.kind = kind /\ f.back = m + 1 /\ f.next = m + 3
  BY <1>1, <1>2 DEF Gen!Frame, FrameSet, VisitKinds, BodyKinds, GenTypeOK
<1>. HIDE DEF f
<1>4. WaitsFor(f, NewestBlocks', d) /\ LoopsBack(f, NewestBlocks', d)
  <2>1. m + 3 \in 1..Len(NewestBlocks') /\ m + 3 # 0 /\ m + 3 # d
        /\ m + 1 \in 1..Len(NewestBlocks') /\ m + 1 # d
    BY <1>2
  <2>2. m + 3 \in test[Len(test)].to
    OBVIOUS
  <2>. HIDE DEF m, d
  <2>. QED  BY <1>2, <1>3, <2>1, <2>2 DEF WaitsFor, LoopsBack
<1>5. /\ f.next > m /\ m <= Len(NewestBlocks')
      /\ d \in m + 1..Len(NewestBlocks')
  BY <1>2, <1>3
<1>6. t = Append(s, f.kind) /\ frames' = Append(frames, f) /\ insert' = Gen!Block(d)
  BY <1>3 DEF f
<1>7. f.kind \notin {"for", "while"} => f.back = 0
  BY <1>3
<1>. QED  BY <1>1, <1>2, <1>3, <1>4, <1>5, <1>6, <1>7, OpeningStatement

LEMMA WhileStep ==
  ASSUME NEW s, NEW t, AtNode(s, t), ast \in Seq(Node), UNCHANGED ast,
         Gen!VisitWhileLoopStatement
  PROVE  Arrives(t) \/ Fails
<1>. DEFINE v == Gen!Evaluate(ast[pos].expr, lastValue, insert.function)
            m == Len(NewestBlocks)
            jump == Gen!Branch("condbr", {m + 2, m + 3}, Gen!UsableIn(v, insert.function))
            test == Append(v.code, jump)
            goto == Gen!Branch("br", {m + 1}, TRUE)
            enter == <<goto>>
<1>1. ast[pos].node = "while" /\ GenTypeOK /\ InsertOk
  BY DEF Gen!VisitWhileLoopStatement, Gen!At, Gen!node, AtNode
<1>2. frames # <<>> /\ t = Append(s, "while")
  BY <1>1, FramesAtNode DEF AtNode, Follows, BodyKindOf
<1>3. m \in Nat /\ Gen!BlockCount = m
  <2>1. insert.function = Len(functions) /\ NewestBlocks \in Seq(Code)
    BY <1>1, <1>2, BodyPlace
  <2>. QED  BY <2>1, LenProperties DEF Gen!BlockCount, Gen!Here, NewestBlocks
<1>4. v \in Value
  <2>1. ast[pos].expr \in Expression
    BY <1>1, NodeFields DEF AtNode
  <2>2. GenTypeOK /\ lastValue \in Value /\ insert.function \in Nat
    BY DEF AtNode, GenTypeOK, Place
  <2>. QED  BY <2>1, <2>2, ReadableState, EvaluateTyped
<1>5. \/ \E how \in {"threw", "crashed"} : Gen!Fail(how)
      \/ /\ functions' = Gen!Put(Gen!Put(Gen!NewBlocks(functions, insert.function, 3), insert, enter),
                                 Gen!Block(m + 1), test)
         /\ insert' = Gen!Block(m + 2)
         /\ frames' = Append(frames, Gen!Frame("while", m + 1, m + 3))
         /\ Gen!Evaluated /\ UNCHANGED <<globals, currentLocals, symbols>>
  BY <1>3 DEF Gen!VisitWhileLoopStatement, Gen!Here, Gen!node
<1>. HIDE DEF v, m
<1>6. test \in Code /\ test # <<>> /\ test[Len(test)].to = {m + 2, m + 3}
  <2>1. v.code \in Seq(Instruction)
    BY <1>4 DEF Value, Code
  <2>2. jump \in Instruction /\ jump.to = {m + 2, m + 3}
    <3>1. pos \in Nat
      BY <1>1, ReadableState DEF Readable
    <3>2. Gen!UsableIn(v, insert.function) \in BOOLEAN
      BY DEF Gen!UsableIn
    <3>. QED  BY <1>3, <3>1, <3>2, BranchTyped
  <2>. HIDE DEF jump
  <2>3. /\ test \in Seq(Instruction) /\ test # <<>> /\ Len(test) = Len(v.code) + 1
        /\ test[Len(v.code) + 1] = jump
    BY <2>1, <2>2, AppendProperties
  <2>. QED  BY <2>2, <2>3 DEF Code
<1>7. enter \in Code
  <2>1. goto \in Instruction
    <3>1. pos \in Nat
      BY <1>1, ReadableState DEF Readable
    <3>2. {m + 1} \in SUBSET Nat
      BY <1>3
    <3>. QED  BY <3>1, <3>2, BranchTyped
  <2>. HIDE DEF goto
  <2>. QED  BY <2>1 DEF Code
<1>. HIDE DEF test, enter
<1>8. CASE \E how \in {"threw", "crashed"} : Gen!Fail(how)
  BY <1>1, <1>8, FailStep
<1>9. CASE ~ \E how \in {"threw", "crashed"} : Gen!Fail(how)
  BY <1>2, <1>5, <1>6, <1>7, <1>9, LoopStatement DEF m
<1>. QED  BY <1>8, <1>9

LEMMA ForStep ==
  ASSUME NEW s, NEW t, AtNode(s, t), ast \in Seq(Node), UNCHANGED ast,
         Gen!VisitForLoopStatement
  PROVE  Arrives(t) \/ Fails
<1>. DEFINE start == Gen!Evaluate(ast[pos].start, lastValue, insert.function)
            end == Gen!Evaluate(ast[pos].end, Gen!Null, insert.function)
            m == Len(NewestBlocks)
            ok == /\ start.type = end.type /\ start.type \in Gen!IntegerTypes
                  /\ Gen!UsableIn(start, insert.function)
            store == Gen!Instr("store", "loopVar", TRUE)
            load == Gen!Instr("load", "loopVar", TRUE)
            compare == Gen!Instr("arith", "", ok)
            goto == Gen!Branch("br", {m + 1}, TRUE)
            jump == Gen!Branch("condbr", {m + 2, m + 3}, TRUE)
            enter == start.code \o <<store, goto>>
            test == end.code \o <<load, compare, jump>>
<1>1. ast[pos].node = "for" /\ GenTypeOK /\ InsertOk
  BY DEF Gen!VisitForLoopStatement, Gen!At, Gen!node, AtNode
<1>2. frames # <<>> /\ t = Append(s, "for")
  BY <1>1, FramesAtNode DEF AtNode, Follows, BodyKindOf
<1>3. m \in Nat /\ Gen!BlockCount = m
  <2>1. insert.function = Len(functions) /\ NewestBlocks \in Seq(Code)
    BY <1>1, <1>2, BodyPlace
  <2>. QED  BY <2>1, LenProperties DEF Gen!BlockCount, Gen!Here, NewestBlocks
<1>4. start \in Value /\ end \in Value
  <2>1. ast[pos].start \in Expression /\ ast[pos].end \in Expression
    BY <1>1, NodeFields DEF AtNode
  <2>2. GenTypeOK /\ lastValue \in Value /\ insert.function \in Nat
    BY DEF AtNode, GenTypeOK, Place
  <2>. QED  BY <2>1, <2>2, ReadableState, EvaluateTyped, NullTyped
<1>5. \/ Gen!Fail("crashed")
      \/ /\ functions' = Gen!Put(Gen!Put(Gen!NewBlocks(functions, insert.function, 3), insert, enter),
                                 Gen!Block(m + 1), test)
         /\ insert' = Gen!Block(m + 2)
         /\ frames' = Append(frames, Gen!Frame("for", m + 1, m + 3))
         /\ Gen!Evaluated /\ UNCHANGED <<globals, currentLocals, symbols>>
  BY <1>3 DEF Gen!VisitForLoopStatement, Gen!Here, Gen!node
<1>. HIDE DEF start, end, m
<1>6. /\ {store, load, compare, goto, jump} \subseteq Instruction
      /\ jump.to = {m + 2, m + 3}
  <2>1. pos \in Nat
    BY <1>1, ReadableState DEF Readable
  <2>2. ok \in BOOLEAN
    BY DEF Gen!UsableIn
  <2>3. {m + 1} \in SUBSET Nat /\ {m + 2, m + 3} \in SUBSET Nat
    BY <1>3
  <2>. HIDE DEF ok
  <2>4. store \in Instruction /\ load \in Instruction
    BY <2>1, InstrTyped, InstrNamesFacts
  <2>5. compare \in Instruction
    BY <2>1, <2>2, InstrTyped, InstrNamesFacts
  <2>6. goto \in Instruction
    BY <2>1, <2>3, BranchTyped
  <2>7. jump \in Instruction /\ jump.to = {m + 2, m + 3}
    BY <2>1, <2>3, BranchTyped
  <2>. QED  BY <2>4, <2>5, <2>6, <2>7
<1>. HIDE DEF store, load, compare, goto, jump
<1>7. enter \in Code
  <2>1. start.code \in Seq(Instruction) /\ <<store, goto>> \in Seq(Instruction)
    BY <1>4, <1>6 DEF Value, Code
  <2>. QED  BY <2>1, ConcatProperties DEF Code
<1>8. test \in Code /\ test # <<>> /\ test[Len(test)].to = {m + 2, m + 3}
  <2>. DEFINE tail == <<load, compare, jump>>
  <2>1. /\ end.code \in Seq(Instruction) /\ tail \in Seq(Instruction)
        /\ tail # <<>> /\ tail[Len(tail)] = jump
    BY <1>4, <1>6 DEF Value, Code
  <2>. HIDE DEF tail
  <2>2. /\ end.code \o tail \in Seq(Instruction) /\ end.code \o tail # <<>>
        /\ (end.code \o tail)[Len(end.code \o tail)] = jump
    BY <2>1, LastOfConcat
  <2>. QED  BY <1>6, <2>2 DEF Code, tail
<1>. HIDE DEF test, enter
<1>9. CASE Gen!Fail("crashed")
  BY <1>1, <1>9, FailStep
<1>10. CASE ~Gen!Fail("crashed")
  BY <1>2, <1>5, <1>7, <1>8, <1>10, LoopStatement DEF m
<1>. QED  BY <1>9, <1>10

\* The blocks of a branch: n of them, after code in the block under way.
LEMMA BranchBlocks ==
  ASSUME GenTypeOK, InsertOk, frames # <<>>, NEW n \in Nat, NEW code \in Code,
         functions' = Gen!Put(Gen!NewBlocks(functions, insert.function, n), insert, code)
  PROVE  LET m == Len(NewestBlocks)
         IN  /\ functions' \in Seq(Function) /\ Len(functions') = Len(functions)
             /\ NewestBlocks' \in Seq(Code) /\ m \in Nat /\ Len(NewestBlocks') = m + n
             /\ \A c \in 1..m : c # insert.block => NewestBlocks'[c] = NewestBlocks[c]
             /\ \A c \in m + 1..m + n : NewestBlocks'[c] = <<>>
<1>. DEFINE f  == Len(functions)
            m  == Len(functions[f].blocks)
            fs == Gen!NewBlocks(functions, f, n)
            gs == Gen!Put(fs, insert, code)
<1>1. /\ f \in 1..Len(functions) /\ insert.function = f
      /\ insert.block \in 1..m /\ functions \in Seq(Function)
      /\ m \in Nat
  BY BodyPlace, LenProperties DEF NewestBlocks, GenTypeOK
<1>2. /\ fs \in Seq(Function) /\ Len(fs) = Len(functions)
      /\ Len(fs[f].blocks) = m + n
      /\ \A c \in 1..m : fs[f].blocks[c] = functions[f].blocks[c]
      /\ \A c \in m + 1..m + n : fs[f].blocks[c] = <<>>
  <2>. HIDE DEF f
  <2>. QED  BY <1>1, NewBlocksFacts
<1>. HIDE DEF fs, m
<1>3. /\ gs \in Seq(Function) /\ Len(gs) = Len(fs)
      /\ Len(gs[f].blocks) = m + n
      /\ \A c \in 1..m + n : c # insert.block => gs[f].blocks[c] = fs[f].blocks[c]
  <2>1. /\ f \in 1..Len(fs) /\ insert.block \in 1..Len(fs[f].blocks)
        /\ fs \in Seq(Function) /\ insert.function = f
    BY <1>1, <1>2
  <2>. HIDE DEF f
  <2>2. /\ gs \in Seq(Function) /\ Len(gs) = Len(fs)
        /\ Len(gs[f].blocks) = Len(fs[f].blocks)
        /\ \A c \in 1..Len(fs[f].blocks) :
             c # insert.block => gs[f].blocks[c] = fs[f].blocks[c]
    BY <2>1, PutFacts
  <2>. HIDE DEF gs
  <2>. QED  BY <1>2, <2>2
<1>. HIDE DEF gs
<1>4. gs[f].blocks \in Seq(Code)
  BY <1>1, <1>2, <1>3, BlocksFacts
<1>5. ASSUME NEW c \in 1..m, c # insert.block
      PROVE  gs[f].blocks[c] = functions[f].blocks[c]
  <2>1. c \in 1..m + n
    BY <1>1
  <2>. QED  BY <1>2, <1>3, <1>5, <2>1
<1>6. ASSUME NEW c \in m + 1..m + n PROVE gs[f].blocks[c] = <<>>
  <2>1. c \in 1..m + n /\ c # insert.block
    BY <1>1
  <2>. QED  BY <1>2, <1>3, <2>1
<1>7. functions' = gs /\ m = Len(NewestBlocks)
  BY <1>1 DEF gs, fs, m, NewestBlocks
<1>8. Len(gs) = Len(functions)
  BY <1>2, <1>3
<1>9. NewestBlocks' = gs[f].blocks /\ NewestBlocks = functions[f].blocks
  BY <1>7, <1>8 DEF NewestBlocks
<1>. QED
  BY <1>1, <1>3, <1>4, <1>5, <1>6, <1>7, <1>8, <1>9

LEMMA IfStep ==
  ASSUME NEW s, NEW t, AtNode(s, t), ast \in Seq(Node), UNCHANGED ast,
         Gen!VisitIfStatement
  PROVE  Arrives(t)
<1>. DEFINE v == Gen!Evaluate(ast[pos].expr, lastValue, insert.function)
            m == Len(NewestBlocks)
            f == Gen!Frame("then", 0, 0)
            d == m + 1
<1>1. ast[pos].node = "if" /\ GenTypeOK /\ InsertOk
  BY DEF Gen!VisitIfStatement, Gen!At, Gen!node, AtNode
<1>2. frames # <<>> /\ t = Append(s, "then")
  BY <1>1, FramesAtNode DEF AtNode, Follows, BodyKindOf
<1>3. v.code \in Code
  <2>1. ast[pos].expr \in Expression
    BY <1>1, NodeFields DEF AtNode
  <2>2. GenTypeOK /\ lastValue \in Value /\ insert.function \in Nat
    BY DEF AtNode, GenTypeOK, Place
  <2>3. v \in Value
    BY <2>1, <2>2, ReadableState, EvaluateTyped
  <2>. QED  BY <2>3 DEF Value
<1>4. Gen!BlockCount = m
  <2>1. insert.function = Len(functions)
    BY <1>1, <1>2, BodyPlace
  <2>. QED  BY <2>1 DEF Gen!BlockCount, Gen!Here, NewestBlocks
<1>5. /\ functions' = Gen!Put(Gen!NewBlocks(functions, insert.function, 1), insert, v.code)
      /\ insert' = Gen!Block(d)
      /\ frames' = Append(frames, f)
      /\ Gen!Evaluated /\ UNCHANGED <<globals, currentLocals, symbols>>
  BY <1>4 DEF Gen!VisitIfStatement, Gen!Here, Gen!node
<1>. HIDE DEF v
<1>6. /\ functions' \in Seq(Function) /\ Len(functions') = Len(functions)
      /\ NewestBlocks' \in Seq(Code) /\ m \in Nat /\ Len(NewestBlocks') = m + 1
      /\ \A c \in 1..m : c # insert.block => NewestBlocks'[c] = NewestBlocks[c]
  BY <1>1, <1>2, <1>3, <1>5, BranchBlocks
<1>7. f \in FrameSet /\ f.kind = "then" /\ f.back = 0 /\ f.next = 0
  BY <1>1 DEF Gen!Frame, FrameSet, VisitKinds, BodyKinds, GenTypeOK
<1>. HIDE DEF f
<1>8. WaitsFor(f, NewestBlocks', d) /\ LoopsBack(f, NewestBlocks', d)
  BY <1>7 DEF WaitsFor, LoopsBack
<1>9. m <= Len(NewestBlocks') /\ d \in m + 1..Len(NewestBlocks')
  BY <1>6
<1>. QED  BY <1>2, <1>5, <1>6, <1>7, <1>8, <1>9, OpeningStatement

LEMMA IfElseStep ==
  ASSUME NEW s, NEW t, AtNode(s, t), ast \in Seq(Node), UNCHANGED ast,
         Gen!VisitIfElseStatement
  PROVE  Arrives(t)
<1>. DEFINE v == Gen!Evaluate(ast[pos].expr, lastValue, insert.function)
            m == Len(NewestBlocks)
            f == Gen!Frame("thenElse", 0, m + 2)
            d == m + 1
            ok == v.type = Gen!I1 /\ Gen!UsableIn(v, insert.function)
            jump == Gen!Branch("condbr", {m + 1, m + 2}, ok)
            code == Append(v.code, jump)
<1>1. ast[pos].node = "ifElse" /\ GenTypeOK /\ InsertOk
  BY DEF Gen!VisitIfElseStatement, Gen!At, Gen!node, AtNode
<1>2. frames # <<>> /\ t = Append(s, "thenElse")
  BY <1>1, FramesAtNode DEF AtNode, Follows, BodyKindOf
<1>3. v.code \in Code
  <2>1. ast[pos].expr \in Expression
    BY <1>1, NodeFields DEF AtNode
  <2>2. GenTypeOK /\ lastValue \in Value /\ insert.function \in Nat
    BY DEF AtNode, GenTypeOK, Place
  <2>3. v \in Value
    BY <2>1, <2>2, ReadableState, EvaluateTyped
  <2>. QED  BY <2>3 DEF Value
<1>4. Gen!BlockCount = m /\ m \in Nat
  <2>1. insert.function = Len(functions) /\ NewestBlocks \in Seq(Code)
    BY <1>1, <1>2, BodyPlace
  <2>. QED  BY <2>1, LenProperties DEF Gen!BlockCount, Gen!Here, NewestBlocks
<1>5. /\ functions' = Gen!Put(Gen!NewBlocks(functions, insert.function, 2), insert, code)
      /\ insert' = Gen!Block(d)
      /\ frames' = Append(frames, f)
      /\ Gen!Evaluated /\ UNCHANGED <<globals, currentLocals, symbols>>
  BY <1>4 DEF Gen!VisitIfElseStatement, Gen!Here, Gen!node
<1>. HIDE DEF v
<1>6. code \in Code
  <2>1. pos \in Nat
    BY <1>1, ReadableState DEF Readable
  <2>2. ok \in BOOLEAN
    BY DEF Gen!UsableIn
  <2>3. {m + 1, m + 2} \in SUBSET Nat
    BY <1>4
  <2>. HIDE DEF ok, m
  <2>4. jump \in Instruction
    BY <2>1, <2>2, <2>3, BranchTyped
  <2>. QED  BY <1>3, <2>4, AppendProperties DEF Code
<1>. HIDE DEF code
<1>7. /\ functions' \in Seq(Function) /\ Len(functions') = Len(functions)
      /\ NewestBlocks' \in Seq(Code) /\ Len(NewestBlocks') = m + 2
      /\ \A c \in 1..m : c # insert.block => NewestBlocks'[c] = NewestBlocks[c]
      /\ \A c \in m + 1..m + 2 : NewestBlocks'[c] = <<>>
  BY <1>1, <1>2, <1>5, <1>6, BranchBlocks
<1>8. f \in FrameSet /\ f.kind = "thenElse" /\ f.back = 0 /\ f.next = m + 2
  BY <1>1, <1>4 DEF Gen!Frame, FrameSet, VisitKinds, BodyKinds, GenTypeOK
<1>. HIDE DEF f
<1>9. WaitsFor(f, NewestBlocks', d) /\ LoopsBack(f, NewestBlocks', d)
  <2>1. m + 2 \in 1..Len(NewestBlocks') /\ m + 2 \in m + 1..m + 2 /\ m + 2 # d
    BY <1>4, <1>7
  <2>. HIDE DEF m, d
  <2>. QED  BY <1>7, <1>8, <2>1 DEF WaitsFor, LoopsBack
<1>10. /\ m <= Len(NewestBlocks') /\ d \in m + 1..Len(NewestBlocks')
       /\ f.next > m
  BY <1>4, <1>7, <1>8
<1>. QED  BY <1>2, <1>5, <1>7, <1>8, <1>9, <1>10, OpeningStatement
-----------------------------------------------------------------------------
(***************************************************************************)
(* The ends of bodies and of functions.                                    *)
(***************************************************************************)
\* The stack where an end node is met, by what the innermost frame is.
LEMMA EndFacts ==
  ASSUME NEW s, NEW t, AtNode(s, t), ast[pos].node = "end"
  PROVE  /\ frames # <<>> /\ s # <<>>
         /\ Len(s) \in Nat /\ Len(s) > 0 /\ Len(frames) = Len(s)
         /\ frames[Len(frames)].kind = s[Len(s)]
         /\ s[1] = "function"
         /\ s[Len(s)] = "function" => Len(s) = 1 /\ t = <<>>
         /\ s[Len(s)] # "function" =>
              /\ Len(s) > 1
              /\ t = IF s[Len(s)] = "thenElse" THEN Append(Front(s), "else") ELSE Front(s)
<1>1. frames # <<>> /\ s # <<>>
  BY FramesAtNode
<1>2. Len(s) \in Nat /\ Len(s) > 0 /\ Len(frames) = Len(s)
  BY <1>1, LenProperties, EmptySeq DEF AtNode, FramesAre
<1>3. frames[Len(frames)].kind = s[Len(s)]
  BY <1>2 DEF AtNode, FramesAre
<1>4. 1 \in 1..Len(s) /\ Len(s) \in 1..Len(s)
  BY <1>2
<1>5. s[1] = "function" /\ (s[Len(s)] = "function" => Len(s) = 1)
  BY <1>4 DEF AtNode, Rooted
<1>6. s[Len(s)] # "function" => Len(s) > 1
  BY <1>2, <1>5
<1>7. \/ s = <<"function">> /\ t = <<>>
      \/ /\ s[Len(s)] # "function"
         /\ t = IF s[Len(s)] = "thenElse" THEN Append(Front(s), "else") ELSE Front(s)
  BY DEF AtNode, Follows
<1>8. s = <<"function">> => s[Len(s)] = "function"
  OBVIOUS
<1>. QED  BY <1>1, <1>2, <1>3, <1>5, <1>6, <1>7, <1>8

\* The visits under way when the innermost body is over, in step with the stack.
LEMMA FramesPop ==
  ASSUME NEW fr \in Seq(FrameSet), NEW s \in Seq(VisitKinds), Len(fr) = Len(s), Len(s) > 1,
         \A i \in 1..Len(fr) : fr[i].kind = s[i],
         NEW f \in FrameSet
  PROVE  /\ Front(fr) \in Seq(FrameSet) /\ Front(fr) # <<>>
         /\ Len(Front(fr)) = Len(Front(s))
         /\ \A i \in 1..Len(Front(fr)) : Front(fr)[i].kind = Front(s)[i]
         /\ LET gr == Append(Front(fr), f)
                u  == Append(Front(s), f.kind)
            IN  /\ gr \in Seq(FrameSet) /\ gr # <<>> /\ Len(gr) = Len(u)
                /\ \A i \in 1..Len(gr) : gr[i].kind = u[i]
<1>. DEFINE fr1 == Front(fr)
            s1  == Front(s)
            n   == Len(fr)
<1>1. n \in Nat /\ n > 1 /\ fr # <<>> /\ s # <<>> /\ n = Len(s)
  BY LenProperties, EmptySeq
<1>2. /\ fr1 \in Seq(FrameSet) /\ Len(fr1) = n - 1
      /\ \A i \in 1..n - 1 : fr1[i] = fr[i]
  BY <1>1, FrontFacts
<1>3. /\ s1 \in Seq(VisitKinds) /\ Len(s1) = n - 1
      /\ \A i \in 1..n - 1 : s1[i] = s[i]
  BY <1>1, FrontFacts
<1>4. \A i \in 1..n : fr[i].kind = s[i]
  OBVIOUS
<1>. HIDE DEF fr1, s1, n
<1>5. fr1 # <<>>
  BY <1>1, <1>2, EmptySeq
<1>6. ASSUME NEW i \in 1..n - 1 PROVE fr1[i].kind = s1[i]
  <2>1. i \in 1..n
    BY <1>1
  <2>. QED  BY <1>2, <1>3, <1>4, <2>1
<1>. DEFINE gr == Append(fr1, f)
            u  == Append(s1, f.kind)
<1>7. f.kind \in VisitKinds
  BY DEF FrameSet
<1>8. /\ gr \in Seq(FrameSet) /\ gr # <<>> /\ Len(gr) = n
      /\ gr[n] = f /\ \A i \in 1..n - 1 : gr[i] = fr1[i]
  <2>1. /\ gr \in Seq(FrameSet) /\ gr # <<>> /\ Len(gr) = n - 1 + 1
        /\ gr[n - 1 + 1] = f /\ \A i \in 1..n - 1 : gr[i] = fr1[i]
    BY <1>2, AppendProperties
  <2>2. n - 1 + 1 = n
    BY <1>1
  <2>. QED  BY <2>1, <2>2
<1>9. /\ Len(u) = n /\ u[n] = f.kind /\ \A i \in 1..n - 1 : u[i] = s1[i]
  <2>1. /\ Len(u) = n - 1 + 1
        /\ u[n - 1 + 1] = f.kind /\ \A i \in 1..n - 1 : u[i] = s1[i]
    BY <1>3, <1>7, AppendProperties
  <2>2. n - 1 + 1 = n
    BY <1>1
  <2>. QED  BY <2>1, <2>2
<1>. HIDE DEF gr, u
<1>10. ASSUME NEW i \in 1..n PROVE gr[i].kind = u[i]
  <2>1. CASE i = n
    BY <1>8, <1>9, <2>1
  <2>2. CASE i \in 1..n - 1
    BY <1>6, <1>8, <1>9, <2>2
  <2>. QED  BY <1>1, <2>1, <2>2
<1>. QED  BY <1>2, <1>3, <1>5, <1>6, <1>8, <1>9, <1>10 DEF fr1, s1, gr, u

LEMMA LeaveBodyStep ==
  ASSUME NEW s, NEW t, AtNode(s, t), ast \in Seq(Node), UNCHANGED ast,
         Gen!EndBody
  PROVE  Arrives(t)
<1>. DEFINE f    == frames[Len(frames)]
            rest == Front(frames)
            back == Gen!Branch("br", {f.back}, TRUE)
            add  == Gen!Instr("arith", "", TRUE)
            store == Gen!Instr("store", "loopVar", TRUE)
            code == CASE f.kind = "for"   -> Append(<<add, store>>, back)
                      [] f.kind = "while" -> <<back>>
                      [] OTHER            -> <<>>
            else == [f EXCEPT !.kind = "else", !.next = 0]
            d    == IF f.next = 0 THEN insert.block ELSE f.next
<1>1. /\ ast[pos].node = "end" /\ f.kind # "function"
      /\ functions' = Gen!Put(functions, insert, code)
      /\ insert' = IF f.next = 0 THEN insert ELSE Gen!Block(f.next)
      /\ currentLocals' = f.locals
      /\ frames' = IF f.kind = "thenElse" THEN Append(rest, else) ELSE rest
      /\ pos' = pos + 1 /\ UNCHANGED <<status, globals, symbols, lastValue>>
  BY DEF Gen!EndBody, Gen!At, Gen!node, Gen!Proceed, Front
<1>2. /\ GenTypeOK /\ InsertOk /\ s \in Seq(VisitKinds) /\ FramesAre(s) /\ pos \in 1..Len(ast)
      /\ frames \in Seq(FrameSet) /\ insert \in Place /\ status = "generating"
  BY DEF AtNode, GenTypeOK
<1>3. /\ frames # <<>> /\ Len(s) > 1 /\ Len(frames) = Len(s) /\ Len(s) \in Nat
      /\ f.kind = s[Len(s)]
      /\ t = IF f.kind = "thenElse" THEN Append(Front(s), "else") ELSE Front(s)
  BY <1>1, EndFacts
<1>4. f \in FrameSet
  <2>1. Len(frames) \in 1..Len(frames)
    BY <1>3
  <2>. QED  BY <1>2, <2>1, ElementOfSeq
<1>5. Open(frames, NewestBlocks, insert.block) /\ insert.function = Len(functions)
  BY <1>2, <1>3, BodyPlace
<1>6. f.kind = "thenElse" => f.back = 0
  <2>1. Len(frames) \in 1..Len(frames)
    BY <1>3
  <2>. QED  BY <1>5, <2>1 DEF Open
<1>. HIDE DEF f
<1>7. code \in Code
  <2>1. pos \in Nat /\ {f.back} \in SUBSET Nat
    BY <1>2, <1>4, ReadableState DEF Readable, FrameSet
  <2>2. back \in Instruction
    BY <2>1, BranchTyped
  <2>3. add \in Instruction /\ store \in Instruction
    BY <2>1, InstrTyped, InstrNamesFacts
  <2>. HIDE DEF back, add, store
  <2>4. <<add, store>> \in Seq(Instruction) /\ <<back>> \in Seq(Instruction)
        /\ <<>> \in Seq(Instruction)
    BY <2>2, <2>3
  <2>5. Append(<<add, store>>, back) \in Seq(Instruction)
    BY <2>2, <2>4, AppendProperties
  <2>. QED  BY <2>4, <2>5 DEF Code
<1>. HIDE DEF code
<1>8. /\ functions' \in Seq(Function) /\ Len(functions') = Len(functions)
      /\ functions' # <<>>
      /\ NewestBlocks' \in Seq(Code)
      /\ Open(frames, NewestBlocks', insert.block)
  BY <1>1, <1>2, <1>3, <1>7, BodyCode
<1>9. else \in FrameSet /\ else.kind = "else" /\ else.next = 0 /\ else.back = f.back
  BY <1>4 DEF FrameSet, VisitKinds, BodyKinds
<1>. HIDE DEF else
<1>10. Open(rest, NewestBlocks', d)
  <2>. DEFINE new == NewestBlocks'
  <2>1. new \in Seq(Code) /\ Open(frames, new, insert.block)
    BY <1>8
  <2>. HIDE DEF new
  <2>2. Open(rest, new, d)
    BY <1>2, <1>3, <2>1, OpenPop DEF f
  <2>. QED  BY <2>2 DEF new
<1>. HIDE DEF d, rest
<1>11. /\ rest \in Seq(FrameSet) /\ rest # <<>> /\ Len(rest) = Len(Front(s))
       /\ \A i \in 1..Len(rest) : rest[i].kind = Front(s)[i]
       /\ Append(rest, else) \in Seq(FrameSet) /\ Append(rest, else) # <<>>
       /\ Len(Append(rest, else)) = Len(Append(Front(s), "else"))
       /\ \A i \in 1..Len(Append(rest, else)) :
            Append(rest, else)[i].kind = Append(Front(s), "else")[i]
  <2>1. \A i \in 1..Len(frames) : frames[i].kind = s[i]
    BY <1>2 DEF FramesAre
  <2>2. /\ frames \in Seq(FrameSet) /\ s \in Seq(VisitKinds)
        /\ Len(frames) = Len(s) /\ Len(s) > 1 /\ else \in FrameSet
    BY <1>2, <1>3, <1>9
  <2>3. /\ Front(frames) \in Seq(FrameSet) /\ Front(frames) # <<>>
        /\ Len(Front(frames)) = Len(Front(s))
        /\ \A i \in 1..Len(Front(frames)) : Front(frames)[i].kind = Front(s)[i]
        /\ LET gr == Append(Front(frames), else)
               u  == Append(Front(s), else.kind)
           IN  /\ gr \in Seq(FrameSet) /\ gr # <<>> /\ Len(gr) = Len(u)
               /\ \A i \in 1..Len(gr) : gr[i].kind = u[i]
    BY <2>1, <2>2, FramesPop
  <2>. QED  BY <1>9, <2>3 DEF rest
<1>12. Open(frames', NewestBlocks', d)
  <2>1. CASE f.kind = "thenElse"
    <3>. DEFINE new == NewestBlocks'
    <3>1. new \in Seq(Code) /\ Open(rest, new, d)
      BY <1>8, <1>10
    <3>. HIDE DEF new
    <3>2. Open(Append(rest, else), new, d)
      BY <1>6, <1>9, <1>11, <2>1, <3>1, OpenElse
    <3>. QED  BY <1>1, <2>1, <3>2 DEF new
  <2>2. CASE f.kind # "thenElse"
    BY <1>1, <1>10, <2>2
  <2>. QED  BY <2>1, <2>2
<1>13. FramesAre(t)' /\ frames' \in Seq(FrameSet) /\ frames' # <<>>
  BY <1>1, <1>3, <1>11 DEF FramesAre
<1>14. insert' \in Place /\ insert'.function = Len(functions') /\ insert'.block = d
  BY <1>1, <1>2, <1>4, <1>5, <1>8 DEF d, Gen!Block, Place, FrameSet
<1>15. GenTypeOK'
  <2>1. currentLocals' \in [Names -> Nat]
    BY <1>1, <1>4 DEF FrameSet
  <2>. QED  BY <1>1, <1>2, <1>8, <1>13, <1>14, <2>1 DEF GenTypeOK
<1>16. InsertOk'
  BY <1>8, <1>12, <1>13, <1>14 DEF InsertOk
<1>. QED  BY <1>1, <1>13, <1>15, <1>16 DEF Arrives, Keeps

LEMMA LeaveFunctionStep ==
  ASSUME NEW s, NEW t, AtNode(s, t), ast \in Seq(Node), UNCHANGED ast,
         Gen!EndFunctionDefinition
  PROVE  Arrives(t)
<1>. DEFINE f == Len(functions)
            ret == Gen!Instr("ret", "", TRUE)
            at == Gen!EntryOf(insert.function)
            code == IF Gen!Terminated(functions[insert.function].blocks[1]) THEN <<>> ELSE <<ret>>
<1>1. /\ ast[pos].node = "end" /\ Len(frames) = 1
      /\ functions' = Gen!Put(functions, at, code)
      /\ insert' = Gen!NoInsert /\ frames' = <<>>
      /\ pos' = pos + 1 /\ UNCHANGED <<status, globals, currentLocals, symbols, lastValue>>
  BY DEF Gen!EndFunctionDefinition, Gen!At, Gen!node, Gen!Proceed, Gen!Here
<1>2. GenTypeOK /\ InsertOk /\ pos \in 1..Len(ast)
  BY DEF AtNode
<1>3. frames # <<>> /\ t = <<>>
  BY <1>1, EndFacts
<1>4. /\ f \in 1..Len(functions) /\ insert.function = f /\ functions \in Seq(Function)
  BY <1>2, <1>3, BodyPlace DEF GenTypeOK
<1>5. code \in Code
  <2>1. pos \in Nat
    BY <1>2, ReadableState DEF Readable
  <2>2. ret \in Instruction
    BY <2>1, InstrTyped, InstrNamesFacts
  <2>. HIDE DEF ret
  <2>3. <<ret>> \in Seq(Instruction) /\ <<>> \in Seq(Instruction)
    BY <2>2
  <2>. QED  BY <2>3 DEF Code
<1>. HIDE DEF code, f
<1>6. functions' \in Seq(Function) /\ Len(functions') = Len(functions)
  <2>1. at.function = f /\ at.block = 1
    BY <1>4 DEF Gen!EntryOf
  <2>. HIDE DEF at
  <2>2. 1 \in 1..Len(functions[f].blocks)
    BY <1>4, BlocksFacts
  <2>. QED  BY <1>1, <1>4, <1>5, <2>1, <2>2, PutFacts
<1>7. GenTypeOK'
  <2>1. insert' \in Place
    BY <1>1 DEF Place, Gen!NoInsert
  <2>2. frames' \in Seq(FrameSet)
    BY <1>1, EmptySeq
  <2>. QED  BY <1>1, <1>2, <1>6, <2>1, <2>2 DEF GenTypeOK
<1>8. InsertOk' /\ FramesAre(t)'
  BY <1>1, <1>3 DEF InsertOk, FramesAre, Gen!NoInsert
<1>. QED  BY <1>1, <1>7, <1>8 DEF Arrives, Keeps
-----------------------------------------------------------------------------
(***************************************************************************)
(* Function definitions.                                                   *)
(***************************************************************************)
\* The generator passes over a definition it does not support.
Skips == Keeps /\ pos' = Gen!NextItem(pos) /\ frames = <<>> /\ frames' = <<>>

\* The next item exists: it is the smallest of those that follow.
LEMMA NextItemFacts ==
  ASSUME ast \in Seq(Node), NEW i \in 1..Len(ast)
  PROVE  LET j == Gen!NextItem(i)
         IN  /\ j \in i + 1..Len(ast) + 1
             /\ j <= Len(ast) => ast[j].node \in {"function", "call"}
             /\ \A k \in i + 1..j - 1 : ast[k].node \notin {"function", "call"}
<1>. DEFINE n == Len(ast)
            T == {j \in i + 1..n + 1 : j <= n => ast[j].node \in {"function", "call"}}
            P(j) == /\ j <= n => ast[j].node \in {"function", "call"}
                    /\ \A k \in i + 1..j - 1 : ast[k].node \notin {"function", "call"}
<1>0. i \in 1..n
  OBVIOUS
<1>1. n \in Nat
  BY LenProperties
<1>2. n + 1 \in T /\ T \subseteq Nat
  <2>. HIDE DEF n
  <2>1. n + 1 \in i + 1..n + 1 /\ ~(n + 1 <= n) /\ i + 1..n + 1 \subseteq Nat
    BY <1>1, <1>0
  <2>. QED  BY <2>1
<1>3. PICK m \in T : \A k \in T : m <= k
  <2>. HIDE DEF T
  <2>. QED  BY <1>2, Smallest
<1>4. m \in i + 1..n + 1 /\ P(m)
  <2>1. m \in i + 1..n + 1 /\ (m <= n => ast[m].node \in {"function", "call"})
    BY <1>3
  <2>2. ASSUME NEW k \in i + 1..m - 1, ast[k].node \in {"function", "call"} PROVE FALSE
    <3>. HIDE DEF n
    <3>1. k \in i + 1..n + 1
      BY <1>1, <2>1
    <3>2. k \in T
      BY <2>2, <3>1
    <3>. QED  BY <1>1, <1>3, <2>1, <3>2
  <2>. QED  BY <2>1, <2>2
<1>5. Gen!NextItem(i) = CHOOSE j \in i + 1..n + 1 : P(j)
  BY DEF Gen!NextItem
<1>. HIDE DEF P
<1>6. Gen!NextItem(i) \in i + 1..n + 1 /\ P(Gen!NextItem(i))
  BY <1>4, <1>5
<1>. QED  BY <1>6 DEF P

\* The names of a node's allocas.
LEMMA AllocaIsNamed ==
  ASSUME NEW d \in Node, NEW i \in 1..Len(d.parameters)
  PROVE  Gen!LLVMNames(d)[i] \in AllocaNames
<1>1. Gen!LLVMNames(d)[i] \in Gen!FiledNames(d)
  BY DEF Gen!FiledNames
<1>. QED  BY <1>1 DEF AllocaNames

LEMMA FunctionNodeStep ==
  ASSUME NEW s, NEW t, AtNode(s, t), ast \in Seq(Node), UNCHANGED ast,
         Gen!VisitFunctionDefinition
  PROVE  Arrives(t) \/ Skips
<1>. DEFINE d == ast[pos]
            index == Len(functions) + 1
            store(i) == Gen!Instr("store", Gen!LLVMNames(d)[i], TRUE)
            stores == [i \in 1..Len(d.parameters) |-> store(i)]
            params == [i \in 1..Len(d.parameters) |-> Gen!I32]
            new == Gen!NewFunction(pos, Gen!ReturnType(d.returnType), params)
            gs == Append(functions, new)
            at == Gen!EntryOf(index)
            frame == Gen!Frame("function", 0, 0)
<1>1. /\ d.node = "function" /\ GenTypeOK /\ InsertOk /\ pos \in 1..Len(ast)
      /\ functions \in Seq(Function) /\ Len(functions) \in Nat /\ pos \in Nat
  BY ReadableState, LenProperties
     DEF Gen!VisitFunctionDefinition, Gen!At, Gen!node, AtNode, Readable, GenTypeOK
<1>2. frames = <<>> /\ t = <<"function">>
  BY <1>1, FramesAtNode DEF AtNode, Follows
<1>3. /\ d.name \in Names /\ d.parameters \in Seq(ParamInfo)
      /\ d.returnType \in ReturnTypes
  BY <1>1, NodeFields DEF AtNode
<1>4. CASE ~Gen!Supported(d)
  <2>1. /\ pos' = Gen!NextItem(pos) /\ lastValue' = Gen!Null
        /\ UNCHANGED <<status, globals, currentLocals, functions, symbols, insert, frames>>
    BY <1>4 DEF Gen!VisitFunctionDefinition, Gen!node
  <2>2. pos' \in 1..Len(ast) + 1
    <3>1. pos' \in pos + 1..Len(ast) + 1
      BY <1>1, <2>1, NextItemFacts
    <3>. QED  BY <1>1, <3>1
  <2>3. GenTypeOK'
    BY <1>1, <2>1, <2>2, NullTyped DEF GenTypeOK
  <2>4. InsertOk'
    BY <1>1, <2>1 DEF InsertOk, NewestBlocks, Gen!MainIndex, Gen!MainExists
  <2>. QED  BY <1>2, <2>1, <2>3, <2>4 DEF Skips, Keeps
<1>5. CASE Gen!Supported(d)
  <2>1. /\ functions' = Gen!Put(gs, at, stores)
        /\ symbols' = Gen!Claim(symbols, d.name, Gen!Symbol("function", index))
        /\ insert' = at
        /\ currentLocals' = [n \in Names |-> IF n \in Gen!FiledNames(d)
                                               THEN index ELSE currentLocals[n]]
        /\ frames' = <<frame>>
        /\ pos' = pos + 1 /\ UNCHANGED <<status, globals, lastValue>>
    BY <1>5 DEF Gen!VisitFunctionDefinition, Gen!node, Gen!Proceed
  <2>2. stores \in Code
    <3>1. ASSUME NEW i \in 1..Len(d.parameters) PROVE store(i) \in Instruction
      <4>1. Gen!LLVMNames(d)[i] \in AllocaNames
        BY <1>1, <1>3, <3>1, AllocaIsNamed
      <4>2. Gen!LLVMNames(d)[i] \in InstrNames
        BY <4>1 DEF InstrNames
      <4>. QED  BY <1>1, <4>2, InstrTyped
    <3>2. Len(d.parameters) \in Nat
      BY <1>3, LenProperties
    <3>. HIDE DEF store, d
    <3>. QED  BY <3>1, <3>2 DEF Code
  <2>3. params \in Seq(ValueTypes)
    <3>1. Gen!I32 \in ValueTypes
      BY DEF ValueTypes
    <3>2. Len(d.parameters) \in Nat
      BY <1>3, LenProperties
    <3>. HIDE DEF d
    <3>. QED  BY <3>1, <3>2
  <2>4. Gen!ReturnType(d.returnType) \in ValueTypes
    BY <1>3 DEF ReturnTypes, Gen!ReturnType, ValueTypes
  <2>. HIDE DEF stores, params, store
  <2>5. /\ gs \in Seq(Function) /\ Len(gs) = index /\ gs[index] = new
        /\ Len(new.blocks) = 1 /\ new.blocks[1] = <<>>
    BY <1>1, <2>3, <2>4, NewFunctionFacts
  <2>. HIDE DEF gs, new
  <2>6. index \in 1..Len(gs) /\ 1 \in 1..Len(gs[index].blocks)
    BY <1>1, <2>5
  <2>7. at.function = index /\ at.block = 1 /\ at \in Place
    BY <1>1 DEF Gen!EntryOf, Place
  <2>. HIDE DEF at
  <2>8. /\ functions' \in Seq(Function) /\ Len(functions') = index
        /\ Len(functions'[index].blocks) = 1
    <3>. HIDE DEF index
    <3>. QED  BY <2>1, <2>2, <2>5, <2>6, <2>7, PutFacts
  <2>9. /\ frame \in FrameSet /\ frame.kind = "function"
        /\ frame.next = 0 /\ frame.back = 0
    BY <1>1 DEF Gen!Frame, FrameSet, VisitKinds, GenTypeOK
  <2>. HIDE DEF frame
  <2>10. /\ frames' \in Seq(FrameSet) /\ frames' # <<>> /\ Len(frames') = 1
         /\ frames'[1] = frame
    BY <2>1, <2>9
  <2>11. SymbolsOk(symbols', Len(functions'))
    <3>1. SymbolsOk(symbols, Len(functions)) /\ d.name \in Gen!SymbolNames
      BY <1>1, <1>3, SymbolNamesFacts DEF GenTypeOK
    <3>2. index \in Nat /\ Len(functions) <= index /\ index \in 1..index
      BY <1>1
    <3>. HIDE DEF index, d
    <3>. QED  BY <1>1, <2>1, <2>8, <3>1, <3>2, ClaimFacts
  <2>12. GenTypeOK'
    <3>1. currentLocals' \in [Names -> Nat]
      BY <1>1, <2>1 DEF GenTypeOK
    <3>. QED  BY <1>1, <2>1, <2>7, <2>8, <2>10, <2>11, <3>1 DEF GenTypeOK
  <2>13. InsertOk'
    <3>1. functions' # <<>>
      BY <1>1, <2>8, EmptySeq
    <3>2. NewestBlocks' = functions'[index].blocks
      BY <2>8 DEF NewestBlocks
    <3>3. Open(frames', NewestBlocks', 1)
      BY <2>8, <2>9, <2>10, <3>2 DEF Open, WaitsFor, LoopsBack, Distinct
    <3>. QED  BY <2>1, <2>7, <2>8, <2>10, <3>1, <3>3 DEF InsertOk
  <2>14. FramesAre(t)'
    BY <1>2, <2>9, <2>10 DEF FramesAre
  <2>. QED  BY <2>1, <2>12, <2>13, <2>14 DEF Arrives, Keeps
<1>. QED  BY <1>4, <1>5
-----------------------------------------------------------------------------
(***************************************************************************)
(* Between functions: declarations, expressions, calls and the end of the  *)
(* program.                                                                *)
(***************************************************************************)
\* A declaration crashes, leaves an array out, or creates the global.
LEMMA DeclarationVisits ==
  ASSUME Gen!VisitDeclaration
  PROVE  /\ ast[pos].node = "declaration" /\ pos <= Len(ast)
         /\ \/ Gen!Fail("crashed")
            \/ /\ ast[pos].type = "array"
               /\ pos' = pos + 1 /\ lastValue' = Gen!Null
               /\ UNCHANGED <<status, globals, currentLocals, functions, symbols, insert, frames>>
            \/ /\ globals' = [globals EXCEPT ![ast[pos].name] = Gen!GlobalValueType(ast[pos])]
               /\ symbols' = Gen!Claim(symbols, ast[pos].name, Gen!Symbol("global", 0))
               /\ lastValue' \in {lastValue, Gen!Null}
               /\ pos' = pos + 1
               /\ UNCHANGED <<status, currentLocals, functions, insert, frames>>
BY Zenon DEF Gen!VisitDeclaration, Gen!At, Gen!node, Gen!Evaluated, Gen!Proceed

LEMMA DeclarationNodeStep ==
  ASSUME NEW s, NEW t, AtNode(s, t), ast \in Seq(Node), UNCHANGED ast,
         Gen!VisitDeclaration
  PROVE  Arrives(t) \/ Fails
<1>. DEFINE d == ast[pos]
<1>1. /\ d.node = "declaration" /\ GenTypeOK /\ InsertOk /\ pos \in 1..Len(ast)
      /\ Len(functions) \in Nat /\ FramesAre(s)
  BY LenProperties, DeclarationVisits DEF AtNode, GenTypeOK
<1>2. frames = <<>> /\ t = s /\ t = <<>>
  BY <1>1, FramesAtNode DEF AtNode, Follows
<1>3. /\ d.name \in Names /\ d.elements \in Seq(Expression)
      /\ d.type \in {"int", "float", "string", "bool", "array"}
  BY <1>1, NodeFields DEF AtNode
<1>4. CASE Gen!Fail("crashed")
  BY <1>1, <1>4, FailStep
<1>5. CASE /\ pos' = pos + 1 /\ lastValue' = Gen!Null
           /\ UNCHANGED <<status, globals, currentLocals, functions, symbols, insert, frames>>
  <2>1. GenTypeOK'
    BY <1>1, <1>5, NullTyped DEF GenTypeOK
  <2>2. InsertOk'
    BY <1>1, <1>5 DEF InsertOk, NewestBlocks, Gen!MainIndex, Gen!MainExists
  <2>3. FramesAre(t)'
    BY <1>1, <1>2, <1>5 DEF FramesAre
  <2>. QED  BY <1>5, <2>1, <2>2, <2>3 DEF Arrives, Keeps
<1>6. CASE /\ globals' = [globals EXCEPT ![d.name] = Gen!GlobalValueType(d)]
           /\ symbols' = Gen!Claim(symbols, d.name, Gen!Symbol("global", 0))
           /\ lastValue' \in {lastValue, Gen!Null}
           /\ pos' = pos + 1
           /\ UNCHANGED <<status, currentLocals, functions, insert, frames>>
  <2>1. /\ globals' = [globals EXCEPT ![d.name] = Gen!GlobalValueType(d)]
        /\ symbols' = Gen!Claim(symbols, d.name, Gen!Symbol("global", 0))
        /\ lastValue' \in {lastValue, Gen!Null}
        /\ pos' = pos + 1 /\ UNCHANGED status
        /\ UNCHANGED <<currentLocals, functions, insert, frames>>
    BY <1>6
  <2>2. Gen!GlobalValueType(d) \in ValueTypes
    <3>1. Len(d.elements) \in Nat
      BY <1>3, LenProperties
    <3>. HIDE DEF d
    <3>. QED  BY <1>3, <3>1 DEF Gen!GlobalValueType, ValueTypes
  <2>3. globals' \in [Names -> ValueTypes]
    BY <1>1, <2>1, <2>2 DEF GenTypeOK
  <2>4. lastValue' \in Value
    BY <1>1, <2>1, NullTyped DEF GenTypeOK
  <2>5. /\ SymbolsOk(symbols', Len(functions'))
        /\ symbols["main"].kind # "none" => symbols'["main"] = symbols["main"]
    <3>1. SymbolsOk(symbols, Len(functions)) /\ d.name \in Gen!SymbolNames
      BY <1>1, <1>3, SymbolNamesFacts DEF GenTypeOK
    <3>. DEFINE name == d.name
                count == Len(functions)
    <3>. HIDE DEF name, count
    <3>2. /\ SymbolsOk(symbols, count) /\ name \in Gen!SymbolNames
          /\ count \in Nat /\ count <= count /\ 0 \in Nat
      BY <1>1, <3>1 DEF name, count
    <3>3. LET after == Gen!Claim(symbols, name, Gen!Symbol("global", 0))
          IN  /\ SymbolsOk(after, count)
              /\ \A m \in Gen!SymbolNames : m # name => after[m] = symbols[m]
              /\ after[name] = IF symbols[name] = Gen!NoSymbol
                                 THEN Gen!Symbol("global", 0) ELSE symbols[name]
      BY <3>2, ClaimFacts
    <3>4. /\ SymbolsOk(symbols', count)
          /\ \A m \in Gen!SymbolNames : m # name => symbols'[m] = symbols[m]
          /\ symbols'[name] = IF symbols[name] = Gen!NoSymbol
                                THEN Gen!Symbol("global", 0) ELSE symbols[name]
      BY <2>1, <3>3 DEF name
    <3>5. symbols["main"].kind # "none" => symbols["main"] # Gen!NoSymbol
      BY DEF Gen!NoSymbol, Gen!Symbol
    <3>. QED  BY <2>1, <3>4, <3>5, SymbolNamesFacts DEF count
  <2>6. GenTypeOK'
    BY <1>1, <2>1, <2>3, <2>4, <2>5 DEF GenTypeOK
  <2>7. InsertOk'
    BY <1>1, <1>2, <2>1, <2>5 DEF InsertOk, Gen!MainIndex, Gen!MainExists
  <2>8. FramesAre(t)'
    BY <1>1, <1>2, <2>1 DEF FramesAre
  <2>. QED  BY <2>1, <2>6, <2>7, <2>8 DEF Arrives, Keeps
<1>. QED  BY <1>4, <1>5, <1>6, DeclarationVisits

LEMMA TopExpressionStep ==
  ASSUME NEW s, NEW t, AtNode(s, t), ast \in Seq(Node), UNCHANGED ast,
         Gen!VisitExpression
  PROVE  Arrives(t) \/ Fails
<1>. DEFINE v == Gen!Evaluate(ast[pos].expr, lastValue, 0)
<1>1. /\ ast[pos].node = "expression" /\ frames = <<>> /\ GenTypeOK /\ InsertOk
      /\ pos \in 1..Len(ast) /\ FramesAre(s)
  BY DEF Gen!VisitExpression, Gen!At, Gen!node, AtNode
<1>2. t = s
  BY <1>1 DEF AtNode, Follows
<1>3. v \in Value
  <2>1. ast[pos].expr \in Expression
    BY <1>1, NodeFields DEF AtNode
  <2>2. GenTypeOK /\ lastValue \in Value /\ 0 \in Nat
    BY DEF AtNode, GenTypeOK
  <2>. QED  BY <2>1, <2>2, ReadableState, EvaluateTyped
<1>4. CASE Gen!Fail("crashed")
  BY <1>1, <1>4, FailStep
<1>5. CASE ~Gen!Fail("crashed")
  <2>1. /\ lastValue' = v /\ pos' = pos + 1
        /\ UNCHANGED <<status, globals, currentLocals, functions, symbols, insert, frames>>
    BY <1>5 DEF Gen!VisitExpression, Gen!node, Gen!Proceed
  <2>. HIDE DEF v
  <2>2. GenTypeOK'
    BY <1>1, <1>3, <2>1 DEF GenTypeOK
  <2>3. InsertOk'
    BY <1>1, <2>1 DEF InsertOk, Gen!MainIndex, Gen!MainExists
  <2>4. FramesAre(t)'
    BY <1>1, <1>2, <2>1 DEF FramesAre
  <2>. QED  BY <2>1, <2>2, <2>3, <2>4 DEF Arrives, Keeps
<1>. QED  BY <1>4, <1>5

\* The functions once there is a main, and which of them it is.
LEMMA MainPlace ==
  ASSUME GenTypeOK
  PROVE  LET n == Len(functions)
             kind == symbols["main"].kind
         IN  /\ Gen!WithMain \in Seq(Function)
             /\ \A i \in 1..n : Gen!WithMain[i] = functions[i]
             /\ n \in Nat
             /\ Len(Gen!WithMain) = IF kind = "function" THEN n ELSE n + 1
             /\ Gen!MainIndex = IF kind = "function" THEN symbols["main"].index ELSE n + 1
             /\ Gen!MainIndex \in 1..Len(Gen!WithMain)
             /\ kind \in {"none", "function", "global"}
             /\ symbols["main"] = Gen!NoSymbol <=> kind = "none"
<1>. DEFINE n == Len(functions)
            table == symbols["main"]
            none == <<>>
            new == Gen!NewFunction(0, Gen!I32, none)
            gs == Append(functions, new)
<1>1. functions \in Seq(Function) /\ n \in Nat /\ SymbolsOk(symbols, n)
  BY LenProperties DEF GenTypeOK
<1>2. /\ table.kind \in {"none", "function", "global"}
      /\ table = Gen!NoSymbol <=> table.kind = "none"
      /\ table.kind = "function" => table.index \in 1..n
  <2>1. /\ table \in [kind : {"none", "function", "global", "library"}, index : Nat]
        /\ table.kind = "none" => table.index = 0
        /\ table.kind = "function" => table.index \in 1..n
        /\ table.kind # "library"
    BY <1>1, SymbolNamesFacts DEF SymbolsOk
  <2>. HIDE DEF table
  <2>. QED  BY <2>1 DEF Gen!NoSymbol, Gen!Symbol
<1>3. gs \in Seq(Function) /\ Len(gs) = n + 1 /\ \A i \in 1..n : gs[i] = functions[i]
  <2>1. 0 \in Nat /\ Gen!I32 \in ValueTypes /\ none \in Seq(ValueTypes)
    BY EmptySeq DEF ValueTypes
  <2>. HIDE DEF none
  <2>. QED  BY <1>1, <2>1, NewFunctionFacts
<1>. HIDE DEF gs
<1>4. /\ Gen!WithMain = IF table.kind = "function" THEN functions ELSE gs
      /\ Gen!MainIndex = IF table.kind = "function" THEN table.index ELSE n + 1
  BY DEF Gen!WithMain, Gen!MainIndex, Gen!MainExists, gs
<1>. HIDE DEF n, table
<1>5. /\ Gen!WithMain \in Seq(Function)
      /\ Len(Gen!WithMain) = IF table.kind = "function" THEN n ELSE n + 1
      /\ \A i \in 1..n : Gen!WithMain[i] = functions[i]
  BY <1>1, <1>3, <1>4 DEF n
<1>6. Gen!MainIndex \in 1..Len(Gen!WithMain)
  BY <1>1, <1>2, <1>4, <1>5
<1>. QED  BY <1>1, <1>2, <1>4, <1>5, <1>6 DEF n, table

\* main is among the symbols once it exists.
LEMMA MainSymbolsTyped ==
  ASSUME GenTypeOK
  PROVE  LET n == Len(functions)
             table == symbols["main"]
         IN  /\ SymbolsOk(Gen!MainSymbols, Len(Gen!WithMain))
             /\ Gen!MainSymbols["main"] = IF table = Gen!NoSymbol
                                            THEN Gen!Symbol("function", n + 1) ELSE table
<1>. DEFINE n == Len(functions)
            table == symbols["main"]
            fs == Gen!WithMain
<1>1. /\ n \in Nat
      /\ Len(fs) = IF table.kind = "function" THEN n ELSE n + 1
      /\ table = Gen!NoSymbol <=> table.kind = "none"
      /\ SymbolsOk(symbols, n)
  BY MainPlace DEF GenTypeOK
<1>. HIDE DEF n, table, fs
<1>2. CASE table = Gen!NoSymbol
  <2>1. Len(fs) = n + 1 /\ n + 1 \in Nat /\ n <= n + 1 /\ n + 1 \in 1..n + 1
    BY <1>1, <1>2
  <2>2. LET after == Gen!Claim(symbols, "main", Gen!Symbol("function", n + 1))
        IN  /\ SymbolsOk(after, n + 1)
            /\ after["main"] = IF symbols["main"] = Gen!NoSymbol
                                 THEN Gen!Symbol("function", n + 1) ELSE symbols["main"]
    BY <1>1, <2>1, ClaimFacts, SymbolNamesFacts
  <2>3. Gen!MainSymbols = Gen!Claim(symbols, "main", Gen!Symbol("function", n + 1))
    BY DEF Gen!MainSymbols, n
  <2>. QED  BY <1>2, <2>1, <2>2, <2>3 DEF table, n, fs
<1>3. CASE table # Gen!NoSymbol
  <2>1. Gen!MainSymbols = symbols
    BY <1>3 DEF Gen!MainSymbols, Gen!Claim, table
  <2>2. Len(fs) \in Nat /\ n <= Len(fs)
    BY <1>1
  <2>3. SymbolsOk(symbols, Len(fs))
    BY <1>1, <2>2, SymbolsGrow
  <2>. QED  BY <1>3, <2>1, <2>3 DEF table, fs
<1>. QED  BY <1>2, <1>3

\* ensureMainFunctionExist: main is there afterwards, and the insertion point is
\* its entry, that of the new main where a global has the name.
LEMMA MainFacts ==
  ASSUME GenTypeOK, Len(functions') = Len(Gen!WithMain), symbols' = Gen!MainSymbols
  PROVE  /\ symbols'["main"].kind # "none"
         /\ Gen!MainIndex = IF symbols'["main"].kind = "global"
                              THEN Len(functions') ELSE Gen!MainIndex'
<1>. DEFINE n == Len(functions)
            table == symbols["main"]
            fs == Gen!WithMain
<1>1. /\ n \in Nat
      /\ Len(fs) = IF table.kind = "function" THEN n ELSE n + 1
      /\ Gen!MainIndex = IF table.kind = "function" THEN table.index ELSE n + 1
      /\ table.kind \in {"none", "function", "global"}
      /\ table = Gen!NoSymbol <=> table.kind = "none"
  BY MainPlace
<1>2. Gen!MainSymbols["main"] = IF table = Gen!NoSymbol
                                  THEN Gen!Symbol("function", n + 1) ELSE table
  BY MainSymbolsTyped
<1>. HIDE DEF n, table, fs
<1>3. Gen!MainIndex' = IF symbols'["main"].kind = "function" THEN symbols'["main"].index
                                                          ELSE Len(functions') + 1
  BY DEF Gen!MainIndex, Gen!MainExists
<1>4. /\ Gen!Symbol("function", n + 1).kind = "function"
      /\ Gen!Symbol("function", n + 1).index = n + 1
  BY DEF Gen!Symbol
<1>5. symbols'["main"] = Gen!MainSymbols["main"] /\ Len(functions') = Len(fs)
  BY DEF fs
<1>6. CASE table.kind = "none"
  BY <1>1, <1>2, <1>3, <1>4, <1>5, <1>6
<1>7. CASE table.kind # "none"
  BY <1>1, <1>2, <1>3, <1>5, <1>7
<1>. QED  BY <1>6, <1>7

\* Code that is added to main.
LEMMA MainCode ==
  ASSUME GenTypeOK, NEW code \in Code,
         functions' = Gen!Put(Gen!WithMain, Gen!EntryOf(Gen!MainIndex), code),
         symbols' = Gen!MainSymbols
  PROVE  /\ functions' \in Seq(Function) /\ SymbolsOk(symbols', Len(functions'))
         /\ symbols'["main"].kind # "none"
         /\ Gen!MainIndex = IF symbols'["main"].kind = "global"
                              THEN Len(functions') ELSE Gen!MainIndex'
         /\ Gen!EntryOf(Gen!MainIndex) \in Place
<1>. DEFINE fs == Gen!WithMain
            f  == Gen!MainIndex
            at == Gen!EntryOf(f)
<1>1. fs \in Seq(Function) /\ f \in 1..Len(fs) /\ Len(fs) \in Nat
  BY MainPlace, LenProperties
<1>2. at.function = f /\ at.block = 1 /\ at \in Place
  BY <1>1 DEF Gen!EntryOf, Place
<1>. HIDE DEF fs, f, at
<1>3. 1 \in 1..Len(fs[f].blocks)
  BY <1>1, BlocksFacts
<1>4. functions' \in Seq(Function) /\ Len(functions') = Len(fs)
  <2>1. functions' = Gen!Put(fs, at, code)
    BY DEF fs, at, f
  <2>. QED  BY <1>1, <1>2, <1>3, <2>1, PutFacts
<1>5. /\ SymbolsOk(Gen!MainSymbols, Len(fs))
      /\ symbols'["main"].kind # "none"
      /\ Gen!MainIndex = IF symbols'["main"].kind = "global"
                           THEN Len(functions') ELSE Gen!MainIndex'
  BY <1>4, MainFacts, MainSymbolsTyped DEF fs
<1>. QED  BY <1>2, <1>4, <1>5 DEF at, f

LEMMA CallNodeStep ==
  ASSUME NEW s, NEW t, AtNode(s, t), ast \in Seq(Node), UNCHANGED ast,
         Gen!VisitFunctionCall
  PROVE  Arrives(t)
<1>. DEFINE d == ast[pos]
            list == d.arguments
            callee == Gen!MainSymbols[d.name]
            main == Gen!MainIndex
            values == [i \in 1..Len(list) |->
                        Gen!Evaluate(list[i], IF i = 1 THEN lastValue ELSE Gen!Null, main)]
            nulls == {i \in 1..Len(values) : Gen!IsNull(values[i])}
            least == CHOOSE i \in nulls : \A j \in nulls : i <= j
            upTo == IF nulls = {} THEN Len(values) ELSE least
            call == Gen!Instr("call", d.name, Gen!Matches(values, callee, d.name))
            code == Gen!CodeOf(values, upTo)
            result == [type |-> Gen!ResultOf(callee, d.name), home |-> main, code |-> <<>>]
            emit(c) == functions' = Gen!Put(Gen!WithMain, Gen!EntryOf(main), c)
<1>1. /\ d.node = "call" /\ GenTypeOK /\ InsertOk /\ pos \in 1..Len(ast) /\ FramesAre(s)
      /\ Readable /\ pos \in Nat /\ lastValue \in Value
  BY ReadableState DEF Gen!VisitFunctionCall, Gen!At, Gen!node, AtNode, Readable, GenTypeOK
<1>2. frames = <<>> /\ t = s /\ t = <<>>
  BY <1>1, FramesAtNode DEF AtNode, Follows
<1>3. d.name \in Names /\ list \in Seq(Expression)
  BY <1>1, NodeFields DEF AtNode
<1>4. /\ insert' = Gen!EntryOf(main) /\ symbols' = Gen!MainSymbols
      /\ \/ emit(<<>>) /\ UNCHANGED lastValue
         \/ emit(code) /\ lastValue' = Gen!Null
         \/ emit(Append(code, call)) /\ lastValue' = result
              /\ callee.kind \in {"function", "library"}
      /\ pos' = pos + 1 /\ UNCHANGED status
      /\ UNCHANGED <<globals, currentLocals, frames>>
  BY DEF Gen!VisitFunctionCall, Gen!node, Gen!Proceed
<1>5. /\ Gen!WithMain \in Seq(Function) /\ main \in 1..Len(Gen!WithMain)
      /\ main \in Nat
  BY <1>1, MainPlace
<1>6. SymbolsOk(Gen!MainSymbols, Len(Gen!WithMain))
  BY <1>1, MainSymbolsTyped
<1>. HIDE DEF main
<1>7. /\ Len(values) \in Nat /\ \A i \in 1..Len(values) : values[i] \in Value
  <2>1. Len(list) \in Nat /\ Len(values) = Len(list)
    <3>. HIDE DEF list
    <3>. QED  BY <1>3, LenProperties
  <2>2. ASSUME NEW i \in 1..Len(values) PROVE values[i] \in Value
    <3>. DEFINE last == IF i = 1 THEN lastValue ELSE Gen!Null
    <3>1. list[i] \in Expression
      <4>. HIDE DEF list
      <4>. QED  BY <1>3, <2>1, ElementOfSeq
    <3>2. last \in Value
      BY <1>1, NullTyped
    <3>3. values[i] = Gen!Evaluate(list[i], last, main)
      BY <2>1
    <3>. HIDE DEF last, list
    <3>. QED  BY <1>1, <1>5, <3>1, <3>2, <3>3, EvaluateTyped
  <2>. QED  BY <2>1, <2>2
<1>. HIDE DEF values
<1>8. upTo \in 0..Len(values)
  <2>1. CASE nulls = {}
    BY <1>7, <2>1
  <2>2. CASE nulls # {}
    <3>1. nulls \subseteq Nat /\ nulls \subseteq 1..Len(values)
      BY <1>7
    <3>. HIDE DEF nulls
    <3>2. \E i \in nulls : \A j \in nulls : i <= j
      BY <2>2, <3>1, Smallest
    <3>3. least \in nulls
      BY <3>2
    <3>. HIDE DEF least
    <3>. QED  BY <1>7, <2>2, <3>1, <3>3
  <2>. QED  BY <2>1, <2>2
<1>. HIDE DEF upTo
<1>9. code \in Code
  <2>1. upTo \in Nat /\ \A i \in 1..upTo : values[i].code \in Code
    BY <1>7, <1>8 DEF Value
  <2>. QED  BY <2>1, CodeOfTyped
<1>10. call \in Instruction
  <2>1. Gen!Matches(values, callee, d.name) \in BOOLEAN
    BY DEF Gen!Matches
  <2>2. d.name \in Lexemes
    BY <1>3 DEF Lexemes
  <2>. HIDE DEF d, callee
  <2>. QED  BY <1>1, <2>1, <2>2, InstrTyped, InstrNamesFacts
<1>11. callee.kind \in {"function", "library"} => result \in Value
  <2>1. callee.kind = "function" => callee.index \in 1..Len(Gen!WithMain)
    BY <1>3, <1>6, SymbolNamesFacts DEF SymbolsOk
  <2>. HIDE DEF callee
  <2>2. callee.kind = "function" => Gen!WithMain[callee.index].result \in ValueTypes
    BY <1>5, <2>1, BlocksFacts DEF Function
  <2>3. Gen!Result(d.name) \in ValueTypes
    BY DEF Gen!Result, ValueTypes
  <2>4. Gen!ResultOf(callee, d.name) \in ValueTypes
    BY <2>2, <2>3 DEF Gen!ResultOf
  <2>5. <<>> \in Code
    BY EmptySeq DEF Code
  <2>. QED  BY <1>5, <2>4, <2>5 DEF Value
<1>. HIDE DEF code, call, result, callee
<1>12. PICK c \in Code : emit(c) /\ lastValue' \in Value
  <2>1. <<>> \in Code /\ Append(code, call) \in Code
    BY <1>9, <1>10, EmptySeq, AppendProperties DEF Code
  <2>. QED  BY <1>1, <1>4, <1>9, <1>11, <2>1, NullTyped
<1>13. /\ functions' \in Seq(Function) /\ SymbolsOk(symbols', Len(functions'))
       /\ symbols'["main"].kind # "none"
       /\ main = IF symbols'["main"].kind = "global" THEN Len(functions') ELSE Gen!MainIndex'
       /\ Gen!EntryOf(main) \in Place
  BY <1>1, <1>4, <1>12, MainCode DEF main
<1>14. GenTypeOK'
  BY <1>1, <1>4, <1>12, <1>13 DEF GenTypeOK
<1>15. InsertOk' /\ FramesAre(t)'
  BY <1>1, <1>2, <1>4, <1>13 DEF InsertOk, FramesAre
<1>. QED  BY <1>4, <1>14, <1>15 DEF Arrives, Keeps

\* The rest of visit(Program) adds the return of main.
LEMMA FinishStep ==
  ASSUME GenTypeOK, UNCHANGED ast, Gen!EndProgram
  PROVE  GenTypeOK' /\ status' = "done"
<1>. DEFINE ret == Gen!Instr("ret", "", TRUE)
            code == <<ret>>
<1>1. /\ functions' = Gen!Put(Gen!WithMain, Gen!EntryOf(Gen!MainIndex), code)
      /\ symbols' = Gen!MainSymbols /\ insert' = Gen!NoInsert
      /\ globals' = [n \in Names |-> Gen!NoType]
      /\ currentLocals' = [n \in Names |-> Gen!NoLocal]
      /\ status' = "done" /\ UNCHANGED <<pos, frames, lastValue>>
  BY DEF Gen!EndProgram
<1>2. code \in Code
  <2>1. pos \in Nat
    <3>1. pos \in 1..Len(ast) + 1
      BY DEF GenTypeOK
    <3>. QED  BY <3>1
  <2>2. ret \in Instruction
    BY <2>1, InstrTyped, InstrNamesFacts
  <2>. HIDE DEF ret
  <2>. QED  BY <2>2 DEF Code
<1>. HIDE DEF code
<1>3. functions' \in Seq(Function) /\ SymbolsOk(symbols', Len(functions'))
  BY <1>1, <1>2, MainCode
<1>4. /\ insert' \in Place /\ globals' \in [Names -> ValueTypes]
      /\ currentLocals' \in [Names -> Nat]
  BY <1>1 DEF Place, Gen!NoInsert, ValueTypes, Gen!NoLocal
<1>. QED  BY <1>1, <1>3, <1>4 DEF GenTypeOK
-----------------------------------------------------------------------------
(***************************************************************************)
(* Every step keeps the inductive invariant.                               *)
(***************************************************************************)
\* A visit arrives at the next node, stops, or passes over a definition.
LEMMA VisitStep ==
  ASSUME NEW s, NEW t, AtNode(s, t), ast \in Seq(Node), UNCHANGED ast, Gen!Next
  PROVE  Arrives(t) \/ Fails \/ Skips
<1>1. CASE Gen!ThrowOutOfRange
  BY <1>1, FailStep DEF Gen!ThrowOutOfRange, AtNode
<1>2. CASE Gen!VisitDeclaration \/ Gen!VisitExpression
  BY <1>2, DeclarationNodeStep, TopExpressionStep
<1>3. CASE Gen!VisitExpressionStatement \/ Gen!VisitPrintStatement \/ Gen!VisitReturnStatement
  BY <1>3, ExpressionStatementStep, PrintStatementStep, ReturnStatementStep
<1>4. CASE Gen!VisitForLoopStatement \/ Gen!VisitWhileLoopStatement
  BY <1>4, ForStep, WhileStep
<1>5. CASE Gen!VisitIfStatement \/ Gen!VisitIfElseStatement
  BY <1>5, IfStep, IfElseStep
<1>6. CASE Gen!EndBody \/ Gen!EndFunctionDefinition
  BY <1>6, LeaveBodyStep, LeaveFunctionStep
<1>7. CASE Gen!VisitFunctionDefinition \/ Gen!VisitFunctionCall
  BY <1>7, FunctionNodeStep, CallNodeStep
<1>8. CASE Gen!EndProgram
  <2>1. Len(ast) \in Nat
    BY LenProperties
  <2>2. pos \in 1..Len(ast) /\ pos > Len(ast)
    BY <1>8 DEF AtNode, Gen!EndProgram
  <2>. QED  BY <2>1, <2>2
<1>. QED
  BY <1>1, <1>2, <1>3, <1>4, <1>5, <1>6, <1>7, <1>8 DEF Gen!Next

\* The stacks of visits of the text are still those of the text.
LEMMA ReachedNext ==
  ASSUME NEW st, Nested(ast, st), Ordered(ast, st), st[Len(ast)] = <<>>, UNCHANGED ast,
         NEW t, t = st[pos' - 1], FramesAre(t)'
  PROVE  Reached(st)'
BY DEF Reached, FramesAre, Nested, Ordered

\* Past the last node only the end of the program or a number out of range is left.
LEMMA PastTheEnd ==
  ASSUME GenTypeOK, Len(ast) \in Nat, pos > Len(ast), Gen!Next
  PROVE  Gen!EndProgram
<1>1. ~(pos <= Len(ast))
  BY DEF GenTypeOK
<1>. QED
  BY <1>1 DEF Gen!Next, Gen!ThrowOutOfRange, Gen!VisitDeclaration, Gen!VisitExpression,
     Gen!VisitExpressionStatement, Gen!VisitPrintStatement, Gen!VisitReturnStatement,
     Gen!VisitForLoopStatement, Gen!VisitWhileLoopStatement, Gen!VisitIfStatement,
     Gen!VisitIfElseStatement, Gen!EndBody, Gen!VisitFunctionDefinition,
     Gen!EndFunctionDefinition, Gen!VisitFunctionCall, Gen!At

\* The stack at the node that is visited next.
LEMMA VisitReaches ==
  ASSUME ast \in Seq(Node), UNCHANGED ast, GenTypeOK, InsertOk, status = "generating",
         pos <= Len(ast), NEW st, Reached(st), Gen!Next
  PROVE  Keeps /\ Reached(st)'
<1>s. PICK s : s = st[pos - 1]
  OBVIOUS
<1>t. PICK t : t = st[pos]
  OBVIOUS
<1>1. /\ Nested(ast, st) /\ Ordered(ast, st) /\ st[Len(ast)] = <<>> /\ FramesAre(s)
      /\ st \in [0..Len(ast) -> Seq(VisitKinds)] /\ \A i \in 0..Len(ast) : Rooted(st[i])
      /\ \A i \in 1..Len(ast) : Follows(ast[i], st[i - 1], st[i])
  BY <1>s DEF Reached, Nested
<1>2. /\ pos \in 1..Len(ast) /\ pos - 1 \in 0..Len(ast) /\ pos \in 0..Len(ast)
      /\ Len(ast) \in Nat /\ pos + 1 - 1 = pos
  <2>1. pos \in 1..Len(ast) + 1 /\ Len(ast) \in Nat
    BY LenProperties DEF GenTypeOK
  <2>. QED  BY <2>1
<1>3. AtNode(s, t)
  <2>1. ast[pos] \in Node
    BY <1>2, ElementOfSeq
  <2>2. s \in Seq(VisitKinds) /\ t \in Seq(VisitKinds) /\ Rooted(s)
    BY <1>s, <1>t, <1>1, <1>2
  <2>. QED  BY <1>s, <1>t, <1>1, <1>2, <2>1, <2>2 DEF AtNode
<1>4. CASE Arrives(t)
  <2>1. t = st[pos' - 1]
    BY <1>t, <1>2, <1>4 DEF Arrives
  <2>. QED  BY <1>1, <1>4, <2>1, ReachedNext DEF Arrives
<1>5. CASE Fails
  <2>1. s = st[pos' - 1] /\ frames' = frames
    BY <1>s, <1>5 DEF Fails
  <2>2. FramesAre(s)'
    BY <1>1, <2>1 DEF FramesAre
  <2>. QED  BY <1>1, <1>5, <2>1, <2>2, ReachedNext DEF Fails
<1>6. CASE Skips
  <2>. DEFINE j == Gen!NextItem(pos)
  <2>1. /\ j \in pos + 1..Len(ast) + 1
        /\ j <= Len(ast) => ast[j].node \in {"function", "call"}
    BY <1>2, NextItemFacts
  <2>. HIDE DEF j
  <2>2. st[j - 1] = <<>>
    <3>1. CASE j <= Len(ast)
      <4>1. Follows(ast[j], st[j - 1], st[j]) /\ ast[j].node \in {"function", "call"}
        BY <1>1, <1>2, <2>1, <3>1
      <4>. QED  BY <4>1 DEF Follows
    <3>2. CASE ~(j <= Len(ast))
      <4>1. j - 1 = Len(ast)
        BY <1>2, <2>1, <3>2
      <4>. QED  BY <1>1, <4>1
    <3>. QED  BY <3>1, <3>2
  <2>3. <<>> = st[pos' - 1] /\ frames' = <<>>
    BY <1>6, <2>2 DEF Skips, j
  <2>4. FramesAre(<<>>)'
    BY <2>3 DEF FramesAre
  <2>. QED  BY <1>1, <1>6, <2>3, <2>4, ReachedNext DEF Skips
<1>. QED  BY <1>3, <1>4, <1>5, <1>6, VisitStep

LEMMA GenerateStep == CompilerInv /\ Generate => GenInv'
<1>. SUFFICES ASSUME CompilerInv, Generate PROVE GenInv'
  OBVIOUS
<1>1. /\ outcome = "accepted" /\ outcome' = outcome /\ ast' = ast /\ Gen!Next
      /\ ast \in Seq(Node) /\ Len(ast) \in Nat
      /\ GenTypeOK
  BY LenProperties DEF Generate, vars, CompilerInv, ScopesInv, IInv, TypeOK, GenInv
<1>2. status = "generating"
  BY <1>1 DEF Gen!Next, Gen!ThrowOutOfRange, Gen!VisitDeclaration, Gen!VisitExpression,
     Gen!VisitExpressionStatement, Gen!VisitPrintStatement, Gen!VisitReturnStatement,
     Gen!VisitForLoopStatement, Gen!VisitWhileLoopStatement, Gen!VisitIfStatement,
     Gen!VisitIfElseStatement, Gen!EndBody, Gen!VisitFunctionDefinition,
     Gen!EndFunctionDefinition, Gen!VisitFunctionCall, Gen!EndProgram, Gen!At
<1>3. PICK st : Reached(st)
  BY <1>1, <1>2 DEF CompilerInv, GenInv
<1>4. InsertOk
  BY <1>1, <1>2 DEF CompilerInv, GenInv
<1>5. CASE pos > Len(ast)
  <2>1. GenTypeOK' /\ status' = "done"
    BY <1>1, <1>5, PastTheEnd, FinishStep
  <2>. QED  BY <1>1, <2>1 DEF GenInv
<1>6. CASE ~(pos > Len(ast))
  <2>1. pos <= Len(ast)
    BY <1>1, <1>6 DEF GenTypeOK
  <2>2. Keeps /\ Reached(st)'
    BY <1>1, <1>2, <1>3, <1>4, <2>1, VisitReaches
  <2>3. \E su : Reached(su)'
    BY <2>2
  <2>. QED  BY <1>1, <2>2, <2>3 DEF GenInv, Keeps
<1>. QED  BY <1>5, <1>6

\* The generator before it starts, whatever has been analyzed.
LEMMA FirstState ==
  ASSUME ast \in Seq(Node), Gen!Init
  PROVE  GenTypeOK /\ InsertOk
<1>1. GenTypeOK
  <2>1. Len(ast) \in Nat /\ 1 \in 1..Len(ast) + 1
    BY LenProperties
  <2>2. SymbolsOk(symbols, 0)
    BY DEF Gen!Init, SymbolsOk, Gen!Symbol, Gen!NoSymbol, Gen!SymbolNames, Gen!Allocators
  <2>3. functions = <<>> /\ frames = <<>> /\ Len(functions) = 0
    BY DEF Gen!Init
  <2>4. /\ globals \in [Names -> ValueTypes] /\ currentLocals \in [Names -> Nat]
        /\ insert \in Place
    BY DEF Gen!Init, ValueTypes, Gen!NoLocal, Place, Gen!NoInsert
  <2>5. functions \in Seq(Function) /\ frames \in Seq(FrameSet)
    BY <2>3, EmptySeq
  <2>6. lastValue \in Value /\ pos = 1 /\ status = "generating"
    BY NullTyped DEF Gen!Init
  <2>. QED  BY <2>1, <2>2, <2>3, <2>4, <2>5, <2>6 DEF GenTypeOK
<1>2. InsertOk
  BY DEF Gen!Init, InsertOk
<1>. QED  BY <1>1, <1>2

\* It starts at the outermost level of what the analyzer has accepted.
LEMMA FirstStack ==
  ASSUME NestingInv, outcome # "rejected", visits = <<>>, Gen!Init
  PROVE  \E st : Reached(st)
<1>1. PICK st : Nested(ast, st) /\ Ordered(ast, st) /\ st[Len(ast)] = visits
  BY DEF NestingInv
<1>2. pos = 1 /\ frames = <<>>
  BY DEF Gen!Init
<1>3. FramesAre(st[pos - 1])
  BY <1>1, <1>2 DEF FramesAre, Nested
<1>. QED  BY <1>1, <1>3 DEF Reached

LEMMA CompilerInitInvariant == CompilerInit => CompilerInv
<1>. SUFFICES ASSUME CompilerInit PROVE CompilerInv
  OBVIOUS
<1>1. ScopesInv /\ NestingInv /\ Gen!Init /\ outcome # "accepted"
  BY ScopesInit, NestingInit DEF CompilerInit, Init
<1>2. GenTypeOK
  BY <1>1, FirstState DEF ScopesInv, IInv, TypeOK
<1>. QED  BY <1>1, <1>2 DEF CompilerInv, GenInv

LEMMA AnalyzeStep == CompilerInv /\ Analyze => CompilerInv'
<1>. SUFFICES ASSUME CompilerInv, Analyze PROVE CompilerInv'
  OBVIOUS
<1>1. /\ ScopesInv /\ IInv /\ NestingInv /\ Gen!Init /\ GenTypeOK /\ outcome = "visiting"
      /\ Next /\ UNCHANGED genVars
  BY DEF CompilerInv, ScopesInv, GenInv, Analyze
<1>2. ScopesInv' /\ Moves
  BY <1>1, ScopesStep, AnalyzerMoves
<1>3. NestingInv'
  BY <1>1, <1>2, NestingStep
<1>4. ast \in Seq(Node) /\ ast' \in Seq(Node) /\ Len(ast') \in Nat
  <2>1. ast \in Seq(Node) /\ ast' \in Seq(Node)
    BY <1>1, <1>2 DEF ScopesInv, IInv, TypeOK
  <2>. QED  BY <2>1, LenProperties
<1>5. InsertOk
  BY <1>1, <1>4, FirstState
<1>6. GenTypeOK'
  <2>1. pos' = 1 /\ 1 \in 1..Len(ast') + 1
    BY <1>1, <1>4 DEF Gen!Init, genVars
  <2>. QED  BY <1>1, <2>1 DEF GenTypeOK, genVars
<1>7. Gen!Init'
  BY <1>1 DEF Gen!Init, genVars
<1>8. ASSUME outcome' = "accepted" PROVE InsertOk' /\ (\E st : Reached(st))'
  <2>1. Waits
    BY <1>2, <1>8 DEF Moves, Accepts, Goes
  <2>2. ast' = ast /\ visits = <<>>
    BY <1>1, <1>8, <2>1 DEF Waits
  <2>3. \E st : Reached(st)
    BY <1>1, <2>2, FirstStack
  <2>4. (\E st : Reached(st))'
    BY <1>1, <2>2, <2>3 DEF Reached, Nested, Ordered, FramesAre, genVars
  <2>5. InsertOk'
    BY <1>1, <1>5 DEF InsertOk, genVars, NewestBlocks, Gen!MainIndex, Gen!MainExists
  <2>. QED  BY <2>4, <2>5
<1>. QED  BY <1>2, <1>3, <1>6, <1>7, <1>8 DEF CompilerInv, GenInv

LEMMA CompilerNextInvariant ==
  CompilerInv /\ [CompilerNext]_<<vars, genVars>> => CompilerInv'
<1>. SUFFICES ASSUME CompilerInv, [CompilerNext]_<<vars, genVars>> PROVE CompilerInv'
  OBVIOUS
<1>1. CASE Analyze
  BY <1>1, AnalyzeStep
<1>2. CASE Generate
  <2>1. UNCHANGED vars
    BY <1>2 DEF Generate
  <2>2. ScopesInv' /\ NestingInv'
    <3>1. ScopesInv /\ NestingInv
      BY DEF CompilerInv
    <3>2. ScopesInv'
      BY <2>1, <3>1, ScopesStep
    <3>3. Moves
      BY <2>1 DEF Moves, Waits, vars, NestingInv
    <3>. QED  BY <3>1, <3>2, <3>3, NestingStep
  <2>. QED  BY <1>2, <2>2, GenerateStep DEF CompilerInv
<1>3. CASE UNCHANGED <<vars, genVars>>
  <2>1. ScopesInv /\ NestingInv /\ GenInv /\ UNCHANGED vars /\ UNCHANGED genVars
    BY <1>3 DEF CompilerInv
  <2>2. ScopesInv'
    BY <2>1, ScopesStep
  <2>3. NestingInv'
    <3>1. Moves
      BY <2>1 DEF Moves, Waits, vars
    <3>. QED  BY <2>1, <2>2, <3>1, NestingStep
  <2>4. GenInv'
    BY <2>1 DEF GenInv, GenTypeOK, InsertOk, Reached, Nested, FramesAre, NewestBlocks,
       Gen!MainIndex, Gen!MainExists, Gen!Init, vars, genVars
  <2>. QED  BY <2>2, <2>3, <2>4 DEF CompilerInv
<1>. QED  BY <1>1, <1>2, <1>3 DEF CompilerNext, Over
-----------------------------------------------------------------------------
\* The inductive invariant holds: of the analyzer, of the nesting of what it has
\* accepted, and of the generator's place in it.
THEOREM CompilerInvHolds == CompilerSpec => []CompilerInv
<1>. QED  BY CompilerInitInvariant, CompilerNextInvariant, PTL DEF CompilerSpec

\* What the generator builds is well formed whatever it is given: functions have
\* at least one block, symbols of functions name one of them, instructions and
\* values have the types and places they are read with (LLVMCodeGen.h:50-62).
THEOREM GeneratorTypeCorrect == CompilerSpec => []GenTypeOK
<1>1. CompilerInv => GenTypeOK
  BY DEF CompilerInv, GenInv
<1>. QED  BY <1>1, CompilerInvHolds, PTL

LEMMA InsertPointFollows == CompilerInv => InsertPointDiscipline
<1>. SUFFICES ASSUME CompilerInv, status = "generating"
              PROVE  InsertPointDiscipline
  BY DEF InsertPointDiscipline
<1>1. /\ GenTypeOK /\ InsertOk
  <2>1. CASE outcome = "accepted"
    BY <2>1 DEF CompilerInv, GenInv
  <2>2. CASE outcome # "accepted"
    BY <2>2, FirstState DEF CompilerInv, GenInv, ScopesInv, IInv, TypeOK
  <2>. QED  BY <2>1, <2>2
<1>2. frames # <<>> => insert.function = Len(functions)
  BY <1>1 DEF InsertOk
<1>3. frames = <<>> => \/ insert = Gen!NoInsert
                       \/ insert = Gen!EntryOf(IF symbols["main"].kind = "global"
                                                 THEN Len(functions) ELSE Gen!MainIndex)
  BY <1>1 DEF InsertOk
<1>4. ASSUME NEW i \in 1..Len(frames), frames[i].next # 0
      PROVE  LET blocks == functions[insert.function].blocks
             IN  /\ blocks[frames[i].next] = <<>>
                 /\ insert.block # frames[i].next
                 /\ \A j \in 1..Len(frames) : frames[j].next = frames[i].next => i = j
                 /\ frames[i].back # 0 =>
                      LET test == blocks[frames[i].back]
                      IN  frames[i].next \in test[Len(test)].to
  <2>1. frames # <<>>
    BY <1>4
  <2>2. Open(frames, functions[insert.function].blocks, insert.block)
    BY <1>1, <2>1 DEF InsertOk, NewestBlocks
  <2>3. /\ WaitsFor(frames[i], functions[insert.function].blocks, insert.block)
        /\ LoopsBack(frames[i], functions[insert.function].blocks, insert.block)
        /\ Distinct(frames)
    BY <2>2 DEF Open
  <2>. QED  BY <1>4, <2>3 DEF WaitsFor, LoopsBack, Distinct
<1>. QED  BY <1>2, <1>3, <1>4 DEF InsertPointDiscipline

\* Code always goes where the visit methods expect it: in a body to the function
\* under way, with the block after every enclosing loop and the else block of
\* every branch still empty and waited for once, between functions nowhere or
\* to main (the SetInsertPoint calls of LLVMCodeGen.cpp).
THEOREM InsertPointIsDisciplined == CompilerSpec => []InsertPointDiscipline
<1>. QED  BY CompilerInvHolds, InsertPointFollows, PTL
-----------------------------------------------------------------------------
(***************************************************************************)
(* What an accepted text is to the generator: the names of a function are  *)
(* the symbols and values that the analyzer took them for, of the types    *)
(* that go with the analyzer's, so that every instruction that is made of  *)
(* a plain node is well typed, the generator crashes or gives up only at   *)
(* the nodes that StopsOnlyOn lists, each plain statement becomes one      *)
(* instruction, and main makes the calls in the order of the text.         *)
(***************************************************************************)
Declared(i, n) == ast[i].node = "declaration" /\ ast[i].name = n

\* A generated function and its parameters, as the text has them.
Generated(f) == ast[f].node = "function" /\ Gen!Supported(ast[f])
Files(f, n)  == Generated(f) /\ n \in Gen!FiledNames(ast[f])

\* A local is a parameter of some generated function, and a body ends with the
\* locals that it began with.
LocalsKnown ==
  /\ \A n \in Names : currentLocals[n] # 0 => \E f \in 1..pos - 1 : Files(f, n)
  /\ \A i \in 2..Len(frames) : frames[i].locals = currentLocals

\* The globals are the declarations that have been visited, but for arrays that
\* were left out.
GlobalsKnown ==
  /\ \A n \in Names : globals[n] # Gen!NoType =>
       \E i \in 1..pos - 1 : Declared(i, n) /\ globals[n] = Gen!GlobalValueType(ast[i])
  /\ \A i \in 1..pos - 1 : ast[i].node = "declaration" /\ ast[i].type # "array" =>
       globals[ast[i].name] # Gen!NoType

\* The function under way is that of the last function node, and the locals
\* with the names of its parameters are its own.
BodyKnown ==
  frames # <<>> =>
    \E f \in 1..pos - 1 :
      /\ Generated(f)
      /\ \A k \in f + 1..pos - 1 : ast[k].node \notin {"function", "call", "declaration"}
      /\ functions[Len(functions)].node = f
      /\ functions[Len(functions)].result = Gen!ReturnType(ast[f].returnType)
      /\ \A n \in Gen!FiledNames(ast[f]) \cap Names : currentLocals[n] = Len(functions)

\* The functions among the symbols, but for main, are definitions of the text.
Defined(n, index) ==
  \E d \in 1..pos - 1 :
    /\ ast[d].node = "function" /\ ast[d].name = n
    /\ functions[index].node = d
    /\ functions[index].params = [i \in 1..Len(ast[d].parameters) |-> Gen!I32]
SymbolsKnown ==
  \A n \in Gen!SymbolNames \ {"main"} :
    /\ symbols[n].kind = "function" => Defined(n, symbols[n].index)
    /\ symbols[n].kind = "library" => n \in Gen!Allocators \cup {"printf"}

\* What is left of a value has no code, and is main's only after a call.
LastKnown ==
  /\ lastValue.code = <<>>
  /\ lastValue.home # 0 => \E k \in 1..pos - 1 : ast[k].node = "call"

-----------------------------------------------------------------------------
(***************************************************************************)
(* What an evaluation emits.  A set of instructions takes those of the     *)
(* visit under way when it has them with each of some opcodes and oks.     *)
(***************************************************************************)
Reading    == {"load", "arith"}
Evaluating == Reading \cup {"store"}

Takes(S, ops, oks) ==
  \A op \in ops, name \in InstrNames,
     ok \in oks : Gen!Instr(op, name, ok) \in S

LEMMA TakesFewer ==
  ASSUME NEW S, NEW oks, Takes(S, Evaluating, oks)
  PROVE  Takes(S, Reading, oks)
BY Zenon DEF Takes, Evaluating

LEMMA YieldEmits ==
  ASSUME NEW S, NEW oks, Takes(S, Reading, oks), NEW op \in {"load", "arith"},
         NEW name \in Lexemes \cup {""}, NEW ok \in oks, NEW code \in Seq(S),
         NEW type, NEW h
  PROVE  Gen!Yield(type, op, name, ok, code, h).code \in Seq(S)
<1>1. Gen!Instr(op, name, ok) \in S
  BY InstrNamesFacts, Zenon DEF Takes, Reading
<1>2. Append(code, Gen!Instr(op, name, ok)) \in Seq(S)
  BY <1>1, AppendProperties, Zenon
<1>. QED  BY <1>2, Zenon DEF Gen!Yield

LEMMA PrimaryEmits ==
  ASSUME NEW S, Takes(S, Reading, BOOLEAN), NEW l \in Lexemes, NEW h
  PROVE  Gen!PrimaryValue(l, h).code \in Seq(S)
<1>0. <<>> \in Seq(S)
  BY EmptySeq
<1>1. \A type : Gen!Constant(type).code \in Seq(S)
  BY <1>0 DEF Gen!Constant
<1>2. Gen!LiteralValue(l).code \in Seq(S) /\ Gen!Null.code \in Seq(S)
  BY <1>1 DEF Gen!LiteralValue, Gen!Null
<1>3. Gen!LocalValue(l, h).code \in Seq(S)
  <2>1. (currentLocals[l] = h) \in BOOLEAN
    OBVIOUS
  <2>. QED  BY <1>0, <2>1, YieldEmits, Zenon DEF Gen!LocalValue
<1>4. Gen!GlobalValue(l, h).code \in Seq(S)
  <2>. DEFINE type == globals[l]
  <2>. HIDE DEF type
  <2>1. \A ok \in BOOLEAN : Gen!Yield(type, "load", l, ok, <<>>, h).code \in Seq(S)
    BY <1>0, YieldEmits, Zenon
  <2>. QED  BY <1>1, <1>2, <2>1 DEF Gen!GlobalValue, type
<1>. QED  BY <1>2, <1>3, <1>4 DEF Gen!PrimaryValue

LEMMA OperandEmits ==
  ASSUME NEW S, Takes(S, Reading, BOOLEAN), NEW e \in Primary \cup Unary, NEW h
  PROVE  Gen!OperandValue(e, h).code \in Seq(S)
<1>1. CASE e.kind # "unary"
  <2>1. e.name \in Lexemes
    BY <1>1 DEF Primary, Unary
  <2>. QED  BY <1>1, <2>1, PrimaryEmits DEF Gen!OperandValue
<1>2. CASE e.kind = "unary"
  <2>1. e.expr.name \in Lexemes
    BY <1>2 DEF Primary, Unary
  <2>. DEFINE v == Gen!PrimaryValue(e.expr.name, h)
  <2>2. v.code \in Seq(S)
    BY <2>1, PrimaryEmits
  <2>. HIDE DEF v
  <2>3. (v.type \in Gen!IntegerTypes) \in BOOLEAN
    OBVIOUS
  <2>4. Gen!Yield(v.type, "arith", "", v.type \in Gen!IntegerTypes, v.code, h).code \in Seq(S)
    BY <2>2, <2>3, YieldEmits, Zenon
  <2>5. Gen!Negated(v, h).code \in Seq(S)
    BY <2>2, <2>4, Zenon DEF Gen!Negated
  <2>. QED  BY <1>2, <2>5 DEF Gen!OperandValue, Gen!UnaryValue, v
<1>. QED  BY <1>1, <1>2

LEMMA BinaryEmits ==
  ASSUME NEW S, Takes(S, Reading, BOOLEAN), NEW e \in Binary, NEW h
  PROVE  Gen!BinaryValue(e, h).code \in Seq(S)
<1>. DEFINE left == Gen!OperandValue(e.left, h)
            right == Gen!OperandValue(e.right, h)
<1>1. left.code \in Seq(S) /\ right.code \in Seq(S)
  BY OperandEmits DEF Binary
<1>. HIDE DEF left, right
<1>. DEFINE code == left.code \o right.code
            type == IF e.op \in ComparisonOps THEN Gen!I1 ELSE left.type
            ok   == /\ left.type = right.type
                    /\ left.type \in Gen!IntegerTypes
                                       \cup (IF e.op \in ComparisonOps THEN {Gen!Ptr} ELSE {})
<1>2. code \in Seq(S) /\ ok \in BOOLEAN
  BY <1>1, ConcatProperties
<1>. HIDE DEF code, type, ok
<1>3. /\ Gen!Yield(type, "arith", "", ok, code, h).code \in Seq(S)
      /\ Gen!Constant(type).code \in Seq(S)
      /\ [Gen!Null EXCEPT !.code = code].code \in Seq(S)
  BY <1>2, YieldEmits, EmptySeq, Zenon DEF Gen!Constant, Gen!Null
<1>4. \/ Gen!Combined(e.op, left, right, h) = [Gen!Null EXCEPT !.code = code]
      \/ Gen!Combined(e.op, left, right, h) = Gen!Constant(type)
      \/ Gen!Combined(e.op, left, right, h) = Gen!Yield(type, "arith", "", ok, code, h)
  BY SameOperators, Zenon DEF Gen!Combined, code, type, ok
<1>5. Gen!BinaryValue(e, h) = Gen!Combined(e.op, left, right, h)
  BY DEF Gen!BinaryValue, left, right
<1>. QED  BY <1>3, <1>4, <1>5, Zenon

LEMMA SimpleEmits ==
  ASSUME NEW S, Takes(S, Reading, BOOLEAN), NEW e \in Simple \cup MethodCall, NEW last,
         last.code \in Seq(S), NEW h
  PROVE  Gen!SimpleValue(e, last, h).code \in Seq(S)
<1>1. CASE e \in Primary \cup Unary
  <2>1. \/ e.kind = "primary" /\ e.name \in Lexemes
        \/ e.kind = "unary"
    BY <1>1 DEF Primary, Unary
  <2>2. e.kind = "unary" => Gen!UnaryValue(e, h).code \in Seq(S)
    BY <1>1, OperandEmits DEF Gen!OperandValue
  <2>. QED  BY <2>1, <2>2, PrimaryEmits DEF Gen!SimpleValue
<1>2. CASE e \in Binary
  <2>1. e.kind = "binary"
    BY <1>2 DEF Binary
  <2>. QED  BY <1>2, <2>1, BinaryEmits DEF Gen!SimpleValue
<1>3. CASE e \in MethodCall
  <2>1. e.kind = "method"
    BY <1>3 DEF MethodCall
  <2>. QED  BY <2>1 DEF Gen!SimpleValue
<1>. QED  BY <1>1, <1>2, <1>3 DEF Simple

LEMMA StoreEmits ==
  ASSUME NEW S, NEW oks, Takes(S, Evaluating, oks), NEW name \in Names, NEW v, v.code \in Seq(S), NEW h,
         oks = BOOLEAN \/ (Gen!UsableIn(v, h) /\ currentLocals[name] \in {0, h} /\ oks = {TRUE})
  PROVE  Gen!StoreTo(name, v, h).code \in Seq(S)
<1>1. ASSUME NEW ok \in BOOLEAN, (ok /\ Gen!UsableIn(v, h)) \in oks
      PROVE  [Gen!Null EXCEPT !.code =
                Append(v.code, Gen!Instr("store", name, ok /\ Gen!UsableIn(v, h)))].code \in Seq(S)
  <2>1. Gen!Instr("store", name, ok /\ Gen!UsableIn(v, h)) \in S
    BY <1>1, InstrNamesFacts, Zenon DEF Takes, Evaluating, Lexemes
  <2>2. Append(v.code, Gen!Instr("store", name, ok /\ Gen!UsableIn(v, h))) \in Seq(S)
    BY <2>1, AppendProperties
  <2>. QED  BY <2>2 DEF Gen!Null, Gen!Constant
<1>2. [Gen!Null EXCEPT !.code = v.code].code \in Seq(S)
  BY DEF Gen!Null, Gen!Constant
<1>3. /\ (TRUE /\ Gen!UsableIn(v, h)) \in oks
      /\ currentLocals[name] # Gen!NoLocal =>
           ((currentLocals[name] = h) /\ Gen!UsableIn(v, h)) \in oks
  BY DEF Gen!UsableIn, Gen!NoLocal
<1>4. (currentLocals[name] = h) \in BOOLEAN
  OBVIOUS
<1>5. CASE Gen!IsNull(v)
  BY <1>2, <1>5 DEF Gen!StoreTo
<1>6. CASE ~Gen!IsNull(v) /\ currentLocals[name] # Gen!NoLocal
  <2>1. Gen!StoreTo(name, v, h) =
          [Gen!Null EXCEPT !.code = Append(v.code,
             Gen!Instr("store", name, (currentLocals[name] = h) /\ Gen!UsableIn(v, h)))]
    BY <1>6 DEF Gen!StoreTo
  <2>. QED  BY <1>1, <1>3, <1>4, <1>6, <2>1
<1>7. CASE ~Gen!IsNull(v) /\ currentLocals[name] = Gen!NoLocal
  <2>1. \/ Gen!StoreTo(name, v, h) =
             [Gen!Null EXCEPT !.code = Append(v.code,
                Gen!Instr("store", name, TRUE /\ Gen!UsableIn(v, h)))]
        \/ Gen!StoreTo(name, v, h) = [Gen!Null EXCEPT !.code = v.code]
    BY <1>7 DEF Gen!StoreTo
  <2>. QED  BY <1>1, <1>2, <1>3, <2>1
<1>. QED  BY <1>5, <1>6, <1>7

LEMMA EvaluateEmits ==
  ASSUME NEW S, Takes(S, Evaluating, BOOLEAN), NEW e \in Expression, NEW last, last.code \in Seq(S), NEW h
  PROVE  Gen!Evaluate(e, last, h).code \in Seq(S)
<1>0. Takes(S, Reading, BOOLEAN)
  BY TakesFewer
<1>1. CASE e \in Simple \cup MethodCall
  <2>1. e.kind # "assign"
    BY <1>1 DEF Simple, Primary, Unary, Binary, MethodCall
  <2>. QED  BY <1>0, <1>1, <2>1, SimpleEmits DEF Gen!Evaluate
<1>2. CASE e \in PlainAssignment
  <2>1. e.kind = "assign" /\ e.name \in Names /\ e.expression \in Simple \cup MethodCall
    BY <1>2 DEF PlainAssignment
  <2>2. e.expression.kind # "assign"
    BY <2>1 DEF Simple, Primary, Unary, Binary, MethodCall
  <2>3. Gen!SimpleValue(e.expression, last, h).code \in Seq(S)
    BY <1>0, <2>1, SimpleEmits
  <2>4. Gen!StoreTo(e.name, Gen!SimpleValue(e.expression, last, h), h).code \in Seq(S)
    BY <2>1, <2>3, StoreEmits
  <2>. QED  BY <2>1, <2>2, <2>4 DEF Gen!Evaluate
<1>3. CASE e \in NestedAssignment
  <2>. DEFINE f == e.expression
  <2>1. e.kind = "assign" /\ e.name \in Names /\ f \in PlainAssignment
    BY <1>3 DEF NestedAssignment
  <2>2. f.kind = "assign" /\ f.name \in Names /\ f.expression \in Simple \cup MethodCall
    BY <2>1 DEF PlainAssignment
  <2>3. Gen!SimpleValue(f.expression, last, h).code \in Seq(S)
    BY <1>0, <2>2, SimpleEmits
  <2>4. Gen!StoreTo(f.name, Gen!SimpleValue(f.expression, last, h), h).code \in Seq(S)
    BY <2>2, <2>3, StoreEmits
  <2>5. Gen!StoreTo(e.name, Gen!StoreTo(f.name, Gen!SimpleValue(f.expression, last, h), h), h).code
          \in Seq(S)
    BY <2>1, <2>4, StoreEmits
  <2>. QED  BY <2>1, <2>2, <2>5 DEF Gen!Evaluate
<1>. QED  BY <1>1, <1>2, <1>3 DEF Expression

-----------------------------------------------------------------------------
(***************************************************************************)
(* What a plain expression is worth.                                       *)
(***************************************************************************)
\* The name n, which is of this type to the analyzer, as the generator has it
\* for code in function h; an array may have been left out.
Means(n, type, h) ==
  \/ currentLocals[n] # 0 /\ currentLocals[n] = h /\ type = "int"
  \/ currentLocals[n] = 0 /\ type \in {"none", "array"} /\ globals[n] = Gen!NoType
  \/ /\ currentLocals[n] = 0 /\ type \in ScalarTypes \cup {"array"}
     /\ \E d \in Node : d.node = "declaration" /\ d.type = type
                          /\ globals[n] = Gen!GlobalValueType(d)

Reads(env, h) == \A n \in Names \ Misread(pos) : Means(n, env[n], h)

\* A value that code in h can use, computed by instructions of S, and one of
\* the analyzer's type.
Sound(v, h, S) == v.home \in {0, h} /\ v.code \in Seq(S)
OfType(v, type, h, S) ==
  /\ Sound(v, h, S)
  /\ type \in ScalarTypes => v.type = IRType(type) /\ ~Gen!IsNull(v)

LEMMA YieldWell ==
  ASSUME NEW S, Takes(S, Reading, {TRUE}), NEW op \in {"load", "arith"}, NEW name \in Lexemes \cup {""},
         NEW ok \in BOOLEAN, ok, NEW code \in Seq(S), NEW type, NEW h
  PROVE  Gen!Yield(type, op, name, ok, code, h).code \in Seq(S)
<1>1. ok \in {TRUE}
  BY Zenon
<1>. QED  BY <1>1, YieldEmits, Zenon

LEMMA NameIsWorth ==
  ASSUME NEW S, Takes(S, Reading, {TRUE}), NEW n \in Names, NEW h, NEW type, Means(n, type, h)
  PROVE  LET v == Gen!PrimaryValue(n, h)
         IN  /\ type = "none" => Gen!IsNull(v)
             /\ type # "none" => OfType(v, type, h, S)
             /\ type = "array" => v.type = globals[n]
             /\ v.code \in Seq(S)
             /\ type \in ScalarTypes \cup {"array", "none"}
<1>. DEFINE v == Gen!PrimaryValue(n, h)
<1>0. n \in Lexemes \cup {""} /\ <<>> \in Seq(S) /\ TRUE \in {TRUE}
  BY EmptySeq, Zenon DEF Lexemes
<1>1. CASE currentLocals[n] # 0 /\ currentLocals[n] = h /\ type = "int"
  <2>. DEFINE own == currentLocals[n] = h
  <2>1. v = Gen!Yield(Gen!I32, "load", n, own, <<>>, h)
    BY <1>1 DEF Gen!PrimaryValue, Gen!NoLocal, Gen!LocalValue
  <2>2. own \in BOOLEAN /\ own
    BY <1>1
  <2>. HIDE DEF v, own
  <2>3. v.code \in Seq(S) /\ v.type = Gen!I32 /\ v.home = h
    <3>1. v.code \in Seq(S)
      BY <1>0, <2>1, <2>2, YieldWell, Zenon
    <3>2. v.type = Gen!I32 /\ v.home = h
      BY <2>1 DEF Gen!Yield
    <3>. QED  BY <3>1, <3>2
  <2>4. OfType(v, type, h, S)
    BY <1>1, <2>3 DEF OfType, Sound, Gen!IsNull, Gen!I32, Gen!NoType, IRType
  <2>. QED  BY <1>1, <2>3, <2>4 DEF ScalarTypes, v
<1>2. CASE currentLocals[n] = 0 /\ type \in {"none", "array"} /\ globals[n] = Gen!NoType
  <2>1. v = Gen!Null
    BY <1>2 DEF Gen!PrimaryValue, Gen!NoLocal, Gen!GlobalValue, Gen!Bytes, Gen!NoType
  <2>2. Gen!IsNull(v) /\ v.code = <<>> /\ v.home = 0 /\ v.type = Gen!NoType
    BY <2>1 DEF Gen!Null, Gen!Constant, Gen!IsNull
  <2>3. type \notin ScalarTypes
    BY <1>2 DEF ScalarTypes
  <2>4. OfType(v, type, h, S)
    BY <1>0, <2>2, <2>3, Zenon DEF OfType, Sound
  <2>. QED  BY <1>0, <1>2, <2>2, <2>3, <2>4, Zenon DEF v, ScalarTypes
<1>3. ASSUME currentLocals[n] = 0, type \in ScalarTypes \cup {"array"},
             NEW d \in Node, d.node = "declaration", d.type = type,
             globals[n] = Gen!GlobalValueType(d)
      PROVE  OfType(v, type, h, S) /\ (type = "array" => v.type = globals[n])
  <2>. DEFINE t == globals[n]
  <2>1. /\ type = "int" => t = Gen!I32
        /\ type = "float" => t = Gen!Float
        /\ type = "bool" => t = Gen!I1
        /\ type = "string" => t = Gen!Bytes
        /\ type = "array" => t = Gen!ArrayOf(Len(d.elements))
    BY <1>3 DEF Gen!GlobalValueType
  <2>. HIDE DEF t
  <2>2. v = CASE t = Gen!NoType -> Gen!Null
              [] t = Gen!Bytes  -> Gen!Constant(Gen!Ptr)
              [] OTHER          -> Gen!Yield(t, "load", n, TRUE, <<>>, h)
    BY <1>3 DEF Gen!PrimaryValue, Gen!NoLocal, Gen!GlobalValue, t
  <2>3. /\ Gen!Yield(t, "load", n, TRUE, <<>>, h).code \in Seq(S)
        /\ Gen!Yield(t, "load", n, TRUE, <<>>, h).type = t
        /\ Gen!Yield(t, "load", n, TRUE, <<>>, h).home = h
    <3>1. \A ok \in {TRUE} : Gen!Yield(t, "load", n, ok, <<>>, h).code \in Seq(S)
      BY <1>0, YieldEmits, Zenon
    <3>. QED  BY <3>1 DEF Gen!Yield
  <2>. HIDE DEF v
  <2>4. CASE type = "string"
    <3>1. v = Gen!Constant(Gen!Ptr)
      BY <2>1, <2>2, <2>4 DEF Gen!Bytes, Gen!NoType
    <3>. QED  BY <1>0, <2>4, <3>1, Zenon
              DEF OfType, Sound, Gen!Constant, Gen!IsNull, IRType, Gen!Ptr, Gen!NoType
  <2>5. CASE type # "string"
    <3>1. t # Gen!NoType /\ t # Gen!Bytes
      BY <1>3, <2>1, <2>5 DEF ScalarTypes, Gen!I32, Gen!Float, Gen!I1, Gen!ArrayOf,
         Gen!Bytes, Gen!NoType
    <3>2. v.code \in Seq(S) /\ v.type = t /\ v.home = h
      BY <2>2, <2>3, <3>1
    <3>3. type \in ScalarTypes => t = IRType(type)
      BY <2>1, <2>5 DEF ScalarTypes, IRType
    <3>. QED  BY <3>1, <3>2, <3>3 DEF OfType, Sound, Gen!IsNull, t
  <2>. QED  BY <2>4, <2>5
<1>4. type \in ScalarTypes \cup {"array"} => type # "none"
  BY DEF ScalarTypes
<1>. HIDE DEF v
<1>5. OfType(v, type, h, S) => v.code \in Seq(S)
  BY DEF OfType, Sound
<1>. QED  BY <1>1, <1>2, <1>3, <1>4, <1>5 DEF Means, v

\* The type of a literal is that of its value.
LEMMA LiteralIsWorth ==
  ASSUME NEW S, NEW l \in Lexemes \ Names, NEW env, NEW h, NEW e, e.name = l
  PROVE  LET type == TypeOfPrimary(e, env)
         IN  /\ type \in ScalarTypes
             /\ Gen!LiteralValue(l) = Gen!Constant(IRType(type))
             /\ OfType(Gen!LiteralValue(l), type, h, S)
<1>1. \/ /\ l \in IntLiterals /\ l \notin FloatLiterals /\ l \notin {"true", "false"}
      \/ /\ l \in FloatLiterals /\ l \notin IntLiterals /\ l \notin {"true", "false"}
      \/ /\ l \in {"true", "false"} /\ l \notin IntLiterals /\ l \notin FloatLiterals
  BY LexemesAssumption DEF Lexemes
<1>. DEFINE type == TypeOfPrimary(e, env)
<1>2. \/ type = "int" /\ Gen!LiteralValue(l) = Gen!Constant(Gen!I32)
      \/ type = "float" /\ Gen!LiteralValue(l) = Gen!Constant(Gen!Float)
      \/ type = "bool" /\ Gen!LiteralValue(l) = Gen!Constant(Gen!I1)
  BY <1>1 DEF TypeOfPrimary, Gen!LiteralValue
<1>. HIDE DEF type
<1>3. type \in ScalarTypes /\ Gen!LiteralValue(l) = Gen!Constant(IRType(type))
  BY <1>2 DEF ScalarTypes, IRType
<1>4. \A t \in {Gen!I32, Gen!Float, Gen!I1} :
        Sound(Gen!Constant(t), h, S) /\ ~Gen!IsNull(Gen!Constant(t))
  BY EmptySeq DEF Sound, Gen!Constant, Gen!IsNull, Gen!NoType, Gen!I32, Gen!Float, Gen!I1
<1>5. OfType(Gen!LiteralValue(l), type, h, S)
  BY <1>2, <1>3, <1>4 DEF OfType, Gen!Constant
<1>. QED  BY <1>3, <1>5 DEF type

LEMMA PrimaryIsWorth ==
  ASSUME NEW S, Takes(S, Reading, {TRUE}), NEW e \in Primary, NEW env, NEW h, Reads(env, h),
         e.name \notin Misread(pos), TypeOfPrimary(e, env) # "none"
  PROVE  OfType(Gen!PrimaryValue(e.name, h), TypeOfPrimary(e, env), h, S)
<1>1. e.name \in Lexemes
  BY DEF Primary
<1>2. CASE e.name \in Names
  <2>1. TypeOfPrimary(e, env) = env[e.name]
    BY <1>2, LexemesAssumption DEF TypeOfPrimary, LookupType
  <2>2. Means(e.name, env[e.name], h)
    BY <1>2 DEF Reads
  <2>. QED  BY <1>2, <2>1, <2>2, NameIsWorth
<1>3. CASE e.name \notin Names
  <2>1. Gen!PrimaryValue(e.name, h) = Gen!LiteralValue(e.name)
    BY <1>3 DEF Gen!PrimaryValue
  <2>. QED  BY <1>1, <1>3, <2>1, LiteralIsWorth
<1>. QED  BY <1>2, <1>3

\* The names of an operand and those that it leaves alone.
OperandName(e) == IF e.kind = "unary" THEN e.expr.name ELSE e.name

LEMMA OperandIsWorth ==
  ASSUME NEW S, Takes(S, Reading, {TRUE}), NEW e \in Primary \cup Unary, NEW env, NEW h, Reads(env, h),
         OperandName(e) \notin Misread(pos), PlainOperand(e, env)
  PROVE  OfType(Gen!OperandValue(e, h), TypeOf(e, env), h, S)
<1>1. CASE e.kind # "unary"
  <2>1. e \in Primary /\ e.kind = "primary"
    BY <1>1 DEF Primary, Unary
  <2>2. TypeOf(e, env) = TypeOfPrimary(e, env) /\ TypeOf(e, env) # "none"
    BY <2>1 DEF TypeOf, TypeOfOperand, PlainOperand
  <2>. QED  BY <1>1, <2>1, <2>2, PrimaryIsWorth DEF Gen!OperandValue, OperandName
<1>2. CASE e.kind = "unary"
  <2>. DEFINE v == Gen!PrimaryValue(e.expr.name, h)
              type == TypeOf(e, env)
  <2>1. e \in Unary /\ e.expr \in Primary
    BY <1>2 DEF Primary, Unary
  <2>2. type = TypeOfPrimary(e.expr, env) /\ type \in {"int", "bool"}
    BY <1>2 DEF TypeOf, TypeOfOperand, PlainOperand
  <2>3. OfType(v, type, h, S)
    BY <1>2, <2>1, <2>2, PrimaryIsWorth DEF OperandName
  <2>. HIDE DEF v, type
  <2>4. v.type \in Gen!IntegerTypes /\ v.code \in Seq(S) /\ ~Gen!IsNull(v)
    BY <2>2, <2>3 DEF OfType, Sound, IRType, ScalarTypes, Gen!IntegerTypes
  <2>. DEFINE ok == v.type \in Gen!IntegerTypes
              y  == Gen!Yield(v.type, "arith", "", ok, v.code, h)
  <2>5. ok \in BOOLEAN /\ ok
    BY <2>4
  <2>6. Gen!Negated(v, h) \in {v, y}
    BY DEF Gen!Negated
  <2>. HIDE DEF ok
  <2>7. y.code \in Seq(S) /\ y.type = v.type /\ y.home = h
    <3>1. y.code \in Seq(S)
      BY <2>4, <2>5, YieldWell, Zenon
    <3>2. y.type = v.type /\ y.home = h
      BY DEF Gen!Yield
    <3>. QED  BY <3>1, <3>2, Zenon
  <2>. HIDE DEF y
  <2>8. OfType(Gen!Negated(v, h), type, h, S)
    BY <2>3, <2>4, <2>6, <2>7 DEF OfType, Sound, Gen!IsNull
  <2>. QED  BY <1>2, <2>8 DEF Gen!OperandValue, Gen!UnaryValue, v, type
<1>. QED  BY <1>1, <1>2

LEMMA BinaryIsWorth ==
  ASSUME NEW S, Takes(S, Reading, {TRUE}), NEW e \in Binary, NEW env, NEW h, Reads(env, h),
         OperandName(e.left) \notin Misread(pos), OperandName(e.right) \notin Misread(pos),
         PlainBinary(e, env)
  PROVE  OfType(Gen!BinaryValue(e, h), TypeOf(e, env), h, S)
<1>. DEFINE left == Gen!OperandValue(e.left, h)
            right == Gen!OperandValue(e.right, h)
            type == TypeOf(e.left, env)
<1>1. /\ e.left \in Primary /\ e.right \in Primary \cup Unary /\ e.kind = "binary"
      /\ e.op \in ArithmeticOps \cup ComparisonOps \cup LogicalOps
  BY DEF Binary
<1>2. /\ type = TypeOf(e.right, env)
      /\ \/ e.op \in ArithmeticOps /\ type \in {"int", "bool"}
         \/ e.op \in ComparisonOps /\ type \in {"int", "bool", "string"}
      /\ PlainOperand(e.left, env) /\ PlainOperand(e.right, env)
  BY DEF PlainBinary
<1>3. OfType(left, type, h, S) /\ OfType(right, type, h, S)
  BY <1>1, <1>2, OperandIsWorth
<1>4. TypeOf(e, env) \in ScalarTypes =>
        IF e.op \in ComparisonOps THEN TypeOf(e, env) = "bool" ELSE TypeOf(e, env) = type
  <2>1. type = TypeOfOperand(e.left, env) /\ type = TypeOfOperand(e.right, env)
    <3>1. e.left.kind = "primary" /\ e.right.kind \in {"primary", "unary"}
      BY <1>1 DEF Primary, Unary
    <3>. QED  BY <1>2, <3>1 DEF TypeOf
  <2>2. TypeOf(e, env) = TypeOfBinary(e, env)
    BY <1>1 DEF TypeOf
  <2>3. e.op \in ArithmeticOps => e.op \notin ComparisonOps \cup LogicalOps
    BY DEF ArithmeticOps, ComparisonOps, LogicalOps
  <2>. HIDE DEF type
  <2>4. type # "none"
    BY <1>2
  <2>. QED  BY <1>2, <2>1, <2>2, <2>3, <2>4 DEF TypeOfBinary, ScalarTypes
<1>. HIDE DEF left, right, type
<1>. DEFINE code == left.code \o right.code
            result == IF e.op \in ComparisonOps THEN Gen!I1 ELSE left.type
            ok   == /\ left.type = right.type
                    /\ left.type \in Gen!IntegerTypes
                                       \cup (IF e.op \in ComparisonOps THEN {Gen!Ptr} ELSE {})
<1>5. code \in Seq(S)
  <2>1. left.code \in Seq(S) /\ right.code \in Seq(S)
    BY <1>3 DEF OfType, Sound
  <2>. QED  BY <2>1, ConcatProperties
<1>6. /\ left.type = IRType(type) /\ right.type = IRType(type)
      /\ ~Gen!IsNull(left) /\ ~Gen!IsNull(right)
  BY <1>2, <1>3 DEF OfType, Sound, ScalarTypes
<1>7. ok /\ ok \in BOOLEAN
  BY <1>2, <1>6 DEF IRType, Gen!IntegerTypes
<1>8. result # Gen!NoType /\ (TypeOf(e, env) \in ScalarTypes => result = IRType(TypeOf(e, env)))
  BY <1>2, <1>4, <1>6 DEF IRType, Gen!IsNull, Gen!I1, Gen!NoType
<1>9. e.op \notin LogicalOps
  BY <1>2 DEF ArithmeticOps, ComparisonOps, LogicalOps
<1>10. \/ Gen!Combined(e.op, left, right, h) = Gen!Constant(result)
       \/ Gen!Combined(e.op, left, right, h) = Gen!Yield(result, "arith", "", ok, code, h)
  BY <1>6, <1>9, SameOperators, Zenon DEF Gen!Combined
<1>. HIDE DEF code, result, ok
<1>11. LET y == Gen!Yield(result, "arith", "", ok, code, h)
       IN  y.code \in Seq(S) /\ y.type = result /\ y.home = h
  <2>1. Gen!Yield(result, "arith", "", ok, code, h).code \in Seq(S)
    BY <1>5, <1>7, YieldWell, Zenon
  <2>2. /\ Gen!Yield(result, "arith", "", ok, code, h).type = result
        /\ Gen!Yield(result, "arith", "", ok, code, h).home = h
    BY DEF Gen!Yield
  <2>. QED  BY <2>1, <2>2, Zenon
<1>12. LET c == Gen!Constant(result)
       IN  c.code \in Seq(S) /\ c.type = result /\ c.home = 0
  BY EmptySeq DEF Gen!Constant
<1>13. OfType(Gen!Combined(e.op, left, right, h), TypeOf(e, env), h, S)
  BY <1>8, <1>10, <1>11, <1>12, Zenon DEF OfType, Sound, Gen!IsNull
<1>. QED  BY <1>13 DEF Gen!BinaryValue, left, right

LEMMA PlainSimpleIsWorth ==
  ASSUME NEW S, Takes(S, Reading, {TRUE}), NEW e \in Simple \cup MethodCall, NEW env, NEW h,
         Reads(env, h), PlainSimple(e, env), NamesIn(e) \cap Misread(pos) = {}, NEW last
  PROVE  OfType(Gen!SimpleValue(e, last, h), TypeOf(e, env), h, S)
<1>1. CASE e \in Primary \cup Unary
  <2>1. e.kind \in {"primary", "unary"} /\ e.kind # "assign"
    BY <1>1 DEF Primary, Unary
  <2>2. OperandName(e) \in NamesIn(e)
    BY <2>1 DEF OperandName, NamesIn
  <2>3. OperandName(e) \notin Misread(pos) /\ PlainOperand(e, env)
    BY <2>1, <2>2 DEF PlainSimple
  <2>4. Gen!SimpleValue(e, last, h) = Gen!OperandValue(e, h)
    BY <2>1 DEF Gen!SimpleValue, Gen!OperandValue
  <2>. QED  BY <1>1, <2>3, <2>4, OperandIsWorth
<1>2. CASE e \in Binary
  <2>1. e.kind = "binary"
    BY <1>2 DEF Binary
  <2>2. OperandName(e.left) \in NamesIn(e) /\ OperandName(e.right) \in NamesIn(e)
    BY <2>1 DEF OperandName, NamesIn
  <2>3. /\ OperandName(e.left) \notin Misread(pos) /\ OperandName(e.right) \notin Misread(pos)
        /\ PlainBinary(e, env)
    BY <2>1, <2>2 DEF PlainSimple
  <2>4. Gen!SimpleValue(e, last, h) = Gen!BinaryValue(e, h)
    BY <2>1 DEF Gen!SimpleValue
  <2>. QED  BY <1>2, <2>3, <2>4, BinaryIsWorth
<1>3. CASE e \in MethodCall
  <2>1. e.kind = "method"
    BY <1>3 DEF MethodCall
  <2>. QED  BY <2>1 DEF PlainSimple
<1>. QED  BY <1>1, <1>2, <1>3 DEF Simple

LEMMA PlainIsWorth ==
  ASSUME NEW S, Takes(S, Evaluating, {TRUE}), NEW e \in Expression, NEW h,
         Reads(Environment(pos), h), Plain(e, pos), NEW last
  PROVE  /\ Gen!Evaluate(e, last, h).code \in Seq(S)
         /\ e.kind # "assign" =>
              OfType(Gen!Evaluate(e, last, h), TypeOf(e, Environment(pos)), h, S)
<1>. DEFINE env == Environment(pos)
<1>0. Takes(S, Reading, {TRUE})
  BY TakesFewer
<1>1. CASE e.kind # "assign"
  <2>1. e \in Simple \cup MethodCall
    BY <1>1 DEF Expression, PlainAssignment, NestedAssignment
  <2>2. PlainSimple(e, env) /\ NamesIn(e) \cap Misread(pos) = {}
    BY <1>1 DEF Plain
  <2>3. OfType(Gen!SimpleValue(e, last, h), TypeOf(e, env), h, S)
    BY <1>0, <2>1, <2>2, PlainSimpleIsWorth
  <2>4. Gen!Evaluate(e, last, h) = Gen!SimpleValue(e, last, h)
    BY <1>1 DEF Gen!Evaluate
  <2>. QED  BY <2>3, <2>4 DEF OfType, Sound
<1>2. CASE e.kind = "assign"
  <2>. DEFINE f == e.expression
              v == Gen!SimpleValue(f, last, h)
  <2>1. e.name \in Names /\ f \in Simple \cup MethodCall \cup PlainAssignment
    BY <1>2 DEF Expression, PlainAssignment, NestedAssignment, Simple, Primary, Unary, Binary,
       MethodCall
  <2>2. PlainSimple(f, env) /\ NamesIn(e) \cap Misread(pos) = {}
    BY <1>2 DEF Plain
  <2>3. f.kind # "assign"
    BY <2>2 DEF PlainSimple
  <2>4. f \in Simple \cup MethodCall
    BY <2>1, <2>3 DEF PlainAssignment
  <2>5. e.name \in NamesIn(e) /\ NamesIn(f) \subseteq NamesIn(e)
    BY <1>2, <2>3 DEF NamesIn
  <2>6. OfType(v, TypeOf(f, env), h, S)
    <3>1. NamesIn(f) \cap Misread(pos) = {}
      BY <2>2, <2>5
    <3>. QED  BY <1>0, <2>2, <2>4, <3>1, PlainSimpleIsWorth
  <2>7. currentLocals[e.name] \in {0, h}
    BY <2>1, <2>2, <2>5 DEF Reads, Means
  <2>8. Gen!UsableIn(v, h) /\ v.code \in Seq(S)
    BY <2>6 DEF OfType, Sound, Gen!UsableIn
  <2>9. Gen!Evaluate(e, last, h) = Gen!StoreTo(e.name, v, h)
    BY <1>2, <2>3 DEF Gen!Evaluate
  <2>. HIDE DEF v
  <2>10. Gen!StoreTo(e.name, v, h).code \in Seq(S)
    BY <2>1, <2>7, <2>8, StoreEmits
  <2>. QED  BY <1>2, <2>9, <2>10
<1>. QED  BY <1>1, <1>2

-----------------------------------------------------------------------------
(***************************************************************************)
(* The generator leaves the text alone, and with it all that is said of    *)
(* the text.                                                               *)
(***************************************************************************)
TextKept == UNCHANGED <<ast, outcome>>

LEMMA TypesKept ==
  TextKept => /\ \A n : GlobalType(n)' = GlobalType(n)
              /\ \A n, f : LexicalType(n, f)' = LexicalType(n, f)
<1>1. TextKept => \A n : GlobalType(n)' = GlobalType(n)
  BY DEF TextKept, GlobalType, DeclarationsOf, Accepted
<1>. QED  BY <1>1 DEF TextKept, LexicalType

LEMMA BodiesKept ==
  TextKept => /\ \A i : EnclosingFunction(i)' = EnclosingFunction(i)
              /\ \A k : InFunction(k)' = InFunction(k)
<1>1. TextKept => \A i : EnclosingFunction(i)' = EnclosingFunction(i)
  BY DEF TextKept, EnclosingFunction
<1>2. TextKept => \A i : Gen!NextItem(i)' = Gen!NextItem(i)
  BY DEF TextKept, Gen!NextItem
<1>3. TextKept => \A k : InFunction(k)' = InFunction(k)
  BY <1>2 DEF TextKept, InFunction, NodesOf, BodyOf, EndOf
<1>. QED  BY <1>1, <1>3

LEMMA PlainKept ==
  TextKept => /\ \A e, k : Plain(e, k)' = Plain(e, k)
              /\ \A k : PlainNode(k)' = PlainNode(k)
<1>1. TextKept => \A k : Environment(k)' = Environment(k)
  BY TypesKept, BodiesKept DEF TextKept, Environment
<1>2. TextKept => \A k : Misread(k)' = Misread(k)
  <2>. SUFFICES ASSUME TextKept, NEW k PROVE Misread(k)' = Misread(k)
    OBVIOUS
  <2>1. Lost(k)' = Lost(k) /\ OwnParameters(k)' = OwnParameters(k)
    BY BodiesKept DEF TextKept, Lost, OwnParameters
  <2>2. Leaked(k)' = Leaked(k)
    BY <2>1 DEF TextKept, Leaked, NodesOf
  <2>. QED  BY <2>1, <2>2 DEF Misread
<1>3. TextKept => \A e, k : Plain(e, k)' = Plain(e, k)
  BY <1>1, <1>2 DEF TextKept, Plain
<1>4. TextKept => NoClash' = NoClash
  BY DEF TextKept, NoClash, NodesOf
<1>5. TextKept => \A k : PlainNode(k)' = PlainNode(k)
  BY TypesKept, <1>1, <1>3, <1>4 DEF TextKept, PlainNode
<1>. QED  BY <1>3, <1>5
-----------------------------------------------------------------------------
(***************************************************************************)
(* The instructions of plain nodes are well typed, in all of the module.   *)
(***************************************************************************)
OkIfPlain(i) == i.from \in 1..Len(ast) /\ PlainNode(i.from) => i.ok
Sane == {i \in Instruction : OkIfPlain(i)}

\* The instructions that the visit under way may add.
Fresh == {i \in Sane : i.from = pos /\ (i.op = "call" => pos \in NodesOf("call"))}

\* Where the functions have an instruction, and which it is.
Holds(fs, f, b, j) ==
  f \in 1..Len(fs) /\ b \in 1..Len(fs[f].blocks) /\ j \in 1..Len(fs[f].blocks[b])
InstrOf(fs, f, b, j) == fs[f].blocks[b][j]

AllSane(fs) == \A f, b, j \in Nat : Holds(fs, f, b, j) => InstrOf(fs, f, b, j) \in Sane

\* Every instruction stays where it is, and what is new is in S.
Grows(fs, gs, S) ==
  \A f, b, j \in Nat :
    /\ Holds(fs, f, b, j) => Holds(gs, f, b, j) /\ InstrOf(gs, f, b, j) = InstrOf(fs, f, b, j)
    /\ Holds(gs, f, b, j) => Holds(fs, f, b, j) \/ InstrOf(gs, f, b, j) \in S
Grown == Grows(functions, functions', Fresh)

\* The functions keep what they are; only their code may change.
Headers(fs, gs) ==
  /\ Len(gs) = Len(fs)
  /\ \A i \in 1..Len(fs) : /\ gs[i].node = fs[i].node /\ gs[i].params = fs[i].params
                           /\ gs[i].result = fs[i].result

LEMMA GrowsNot == \A fs, S : Grows(fs, fs, S)
BY DEF Grows

LEMMA GrowsOn ==
  ASSUME NEW fs, NEW gs, NEW hs, NEW S, Grows(fs, gs, S), Grows(gs, hs, S)
  PROVE  Grows(fs, hs, S)
BY DEF Grows

LEMMA GrowsMore ==
  ASSUME NEW fs, NEW gs, NEW S, NEW T, S \subseteq T, Grows(fs, gs, S)
  PROVE  Grows(fs, gs, T)
BY DEF Grows

LEMMA SaneKept == TextKept => Sane' = Sane
BY PlainKept DEF TextKept, Sane, OkIfPlain

LEMMA SaneGrows ==
  ASSUME AllSane(functions), Grown, TextKept
  PROVE  AllSane(functions)'
<1>1. Sane' = Sane /\ Fresh \subseteq Sane
  BY SaneKept DEF Fresh
<1>2. \A f, b, j \in Nat : Holds(functions', f, b, j) => InstrOf(functions', f, b, j) \in Sane
  BY <1>1 DEF AllSane, Grown, Grows
<1>. QED  BY <1>1, <1>2 DEF AllSane, Holds, InstrOf

LEMMA FreshInstr ==
  ASSUME pos \in Nat, NEW op \in {"load", "store", "arith", "ret", "call", "print"},
         op = "call" => pos \in NodesOf("call"),
         NEW name \in InstrNames,
         NEW ok \in BOOLEAN, ok \/ ~PlainNode(pos)
  PROVE  Gen!Instr(op, name, ok) \in Fresh
<1>. DEFINE i == Gen!Instr(op, name, ok)
<1>1. i \in Instruction
  BY InstrTyped, Zenon
<1>2. i.from = pos /\ i.ok = ok /\ i.op = op
  BY Zenon DEF Gen!Instr
<1>3. OkIfPlain(i)
  BY <1>2, Zenon DEF OkIfPlain
<1>4. i \in Sane
  BY <1>1, <1>3, Zenon DEF Sane
<1>. HIDE DEF i
<1>5. i \in Fresh
  BY <1>2, <1>4, Zenon DEF Fresh
<1>. QED  BY <1>5, Zenon DEF i

LEMMA FreshTakes ==
  ASSUME pos \in Nat
  PROVE  Takes(Fresh, Evaluating, {TRUE}) /\ (~PlainNode(pos) => Takes(Fresh, Evaluating, BOOLEAN))
<1>1. ASSUME NEW op \in Evaluating,
             NEW name \in InstrNames,
             NEW ok \in BOOLEAN, ok \/ ~PlainNode(pos)
      PROVE  Gen!Instr(op, name, ok) \in Fresh
  <2>1. op \in {"load", "store", "arith", "ret", "call", "print"} /\ op # "call"
    BY <1>1, Zenon DEF Evaluating, Reading
  <2>. QED  BY <1>1, <2>1, FreshInstr, Zenon
<1>2. Takes(Fresh, Evaluating, {TRUE})
  BY <1>1, Zenon DEF Takes
<1>3. ~PlainNode(pos) => Takes(Fresh, Evaluating, BOOLEAN)
  BY <1>1, Zenon DEF Takes
<1>. QED  BY <1>2, <1>3

LEMMA FreshBranch ==
  ASSUME pos \in Nat, NEW op \in {"br", "condbr"}, NEW to \in SUBSET Nat,
         NEW ok \in BOOLEAN, ok \/ ~PlainNode(pos)
  PROVE  Gen!Branch(op, to, ok) \in Fresh
<1>. DEFINE i == Gen!Branch(op, to, ok)
<1>1. i \in Instruction
  BY BranchTyped
<1>2. i.from = pos /\ i.ok = ok /\ i.op # "call"
  BY DEF Gen!Branch
<1>3. OkIfPlain(i)
  BY <1>2, Zenon DEF OkIfPlain
<1>4. i \in Sane
  BY <1>1, <1>3 DEF Sane
<1>. HIDE DEF i
<1>5. i \in Fresh
  BY <1>2, <1>4, Zenon DEF Fresh
<1>. QED  BY <1>5 DEF i

LEMMA FreshIsCode == Fresh \subseteq Instruction
BY DEF Fresh, Sane

\* Code that is put at the end of a block is what is new, and has its places there.
PutsCode(fs, gs, f, b, code) ==
  LET old == Len(fs[f].blocks[b])
  IN  /\ Headers(fs, gs) /\ gs \in Seq(Function) /\ old \in Nat
      /\ \A i \in 1..Len(fs) : Len(gs[i].blocks) = Len(fs[i].blocks)
      /\ \A i, c, j \in Nat :
           /\ Holds(fs, i, c, j) =>
                Holds(gs, i, c, j) /\ InstrOf(gs, i, c, j) = InstrOf(fs, i, c, j)
           /\ Holds(gs, i, c, j) =>
                \/ Holds(fs, i, c, j)
                \/ i = f /\ c = b /\ \E n \in 1..Len(code) : j = old + n
      /\ \A n \in 1..Len(code) :
           /\ Holds(gs, f, b, old + n) /\ ~Holds(fs, f, b, old + n)
           /\ InstrOf(gs, f, b, old + n) = code[n]

LEMMA PutPlaces ==
  ASSUME NEW fs \in Seq(Function), NEW f \in 1..Len(fs), NEW b \in 1..Len(fs[f].blocks),
         NEW at, at.function = f, at.block = b, NEW code \in Code
  PROVE  PutsCode(fs, Gen!Put(fs, at, code), f, b, code)
<1>. DEFINE gs == Gen!Put(fs, at, code)
            block == fs[f].blocks[b]
            old == Len(block)
<1>1. /\ gs \in Seq(Function) /\ Len(gs) = Len(fs)
      /\ \A i \in 1..Len(fs) :
           /\ Len(gs[i].blocks) = Len(fs[i].blocks)
           /\ gs[i].node = fs[i].node /\ gs[i].params = fs[i].params
           /\ gs[i].result = fs[i].result
           /\ i # f => gs[i] = fs[i]
      /\ \A c \in 1..Len(fs[f].blocks) :
           gs[f].blocks[c] = IF c = b THEN block \o code ELSE fs[f].blocks[c]
  BY PutFacts
<1>2. block \in Code /\ old \in Nat /\ Len(code) \in Nat
  BY BlocksFacts, LenProperties DEF Code
<1>. HIDE DEF gs, block
<1>3. /\ Len(block \o code) = old + Len(code)
      /\ \A j \in 1..old : (block \o code)[j] = block[j]
      /\ \A n \in 1..Len(code) : (block \o code)[old + n] = code[n]
  <2>1. /\ Len(block \o code) = Len(block) + Len(code)
        /\ \A j \in 1..Len(block) + Len(code) :
             (block \o code)[j] = IF j <= Len(block) THEN block[j] ELSE code[j - Len(block)]
    BY <1>2, ConcatProperties DEF Code
  <2>2. \A n \in 1..Len(code) : old + n \in 1..old + Len(code) /\ ~(old + n <= old)
                                  /\ old + n - old = n
    BY <1>2
  <2>3. \A j \in 1..old : j \in 1..old + Len(code) /\ j <= old
    BY <1>2
  <2>. QED  BY <2>1, <2>2, <2>3
<1>4. Headers(fs, gs)
  BY <1>1 DEF Headers
<1>5. ASSUME NEW i \in Nat, NEW c \in Nat, NEW j \in Nat, i # f \/ c # b
      PROVE  /\ Holds(gs, i, c, j) <=> Holds(fs, i, c, j)
             /\ Holds(fs, i, c, j) => InstrOf(gs, i, c, j) = InstrOf(fs, i, c, j)
  <2>1. CASE i \in 1..Len(fs) /\ c \in 1..Len(fs[i].blocks)
    <3>1. gs[i].blocks[c] = fs[i].blocks[c]
      BY <1>1, <1>5, <2>1
    <3>. QED  BY <1>1, <2>1, <3>1 DEF Holds, InstrOf
  <2>2. CASE ~(i \in 1..Len(fs) /\ c \in 1..Len(fs[i].blocks))
    BY <1>1, <2>2 DEF Holds
  <2>. QED  BY <2>1, <2>2
<1>n. \A n : n \in Nat => 1..n \subseteq Nat
  OBVIOUS
<1>6. /\ gs[f].blocks[b] = block \o code /\ f \in 1..Len(gs) /\ b \in 1..Len(gs[f].blocks)
      /\ f \in Nat /\ b \in Nat
  <2>1. f \in 1..Len(gs) /\ b \in 1..Len(gs[f].blocks)
    BY <1>1, Zenon
  <2>2. gs[f].blocks[b] = IF b = b THEN block \o code ELSE fs[f].blocks[b]
    BY <1>1, Zenon
  <2>3. Len(fs) \in Nat /\ Len(fs[f].blocks) \in Nat
    BY BlocksFacts, LenProperties
  <2>4. f \in Nat /\ b \in Nat
    BY <1>n, <2>3, Zenon
  <2>. QED  BY <2>1, <2>2, <2>4
<1>b. fs[f].blocks[b] = block
  BY DEF block
<1>7. ASSUME NEW j \in Nat
      PROVE  /\ Holds(fs, f, b, j) <=> j \in 1..old
             /\ Holds(gs, f, b, j) <=> j \in 1..old + Len(code)
             /\ j \in 1..old => InstrOf(gs, f, b, j) = InstrOf(fs, f, b, j)
  BY <1>3, <1>6, <1>b DEF Holds, InstrOf
<1>8. \A j \in 1..old + Len(code) : j \in 1..old \/ \E n \in 1..Len(code) : j = old + n
  <2>. SUFFICES ASSUME NEW j \in 1..old + Len(code), j \notin 1..old
                PROVE  \E n \in 1..Len(code) : j = old + n
    OBVIOUS
  <2>1. j - old \in 1..Len(code) /\ j = old + (j - old)
    BY <1>2
  <2>. QED  BY <2>1
<1>9. \A i, c, j \in Nat :
        /\ Holds(fs, i, c, j) =>
             Holds(gs, i, c, j) /\ InstrOf(gs, i, c, j) = InstrOf(fs, i, c, j)
        /\ Holds(gs, i, c, j) =>
             \/ Holds(fs, i, c, j)
             \/ i = f /\ c = b /\ \E n \in 1..Len(code) : j = old + n
  <2>. SUFFICES ASSUME NEW i \in Nat, NEW c \in Nat, NEW j \in Nat
                PROVE  /\ Holds(fs, i, c, j) =>
                            Holds(gs, i, c, j) /\ InstrOf(gs, i, c, j) = InstrOf(fs, i, c, j)
                       /\ Holds(gs, i, c, j) =>
                            \/ Holds(fs, i, c, j)
                            \/ i = f /\ c = b /\ \E n \in 1..Len(code) : j = old + n
    OBVIOUS
  <2>1. 1..old \subseteq 1..old + Len(code)
    BY <1>2
  <2>2. CASE i = f /\ c = b
    BY <1>7, <1>8, <2>1, <2>2
  <2>3. CASE i # f \/ c # b
    BY <1>5, <2>3
  <2>. QED  BY <2>2, <2>3
<1>10. ASSUME NEW n \in 1..Len(code)
       PROVE  /\ Holds(gs, f, b, old + n) /\ ~Holds(fs, f, b, old + n)
              /\ InstrOf(gs, f, b, old + n) = code[n]
  <2>1. old + n \in Nat /\ old + n \in 1..old + Len(code) /\ old + n \notin 1..old
    BY <1>2
  <2>. QED  BY <1>3, <1>6, <1>7, <2>1 DEF InstrOf
<1>11. PutsCode(fs, gs, f, b, code)
  BY <1>1, <1>2, <1>4, <1>9, <1>10 DEF PutsCode, block
<1>. QED  BY <1>11 DEF gs

LEMMA PutGrows ==
  ASSUME NEW fs \in Seq(Function), NEW f \in 1..Len(fs), NEW b \in 1..Len(fs[f].blocks),
         NEW at, at.function = f, at.block = b, NEW S, S \subseteq Instruction,
         NEW code \in Seq(S)
  PROVE  LET gs == Gen!Put(fs, at, code)
         IN  /\ Grows(fs, gs, S) /\ Headers(fs, gs) /\ gs \in Seq(Function)
             /\ \A i \in 1..Len(fs) : Len(gs[i].blocks) = Len(fs[i].blocks)
<1>. DEFINE gs == Gen!Put(fs, at, code)
            old == Len(fs[f].blocks[b])
<1>0. code \in Code
  BY DEF Code
<1>1. \A n \in 1..Len(code) : code[n] \in S
  BY ElementOfSeq
<1>p. PutsCode(fs, gs, f, b, code)
  BY <1>0, PutPlaces
<1>. HIDE DEF gs
<1>2. /\ Headers(fs, gs) /\ gs \in Seq(Function) /\ old \in Nat
      /\ \A i \in 1..Len(fs) : Len(gs[i].blocks) = Len(fs[i].blocks)
      /\ \A i, c, j \in Nat :
           /\ Holds(fs, i, c, j) =>
                Holds(gs, i, c, j) /\ InstrOf(gs, i, c, j) = InstrOf(fs, i, c, j)
           /\ Holds(gs, i, c, j) =>
                \/ Holds(fs, i, c, j)
                \/ i = f /\ c = b /\ \E n \in 1..Len(code) : j = old + n
      /\ \A n \in 1..Len(code) :
           /\ Holds(gs, f, b, old + n) /\ ~Holds(fs, f, b, old + n)
           /\ InstrOf(gs, f, b, old + n) = code[n]
  BY <1>p DEF PutsCode
<1>. HIDE DEF gs, old
<1>3. ASSUME NEW i \in Nat, NEW c \in Nat, NEW j \in Nat, Holds(gs, i, c, j), ~Holds(fs, i, c, j)
      PROVE  InstrOf(gs, i, c, j) \in S
  <2>1. i = f /\ c = b /\ \E n \in 1..Len(code) : j = old + n
    BY <1>2, <1>3
  <2>. QED  BY <1>1, <1>2, <2>1
<1>4. Grows(fs, gs, S)
  BY <1>2, <1>3 DEF Grows
<1>. QED  BY <1>2, <1>4 DEF gs

LEMMA NewBlocksGrow ==
  ASSUME NEW fs \in Seq(Function), NEW f \in 1..Len(fs), NEW n \in Nat
  PROVE  LET gs == Gen!NewBlocks(fs, f, n)
         IN  /\ \A S : Grows(fs, gs, S)
             /\ Headers(fs, gs) /\ gs \in Seq(Function)
             /\ Len(gs[f].blocks) = Len(fs[f].blocks) + n
             /\ \A c \in 1..Len(fs[f].blocks) : gs[f].blocks[c] = fs[f].blocks[c]
<1>. DEFINE gs == Gen!NewBlocks(fs, f, n)
<1>1. /\ gs \in Seq(Function) /\ Len(gs) = Len(fs)
      /\ \A i \in 1..Len(fs) :
           /\ gs[i].node = fs[i].node /\ gs[i].params = fs[i].params
           /\ gs[i].result = fs[i].result
           /\ i # f => gs[i] = fs[i]
      /\ Len(gs[f].blocks) = Len(fs[f].blocks) + n
      /\ \A c \in 1..Len(fs[f].blocks) : gs[f].blocks[c] = fs[f].blocks[c]
      /\ \A c \in Len(fs[f].blocks) + 1..Len(fs[f].blocks) + n : gs[f].blocks[c] = <<>>
  BY NewBlocksFacts
<1>. HIDE DEF gs
<1>2. Len(fs[f].blocks) \in Nat
  BY BlocksFacts
<1>3. Headers(fs, gs)
  BY <1>1 DEF Headers
<1>4. ASSUME NEW i \in Nat, NEW c \in Nat, NEW j \in Nat
      PROVE  /\ Holds(gs, i, c, j) <=> Holds(fs, i, c, j)
             /\ Holds(fs, i, c, j) => InstrOf(gs, i, c, j) = InstrOf(fs, i, c, j)
  <2>1. CASE i \in 1..Len(fs) /\ i # f
    BY <1>1, <2>1 DEF Holds, InstrOf
  <2>2. CASE i = f /\ c \in 1..Len(fs[f].blocks)
    <3>1. c \in 1..Len(fs[f].blocks) + n
      BY <1>2, <2>2
    <3>. QED  BY <1>1, <2>2, <3>1 DEF Holds, InstrOf
  <2>3. CASE i = f /\ c \notin 1..Len(fs[f].blocks)
    <3>1. ~Holds(fs, i, c, j)
      BY <2>3 DEF Holds
    <3>2. c \in 1..Len(fs[f].blocks) + n => gs[f].blocks[c] = <<>>
      BY <1>1, <1>2, <2>3
    <3>3. c \in 1..Len(fs[f].blocks) + n => Len(gs[f].blocks[c]) = 0
      BY <3>2
    <3>4. ~Holds(gs, i, c, j)
      BY <1>1, <2>3, <3>3 DEF Holds
    <3>. QED  BY <3>1, <3>4
  <2>4. CASE i \notin 1..Len(fs)
    BY <1>1, <2>4 DEF Holds
  <2>. QED  BY <2>1, <2>2, <2>3, <2>4
<1>5. \A S : Grows(fs, gs, S)
  BY <1>4 DEF Grows
<1>. QED  BY <1>1, <1>3, <1>5 DEF gs

\* A function that is new, or a main that is, has no code.
LEMMA NewFunctionGrows ==
  ASSUME NEW fs \in Seq(Function), NEW n \in Nat, NEW result \in ValueTypes,
         NEW params \in Seq(ValueTypes)
  PROVE  \A S : Grows(fs, Append(fs, Gen!NewFunction(n, result, params)), S)
<1>. DEFINE new == Gen!NewFunction(n, result, params)
            gs  == Append(fs, new)
<1>1. /\ Len(gs) = Len(fs) + 1 /\ Len(fs) \in Nat /\ gs[Len(fs) + 1] = new
      /\ \A i \in 1..Len(fs) : gs[i] = fs[i]
      /\ Len(new.blocks) = 1 /\ new.blocks[1] = <<>>
  BY NewFunctionFacts
<1>. HIDE DEF new, gs
<1>2. ASSUME NEW i \in Nat, NEW c \in Nat, NEW j \in Nat
      PROVE  /\ Holds(gs, i, c, j) <=> Holds(fs, i, c, j)
             /\ Holds(fs, i, c, j) => InstrOf(gs, i, c, j) = InstrOf(fs, i, c, j)
  <2>1. CASE i \in 1..Len(fs)
    <3>1. i \in 1..Len(gs)
      BY <1>1, <2>1
    <3>. QED  BY <1>1, <2>1, <3>1 DEF Holds, InstrOf
  <2>2. CASE i = Len(fs) + 1
    <3>1. ~Holds(fs, i, c, j)
      BY <1>1, <2>2 DEF Holds
    <3>2. gs[i] = new /\ Len(<<>>) = 0
      BY <1>1, <2>2
    <3>3. c \in 1..Len(gs[i].blocks) => c = 1
      <4>1. Len(gs[i].blocks) = 1
        BY <1>1, <3>2, Zenon
      <4>. QED  BY <4>1
    <3>4. c \in 1..Len(gs[i].blocks) => Len(gs[i].blocks[c]) = 0
      <4>1. c = 1 => gs[i].blocks[c] = <<>>
        BY <1>1, <3>2
      <4>. QED  BY <3>2, <3>3, <4>1
    <3>5. ~Holds(gs, i, c, j)
      BY <3>4 DEF Holds
    <3>. QED  BY <3>1, <3>5
  <2>3. CASE i \notin 1..Len(fs) + 1
    BY <1>1, <2>3 DEF Holds
  <2>. QED  BY <1>1, <2>1, <2>2, <2>3
<1>. QED  BY <1>2 DEF Grows, gs, new

-----------------------------------------------------------------------------
(***************************************************************************)
(* Where in the text the generator is, and what names are there.           *)
(***************************************************************************)
Analyzed == outcome = "accepted" /\ ScopesInv /\ CallsInv

Known == LocalsKnown /\ GlobalsKnown /\ BodyKnown /\ SymbolsKnown /\ LastKnown

LEMMA AnalyzedFacts ==
  ASSUME Analyzed
  PROVE  /\ ast \in Seq(Node) /\ Len(ast) \in Nat /\ Accepted = 1..Len(ast)
         /\ \A i \in 1..Len(ast) : ast[i] \in Node
BY LenProperties, ElementOfSeq, Zenon DEF Analyzed, ScopesInv, IInv, TypeOK, Accepted

\* While a body is generated the text has not ended.
LEMMA BodyGoesOn ==
  ASSUME Analyzed, GenTypeOK, NEW st, Reached(st), frames # <<>>
  PROVE  /\ pos \in 1..Len(ast) /\ st[pos - 1] # <<>> /\ pos - 1 \in 0..Len(ast)
         /\ ast[pos].node \notin {"function", "call", "declaration"}
<1>1. /\ Len(ast) \in Nat /\ pos \in 1..Len(ast) + 1 /\ frames \in Seq(FrameSet)
      /\ FramesAre(st[pos - 1]) /\ st[Len(ast)] = <<>>
  BY AnalyzedFacts DEF GenTypeOK, Reached
<1>2. Len(frames) # 0
  BY <1>1, EmptySeq
<1>3. st[pos - 1] # <<>>
  BY <1>1, <1>2 DEF FramesAre
<1>4. pos \in 1..Len(ast) /\ pos - 1 \in 0..Len(ast)
  BY <1>1, <1>3
<1>5. Follows(ast[pos], st[pos - 1], st[pos])
  BY <1>4 DEF Reached, Nested
<1>6. ast[pos].node \notin {"function", "call", "declaration"}
  BY <1>3, <1>5 DEF Follows
<1>. QED  BY <1>3, <1>4, <1>6

\* The function node whose body this is.
LEMMA BodyFunction ==
  ASSUME Analyzed, GenTypeOK, NEW st, Reached(st), BodyKnown, frames # <<>>
  PROVE  \E f \in 1..pos - 1 :
           /\ f \in 1..Len(ast) /\ Generated(f) /\ InFunction(pos) /\ EnclosingFunction(pos) = f
           /\ functions[Len(functions)].node = f
           /\ functions[Len(functions)].result = Gen!ReturnType(ast[f].returnType)
           /\ \A n \in Gen!FiledNames(ast[f]) \cap Names : currentLocals[n] = Len(functions)
<1>1. PICK f \in 1..pos - 1 :
        /\ Generated(f)
        /\ \A k \in f + 1..pos - 1 : ast[k].node \notin {"function", "call", "declaration"}
        /\ functions[Len(functions)].node = f
        /\ functions[Len(functions)].result = Gen!ReturnType(ast[f].returnType)
        /\ \A n \in Gen!FiledNames(ast[f]) \cap Names : currentLocals[n] = Len(functions)
  BY DEF BodyKnown
<1>2. /\ pos \in 1..Len(ast) /\ Len(ast) \in Nat /\ ast \in Seq(Node)
      /\ ast[pos].node \notin {"function", "call", "declaration"}
  BY BodyGoesOn, AnalyzedFacts
<1>3. f \in 1..Len(ast) /\ f \in 1..pos /\ f < pos
  BY <1>2
<1>4. ASSUME NEW k \in f + 1..pos PROVE ast[k].node \notin {"function", "call"}
  <2>1. k = pos \/ k \in f + 1..pos - 1
    BY <1>2
  <2>. QED  BY <1>1, <1>2, <2>1
<1>5. EnclosingFunction(pos) = f
  <2>1. Encloses(ast, f, pos)
    BY <1>1, <1>3, <1>4 DEF Encloses, Generated
  <2>2. pos \in Nat
    BY <1>2
  <2>. QED  BY <1>3, <2>1, <2>2, EnclosingIsUnique
<1>6. InFunction(pos)
  <2>. DEFINE j == Gen!NextItem(f)
  <2>1. j \in f + 1..Len(ast) + 1 /\ (j <= Len(ast) => ast[j].node \in {"function", "call"})
    BY <1>2, <1>3, NextItemFacts
  <2>. HIDE DEF j
  <2>2. ~(j <= pos)
    <3>1. j <= pos => j \in f + 1..pos /\ j <= Len(ast)
      BY <1>2, <2>1
    <3>. QED  BY <1>4, <2>1, <3>1
  <2>3. pos \in f + 1..j - 1
    BY <1>2, <1>3, <2>1, <2>2
  <2>4. pos \in BodyOf(f)
    BY <2>3 DEF BodyOf, EndOf, j
  <2>. QED  BY <1>1, <1>3, <2>4 DEF InFunction, NodesOf, Generated
<1>. QED  BY <1>1, <1>3, <1>5, <1>6

\* A node that follows no function in the order of the text is in none.
LEMMA NotInFunction ==
  ASSUME ast \in Seq(Node), NEW k \in 1..Len(ast),
         \/ ast[k].node \in {"function", "call"}
         \/ \A f \in 1..k - 1 : ast[f].node # "function"
  PROVE  ~InFunction(k)
<1>. SUFFICES ASSUME NEW f \in NodesOf("function"), k \in BodyOf(f) PROVE FALSE
  BY DEF InFunction
<1>1. f \in 1..Len(ast) /\ ast[f].node = "function" /\ Len(ast) \in Nat
  BY LenProperties DEF NodesOf
<1>. DEFINE j == Gen!NextItem(f)
<1>2. /\ j \in f + 1..Len(ast) + 1
      /\ \A i \in f + 1..j - 1 : ast[i].node \notin {"function", "call"}
  BY <1>1, NextItemFacts
<1>3. k \in f + 1..j - 1
  BY DEF BodyOf, EndOf
<1>. HIDE DEF j
<1>4. f \in 1..k - 1
  BY <1>1, <1>2, <1>3
<1>. QED  BY <1>1, <1>2, <1>3, <1>4

\* Outside of functions nothing but functions and calls follows a function.
LEMMA LeadingFirst ==
  ASSUME Analyzed, NEW st, Nested(ast, st), Ordered(ast, st), NEW j \in 1..Len(ast),
         ast[j].node = "declaration" \/ (ast[j].node = "expression" /\ st[j - 1] = <<>>)
  PROVE  st[j - 1] = <<>> /\ \A f \in 1..j - 1 : ast[f].node \notin {"function", "call"}
<1>1. Len(ast) \in Nat
  BY AnalyzedFacts
<1>2. st[j - 1] = <<>>
  <2>1. Follows(ast[j], st[j - 1], st[j])
    BY DEF Nested
  <2>. QED  BY <2>1 DEF Follows
<1>3. ASSUME NEW f \in 1..j - 1 PROVE ast[f].node # "function"
  <2>1. f \in 1..Len(ast) /\ f < j
    BY <1>1
  <2>. QED  BY <1>2, <2>1 DEF Ordered, Leading
<1>4. ASSUME NEW f \in 1..j - 1 PROVE ast[f].node # "call"
  <2>1. f \in 1..Len(ast) /\ f \in Accepted
    BY <1>1, AnalyzedFacts
  <2>2. ast[f].node = "call" => \E d \in 1..f - 1 : ast[d].node = "function"
    BY <2>1 DEF Analyzed, CallsInv, CallsAreResolved
  <2>3. 1..f - 1 \subseteq 1..j - 1
    BY <1>1
  <2>. QED  BY <1>3, <2>2, <2>3
<1>. QED  BY <1>2, <1>3, <1>4

\* After a function every global has been declared, and is of its declared type.
LEMMA GlobalIsDeclared ==
  ASSUME Analyzed, GenTypeOK, NEW st, Reached(st), GlobalsKnown, pos <= Len(ast),
         NEW f \in 1..pos - 1, ast[f].node = "function", NEW n \in Names,
         currentLocals[n] = 0, NEW h
  PROVE  Means(n, GlobalType(n), h)
<1>0. /\ Len(ast) \in Nat /\ Accepted = 1..Len(ast) /\ pos \in 1..Len(ast)
      /\ \A i \in 1..Len(ast) : ast[i] \in Node
      /\ Nested(ast, st) /\ Ordered(ast, st)
  BY AnalyzedFacts DEF GenTypeOK, Reached
<1>1. ASSUME NEW i \in DeclarationsOf(n)
      PROVE  i \in 1..pos - 1 /\ ast[i].node = "declaration" /\ ast[i].name = n
  <2>1. i \in 1..Len(ast) /\ ast[i].node = "declaration" /\ ast[i].name = n
    BY <1>0, <1>1 DEF DeclarationsOf
  <2>2. \A g \in 1..i - 1 : ast[g].node # "function"
    BY <1>0, <2>1, LeadingFirst
  <2>3. ~(f < i)
    <3>1. f < i => f \in 1..i - 1
      BY <1>0, <2>1
    <3>. QED  BY <2>2, <3>1
  <2>. QED  BY <1>0, <2>1, <2>3
<1>2. CASE globals[n] = Gen!NoType
  <2>1. \A i \in DeclarationsOf(n) : ast[i].type = "array"
    BY <1>1, <1>2 DEF GlobalsKnown
  <2>2. GlobalType(n) \in {"none", "array"}
    BY <2>1 DEF GlobalType
  <2>. QED  BY <1>2, <2>2 DEF Means
<1>3. CASE globals[n] # Gen!NoType
  <2>1. PICK i \in 1..pos - 1 : Declared(i, n) /\ globals[n] = Gen!GlobalValueType(ast[i])
    BY <1>3 DEF GlobalsKnown
  <2>2. i \in DeclarationsOf(n) /\ ast[i] \in Node /\ ast[i].node = "declaration"
    <3>1. i \in 1..Len(ast)
      BY <1>0
    <3>. QED  BY <1>0, <2>1, <3>1 DEF DeclarationsOf, Declared
  <2>3. GlobalType(n) = ast[i].type
    <3>1. GlobalType(n) = symbolTable.scopes[1][n].type
      BY GlobalTypes DEF Analyzed
    <3>. QED  BY <2>2, <3>1 DEF Analyzed, ScopesInv, GlobalScopeIsDeclared
  <2>4. ast[i].type \in ScalarTypes \cup {"array"}
    BY <2>2, NodeFields DEF ScalarTypes
  <2>. QED  BY <2>1, <2>2, <2>3, <2>4 DEF Means
<1>. QED  BY <1>2, <1>3

-----------------------------------------------------------------------------
(***************************************************************************)
(* What the generator reads where.                                         *)
(***************************************************************************)
\* A local is a parameter of this function, or leaked.
LEMMA NoLocalLeaks ==
  ASSUME LocalsKnown, GenTypeOK, NEW n \in Names \ Misread(pos), n \notin OwnParameters(pos),
         ast \in Seq(Node)
  PROVE  currentLocals[n] = 0
<1>. SUFFICES ASSUME currentLocals[n] # 0 PROVE FALSE
  OBVIOUS
<1>1. PICK g \in 1..pos - 1 : Files(g, n)
  BY DEF LocalsKnown
<1>2. g \in 1..Len(ast) /\ g < pos
  BY <1>1, LenProperties DEF GenTypeOK
<1>3. /\ g \in NodesOf("function") /\ Gen!Supported(ast[g]) /\ n \in Gen!FiledNames(ast[g])
  BY <1>1, <1>2 DEF Files, Generated, NodesOf
<1>. QED  BY <1>2, <1>3 DEF Leaked, Misread

\* A parameter that LLVM has not renamed is filed under its own name.
LEMMA KeptNameIsFiled ==
  ASSUME NEW f, NEW n \in ParameterNames(f), n \notin Renamed(f)
  PROVE  n \in Gen!FiledNames(f)
<1>1. PICK i \in 1..Len(f.parameters) : f.parameters[i].name = n
  BY DEF ParameterNames
<1>2. Gen!LLVMNames(f)[i] = n
  BY <1>1 DEF Renamed
<1>. QED  BY <1>1, <1>2 DEF Gen!FiledNames

LEMMA ReadsInBody ==
  ASSUME Analyzed, GenTypeOK, InsertOk, NEW st, Reached(st), Known, frames # <<>>
  PROVE  Reads(Environment(pos), Len(functions))
<1>. SUFFICES ASSUME NEW n \in Names \ Misread(pos)
              PROVE  Means(n, Environment(pos)[n], Len(functions))
  BY Zenon DEF Reads
<1>1. PICK f \in 1..pos - 1 :
           /\ f \in 1..Len(ast) /\ Generated(f) /\ InFunction(pos) /\ EnclosingFunction(pos) = f
           /\ \A m \in Gen!FiledNames(ast[f]) \cap Names : currentLocals[m] = Len(functions)
  BY BodyFunction DEF Known
<1>2. /\ Environment(pos)[n] = LexicalType(n, f)
      /\ OwnParameters(pos) = ParameterNames(ast[f]) /\ Lost(pos) = Renamed(ast[f])
  BY <1>1 DEF Environment, OwnParameters, Lost
<1>3. /\ pos \in 1..Len(ast) /\ pos <= Len(ast) /\ ast \in Seq(Node) /\ Len(ast) \in Nat
      /\ f \in Nat
  BY <1>1, BodyGoesOn, AnalyzedFacts
<1>4. CASE n \in ParameterNames(ast[f])
  <2>1. PICK i \in Positions(ast[f].parameters, n) : TRUE
    BY <1>4 DEF Positions, ParameterNames
  <2>2. LexicalType(n, f) = TypeOfParameter(ast[f].parameters, n)
    BY <2>1 DEF LexicalType
  <2>3. TypeOfParameter(ast[f].parameters, n) = "int"
    BY <1>1, <2>1 DEF TypeOfParameter, Positions, Generated, Gen!Supported
  <2>4. Len(functions) # 0
    BY BodyPlace
  <2>5. n \in Gen!FiledNames(ast[f])
    BY <1>2, <1>4, KeptNameIsFiled DEF Misread
  <2>. QED  BY <1>1, <1>2, <2>2, <2>3, <2>4, <2>5 DEF Means
<1>5. CASE n \notin ParameterNames(ast[f])
  <2>1. LexicalType(n, f) = GlobalType(n)
    BY <1>5 DEF LexicalType, Positions, ParameterNames
  <2>2. currentLocals[n] = 0
    BY <1>2, <1>3, <1>5, NoLocalLeaks DEF Known
  <2>3. ast[f].node = "function" /\ GlobalsKnown
    BY <1>1 DEF Generated, Known
  <2>. QED  BY <1>2, <1>3, <2>1, <2>2, <2>3, GlobalIsDeclared
<1>. QED  BY <1>4, <1>5

LEMMA ReadsAtCall ==
  ASSUME Analyzed, GenTypeOK, NEW st, Reached(st), Known, pos <= Len(ast),
         ast[pos].node = "call", NEW h
  PROVE  Reads(Environment(pos), h) /\ Environment(pos) = [n \in Names |-> GlobalType(n)]
<1>1. /\ ast \in Seq(Node) /\ Len(ast) \in Nat /\ pos \in 1..Len(ast) /\ pos \in Accepted
      /\ Len(ast) + 1 \in Nat
  BY AnalyzedFacts DEF GenTypeOK
<1>2. ~InFunction(pos)
  BY <1>1, NotInFunction
<1>3. PICK f \in 1..pos - 1 : ast[f].node = "function"
  BY <1>1 DEF Analyzed, CallsInv, CallsAreResolved
<1>4. Environment(pos) = [n \in Names |-> GlobalType(n)]
  BY <1>2 DEF Environment
<1>5. ASSUME NEW n \in Names \ Misread(pos) PROVE Means(n, Environment(pos)[n], h)
  <2>1. currentLocals[n] = 0
    BY <1>1, <1>2, NoLocalLeaks DEF Known, OwnParameters
  <2>. QED  BY <1>3, <1>4, <2>1, GlobalIsDeclared DEF Known
<1>. QED  BY <1>4, <1>5 DEF Reads

\* The instructions that are well typed.
WellTyped ==
  [op   : {"load", "store", "arith", "br", "condbr", "ret", "call", "print"},
   name : InstrNames,
   ok   : {TRUE}, from : Nat, to : SUBSET Nat]

LEMMA WellTypedTakes ==
  ASSUME pos \in Nat
  PROVE  Takes(WellTyped, Reading, {TRUE})
<1>1. {} \in SUBSET Nat
  OBVIOUS
<1>. QED  BY <1>1, Zenon DEF Takes, Reading, WellTyped, Gen!Instr

\* The names of a body are worth what the analyzer took them for.
LEMMA NamesResolve ==
  ASSUME Analyzed, GenTypeOK, InsertOk, NEW st, Reached(st), Known
  PROVE  NamesResolveAsAnalyzed
<1>. SUFFICES ASSUME frames # <<>>, NEW n \in Names \ Misread(pos)
              PROVE  LET type == Environment(pos)[n]
                         v    == Gen!PrimaryValue(n, insert.function)
                     IN  CASE type = "none"  -> Gen!IsNull(v)
                           [] type = "array" -> v.type = globals[n]
                           [] OTHER          -> /\ v.type = IRType(type)
                                                /\ \A i \in 1..Len(v.code) : v.code[i].ok
  BY Zenon DEF NamesResolveAsAnalyzed
<1>. DEFINE type == Environment(pos)[n]
            h    == Len(functions)
            v    == Gen!PrimaryValue(n, h)
<1>1. /\ insert.function = h /\ Takes(WellTyped, Reading, {TRUE}) /\ n \in Names
  BY BodyPlace, ReadableState, AnalyzedFacts, WellTypedTakes DEF Readable
<1>2. Means(n, type, h)
  BY ReadsInBody DEF Reads
<1>. HIDE DEF type, h
<1>3. /\ type = "none" => Gen!IsNull(v)
      /\ type # "none" => OfType(v, type, h, WellTyped)
      /\ type = "array" => v.type = globals[n]
      /\ v.code \in Seq(WellTyped)
      /\ type \in ScalarTypes \cup {"array", "none"}
  BY <1>1, <1>2, NameIsWorth
<1>. HIDE DEF v
<1>4. \A i \in 1..Len(v.code) : v.code[i].ok
  <2>. SUFFICES ASSUME NEW i \in 1..Len(v.code) PROVE v.code[i].ok
    OBVIOUS
  <2>. DEFINE c == v.code
  <2>1. c \in Seq(WellTyped) /\ i \in 1..Len(c)
    BY <1>3
  <2>. HIDE DEF c
  <2>2. c[i] \in WellTyped
    BY <2>1, ElementOfSeq
  <2>3. c[i].ok \in {TRUE}
    BY <2>2, Zenon DEF WellTyped
  <2>. QED  BY <2>3 DEF c
<1>5. type \notin {"none", "array"} => v.type = IRType(type)
  BY <1>3 DEF OfType
<1>6. CASE type = "none"
  BY <1>1, <1>3, <1>6 DEF type, v
<1>7. CASE type = "array"
  BY <1>1, <1>3, <1>7 DEF type, v
<1>8. CASE type \notin {"none", "array"}
  BY <1>1, <1>4, <1>5, <1>8 DEF type, v
<1>. QED  BY <1>6, <1>7, <1>8

-----------------------------------------------------------------------------
(***************************************************************************)
(* What is known stays known as the generator goes on in the text.         *)
(***************************************************************************)
GoesOn == TextKept /\ pos \in Nat /\ pos' \in Nat /\ pos < pos'

LEMMA RangeGrows ==
  ASSUME NEW p \in Nat, NEW q \in Nat, p < q
  PROVE  /\ 1..p - 1 \subseteq 1..q - 1
         /\ \A f \in Nat : \A i \in f..q - 1 : i \in f..p - 1 \/ i \in p..q - 1
OBVIOUS

LEMMA FurtherOn ==
  GoesOn => /\ 1..pos - 1 \subseteq 1..pos' - 1 /\ ast' = ast
            /\ \A f \in Nat : \A i \in f..pos' - 1 : i \in f..pos - 1 \/ i \in pos..pos' - 1
BY RangeGrows DEF GoesOn, TextKept

LEMMA LocalsKept ==
  ASSUME GoesOn, LocalsKnown, currentLocals' = currentLocals,
         \A i \in 2..Len(frames') : frames'[i].locals = currentLocals
  PROVE  LocalsKnown'
<1>1. 1..pos - 1 \subseteq 1..pos' - 1
  BY FurtherOn
<1>2. \A f, n : Files(f, n) => Files(f, n)'
  BY DEF GoesOn, TextKept, Files, Generated, Gen!Supported
<1>. QED  BY <1>1, <1>2 DEF LocalsKnown

LEMMA GlobalsKept ==
  ASSUME GoesOn, GlobalsKnown, globals' = globals,
         \A i \in pos..pos' - 1 : ast[i].node # "declaration"
  PROVE  GlobalsKnown'
<1>1. 1..pos - 1 \subseteq 1..pos' - 1
  BY FurtherOn
<1>2. /\ ast' = ast
      /\ \A i, n : Declared(i, n)' = Declared(i, n)
      /\ \A i : Gen!GlobalValueType(ast[i])' = Gen!GlobalValueType(ast[i])
  BY DEF GoesOn, TextKept, Declared, Gen!GlobalValueType
<1>3. ASSUME NEW n \in Names, globals'[n] # Gen!NoType
      PROVE  (\E i \in 1..pos - 1 : Declared(i, n) /\ globals[n] = Gen!GlobalValueType(ast[i]))'
  <2>1. PICK i \in 1..pos - 1 : Declared(i, n) /\ globals[n] = Gen!GlobalValueType(ast[i])
    BY <1>3 DEF GlobalsKnown
  <2>. QED  BY <1>1, <1>2, <2>1
<1>4. ASSUME NEW i \in 1..pos' - 1, ast'[i].node = "declaration", ast'[i].type # "array"
      PROVE  globals'[ast'[i].name] # Gen!NoType
  <2>1. i \in 1..pos - 1
    <3>1. i \in 1..pos - 1 \/ i \in pos..pos' - 1
      BY FurtherOn
    <3>. QED  BY <1>2, <1>4, <3>1
  <2>. QED  BY <1>2, <1>4, <2>1 DEF GlobalsKnown
<1>. QED  BY <1>3, <1>4 DEF GlobalsKnown, Gen!NoType

LEMMA BodyKept ==
  ASSUME GoesOn, BodyKnown, frames # <<>>, currentLocals' = currentLocals,
         Len(functions') = Len(functions),
         functions'[Len(functions)].node = functions[Len(functions)].node,
         functions'[Len(functions)].result = functions[Len(functions)].result,
         \A i \in pos..pos' - 1 : ast[i].node \notin {"function", "call", "declaration"}
  PROVE  BodyKnown'
<1>1. PICK f \in 1..pos - 1 :
        /\ Generated(f)
        /\ \A k \in f + 1..pos - 1 : ast[k].node \notin {"function", "call", "declaration"}
        /\ functions[Len(functions)].node = f
        /\ functions[Len(functions)].result = Gen!ReturnType(ast[f].returnType)
        /\ \A n \in Gen!FiledNames(ast[f]) \cap Names : currentLocals[n] = Len(functions)
  BY DEF BodyKnown
<1>2. ast' = ast /\ f \in 1..pos' - 1
  BY FurtherOn
<1>3. ASSUME NEW k \in f + 1..pos' - 1
      PROVE  ast[k].node \notin {"function", "call", "declaration"}
  <2>1. k \in f + 1..pos - 1 \/ k \in pos..pos' - 1
    <3>1. f + 1 \in Nat
      OBVIOUS
    <3>. QED  BY <3>1, FurtherOn
  <2>. QED  BY <1>1, <2>1
<1>4. /\ Generated(f)'
      /\ \A k \in f + 1..pos' - 1 : ast'[k].node \notin {"function", "call", "declaration"}
      /\ functions'[Len(functions')].node = f
      /\ functions'[Len(functions')].result = Gen!ReturnType(ast'[f].returnType)
      /\ \A n \in Gen!FiledNames(ast'[f]) \cap Names : currentLocals'[n] = Len(functions')
  BY <1>1, <1>2, <1>3 DEF Generated, Gen!Supported, Gen!ReturnType
<1>. QED  BY <1>2, <1>4 DEF BodyKnown, Gen!ReturnType, Gen!I32, Gen!Float,
   Gen!I1, Gen!Ptr

\* Whatever else is called by the name.
Harmless(n, symbol) ==
  /\ symbol.kind # "function"
  /\ symbol.kind = "library" => n \in Gen!Allocators \cup {"printf"}

LEMMA SymbolsKept ==
  ASSUME GoesOn, GenTypeOK, SymbolsKnown,
         \A i \in 1..Len(functions) : /\ functions'[i].node = functions[i].node
                                      /\ functions'[i].params = functions[i].params,
         \A n \in Gen!SymbolNames \ {"main"} :
            \/ symbols'[n] = symbols[n]
            \/ Harmless(n, symbols'[n])
            \/ symbols'[n].kind = "function" /\ Defined(n, symbols[n].index)'
  PROVE  SymbolsKnown'
<1>1. 1..pos - 1 \subseteq 1..pos' - 1 /\ ast' = ast
  BY FurtherOn
<1>2. SymbolsOk(symbols, Len(functions))
  BY DEF GenTypeOK
<1>. SUFFICES ASSUME NEW n \in Gen!SymbolNames \ {"main"}
              PROVE  (/\ symbols[n].kind = "function" => Defined(n, symbols[n].index)
                      /\ symbols[n].kind = "library" => n \in Gen!Allocators \cup {"printf"})'
  BY DEF SymbolsKnown, Gen!SymbolNames, Gen!Allocators
<1>3. CASE symbols'[n] = symbols[n]
  <2>1. symbols[n].kind = "library" => n \in Gen!Allocators \cup {"printf"}
    BY DEF SymbolsKnown
  <2>2. ASSUME symbols[n].kind = "function" PROVE Defined(n, symbols[n].index)'
    <3>. DEFINE index == symbols[n].index
    <3>1. index \in 1..Len(functions) /\ Defined(n, index)
      BY <1>2, <2>2 DEF SymbolsKnown, SymbolsOk
    <3>2. symbols'[n].index = index
      BY <1>3
    <3>. HIDE DEF index
    <3>3. PICK d \in 1..pos - 1 :
            /\ ast[d].node = "function" /\ ast[d].name = n
            /\ functions[index].node = d
            /\ functions[index].params = [i \in 1..Len(ast[d].parameters) |-> Gen!I32]
      BY <3>1 DEF Defined
    <3>4. /\ d \in 1..pos' - 1 /\ ast'[d].node = "function" /\ ast'[d].name = n
          /\ functions'[index].node = d
          /\ functions'[index].params = [i \in 1..Len(ast'[d].parameters) |-> Gen!I32]
      BY <1>1, <3>1, <3>3
    <3>. QED  BY <3>2, <3>4 DEF Defined, Gen!I32
  <2>. QED  BY <1>3, <2>1, <2>2
<1>4. CASE Harmless(n, symbols'[n])
  BY <1>4 DEF Harmless
<1>5. CASE symbols'[n].kind = "function" /\ Defined(n, symbols[n].index)'
  BY <1>5
<1>. QED  BY <1>3, <1>4, <1>5

LEMMA LastKept ==
  ASSUME GoesOn, LastKnown, lastValue' \in {lastValue, Gen!Null}
  PROVE  LastKnown'
<1>1. 1..pos - 1 \subseteq 1..pos' - 1 /\ ast' = ast
  BY FurtherOn
<1>2. CASE lastValue' = lastValue
  BY <1>1, <1>2 DEF LastKnown
<1>3. CASE lastValue' = Gen!Null
  <2>1. lastValue'.code = <<>> /\ lastValue'.home = 0
    BY <1>3 DEF Gen!Null, Gen!Constant
  <2>. QED  BY <2>1 DEF LastKnown
<1>. QED  BY <1>2, <1>3

-----------------------------------------------------------------------------
(***************************************************************************)
(* What is evaluated, and the code that is added for it.                   *)
(***************************************************************************)
LEMMA EvaluateYields ==
  ASSUME NEW S, Takes(S, Evaluating, {TRUE}), ~PlainNode(pos) => Takes(S, Evaluating, BOOLEAN),
         NEW e \in Expression, e \in ExpressionsOf(ast[pos]), NEW h,
         Reads(Environment(pos), h), NEW last, last.code \in Seq(S)
  PROVE  LET v == Gen!Evaluate(e, last, h)
         IN  /\ v.code \in Seq(S)
             /\ PlainNode(pos) /\ (e.kind = "assign" => ast[pos].node # "expression") =>
                  OfType(v, TypeOf(e, Environment(pos)), h, S)
<1>1. CASE PlainNode(pos)
  <2>1. Plain(e, pos) /\ (e.kind = "assign" => ast[pos].node = "expression")
    BY <1>1 DEF PlainNode
  <2>. QED  BY <2>1, <1>1, PlainIsWorth
<1>2. CASE ~PlainNode(pos)
  BY <1>2, EvaluateEmits
<1>. QED  BY <1>1, <1>2

LEMMA FreshEvaluate ==
  ASSUME pos \in Nat, NEW e \in Expression, e \in ExpressionsOf(ast[pos]), NEW h,
         Reads(Environment(pos), h), NEW last, last.code \in Seq(Fresh)
  PROVE  LET v == Gen!Evaluate(e, last, h)
         IN  /\ v.code \in Seq(Fresh)
             /\ PlainNode(pos) /\ (e.kind = "assign" => ast[pos].node # "expression") =>
                  OfType(v, TypeOf(e, Environment(pos)), h, Fresh)
<1>1. Takes(Fresh, Evaluating, {TRUE}) /\ (~PlainNode(pos) => Takes(Fresh, Evaluating, BOOLEAN))
  BY FreshTakes
<1>. QED  BY <1>1, EvaluateYields

\* A body is generated, and all is well so far.
InBody(st) ==
  /\ Analyzed /\ GenTypeOK /\ InsertOk /\ Reached(st) /\ Known
  /\ frames # <<>>

LEMMA BodyEvaluates ==
  ASSUME NEW st, InBody(st), NEW e \in Expression, e \in ExpressionsOf(ast[pos]),
         NEW last, last.code = <<>>
  PROVE  LET v == Gen!Evaluate(e, last, insert.function)
         IN  /\ v.code \in Seq(Fresh)
             /\ PlainNode(pos) /\ ast[pos].node # "expression" =>
                  OfType(v, TypeOf(e, Environment(pos)), insert.function, Fresh)
<1>1. /\ insert.function = Len(functions) /\ pos \in Nat
      /\ Reads(Environment(pos), Len(functions))
  BY BodyPlace, ReadsInBody, ReadableState, AnalyzedFacts DEF InBody, Readable
<1>2. last.code \in Seq(Fresh)
  BY EmptySeq
<1>. QED  BY <1>1, <1>2, FreshEvaluate

\* Code that goes where the builder is.
LEMMA BodyPut ==
  ASSUME NEW st, InBody(st), NEW code \in Seq(Fresh), functions' = Gen!Put(functions, insert, code)
  PROVE  Grown /\ Headers(functions, functions')
<1>. DEFINE f == Len(functions)
<1>1. /\ f \in 1..Len(functions) /\ insert.function = f
      /\ insert.block \in 1..Len(functions[f].blocks)
      /\ functions \in Seq(Function)
  BY BodyPlace DEF NewestBlocks, GenTypeOK, InBody
<1>. HIDE DEF f
<1>2. LET gs == Gen!Put(functions, insert, code) IN Grows(functions, gs, Fresh) /\ Headers(functions, gs)
  BY <1>1, FreshIsCode, PutGrows
<1>. QED  BY <1>2 DEF Grown

\* What the analyzer has checked of a statement in a body.
LEMMA BodyTypes ==
  ASSUME NEW st, InBody(st), AsksForType(ast[pos])
  PROVE  \E f \in 1..Len(ast) :
           /\ TypeChecked(ast[pos], Environment(pos), ast[f].returnType)
           /\ functions[insert.function].result = Gen!ReturnType(ast[f].returnType)
           /\ ast[f].returnType \in ReturnTypes
<1>1. PICK f \in 1..pos - 1 :
           /\ f \in 1..Len(ast) /\ Generated(f) /\ InFunction(pos) /\ EnclosingFunction(pos) = f
           /\ functions[Len(functions)].result = Gen!ReturnType(ast[f].returnType)
  BY BodyFunction DEF Known, InBody
<1>2. /\ pos \in Accepted /\ ScopesInv /\ insert.function = Len(functions)
      /\ ast[f] \in Node /\ ast[f].node = "function"
  BY <1>1, BodyGoesOn, BodyPlace, AnalyzedFacts DEF InBody, Analyzed, Generated
<1>3. TypeChecked(ast[pos], [n \in Names |-> LexicalType(n, f)], ast[f].returnType)
  BY <1>1, <1>2, StatementTypes, Zenon
<1>4. Environment(pos) = [n \in Names |-> LexicalType(n, f)]
  BY <1>1 DEF Environment
<1>5. ast[f].returnType \in ReturnTypes
  BY <1>2, NodeFields
<1>. QED  BY <1>1, <1>2, <1>3, <1>4, <1>5, Zenon

-----------------------------------------------------------------------------
(***************************************************************************)
(* The statements of a body.                                               *)
(***************************************************************************)
\* A statement or the end of a body leaves what is known as it is.
LEMMA StatementKnown ==
  ASSUME NEW st, InBody(st), TextKept, pos' = pos + 1,
         globals' = globals, currentLocals' = currentLocals,
         Headers(functions, functions'),
         \A n \in Gen!SymbolNames \ {"main"} :
            symbols'[n] = symbols[n] \/ Harmless(n, symbols'[n]),
         lastValue' \in {lastValue, Gen!Null},
         \A i \in 2..Len(frames') : frames'[i].locals = currentLocals
  PROVE  Known'
<1>1. /\ pos \in 1..Len(ast) /\ Len(ast) \in Nat /\ GenTypeOK /\ Known /\ frames # <<>>
      /\ ast[pos].node \notin {"function", "call", "declaration"}
  BY BodyGoesOn, AnalyzedFacts DEF InBody
<1>2. GoesOn /\ \A i \in pos..pos' - 1 : i = pos
  <2>1. pos \in Nat /\ pos + 1 \in Nat /\ pos < pos + 1 /\ \A i \in pos..pos + 1 - 1 : i = pos
    BY <1>1
  <2>. QED  BY <2>1 DEF GoesOn
<1>3. /\ Len(functions') = Len(functions) /\ Len(functions) \in 1..Len(functions)
      /\ \A i \in 1..Len(functions) : /\ functions'[i].node = functions[i].node
                                      /\ functions'[i].params = functions[i].params
                                      /\ functions'[i].result = functions[i].result
  BY BodyPlace DEF InBody, Headers
<1>4. LocalsKnown'
  BY <1>1, <1>2, LocalsKept DEF Known
<1>5. GlobalsKnown'
  BY <1>1, <1>2, GlobalsKept DEF Known
<1>6. BodyKnown'
  BY <1>1, <1>2, <1>3, BodyKept DEF Known
<1>7. SymbolsKnown'
  BY <1>1, <1>2, <1>3, SymbolsKept DEF Known
<1>8. LastKnown'
  BY <1>1, <1>2, LastKept DEF Known
<1>. QED  BY <1>4, <1>5, <1>6, <1>7, <1>8 DEF Known

LEMMA LocalsOfFrames ==
  ASSUME NEW st, InBody(st)
  PROVE  \A i \in 2..Len(frames) : frames[i].locals = currentLocals
BY DEF InBody, Known, LocalsKnown

LEMMA ExpressionStatementGrows ==
  ASSUME NEW st, InBody(st), TextKept, Gen!VisitExpressionStatement
  PROVE  Known' /\ Grown
<1>. DEFINE v == Gen!Evaluate(ast[pos].expr, lastValue, insert.function)
<1>1. /\ ast[pos].node = "expression" /\ functions' = Gen!Put(functions, insert, v.code)
      /\ pos' = pos + 1 /\ lastValue' = Gen!Null
      /\ UNCHANGED <<globals, currentLocals, symbols, insert, frames>>
  BY DEF Gen!VisitExpressionStatement, Gen!At, Gen!node, Gen!Here, Gen!Evaluated, Gen!Proceed
<1>2. v.code \in Seq(Fresh)
  <2>1. ast[pos].expr \in Expression /\ ast[pos].expr \in ExpressionsOf(ast[pos])
    BY <1>1, BodyGoesOn, AnalyzedFacts, NodeFields DEF InBody, ExpressionsOf
  <2>2. lastValue.code = <<>>
    BY DEF InBody, Known, LastKnown
  <2>. QED  BY <2>1, <2>2, BodyEvaluates
<1>. HIDE DEF v
<1>3. Grown /\ Headers(functions, functions')
  BY <1>1, <1>2, BodyPut
<1>4. Known'
  BY <1>1, <1>3, LocalsOfFrames, StatementKnown
<1>. QED  BY <1>3, <1>4

\* No function of the text has the name when no name is that of a function
\* that the module needs.
LEMMA PrintfIsFree ==
  ASSUME GenTypeOK, SymbolsKnown, NoClash, ast \in Seq(Node)
  PROVE  symbols["printf"].kind # "function"
<1>. SUFFICES ASSUME symbols["printf"].kind = "function" PROVE FALSE
  OBVIOUS
<1>1. PICK d \in 1..pos - 1 : ast[d].node = "function" /\ ast[d].name = "printf"
  BY SymbolNamesFacts DEF SymbolsKnown, Defined
<1>2. d \in 1..Len(ast)
  BY <1>1, LenProperties DEF GenTypeOK
<1>. QED  BY <1>1, <1>2 DEF NoClash, NodesOf, Clash

LEMMA PrintStatementGrows ==
  ASSUME NEW st, InBody(st), TextKept, Gen!VisitPrintStatement
  PROVE  Known' /\ Grown
<1>. DEFINE v == Gen!Evaluate(ast[pos].expr, lastValue, insert.function)
            callee == IF symbols["printf"].kind = "global" THEN "printf.1" ELSE "printf"
            ok == symbols["printf"].kind # "function"
            print == Gen!Instr("print", callee, ok)
            more == IF Gen!Printable(v) THEN <<print>> ELSE <<>>
<1>1. /\ ast[pos].node = "print" /\ functions' = Gen!Put(functions, insert, v.code \o more)
      /\ pos' = pos + 1 /\ lastValue' = Gen!Null
      /\ UNCHANGED <<globals, currentLocals, insert, frames>>
  BY DEF Gen!VisitPrintStatement, Gen!At, Gen!node, Gen!Here, Gen!Evaluated, Gen!Proceed
<1>2. GenTypeOK /\ Known /\ ast \in Seq(Node) /\ pos \in Nat
  BY AnalyzedFacts, ReadableState DEF InBody, Readable
<1>3. v.code \in Seq(Fresh)
  <2>1. ast[pos].expr \in Expression /\ ast[pos].expr \in ExpressionsOf(ast[pos])
    BY <1>1, BodyGoesOn, AnalyzedFacts, NodeFields DEF InBody, ExpressionsOf
  <2>2. lastValue.code = <<>>
    BY DEF InBody, Known, LastKnown
  <2>. QED  BY <2>1, <2>2, BodyEvaluates
<1>. HIDE DEF v
<1>4. print \in Fresh
  <2>1. PlainNode(pos) => NoClash
    BY <1>1 DEF PlainNode
  <2>2. ok \/ ~PlainNode(pos)
    BY <1>2, <2>1, PrintfIsFree DEF Known
  <2>3. ok \in BOOLEAN /\ callee \in {"printf.1", "printf"}
    OBVIOUS
  <2>. HIDE DEF ok, callee
  <2>4. callee \in InstrNames
    BY <2>3, SymbolNamesFacts, Zenon DEF InstrNames
  <2>. QED  BY <1>2, <2>2, <2>3, <2>4, FreshInstr, Zenon
<1>. HIDE DEF print
<1>5. v.code \o more \in Seq(Fresh)
  <2>1. <<print>> \in Seq(Fresh) /\ <<>> \in Seq(Fresh)
    BY <1>4, EmptySeq
  <2>2. more \in Seq(Fresh)
    BY <2>1
  <2>. HIDE DEF more
  <2>. QED  BY <1>3, <2>2, ConcatProperties
<1>. HIDE DEF more
<1>6. Grown /\ Headers(functions, functions')
  BY <1>1, <1>5, BodyPut
<1>7. \A n \in Gen!SymbolNames \ {"main"} :
            symbols'[n] = symbols[n] \/ Harmless(n, symbols'[n])
  <2>1. PrintClaims
    BY <1>2, PrintSymbols
  <2>2. /\ Harmless("printf", Gen!Symbol("library", 0))
        /\ \A n : Harmless(n, Gen!Symbol("global", 0))
    BY DEF Harmless, Gen!Symbol
  <2>. QED  BY <2>1, <2>2 DEF PrintClaims
<1>8. Known'
  BY <1>1, <1>6, <1>7, LocalsOfFrames, StatementKnown
<1>. QED  BY <1>6, <1>8

LEMMA ReturnStatementGrows ==
  ASSUME NEW st, InBody(st), TextKept, Gen!VisitReturnStatement
  PROVE  Known' /\ Grown
<1>. DEFINE e == ast[pos].expr
            v == Gen!Evaluate(e, lastValue, insert.function)
            ok == v.type = functions[insert.function].result
            ret == Gen!Instr("ret", "", ok)
            more == IF Gen!IsNull(v) THEN <<>> ELSE <<ret>>
<1>1. /\ ast[pos].node = "return" /\ functions' = Gen!Put(functions, insert, v.code \o more)
      /\ pos' = pos + 1 /\ lastValue' = Gen!Null
      /\ UNCHANGED <<globals, currentLocals, symbols, insert, frames>>
  BY Zenon DEF Gen!VisitReturnStatement, Gen!At, Gen!node, Gen!Here, Gen!Evaluated, Gen!Proceed
<1>2. pos \in Nat
  BY AnalyzedFacts, ReadableState DEF InBody, Readable
<1>3. /\ v.code \in Seq(Fresh)
      /\ PlainNode(pos) => OfType(v, TypeOf(e, Environment(pos)), insert.function, Fresh)
  <2>1. e \in Expression /\ e \in ExpressionsOf(ast[pos])
    BY <1>1, BodyGoesOn, AnalyzedFacts, NodeFields, Zenon DEF InBody, ExpressionsOf
  <2>2. lastValue.code = <<>>
    BY DEF InBody, Known, LastKnown
  <2>. QED  BY <1>1, <2>1, <2>2, BodyEvaluates, Zenon
<1>. HIDE DEF v
<1>4. PlainNode(pos) => ok
  <2>1. AsksForType(ast[pos])
    BY <1>1, Zenon DEF AsksForType
  <2>2. PICK k \in ReturnTypes : /\ TypeOf(e, Environment(pos)) = NormalizedType(k)
                                 /\ functions[insert.function].result = Gen!ReturnType(k)
    BY <1>1, <2>1, BodyTypes, Zenon DEF TypeChecked
  <2>3. NormalizedType(k) \in ScalarTypes /\ IRType(NormalizedType(k)) = Gen!ReturnType(k)
    BY DEF ReturnTypes, NormalizedType, ScalarTypes, IRType, Gen!ReturnType
  <2>. QED  BY <1>3, <2>2, <2>3 DEF OfType
<1>5. ret \in Fresh
  <2>1. ok \in BOOLEAN
    OBVIOUS
  <2>2. ok \/ ~PlainNode(pos)
    BY <1>4
  <2>. HIDE DEF ok
  <2>. QED  BY <1>2, <2>1, <2>2, FreshInstr, InstrNamesFacts, Zenon
<1>. HIDE DEF ret
<1>6. v.code \o more \in Seq(Fresh)
  <2>1. <<ret>> \in Seq(Fresh) /\ <<>> \in Seq(Fresh)
    BY <1>5, EmptySeq
  <2>2. more \in Seq(Fresh)
    BY <2>1
  <2>. HIDE DEF more
  <2>. QED  BY <1>3, <2>2, ConcatProperties
<1>. HIDE DEF more
<1>7. Grown /\ Headers(functions, functions')
  BY <1>1, <1>6, BodyPut
<1>8. Known'
  BY <1>1, <1>7, LocalsOfFrames, StatementKnown
<1>. QED  BY <1>7, <1>8

-----------------------------------------------------------------------------
(***************************************************************************)
(* The statements that open a body, and the ends of bodies.                *)
(***************************************************************************)
LEMMA HeadersCompose ==
  ASSUME NEW a, NEW b, NEW c, Headers(a, b), Headers(b, c)
  PROVE  Headers(a, c)
BY DEF Headers

\* New blocks, and code in the block under way.
LEMMA BranchGrows ==
  ASSUME NEW st, InBody(st), NEW n \in Nat, NEW code \in Seq(Fresh)
  PROVE  LET gs == Gen!Put(Gen!NewBlocks(functions, insert.function, n), insert, code)
         IN  /\ Grows(functions, gs, Fresh) /\ Headers(functions, gs) /\ gs \in Seq(Function)
             /\ Len(functions) \in 1..Len(gs)
             /\ Len(gs[Len(functions)].blocks) = Len(NewestBlocks) + n
<1>. DEFINE f  == Len(functions)
            m  == Len(NewestBlocks)
            fs == Gen!NewBlocks(functions, f, n)
            gs == Gen!Put(fs, insert, code)
<1>1. /\ f \in 1..Len(functions) /\ insert.function = f
      /\ insert.block \in 1..m /\ m \in Nat /\ NewestBlocks = functions[f].blocks
      /\ functions \in Seq(Function)
  BY BodyPlace, LenProperties DEF NewestBlocks, GenTypeOK, InBody
<1>. HIDE DEF f
<1>2. LET hs == Gen!NewBlocks(functions, f, n)
      IN  /\ Grows(functions, hs, Fresh) /\ Headers(functions, hs) /\ hs \in Seq(Function)
          /\ Len(hs[f].blocks) = Len(functions[f].blocks) + n
  BY <1>1, NewBlocksGrow
<1>3. /\ fs \in Seq(Function) /\ Grows(functions, fs, Fresh) /\ Headers(functions, fs)
      /\ f \in 1..Len(fs) /\ Len(fs[f].blocks) = m + n
      /\ insert.block \in 1..Len(fs[f].blocks)
  <2>1. /\ fs \in Seq(Function) /\ Grows(functions, fs, Fresh) /\ Headers(functions, fs)
        /\ Len(fs[f].blocks) = m + n
    BY <1>1, <1>2
  <2>. HIDE DEF fs, m
  <2>. QED  BY <1>1, <2>1 DEF Headers
<1>. HIDE DEF fs
<1>4. /\ Grows(fs, gs, Fresh) /\ Headers(fs, gs) /\ gs \in Seq(Function)
      /\ \A i \in 1..Len(fs) : Len(gs[i].blocks) = Len(fs[i].blocks)
  <2>1. /\ insert.function = f /\ f \in 1..Len(fs) /\ insert.block \in 1..Len(fs[f].blocks)
        /\ fs \in Seq(Function)
    BY <1>1, <1>3
  <2>2. Fresh \subseteq Instruction
    BY FreshIsCode
  <2>. HIDE DEF m
  <2>. QED  BY <2>1, <2>2, PutGrows, SMTT(30)
<1>. HIDE DEF gs
<1>5. Headers(functions, gs) /\ Grows(functions, gs, Fresh) /\ f \in 1..Len(gs) /\ Len(gs[f].blocks) = m + n
  BY <1>3, <1>4, GrowsOn, HeadersCompose DEF Headers
<1>. QED  BY <1>1, <1>4, <1>5 DEF gs, fs, f

\* A loop, with the code that leads to its condition and the condition's.
LEMMA LoopGrows ==
  ASSUME NEW st, InBody(st), NEW enter \in Seq(Fresh), NEW test \in Seq(Fresh),
         functions' = Gen!Put(Gen!Put(Gen!NewBlocks(functions, insert.function, 3), insert, enter),
                              Gen!Block(Len(NewestBlocks) + 1), test)
  PROVE  Grown /\ Headers(functions, functions')
<1>. DEFINE f  == Len(functions)
            m  == Len(NewestBlocks)
            at == Gen!Block(m + 1)
            gs == Gen!Put(Gen!NewBlocks(functions, insert.function, 3), insert, enter)
            hs == Gen!Put(gs, at, test)
<1>1. 3 \in Nat
  OBVIOUS
<1>2. /\ Grows(functions, gs, Fresh) /\ Headers(functions, gs) /\ gs \in Seq(Function)
      /\ f \in 1..Len(gs) /\ Len(gs[f].blocks) = m + 3
  BY <1>1, BranchGrows
<1>3. at.function = f /\ at.block = m + 1 /\ m \in Nat
  BY BodyPlace, LenProperties DEF Gen!Block, InBody, GenTypeOK, Place
<1>. HIDE DEF gs, m, f, at
<1>4. m + 1 \in 1..Len(gs[f].blocks)
  BY <1>2, <1>3
<1>5. Grows(gs, hs, Fresh) /\ Headers(gs, hs)
  BY <1>2, <1>3, <1>4, FreshIsCode, PutGrows
<1>6. functions' = hs
  BY DEF hs, gs, at, m
<1>. HIDE DEF hs
<1>. QED  BY <1>2, <1>5, <1>6, GrowsOn, HeadersCompose DEF Grown

\* A frame that is added keeps the locals.
LEMMA OpeningKnown ==
  ASSUME NEW st, InBody(st), TextKept, Gen!Evaluated, Headers(functions, functions'),
         NEW kind, NEW back, NEW next, frames' = Append(frames, Gen!Frame(kind, back, next)),
         UNCHANGED <<globals, currentLocals, symbols>>
  PROVE  Known'
<1>. DEFINE f == Gen!Frame(kind, back, next)
<1>1. f.locals = currentLocals
  BY DEF Gen!Frame
<1>. HIDE DEF f
<1>2. frames \in Seq(FrameSet) /\ Len(frames) \in Nat
  BY LenProperties DEF InBody, GenTypeOK
<1>3. /\ Len(frames') = Len(frames) + 1 /\ frames'[Len(frames) + 1] = f
      /\ \A i \in 1..Len(frames) : frames'[i] = frames[i]
  <2>1. frames' = Append(frames, f)
    BY DEF f
  <2>. QED  BY <1>2, <2>1
<1>4. ASSUME NEW i \in 2..Len(frames') PROVE frames'[i].locals = currentLocals
  <2>1. i = Len(frames) + 1 \/ (i \in 2..Len(frames) /\ i \in 1..Len(frames))
    BY <1>2, <1>3
  <2>. QED  BY <1>1, <1>3, <2>1, LocalsOfFrames
<1>5. pos' = pos + 1 /\ lastValue' = Gen!Null
  BY DEF Gen!Evaluated, Gen!Proceed
<1>. QED  BY <1>4, <1>5, StatementKnown

\* A statement of a body that stops.
LEMMA FailKnown ==
  ASSUME Known, NEW how \in {"threw", "crashed"}, Gen!Fail(how), TextKept
  PROVE  Known' /\ functions' = functions /\ Grown
<1>1. /\ UNCHANGED <<pos, globals, currentLocals, functions, symbols, insert, frames, lastValue>>
      /\ ast' = ast
  BY DEF Gen!Fail, TextKept
<1>2. LocalsKnown' /\ LastKnown'
  BY <1>1 DEF Known, LocalsKnown, LastKnown, Files, Generated, Gen!Supported
<1>3. GlobalsKnown'
  <2>1. /\ \A i, n : Declared(i, n)' = Declared(i, n)
        /\ \A i : Gen!GlobalValueType(ast[i])' = Gen!GlobalValueType(ast[i])
    BY <1>1 DEF Declared, Gen!GlobalValueType
  <2>2. GlobalsKnown
    BY DEF Known
  <2>. QED  BY <1>1, <2>1, <2>2 DEF GlobalsKnown, Gen!NoType
<1>4. BodyKnown'
  <2>1. /\ \A i : Generated(i)' = Generated(i)
        /\ \A i : Gen!FiledNames(ast[i])' = Gen!FiledNames(ast[i])
        /\ \A i : Gen!ReturnType(ast[i].returnType)' = Gen!ReturnType(ast[i].returnType)
    BY <1>1 DEF Generated, Gen!Supported, Gen!ReturnType
  <2>2. BodyKnown
    BY DEF Known
  <2>. QED  BY <1>1, <2>1, <2>2 DEF BodyKnown
<1>5. SymbolsKnown'
  BY <1>1 DEF Known, SymbolsKnown, Defined, Gen!SymbolNames, Gen!Allocators, Gen!I32
<1>6. Grown
  BY <1>1, GrowsNot DEF Grown
<1>. QED  BY <1>1, <1>2, <1>3, <1>4, <1>5, <1>6 DEF Known

LEMMA WhileGrows ==
  ASSUME NEW st, InBody(st), TextKept, Gen!VisitWhileLoopStatement
  PROVE  Known' /\ Grown
<1>. DEFINE e == ast[pos].expr
            v == Gen!Evaluate(e, lastValue, insert.function)
            m == Len(NewestBlocks)
            ok == Gen!UsableIn(v, insert.function)
            jump == Gen!Branch("condbr", {m + 2, m + 3}, ok)
            test == Append(v.code, jump)
            goto == Gen!Branch("br", {m + 1}, TRUE)
            enter == <<goto>>
<1>1. /\ ast[pos].node = "while" /\ Known /\ pos \in Nat /\ m \in Nat
      /\ Gen!BlockCount = m /\ NewestBlocks \in Seq(Code)
  <2>1. ast[pos].node = "while"
    BY DEF Gen!VisitWhileLoopStatement, Gen!At, Gen!node
  <2>2. pos \in Nat /\ NewestBlocks \in Seq(Code) /\ insert.function = Len(functions)
    BY BodyPlace, AnalyzedFacts, ReadableState DEF InBody, Readable
  <2>. QED  BY <2>1, <2>2, LenProperties DEF InBody, Gen!BlockCount, Gen!Here, NewestBlocks
<1>2. /\ v.code \in Seq(Fresh)
      /\ PlainNode(pos) => OfType(v, TypeOf(e, Environment(pos)), insert.function, Fresh)
  <2>1. e \in Expression /\ e \in ExpressionsOf(ast[pos])
    BY <1>1, BodyGoesOn, AnalyzedFacts, NodeFields DEF InBody, ExpressionsOf
  <2>2. lastValue.code = <<>>
    BY <1>1 DEF Known, LastKnown
  <2>. QED  BY <1>1, <2>1, <2>2, BodyEvaluates
<1>3. \/ \E how \in {"threw", "crashed"} : Gen!Fail(how)
      \/ /\ functions' = Gen!Put(Gen!Put(Gen!NewBlocks(functions, insert.function, 3), insert, enter),
                                 Gen!Block(m + 1), test)
         /\ frames' = Append(frames, Gen!Frame("while", m + 1, m + 3))
         /\ Gen!Evaluated /\ UNCHANGED <<globals, currentLocals, symbols>>
  BY <1>1 DEF Gen!VisitWhileLoopStatement, Gen!Here, Gen!node
<1>. HIDE DEF v, m
<1>4. jump \in Fresh /\ goto \in Fresh
  <2>1. ok \in BOOLEAN /\ (PlainNode(pos) => ok)
    BY <1>2 DEF Gen!UsableIn, OfType, Sound
  <2>2. {m + 2, m + 3} \in SUBSET Nat /\ {m + 1} \in SUBSET Nat
    BY <1>1
  <2>. HIDE DEF ok
  <2>3. jump \in Fresh
    BY <1>1, <2>1, <2>2, FreshBranch
  <2>4. goto \in Fresh
    BY <1>1, <2>2, FreshBranch
  <2>. QED  BY <2>3, <2>4
<1>. HIDE DEF jump, goto
<1>5. test \in Seq(Fresh) /\ enter \in Seq(Fresh)
  <2>1. test \in Seq(Fresh)
    BY <1>2, <1>4, AppendProperties
  <2>2. enter \in Seq(Fresh)
    BY <1>4
  <2>. QED  BY <2>1, <2>2
<1>. HIDE DEF test, enter
<1>6. CASE \E how \in {"threw", "crashed"} : Gen!Fail(how)
  BY <1>1, <1>6, FailKnown DEF InBody
<1>7. CASE ~ \E how \in {"threw", "crashed"} : Gen!Fail(how)
  <2>1. Grown /\ Headers(functions, functions')
    BY <1>3, <1>5, <1>7, LoopGrows DEF m
  <2>2. Known'
    BY <1>3, <1>7, <2>1, OpeningKnown
  <2>. QED  BY <2>1, <2>2
<1>. QED  BY <1>6, <1>7

LEMMA ForGrows ==
  ASSUME NEW st, InBody(st), TextKept, Gen!VisitForLoopStatement
  PROVE  Known' /\ Grown
<1>. DEFINE first == ast[pos].start
            last == ast[pos].end
            start == Gen!Evaluate(first, lastValue, insert.function)
            end == Gen!Evaluate(last, Gen!Null, insert.function)
            m == Len(NewestBlocks)
            ok == /\ start.type = end.type /\ start.type \in Gen!IntegerTypes
                  /\ Gen!UsableIn(start, insert.function)
            store == Gen!Instr("store", "loopVar", TRUE)
            load == Gen!Instr("load", "loopVar", TRUE)
            compare == Gen!Instr("arith", "", ok)
            goto == Gen!Branch("br", {m + 1}, TRUE)
            jump == Gen!Branch("condbr", {m + 2, m + 3}, TRUE)
            enter == start.code \o <<store, goto>>
            test == end.code \o <<load, compare, jump>>
<1>1. /\ ast[pos].node = "for" /\ Known /\ pos \in Nat /\ m \in Nat
      /\ Gen!BlockCount = m /\ NewestBlocks \in Seq(Code)
  <2>1. ast[pos].node = "for"
    BY Zenon DEF Gen!VisitForLoopStatement, Gen!At, Gen!node
  <2>2. pos \in Nat /\ NewestBlocks \in Seq(Code) /\ insert.function = Len(functions)
    BY BodyPlace, AnalyzedFacts, ReadableState DEF InBody, Readable
  <2>. QED  BY <2>1, <2>2, LenProperties DEF InBody, Gen!BlockCount, Gen!Here, NewestBlocks
<1>2. /\ start.code \in Seq(Fresh) /\ end.code \in Seq(Fresh)
      /\ PlainNode(pos) =>
           /\ OfType(start, TypeOf(first, Environment(pos)), insert.function, Fresh)
           /\ OfType(end, TypeOf(last, Environment(pos)), insert.function, Fresh)
  <2>1. /\ first \in Expression /\ first \in ExpressionsOf(ast[pos])
        /\ last \in Expression /\ last \in ExpressionsOf(ast[pos])
    BY <1>1, BodyGoesOn, AnalyzedFacts, NodeFields DEF InBody, ExpressionsOf
  <2>2. lastValue.code = <<>> /\ Gen!Null.code = <<>>
    BY <1>1 DEF Known, LastKnown, Gen!Null, Gen!Constant
  <2>. QED  BY <1>1, <2>1, <2>2, BodyEvaluates
<1>3. \/ Gen!Fail("crashed")
      \/ /\ functions' = Gen!Put(Gen!Put(Gen!NewBlocks(functions, insert.function, 3), insert, enter),
                                 Gen!Block(m + 1), test)
         /\ frames' = Append(frames, Gen!Frame("for", m + 1, m + 3))
         /\ Gen!Evaluated /\ UNCHANGED <<globals, currentLocals, symbols>>
  BY <1>1, Zenon DEF Gen!VisitForLoopStatement, Gen!Here, Gen!node
<1>. HIDE DEF start, end, m
<1>4. PlainNode(pos) => ok
  <2>1. AsksForType(ast[pos])
    BY <1>1 DEF AsksForType
  <2>2. TypeOf(first, Environment(pos)) = "int" /\ TypeOf(last, Environment(pos)) = "int"
    BY <1>1, <2>1, BodyTypes DEF TypeChecked
  <2>. QED
    BY <1>2, <2>2 DEF OfType, Sound, ScalarTypes, IRType, Gen!UsableIn, Gen!IntegerTypes
<1>5. {store, load, compare, goto, jump} \subseteq Fresh
  <2>1. ok \in BOOLEAN /\ (ok \/ ~PlainNode(pos))
    BY <1>4 DEF Gen!UsableIn
  <2>2. {m + 1} \in SUBSET Nat /\ {m + 2, m + 3} \in SUBSET Nat
    BY <1>1
  <2>. HIDE DEF ok
  <2>3. store \in Fresh
    BY <1>1, FreshInstr, InstrNamesFacts, Zenon
  <2>4. load \in Fresh
    BY <1>1, FreshInstr, InstrNamesFacts, Zenon
  <2>5. compare \in Fresh
    BY <1>1, <2>1, FreshInstr, InstrNamesFacts, Zenon
  <2>6. goto \in Fresh
    BY <1>1, <2>2, FreshBranch
  <2>7. jump \in Fresh
    BY <1>1, <2>2, FreshBranch
  <2>. QED  BY <2>3, <2>4, <2>5, <2>6, <2>7, Zenon
<1>. HIDE DEF store, load, compare, goto, jump
<1>6. enter \in Seq(Fresh) /\ test \in Seq(Fresh)
  <2>1. <<store, goto>> \in Seq(Fresh)
    BY <1>5
  <2>2. <<load, compare, jump>> \in Seq(Fresh)
    BY <1>5
  <2>3. enter \in Seq(Fresh)
    BY <1>2, <2>1, ConcatProperties
  <2>4. test \in Seq(Fresh)
    BY <1>2, <2>2, ConcatProperties
  <2>. QED  BY <2>3, <2>4
<1>. HIDE DEF test, enter
<1>7. CASE Gen!Fail("crashed")
  BY <1>1, <1>7, FailKnown DEF InBody
<1>8. CASE ~Gen!Fail("crashed")
  <2>1. Grown /\ Headers(functions, functions')
    BY <1>3, <1>6, <1>8, LoopGrows DEF m
  <2>2. Known'
    BY <1>3, <1>8, <2>1, OpeningKnown
  <2>. QED  BY <2>1, <2>2
<1>. QED  BY <1>7, <1>8

LEMMA IfGrows ==
  ASSUME NEW st, InBody(st), TextKept, Gen!VisitIfStatement
  PROVE  Known' /\ Grown
<1>. DEFINE e == ast[pos].expr
            v == Gen!Evaluate(e, lastValue, insert.function)
            gs == Gen!Put(Gen!NewBlocks(functions, insert.function, 1), insert, v.code)
<1>1. /\ ast[pos].node = "if" /\ functions' = gs
      /\ frames' = Append(frames, Gen!Frame("then", 0, 0))
      /\ Gen!Evaluated /\ UNCHANGED <<globals, currentLocals, symbols>>
  BY DEF Gen!VisitIfStatement, Gen!At, Gen!node, Gen!Here
<1>2. v.code \in Seq(Fresh)
  <2>1. e \in Expression /\ e \in ExpressionsOf(ast[pos])
    BY <1>1, BodyGoesOn, AnalyzedFacts, NodeFields DEF InBody, ExpressionsOf
  <2>2. lastValue.code = <<>>
    BY DEF InBody, Known, LastKnown
  <2>. QED  BY <2>1, <2>2, BodyEvaluates
<1>. HIDE DEF v
<1>3. Grows(functions, gs, Fresh) /\ Headers(functions, gs)
  <2>1. 1 \in Nat
    OBVIOUS
  <2>. QED  BY <1>2, <2>1, BranchGrows
<1>. HIDE DEF gs
<1>4. Known'
  BY <1>1, <1>3, OpeningKnown
<1>. QED  BY <1>1, <1>3, <1>4 DEF Grown

LEMMA IfElseGrows ==
  ASSUME NEW st, InBody(st), TextKept, Gen!VisitIfElseStatement
  PROVE  Known' /\ Grown
<1>. DEFINE e == ast[pos].expr
            v == Gen!Evaluate(e, lastValue, insert.function)
            m == Len(NewestBlocks)
            ok == v.type = Gen!I1 /\ Gen!UsableIn(v, insert.function)
            jump == Gen!Branch("condbr", {m + 1, m + 2}, ok)
            code == Append(v.code, jump)
            gs == Gen!Put(Gen!NewBlocks(functions, insert.function, 2), insert, code)
<1>1. /\ ast[pos].node = "ifElse" /\ Known /\ pos \in Nat /\ m \in Nat
      /\ Gen!BlockCount = m /\ NewestBlocks \in Seq(Code)
  <2>1. ast[pos].node = "ifElse"
    BY DEF Gen!VisitIfElseStatement, Gen!At, Gen!node
  <2>2. pos \in Nat /\ NewestBlocks \in Seq(Code) /\ insert.function = Len(functions)
    BY BodyPlace, AnalyzedFacts, ReadableState DEF InBody, Readable
  <2>. QED  BY <2>1, <2>2, LenProperties DEF InBody, Gen!BlockCount, Gen!Here, NewestBlocks
<1>2. /\ v.code \in Seq(Fresh)
      /\ PlainNode(pos) => OfType(v, TypeOf(e, Environment(pos)), insert.function, Fresh)
  <2>1. e \in Expression /\ e \in ExpressionsOf(ast[pos])
    BY <1>1, BodyGoesOn, AnalyzedFacts, NodeFields DEF InBody, ExpressionsOf
  <2>2. lastValue.code = <<>>
    BY <1>1 DEF Known, LastKnown
  <2>. QED  BY <1>1, <2>1, <2>2, BodyEvaluates
<1>3. /\ functions' = gs
      /\ frames' = Append(frames, Gen!Frame("thenElse", 0, m + 2))
      /\ Gen!Evaluated /\ UNCHANGED <<globals, currentLocals, symbols>>
  BY <1>1 DEF Gen!VisitIfElseStatement, Gen!Here, Gen!node
<1>. HIDE DEF v, m
<1>4. PlainNode(pos) => ok
  <2>1. AsksForType(ast[pos])
    BY <1>1 DEF AsksForType
  <2>2. TypeOf(e, Environment(pos)) = "bool"
    BY <1>1, <2>1, BodyTypes DEF TypeChecked
  <2>. QED
    BY <1>2, <2>2 DEF OfType, Sound, ScalarTypes, IRType, Gen!UsableIn
<1>5. code \in Seq(Fresh)
  <2>1. ok \in BOOLEAN /\ (ok \/ ~PlainNode(pos))
    BY <1>4 DEF Gen!UsableIn
  <2>2. {m + 1, m + 2} \in SUBSET Nat
    BY <1>1
  <2>. HIDE DEF ok
  <2>3. jump \in Fresh
    BY <1>1, <2>1, <2>2, FreshBranch
  <2>. HIDE DEF jump
  <2>. QED  BY <1>2, <2>3, AppendProperties
<1>. HIDE DEF code
<1>6. Grows(functions, gs, Fresh) /\ Headers(functions, gs)
  <2>1. 2 \in Nat
    OBVIOUS
  <2>. QED  BY <1>5, <2>1, BranchGrows
<1>. HIDE DEF gs
<1>7. Known'
  BY <1>3, <1>6, OpeningKnown
<1>. QED  BY <1>3, <1>6, <1>7 DEF Grown

LEMMA EndBodyGrows ==
  ASSUME NEW st, InBody(st), NEW s, NEW t, AtNode(s, t), TextKept, Gen!EndBody
  PROVE  Known' /\ Grown
<1>. DEFINE n    == Len(frames)
            f    == frames[n]
            rest == Front(frames)
            back == Gen!Branch("br", {f.back}, TRUE)
            add  == Gen!Instr("arith", "", TRUE)
            store == Gen!Instr("store", "loopVar", TRUE)
            code == CASE f.kind = "for"   -> Append(<<add, store>>, back)
                      [] f.kind = "while" -> <<back>>
                      [] OTHER            -> <<>>
            else == [f EXCEPT !.kind = "else", !.next = 0]
<1>1. /\ ast[pos].node = "end" /\ f.kind # "function"
      /\ functions' = Gen!Put(functions, insert, code)
      /\ currentLocals' = f.locals
      /\ frames' = IF f.kind = "thenElse" THEN Append(rest, else) ELSE rest
      /\ pos' = pos + 1 /\ UNCHANGED <<globals, symbols, lastValue>>
  BY Zenon DEF Gen!EndBody, Gen!At, Gen!node, Gen!Proceed, Front
<1>2. /\ frames \in Seq(FrameSet) /\ frames # <<>> /\ n \in Nat /\ n > 1 /\ pos \in Nat
  BY <1>1, EndFacts, AnalyzedFacts, ReadableState, Zenon DEF InBody, GenTypeOK, Readable
<1>3. f \in FrameSet /\ f.locals = currentLocals
  <2>1. n \in 1..n /\ n \in 2..n
    BY <1>2
  <2>. QED  BY <1>2, <2>1, ElementOfSeq, LocalsOfFrames
<1>4. code \in Seq(Fresh)
  <2>1. {f.back} \in SUBSET Nat
    BY <1>3 DEF FrameSet
  <2>2. back \in Fresh
    BY <1>2, <2>1, FreshBranch
  <2>3. add \in Fresh
    BY <1>2, FreshInstr, InstrNamesFacts, Zenon
  <2>4. store \in Fresh
    BY <1>2, FreshInstr, InstrNamesFacts, Zenon
  <2>. HIDE DEF back, add, store, f
  <2>5. <<add, store>> \in Seq(Fresh) /\ <<back>> \in Seq(Fresh) /\ <<>> \in Seq(Fresh)
    BY <2>2, <2>3, <2>4
  <2>6. Append(<<add, store>>, back) \in Seq(Fresh)
    BY <2>2, <2>5, AppendProperties
  <2>. QED  BY <2>5, <2>6
<1>. HIDE DEF code
<1>5. Grown /\ Headers(functions, functions')
  BY <1>1, <1>4, BodyPut
<1>6. else.locals = currentLocals
  BY <1>3 DEF FrameSet
<1>7. ASSUME NEW i \in 2..Len(frames') PROVE frames'[i].locals = currentLocals
  <2>. HIDE DEF f, else
  <2>1. /\ rest \in Seq(FrameSet) /\ Len(rest) = n - 1
        /\ \A j \in 1..n - 1 : rest[j] = frames[j]
    BY <1>2, FrontFacts
  <2>. HIDE DEF rest
  <2>2. CASE f.kind # "thenElse"
    <3>1. i \in 1..n - 1 /\ i \in 2..n
      BY <1>1, <1>2, <2>1, <2>2
    <3>. QED  BY <1>1, <2>1, <2>2, <3>1, LocalsOfFrames
  <2>3. CASE f.kind = "thenElse"
    <3>1. frames' = Append(rest, else)
      BY <1>1, <2>3
    <3>2. /\ Len(frames') = n /\ frames'[n] = else
          /\ \A j \in 1..n - 1 : frames'[j] = rest[j]
      BY <1>2, <2>1, <3>1
    <3>3. i = n \/ (i \in 1..n - 1 /\ i \in 2..n)
      BY <1>2, <3>2
    <3>. QED  BY <1>6, <2>1, <3>2, <3>3, LocalsOfFrames
  <2>. QED  BY <2>2, <2>3
<1>8. Known'
  BY <1>1, <1>3, <1>5, <1>7, StatementKnown
<1>. QED  BY <1>5, <1>8

LEMMA EndFunctionGrows ==
  ASSUME NEW st, InBody(st), TextKept, Gen!EndFunctionDefinition
  PROVE  Known' /\ Grown
<1>. DEFINE f == Len(functions)
            ret == Gen!Instr("ret", "", TRUE)
            at == Gen!EntryOf(insert.function)
            code == IF Gen!Terminated(functions[insert.function].blocks[1]) THEN <<>> ELSE <<ret>>
            gs == Gen!Put(functions, at, code)
<1>1. /\ ast[pos].node = "end" /\ functions' = gs /\ frames' = <<>>
      /\ pos' = pos + 1 /\ UNCHANGED <<globals, currentLocals, symbols, lastValue>>
  BY Zenon DEF Gen!EndFunctionDefinition, Gen!At, Gen!node, Gen!Proceed, Gen!Here
<1>2. /\ f \in 1..Len(functions) /\ insert.function = f
      /\ functions \in Seq(Function) /\ pos \in Nat
  BY BodyPlace, AnalyzedFacts, ReadableState DEF InBody, GenTypeOK, Readable
<1>3. code \in Seq(Fresh)
  <2>1. ret \in Fresh
    BY <1>2, FreshInstr, InstrNamesFacts, Zenon
  <2>. HIDE DEF ret
  <2>2. <<ret>> \in Seq(Fresh) /\ <<>> \in Seq(Fresh)
    BY <2>1
  <2>. QED  BY <2>2
<1>. HIDE DEF code, f
<1>4. Grows(functions, gs, Fresh) /\ Headers(functions, gs)
  <2>1. at.function = f /\ at.block = 1
    BY <1>2 DEF Gen!EntryOf
  <2>. HIDE DEF at
  <2>2. 1 \in 1..Len(functions[f].blocks)
    BY <1>2, BlocksFacts
  <2>. QED  BY <1>2, <1>3, <2>1, <2>2, FreshIsCode, PutGrows
<1>. HIDE DEF gs
<1>5. \A i \in 2..Len(frames') : frames'[i].locals = currentLocals
  BY <1>1
<1>6. Known'
  BY <1>1, <1>4, <1>5, StatementKnown
<1>. QED  BY <1>1, <1>4, <1>6 DEF Grown

-----------------------------------------------------------------------------
(***************************************************************************)
(* Between functions.                                                      *)
(***************************************************************************)
Outside(st) ==
  /\ Analyzed /\ GenTypeOK /\ InsertOk /\ Reached(st) /\ Known
  /\ pos \in 1..Len(ast) /\ frames = <<>>

LEMMA OutsideFacts ==
  ASSUME NEW st, Outside(st)
  PROVE  /\ ast \in Seq(Node) /\ Len(ast) \in Nat /\ pos \in Nat /\ ast[pos] \in Node
         /\ functions \in Seq(Function) /\ Len(functions) \in Nat
         /\ SymbolsOk(symbols, Len(functions))
BY AnalyzedFacts, LenProperties, ReadableState DEF Outside, GenTypeOK, Readable

\* What is known between functions, but for the value that is left over.
LEMMA OutsideKnown ==
  ASSUME NEW st, Outside(st), GoesOn, frames' = <<>>, UNCHANGED <<globals, currentLocals>>,
         \A i \in pos..pos' - 1 : ast[i].node # "declaration",
         \A i \in 1..Len(functions) : /\ functions'[i].node = functions[i].node
                                      /\ functions'[i].params = functions[i].params,
         \A n \in Gen!SymbolNames \ {"main"} :
            symbols'[n] = symbols[n] \/ Harmless(n, symbols'[n]),
         LastKnown'
  PROVE  Known'
<1>1. Known /\ GenTypeOK
  BY DEF Outside
<1>2. LocalsKnown'
  <2>1. \A i \in 2..Len(frames') : frames'[i].locals = currentLocals
    OBVIOUS
  <2>. QED  BY <1>1, <2>1, LocalsKept DEF Known
<1>3. GlobalsKnown'
  BY <1>1, GlobalsKept DEF Known
<1>4. BodyKnown'
  BY DEF BodyKnown
<1>5. SymbolsKnown'
  BY <1>1, SymbolsKept DEF Known
<1>. QED  BY <1>2, <1>3, <1>4, <1>5 DEF Known

\* The next node is the next of the text.
LEMMA NextNode ==
  ASSUME NEW st, Outside(st), TextKept, pos' = pos + 1
  PROVE  GoesOn /\ pos' \in Nat /\ \A i \in pos..pos' - 1 : i = pos
<1>1. pos \in Nat /\ pos + 1 \in Nat /\ pos < pos + 1 /\ \A i \in pos..pos + 1 - 1 : i = pos
  BY OutsideFacts
<1>. QED  BY <1>1 DEF GoesOn

LEMMA DeclarationGrows ==
  ASSUME NEW st, Outside(st), TextKept, Gen!VisitDeclaration
  PROVE  Known' /\ Grown
<1>. DEFINE d == ast[pos]
            name == d.name
<1>1. /\ d.node = "declaration" /\ Known /\ GenTypeOK
  BY DeclarationVisits DEF Outside
<1>2. name \in Names /\ d.type \in {"int", "float", "string", "bool", "array"}
  BY <1>1, OutsideFacts, NodeFields
<1>3. CASE Gen!Fail("crashed")
  BY <1>1, <1>3, FailKnown
<1>4. CASE /\ d.type = "array" /\ pos' = pos + 1 /\ lastValue' = Gen!Null
           /\ UNCHANGED <<globals, currentLocals, functions, symbols, frames>>
  <2>1. /\ GoesOn /\ pos \in Nat /\ pos' = pos + 1 /\ ast' = ast /\ frames = <<>> /\ frames' = <<>>
        /\ \A i \in 1..pos' - 1 : i \in 1..pos - 1 \/ i = pos
        /\ 1..pos - 1 \subseteq 1..pos' - 1
    BY <1>4, NextNode, OutsideFacts DEF TextKept, Outside
  <2>2. LocalsKnown'
    <3>1. \A i \in 2..Len(frames') : frames'[i].locals = currentLocals
      BY <2>1
    <3>. QED  BY <1>1, <1>4, <2>1, <3>1, LocalsKept DEF Known
  <2>3. GlobalsKnown'
    <3>1. /\ \A i, n : Declared(i, n)' = Declared(i, n)
          /\ \A i : Gen!GlobalValueType(ast[i])' = Gen!GlobalValueType(ast[i])
      BY <2>1 DEF Declared, Gen!GlobalValueType
    <3>2. GlobalsKnown /\ globals' = globals
      BY <1>1, <1>4 DEF Known
    <3>3. ASSUME NEW n \in Names, globals[n] # Gen!NoType
          PROVE  \E i \in 1..pos' - 1 : Declared(i, n) /\ globals[n] = Gen!GlobalValueType(ast[i])
      BY <2>1, <3>2, <3>3 DEF GlobalsKnown
    <3>4. ASSUME NEW i \in 1..pos' - 1, ast[i].node = "declaration", ast[i].type # "array"
          PROVE  globals[ast[i].name] # Gen!NoType
      BY <1>4, <2>1, <3>2, <3>4 DEF GlobalsKnown
    <3>. HIDE DEF d
    <3>. QED  BY <2>1, <3>1, <3>2, <3>3, <3>4 DEF GlobalsKnown, Gen!NoType
  <2>4. BodyKnown'
    BY <2>1 DEF BodyKnown
  <2>5. SymbolsKnown'
    BY <1>1, <1>4, <2>1, SymbolsKept DEF Known
  <2>6. LastKnown'
    BY <1>1, <1>4, <2>1, LastKept DEF Known
  <2>. QED  BY <1>4, <2>2, <2>3, <2>4, <2>5, <2>6, GrowsNot DEF Known, Grown
<1>5. CASE /\ globals' = [globals EXCEPT ![name] = Gen!GlobalValueType(d)]
           /\ symbols' = Gen!Claim(symbols, name, Gen!Symbol("global", 0))
           /\ lastValue' \in {lastValue, Gen!Null}
           /\ pos' = pos + 1 /\ UNCHANGED <<currentLocals, functions, frames>>
  <2>1. /\ globals' = [globals EXCEPT ![name] = Gen!GlobalValueType(d)]
        /\ symbols' = Gen!Claim(symbols, name, Gen!Symbol("global", 0))
        /\ lastValue' \in {lastValue, Gen!Null}
        /\ pos' = pos + 1 /\ UNCHANGED <<currentLocals, functions, frames>>
    BY <1>5
  <2>2. GoesOn /\ pos \in Nat /\ pos' = pos + 1 /\ ast' = ast /\ frames = <<>>
    BY <2>1, NextNode, OutsideFacts DEF TextKept, Outside
  <2>3. LocalsKnown'
    <3>1. \A i \in 2..Len(frames') : frames'[i].locals = currentLocals
      BY <2>1, <2>2
    <3>. QED  BY <1>1, <2>1, <2>2, <3>1, LocalsKept DEF Known
  <2>4. GlobalsKnown'
    <3>1. /\ \A i, n : Declared(i, n)' = Declared(i, n)
          /\ \A i : Gen!GlobalValueType(ast[i])' = Gen!GlobalValueType(ast[i])
      BY <2>2 DEF Declared, Gen!GlobalValueType
    <3>2. \A i \in 1..pos' - 1 : i \in 1..pos - 1 \/ i = pos
      BY <2>2
    <3>3. pos \in 1..pos' - 1 /\ 1..pos - 1 \subseteq 1..pos' - 1
      BY <2>2, OutsideFacts DEF Outside
    <3>4. Gen!GlobalValueType(d) # Gen!NoType
      BY <1>2 DEF Gen!GlobalValueType, Gen!NoType, Gen!I32, Gen!Float, Gen!I1, Gen!Bytes,
         Gen!ArrayOf
    <3>5. Declared(pos, name)
      BY <1>1 DEF Declared
    <3>6. \A n \in Names : globals'[n] = IF n = name THEN Gen!GlobalValueType(d) ELSE globals[n]
      BY <1>1, <2>1 DEF GenTypeOK
    <3>7. ASSUME NEW n \in Names, globals'[n] # Gen!NoType
          PROVE  \E i \in 1..pos' - 1 : Declared(i, n) /\ globals'[n] = Gen!GlobalValueType(ast[i])
      <4>1. CASE n = name
        BY <3>3, <3>5, <3>6, <4>1
      <4>2. CASE n # name
        <5>1. \E i \in 1..pos - 1 : Declared(i, n) /\ globals[n] = Gen!GlobalValueType(ast[i])
          BY <1>1, <3>6, <3>7, <4>2 DEF Known, GlobalsKnown
        <5>. QED  BY <3>3, <3>6, <4>2, <5>1
      <4>. QED  BY <4>1, <4>2
    <3>8. ASSUME NEW i \in 1..pos' - 1, ast[i].node = "declaration", ast[i].type # "array"
          PROVE  globals'[ast[i].name] # Gen!NoType
      <4>1. CASE i = pos
        BY <1>2, <3>4, <3>6, <4>1
      <4>2. CASE i \in 1..pos - 1
        <5>1. ast[i] \in Node
          BY <4>2, AnalyzedFacts, OutsideFacts DEF Outside
        <5>2. ast[i].name \in Names
          BY <3>8, <5>1, NodeFields
        <5>. QED  BY <1>1, <3>4, <3>6, <3>8, <4>2, <5>2 DEF Known, GlobalsKnown
      <4>. QED  BY <3>2, <4>1, <4>2
    <3>. HIDE DEF d
    <3>. QED  BY <2>2, <3>1, <3>7, <3>8 DEF GlobalsKnown, Gen!NoType
  <2>5. BodyKnown'
    BY <2>1, <2>2 DEF BodyKnown
  <2>6. SymbolsKnown'
    <3>. DEFINE s == Gen!Symbol("global", 0)
    <3>1. name \in Gen!SymbolNames /\ SymbolsOk(symbols, Len(functions)) /\ Len(functions) \in Nat
          /\ 0 \in Nat /\ Len(functions) <= Len(functions)
      BY <1>2, OutsideFacts, SymbolNamesFacts
    <3>. HIDE DEF name, d
    <3>2. LET after == Gen!Claim(symbols, name, Gen!Symbol("global", 0))
          IN  /\ \A m \in Gen!SymbolNames : m # name => after[m] = symbols[m]
              /\ after[name] = IF symbols[name] = Gen!NoSymbol
                                 THEN Gen!Symbol("global", 0) ELSE symbols[name]
      BY <3>1, ClaimFacts
    <3>3. Harmless(name, s)
      BY DEF Harmless, Gen!Symbol
    <3>. HIDE DEF s
    <3>4. /\ \A m \in Gen!SymbolNames : m # name => symbols'[m] = symbols[m]
          /\ symbols'[name] = s \/ symbols'[name] = symbols[name]
      BY <2>1, <3>2 DEF s
    <3>5. \A n \in Gen!SymbolNames \ {"main"} :
            symbols'[n] = symbols[n] \/ Harmless(n, symbols'[n])
      BY <3>3, <3>4
    <3>. QED  BY <1>1, <2>1, <2>2, <3>5, SymbolsKept DEF Known
  <2>7. LastKnown'
    <3>1. lastValue' \in {lastValue, Gen!Null}
      BY <2>1
    <3>. QED  BY <1>1, <2>2, <3>1, LastKept DEF Known
  <2>. QED  BY <2>1, <2>3, <2>4, <2>5, <2>6, <2>7, GrowsNot DEF Known, Grown
<1>. QED  BY <1>3, <1>4, <1>5, DeclarationVisits

LEMMA TopExpressionGrows ==
  ASSUME NEW st, Outside(st), TextKept, Gen!VisitExpression
  PROVE  Known' /\ Grown
<1>. DEFINE v == Gen!Evaluate(ast[pos].expr, lastValue, 0)
<1>1. ast[pos].node = "expression" /\ Known
  BY DEF Gen!VisitExpression, Gen!At, Gen!node, Outside
<1>2. CASE Gen!Fail("crashed")
  BY <1>1, <1>2, FailKnown
<1>3. CASE ~Gen!Fail("crashed")
  <2>1. /\ Gen!IsConstant(v) /\ lastValue' = v /\ pos' = pos + 1 /\ frames = <<>>
        /\ UNCHANGED <<globals, currentLocals, functions, symbols, frames>>
    BY <1>3 DEF Gen!VisitExpression, Gen!node, Gen!Proceed
  <2>. HIDE DEF v
  <2>2. GoesOn /\ \A i \in pos..pos' - 1 : ast[i].node # "declaration"
    BY <1>1, <2>1, NextNode
  <2>3. LastKnown'
    BY <2>1 DEF LastKnown, Gen!IsConstant
  <2>4. Known'
    BY <2>1, <2>2, <2>3, OutsideKnown
  <2>. QED  BY <2>1, <2>4, GrowsNot DEF Grown
<1>. QED  BY <1>2, <1>3

\* No declaration follows a function.
LEMMA SkippedGrows ==
  ASSUME NEW st, Outside(st), TextKept, Gen!VisitFunctionDefinition, ~Gen!Supported(ast[pos])
  PROVE  Known' /\ Grown
<1>. DEFINE j == Gen!NextItem(pos)
<1>1. /\ ast[pos].node = "function" /\ Known
      /\ Nested(ast, st) /\ Ordered(ast, st) /\ Analyzed
      /\ pos' = j /\ lastValue' = Gen!Null
      /\ UNCHANGED <<globals, currentLocals, functions, symbols, frames>>
      /\ frames = <<>> /\ pos \in 1..Len(ast)
  BY DEF Gen!VisitFunctionDefinition, Gen!At, Gen!node, Outside, Reached
<1>2. /\ j \in pos + 1..Len(ast) + 1 /\ pos \in Nat /\ Len(ast) \in Nat
  BY <1>1, OutsideFacts, NextItemFacts
<1>. HIDE DEF j
<1>3. GoesOn
  BY <1>1, <1>2 DEF GoesOn
<1>4. ASSUME NEW i \in pos..pos' - 1, ast[i].node = "declaration" PROVE FALSE
  <2>1. i \in 1..Len(ast) /\ (i = pos \/ pos \in 1..i - 1)
    BY <1>1, <1>2
  <2>2. \A f \in 1..i - 1 : ast[f].node \notin {"function", "call"}
    BY <1>1, <1>4, <2>1, LeadingFirst
  <2>. QED  BY <1>1, <1>4, <2>1, <2>2
<1>5. LastKnown'
  <2>1. lastValue' \in {lastValue, Gen!Null}
    BY <1>1
  <2>. QED  BY <1>1, <1>3, <2>1, LastKept DEF Known
<1>6. Known'
  BY <1>1, <1>3, <1>4, <1>5, OutsideKnown
<1>. QED  BY <1>1, <1>6, GrowsNot DEF Grown

\* A function that is generated starts with the stores of its parameters.
LEMMA FunctionGrows ==
  ASSUME NEW st, Outside(st), TextKept, Gen!VisitFunctionDefinition, Gen!Supported(ast[pos])
  PROVE  Known' /\ Grown
<1>. DEFINE d == ast[pos]
            name == d.name
            ps == d.parameters
            count == Len(functions)
            index == count + 1
            store(i) == Gen!Instr("store", Gen!LLVMNames(d)[i], TRUE)
            stores == [i \in 1..Len(ps) |-> store(i)]
            params == [i \in 1..Len(ps) |-> Gen!I32]
            result == Gen!ReturnType(d.returnType)
            new == Gen!NewFunction(pos, result, params)
            gs == Append(functions, new)
            at == Gen!EntryOf(index)
            frame == Gen!Frame("function", 0, 0)
<1>1. /\ d.node = "function" /\ Known /\ GenTypeOK
      /\ functions' = Gen!Put(gs, at, stores)
      /\ symbols' = Gen!Claim(symbols, name, Gen!Symbol("function", index))
      /\ currentLocals' = [n \in Names |-> IF n \in Gen!FiledNames(d)
                                             THEN index ELSE currentLocals[n]]
      /\ frames' = <<frame>>
      /\ pos' = pos + 1 /\ UNCHANGED <<globals, lastValue>>
  BY DEF Gen!VisitFunctionDefinition, Gen!At, Gen!node, Gen!Proceed, Outside
<1>2. /\ name \in Names /\ ps \in Seq(ParamInfo) /\ d.returnType \in ReturnTypes
      /\ pos \in Nat /\ count \in Nat /\ functions \in Seq(Function) /\ Len(ps) \in Nat
      /\ SymbolsOk(symbols, count)
  <2>1. name \in Names /\ ps \in Seq(ParamInfo) /\ d.returnType \in ReturnTypes
    BY <1>1, OutsideFacts, NodeFields
  <2>. HIDE DEF ps
  <2>. QED  BY <2>1, OutsideFacts, LenProperties
<1>3. GoesOn /\ ast' = ast /\ \A i \in pos..pos' - 1 : i = pos
  BY <1>1, NextNode DEF TextKept
<1>4. stores \in Seq(Fresh)
  <2>. HIDE DEF ps
  <2>1. ASSUME NEW i \in 1..Len(ps) PROVE store(i) \in Fresh
    <3>1. d \in Node
      BY OutsideFacts DEF Outside
    <3>2. Gen!LLVMNames(d)[i] \in AllocaNames
      BY <2>1, <3>1, AllocaIsNamed DEF ps
    <3>3. Gen!LLVMNames(d)[i] \in InstrNames
      BY <3>2 DEF InstrNames
    <3>. QED  BY <1>2, <3>3, FreshInstr, Zenon
  <2>. HIDE DEF store
  <2>. QED  BY <1>2, <2>1
<1>. HIDE DEF stores
<1>5. /\ gs \in Seq(Function) /\ Grows(functions, gs, Fresh) /\ Len(gs) = index
      /\ \A i \in 1..count : gs[i] = functions[i]
      /\ gs[index].node = pos /\ gs[index].result = result /\ gs[index].params = params
      /\ index \in 1..Len(gs)
  <2>1. params \in Seq(ValueTypes)
    <3>1. Gen!I32 \in ValueTypes
      BY DEF ValueTypes
    <3>. HIDE DEF ps
    <3>. QED  BY <1>2, <3>1
  <2>2. result \in ValueTypes
    BY <1>2 DEF ReturnTypes, Gen!ReturnType, ValueTypes
  <2>0. functions \in Seq(Function) /\ pos \in Nat
    BY <1>2
  <2>. HIDE DEF params, result, d, ps
  <2>3. Grows(functions, gs, Fresh)
    BY <1>1, <1>2, <2>1, <2>2, NewFunctionGrows
  <2>4. /\ gs \in Seq(Function) /\ Len(gs) = count + 1 /\ gs[count + 1] = new
        /\ \A i \in 1..count : gs[i] = functions[i]
        /\ new.node = pos /\ new.result = result /\ new.params = params
    <3>1. LET m == Gen!NewFunction(pos, result, params)
              hs == Append(functions, m)
          IN  /\ hs \in Seq(Function) /\ Len(hs) = Len(functions) + 1
              /\ hs[Len(functions) + 1] = m
              /\ \A i \in 1..Len(functions) : hs[i] = functions[i]
              /\ m.node = pos /\ m.result = result /\ m.params = params
      BY <2>0, <2>1, <2>2, NewFunctionFacts
    <3>. QED  BY <3>1
  <2>. HIDE DEF gs, new, count
  <2>. QED  BY <1>2, <2>3, <2>4
<1>. HIDE DEF gs
<1>6. Grows(gs, functions', Fresh) /\ Headers(gs, functions')
  <2>1. at.function = index /\ at.block = 1
    BY DEF Gen!EntryOf
  <2>. HIDE DEF at, index
  <2>2. 1 \in 1..Len(gs[index].blocks)
    BY <1>5, BlocksFacts
  <2>. QED  BY <1>1, <1>4, <1>5, <2>1, <2>2, FreshIsCode, PutGrows
<1>7. /\ Len(functions') = index /\ index \in Nat /\ index # 0
      /\ functions'[index].node = pos /\ functions'[index].result = result
      /\ functions'[index].params = params
      /\ \A i \in 1..count : /\ functions'[i].node = functions[i].node
                             /\ functions'[i].params = functions[i].params
  <2>1. 1..count \subseteq 1..Len(gs) /\ index \in Nat /\ index # 0
    BY <1>2, <1>5
  <2>. HIDE DEF index, params, result, count
  <2>. QED  BY <1>5, <1>6, <2>1 DEF Headers
<1>8. pos \in 1..pos' - 1 /\ 1..pos - 1 \subseteq 1..pos' - 1
  BY <1>1, <1>2, <1>3, OutsideFacts DEF Outside
<1>9. LocalsKnown'
  <2>1. \A f, n : Files(f, n)' = Files(f, n)
    BY <1>3 DEF Files, Generated, Gen!Supported
  <2>2. ASSUME NEW n \in Names, currentLocals'[n] # 0
        PROVE  \E f \in 1..pos' - 1 : Files(f, n)
    <3>1. CASE n \in Gen!FiledNames(d)
      <4>1. Files(pos, n)
        BY <1>1, <3>1 DEF Files, Generated
      <4>. QED  BY <1>8, <4>1
    <3>2. CASE n \notin Gen!FiledNames(d)
      <4>1. currentLocals[n] # 0
        BY <1>1, <2>2, <3>2
      <4>2. \E f \in 1..pos - 1 : Files(f, n)
        BY <1>1, <4>1 DEF Known, LocalsKnown
      <4>. QED  BY <1>8, <4>2
    <3>. QED  BY <3>1, <3>2
  <2>3. \A i \in 2..Len(frames') : frames'[i].locals = currentLocals'
    <3>. HIDE DEF frame
    <3>1. Len(frames') = 1
      BY <1>1
    <3>. QED  BY <3>1
  <2>. QED  BY <2>1, <2>2, <2>3 DEF LocalsKnown
<1>10. GlobalsKnown'
  <2>1. \A i \in pos..pos' - 1 : ast[i].node # "declaration"
    BY <1>1, <1>3
  <2>. QED  BY <1>1, <1>3, <2>1, GlobalsKept DEF Known
<1>11. BodyKnown'
  <2>1. /\ \A f : Generated(f)' = Generated(f)
        /\ \A f : Gen!FiledNames(ast[f])' = Gen!FiledNames(ast[f])
        /\ \A f : Gen!ReturnType(ast[f].returnType)' = Gen!ReturnType(ast[f].returnType)
    BY <1>3 DEF Generated, Gen!Supported, Gen!ReturnType, Gen!I32,
       Gen!Float, Gen!I1, Gen!Ptr
  <2>2. Generated(pos) /\ pos + 1..pos' - 1 = {}
    BY <1>1, <1>2 DEF Generated
  <2>3. \A n \in Gen!FiledNames(d) \cap Names : currentLocals'[n] = index
    BY <1>1
  <2>4. \E f \in 1..pos' - 1 :
          /\ Generated(f)
          /\ \A k \in f + 1..pos' - 1 : ast'[k].node \notin {"function", "call", "declaration"}
          /\ functions'[Len(functions')].node = f
          /\ functions'[Len(functions')].result = Gen!ReturnType(ast[f].returnType)
          /\ \A n \in Gen!FiledNames(ast[f]) \cap Names : currentLocals'[n] = Len(functions')
    BY <1>7, <1>8, <2>2, <2>3
  <2>. QED  BY <2>1, <2>4 DEF BodyKnown
<1>12. SymbolsKnown'
  <2>. DEFINE s == Gen!Symbol("function", index)
  <2>1. /\ name \in Gen!SymbolNames /\ index \in Nat /\ count <= index /\ index \in 1..index
    BY <1>2, SymbolNamesFacts
  <2>2. /\ ast'[pos].node = "function" /\ ast'[pos].name = name
        /\ functions'[index].node = pos
        /\ functions'[index].params = [i \in 1..Len(ast'[pos].parameters) |-> Gen!I32]
    BY <1>1, <1>3, <1>7
  <2>. HIDE DEF name, index, d, count
  <2>3. LET after == Gen!Claim(symbols, name, Gen!Symbol("function", index))
        IN  /\ \A m \in Gen!SymbolNames : m # name => after[m] = symbols[m]
            /\ after[name] = IF symbols[name] = Gen!NoSymbol
                               THEN Gen!Symbol("function", index) ELSE symbols[name]
    BY <1>2, <2>1, ClaimFacts
  <2>4. /\ \A m \in Gen!SymbolNames : m # name => symbols'[m] = symbols[m]
        /\ symbols'[name] = s \/ symbols'[name] = symbols[name]
        /\ s.kind = "function" /\ s.index = index
    BY <1>1, <2>3 DEF Gen!Symbol
  <2>. HIDE DEF s
  <2>5. ASSUME NEW n \in Gen!SymbolNames \ {"main"}, symbols'[n] # symbols[n]
        PROVE  symbols'[n].kind = "function" /\ Defined(n, symbols[n].index)'
    <3>1. n = name /\ symbols'[n] = s
      BY <2>4, <2>5
    <3>2. symbols'[n].kind = "function" /\ symbols'[n].index = index
      BY <2>4, <3>1
    <3>3. /\ pos \in 1..pos' - 1
          /\ ast'[pos].node = "function" /\ ast'[pos].name = n
          /\ functions'[symbols'[n].index].node = pos
          /\ functions'[symbols'[n].index].params
               = [i \in 1..Len(ast'[pos].parameters) |-> Gen!I32]
      BY <1>8, <2>2, <3>1, <3>2
    <3>. QED  BY <3>2, <3>3 DEF Defined, Gen!I32
  <2>6. \A i \in 1..Len(functions) : /\ functions'[i].node = functions[i].node
                                     /\ functions'[i].params = functions[i].params
    BY <1>7 DEF count
  <2>. QED  BY <1>1, <1>3, <2>5, <2>6, SymbolsKept DEF Known
<1>13. LastKnown'
  <2>1. lastValue' \in {lastValue, Gen!Null}
    BY <1>1
  <2>. QED  BY <1>1, <1>3, <2>1, LastKept DEF Known
<1>14. Grown
  BY <1>5, <1>6, GrowsOn DEF Grown
<1>. QED  BY <1>9, <1>10, <1>11, <1>12, <1>13, <1>14 DEF Known

LEMMA MainSymbolsKeep ==
  ASSUME GenTypeOK
  PROVE  \A n \in Gen!SymbolNames \ {"main"} : Gen!MainSymbols[n] = symbols[n]
<1>. DEFINE count == Len(functions)
<1>1. SymbolsOk(symbols, count) /\ count \in Nat /\ count + 1 \in Nat /\ count <= count + 1
      /\ count + 1 \in 1..count + 1
  BY LenProperties DEF GenTypeOK
<1>. HIDE DEF count
<1>2. LET after == Gen!Claim(symbols, "main", Gen!Symbol("function", count + 1))
      IN  \A m \in Gen!SymbolNames : m # "main" => after[m] = symbols[m]
  BY <1>1, ClaimFacts, SymbolNamesFacts
<1>. QED  BY <1>2 DEF Gen!MainSymbols, count

\* Functions keep what they are when code is added to main.
LEMMA MainGrows ==
  ASSUME GenTypeOK, NEW code \in Seq(Fresh),
         functions' = Gen!Put(Gen!WithMain, Gen!EntryOf(Gen!MainIndex), code),
         symbols' = Gen!MainSymbols
  PROVE  /\ Grown
         /\ \A i \in 1..Len(functions) : /\ functions'[i].node = functions[i].node
                                         /\ functions'[i].params = functions[i].params
         /\ \A n \in Gen!SymbolNames \ {"main"} : symbols'[n] = symbols[n]
<1>. DEFINE fs == Gen!WithMain
            f  == Gen!MainIndex
            at == Gen!EntryOf(f)
            count == Len(functions)
            none == <<>>
            new == Gen!NewFunction(0, Gen!I32, none)
<1>1. /\ fs \in Seq(Function) /\ f \in 1..Len(fs) /\ count \in Nat
      /\ Len(fs) = IF symbols["main"].kind = "function" THEN count ELSE count + 1
      /\ \A i \in 1..count : fs[i] = functions[i]
      /\ functions \in Seq(Function)
  BY MainPlace DEF GenTypeOK
<1>2. Grows(functions, fs, Fresh)
  <2>1. 0 \in Nat /\ Gen!I32 \in ValueTypes /\ none \in Seq(ValueTypes)
    BY EmptySeq DEF ValueTypes
  <2>. HIDE DEF none
  <2>2. Grows(functions, Append(functions, new), Fresh)
    BY <1>1, <2>1, NewFunctionGrows
  <2>. QED  BY <1>1, <2>2, GrowsNot DEF Gen!WithMain, none
<1>3. at.function = f /\ at.block = 1
  BY DEF Gen!EntryOf
<1>. HIDE DEF fs, f, at
<1>4. 1 \in 1..Len(fs[f].blocks)
  BY <1>1, BlocksFacts
<1>5. Grows(fs, functions', Fresh) /\ Headers(fs, functions')
  <2>1. functions' = Gen!Put(fs, at, code)
    BY DEF fs, at, f
  <2>. QED  BY <1>1, <1>3, <1>4, <2>1, FreshIsCode, PutGrows
<1>6. 1..count \subseteq 1..Len(fs)
  BY <1>1
<1>7. \A n \in Gen!SymbolNames \ {"main"} : symbols'[n] = symbols[n]
  BY MainSymbolsKeep
<1>. HIDE DEF count
<1>8. \A i \in 1..count : /\ functions'[i].node = functions[i].node
                          /\ functions'[i].params = functions[i].params
  BY <1>1, <1>5, <1>6 DEF Headers
<1>9. Grown
  BY <1>2, <1>5, GrowsOn, Zenon DEF Grown
<1>. QED  BY <1>7, <1>8, <1>9 DEF count

\* A plain call has the function's number of arguments, all of them integers.
LEMMA PlainCallMatches ==
  ASSUME NEW st, Outside(st), ast[pos].node = "call", PlainNode(pos),
         NEW callee, callee = Gen!MainSymbols[ast[pos].name],
         callee.kind \in {"function", "library"},
         NEW values, Len(values) = Len(ast[pos].arguments),
         \A i \in 1..Len(values) : OfType(values[i], "int", Gen!MainIndex, Fresh)
  PROVE  Gen!Matches(values, callee, ast[pos].name)
<1>. DEFINE name == ast[pos].name
            count == Len(functions)
<1>1. /\ Analyzed /\ GenTypeOK /\ Known /\ pos \in 1..Len(ast) /\ pos \in Accepted
      /\ SymbolsOk(symbols, count) /\ count \in Nat /\ Len(ast) \in Nat /\ name \in Names
      /\ name \in Gen!SymbolNames
  <2>1. name \in Names
    BY OutsideFacts, NodeFields
  <2>. QED  BY <2>1, AnalyzedFacts, OutsideFacts, SymbolNamesFacts DEF Outside
<1>2. PICK d \in 1..pos - 1 : /\ ast[d].node = "function" /\ ast[d].name = name
                              /\ Len(ast[d].parameters) = Len(ast[pos].arguments)
  BY <1>1 DEF Analyzed, CallsInv, CallsAreResolved
<1>3. d \in 1..Len(ast)
  BY <1>1
<1>4. name \notin Gen!Allocators \cup {"main", "printf"}
  <2>1. NoClash /\ d \in NodesOf("function")
    BY <1>2, <1>3 DEF PlainNode, NodesOf
  <2>. QED  BY <1>2, <2>1 DEF NoClash, Clash
<1>5. callee = symbols[name]
  BY <1>1, <1>4, MainSymbolsKeep
<1>6. callee.kind = "function" /\ Defined(name, callee.index) /\ callee.index \in 1..count
  <2>1. name \in Gen!SymbolNames \ {"main"}
    BY <1>1, <1>4
  <2>2. callee.kind = "function"
    BY <1>1, <1>4, <1>5, <2>1 DEF Known, SymbolsKnown
  <2>. QED  BY <1>1, <1>5, <2>1, <2>2 DEF Known, SymbolsKnown, SymbolsOk
<1>. DEFINE index == callee.index
            list == Gen!WithMain[index].params
<1>7. PICK c \in 1..pos - 1 :
        /\ ast[c].node = "function" /\ ast[c].name = name
        /\ functions[index].params = [i \in 1..Len(ast[c].parameters) |-> Gen!I32]
  BY <1>6 DEF Defined
<1>8. c = d
  <2>1. c \in 1..Len(ast)
    BY <1>1
  <2>. QED  BY <1>1, <1>2, <1>3, <1>7, <2>1 DEF Analyzed, CallsInv, FunctionsAreDefinitions
<1>9. Gen!WithMain[index] = functions[index]
  BY <1>1, <1>6, MainPlace
<1>10. Len(ast[d].parameters) \in Nat
  <2>. DEFINE ps == ast[d].parameters
  <2>1. ps \in Seq(ParamInfo)
    BY <1>1, <1>2, <1>3, AnalyzedFacts, NodeFields
  <2>. HIDE DEF ps
  <2>2. Len(ps) \in Nat
    BY <2>1, LenProperties
  <2>. QED  BY <2>2 DEF ps
<1>11. Len(list) = Len(values) /\ \A i \in 1..Len(list) : list[i] = Gen!I32
  <2>. DEFINE k == Len(ast[d].parameters)
  <2>1. list = [i \in 1..k |-> Gen!I32] /\ k \in Nat /\ Len(values) = k
    BY <1>2, <1>7, <1>8, <1>9, <1>10
  <2>. HIDE DEF k, list
  <2>. QED  BY <2>1
<1>12. \A i \in 1..Len(values) : values[i].type = Gen!I32 /\ Gen!UsableIn(values[i], Gen!MainIndex)
  BY DEF OfType, Sound, ScalarTypes, IRType, Gen!UsableIn
<1>. HIDE DEF list, name
<1>13. name # "printf"
  BY <1>4
<1>. QED  BY <1>6, <1>11, <1>12, <1>13, Zenon DEF Gen!Matches, list, name

\* The values of the arguments of the call that is visited, those that are null,
\* and the code up to the first of them.
CallValues ==
  [i \in 1..Len(ast[pos].arguments) |->
     Gen!Evaluate(ast[pos].arguments[i], IF i = 1 THEN lastValue ELSE Gen!Null, Gen!MainIndex)]
CallNulls == {i \in 1..Len(CallValues) : Gen!IsNull(CallValues[i])}
CallUpTo  == IF CallNulls = {} THEN Len(CallValues)
                               ELSE CHOOSE i \in CallNulls : \A j \in CallNulls : i <= j
CallCode  == Gen!CodeOf(CallValues, CallUpTo)

Callee    == Gen!MainSymbols[ast[pos].name]
CallInstr == Gen!Instr("call", ast[pos].name, Gen!Matches(CallValues, Callee, ast[pos].name))
CallLeft  == [type |-> Gen!ResultOf(Callee, ast[pos].name), home |-> Gen!MainIndex, code |-> <<>>]
PutsInMain(code) == functions' = Gen!Put(Gen!WithMain, Gen!EntryOf(Gen!MainIndex), code)

LEMMA CallEmits ==
  ASSUME Gen!VisitFunctionCall
  PROVE  /\ symbols' = Gen!MainSymbols
         /\ \/ /\ Callee.kind \notin {"function", "library"}
               /\ PutsInMain(<<>>) /\ UNCHANGED lastValue
            \/ /\ Callee.kind \in {"function", "library"} /\ CallNulls # {}
               /\ PutsInMain(CallCode) /\ lastValue' = Gen!Null
            \/ /\ Callee.kind \in {"function", "library"} /\ CallNulls = {}
               /\ PutsInMain(Append(CallCode, CallInstr)) /\ lastValue' = CallLeft
         /\ pos' = pos + 1 /\ UNCHANGED <<globals, currentLocals, frames>>
         /\ pos <= Len(ast) /\ ast[pos].node = "call"
<1>. DEFINE d == ast[pos]
            callee == Gen!MainSymbols[d.name]
            values == [i \in 1..Len(d.arguments) |->
                        Gen!Evaluate(d.arguments[i], IF i = 1 THEN lastValue ELSE Gen!Null,
                                     Gen!MainIndex)]
            nulls == {i \in 1..Len(values) : Gen!IsNull(values[i])}
            upTo == IF nulls = {} THEN Len(values) ELSE CHOOSE i \in nulls : \A j \in nulls : i <= j
            code == Gen!CodeOf(values, upTo)
            call == Gen!Instr("call", d.name, Gen!Matches(values, callee, d.name))
            left == [type |-> Gen!ResultOf(callee, d.name), home |-> Gen!MainIndex, code |-> <<>>]
            emit(c) == functions' = Gen!Put(Gen!WithMain, Gen!EntryOf(Gen!MainIndex), c)
<1>1. /\ symbols' = Gen!MainSymbols
      /\ \/ /\ callee.kind \notin {"function", "library"}
            /\ emit(<<>>) /\ UNCHANGED lastValue
         \/ /\ callee.kind \in {"function", "library"} /\ nulls # {}
            /\ emit(code) /\ lastValue' = Gen!Null
         \/ /\ callee.kind \in {"function", "library"} /\ nulls = {}
            /\ emit(Append(code, call)) /\ lastValue' = left
      /\ pos' = pos + 1 /\ UNCHANGED <<globals, currentLocals, frames>>
      /\ pos <= Len(ast) /\ ast[pos].node = "call"
  <2>1. /\ symbols' = Gen!MainSymbols
        /\ pos' = pos + 1 /\ UNCHANGED <<globals, currentLocals, frames>>
        /\ pos <= Len(ast) /\ ast[pos].node = "call"
    BY DEF Gen!VisitFunctionCall, Gen!node, Gen!Proceed, Gen!At
  <2>2. CASE callee.kind \notin {"function", "library"}
    <3>1. emit(<<>>)
      BY <2>2, Zenon DEF Gen!VisitFunctionCall, Gen!node
    <3>2. UNCHANGED lastValue
      BY <2>2, Zenon DEF Gen!VisitFunctionCall, Gen!node
    <3>. QED  BY <2>1, <2>2, <3>1, <3>2, Zenon
  <2>3. CASE callee.kind \in {"function", "library"} /\ nulls # {}
    <3>1. emit(code) /\ lastValue' = Gen!Null
      BY <2>3 DEF Gen!VisitFunctionCall, Gen!node
    <3>. QED  BY <2>1, <2>3, <3>1, Zenon
  <2>4. CASE callee.kind \in {"function", "library"} /\ nulls = {}
    <3>1. emit(Append(code, call)) /\ lastValue' = left
      BY <2>4 DEF Gen!VisitFunctionCall, Gen!node
    <3>. QED  BY <2>1, <2>4, <3>1
  <2>. QED  BY <2>2, <2>3, <2>4
<1>2. values = CallValues
  BY DEF CallValues
<1>. HIDE DEF values
<1>3. nulls = CallNulls /\ callee = Callee
  BY <1>2 DEF CallNulls, Callee
<1>. HIDE DEF nulls
<1>4. upTo = CallUpTo
  BY <1>2, <1>3 DEF CallUpTo
<1>. HIDE DEF upTo
<1>5. code = CallCode /\ call = CallInstr /\ left = CallLeft
  <2>1. code = CallCode
    BY <1>2, <1>4 DEF CallCode
  <2>2. call = CallInstr
    BY <1>2 DEF CallInstr, Callee
  <2>3. left = CallLeft
    BY DEF CallLeft, Callee
  <2>. QED  BY <2>1, <2>2, <2>3
<1>6. \A c : emit(c) <=> PutsInMain(c)
  BY DEF PutsInMain
<1>. HIDE DEF code, call, left, callee, emit
<1>7. CASE callee.kind \notin {"function", "library"} /\ emit(<<>>) /\ UNCHANGED lastValue
  BY <1>1, <1>3, <1>6, <1>7, Zenon
<1>8. CASE callee.kind \in {"function", "library"} /\ nulls # {} /\ emit(code)
             /\ lastValue' = Gen!Null
  <2>1. PutsInMain(CallCode)
    BY <1>5, <1>6, <1>8, Zenon
  <2>. QED  BY <1>1, <1>3, <1>8, <2>1, Zenon
<1>9. CASE callee.kind \in {"function", "library"} /\ nulls = {}
             /\ emit(Append(code, call)) /\ lastValue' = left
  <2>1. PutsInMain(Append(CallCode, CallInstr)) /\ lastValue' = CallLeft
    BY <1>5, <1>6, <1>9, Zenon
  <2>. QED  BY <1>1, <1>3, <1>9, <2>1, Zenon
<1>. QED  BY <1>1, <1>7, <1>8, <1>9, Zenon

\* What the arguments emit.
LEMMA CallEvaluates ==
  ASSUME NEW st, Outside(st), ast[pos].node = "call", NEW S,
         Takes(S, Evaluating, {TRUE}), ~PlainNode(pos) => Takes(S, Evaluating, BOOLEAN)
  PROVE  /\ Len(CallValues) = Len(ast[pos].arguments)
         /\ PlainNode(pos) =>
              \A i \in 1..Len(CallValues) : OfType(CallValues[i], "int", Gen!MainIndex, S)
         /\ CallCode \in Seq(S)
<1>. DEFINE d == ast[pos]
            list == d.arguments
            main == Gen!MainIndex
<1>1. /\ d.node = "call" /\ Analyzed /\ GenTypeOK /\ Known /\ Reached(st) /\ pos \in 1..Len(ast)
      /\ pos \in Nat /\ pos <= Len(ast)
  BY OutsideFacts DEF Outside
<1>2. list \in Seq(Expression)
  BY <1>1, OutsideFacts, NodeFields
<1>4. /\ Len(CallValues) = Len(list) /\ Len(list) \in Nat
      /\ \A i \in 1..Len(CallValues) :
           /\ CallValues[i].code \in Seq(S)
           /\ PlainNode(pos) => OfType(CallValues[i], "int", main, S)
  <2>1. /\ Len(list) \in Nat /\ Len(CallValues) = Len(list)
        /\ \A i \in 1..Len(CallValues) :
             CallValues[i] = Gen!Evaluate(list[i], IF i = 1 THEN lastValue ELSE Gen!Null, main)
    <3>1. Len(list) \in Nat
      <4>. HIDE DEF list
      <4>. QED  BY <1>2, LenProperties
    <3>2. CallValues = [i \in 1..Len(list) |->
                          Gen!Evaluate(list[i], IF i = 1 THEN lastValue ELSE Gen!Null, main)]
      BY DEF CallValues
    <3>. HIDE DEF list, main
    <3>. QED  BY <3>1, <3>2
  <2>2. Reads(Environment(pos), main)
    BY <1>1, ReadsAtCall
  <2>. HIDE DEF main
  <2>3. ASSUME NEW i \in 1..Len(CallValues)
        PROVE  /\ CallValues[i].code \in Seq(S)
               /\ PlainNode(pos) => OfType(CallValues[i], "int", main, S)
    <3>. DEFINE last == IF i = 1 THEN lastValue ELSE Gen!Null
                e == list[i]
    <3>1. e \in Expression
      <4>. HIDE DEF list
      <4>. QED  BY <1>2, <2>1, ElementOfSeq
    <3>2. e \in ExpressionsOf(ast[pos])
      BY <1>1, <2>1 DEF ExpressionsOf
    <3>3. last.code \in Seq(S)
      <4>1. last.code = <<>>
        BY <1>1 DEF Known, LastKnown, Gen!Null, Gen!Constant
      <4>. QED  BY <4>1, EmptySeq
    <3>4. CallValues[i] = Gen!Evaluate(e, last, main)
      BY <2>1
    <3>5. PlainNode(pos) => TypeOf(e, Environment(pos)) = "int"
      BY <1>1, <3>2 DEF PlainNode
    <3>7. ast[pos].node # "expression"
      BY <1>1
    <3>. HIDE DEF last, e
    <3>6. LET v == Gen!Evaluate(e, last, main)
          IN  /\ v.code \in Seq(S)
              /\ PlainNode(pos) /\ (e.kind = "assign" => ast[pos].node # "expression") =>
                   OfType(v, TypeOf(e, Environment(pos)), main, S)
      BY <2>2, <3>1, <3>2, <3>3, EvaluateYields
    <3>. QED  BY <3>4, <3>5, <3>6, <3>7
  <2>. QED  BY <2>1, <2>3
<1>5. CallUpTo \in 0..Len(CallValues)
  <2>1. CASE CallNulls = {}
    BY <1>4, <2>1 DEF CallUpTo
  <2>2. CASE CallNulls # {}
    <3>1. CallNulls \subseteq Nat /\ CallNulls \subseteq 1..Len(CallValues)
      BY <1>4 DEF CallNulls
    <3>2. \E i \in CallNulls : \A j \in CallNulls : i <= j
      BY <2>2, <3>1, Smallest
    <3>3. CallUpTo \in CallNulls
      BY <2>2, <3>2 DEF CallUpTo
    <3>. QED  BY <1>4, <3>1, <3>3
  <2>. QED  BY <2>1, <2>2
<1>6. CallCode \in Seq(S)
  <2>1. CallUpTo \in Nat /\ \A i \in 1..CallUpTo : CallValues[i].code \in Seq(S)
    BY <1>4, <1>5
  <2>. QED  BY <2>1, CodeOfSeq DEF CallCode
<1>. QED  BY <1>4, <1>6

LEMMA CallGrows ==
  ASSUME NEW st, Outside(st), TextKept, Gen!VisitFunctionCall
  PROVE  Known' /\ Grown
<1>. DEFINE d == ast[pos]
            ok == Gen!Matches(CallValues, Callee, d.name)
<1>3. /\ symbols' = Gen!MainSymbols
      /\ \/ PutsInMain(<<>>) /\ UNCHANGED lastValue
         \/ PutsInMain(CallCode) /\ lastValue' = Gen!Null
         \/ /\ PutsInMain(Append(CallCode, CallInstr)) /\ lastValue' = CallLeft
            /\ Callee.kind \in {"function", "library"}
      /\ pos' = pos + 1 /\ UNCHANGED <<globals, currentLocals, frames>>
      /\ pos <= Len(ast) /\ d.node = "call"
  BY CallEmits
<1>1. /\ d.node = "call" /\ Analyzed /\ GenTypeOK /\ Known /\ Reached(st) /\ pos \in 1..Len(ast)
      /\ pos \in Nat /\ pos <= Len(ast) /\ frames = <<>>
  BY <1>3, OutsideFacts DEF Outside
<1>2. d.name \in Names
  BY <1>1, OutsideFacts, NodeFields
<1>6. /\ Len(CallValues) = Len(d.arguments) /\ CallCode \in Seq(Fresh)
      /\ PlainNode(pos) =>
           \A i \in 1..Len(CallValues) : OfType(CallValues[i], "int", Gen!MainIndex, Fresh)
  <2>1. Takes(Fresh, Evaluating, {TRUE}) /\ (~PlainNode(pos) => Takes(Fresh, Evaluating, BOOLEAN))
    BY <1>1, FreshTakes
  <2>. QED  BY <1>1, <2>1, CallEvaluates
<1>7. Callee.kind \in {"function", "library"} => CallInstr \in Fresh
  <2>. SUFFICES ASSUME Callee.kind \in {"function", "library"} PROVE CallInstr \in Fresh
    OBVIOUS
  <2>1. ok \in BOOLEAN
    BY DEF Gen!Matches
  <2>2. ok \/ ~PlainNode(pos)
    <3>1. ASSUME PlainNode(pos) PROVE ok
      BY <1>1, <1>6, <3>1, PlainCallMatches DEF Callee
    <3>. QED  BY <3>1
  <2>3. d.name \in Lexemes /\ pos \in NodesOf("call")
    BY <1>1, <1>2 DEF Lexemes, NodesOf
  <2>4. CallInstr = Gen!Instr("call", d.name, ok)
    BY DEF CallInstr
  <2>. HIDE DEF ok, d
  <2>. QED  BY <1>1, <2>1, <2>2, <2>3, <2>4, FreshInstr, InstrNamesFacts, Zenon
<1>8. PICK c \in Seq(Fresh) : PutsInMain(c)
  <2>1. <<>> \in Seq(Fresh)
    BY EmptySeq
  <2>2. CallInstr \in Fresh => Append(CallCode, CallInstr) \in Seq(Fresh)
    BY <1>6, AppendProperties
  <2>. QED  BY <1>3, <1>6, <1>7, <2>1, <2>2
<1>9. /\ Grown
      /\ \A i \in 1..Len(functions) : /\ functions'[i].node = functions[i].node
                                      /\ functions'[i].params = functions[i].params
      /\ \A n \in Gen!SymbolNames \ {"main"} : symbols'[n] = symbols[n]
  BY <1>1, <1>3, <1>8, MainGrows DEF PutsInMain
<1>10. GoesOn /\ \A i \in pos..pos' - 1 : ast[i].node # "declaration"
  BY <1>1, <1>3, NextNode
<1>11. LastKnown'
  <2>1. ast' = ast /\ pos \in 1..pos' - 1
    BY <1>1, <1>3 DEF TextKept
  <2>2. lastValue'.code = <<>>
    <3>1. lastValue.code = <<>> /\ Gen!Null.code = <<>> /\ CallLeft.code = <<>>
      BY <1>1 DEF Known, LastKnown, Gen!Null, Gen!Constant, CallLeft
    <3>. QED  BY <1>3, <3>1
  <2>. QED  BY <1>1, <2>1, <2>2 DEF LastKnown
<1>12. Known'
  BY <1>1, <1>3, <1>9, <1>10, <1>11, OutsideKnown
<1>. QED  BY <1>9, <1>12

-----------------------------------------------------------------------------
(***************************************************************************)
(* Every visit keeps what is known.                                        *)
(***************************************************************************)
\* The rest of visit(Program).
LEMMA FinishGrows ==
  ASSUME GenTypeOK, Gen!EndProgram
  PROVE  Grown
<1>. DEFINE ret == Gen!Instr("ret", "", TRUE)
            code == <<ret>>
<1>1. /\ functions' = Gen!Put(Gen!WithMain, Gen!EntryOf(Gen!MainIndex), code)
      /\ symbols' = Gen!MainSymbols
  BY Zenon DEF Gen!EndProgram
<1>2. ret \in Fresh
  <2>1. pos \in 1..Len(ast) + 1
    BY DEF GenTypeOK
  <2>2. pos \in Nat
    BY <2>1
  <2>. QED  BY <2>2, FreshInstr, InstrNamesFacts, Zenon
<1>. HIDE DEF ret
<1>3. code \in Seq(Fresh)
  BY <1>2
<1>. HIDE DEF code
<1>. QED  BY <1>1, <1>3, MainGrows

LEMMA ThisNodeIsReached ==
  ASSUME Analyzed, GenTypeOK, InsertOk, status = "generating", pos <= Len(ast),
         NEW st, Reached(st)
  PROVE  AtNode(st[pos - 1], st[pos])
<1>1. /\ FramesAre(st[pos - 1])
      /\ st \in [0..Len(ast) -> Seq(VisitKinds)] /\ \A i \in 0..Len(ast) : Rooted(st[i])
      /\ \A i \in 1..Len(ast) : Follows(ast[i], st[i - 1], st[i])
  BY DEF Reached, Nested
<1>2. /\ pos \in 1..Len(ast) /\ pos - 1 \in 0..Len(ast) /\ pos \in 0..Len(ast)
      /\ ast[pos] \in Node
  <2>1. pos \in 1..Len(ast) + 1 /\ Len(ast) \in Nat
    BY AnalyzedFacts DEF GenTypeOK
  <2>. QED  BY <2>1, AnalyzedFacts
<1>3. st[pos - 1] \in Seq(VisitKinds) /\ st[pos] \in Seq(VisitKinds) /\ Rooted(st[pos - 1])
  BY <1>1, <1>2
<1>. QED  BY <1>1, <1>2, <1>3 DEF AtNode

LEMMA NodeIsReached ==
  ASSUME Analyzed, GenTypeOK, InsertOk, status = "generating", pos <= Len(ast),
         NEW st, Reached(st)
  PROVE  \E s, t : AtNode(s, t)
BY ThisNodeIsReached

LEMMA BodyGrows ==
  ASSUME NEW st, InBody(st), status = "generating", TextKept, Gen!Next, pos <= Len(ast)
  PROVE  Known' /\ Grown
<1>1. PICK s, t : AtNode(s, t)
  BY NodeIsReached DEF InBody
<1>2. ast[pos].node \notin {"function", "call", "declaration"} /\ frames # <<>>
  BY BodyGoesOn DEF InBody
<1>3. CASE Gen!ThrowOutOfRange
  BY <1>3, FailKnown DEF InBody, Gen!ThrowOutOfRange
<1>4. CASE Gen!VisitExpressionStatement \/ Gen!VisitPrintStatement \/ Gen!VisitReturnStatement
  BY <1>4, ExpressionStatementGrows, PrintStatementGrows, ReturnStatementGrows
<1>5. CASE Gen!VisitForLoopStatement \/ Gen!VisitWhileLoopStatement
  BY <1>5, ForGrows, WhileGrows
<1>6. CASE Gen!VisitIfStatement \/ Gen!VisitIfElseStatement
  BY <1>6, IfGrows, IfElseGrows
<1>7. CASE Gen!EndBody \/ Gen!EndFunctionDefinition
  BY <1>1, <1>7, EndBodyGrows, EndFunctionGrows, Zenon
<1>8. ~Gen!VisitDeclaration /\ ~Gen!VisitExpression /\ ~Gen!VisitFunctionDefinition
      /\ ~Gen!VisitFunctionCall /\ ~Gen!EndProgram
  <2>1. ~(pos > Len(ast))
    BY AnalyzedFacts, ReadableState DEF InBody, Readable
  <2>. QED
    BY <1>2, <2>1, Zenon DEF Gen!VisitDeclaration, Gen!VisitExpression, Gen!VisitFunctionDefinition,
       Gen!VisitFunctionCall, Gen!EndProgram, Gen!At, Gen!node
<1>. QED  BY <1>3, <1>4, <1>5, <1>6, <1>7, <1>8 DEF Gen!Next

LEMMA OutsideGrows ==
  ASSUME NEW st, Outside(st), status = "generating", TextKept, Gen!Next
  PROVE  Known' /\ Grown
<1>1. pos \in Nat /\ Len(ast) \in Nat /\ pos <= Len(ast) /\ frames = <<>>
  BY OutsideFacts DEF Outside
<1>2. PICK s, t : AtNode(s, t)
  BY <1>1, NodeIsReached DEF Outside
<1>3. ast[pos].node \notin {"print", "return", "while", "for", "if", "ifElse", "end"}
  BY <1>1, <1>2, FramesAtNode
<1>4. CASE Gen!ThrowOutOfRange
  BY <1>4, FailKnown DEF Outside, Gen!ThrowOutOfRange
<1>5. CASE Gen!VisitDeclaration \/ Gen!VisitExpression
  BY <1>5, DeclarationGrows, TopExpressionGrows
<1>6. CASE Gen!VisitFunctionDefinition \/ Gen!VisitFunctionCall
  BY <1>6, SkippedGrows, FunctionGrows, CallGrows
<1>7. /\ ~Gen!VisitExpressionStatement /\ ~Gen!VisitPrintStatement
      /\ ~Gen!VisitReturnStatement /\ ~Gen!VisitForLoopStatement
      /\ ~Gen!VisitWhileLoopStatement /\ ~Gen!VisitIfStatement /\ ~Gen!VisitIfElseStatement
      /\ ~Gen!EndBody /\ ~Gen!EndFunctionDefinition
  BY <1>1, <1>3, Zenon DEF Gen!VisitExpressionStatement, Gen!VisitPrintStatement,
     Gen!VisitReturnStatement, Gen!VisitForLoopStatement, Gen!VisitWhileLoopStatement,
     Gen!VisitIfStatement, Gen!VisitIfElseStatement, Gen!EndBody, Gen!EndFunctionDefinition,
     Gen!At, Gen!node
<1>8. ~Gen!EndProgram
  <2>1. ~(pos > Len(ast))
    BY <1>1
  <2>. QED  BY <2>1, Zenon DEF Gen!EndProgram
<1>. QED  BY <1>4, <1>5, <1>6, <1>7, <1>8 DEF Gen!Next

LEMMA GrowingStep ==
  ASSUME NEW st, Analyzed, GenTypeOK, InsertOk, Reached(st), Known,
         status = "generating", TextKept, Gen!Next
  PROVE  Grown /\ (status' # "done" => Known')
<1>1. Len(ast) \in Nat /\ pos \in 1..Len(ast) + 1
  BY AnalyzedFacts DEF GenTypeOK
<1>2. CASE pos > Len(ast)
  <2>1. Gen!EndProgram
    BY <1>1, <1>2, PastTheEnd
  <2>2. Grown
    BY <2>1, FinishGrows
  <2>. QED  BY <2>1, <2>2, Zenon DEF Gen!EndProgram
<1>3. CASE pos <= Len(ast) /\ frames # <<>>
  BY <1>3, BodyGrows DEF InBody
<1>4. CASE pos <= Len(ast) /\ frames = <<>>
  <2>1. pos \in 1..Len(ast)
    BY <1>1, <1>4
  <2>. QED  BY <1>4, <2>1, OutsideGrows DEF Outside
<1>. QED  BY <1>1, <1>2, <1>3, <1>4

-----------------------------------------------------------------------------
(***************************************************************************)
(* The invariant of the whole module: what the generator knows while it    *)
(* goes on, and the code it has put down.                                  *)
(***************************************************************************)
NamesInv  == outcome = "accepted" => AllSane(functions) /\ (status # "done" => Known)
ModuleInv == CompilerInv /\ CallsInv /\ NamesInv

\* Nothing is there yet.
LEMMA FirstKnown == Gen!Init => Known /\ AllSane(functions)
<1>. SUFFICES ASSUME Gen!Init PROVE Known /\ AllSane(functions)
  OBVIOUS
<1>1. /\ pos = 1 /\ frames = <<>> /\ Len(frames) = 0 /\ Len(functions) = 0
      /\ \A n \in Names : globals[n] = Gen!NoType /\ currentLocals[n] = 0
      /\ lastValue = Gen!Null /\ 1..pos - 1 = {}
      /\ symbols = [n \in Gen!SymbolNames |-> IF n \in Gen!Allocators
                                                THEN Gen!Symbol("library", 0) ELSE Gen!NoSymbol]
  BY DEF Gen!Init, Gen!NoLocal
<1>2. LocalsKnown /\ GlobalsKnown /\ BodyKnown
  BY <1>1 DEF LocalsKnown, GlobalsKnown, BodyKnown
<1>3. SymbolsKnown
  BY <1>1, Zenon DEF SymbolsKnown, Gen!Symbol, Gen!NoSymbol
<1>4. LastKnown
  BY <1>1 DEF LastKnown, Gen!Null, Gen!Constant
<1>5. AllSane(functions)
  BY <1>1 DEF AllSane, Holds
<1>. QED  BY <1>2, <1>3, <1>4, <1>5 DEF Known

LEMMA ModuleInit == CompilerInit => ModuleInv
<1>. SUFFICES ASSUME CompilerInit PROVE ModuleInv
  OBVIOUS
<1>1. CompilerInv /\ CallsInv /\ outcome # "accepted"
  BY CompilerInitInvariant, CallsInit, Zenon DEF CompilerInit, Init
<1>. QED  BY <1>1 DEF ModuleInv, NamesInv

LEMMA NamesGenerate == ModuleInv /\ Generate => NamesInv'
<1>. SUFFICES ASSUME ModuleInv, Generate PROVE NamesInv'
  OBVIOUS
<1>1. /\ outcome = "accepted" /\ TextKept /\ Gen!Next
      /\ Analyzed /\ GenTypeOK /\ AllSane(functions)
  BY Zenon DEF Generate, vars, TextKept, ModuleInv, NamesInv, CompilerInv, GenInv, Analyzed
<1>2. status = "generating"
  BY <1>1, Zenon DEF Gen!Next, Gen!ThrowOutOfRange, Gen!VisitDeclaration, Gen!VisitExpression,
     Gen!VisitExpressionStatement, Gen!VisitPrintStatement, Gen!VisitReturnStatement,
     Gen!VisitForLoopStatement, Gen!VisitWhileLoopStatement, Gen!VisitIfStatement,
     Gen!VisitIfElseStatement, Gen!EndBody, Gen!VisitFunctionDefinition,
     Gen!EndFunctionDefinition, Gen!VisitFunctionCall, Gen!EndProgram, Gen!At
<1>3. Known /\ InsertOk /\ \E st : Reached(st)
  BY <1>1, <1>2 DEF ModuleInv, NamesInv, CompilerInv, GenInv
<1>4. Grown /\ (status' # "done" => Known')
  BY <1>1, <1>2, <1>3, GrowingStep
<1>5. AllSane(functions)'
  BY <1>1, <1>4, SaneGrows
<1>. QED  BY <1>4, <1>5 DEF NamesInv

LEMMA ModuleNext == ModuleInv /\ [CompilerNext]_<<vars, genVars>> => ModuleInv'
<1>. SUFFICES ASSUME ModuleInv, [CompilerNext]_<<vars, genVars>> PROVE ModuleInv'
  OBVIOUS
<1>1. CompilerInv /\ CallsInv /\ NamesInv /\ CompilerInv'
  BY CompilerNextInvariant DEF ModuleInv
<1>2. CallsInv'
  <2>1. [Next]_vars
    BY DEF CompilerNext, Analyze, Generate, Over
  <2>. QED  BY <1>1, <2>1, CallsStep
<1>3. NamesInv'
  <2>1. CASE Analyze
    <3>1. Gen!Init /\ UNCHANGED genVars
      BY <1>1, <2>1 DEF Analyze, CompilerInv, GenInv
    <3>2. Gen!Init'
      BY <3>1 DEF Gen!Init, genVars
    <3>3. (Known /\ AllSane(functions))'
      BY <3>2, FirstKnown, PTL
    <3>. QED  BY <3>3 DEF NamesInv
  <2>2. CASE Generate
    BY <2>2, NamesGenerate
  <2>3. CASE UNCHANGED <<vars, genVars>>
    <3>1. /\ UNCHANGED genVars /\ TextKept
          /\ UNCHANGED <<pos, status, globals, currentLocals, functions, symbols, frames, lastValue>>
      BY <2>3 DEF vars, genVars, TextKept
    <3>2. AllSane(functions)' <=> AllSane(functions)
      BY <3>1, SaneKept DEF AllSane, Holds, InstrOf
    <3>3. Known' <=> Known
      <4>1. /\ \A f : Generated(f)' = Generated(f)
            /\ \A f : Gen!FiledNames(ast[f])' = Gen!FiledNames(ast[f])
            /\ \A i, n : Declared(i, n)' = Declared(i, n)
            /\ \A i : Gen!GlobalValueType(ast[i])' = Gen!GlobalValueType(ast[i])
            /\ \A f : Gen!ReturnType(ast[f].returnType)' = Gen!ReturnType(ast[f].returnType)
            /\ \A n, k : Defined(n, k)' = Defined(n, k)
        BY <3>1 DEF TextKept, Generated, Gen!Supported, Declared,
           Gen!GlobalValueType, Gen!ReturnType, Defined, Gen!I32, Gen!Float, Gen!I1, Gen!Ptr
      <4>. QED
        BY <3>1, <4>1 DEF Known, TextKept, LocalsKnown, Files, GlobalsKnown, BodyKnown,
           SymbolsKnown, LastKnown, Gen!NoType, Gen!SymbolNames, Gen!Allocators
    <3>. QED  BY <1>1, <3>1, <3>2, <3>3 DEF NamesInv, TextKept
  <2>. QED  BY <2>1, <2>2, <2>3 DEF CompilerNext, Over
<1>. QED  BY <1>1, <1>2, <1>3 DEF ModuleInv

\* The invariant of the whole module holds.
THEOREM ModuleInvHolds == CompilerSpec => []ModuleInv
<1>. QED  BY ModuleInit, ModuleNext, PTL DEF CompilerSpec

LEMMA NamesFollow == ModuleInv => NamesResolveAsAnalyzed
<1>. SUFFICES ASSUME ModuleInv, outcome = "accepted", status = "generating"
              PROVE  NamesResolveAsAnalyzed
  BY Zenon DEF NamesResolveAsAnalyzed, Accepting
<1>1. Analyzed /\ GenTypeOK /\ InsertOk /\ Known /\ \E st : Reached(st)
  BY DEF ModuleInv, NamesInv, CompilerInv, GenInv, Analyzed
<1>. QED  BY <1>1, NamesResolve

\* In a function body every name is to the generator what it was to the analyzer,
\* and what is loaded for it has the analyzer's type (visit(PrimaryExpression)
\* against SymbolTable::lookup), unless an earlier parameter has leaked.
THEOREM NamesAreResolved == CompilerSpec => []NamesResolveAsAnalyzed
<1>. QED  BY ModuleInvHolds, NamesFollow, PTL

\* The places of the module are where it holds an instruction.
LEMMA PlacesHold ==
  /\ \A p \in Places : \E f, b, j \in Nat :
       p = <<f, b, j>> /\ Holds(functions, f, b, j) /\ InstrAt(p) = InstrOf(functions, f, b, j)
  /\ \A f, b, j \in Nat : Holds(functions, f, b, j) =>
       <<f, b, j>> \in Places /\ InstrAt(<<f, b, j>>) = InstrOf(functions, f, b, j)
<1>1. ASSUME NEW p \in Places
      PROVE  \E f, b, j \in Nat :
               p = <<f, b, j>> /\ Holds(functions, f, b, j) /\ InstrAt(p) = InstrOf(functions, f, b, j)
  <2>f. PICK f \in 1..Len(functions) :
          p \in UNION {{<<f, b, j>> : j \in 1..Len(functions[f].blocks[b])}
                       : b \in 1..Len(functions[f].blocks)}
    BY Zenon DEF Places
  <2>1. \E b \in 1..Len(functions[f].blocks) :
             \E j \in 1..Len(functions[f].blocks[b]) : p = <<f, b, j>>
    BY <2>f, Zenon
  <2>b. PICK b \in 1..Len(functions[f].blocks) :
             \E j \in 1..Len(functions[f].blocks[b]) : p = <<f, b, j>>
    BY <2>1
  <2>j. PICK j \in 1..Len(functions[f].blocks[b]) : p = <<f, b, j>>
    BY <2>b
  <2>2. Holds(functions, f, b, j) /\ InstrAt(p) = InstrOf(functions, f, b, j)
    BY <2>j DEF Holds, InstrAt, InstrOf
  <2>. QED  BY <2>j, <2>2
<1>2. ASSUME NEW f \in Nat, NEW b \in Nat, NEW j \in Nat, Holds(functions, f, b, j)
      PROVE  <<f, b, j>> \in Places /\ InstrAt(<<f, b, j>>) = InstrOf(functions, f, b, j)
  <2>1. /\ f \in 1..Len(functions) /\ b \in 1..Len(functions[f].blocks)
        /\ j \in 1..Len(functions[f].blocks[b])
    BY <1>2 DEF Holds
  <2>2. <<f, b, j>> \in {<<f, b, i>> : i \in 1..Len(functions[f].blocks[b])}
    BY <2>1
  <2>3. <<f, b, j>> \in UNION {{<<f, c, i>> : i \in 1..Len(functions[f].blocks[c])}
                                : c \in 1..Len(functions[f].blocks)}
    BY <2>1, <2>2, Zenon
  <2>4. <<f, b, j>> \in Places
    <3>. DEFINE In(g) == UNION {{<<g, c, i>> : i \in 1..Len(functions[g].blocks[c])}
                                : c \in 1..Len(functions[g].blocks)}
    <3>1. <<f, b, j>> \in In(f)
      BY <2>3
    <3>2. Places = UNION {In(g) : g \in 1..Len(functions)}
      BY DEF Places
    <3>. HIDE DEF In
    <3>. QED  BY <2>1, <3>1, <3>2, Zenon
  <2>5. InstrAt(<<f, b, j>>) = InstrOf(functions, f, b, j)
    <3>. DEFINE p == <<f, b, j>>
    <3>1. p[1] = f /\ p[2] = b /\ p[3] = j
      OBVIOUS
    <3>. HIDE DEF p
    <3>2. InstrAt(p) = InstrOf(functions, f, b, j)
      BY <3>1 DEF InstrAt, InstrOf
    <3>. QED  BY <3>2 DEF p
  <2>. QED  BY <2>4, <2>5
<1>. QED  BY <1>1, <1>2

LEMMA PlainFollows == ModuleInv => PlainNodesAreWellTyped
<1>. SUFFICES ASSUME ModuleInv, Stopped, NEW p \in Places,
                     InstrAt(p).from \in 1..Len(ast), PlainNode(InstrAt(p).from)
              PROVE  InstrAt(p).ok
  BY DEF PlainNodesAreWellTyped
<1>1. AllSane(functions)
  BY DEF ModuleInv, NamesInv, Stopped, Accepting
<1>2. PICK f, b, j \in Nat : Holds(functions, f, b, j) /\ InstrAt(p) = InstrOf(functions, f, b, j)
  BY PlacesHold
<1>3. OkIfPlain(InstrAt(p))
  BY <1>1, <1>2 DEF AllSane, Sane
<1>. QED  BY <1>3, Zenon DEF OkIfPlain

\* The instructions of every plain node of an accepted program are well typed,
\* whatever else the program holds: the types of SemanticAnalyzer.cpp imply those
\* of the module that verifyModule would look at.
THEOREM PlainNodesAreTyped == CompilerSpec => []PlainNodesAreWellTyped
<1>. QED  BY ModuleInvHolds, PlainFollows, PTL
-----------------------------------------------------------------------------
(***************************************************************************)
(* Where the generator stops.                                              *)
(***************************************************************************)
\* What StopsOnlyOn allows for this end at the node that is visited.
MayEnd(how) ==
  \/ how = "threw" /\ Converting(pos)
  \/ CASE ast[pos].node = "declaration" ->
            \E e \in ExpressionsOf(ast[pos]) : ~Plain(e, pos) \/ NamesIn(e) \cap Names # {}
       [] ast[pos].node = "expression" -> ~InFunction(pos) /\ ast[pos].expr.name \in Names
       [] OTHER -> ast[pos].node \in {"for", "while"} /\ ~PlainNode(pos)

\* What is computed in the end, behind the variables it is assigned to.
Assigned(e)  == IF e.kind = "assign" THEN e.expression ELSE e
Innermost(e) == Assigned(Assigned(e))

LEMMA InnermostIsSimple ==
  ASSUME NEW e \in Expression
  PROVE  Innermost(e) \in Simple \cup MethodCall
BY DEF Innermost, Assigned, Expression, PlainAssignment, NestedAssignment, Simple, Primary,
   Unary, Binary, MethodCall

LEMMA Pair ==
  ASSUME NEW a, NEW b, NEW i \in 1..Len(<<a>> \o <<b>>)
  PROVE  (<<a>> \o <<b>>)[i] \in {a, b}
<1>. DEFINE s == <<a>>
            t == <<b>>
<1>1. s \in Seq({a, b}) /\ t \in Seq({a, b})
  OBVIOUS
<1>. HIDE DEF s, t
<1>2. s \o t \in Seq({a, b})
  BY <1>1, ConcatProperties
<1>3. i \in 1..Len(s \o t)
  BY DEF s, t
<1>4. (s \o t)[i] \in {a, b}
  BY <1>2, <1>3, ElementOfSeq
<1>. QED  BY <1>4 DEF s, t

\* The lexemes that an evaluation reads are the names of its expression.
LEMMA OperandsAreNames ==
  ASSUME NEW e \in Expression, NEW i \in 1..Len(Gen!Operands(e))
  PROVE  Gen!Operands(e)[i] \in NamesIn(Innermost(e))
<1>. DEFINE x == Innermost(e)
            operand(o) == IF o.kind = "unary" THEN <<o.expr.name>> ELSE <<o.name>>
            simple(s)  == CASE s.kind = "method" -> <<>>
                            [] s.kind = "binary" -> operand(s.left) \o operand(s.right)
                            [] OTHER             -> operand(s)
<1>1. Gen!Operands(e) = simple(x)
  BY DEF Gen!Operands, Innermost, Assigned
<1>2. \A o : operand(o) = <<OperandName(o)>>
  BY DEF OperandName
<1>3. x \in Simple \cup MethodCall
  BY InnermostIsSimple
<1>. HIDE DEF x
<1>4. x.kind # "assign"
  BY <1>3 DEF Simple, Primary, Unary, Binary, MethodCall
<1>5. CASE x.kind = "method"
  <2>1. Gen!Operands(e) = <<>>
    BY <1>1, <1>5
  <2>2. 1..Len(Gen!Operands(e)) = {}
    BY <2>1
  <2>. QED  BY <2>2
<1>6. CASE x.kind = "binary"
  <2>1. Gen!Operands(e) = <<OperandName(x.left)>> \o <<OperandName(x.right)>>
    BY <1>1, <1>2, <1>6
  <2>2. Gen!Operands(e)[i] \in {OperandName(x.left), OperandName(x.right)}
    BY <2>1, Pair
  <2>3. NamesIn(x) = {OperandName(x.left)} \cup {OperandName(x.right)}
    BY <1>6 DEF NamesIn, OperandName
  <2>. QED  BY <2>2, <2>3 DEF x
<1>7. CASE x.kind \notin {"method", "binary"}
  <2>1. Gen!Operands(e) = <<OperandName(x)>>
    BY <1>1, <1>2, <1>7
  <2>2. Gen!Operands(e)[i] = OperandName(x)
    BY <2>1
  <2>3. NamesIn(x) = {OperandName(x)}
    BY <1>4, <1>7 DEF NamesIn, OperandName
  <2>. QED  BY <2>2, <2>3 DEF x
<1>. QED  BY <1>5, <1>6, <1>7

\* What a visit evaluates are the expressions of its node.
LEMMA EvaluationsOfNode ==
  ASSUME ast[pos] \in Node, NEW i \in 1..Len(Gen!Evaluations)
  PROVE  /\ Gen!Evaluations[i] \in ExpressionsOf(ast[pos])
         /\ Gen!Evaluations[i] \in Expression
<1>. DEFINE d == ast[pos]
            es == Gen!Evaluations
<1>1. es = CASE d.node = "for"         -> <<d.start, d.end>>
             [] d.node = "declaration" -> d.elements
             [] d.node = "call"        -> d.arguments
             [] d.node \in {"function", "end"} -> <<>>
             [] OTHER                  -> <<d.expr>>
  BY DEF Gen!Evaluations, Gen!node
<1>2. CASE d.node = "for"
  <2>1. es = <<d.start, d.end>>
    BY <1>1, <1>2
  <2>2. es[i] \in {d.start, d.end}
    BY <2>1
  <2>. QED  BY <1>2, <2>2, NodeFields DEF ExpressionsOf
<1>3. CASE d.node = "declaration"
  <2>1. es = d.elements /\ d.elements \in Seq(Expression)
    BY <1>1, <1>3, NodeFields
  <2>. QED  BY <1>3, <2>1, ElementOfSeq DEF ExpressionsOf
<1>4. CASE d.node = "call"
  <2>1. es = d.arguments /\ d.arguments \in Seq(Expression)
    BY <1>1, <1>4, NodeFields
  <2>. QED  BY <1>4, <2>1, ElementOfSeq DEF ExpressionsOf
<1>5. CASE d.node \in {"function", "end"}
  <2>1. es = <<>>
    BY <1>1, <1>5
  <2>2. 1..Len(es) = {}
    BY <2>1
  <2>. QED  BY <2>2
<1>6. CASE d.node \notin {"for", "declaration", "call", "function", "end"}
  <2>1. es = <<d.expr>>
    BY <1>1, <1>6
  <2>2. es[i] = d.expr
    BY <2>1
  <2>3. d.node \in {"expression", "print", "return", "while", "if", "ifElse"}
    BY <1>6 DEF Node
  <2>. QED  BY <1>6, <2>2, <2>3, NodeFields DEF ExpressionsOf
<1>. QED  BY <1>2, <1>3, <1>4, <1>5, <1>6

LEMMA ThrowConverts ==
  ASSUME ast[pos] \in Node, Gen!ThrowOutOfRange
  PROVE  Converting(pos)
<1>1. CASE ast[pos].node = "declaration" /\ ast[pos].type \in {"int", "float"}
  BY <1>1 DEF Converting
<1>2. CASE ~(ast[pos].node = "declaration" /\ ast[pos].type \in {"int", "float"})
  <2>1. PICK i \in 1..Len(Gen!Evaluations) :
          \E j \in 1..Len(Gen!Operands(Gen!Evaluations[i])) :
             Gen!Operands(Gen!Evaluations[i])[j] \in IntLiterals \cup FloatLiterals
    BY <1>2 DEF Gen!ThrowOutOfRange, Gen!node
  <2>2. PICK e : e = Gen!Evaluations[i]
    OBVIOUS
  <2>3. e \in Expression /\ e \in ExpressionsOf(ast[pos])
    BY <2>2, EvaluationsOfNode
  <2>4. PICK j \in 1..Len(Gen!Operands(e)) : Gen!Operands(e)[j] \in IntLiterals \cup FloatLiterals
    BY <2>1, <2>2
  <2>5. Gen!Operands(e)[j] \in NamesIn(Innermost(e))
    BY <2>3, OperandsAreNames
  <2>6. NamesIn(Innermost(e)) \cap (IntLiterals \cup FloatLiterals) # {}
    BY <2>4, <2>5
  <2>. QED  BY <2>3, <2>6 DEF Converting, Innermost, Assigned
<1>. QED  BY <1>1, <1>2

-----------------------------------------------------------------------------
(***************************************************************************)
(* Expressions without names are constants.                                *)
(***************************************************************************)
LEMMA ConstantFacts ==
  ASSUME NEW type, type # Gen!NoType
  PROVE  LET c == Gen!Constant(type)
         IN  Gen!IsConstant(c) /\ ~Gen!IsNull(c) /\ c.type = type
BY DEF Gen!Constant, Gen!IsConstant, Gen!IsNull

\* Literals are constants, whatever is done to one.
LEMMA LiteralOperand ==
  ASSUME NEW e \in Primary \cup Unary, NEW env, NEW h, OperandName(e) \notin Names,
         PlainOperand(e, env)
  PROVE  /\ TypeOf(e, env) \in {"int", "bool", "float"}
         /\ Gen!OperandValue(e, h) = Gen!Constant(IRType(TypeOf(e, env)))
<1>. DEFINE p == IF e.kind = "unary" THEN e.expr ELSE e
            t == TypeOfPrimary(p, env)
            l == p.name
            v == Gen!PrimaryValue(l, h)
<1>1. p \in Primary /\ l \in Lexemes \ Names
  <2>1. p \in Primary /\ OperandName(e) = l
    BY DEF Primary, Unary, OperandName
  <2>. QED  BY <2>1 DEF Primary
<1>2. TypeOf(e, env) = t
  <2>1. e.kind \in {"primary", "unary"}
    BY DEF Primary, Unary
  <2>. QED  BY <2>1 DEF TypeOf, TypeOfOperand
<1>3. \/ l \in IntLiterals /\ l \notin FloatLiterals /\ l \notin {"true", "false"}
      \/ l \in FloatLiterals /\ l \notin IntLiterals /\ l \notin {"true", "false"}
      \/ l \in {"true", "false"} /\ l \notin IntLiterals /\ l \notin FloatLiterals
  BY <1>1, LexemesAssumption DEF Lexemes
<1>4. v = Gen!LiteralValue(l)
  BY <1>1 DEF Gen!PrimaryValue
<1>5. \/ t = "int" /\ v = Gen!Constant(Gen!I32)
      \/ t = "float" /\ v = Gen!Constant(Gen!Float)
      \/ t = "bool" /\ v = Gen!Constant(Gen!I1)
  BY <1>3, <1>4 DEF TypeOfPrimary, Gen!LiteralValue
<1>6. e.kind = "unary" => t \in {"int", "bool"}
  BY <1>2 DEF PlainOperand
<1>7. Gen!OperandValue(e, h) = IF e.kind = "unary" THEN Gen!Negated(v, h) ELSE v
  BY DEF Gen!OperandValue, Gen!UnaryValue
<1>. HIDE DEF t, v
<1>8. t \in {"int", "bool", "float"} /\ v = Gen!Constant(IRType(t))
  BY <1>5 DEF IRType
<1>9. e.kind = "unary" => Gen!Negated(v, h) = v
  <2>1. t \in {"int", "bool"} => IRType(t) \in Gen!IntegerTypes /\ IRType(t) # Gen!NoType
    BY DEF IRType, Gen!IntegerTypes, Gen!I32, Gen!I1, Gen!NoType
  <2>2. t \in {"int", "bool"} => v.type \in Gen!IntegerTypes /\ Gen!IsConstant(v)
    BY <1>8, <2>1, ConstantFacts
  <2>. QED  BY <1>6, <2>2, Zenon DEF Gen!Negated
<1>. QED  BY <1>2, <1>7, <1>8, <1>9

LEMMA FoldsConstants ==
  ASSUME NEW op, op \notin LogicalOps, NEW v, NEW h, Gen!IsConstant(v), ~Gen!IsNull(v),
         v.type \in Gen!IntegerTypes
  PROVE  Gen!Combined(op, v, v, h) = Gen!Constant(IF op \in ComparisonOps THEN Gen!I1 ELSE v.type)
BY SameOperators, Zenon DEF Gen!Combined

LEMMA LiteralSimple ==
  ASSUME NEW e \in Simple \cup MethodCall, NEW env, NEW h, NEW last, NamesIn(e) \cap Names = {},
         PlainSimple(e, env)
  PROVE  LET v == Gen!SimpleValue(e, last, h) IN Gen!IsConstant(v) /\ ~Gen!IsNull(v)
<1>1. CASE e \in Primary \cup Unary
  <2>1. e.kind \in {"primary", "unary"} /\ e.kind # "assign"
    BY <1>1 DEF Primary, Unary
  <2>2. OperandName(e) \in NamesIn(e) /\ PlainOperand(e, env)
    BY <2>1 DEF OperandName, NamesIn, PlainSimple
  <2>3. Gen!SimpleValue(e, last, h) = Gen!OperandValue(e, h)
    BY <2>1 DEF Gen!SimpleValue, Gen!OperandValue
  <2>4. OperandName(e) \notin Names
    BY <2>2
  <2>. DEFINE type == TypeOf(e, env)
  <2>5. type \in {"int", "bool", "float"} /\ Gen!OperandValue(e, h) = Gen!Constant(IRType(type))
    BY <1>1, <2>2, <2>4, LiteralOperand
  <2>. HIDE DEF type
  <2>6. IRType(type) # Gen!NoType
    BY <2>5 DEF IRType, Gen!I32, Gen!I1, Gen!Float, Gen!NoType
  <2>. QED  BY <2>3, <2>5, <2>6, ConstantFacts
<1>2. CASE e \in Binary
  <2>. DEFINE left == Gen!OperandValue(e.left, h)
              right == Gen!OperandValue(e.right, h)
              type == TypeOf(e.left, env)
              result == IF e.op \in ComparisonOps THEN Gen!I1 ELSE IRType(type)
  <2>1. e.kind = "binary" /\ e.left \in Primary /\ e.right \in Primary \cup Unary
    BY <1>2 DEF Binary
  <2>2. OperandName(e.left) \in NamesIn(e) /\ OperandName(e.right) \in NamesIn(e)
    BY <2>1 DEF OperandName, NamesIn
  <2>3. PlainBinary(e, env)
    BY <2>1 DEF PlainSimple
  <2>4. /\ PlainOperand(e.left, env) /\ PlainOperand(e.right, env)
        /\ TypeOf(e.right, env) = type
        /\ type \in {"int", "bool", "string"} /\ e.op \notin LogicalOps
    BY <2>3 DEF PlainBinary, ArithmeticOps, ComparisonOps, LogicalOps
  <2>5. OperandName(e.left) \notin Names /\ OperandName(e.right) \notin Names
    BY <2>2
  <2>6. type \in {"int", "bool"} /\ left = Gen!Constant(IRType(type))
    BY <2>1, <2>4, <2>5, LiteralOperand
  <2>7. right = Gen!Constant(IRType(type))
    BY <2>1, <2>4, <2>5, LiteralOperand
  <2>8. Gen!SimpleValue(e, last, h) = Gen!Combined(e.op, left, right, h)
    BY <2>1 DEF Gen!SimpleValue, Gen!BinaryValue
  <2>. HIDE DEF left, right, type
  <2>9. IRType(type) \in Gen!IntegerTypes /\ IRType(type) # Gen!NoType /\ result # Gen!NoType
    BY <2>6 DEF IRType, Gen!IntegerTypes, Gen!I32, Gen!I1, Gen!NoType
  <2>10. /\ Gen!IsConstant(left) /\ ~Gen!IsNull(left) /\ left.type = IRType(type)
         /\ right = left /\ left.type \in Gen!IntegerTypes
    BY <2>6, <2>7, <2>9, ConstantFacts
  <2>11. Gen!Combined(e.op, left, left, h)
           = Gen!Constant(IF e.op \in ComparisonOps THEN Gen!I1 ELSE left.type)
    BY <2>4, <2>10, FoldsConstants
  <2>12. Gen!Combined(e.op, left, right, h) = Gen!Constant(result)
    BY <2>10, <2>11
  <2>. HIDE DEF result
  <2>. QED  BY <2>8, <2>9, <2>12, ConstantFacts
<1>3. CASE e \in MethodCall
  <2>1. e.kind = "method"
    BY <1>3 DEF MethodCall
  <2>. QED  BY <2>1 DEF PlainSimple
<1>. QED  BY <1>1, <1>2, <1>3 DEF Simple

\* So is what is made of them.
LEMMA LiteralIsConstant ==
  ASSUME NEW e \in Expression, NEW k, NEW h, NEW last, Plain(e, k), NamesIn(e) \cap Names = {}
  PROVE  LET v == Gen!Evaluate(e, last, h) IN Gen!IsConstant(v) /\ ~Gen!IsNull(v)
<1>1. e.kind # "assign"
  <2>1. e.kind = "assign" => e.name \in Names
    BY DEF Expression, PlainAssignment, NestedAssignment, Simple, Primary, Unary, Binary,
       MethodCall
  <2>2. e.kind = "assign" => e.name \in NamesIn(e)
    BY DEF NamesIn
  <2>. QED  BY <2>1, <2>2
<1>2. e \in Simple \cup MethodCall
  BY <1>1 DEF Expression, PlainAssignment, NestedAssignment
<1>3. PlainSimple(e, Environment(k))
  BY <1>1 DEF Plain
<1>4. Gen!Evaluate(e, last, h) = Gen!SimpleValue(e, last, h)
  BY <1>1 DEF Gen!Evaluate
<1>. QED  BY <1>2, <1>3, <1>4, LiteralSimple

-----------------------------------------------------------------------------
(***************************************************************************)
(* The visits that may fail.                                               *)
(***************************************************************************)
GivesUp == status = "generating" /\ status' \in {"crashed", "threw"}

LEMMA DeclarationStops ==
  ASSUME NEW st, Outside(st), Gen!VisitDeclaration, GivesUp
  PROVE  \A how : MayEnd(how)
<1>. DEFINE list == ast[pos].elements
            value(i) == Gen!Evaluate(list[i], IF i = 1 THEN lastValue ELSE Gen!Null, 0)
            values == [i \in 1..Len(list) |-> value(i)]
<1>1. ast[pos].node = "declaration"
  BY DEF Gen!VisitDeclaration, Gen!At, Gen!node
<1>2. list \in Seq(Expression) /\ Len(list) \in Nat
  BY <1>1, OutsideFacts, NodeFields, LenProperties
<1>3. \E i \in 1..Len(values) : Gen!IsNull(values[i]) \/ ~Gen!IsConstant(values[i])
  BY DEF GivesUp, Gen!VisitDeclaration, Gen!Evaluated, Gen!Proceed, Gen!node
<1>4. Len(values) = Len(list)
  BY <1>2
<1>5. PICK i \in 1..Len(list) : Gen!IsNull(value(i)) \/ ~Gen!IsConstant(value(i))
  BY <1>3, <1>4
<1>6. list[i] \in Expression /\ list[i] \in ExpressionsOf(ast[pos])
  BY <1>1, <1>2, ElementOfSeq DEF ExpressionsOf
<1>7. ~Plain(list[i], pos) \/ NamesIn(list[i]) \cap Names # {}
  BY <1>5, <1>6, LiteralIsConstant
<1>. QED  BY <1>1, <1>6, <1>7 DEF MayEnd

\* On the top level the value of a method call is that of an expression before.
LEMMA TopExpressionStops ==
  ASSUME NEW st, Outside(st), OperatorsAreRejected, Gen!VisitExpression, GivesUp
  PROVE  \A how : MayEnd(how)
<1>. DEFINE e == ast[pos].expr
            v == Gen!Evaluate(e, lastValue, 0)
<1>1. ast[pos].node = "expression" /\ frames = <<>>
  BY DEF Gen!VisitExpression, Gen!At, Gen!node
<1>2. ~Gen!IsConstant(v)
  BY DEF GivesUp, Gen!VisitExpression, Gen!Proceed, Gen!node
<1>3. /\ e \in Expression /\ pos \in Accepted /\ ast \in Seq(Node) /\ pos \in 1..Len(ast)
      /\ Analyzed /\ Known /\ Nested(ast, st) /\ Ordered(ast, st) /\ FramesAre(st[pos - 1])
  BY <1>1, OutsideFacts, AnalyzedFacts, NodeFields DEF Outside, Reached
<1>4. st[pos - 1] = <<>>
  BY <1>1, <1>3, EmptySeq DEF FramesAre
<1>5. \A f \in 1..pos - 1 : ast[f].node \notin {"function", "call"}
  BY <1>1, <1>3, <1>4, LeadingFirst
<1>6. ~InFunction(pos)
  BY <1>3, <1>5, NotInFunction
<1>7. e.kind \notin {"unary", "binary"}
  BY <1>1, <1>3 DEF OperatorsAreRejected
<1>8. e.name \in Names
  <2>1. CASE e.kind = "primary"
    <3>1. v = Gen!PrimaryValue(e.name, 0)
      BY <2>1 DEF Gen!Evaluate, Gen!SimpleValue
    <3>. HIDE DEF v
    <3>2. e.name \notin Names => v = Gen!LiteralValue(e.name)
      BY <3>1 DEF Gen!PrimaryValue
    <3>. QED  BY <1>2, <3>2 DEF Gen!LiteralValue, Gen!Constant, Gen!IsConstant
  <2>2. CASE e.kind = "method"
    <3>1. v = lastValue
      BY <2>2 DEF Gen!Evaluate, Gen!SimpleValue
    <3>2. lastValue.code = <<>> /\ lastValue.home = 0
      BY <1>3, <1>5 DEF Known, LastKnown
    <3>. QED  BY <1>2, <3>1, <3>2 DEF Gen!IsConstant
  <2>3. CASE e.kind = "assign"
    BY <1>3, <2>3 DEF Expression, PlainAssignment, NestedAssignment, Simple, Primary, Unary,
       Binary, MethodCall
  <2>4. e.kind \in {"primary", "unary", "binary", "method", "assign"}
    BY <1>3 DEF Expression, PlainAssignment, NestedAssignment, Simple, Primary, Unary,
       Binary, MethodCall
  <2>. QED  BY <1>7, <2>1, <2>2, <2>3, <2>4
<1>. QED  BY <1>1, <1>6, <1>8 DEF MayEnd

\* A loop fails, or it is begun.
LEMMA WhileBegins ==
  ASSUME Gen!VisitWhileLoopStatement
  PROVE  /\ Gen!At("while")
         /\ LET v == Gen!Evaluate(ast[pos].expr, lastValue, insert.function)
            IN  \/ /\ Gen!IsNull(v) \/ v.type # Gen!I1
                   /\ \E how \in {"crashed", "threw"} : Gen!Fail(how)
                \/ Gen!Evaluated
BY Zenon DEF Gen!VisitWhileLoopStatement, Gen!node, Gen!Here

LEMMA ForBegins ==
  ASSUME Gen!VisitForLoopStatement
  PROVE  /\ Gen!At("for")
         /\ LET start == Gen!Evaluate(ast[pos].start, lastValue, insert.function)
                end   == Gen!Evaluate(ast[pos].end, Gen!Null, insert.function)
            IN  \/ (Gen!IsNull(start) \/ Gen!IsNull(end)) /\ Gen!Fail("crashed")
                \/ Gen!Evaluated
BY Zenon DEF Gen!VisitForLoopStatement, Gen!node, Gen!Here

LEMMA WhileStops ==
  ASSUME NEW st, InBody(st), Gen!VisitWhileLoopStatement, GivesUp
  PROVE  \A how : MayEnd(how)
<1>. DEFINE e == ast[pos].expr
            v == Gen!Evaluate(e, lastValue, insert.function)
<1>1. ast[pos].node = "while"
  BY WhileBegins DEF Gen!At, Gen!node
<1>2. Gen!IsNull(v) \/ v.type # Gen!I1
  BY WhileBegins DEF GivesUp, Gen!Evaluated, Gen!Proceed
<1>3. ~PlainNode(pos)
  <2>. SUFFICES ASSUME PlainNode(pos) PROVE FALSE
    OBVIOUS
  <2>1. e \in Expression /\ e \in ExpressionsOf(ast[pos])
    BY <1>1, BodyGoesOn, AnalyzedFacts, NodeFields DEF InBody, ExpressionsOf
  <2>2. OfType(v, TypeOf(e, Environment(pos)), insert.function, Fresh)
    BY <1>1, <2>1, BodyEvaluates DEF InBody, Known, LastKnown
  <2>3. TypeOf(e, Environment(pos)) = "bool"
    <3>1. AsksForType(ast[pos])
      BY <1>1 DEF AsksForType
    <3>. QED  BY <1>1, <3>1, BodyTypes DEF TypeChecked
  <2>. HIDE DEF v
  <2>. QED  BY <1>2, <2>2, <2>3 DEF OfType, Sound, ScalarTypes, IRType
<1>. QED  BY <1>1, <1>3 DEF MayEnd

LEMMA ForStops ==
  ASSUME NEW st, InBody(st), Gen!VisitForLoopStatement, GivesUp
  PROVE  \A how : MayEnd(how)
<1>. DEFINE first == ast[pos].start
            last == ast[pos].end
            start == Gen!Evaluate(first, lastValue, insert.function)
            end == Gen!Evaluate(last, Gen!Null, insert.function)
<1>1. ast[pos].node = "for"
  BY ForBegins DEF Gen!At, Gen!node
<1>2. Gen!IsNull(start) \/ Gen!IsNull(end)
  BY ForBegins DEF GivesUp, Gen!Evaluated, Gen!Proceed
<1>3. ~PlainNode(pos)
  <2>. SUFFICES ASSUME PlainNode(pos) PROVE FALSE
    OBVIOUS
  <2>1. /\ first \in Expression /\ first \in ExpressionsOf(ast[pos])
        /\ last \in Expression /\ last \in ExpressionsOf(ast[pos])
    BY <1>1, BodyGoesOn, AnalyzedFacts, NodeFields DEF InBody, ExpressionsOf
  <2>2. lastValue.code = <<>> /\ Gen!Null.code = <<>>
    BY DEF InBody, Known, LastKnown, Gen!Null, Gen!Constant
  <2>3. /\ OfType(start, TypeOf(first, Environment(pos)), insert.function, Fresh)
        /\ OfType(end, TypeOf(last, Environment(pos)), insert.function, Fresh)
    BY <1>1, <2>1, <2>2, BodyEvaluates
  <2>4. /\ TypeOf(first, Environment(pos)) = "int"
        /\ TypeOf(last, Environment(pos)) = "int"
    <3>1. AsksForType(ast[pos])
      BY <1>1 DEF AsksForType
    <3>. QED  BY <1>1, <3>1, BodyTypes DEF TypeChecked
  <2>. HIDE DEF start, end
  <2>. QED  BY <1>2, <2>3, <2>4 DEF OfType, ScalarTypes
<1>. QED  BY <1>1, <1>3 DEF MayEnd

\* A step that ends the generation otherwise than with the program.
LEMMA StopStep ==
  ASSUME NEW st, Analyzed, GenTypeOK, InsertOk, Reached(st), Known,
         OperatorsAreRejected, Gen!Next, GivesUp
  PROVE  pos' = pos /\ MayEnd(status')
<1>1. Len(ast) \in Nat /\ pos \in 1..Len(ast) + 1
  BY AnalyzedFacts DEF GenTypeOK
<1>2. CASE Gen!ThrowOutOfRange
  <2>1. pos <= Len(ast) /\ status' = "threw" /\ pos' = pos
    BY <1>2 DEF Gen!ThrowOutOfRange, Gen!Fail
  <2>2. ast[pos] \in Node
    BY <1>1, <2>1, AnalyzedFacts
  <2>. QED  BY <1>2, <2>1, <2>2, ThrowConverts DEF MayEnd
<1>3. ASSUME frames = <<>>, pos <= Len(ast), Gen!VisitDeclaration \/ Gen!VisitExpression
      PROVE  pos' = pos /\ MayEnd(status')
  <2>1. Outside(st)
    BY <1>1, <1>3 DEF Outside
  <2>2. pos' = pos
    BY <1>3, DeclarationVisits
       DEF Gen!VisitExpression, Gen!Fail, Gen!Evaluated, Gen!Proceed, GivesUp
  <2>. QED  BY <1>3, <2>1, <2>2, DeclarationStops, TopExpressionStops
<1>4. ASSUME frames # <<>>, Gen!VisitForLoopStatement \/ Gen!VisitWhileLoopStatement
      PROVE  pos' = pos /\ MayEnd(status')
  <2>1. InBody(st)
    BY <1>4 DEF InBody
  <2>2. pos' = pos
    BY <1>4, WhileBegins, ForBegins DEF Gen!Fail, Gen!Evaluated, Gen!Proceed, GivesUp
  <2>. QED  BY <1>4, <2>1, <2>2, WhileStops, ForStops
<1>5. CASE Gen!VisitDeclaration \/ Gen!VisitExpression
  <2>1. pos <= Len(ast) /\ ast[pos].node \in {"declaration", "expression"}
    BY <1>5 DEF Gen!VisitDeclaration, Gen!VisitExpression, Gen!At, Gen!node
  <2>2. frames = <<>>
    <3>1. Gen!VisitExpression => frames = <<>>
      BY DEF Gen!VisitExpression
    <3>2. Gen!VisitDeclaration => ast[pos].node = "declaration"
      BY DEF Gen!VisitDeclaration, Gen!At, Gen!node
    <3>3. frames # <<>> => ast[pos].node # "declaration"
      BY BodyGoesOn
    <3>. QED  BY <1>5, <3>1, <3>2, <3>3
  <2>. QED  BY <1>3, <1>5, <2>1, <2>2
<1>6. CASE Gen!VisitForLoopStatement \/ Gen!VisitWhileLoopStatement
  <2>1. pos <= Len(ast) /\ ast[pos].node \in {"for", "while"} /\ status = "generating"
    BY <1>6, WhileBegins, ForBegins DEF Gen!At, Gen!node
  <2>2. PICK s, t : AtNode(s, t)
    BY <2>1, NodeIsReached
  <2>3. frames # <<>>
    BY <2>1, <2>2, FramesAtNode
  <2>. QED  BY <1>4, <1>6, <2>3
<1>7. Gen!Evaluated \/ Gen!Proceed => ~GivesUp
  BY DEF Gen!Evaluated, Gen!Proceed, GivesUp
<1>8. /\ ~Gen!VisitExpressionStatement /\ ~Gen!VisitPrintStatement
      /\ ~Gen!VisitReturnStatement /\ ~Gen!VisitIfStatement /\ ~Gen!VisitIfElseStatement
  BY <1>7, Zenon DEF Gen!VisitExpressionStatement, Gen!VisitPrintStatement,
     Gen!VisitReturnStatement, Gen!VisitIfStatement, Gen!VisitIfElseStatement
<1>9. ~Gen!EndBody /\ ~Gen!EndFunctionDefinition /\ ~Gen!VisitFunctionCall
  BY <1>7, Zenon DEF Gen!EndBody, Gen!EndFunctionDefinition, Gen!VisitFunctionCall
<1>10. ~Gen!VisitFunctionDefinition
  <2>1. Gen!VisitFunctionDefinition => Gen!Proceed \/ UNCHANGED status
    BY Zenon DEF Gen!VisitFunctionDefinition
  <2>. QED  BY <1>7, <2>1 DEF GivesUp
<1>11. ~Gen!EndProgram
  <2>1. Gen!EndProgram => status' = "done"
    BY Zenon DEF Gen!EndProgram
  <2>. QED  BY <2>1 DEF GivesUp
<1>. QED  BY <1>2, <1>5, <1>6, <1>8, <1>9, <1>10, <1>11 DEF Gen!Next

-----------------------------------------------------------------------------
(***************************************************************************)
(* Where the generator has stopped is where it may.                        *)
(***************************************************************************)
StopsInv == ModuleInv /\ OperatorsAreRejected /\ StopsOnlyOn

LEMMA StopsMeansMayEnd == StopsOnlyOn <=> (Stopped /\ status # "done" => MayEnd(status))
BY DEF StopsOnlyOn, MayEnd

LEMMA MayEndKept ==
  ASSUME TextKept, pos' = pos
  PROVE  \A how : MayEnd(how)' <=> MayEnd(how)
<1>1. Converting(pos)' <=> Converting(pos)
  BY DEF TextKept, Converting
<1>2. /\ \A e : Plain(e, pos)' <=> Plain(e, pos)
      /\ PlainNode(pos)' <=> PlainNode(pos)
      /\ InFunction(pos)' <=> InFunction(pos)
  <2>1. PICK k : k = pos
    OBVIOUS
  <2>2. /\ \A e : Plain(e, k)' <=> Plain(e, k)
        /\ PlainNode(k)' <=> PlainNode(k)
        /\ InFunction(k)' <=> InFunction(k)
    BY PlainKept, BodiesKept
  <2>. QED  BY <2>1, <2>2
<1>3. ast' = ast
  BY DEF TextKept
<1>. QED  BY <1>1, <1>2, <1>3 DEF MayEnd

LEMMA StopsInit == CompilerInit => StopsInv
<1>. SUFFICES ASSUME CompilerInit PROVE StopsInv
  OBVIOUS
<1>1. OperatorsAreRejected
  BY OperatorsInit DEF CompilerInit
<1>2. outcome = "visiting"
  BY Zenon DEF CompilerInit, Init
<1>. QED  BY <1>1, <1>2, ModuleInit DEF StopsInv, StopsOnlyOn, Stopped, Accepting

LEMMA StopsNext == StopsInv /\ [CompilerNext]_<<vars, genVars>> => StopsInv'
<1>. SUFFICES ASSUME StopsInv, [CompilerNext]_<<vars, genVars>> PROVE StopsInv'
  OBVIOUS
<1>1. ModuleInv /\ CompilerInv /\ CallsInv /\ NamesInv /\ IInv /\ OperatorsAreRejected
      /\ StopsOnlyOn
  BY DEF StopsInv, ModuleInv, CallsInv
<1>2. ModuleInv'
  BY <1>1, ModuleNext
<1>3. OperatorsAreRejected'
  <2>1. [Next]_vars
    BY DEF CompilerNext, Analyze, Generate, Over
  <2>. QED  BY <1>1, <2>1, OperatorsStep
<1>4. StopsOnlyOn'
  <2>1. CASE Analyze
    <3>1. status = "generating" /\ UNCHANGED genVars
      BY <1>1, <2>1 DEF Analyze, CompilerInv, GenInv, Gen!Init
    <3>2. status' = "generating"
      BY <3>1 DEF genVars
    <3>. QED  BY <3>2 DEF StopsOnlyOn, Stopped
  <2>2. CASE Generate
    <3>1. outcome = "accepted" /\ TextKept /\ Gen!Next /\ Analyzed
      BY <1>1, <2>2 DEF Generate, vars, TextKept, CompilerInv, Analyzed
    <3>. SUFFICES ASSUME status' \notin {"generating", "done"} PROVE StopsOnlyOn'
      BY DEF StopsOnlyOn, Stopped
    <3>2. status = "generating" /\ GivesUp
      <4>1. status = "generating"
        BY <3>1, Zenon DEF Gen!Next, Gen!ThrowOutOfRange, Gen!VisitDeclaration, Gen!VisitExpression,
           Gen!VisitExpressionStatement, Gen!VisitPrintStatement, Gen!VisitReturnStatement,
           Gen!VisitForLoopStatement, Gen!VisitWhileLoopStatement, Gen!VisitIfStatement,
           Gen!VisitIfElseStatement, Gen!EndBody, Gen!VisitFunctionDefinition,
           Gen!EndFunctionDefinition, Gen!VisitFunctionCall, Gen!EndProgram, Gen!At
      <4>2. status' \in {"generating", "threw", "crashed", "done"}
        BY <1>2 DEF ModuleInv, CompilerInv, GenInv, GenTypeOK
      <4>. QED  BY <4>1, <4>2, Zenon DEF GivesUp
    <3>3. GenTypeOK /\ InsertOk /\ Known /\ AllSane(functions) /\ \E st : Reached(st)
      BY <1>1, <3>1, <3>2 DEF NamesInv, CompilerInv, GenInv, GivesUp
    <3>4. pos' = pos /\ MayEnd(status')
      BY <1>1, <3>1, <3>2, <3>3, StopStep
    <3>5. PICK how : how = status'
      OBVIOUS
    <3>6. MayEnd(how)'
      BY <3>1, <3>4, <3>5, MayEndKept
    <3>. QED  BY <3>5, <3>6 DEF StopsOnlyOn, MayEnd
  <2>3. CASE UNCHANGED <<vars, genVars>>
    <3>1. TextKept /\ pos' = pos /\ status' = status
      BY <2>3 DEF vars, genVars, TextKept
    <3>2. PICK how : how = status
      OBVIOUS
    <3>3. Stopped' <=> Stopped
      BY <3>1 DEF Stopped, Accepting, TextKept
    <3>4. MayEnd(how)' <=> MayEnd(how)
      BY <3>1, MayEndKept
    <3>. QED  BY <1>1, <3>1, <3>2, <3>3, <3>4 DEF StopsOnlyOn, MayEnd
  <2>. QED  BY <2>1, <2>2, <2>3 DEF CompilerNext, Over
<1>. QED  BY <1>2, <1>3, <1>4 DEF StopsInv

\* The generator gives up on an accepted program of whatever size only where
\* it visits an array initializer that is not made of literals, a variable on
\* its own outside functions or a loop over something that is not plain, or
\* where it converts a number: evaluateExpression has a value elsewhere, or its
\* caller does without one.
THEOREM StopsAreListed == CompilerSpec => []StopsOnlyOn
<1>1. StopsInv => StopsOnlyOn
  BY DEF StopsInv
<1>. QED  BY <1>1, StopsInit, StopsNext, PTL DEF CompilerSpec
-----------------------------------------------------------------------------
(***************************************************************************)
(* Every plain statement becomes one instruction of its kind.              *)
(***************************************************************************)
\* Where the functions have an instruction with this opcode for node k.
Makes(fs, k, op, f, b, j) ==
  Holds(fs, f, b, j) /\ InstrOf(fs, f, b, j).from = k /\ InstrOf(fs, f, b, j).op = op

Never(fs, k, op) == \A f, b, j \in Nat : ~Makes(fs, k, op, f, b, j)
Once(fs, k, op) ==
  \E f, b, j \in Nat :
    /\ Makes(fs, k, op, f, b, j)
    /\ \A g, c, i \in Nat : Makes(fs, k, op, g, c, i) => g = f /\ c = b /\ i = j

LEMMA OnceThere ==
  ASSUME NEW fs, NEW k, NEW op, NEW f \in Nat, NEW b \in Nat, NEW j \in Nat,
         Makes(fs, k, op, f, b, j),
         \A g, c, i \in Nat : Makes(fs, k, op, g, c, i) => g = f /\ c = b /\ i = j
  PROVE  Once(fs, k, op)
BY DEF Once

\* The node's function is generated, and all that it uses is plain.
Lowers(k) == InFunction(k) /\ Gen!Supported(ast[EnclosingFunction(k)]) /\ PlainNode(k)

\* What a node's code has of its kind.
LoweredIn(fs, k) ==
  Lowers(k) =>
    CASE ast[k].node = "print"  -> Once(fs, k, "print")
      [] ast[k].node = "return" -> Once(fs, k, "ret")
      [] ast[k].node = "expression" /\ ast[k].expr.kind = "assign" ->
           LET type == Environment(k)[ast[k].expr.name]
           IN  /\ type \in {"int", "float", "bool"} => Once(fs, k, "store")
               /\ type = "string" => Never(fs, k, "store")
      [] OTHER -> TRUE
LoweredSoFar == \A k \in 1..Len(ast) : k < pos => LoweredIn(functions, k)

\* No instruction is of a node that has not been visited.
Behind(fs, p) == \A f, b, j \in Nat : Holds(fs, f, b, j) => InstrOf(fs, f, b, j).from < p

\* What is there for another node than that under way stays as it is.
LEMMA OthersKept ==
  ASSUME Grown, NEW k, k # pos, NEW op
  PROVE  /\ Once(functions, k, op) => Once(functions', k, op)
         /\ Never(functions, k, op) => Never(functions', k, op)
<1>1. ASSUME NEW f \in Nat, NEW b \in Nat, NEW j \in Nat
      PROVE  Makes(functions', k, op, f, b, j) <=> Makes(functions, k, op, f, b, j)
  <2>1. /\ Holds(functions, f, b, j) =>
             /\ Holds(functions', f, b, j)
             /\ InstrOf(functions', f, b, j) = InstrOf(functions, f, b, j)
        /\ Holds(functions', f, b, j) =>
             Holds(functions, f, b, j) \/ InstrOf(functions', f, b, j) \in Fresh
    BY DEF Grown, Grows
  <2>2. \A i \in Fresh : i.from # k
    BY DEF Fresh
  <2>. QED  BY <2>1, <2>2 DEF Makes
<1>. QED  BY <1>1 DEF Once, Never

LEMMA BehindKept ==
  ASSUME Grown, Behind(functions, pos), pos \in Nat, NEW p \in Nat, pos < p,
         \A f, b, j \in Nat : Holds(functions, f, b, j) => InstrOf(functions, f, b, j).from \in Nat
  PROVE  Behind(functions', p)
<1>. SUFFICES ASSUME NEW f \in Nat, NEW b \in Nat, NEW j \in Nat, Holds(functions', f, b, j)
              PROVE  InstrOf(functions', f, b, j).from < p
  BY DEF Behind
<1>1. CASE Holds(functions, f, b, j)
  <2>. DEFINE k == InstrOf(functions, f, b, j).from
  <2>1. k \in Nat /\ k < pos
    BY <1>1 DEF Behind
  <2>2. InstrOf(functions', f, b, j) = InstrOf(functions, f, b, j)
    BY <1>1 DEF Grown, Grows
  <2>. HIDE DEF k
  <2>3. k < p
    BY <2>1
  <2>. QED  BY <2>2, <2>3 DEF k
<1>2. CASE ~Holds(functions, f, b, j)
  <2>1. InstrOf(functions', f, b, j) \in Fresh
    BY <1>2 DEF Grown, Grows
  <2>2. InstrOf(functions', f, b, j).from = pos
    BY <2>1 DEF Fresh
  <2>. QED  BY <2>2
<1>. QED  BY <1>1, <1>2

\* The instructions that read, of a visit or of any other.
Readers == {i \in Instruction : i.op \in Reading}

LEMMA ReadersTake == pos \in Nat => Takes(Readers, Reading, {TRUE})
<1>. SUFFICES ASSUME pos \in Nat, NEW op \in Reading,
                     NEW name \in InstrNames
              PROVE  Gen!Instr(op, name, TRUE) \in Readers
  BY Zenon DEF Takes
<1>1. op \in {"load", "store", "arith", "ret", "call", "print"} /\ TRUE \in BOOLEAN
  BY Zenon DEF Reading
<1>2. Gen!Instr(op, name, TRUE) \in Instruction
  BY <1>1, InstrTyped, Zenon
<1>3. Gen!Instr(op, name, TRUE).op = op
  BY Zenon DEF Gen!Instr
<1>. QED  BY <1>2, <1>3, Zenon DEF Readers

\* The code is at the end of block b of f, which had the length old; nothing else is new.
Lengthened(fs, gs, f, b, code, old) ==
  /\ old \in Nat
  /\ \A g, c, j \in Nat :
       Holds(gs, g, c, j) =>
         \/ Holds(fs, g, c, j)
         \/ g = f /\ c = b /\ \E m \in 1..Len(code) : j = old + m
  /\ \A g, c, j \in Nat :
       Holds(fs, g, c, j) => InstrOf(gs, g, c, j) = InstrOf(fs, g, c, j)
  /\ \A m \in 1..Len(code) : /\ Holds(gs, f, b, old + m)
                             /\ InstrOf(gs, f, b, old + m) = code[m]

\* What the places of new code are, for a length of the block that has a name.
LEMMA PutsCodeAt ==
  ASSUME NEW fs, NEW gs, NEW f, NEW b, NEW code, PutsCode(fs, gs, f, b, code),
         NEW old, old = Len(fs[f].blocks[b])
  PROVE  Lengthened(fs, gs, f, b, code, old)
<1>1. old \in Nat
  BY DEF PutsCode
<1>2. \A g, c, j \in Nat :
        /\ Holds(fs, g, c, j) =>
             Holds(gs, g, c, j) /\ InstrOf(gs, g, c, j) = InstrOf(fs, g, c, j)
        /\ Holds(gs, g, c, j) =>
             \/ Holds(fs, g, c, j)
             \/ g = f /\ c = b /\ \E m \in 1..Len(code) : j = old + m
  BY DEF PutsCode
<1>3. \A m \in 1..Len(code) :
        /\ Holds(gs, f, b, old + m) /\ ~Holds(fs, f, b, old + m)
        /\ InstrOf(gs, f, b, old + m) = code[m]
  BY Zenon DEF PutsCode
<1>4. \A g, c, j \in Nat :
        Holds(gs, g, c, j) =>
          \/ Holds(fs, g, c, j)
          \/ g = f /\ c = b /\ \E m \in 1..Len(code) : j = old + m
  BY <1>2
<1>5. \A g, c, j \in Nat :
        Holds(fs, g, c, j) => InstrOf(gs, g, c, j) = InstrOf(fs, g, c, j)
  BY <1>2
<1>6. \A m \in 1..Len(code) : /\ Holds(gs, f, b, old + m)
                              /\ InstrOf(gs, f, b, old + m) = code[m]
  BY <1>3
<1>. QED  BY <1>1, <1>4, <1>5, <1>6 DEF Lengthened

\* A last instruction of a visit is the only one of its kind if there is none before it.
LEMMA PutAddsLast ==
  ASSUME NEW fs \in Seq(Function), NEW f \in 1..Len(fs), NEW b \in 1..Len(fs[f].blocks),
         NEW at, at.function = f, at.block = b, NEW p \in Nat, Behind(fs, p),
         NEW code \in Code, NEW i \in Instruction, i.from = p,
         \A m \in 1..Len(code) : code[m].op # i.op
  PROVE  Once(Gen!Put(fs, at, Append(code, i)), p, i.op)
<1>. DEFINE all == Append(code, i)
            gs  == Gen!Put(fs, at, all)
            n   == Len(all)
            old == Len(fs[f].blocks[b])
            last == old + n
<1>1. all \in Code /\ n \in Nat /\ n \in 1..n /\ all[n] = i
  BY AppendProperties, LenProperties DEF Code
<1>2. \A m \in 1..n : m # n => all[m].op # i.op
  BY AppendProperties, LenProperties DEF Code
<1>. HIDE DEF all
<1>3. PutsCode(fs, gs, f, b, all)
  BY <1>1, PutPlaces
<1>. HIDE DEF gs, old
<1>4. old = Len(fs[f].blocks[b])
  BY DEF old
<1>5. /\ old \in Nat
      /\ \A g, c, j \in Nat :
           Holds(gs, g, c, j) =>
             \/ Holds(fs, g, c, j)
             \/ g = f /\ c = b /\ \E m \in 1..n : j = old + m
      /\ \A g, c, j \in Nat :
           Holds(fs, g, c, j) => InstrOf(gs, g, c, j) = InstrOf(fs, g, c, j)
      /\ \A m \in 1..n : Holds(gs, f, b, old + m) /\ InstrOf(gs, f, b, old + m) = all[m]
  <2>1. Lengthened(fs, gs, f, b, all, old)
    BY <1>3, <1>4, PutsCodeAt
  <2>. QED  BY <2>1 DEF Lengthened
<1>. HIDE DEF n
<1>6. f \in Nat /\ b \in Nat /\ last \in Nat
  <2>1. Len(fs) \in Nat /\ Len(fs[f].blocks) \in Nat
    BY BlocksFacts, LenProperties
  <2>2. \A k : k \in Nat => 1..k \subseteq Nat
    OBVIOUS
  <2>3. f \in Nat /\ b \in Nat
    BY <2>1, <2>2, Zenon
  <2>4. old + n \in Nat
    BY <1>1, <1>5
  <2>. QED  BY <2>3, <2>4
<1>7. Makes(gs, p, i.op, f, b, last)
  BY <1>1, <1>5 DEF Makes
<1>8. ASSUME NEW g \in Nat, NEW c \in Nat, NEW j \in Nat, Makes(gs, p, i.op, g, c, j)
      PROVE  g = f /\ c = b /\ j = last
  <2>1. ~Holds(fs, g, c, j)
    <3>1. Holds(fs, g, c, j) => InstrOf(fs, g, c, j).from < p
      BY Zenon DEF Behind
    <3>2. Holds(fs, g, c, j) => InstrOf(gs, g, c, j) = InstrOf(fs, g, c, j)
      BY <1>5
    <3>3. InstrOf(gs, g, c, j).from = p /\ ~(p < p)
      BY <1>8 DEF Makes
    <3>. QED  BY <3>1, <3>2, <3>3
  <2>2. PICK m \in 1..n : g = f /\ c = b /\ j = old + m
    BY <1>5, <1>8, <2>1 DEF Makes
  <2>3. all[m].op = i.op
    BY <1>5, <1>8, <2>2 DEF Makes
  <2>4. m = n
    BY <1>2, <2>3
  <2>. QED  BY <2>2, <2>4
<1>. HIDE DEF last
<1>9. Once(gs, p, i.op)
  BY <1>6, <1>7, <1>8, OnceThere
<1>. QED  BY <1>9 DEF gs, all

\* Here, a last instruction after those that read.
LEMMA PutAddsOne ==
  ASSUME NEW st, InBody(st), Behind(functions, pos), NEW code \in Seq(Readers),
         NEW i \in Instruction, i.from = pos, i.op \notin Reading,
         functions' = Gen!Put(functions, insert, code \o <<i>>)
  PROVE  Once(functions', pos, i.op)
<1>. DEFINE f == Len(functions)
            b == insert.block
<1>1. /\ f \in 1..Len(functions) /\ insert.function = f /\ b \in 1..Len(functions[f].blocks)
      /\ functions \in Seq(Function)
  BY BodyPlace DEF NewestBlocks, GenTypeOK, InBody
<1>2. pos \in Nat
  BY BodyGoesOn DEF InBody
<1>3. code \in Code /\ \A m \in 1..Len(code) : code[m].op # i.op
  <2>1. \A m \in 1..Len(code) : code[m] \in Readers
    BY ElementOfSeq
  <2>2. code \in Code
    BY DEF Code, Readers
  <2>. QED  BY <2>1, <2>2 DEF Readers
<1>. HIDE DEF f, b
<1>4. PICK p : p = pos
  OBVIOUS
<1>5. PICK fs : fs = functions
  OBVIOUS
<1>6. Once(Gen!Put(fs, insert, Append(code, i)), p, i.op)
  <2>1. Behind(fs, p)
    BY <1>4, <1>5
  <2>. DEFINE at == insert
  <2>2. at.function = f /\ at.block = b
    BY <1>1 DEF b
  <2>. HIDE DEF at
  <2>3. /\ fs \in Seq(Function) /\ f \in 1..Len(fs) /\ b \in 1..Len(fs[f].blocks)
        /\ p \in Nat /\ i.from = p
    BY <1>1, <1>2, <1>4, <1>5
  <2>4. Once(Gen!Put(fs, at, Append(code, i)), p, i.op)
    BY <1>3, <2>1, <2>2, <2>3, PutAddsLast
  <2>. QED  BY <2>4 DEF at
<1>7. functions' = Gen!Put(fs, insert, Append(code, i))
  <2>1. Append(code, i) = code \o <<i>>
    BY <1>3, AppendIsConcat DEF Code
  <2>. QED  BY <1>5, <2>1
<1>. QED  BY <1>4, <1>6, <1>7

\* Instructions that read are of no other kind.
LEMMA PutAddsNone ==
  ASSUME NEW st, InBody(st), Behind(functions, pos), NEW code \in Seq(Readers),
         NEW op, op \notin Reading, functions' = Gen!Put(functions, insert, code)
  PROVE  Never(functions', pos, op)
<1>. DEFINE f == Len(functions)
<1>1. /\ f \in 1..Len(functions) /\ insert.function = f
      /\ insert.block \in 1..Len(functions[f].blocks)
      /\ functions \in Seq(Function) /\ Readers \subseteq Instruction
  BY BodyPlace DEF NewestBlocks, GenTypeOK, InBody, Readers
<1>. HIDE DEF f
<1>2. Grows(functions, Gen!Put(functions, insert, code), Readers)
  BY <1>1, PutGrows
<1>3. ASSUME NEW g \in Nat, NEW c \in Nat, NEW j \in Nat, Makes(functions', pos, op, g, c, j)
      PROVE  FALSE
  <2>1. \/ /\ Holds(functions, g, c, j)
           /\ InstrOf(functions', g, c, j) = InstrOf(functions, g, c, j)
        \/ InstrOf(functions', g, c, j) \in Readers
    BY <1>2, <1>3 DEF Makes, Grows
  <2>2. pos \in Nat /\ ~(pos < pos)
    BY BodyGoesOn DEF InBody
  <2>3. ~Holds(functions, g, c, j) \/ InstrOf(functions', g, c, j) # InstrOf(functions, g, c, j)
    BY <1>3, <2>2 DEF Makes, Behind
  <2>. QED  BY <1>3, <2>1, <2>3 DEF Makes, Readers
<1>. QED  BY <1>3 DEF Never

\* What a plain expression of a body reads is all that its code does.
LEMMA PlainReads ==
  ASSUME NEW st, InBody(st), NEW e \in Simple \cup MethodCall, PlainSimple(e, Environment(pos)),
         NamesIn(e) \cap Misread(pos) = {}
  PROVE  /\ OfType(Gen!SimpleValue(e, lastValue, insert.function), TypeOf(e, Environment(pos)),
                   insert.function, Readers)
         /\ Reads(Environment(pos), insert.function)
<1>1. insert.function = Len(functions) /\ Reads(Environment(pos), Len(functions))
  BY BodyPlace, ReadsInBody DEF InBody
<1>2. Takes(Readers, Reading, {TRUE})
  BY BodyGoesOn, ReadersTake DEF InBody
<1>. QED  BY <1>1, <1>2, PlainSimpleIsWorth

\* A string is the constant that stands for it.
LEMMA StringIsConstant ==
  ASSUME NEW e \in Simple \cup MethodCall, NEW env, PlainSimple(e, env), NEW h, Reads(env, h),
         NamesIn(e) \cap Misread(pos) = {}, TypeOf(e, env) = "string", NEW last
  PROVE  Gen!IsConstant(Gen!SimpleValue(e, last, h))
<1>1. CASE e \in Primary
  <2>1. e.kind = "primary" /\ e.name \in Lexemes
    BY <1>1 DEF Primary
  <2>2. e.name \in NamesIn(e) /\ TypeOfPrimary(e, env) = "string"
    BY <2>1 DEF NamesIn, TypeOf, TypeOfOperand
  <2>3. Gen!SimpleValue(e, last, h) = Gen!PrimaryValue(e.name, h)
    BY <2>1 DEF Gen!SimpleValue
  <2>4. CASE e.name \in Names
    <3>1. TypeOfPrimary(e, env) = env[e.name]
      BY <2>4, LexemesAssumption DEF TypeOfPrimary, LookupType
    <3>2. Means(e.name, "string", h)
      BY <2>2, <2>4, <3>1 DEF Reads
    <3>3. currentLocals[e.name] = 0 /\ globals[e.name] = Gen!Bytes
      BY <3>2 DEF Means, Gen!GlobalValueType
    <3>4. Gen!PrimaryValue(e.name, h) = Gen!Constant(Gen!Ptr)
      BY <2>4, <3>3 DEF Gen!PrimaryValue, Gen!NoLocal, Gen!GlobalValue, Gen!Bytes, Gen!NoType
    <3>. QED  BY <2>3, <3>4 DEF Gen!IsConstant, Gen!Constant
  <2>5. CASE e.name \notin Names
    <3>1. Gen!PrimaryValue(e.name, h) = Gen!LiteralValue(e.name)
      BY <2>5 DEF Gen!PrimaryValue
    <3>2. Gen!LiteralValue(e.name) = Gen!Constant(IRType(TypeOfPrimary(e, env)))
      BY <2>1, <2>5, LiteralIsWorth
    <3>. QED  BY <2>3, <3>1, <3>2 DEF Gen!IsConstant, Gen!Constant
  <2>. QED  BY <2>4, <2>5
<1>2. CASE e \in Unary
  <2>1. e.kind = "unary"
    BY <1>2 DEF Unary
  <2>. QED  BY <2>1 DEF PlainSimple, PlainOperand
<1>3. CASE e \in Binary
  <2>1. e.kind = "binary"
    BY <1>3 DEF Binary
  <2>2. TypeOfBinary(e, env) = "string"
    BY <2>1 DEF TypeOf
  <2>. QED  BY <2>2 DEF TypeOfBinary
<1>4. CASE e \in MethodCall
  <2>1. e.kind = "method"
    BY <1>4 DEF MethodCall
  <2>. QED  BY <2>1 DEF PlainSimple
<1>. QED  BY <1>1, <1>2, <1>3, <1>4 DEF Simple

\* The expression of a plain log or ret.
LEMMA StatementReads ==
  ASSUME NEW st, InBody(st), PlainNode(pos), ast[pos].node \in {"print", "return"}
  PROVE  LET e == ast[pos].expr
             v == Gen!Evaluate(e, lastValue, insert.function)
         IN  /\ OfType(v, TypeOf(e, Environment(pos)), insert.function, Readers)
             /\ TypeOf(e, Environment(pos)) = "string" => Gen!IsConstant(v)
<1>. DEFINE e == ast[pos].expr
            env == Environment(pos)
<1>1. e \in Expression /\ e \in ExpressionsOf(ast[pos])
  BY BodyGoesOn, AnalyzedFacts, NodeFields DEF InBody, ExpressionsOf
<1>2. Plain(e, pos) /\ e.kind # "assign"
  BY <1>1 DEF PlainNode
<1>3. /\ PlainSimple(e, env) /\ NamesIn(e) \cap Misread(pos) = {}
      /\ e \in Simple \cup MethodCall
  BY <1>1, <1>2 DEF Plain, Expression, PlainAssignment, NestedAssignment
<1>4. Gen!Evaluate(e, lastValue, insert.function) = Gen!SimpleValue(e, lastValue, insert.function)
  BY <1>2 DEF Gen!Evaluate
<1>. QED  BY <1>3, <1>4, PlainReads, StringIsConstant

LEMMA PrintLowers ==
  ASSUME NEW st, InBody(st), Behind(functions, pos), PlainNode(pos), Gen!VisitPrintStatement
  PROVE  Once(functions', pos, "print")
<1>. DEFINE e == ast[pos].expr
            type == TypeOf(e, Environment(pos))
            v == Gen!Evaluate(e, lastValue, insert.function)
            callee == IF symbols["printf"].kind = "global" THEN "printf.1" ELSE "printf"
            ok == symbols["printf"].kind # "function"
            print == Gen!Instr("print", callee, ok)
            more == IF Gen!Printable(v) THEN <<print>> ELSE <<>>
<1>1. ast[pos].node = "print" /\ functions' = Gen!Put(functions, insert, v.code \o more)
  BY DEF Gen!VisitPrintStatement, Gen!At, Gen!node, Gen!Here
<1>2. OfType(v, type, insert.function, Readers) /\ (type = "string" => Gen!IsConstant(v))
  BY <1>1, StatementReads
<1>3. type \in ScalarTypes
  <2>1. AsksForType(ast[pos])
    BY <1>1 DEF AsksForType
  <2>. QED  BY <1>1, <2>1, BodyTypes DEF TypeChecked
<1>4. print \in Instruction /\ print.from = pos /\ print.op = "print"
  <2>1. ok \in BOOLEAN /\ callee \in {"printf.1", "printf"}
    OBVIOUS
  <2>. HIDE DEF ok, callee
  <2>2. callee \in InstrNames
    BY <2>1, SymbolNamesFacts, Zenon DEF InstrNames
  <2>3. pos \in Nat
    BY BodyGoesOn DEF InBody
  <2>4. print \in Instruction
    BY <2>1, <2>2, <2>3, InstrTyped, Zenon
  <2>5. print.from = pos /\ print.op = "print"
    BY DEF Gen!Instr
  <2>. QED  BY <2>4, <2>5
<1>. HIDE DEF v, type, print
<1>5. Gen!Printable(v)
  BY <1>2, <1>3 DEF OfType, ScalarTypes, IRType, Gen!Printable
<1>6. functions' = Gen!Put(functions, insert, v.code \o <<print>>) /\ v.code \in Seq(Readers)
  BY <1>1, <1>2, <1>5 DEF OfType, Sound
<1>7. "print" \notin Reading
  BY DEF Reading
<1>. QED  BY <1>4, <1>6, <1>7, PutAddsOne

LEMMA ReturnLowers ==
  ASSUME NEW st, InBody(st), Behind(functions, pos), PlainNode(pos), Gen!VisitReturnStatement
  PROVE  Once(functions', pos, "ret")
<1>. DEFINE e == ast[pos].expr
            v == Gen!Evaluate(e, lastValue, insert.function)
            ok == v.type = functions[insert.function].result
            ret == Gen!Instr("ret", "", ok)
            more == IF Gen!IsNull(v) THEN <<>> ELSE <<ret>>
<1>1. ast[pos].node = "return" /\ functions' = Gen!Put(functions, insert, v.code \o more)
  BY Zenon DEF Gen!VisitReturnStatement, Gen!At, Gen!node, Gen!Here
<1>2. ~Gen!IsNull(v) /\ v.code \in Seq(Readers)
  <2>1. TypeOf(e, Environment(pos)) \in ScalarTypes
    <3>1. AsksForType(ast[pos])
      BY <1>1 DEF AsksForType
    <3>. QED  BY <1>1, <3>1, BodyTypes DEF TypeChecked, NormalizedType, ReturnTypes, ScalarTypes
  <2>. QED  BY <1>1, <2>1, StatementReads, Zenon DEF OfType, Sound
<1>3. ret \in Instruction /\ ret.from = pos /\ ret.op = "ret"
  <2>1. ok \in BOOLEAN
    OBVIOUS
  <2>. HIDE DEF ok
  <2>2. pos \in Nat
    BY BodyGoesOn DEF InBody
  <2>3. ret \in Instruction
    BY <2>1, <2>2, InstrTyped, InstrNamesFacts, Zenon
  <2>4. ret.from = pos /\ ret.op = "ret"
    BY DEF Gen!Instr
  <2>. QED  BY <2>3, <2>4, Zenon
<1>. HIDE DEF v, ret
<1>4. functions' = Gen!Put(functions, insert, v.code \o <<ret>>)
  BY <1>1, <1>2
<1>5. "ret" \notin Reading
  BY DEF Reading
<1>. QED  BY <1>2, <1>3, <1>4, <1>5, PutAddsOne

\* Where a plain assignment goes.
LEMMA AssignLowers ==
  ASSUME NEW st, InBody(st), Behind(functions, pos), PlainNode(pos),
         Gen!VisitExpressionStatement, ast[pos].expr.kind = "assign"
  PROVE  LET type == Environment(pos)[ast[pos].expr.name]
         IN  /\ type \in {"int", "float", "bool"} => Once(functions', pos, "store")
             /\ type = "string" => Never(functions', pos, "store")
<1>. DEFINE e == ast[pos].expr
            env == Environment(pos)
            h == insert.function
            x == e.expression
            n == e.name
            v == Gen!SimpleValue(x, lastValue, h)
            type == env[n]
<1>1. /\ ast[pos].node = "expression"
      /\ functions' = Gen!Put(functions, insert, Gen!Evaluate(e, lastValue, h).code)
  BY DEF Gen!VisitExpressionStatement, Gen!At, Gen!node, Gen!Here
<1>2. e \in Expression /\ e \in ExpressionsOf(ast[pos]) /\ e.kind = "assign"
  BY <1>1, BodyGoesOn, AnalyzedFacts, NodeFields DEF InBody, ExpressionsOf
<1>3. PlainSimple(x, env) /\ NamesIn(e) \cap Misread(pos) = {}
  BY <1>2 DEF PlainNode, Plain
<1>4. n \in Names /\ x \in Simple \cup MethodCall /\ x.kind # "assign"
  <2>1. n \in Names /\ x \in Simple \cup MethodCall \cup PlainAssignment
    <3>1. e \notin Simple \cup MethodCall
      BY <1>2 DEF Simple, Primary, Unary, Binary, MethodCall
    <3>2. e \in PlainAssignment \/ e \in NestedAssignment
      BY <1>2, <3>1, Zenon DEF Expression
    <3>3. e \in PlainAssignment => n \in Names /\ x \in Simple \cup MethodCall
      BY DEF PlainAssignment
    <3>4. e \in NestedAssignment => n \in Names /\ x \in PlainAssignment
      BY DEF NestedAssignment
    <3>. QED  BY <3>2, <3>3, <3>4, Zenon
  <2>2. x.kind # "assign"
    BY <1>3, Zenon DEF PlainSimple
  <2>. QED  BY <2>1, <2>2, Zenon DEF PlainAssignment
<1>5. n \in NamesIn(e) /\ NamesIn(x) \subseteq NamesIn(e)
  BY <1>2, <1>4 DEF NamesIn
<1>6. OfType(v, TypeOf(x, env), h, Readers) /\ Reads(env, h)
  BY <1>3, <1>4, <1>5, PlainReads
<1>7. TypeOf(x, env) = type
  <2>1. AsksForType(ast[pos])
    BY <1>1, <1>2 DEF AsksForType
  <2>. QED  BY <1>1, <2>1, BodyTypes DEF TypeChecked
<1>8. Means(n, type, h)
  BY <1>3, <1>4, <1>5, <1>6 DEF Reads
<1>9. Gen!Evaluate(e, lastValue, h) = Gen!StoreTo(n, v, h)
  BY <1>2, <1>4 DEF Gen!Evaluate
<1>. HIDE DEF v
<1>10. v.code \in Seq(Readers) /\ "store" \notin Reading
  BY <1>6 DEF OfType, Sound, Reading
<1>11. type \in ScalarTypes => v.type = IRType(type) /\ ~Gen!IsNull(v)
  BY <1>6, <1>7 DEF OfType
<1>. HIDE DEF type, h, n
<1>12. ASSUME type \in {"int", "float", "bool"} PROVE Once(functions', pos, "store")
  <2>1. \E ok \in BOOLEAN :
          Gen!StoreTo(n, v, h).code = Append(v.code, Gen!Instr("store", n, ok))
    <3>1. CASE currentLocals[n] # 0
      <4>. DEFINE ok == (currentLocals[n] = h) /\ Gen!UsableIn(v, h)
      <4>1. Gen!StoreTo(n, v, h) =
              [Gen!Null EXCEPT !.code = Append(v.code, Gen!Instr("store", n, ok))]
        BY <1>11, <1>12, <3>1 DEF Gen!StoreTo, Gen!NoLocal, ScalarTypes
      <4>2. ok \in BOOLEAN
        OBVIOUS
      <4>. HIDE DEF ok
      <4>. QED  BY <4>1, <4>2 DEF Gen!Null, Gen!Constant
    <3>2. CASE currentLocals[n] = 0
      <4>. DEFINE ok == TRUE /\ Gen!UsableIn(v, h)
      <4>1. globals[n] = v.type
        BY <1>8, <1>11, <1>12, <3>2 DEF Means, Gen!GlobalValueType, IRType, ScalarTypes
      <4>2. Gen!StoreTo(n, v, h) =
              [Gen!Null EXCEPT !.code = Append(v.code, Gen!Instr("store", n, ok))]
        BY <1>11, <1>12, <3>2, <4>1 DEF Gen!StoreTo, Gen!NoLocal, ScalarTypes
      <4>3. ok \in BOOLEAN
        BY DEF Gen!UsableIn
      <4>. HIDE DEF ok
      <4>. QED  BY <4>2, <4>3 DEF Gen!Null, Gen!Constant
    <3>. QED  BY <3>1, <3>2
  <2>2. PICK ok \in BOOLEAN :
          Gen!StoreTo(n, v, h).code = Append(v.code, Gen!Instr("store", n, ok))
    BY <2>1
  <2>. DEFINE i == Gen!Instr("store", n, ok)
  <2>3. i \in Instruction /\ i.from = pos /\ i.op = "store"
    <3>1. n \in InstrNames
      BY <1>4, InstrNamesFacts, Zenon DEF Lexemes
    <3>2. pos \in Nat
      BY BodyGoesOn DEF InBody
    <3>3. i \in Instruction
      BY <3>1, <3>2, InstrTyped, Zenon
    <3>4. i.from = pos /\ i.op = "store"
      BY DEF Gen!Instr
    <3>. QED  BY <3>3, <3>4
  <2>4. functions' = Gen!Put(functions, insert, Append(v.code, i))
    BY <1>1, <1>9, <2>2
  <2>. HIDE DEF i
  <2>5. Append(v.code, i) = v.code \o <<i>>
    BY <1>10, <2>3, AppendIsConcat
  <2>. QED  BY <1>10, <2>3, <2>4, <2>5, PutAddsOne
<1>13. ASSUME type = "string" PROVE Never(functions', pos, "store")
  <2>1. currentLocals[n] = 0 /\ globals[n] = Gen!Bytes /\ v.type = Gen!Ptr
    BY <1>8, <1>11, <1>13 DEF Means, Gen!GlobalValueType, IRType, ScalarTypes
  <2>2. Gen!StoreTo(n, v, h) = [Gen!Null EXCEPT !.code = v.code]
    BY <1>11, <1>13, <2>1 DEF Gen!StoreTo, Gen!NoLocal, Gen!Bytes, Gen!Ptr, ScalarTypes
  <2>3. functions' = Gen!Put(functions, insert, v.code)
    BY <1>1, <1>9, <2>2, Zenon DEF Gen!Null, Gen!Constant
  <2>. QED  BY <1>10, <2>3, PutAddsNone
<1>. QED  BY <1>12, <1>13 DEF type, n

-----------------------------------------------------------------------------
(***************************************************************************)
(* What has been lowered stays so, and a visit lowers its node.            *)
(***************************************************************************)
LEMMA LoweredKept ==
  ASSUME TextKept, NEW k, LoweredIn(functions', k)
  PROVE  LoweredIn(functions, k)'
<1>1. Environment(k)' = Environment(k) /\ Lowers(k)' = Lowers(k)
  BY TypesKept, BodiesKept, PlainKept DEF TextKept, Environment, Lowers, Gen!Supported
<1>. QED  BY <1>1 DEF LoweredIn, TextKept, Once, Never, Makes, Holds, InstrOf

LEMMA OthersLowered ==
  ASSUME Grown, NEW k, k # pos, LoweredIn(functions, k)
  PROVE  LoweredIn(functions', k)
BY OthersKept DEF LoweredIn

\* A visit goes on in the text or ends.
LEMMA VisitsGoOn ==
  ASSUME Analyzed, GenTypeOK, Gen!Next, status' = "generating"
  PROVE  /\ pos \in 1..Len(ast) /\ pos' \in Nat /\ pos < pos'
         /\ \/ pos' = pos + 1
            \/ /\ ast[pos].node = "function" /\ ~Gen!Supported(ast[pos])
               /\ pos' = Gen!NextItem(pos)
<1>1. Len(ast) \in Nat /\ pos \in 1..Len(ast) + 1 /\ ast \in Seq(Node)
  BY AnalyzedFacts DEF GenTypeOK
<1>2. CASE pos' = pos + 1 /\ pos <= Len(ast)
  <2>1. pos \in 1..Len(ast) /\ pos + 1 \in Nat /\ pos < pos + 1
    BY <1>1, <1>2
  <2>. QED  BY <1>2, <2>1
<1>3. CASE /\ ast[pos].node = "function" /\ ~Gen!Supported(ast[pos])
           /\ pos' = Gen!NextItem(pos) /\ pos <= Len(ast)
  <2>. DEFINE j == Gen!NextItem(pos)
  <2>1. pos \in 1..Len(ast)
    BY <1>1, <1>3
  <2>2. j \in pos + 1..Len(ast) + 1
    BY <1>1, <2>1, NextItemFacts
  <2>. HIDE DEF j
  <2>3. j \in Nat /\ pos < j
    BY <1>1, <2>2
  <2>. QED  BY <1>3, <2>1, <2>3 DEF j
<1>4. \A how \in {"threw", "crashed"} : ~Gen!Fail(how)
  BY DEF Gen!Fail
<1>5. ~Gen!ThrowOutOfRange /\ ~Gen!EndProgram
  BY <1>4 DEF Gen!ThrowOutOfRange, Gen!EndProgram
<1>6. Gen!VisitFunctionDefinition => ast[pos].node = "function" /\ pos <= Len(ast)
         /\ (pos' = pos + 1 \/ (~Gen!Supported(ast[pos]) /\ pos' = Gen!NextItem(pos)))
  BY Zenon DEF Gen!VisitFunctionDefinition, Gen!At, Gen!node, Gen!Proceed
<1>7. Gen!Next => Gen!VisitFunctionDefinition \/ (pos' = pos + 1 /\ pos <= Len(ast))
  BY <1>4, <1>5, Zenon DEF Gen!Next, Gen!VisitDeclaration, Gen!VisitExpression,
     Gen!VisitExpressionStatement, Gen!VisitPrintStatement, Gen!VisitReturnStatement,
     Gen!VisitForLoopStatement, Gen!VisitWhileLoopStatement, Gen!VisitIfStatement,
     Gen!VisitIfElseStatement, Gen!EndBody, Gen!EndFunctionDefinition,
     Gen!VisitFunctionCall, Gen!At, Gen!Proceed, Gen!Evaluated
<1>. QED  BY <1>2, <1>3, <1>6, <1>7

\* The node that is visited, in a body.
LEMMA NodeLowers ==
  ASSUME NEW st, InBody(st), Behind(functions, pos), Gen!Next, status' = "generating"
  PROVE  LoweredIn(functions', pos)
<1>. SUFFICES ASSUME PlainNode(pos), ast[pos].node \in {"print", "return", "expression"}
              PROVE  CASE ast[pos].node = "print"  -> Once(functions', pos, "print")
                       [] ast[pos].node = "return" -> Once(functions', pos, "ret")
                       [] ast[pos].node = "expression" /\ ast[pos].expr.kind = "assign" ->
                            LET type == Environment(pos)[ast[pos].expr.name]
                            IN  /\ type \in {"int", "float", "bool"} =>
                                     Once(functions', pos, "store")
                                /\ type = "string" => Never(functions', pos, "store")
                       [] OTHER -> TRUE
  BY DEF LoweredIn, Lowers
<1>1. /\ frames # <<>> /\ ~Gen!ThrowOutOfRange /\ ~Gen!EndProgram
      /\ \A how \in {"threw", "crashed"} : ~Gen!Fail(how)
  BY Zenon DEF InBody, Gen!ThrowOutOfRange, Gen!EndProgram, Gen!Fail
<1>2. /\ ast[pos].node = "print" => Gen!VisitPrintStatement
      /\ ast[pos].node = "return" => Gen!VisitReturnStatement
      /\ ast[pos].node = "expression" => Gen!VisitExpressionStatement
  BY <1>1, Zenon DEF Gen!Next, Gen!VisitDeclaration, Gen!VisitExpression,
     Gen!VisitExpressionStatement, Gen!VisitPrintStatement, Gen!VisitReturnStatement,
     Gen!VisitForLoopStatement, Gen!VisitWhileLoopStatement, Gen!VisitIfStatement,
     Gen!VisitIfElseStatement, Gen!EndBody, Gen!EndFunctionDefinition,
     Gen!VisitFunctionCall, Gen!VisitFunctionDefinition, Gen!At, Gen!node
<1>3. CASE ast[pos].node = "print"
  BY <1>2, <1>3, PrintLowers
<1>4. CASE ast[pos].node = "return"
  BY <1>2, <1>4, ReturnLowers
<1>5. CASE ast[pos].node = "expression"
  BY <1>2, <1>5, AssignLowers
<1>. QED  BY <1>3, <1>4, <1>5

\* Between functions nothing is lowered.
LEMMA NothingLowers ==
  ASSUME NEW st, Outside(st), status = "generating"
  PROVE  LoweredIn(functions', pos)
<1>1. /\ pos \in 1..Len(ast) /\ Len(ast) \in Nat /\ pos <= Len(ast) /\ frames = <<>>
      /\ Analyzed /\ GenTypeOK /\ Reached(st) /\ ast \in Seq(Node)
  BY OutsideFacts DEF Outside
<1>2. PICK s, t : AtNode(s, t)
  BY <1>1, NodeIsReached DEF Outside
<1>3. ast[pos].node \notin {"print", "return"}
  BY <1>1, <1>2, FramesAtNode
<1>4. ast[pos].node = "expression" => ~InFunction(pos)
  <2>1. SUFFICES ASSUME ast[pos].node = "expression" PROVE ~InFunction(pos)
    OBVIOUS
  <2>2. st[pos - 1] = <<>>
    <3>1. pos - 1 \in 0..Len(ast)
      BY <1>1
    <3>2. st[pos - 1] \in Seq(VisitKinds)
      BY <1>1, <3>1 DEF Reached, Nested
    <3>3. Len(st[pos - 1]) = 0
      BY <1>1 DEF Reached, FramesAre
    <3>. QED  BY <3>2, <3>3, EmptySeq
  <2>3. \A f \in 1..pos - 1 : ast[f].node \notin {"function", "call"}
    BY <1>1, <2>1, <2>2, LeadingFirst DEF Reached
  <2>. QED  BY <1>1, <2>3, NotInFunction
<1>. QED  BY <1>3, <1>4 DEF LoweredIn, Lowers

\* A function that is left out is passed with its body.
LEMMA SkippedLowers ==
  ASSUME Analyzed, pos \in 1..Len(ast), ast[pos].node = "function", ~Gen!Supported(ast[pos]),
         NEW k \in 1..Len(ast), pos < k, k < Gen!NextItem(pos), NEW fs
  PROVE  LoweredIn(fs, k)
<1>1. ast \in Seq(Node) /\ Len(ast) \in Nat /\ k \in Nat /\ pos \in 1..k
  BY AnalyzedFacts
<1>. DEFINE j == Gen!NextItem(pos)
<1>2. j \in Nat /\ \A i \in pos + 1..j - 1 : ast[i].node \notin {"function", "call"}
  BY <1>1, NextItemFacts
<1>. HIDE DEF j
<1>3. pos + 1..k \subseteq pos + 1..j - 1
  <2>1. k < j
    BY DEF j
  <2>. QED  BY <1>1, <1>2, <2>1
<1>4. Encloses(ast, pos, k)
  BY <1>1, <1>2, <1>3 DEF Encloses
<1>5. EnclosingFunction(k) = pos
  BY <1>1, <1>4, EnclosingIsUnique
<1>. QED  BY <1>5 DEF LoweredIn, Lowers

LEMMA LoweredStep ==
  ASSUME NEW st, Analyzed, GenTypeOK, InsertOk, Reached(st), Known, status = "generating",
         TextKept, Gen!Next, AllSane(functions), Behind(functions, pos), LoweredSoFar
  PROVE  LoweredSoFar' /\ (status' = "generating" => Behind(functions, pos)')
<1>1. Len(ast) \in Nat /\ pos \in 1..Len(ast) + 1 /\ pos \in Nat /\ ast' = ast
  BY AnalyzedFacts DEF GenTypeOK, TextKept
<1>2. Grown
  BY GrowingStep
<1>3. ASSUME NEW k \in 1..Len(ast), k < pos PROVE LoweredIn(functions', k)
  <2>1. k # pos
    BY <1>1, <1>3
  <2>. QED  BY <1>2, <1>3, <2>1, OthersLowered DEF LoweredSoFar
<1>4. CASE status' # "generating"
  <2>1. (\E how \in {"threw", "crashed"} : Gen!Fail(how)) \/ Gen!EndProgram
    BY <1>4, Zenon DEF Gen!Next, Gen!ThrowOutOfRange, Gen!VisitDeclaration, Gen!VisitExpression,
       Gen!VisitExpressionStatement, Gen!VisitPrintStatement, Gen!VisitReturnStatement,
       Gen!VisitForLoopStatement, Gen!VisitWhileLoopStatement, Gen!VisitIfStatement,
       Gen!VisitIfElseStatement, Gen!EndBody, Gen!VisitFunctionDefinition,
       Gen!EndFunctionDefinition, Gen!VisitFunctionCall, Gen!Proceed, Gen!Evaluated
  <2>2. pos' = pos
    BY <2>1, Zenon DEF Gen!Fail, Gen!EndProgram
  <2>. QED  BY <1>1, <1>3, <1>4, <2>2, LoweredKept, Zenon DEF LoweredSoFar
<1>5. CASE status' = "generating"
  <2>1. /\ pos \in 1..Len(ast) /\ pos' \in Nat /\ pos < pos' /\ pos <= Len(ast)
        /\ \/ pos' = pos + 1
           \/ /\ ast[pos].node = "function" /\ ~Gen!Supported(ast[pos])
              /\ pos' = Gen!NextItem(pos)
    BY <1>1, <1>5, VisitsGoOn
  <2>2. LoweredIn(functions', pos)
    <3>1. CASE frames # <<>>
      BY <1>5, <3>1, NodeLowers DEF InBody
    <3>2. CASE frames = <<>>
      BY <2>1, <3>2, NothingLowers DEF Outside
    <3>. QED  BY <3>1, <3>2
  <2>3. ASSUME NEW k \in 1..Len(ast), k < pos' PROVE LoweredIn(functions', k)
    <3>1. k < pos \/ k = pos \/ (pos < k /\ pos' # pos + 1)
      BY <1>1, <2>1, <2>3
    <3>2. CASE pos < k /\ pos' # pos + 1
      BY <2>1, <2>3, <3>2, SkippedLowers
    <3>. QED  BY <1>3, <2>2, <3>1, <3>2
  <2>4. LoweredSoFar'
    BY <1>1, <2>3, LoweredKept DEF LoweredSoFar
  <2>5. \A f, b, j \in Nat : Holds(functions, f, b, j) => InstrOf(functions, f, b, j).from \in Nat
    BY Zenon DEF AllSane, Sane, Instruction
  <2>6. Behind(functions', pos')
    BY <1>1, <1>2, <2>1, <2>5, BehindKept
  <2>7. Behind(functions, pos)'
    BY <2>6 DEF Behind, Holds, InstrOf
  <2>. QED  BY <2>4, <2>7
<1>. QED  BY <1>4, <1>5

\* What has been lowered, with all that is known of the module.
LoweredInv ==
  /\ ModuleInv
  /\ outcome = "accepted" =>
       LoweredSoFar /\ (status = "generating" => Behind(functions, pos))

LEMMA NothingLowered == Gen!Init => LoweredSoFar /\ Behind(functions, pos)
<1>. SUFFICES ASSUME Gen!Init PROVE LoweredSoFar /\ Behind(functions, pos)
  OBVIOUS
<1>1. pos = 1 /\ Len(functions) = 0
  BY DEF Gen!Init
<1>2. LoweredSoFar
  BY <1>1 DEF LoweredSoFar
<1>3. Behind(functions, pos)
  BY <1>1 DEF Behind, Holds
<1>. QED  BY <1>2, <1>3

LEMMA LoweredInit == CompilerInit => LoweredInv
BY ModuleInit, Zenon DEF CompilerInit, Init, LoweredInv

LEMMA LoweredNext == LoweredInv /\ [CompilerNext]_<<vars, genVars>> => LoweredInv'
<1>. SUFFICES ASSUME LoweredInv, [CompilerNext]_<<vars, genVars>> PROVE LoweredInv'
  OBVIOUS
<1>1. ModuleInv /\ ModuleInv'
  BY ModuleNext DEF LoweredInv
<1>2. CASE Analyze
  <2>1. Gen!Init /\ UNCHANGED genVars
    BY <1>1, <1>2 DEF Analyze, ModuleInv, CompilerInv, GenInv
  <2>2. Gen!Init'
    BY <2>1 DEF Gen!Init, genVars
  <2>3. (LoweredSoFar /\ Behind(functions, pos))'
    BY <2>2, NothingLowered, PTL
  <2>. QED  BY <1>1, <2>3 DEF LoweredInv
<1>3. CASE Generate
  <2>1. outcome = "accepted" /\ TextKept /\ Gen!Next
    BY <1>3, Zenon DEF Generate, vars, TextKept
  <2>2. status = "generating"
    BY <2>1, Zenon DEF Gen!Next, Gen!ThrowOutOfRange, Gen!VisitDeclaration, Gen!VisitExpression,
       Gen!VisitExpressionStatement, Gen!VisitPrintStatement, Gen!VisitReturnStatement,
       Gen!VisitForLoopStatement, Gen!VisitWhileLoopStatement, Gen!VisitIfStatement,
       Gen!VisitIfElseStatement, Gen!EndBody, Gen!VisitFunctionDefinition,
       Gen!EndFunctionDefinition, Gen!VisitFunctionCall, Gen!EndProgram, Gen!At
  <2>3. /\ Analyzed /\ GenTypeOK /\ InsertOk /\ Known /\ AllSane(functions)
        /\ \E st : Reached(st)
    BY <1>1, <2>1, <2>2 DEF ModuleInv, NamesInv, CompilerInv, GenInv, Analyzed
  <2>4. LoweredSoFar' /\ (status' = "generating" => Behind(functions, pos)')
    BY <2>1, <2>2, <2>3, LoweredStep DEF LoweredInv
  <2>. QED  BY <1>1, <2>4 DEF LoweredInv
<1>4. CASE UNCHANGED <<vars, genVars>>
  <2>1. TextKept /\ UNCHANGED <<pos, status, functions>>
    BY <1>4 DEF vars, genVars, TextKept
  <2>2. Behind(functions, pos)' <=> Behind(functions, pos)
    BY <2>1 DEF Behind, Holds, InstrOf
  <2>3. LoweredSoFar => LoweredSoFar'
    BY <2>1, LoweredKept DEF LoweredSoFar, TextKept
  <2>. QED  BY <1>1, <2>1, <2>2, <2>3 DEF LoweredInv, TextKept
<1>. QED  BY <1>2, <1>3, <1>4 DEF CompilerNext, Over

LEMMA OnceIsSingle ==
  ASSUME NEW k, NEW op
  PROVE  /\ Once(functions, k, op) => Single(Lowered(k, op))
         /\ Never(functions, k, op) => Lowered(k, op) = {}
<1>1. ASSUME NEW p \in Lowered(k, op)
      PROVE  \E f, b, j \in Nat : p = <<f, b, j>> /\ Makes(functions, k, op, f, b, j)
  <2>1. p \in Places /\ InstrAt(p).from = k /\ InstrAt(p).op = op
    BY DEF Lowered
  <2>2. PICK f, b, j \in Nat :
          p = <<f, b, j>> /\ Holds(functions, f, b, j) /\ InstrAt(p) = InstrOf(functions, f, b, j)
    BY <2>1, PlacesHold
  <2>3. Makes(functions, k, op, f, b, j)
    BY <2>1, <2>2 DEF Makes
  <2>. QED  BY <2>2, <2>3
<1>2. ASSUME NEW f \in Nat, NEW b \in Nat, NEW j \in Nat, Makes(functions, k, op, f, b, j)
      PROVE  <<f, b, j>> \in Lowered(k, op)
  <2>1. <<f, b, j>> \in Places /\ InstrAt(<<f, b, j>>) = InstrOf(functions, f, b, j)
    BY <1>2, PlacesHold DEF Makes
  <2>. DEFINE p == <<f, b, j>>
  <2>. HIDE DEF p
  <2>2. p \in Lowered(k, op)
    BY <1>2, <2>1 DEF Lowered, Makes, p
  <2>. QED  BY <2>2 DEF p
<1>3. ASSUME Once(functions, k, op) PROVE Single(Lowered(k, op))
  <2>1. PICK f, b, j \in Nat :
          /\ Makes(functions, k, op, f, b, j)
          /\ \A g, c, i \in Nat : Makes(functions, k, op, g, c, i) => g = f /\ c = b /\ i = j
    BY <1>3, Zenon DEF Once
  <2>2. <<f, b, j>> \in Lowered(k, op)
    BY <1>2, <2>1
  <2>3. ASSUME NEW p \in Lowered(k, op) PROVE p = <<f, b, j>>
    BY <1>1, <2>1
  <2>. QED  BY <2>2, <2>3 DEF Single
<1>4. ASSUME Never(functions, k, op) PROVE Lowered(k, op) = {}
  BY <1>1, <1>4 DEF Never
<1>. QED  BY <1>3, <1>4

LEMMA LoweredFollows == LoweredInv => StatementsLoweredOnce
<1>. SUFFICES ASSUME LoweredInv, outcome = "accepted", NEW k \in 1..Len(ast), k < pos, Lowers(k)
              PROVE  CASE ast[k].node = "print"  -> Single(Lowered(k, "print"))
                       [] ast[k].node = "return" -> Single(Lowered(k, "ret"))
                       [] ast[k].node = "expression" /\ ast[k].expr.kind = "assign" ->
                            LET type == Environment(k)[ast[k].expr.name]
                            IN  /\ type \in {"int", "float", "bool"} => Single(Lowered(k, "store"))
                                /\ type = "string" => Lowered(k, "store") = {}
                       [] OTHER -> TRUE
  BY DEF StatementsLoweredOnce, Stopped, Accepting, Lowers
<1>1. LoweredIn(functions, k)
  BY DEF LoweredInv, LoweredSoFar
<1>. QED  BY <1>1, OnceIsSingle DEF LoweredIn

\* Every plain log, ret and assignment of a generated function has become one
\* call of printf, one return or one store when the generator stops, and an
\* assignment to a string none (visit(PrintStatement), visit(ReturnStatement)
\* and visit(Assignment)): no later visit adds to a node's code.
THEOREM StatementsAreLowered == CompilerSpec => []StatementsLoweredOnce
<1>. QED  BY LoweredInit, LoweredNext, LoweredFollows, PTL DEF CompilerSpec

-----------------------------------------------------------------------------
(***************************************************************************)
(* Main makes the calls in the order of the text.                          *)
(***************************************************************************)
\* Where the functions have a call.
CallAt(fs, f, b, j) == Holds(fs, f, b, j) /\ InstrOf(fs, f, b, j).op = "call"

\* All calls are in the entry of function m, each after those of earlier nodes.
CallsInMain(fs, m) ==
  \A f, b, j \in Nat :
    CallAt(fs, f, b, j) =>
      /\ f = m /\ b = 1
      /\ \A i \in Nat : CallAt(fs, f, b, i) /\ i < j =>
            InstrOf(fs, f, b, i).from < InstrOf(fs, f, b, j).from

\* Calls stay as they are when no other is added.
LEMMA CallsStay ==
  ASSUME NEW fs, NEW gs, NEW S, Grows(fs, gs, S), \A i \in S : i.op # "call", NEW m,
         CallsInMain(fs, m)
  PROVE  CallsInMain(gs, m)
<1>1. ASSUME NEW f \in Nat, NEW b \in Nat, NEW j \in Nat, CallAt(gs, f, b, j)
      PROVE  CallAt(fs, f, b, j) /\ InstrOf(gs, f, b, j) = InstrOf(fs, f, b, j)
  <2>1. Holds(fs, f, b, j)
    BY <1>1 DEF CallAt, Grows
  <2>2. InstrOf(gs, f, b, j) = InstrOf(fs, f, b, j)
    BY <2>1 DEF Grows
  <2>. QED  BY <1>1, <2>1, <2>2 DEF CallAt
<1>. QED  BY <1>1 DEF CallsInMain

\* There is no function 0.
LEMMA NoCalls ==
  ASSUME NEW fs, CallsInMain(fs, 0), NEW m
  PROVE  CallsInMain(fs, m)
<1>1. ASSUME NEW f \in Nat, NEW b \in Nat, NEW j \in Nat, CallAt(fs, f, b, j) PROVE FALSE
  <2>1. f = 0
    BY <1>1, Zenon DEF CallsInMain
  <2>2. f \in 1..Len(fs)
    BY <1>1, Zenon DEF CallAt, Holds
  <2>3. \A n : 0 \notin 1..n
    OBVIOUS
  <2>. QED  BY <2>1, <2>2, <2>3, Zenon
<1>. QED  BY <1>1 DEF CallsInMain

\* One call that is put at the end of main's entry comes after all others.
LEMMA CallGoesLast ==
  ASSUME NEW fs \in Seq(Function), NEW m \in 1..Len(fs), NEW at, at.function = m, at.block = 1,
         NEW p \in Nat, Behind(fs, p), CallsInMain(fs, m), NEW code \in Code,
         \A n \in 1..Len(code) : code[n].op = "call" => code[n].from = p,
         LET gs == Gen!Put(fs, at, code) IN Once(gs, p, "call") \/ Never(gs, p, "call")
  PROVE  CallsInMain(Gen!Put(fs, at, code), m)
<1>. DEFINE gs == Gen!Put(fs, at, code)
            old == Len(fs[m].blocks[1])
<1>1. Once(gs, p, "call") \/ Never(gs, p, "call")
  OBVIOUS
<1>2. PutsCode(fs, gs, m, 1, code)
  <2>1. 1 \in 1..Len(fs[m].blocks)
    BY BlocksFacts
  <2>. QED  BY <2>1, PutPlaces
<1>. HIDE DEF gs
<1>3. ASSUME NEW f \in Nat, NEW b \in Nat, NEW j \in Nat, CallAt(gs, f, b, j)
      PROVE  \/ CallAt(fs, f, b, j) /\ InstrOf(gs, f, b, j) = InstrOf(fs, f, b, j)
             \/ f = m /\ b = 1 /\ ~Holds(fs, f, b, j) /\ Makes(gs, p, "call", f, b, j)
  <2>1. CASE Holds(fs, f, b, j)
    BY <1>2, <1>3, <2>1 DEF PutsCode, CallAt
  <2>2. CASE ~Holds(fs, f, b, j)
    <3>1. PICK n \in 1..Len(code) : f = m /\ b = 1 /\ j = old + n
      BY <1>2, <1>3, <2>2 DEF PutsCode, CallAt
    <3>2. InstrOf(gs, f, b, j) = code[n]
      BY <1>2, <3>1 DEF PutsCode
    <3>. QED  BY <1>3, <2>2, <3>1, <3>2 DEF CallAt, Makes
  <2>. QED  BY <2>1, <2>2
<1>4. ASSUME NEW f \in Nat, NEW b \in Nat, NEW i \in Nat, NEW j \in Nat,
             Makes(gs, p, "call", f, b, i), Makes(gs, p, "call", f, b, j)
      PROVE  i = j
  BY <1>1, <1>4 DEF Once, Never
<1>5. ASSUME NEW f \in Nat, NEW b \in Nat, NEW j \in Nat, CallAt(gs, f, b, j)
      PROVE  f = m /\ b = 1
  <2>1. CallAt(fs, f, b, j) => f = m /\ b = 1
    BY DEF CallsInMain
  <2>. QED  BY <1>3, <1>5, <2>1
<1>6. ASSUME NEW f \in Nat, NEW b \in Nat, NEW j \in Nat, CallAt(gs, f, b, j),
             NEW i \in Nat, CallAt(gs, f, b, i), i < j
      PROVE  InstrOf(gs, f, b, i).from < InstrOf(gs, f, b, j).from
  <2>1. CASE CallAt(fs, f, b, j) /\ InstrOf(gs, f, b, j) = InstrOf(fs, f, b, j)
    <3>1. Holds(fs, f, b, i)
      <4>1. i \in 1..Len(gs[f].blocks[b]) /\ j \in 1..Len(fs[f].blocks[b])
        BY <1>6, <2>1 DEF CallAt, Holds
      <4>2. i \in 1..Len(fs[f].blocks[b])
        BY <1>6, <4>1
      <4>. QED  BY <2>1, <4>2 DEF CallAt, Holds
    <3>2. CallAt(fs, f, b, i) /\ InstrOf(gs, f, b, i) = InstrOf(fs, f, b, i)
      BY <1>3, <1>6, <3>1
    <3>3. InstrOf(fs, f, b, i).from < InstrOf(fs, f, b, j).from
      BY <1>6, <2>1, <3>2 DEF CallsInMain
    <3>. QED  BY <2>1, <3>2, <3>3
  <2>2. CASE ~Holds(fs, f, b, j) /\ Makes(gs, p, "call", f, b, j)
    <3>1. InstrOf(gs, f, b, j).from = p
      BY <2>2 DEF Makes
    <3>2. ~Makes(gs, p, "call", f, b, i)
      BY <1>4, <1>6, <2>2
    <3>3. CallAt(fs, f, b, i) /\ InstrOf(gs, f, b, i) = InstrOf(fs, f, b, i)
      BY <1>3, <1>6, <3>2
    <3>4. InstrOf(fs, f, b, i).from < p
      BY <3>3, Zenon DEF Behind, CallAt
    <3>. QED  BY <3>1, <3>3, <3>4
  <2>. QED  BY <1>3, <1>6, <2>1, <2>2
<1>7. CallsInMain(gs, m)
  BY <1>5, <1>6 DEF CallsInMain
<1>. QED  BY <1>7 DEF gs

\* The names that are taken by what has been visited.
NamesTaken ==
  /\ \A d \in 1..Len(ast) :
       d < pos /\ ast[d].node = "function" /\ Gen!Supported(ast[d]) =>
         symbols[ast[d].name].kind # "none"
  /\ \A n \in Gen!SymbolNames :
       symbols[n].kind = "global" => n \in Gen!Formats \/ \E i \in 1..Len(ast) : Declared(i, n)

\* A visit that is no log claims one name at most.
Claims(n, s) ==
  /\ symbols' = Gen!Claim(symbols, n, s)
  /\ s.kind \in {"function", "library", "global"}
  /\ s.kind = "global" => \E i \in 1..Len(ast) : Declared(i, n)

LEMMA ClaimingStep ==
  ASSUME Analyzed, GenTypeOK, Gen!Next
  PROVE  /\ \/ symbols' = symbols
            \/ \E n \in Gen!SymbolNames : \E s : Claims(n, s)
            \/ PrintClaims
         /\ Gen!At("function") /\ Gen!Supported(ast[pos]) /\ status' = "generating" =>
              \E s : Claims(ast[pos].name, s)
<1>1. Len(ast) \in Nat /\ pos \in 1..Len(ast) + 1 /\ \A i \in 1..Len(ast) : ast[i] \in Node
  BY AnalyzedFacts DEF GenTypeOK
<1>2. /\ "main" \in Gen!SymbolNames /\ "printf" \in Gen!SymbolNames
      /\ Names \subseteq Gen!SymbolNames
  BY SymbolNamesFacts
<1>3. pos <= Len(ast) => /\ pos \in 1..Len(ast)
                         /\ ast[pos].node \in {"declaration", "function"} => ast[pos].name \in Names
  BY <1>1, NodeFields
<1>4. CASE Gen!VisitDeclaration
  <2>1. /\ ast[pos].node = "declaration" /\ pos <= Len(ast)
        /\ symbols' = symbols \/ symbols' = Gen!Claim(symbols, ast[pos].name, Gen!Symbol("global", 0))
    BY <1>4, DeclarationVisits DEF Gen!Fail
  <2>2. Declared(pos, ast[pos].name) /\ Gen!Symbol("global", 0).kind = "global"
    BY <2>1 DEF Declared, Gen!Symbol
  <2>. QED  BY <1>2, <1>3, <2>1, <2>2 DEF Claims, Gen!At, Gen!node
<1>5. CASE Gen!VisitPrintStatement
  <2>1. ast[pos].node = "print"
    BY <1>5 DEF Gen!VisitPrintStatement, Gen!At, Gen!node
  <2>2. PrintClaims
    BY <1>5, PrintSymbols
  <2>. QED  BY <2>1, <2>2 DEF Gen!At, Gen!node
<1>6. CASE Gen!VisitFunctionDefinition
  <2>. DEFINE s == Gen!Symbol("function", Len(functions) + 1)
  <2>1. /\ ast[pos].node = "function" /\ pos <= Len(ast)
        /\ IF Gen!Supported(ast[pos]) THEN symbols' = Gen!Claim(symbols, ast[pos].name, s)
                                      ELSE symbols' = symbols
    BY <1>6 DEF Gen!VisitFunctionDefinition, Gen!At, Gen!node
  <2>2. s.kind = "function"
    BY DEF Gen!Symbol
  <2>. HIDE DEF s
  <2>. QED  BY <1>2, <1>3, <2>1, <2>2 DEF Claims
<1>7. CASE Gen!VisitFunctionCall \/ Gen!EndProgram
  <2>. DEFINE s == Gen!Symbol("function", Len(functions) + 1)
  <2>1. symbols' = Gen!Claim(symbols, "main", s)
    BY <1>7, Zenon DEF Gen!VisitFunctionCall, Gen!EndProgram, Gen!MainSymbols
  <2>2. s.kind = "function"
    BY DEF Gen!Symbol
  <2>3. ast[pos].node = "call" \/ pos > Len(ast)
    BY <1>7, Zenon DEF Gen!VisitFunctionCall, Gen!EndProgram, Gen!At, Gen!node
  <2>4. pos > Len(ast) => ~(pos <= Len(ast))
    BY <1>1
  <2>5. ~Gen!At("function")
    BY <2>3, <2>4 DEF Gen!At, Gen!node
  <2>. HIDE DEF s
  <2>. QED  BY <1>2, <2>1, <2>2, <2>5, Zenon DEF Claims
<1>8. CASE /\ ~Gen!VisitDeclaration /\ ~Gen!VisitPrintStatement /\ ~Gen!VisitFunctionDefinition
           /\ ~Gen!VisitFunctionCall /\ ~Gen!EndProgram
  <2>1. symbols' = symbols
    BY <1>8, Zenon DEF Gen!Next, Gen!ThrowOutOfRange, Gen!VisitExpression,
       Gen!VisitExpressionStatement, Gen!VisitReturnStatement,
       Gen!VisitForLoopStatement, Gen!VisitWhileLoopStatement, Gen!VisitIfStatement,
       Gen!VisitIfElseStatement, Gen!EndBody, Gen!EndFunctionDefinition, Gen!Fail
  <2>2. Gen!At("function") => status' # "generating"
    BY <1>8 DEF Gen!Next, Gen!ThrowOutOfRange, Gen!VisitExpression,
       Gen!VisitExpressionStatement, Gen!VisitReturnStatement,
       Gen!VisitForLoopStatement, Gen!VisitWhileLoopStatement, Gen!VisitIfStatement,
       Gen!VisitIfElseStatement, Gen!EndBody, Gen!EndFunctionDefinition, Gen!Fail, Gen!At
  <2>. QED  BY <2>1, <2>2
<1>. QED  BY <1>4, <1>5, <1>6, <1>7, <1>8

\* A name that is taken keeps its symbol.
LEMMA ClaimsKeep ==
  ASSUME GenTypeOK, NEW n \in Gen!SymbolNames, NEW s, Claims(n, s)
  PROVE  /\ symbols'[n].kind # "none"
         /\ \A m \in Gen!SymbolNames :
              \/ symbols'[m] = symbols[m]
              \/ m = n /\ symbols[m] = Gen!NoSymbol /\ symbols'[m] = s
<1>1. SymbolsOk(symbols, Len(functions))
  BY DEF GenTypeOK
<1>2. \A m \in Gen!SymbolNames : symbols[m].kind = "none" => symbols[m] = Gen!NoSymbol
  BY <1>1 DEF SymbolsOk, Gen!NoSymbol, Gen!Symbol
<1>3. symbols' = IF symbols[n] = Gen!NoSymbol THEN [symbols EXCEPT ![n] = s] ELSE symbols
  BY DEF Claims, Gen!Claim
<1>4. \A m \in Gen!SymbolNames :
        [symbols EXCEPT ![n] = s][m] = IF m = n THEN s ELSE symbols[m]
  BY <1>1 DEF SymbolsOk
<1>5. s.kind # "none"
  BY DEF Claims
<1>6. \A m \in Gen!SymbolNames :
        symbols'[m] = IF m = n /\ symbols[n] = Gen!NoSymbol THEN s ELSE symbols[m]
  BY <1>3, <1>4
<1>7. symbols'[n].kind # "none"
  BY <1>2, <1>5, <1>6
<1>. QED  BY <1>6, <1>7

LEMMA SymbolsStay ==
  ASSUME Analyzed, GenTypeOK, Gen!Next
  PROVE  \A n \in Gen!SymbolNames :
           \/ symbols'[n] = symbols[n]
           \/ /\ symbols[n] = Gen!NoSymbol /\ symbols'[n].kind # "none"
              /\ symbols'[n].kind = "global" =>
                   n \in Gen!Formats \/ \E i \in 1..Len(ast) : Declared(i, n)
<1>1. CASE symbols' = symbols
  BY <1>1
<1>2. ASSUME NEW n \in Gen!SymbolNames, NEW s, Claims(n, s), NEW m \in Gen!SymbolNames
      PROVE  \/ symbols'[m] = symbols[m]
             \/ /\ symbols[m] = Gen!NoSymbol /\ symbols'[m].kind # "none"
                /\ symbols'[m].kind = "global" => \E i \in 1..Len(ast) : Declared(i, m)
  <2>1. \/ symbols'[m] = symbols[m]
        \/ m = n /\ symbols[m] = Gen!NoSymbol /\ symbols'[m] = s
    BY <1>2, ClaimsKeep
  <2>2. symbols'[n].kind # "none"
    BY <1>2, ClaimsKeep
  <2>. QED  BY <1>2, <2>1, <2>2 DEF Claims
<1>3. CASE PrintClaims
  <2>1. Gen!Symbol("library", 0).kind = "library" /\ Gen!Symbol("global", 0).kind = "global"
    BY DEF Gen!Symbol
  <2>. QED  BY <1>3, <2>1 DEF PrintClaims
<1>. QED  BY <1>1, <1>2, <1>3, ClaimingStep

LEMMA NamesTakenStep ==
  ASSUME Analyzed, GenTypeOK, TextKept, Gen!Next, status = "generating", NamesTaken
  PROVE  NamesTaken'
<1>1. ast' = ast /\ ast \in Seq(Node) /\ Len(ast) \in Nat /\ pos \in 1..Len(ast) + 1
      /\ \A i \in 1..Len(ast) : ast[i] \in Node
  BY AnalyzedFacts DEF GenTypeOK, TextKept
<1>2. ASSUME NEW n \in Gen!SymbolNames, symbols[n].kind # "none" PROVE symbols'[n].kind # "none"
  BY <1>2, SymbolsStay DEF Gen!NoSymbol, Gen!Symbol
<1>3. ASSUME NEW n \in Gen!SymbolNames, symbols'[n].kind = "global"
      PROVE  n \in Gen!Formats \/ \E i \in 1..Len(ast) : Declared(i, n)
  BY <1>3, SymbolsStay DEF NamesTaken
<1>4. ASSUME NEW d \in 1..Len(ast), d < pos', ast[d].node = "function", Gen!Supported(ast[d])
      PROVE  symbols'[ast[d].name].kind # "none"
  <2>1. ast[d].name \in Gen!SymbolNames
    BY <1>1, <1>4, NodeFields, SymbolNamesFacts
  <2>2. CASE d < pos
    BY <1>2, <1>4, <2>1, <2>2 DEF NamesTaken
  <2>3. CASE ~(d < pos)
    <3>1. status' = "generating"
      <4>1. pos' # pos
        BY <1>4, <2>3
      <4>. QED
        BY <4>1, Zenon DEF Gen!Next, Gen!ThrowOutOfRange, Gen!VisitDeclaration, Gen!VisitExpression,
           Gen!VisitExpressionStatement, Gen!VisitPrintStatement, Gen!VisitReturnStatement,
           Gen!VisitForLoopStatement, Gen!VisitWhileLoopStatement, Gen!VisitIfStatement,
           Gen!VisitIfElseStatement, Gen!EndBody, Gen!VisitFunctionDefinition,
           Gen!EndFunctionDefinition, Gen!VisitFunctionCall, Gen!EndProgram, Gen!Fail,
           Gen!Proceed, Gen!Evaluated, Gen!At
    <3>2. /\ pos \in 1..Len(ast)
          /\ pos' = pos + 1 \/ pos' = Gen!NextItem(pos)
      BY <3>1, VisitsGoOn
    <3>3. \A k \in pos + 1..Gen!NextItem(pos) - 1 : ast[k].node # "function"
      BY <1>1, <3>2, NextItemFacts
    <3>4. Gen!NextItem(pos) \in Nat
      <4>. DEFINE j == Gen!NextItem(pos)
      <4>1. j \in pos + 1..Len(ast) + 1
        BY <1>1, <3>2, NextItemFacts
      <4>. HIDE DEF j
      <4>2. j \in Nat
        BY <1>1, <3>2, <4>1
      <4>. QED  BY <4>2 DEF j
    <3>5. d = pos
      <4>. DEFINE j == Gen!NextItem(pos)
      <4>1. j \in Nat /\ \A k \in pos + 1..j - 1 : ast[k].node # "function"
        BY <3>3, <3>4
      <4>. HIDE DEF j
      <4>2. pos' = pos + 1 \/ pos' = j
        BY <3>2 DEF j
      <4>3. d # pos => d \in pos + 1..j - 1 \/ pos' = pos + 1
        BY <1>1, <1>4, <2>3, <3>2, <4>1, <4>2
      <4>4. d # pos => pos' # pos + 1
        BY <1>1, <1>4, <2>3, <3>2
      <4>. QED  BY <1>4, <4>1, <4>3, <4>4
    <3>6. Gen!At("function")
      BY <1>4, <3>2, <3>5 DEF Gen!At, Gen!node
    <3>7. PICK s : Claims(ast[d].name, s)
      BY <1>4, <3>1, <3>5, <3>6, ClaimingStep
    <3>. QED  BY <2>1, <3>7, ClaimsKeep, Zenon
  <2>. QED  BY <2>2, <2>3
<1>. QED
  BY <1>1, <1>3, <1>4 DEF NamesTaken, Declared, Gen!Supported, Gen!SymbolNames, Gen!Allocators

\* The instructions that evaluations emit.
Evaluators == {i \in Instruction : i.op \in Evaluating}

LEMMA EvaluatorsTake ==
  ASSUME pos \in Nat
  PROVE  Takes(Evaluators, Evaluating, BOOLEAN) /\ Takes(Evaluators, Evaluating, {TRUE})
<1>1. ASSUME NEW op \in Evaluating, NEW ok \in BOOLEAN,
             NEW name \in InstrNames
      PROVE  Gen!Instr(op, name, ok) \in Evaluators
  <2>1. op \in {"load", "store", "arith", "ret", "call", "print"}
    BY Zenon DEF Evaluating, Reading
  <2>2. Gen!Instr(op, name, ok) \in Instruction
    BY <2>1, InstrTyped, Zenon
  <2>3. Gen!Instr(op, name, ok).op = op
    BY Zenon DEF Gen!Instr
  <2>. QED  BY <2>2, <2>3, Zenon DEF Evaluators
<1>. QED  BY <1>1, Zenon DEF Takes

\* Code without instructions of a kind adds none.
LEMMA PutAddsNever ==
  ASSUME NEW fs \in Seq(Function), NEW f \in 1..Len(fs), NEW b \in 1..Len(fs[f].blocks),
         NEW at, at.function = f, at.block = b, NEW p \in Nat, Behind(fs, p),
         NEW S, S \subseteq Instruction, NEW code \in Seq(S), NEW op, \A i \in S : i.op # op
  PROVE  Never(Gen!Put(fs, at, code), p, op)
<1>1. PICK gs : gs = Gen!Put(fs, at, code)
  OBVIOUS
<1>2. Grows(fs, gs, S)
  BY <1>1, PutGrows
<1>3. ASSUME NEW g \in Nat, NEW c \in Nat, NEW j \in Nat, Makes(gs, p, op, g, c, j)
      PROVE  FALSE
  <2>1. \/ Holds(fs, g, c, j) /\ InstrOf(gs, g, c, j) = InstrOf(fs, g, c, j)
        \/ InstrOf(gs, g, c, j) \in S
    BY <1>2, <1>3 DEF Makes, Grows
  <2>2. ~(p < p)
    OBVIOUS
  <2>3. ~Holds(fs, g, c, j) \/ InstrOf(gs, g, c, j) # InstrOf(fs, g, c, j)
    BY <1>3, <2>2 DEF Makes, Behind
  <2>. QED  BY <1>3, <2>1, <2>3 DEF Makes
<1>. QED  BY <1>1, <1>3 DEF Never

\* The calls that main makes: of a generated function and with plain arguments.
Called(k) ==
  /\ ast[k].node = "call" /\ PlainNode(k)
  /\ \E d \in NodesOf("function") : ast[d].name = ast[k].name /\ Gen!Supported(ast[d])

\* A name that no declaration and no string of a log has is that of no global.
LEMMA NoGlobalHides ==
  ASSUME Analyzed, NamesTaken, NEW n \in Names, n \notin Gen!Formats, GlobalType(n) = "none"
  PROVE  symbols[n].kind # "global"
<1>. SUFFICES ASSUME symbols[n].kind = "global" PROVE FALSE
  OBVIOUS
<1>1. PICK i \in 1..Len(ast) : ast[i].node = "declaration" /\ ast[i].name = n
  BY SymbolNamesFacts DEF NamesTaken, Declared
<1>2. i \in DeclarationsOf(n) /\ ast[i] \in Node
  BY <1>1, AnalyzedFacts DEF DeclarationsOf
<1>3. GlobalType(n) = ast[i].type
  <2>1. GlobalType(n) = symbolTable.scopes[1][n].type
    BY GlobalTypes DEF Analyzed
  <2>. QED  BY <1>2, <2>1 DEF Analyzed, ScopesInv, GlobalScopeIsDeclared
<1>4. ast[i].type \in ScalarTypes \cup {"array"}
  BY <1>1, <1>2, NodeFields DEF ScalarTypes
<1>. QED  BY <1>3, <1>4 DEF ScalarTypes

\* Such a call finds its callee among the symbols and all its values.
LEMMA CallIsMade ==
  ASSUME NEW st, Outside(st), NamesTaken, Called(pos), Gen!VisitFunctionCall
  PROVE  PutsInMain(Append(CallCode, CallInstr))
<1>. DEFINE name == ast[pos].name
<1>1. /\ Analyzed /\ GenTypeOK /\ Known /\ pos \in 1..Len(ast) /\ pos \in Accepted
      /\ SymbolsOk(symbols, Len(functions)) /\ Len(ast) \in Nat /\ pos \in Nat
      /\ name \in Names /\ name \in Gen!SymbolNames
      /\ ast[pos].node = "call" /\ PlainNode(pos)
  <2>1. name \in Names
    BY OutsideFacts, NodeFields DEF Called
  <2>. QED  BY <2>1, AnalyzedFacts, OutsideFacts, SymbolNamesFacts DEF Outside, Called
<1>2. PICK d \in 1..Len(ast) : /\ ast[d].node = "function" /\ ast[d].name = name
                               /\ Gen!Supported(ast[d])
  BY DEF Called, NodesOf
<1>3. d < pos
  <2>1. PICK c \in 1..pos - 1 : ast[c].node = "function" /\ ast[c].name = name
    BY <1>1 DEF Analyzed, CallsInv, CallsAreResolved
  <2>2. c \in 1..Len(ast) /\ c < pos
    BY <1>1
  <2>3. c = d
    BY <1>1, <1>2, <2>1, <2>2 DEF Analyzed, CallsInv, FunctionsAreDefinitions
  <2>. QED  BY <2>2, <2>3
<1>0. name \notin Gen!Formats /\ name # "main"
  <2>1. NoClash /\ d \in NodesOf("function")
    BY <1>1, <1>2 DEF PlainNode, NodesOf
  <2>. QED  BY <1>2, <2>1 DEF NoClash, Clash
<1>4. Callee = symbols[name]
  BY <1>0, <1>1, MainSymbolsKeep DEF Callee
<1>5. symbols[name].kind # "none"
  BY <1>2, <1>3 DEF NamesTaken
<1>6. symbols[name].kind # "global"
  BY <1>0, <1>1, NoGlobalHides DEF PlainNode
<1>7. Callee.kind \in {"function", "library"}
  <2>. HIDE DEF name
  <2>1. symbols[name].kind \in {"none", "function", "global", "library"}
    BY <1>1 DEF SymbolsOk
  <2>. QED  BY <1>4, <1>5, <1>6, <2>1
<1>8. CallNulls = {}
  <2>1. \A i \in 1..Len(CallValues) : OfType(CallValues[i], "int", Gen!MainIndex, Evaluators)
    BY <1>1, EvaluatorsTake, CallEvaluates
  <2>. QED  BY <2>1 DEF CallNulls, OfType, ScalarTypes
<1>. QED  BY <1>7, <1>8, CallEmits

LEMMA CallIsOne ==
  ASSUME NEW st, Outside(st), Behind(Gen!WithMain, pos), ast[pos].node = "call",
         NEW p, p = pos
  PROVE  LET put(c) == Gen!Put(Gen!WithMain, Gen!EntryOf(Gen!MainIndex), c)
         IN  /\ Never(put(<<>>), p, "call") /\ Never(put(CallCode), p, "call")
             /\ Once(put(Append(CallCode, CallInstr)), p, "call")
<1>. DEFINE at == Gen!EntryOf(Gen!MainIndex)
            fs == Gen!WithMain
            m  == Gen!MainIndex
            call == CallInstr
<1>1. pos \in Nat /\ GenTypeOK /\ ast[pos].name \in Names
  BY OutsideFacts, NodeFields DEF Outside
<1>2. /\ fs \in Seq(Function) /\ m \in 1..Len(fs) /\ at.function = m /\ at.block = 1
      /\ 1 \in 1..Len(fs[m].blocks) /\ Behind(fs, p) /\ p \in Nat
  <2>1. fs \in Seq(Function) /\ m \in 1..Len(fs)
    BY <1>1, MainPlace
  <2>2. at.function = m /\ at.block = 1
    BY DEF Gen!EntryOf
  <2>. HIDE DEF fs, m
  <2>3. 1 \in 1..Len(fs[m].blocks)
    BY <2>1, BlocksFacts
  <2>. QED  BY <1>1, <2>1, <2>2, <2>3 DEF fs
<1>3. /\ CallCode \in Seq(Evaluators) /\ Evaluators \subseteq Instruction
      /\ \A i \in Evaluators : i.op # "call"
  <2>1. CallCode \in Seq(Evaluators)
    BY <1>1, EvaluatorsTake, CallEvaluates
  <2>. QED  BY <2>1 DEF Evaluators, Evaluating, Reading
<1>4. call \in Instruction /\ call.from = p /\ call.op = "call"
  <2>1. Gen!Matches(CallValues, Callee, ast[pos].name) \in BOOLEAN
    BY DEF Gen!Matches
  <2>2. ast[pos].name \in Lexemes
    BY <1>1 DEF Lexemes
  <2>3. call \in Instruction
    BY <1>1, <2>1, <2>2, InstrTyped, InstrNamesFacts, Zenon DEF CallInstr
  <2>4. call.from = p /\ call.op = "call"
    BY DEF CallInstr, Gen!Instr
  <2>. QED  BY <2>3, <2>4
<1>. HIDE DEF at, fs, m, call
<1>5. Never(Gen!Put(fs, at, <<>>), p, "call")
  <2>1. <<>> \in Seq(Evaluators)
    BY EmptySeq
  <2>. QED  BY <1>2, <1>3, <2>1, PutAddsNever
<1>6. Never(Gen!Put(fs, at, CallCode), p, "call")
  BY <1>2, <1>3, PutAddsNever
<1>7. Once(Gen!Put(fs, at, Append(CallCode, call)), p, "call")
  <2>1. CallCode \in Code /\ \A n \in 1..Len(CallCode) : CallCode[n].op # call.op
    <3>1. \A n \in 1..Len(CallCode) : CallCode[n] \in Evaluators
      BY <1>3, ElementOfSeq
    <3>2. CallCode \in Code
      BY <1>3 DEF Code
    <3>. QED  BY <1>3, <1>4, <3>1, <3>2
  <2>2. Once(Gen!Put(fs, at, Append(CallCode, call)), p, call.op)
    BY <1>2, <1>4, <2>1, PutAddsLast
  <2>. QED  BY <1>4, <2>2
<1>. QED  BY <1>5, <1>6, <1>7 DEF at, fs, m, call

\* Where main is before a call goes into it, and that it has the calls so far.
LEMMA MainHasCalls ==
  ASSUME GenTypeOK, NamesTaken, NoClash, CallsInMain(functions, symbols["main"].index)
  PROVE  /\ CallsInMain(Gen!WithMain, Gen!MainIndex)
         /\ Behind(functions, pos) => Behind(Gen!WithMain, pos)
         /\ Gen!MainSymbols["main"].index = Gen!MainIndex
<1>. DEFINE none == <<>>
            new == Gen!NewFunction(0, Gen!I32, none)
            main == symbols["main"]
            count == Len(functions)
<1>1. /\ functions \in Seq(Function) /\ main.kind \in {"none", "function", "global"}
      /\ main = Gen!NoSymbol <=> main.kind = "none"
      /\ Gen!MainIndex = IF main.kind = "function" THEN main.index ELSE count + 1
  BY MainPlace DEF GenTypeOK
<1>2. main.kind # "global"
  <2>. SUFFICES ASSUME main.kind = "global" PROVE FALSE
    OBVIOUS
  <2>1. PICK i \in 1..Len(ast) : ast[i].node = "declaration" /\ ast[i].name = "main"
    BY SymbolNamesFacts, FormatsFacts DEF NamesTaken, Declared
  <2>2. i \in NodesOf("declaration")
    BY <2>1 DEF NodesOf
  <2>. QED  BY <2>1, <2>2 DEF NoClash, Clash
<1>3. \A S : Grows(functions, Gen!WithMain, S)
  <2>1. 0 \in Nat /\ Gen!I32 \in ValueTypes /\ none \in Seq(ValueTypes)
    BY EmptySeq DEF ValueTypes
  <2>. HIDE DEF none
  <2>2. \A S : Grows(functions, Append(functions, new), S)
    BY <1>1, <2>1, NewFunctionGrows
  <2>3. Gen!WithMain = functions \/ Gen!WithMain = Append(functions, new)
    BY DEF Gen!WithMain, none
  <2>4. PICK gs : gs = Gen!WithMain
    OBVIOUS
  <2>5. ASSUME NEW S PROVE Grows(functions, gs, S)
    <3>1. CASE gs = functions
      BY <3>1, GrowsNot
    <3>2. CASE gs = Append(functions, new)
      BY <2>2, <3>2
    <3>. QED  BY <2>3, <2>4, <3>1, <3>2
  <2>. QED  BY <2>4, <2>5
<1>4. CallsInMain(Gen!WithMain, main.index)
  <2>1. PICK gs, S : gs = Gen!WithMain /\ S = {}
    OBVIOUS
  <2>2. Grows(functions, gs, S) /\ \A i \in S : i.op # "call"
    BY <1>3, <2>1
  <2>3. PICK m : m = main.index
    OBVIOUS
  <2>4. CallsInMain(gs, m)
    BY <2>2, <2>3, CallsStay
  <2>. QED  BY <2>1, <2>3, <2>4
<1>5. Behind(functions, pos) => Behind(Gen!WithMain, pos)
  <2>1. Grows(functions, Gen!WithMain, {})
    BY <1>3
  <2>. QED  BY <2>1 DEF Behind, Grows
<1>6. Gen!MainSymbols["main"] = IF main = Gen!NoSymbol THEN Gen!Symbol("function", count + 1)
                                                       ELSE main
  BY MainSymbolsTyped
<1>7. CASE main.kind = "none"
  <2>1. main.index = 0
    BY <1>1, <1>7 DEF Gen!NoSymbol, Gen!Symbol
  <2>2. CallsInMain(Gen!WithMain, Gen!MainIndex)
    BY <1>4, <2>1, NoCalls
  <2>3. Gen!MainSymbols["main"].index = count + 1
    BY <1>1, <1>6, <1>7 DEF Gen!Symbol
  <2>. QED  BY <1>1, <1>5, <1>7, <2>2, <2>3
<1>8. CASE main.kind = "function"
  BY <1>1, <1>4, <1>5, <1>6, <1>8
<1>. QED  BY <1>1, <1>2, <1>7, <1>8

\* The calls of the whole program, where they all have to be.
MainHasAll == NoClash => CallsInMain(functions, symbols["main"].index)

LEMMA CallInOrder ==
  ASSUME NEW st, Outside(st), NamesTaken, NoClash, MainHasAll, Behind(functions, pos),
         Gen!VisitFunctionCall
  PROVE  CallsInMain(functions', symbols'["main"].index)
<1>. DEFINE at == Gen!EntryOf(Gen!MainIndex)
            fs == Gen!WithMain
            m  == Gen!MainIndex
<1>1. pos \in Nat /\ GenTypeOK /\ ast[pos].node = "call" /\ ast[pos].name \in Names
  BY CallEmits, OutsideFacts, NodeFields DEF Outside
<1>2. CallsInMain(fs, m) /\ Behind(fs, pos) /\ symbols'["main"].index = m
  BY <1>1, CallEmits, MainHasCalls DEF MainHasAll
<1>3. fs \in Seq(Function) /\ m \in 1..Len(fs) /\ at.function = m /\ at.block = 1
  BY <1>1, MainPlace DEF Gen!EntryOf
<1>4. PICK p : p = pos
  OBVIOUS
<1>5. /\ Never(Gen!Put(fs, at, <<>>), p, "call") /\ Never(Gen!Put(fs, at, CallCode), p, "call")
      /\ Once(Gen!Put(fs, at, Append(CallCode, CallInstr)), p, "call")
  BY <1>1, <1>2, <1>4, CallIsOne
<1>6. CallCode \in Code /\ \A n \in 1..Len(CallCode) : CallCode[n].op # "call"
  <2>1. CallCode \in Seq(Evaluators)
    BY <1>1, EvaluatorsTake, CallEvaluates
  <2>2. \A n \in 1..Len(CallCode) : CallCode[n] \in Evaluators
    BY <2>1, ElementOfSeq
  <2>3. CallCode \in Code
    BY <2>1 DEF Code, Evaluators
  <2>. QED  BY <2>2, <2>3 DEF Evaluators, Evaluating, Reading
<1>7. CallInstr \in Instruction /\ CallInstr.from = p
  <2>1. Gen!Matches(CallValues, Callee, ast[pos].name) \in BOOLEAN
    BY DEF Gen!Matches
  <2>2. ast[pos].name \in Lexemes
    BY <1>1 DEF Lexemes
  <2>3. CallInstr \in Instruction
    BY <1>1, <2>1, <2>2, InstrTyped, InstrNamesFacts, Zenon DEF CallInstr
  <2>4. CallInstr.from = p
    BY <1>4 DEF CallInstr, Gen!Instr
  <2>. QED  BY <2>3, <2>4
<1>8. PICK c \in Code :
        /\ functions' = Gen!Put(fs, at, c)
        /\ \A n \in 1..Len(c) : c[n].op = "call" => c[n].from = p
        /\ Once(Gen!Put(fs, at, c), p, "call") \/ Never(Gen!Put(fs, at, c), p, "call")
  <2>1. \/ PutsInMain(<<>>) \/ PutsInMain(CallCode) \/ PutsInMain(Append(CallCode, CallInstr))
    BY CallEmits
  <2>2. CASE PutsInMain(<<>>)
    <3>1. <<>> \in Code /\ Len(<<>>) = 0 /\ \A n \in 1..Len(<<>>) : FALSE
      BY EmptySeq DEF Code
    <3>2. functions' = Gen!Put(fs, at, <<>>)
      BY <2>2 DEF PutsInMain
    <3>. HIDE DEF fs, at
    <3>. QED  BY <1>5, <3>1, <3>2
  <2>3. CASE PutsInMain(CallCode)
    <3>2. functions' = Gen!Put(fs, at, CallCode)
      BY <2>3 DEF PutsInMain
    <3>. HIDE DEF fs, at
    <3>. QED  BY <1>5, <1>6, <3>2
  <2>4. CASE PutsInMain(Append(CallCode, CallInstr))
    <3>. DEFINE all == Append(CallCode, CallInstr)
                n == Len(CallCode)
    <3>1. /\ all \in Code /\ n \in Nat /\ Len(all) = n + 1 /\ all[n + 1] = CallInstr
          /\ \A i \in 1..n : all[i] = CallCode[i]
      BY <1>6, <1>7, AppendProperties, LenProperties DEF Code
    <3>2. functions' = Gen!Put(fs, at, all)
      BY <2>4 DEF PutsInMain
    <3>3. Once(Gen!Put(fs, at, all), p, "call")
      BY <1>5
    <3>4. \A i \in 1..n : CallCode[i].op # "call"
      BY <1>6
    <3>. HIDE DEF fs, at, all, n
    <3>5. ASSUME NEW i \in 1..Len(all) PROVE all[i].op = "call" => all[i].from = p
      <4>1. i \in 1..n \/ i = n + 1
        BY <3>1
      <4>. QED  BY <1>7, <3>1, <3>4, <4>1
    <3>. QED  BY <3>1, <3>2, <3>3, <3>5
  <2>. QED  BY <2>1, <2>2, <2>3, <2>4
<1>. HIDE DEF fs, at, m
<1>9. CallsInMain(Gen!Put(fs, at, c), m)
  <2>1. p \in Nat /\ Behind(fs, p)
    BY <1>1, <1>2, <1>4
  <2>2. LET gs == Gen!Put(fs, at, c) IN Once(gs, p, "call") \/ Never(gs, p, "call")
    BY <1>8
  <2>3. CallsInMain(fs, m)
    BY <1>2
  <2>4. \A n \in 1..Len(c) : c[n].op = "call" => c[n].from = p
    BY <1>8
  <2>. QED  BY <1>3, <2>1, <2>2, <2>3, <2>4, CallGoesLast
<1>. QED  BY <1>2, <1>8, <1>9

\* Main's return is no call.
LEMMA FinishInOrder ==
  ASSUME GenTypeOK, NamesTaken, NoClash, MainHasAll, Gen!EndProgram
  PROVE  CallsInMain(functions', symbols'["main"].index)
<1>. DEFINE at == Gen!EntryOf(Gen!MainIndex)
            fs == Gen!WithMain
            m  == Gen!MainIndex
            ret == Gen!Instr("ret", "", TRUE)
            S == {ret}
<1>1. functions' = Gen!Put(fs, at, <<ret>>) /\ symbols' = Gen!MainSymbols
  BY Zenon DEF Gen!EndProgram
<1>2. CallsInMain(fs, m) /\ symbols'["main"].index = m
  BY <1>1, MainHasCalls, Zenon DEF MainHasAll
<1>3. fs \in Seq(Function) /\ m \in 1..Len(fs) /\ at.function = m /\ at.block = 1
  BY MainPlace DEF Gen!EntryOf
<1>4. ret \in Instruction /\ ret.op # "call"
  <2>1. pos \in Nat
    BY LenProperties DEF GenTypeOK
  <2>. QED  BY <2>1, InstrTyped, InstrNamesFacts, Zenon DEF Gen!Instr
<1>. HIDE DEF fs, at, m, ret
<1>5. Grows(fs, Gen!Put(fs, at, <<ret>>), S)
  <2>1. S \subseteq Instruction /\ <<ret>> \in Seq(S) /\ 1 \in 1..Len(fs[m].blocks)
    BY <1>3, <1>4, BlocksFacts
  <2>. QED  BY <1>3, <2>1, PutGrows
<1>6. \A i \in S : i.op # "call"
  BY <1>4
<1>. QED  BY <1>1, <1>2, <1>5, <1>6, CallsStay

\* A visit that is no call adds none, and leaves main where it is.
LEMMA OthersInOrder ==
  ASSUME Analyzed, GenTypeOK, Grown, Gen!Next, ~Gen!VisitFunctionCall, ~Gen!EndProgram,
         NoClash, MainHasAll
  PROVE  CallsInMain(functions', symbols'["main"].index)
<1>. DEFINE index == symbols["main"].index
<1>1. CallsInMain(functions', index)
  <2>1. CASE pos \in NodesOf("call")
    <3>1. ast[pos].node = "call"
      BY <2>1 DEF NodesOf
    <3>2. \E how \in {"threw", "crashed"} : Gen!Fail(how)
      BY <3>1 DEF Gen!Next, Gen!ThrowOutOfRange, Gen!VisitDeclaration, Gen!VisitExpression,
         Gen!VisitExpressionStatement, Gen!VisitPrintStatement, Gen!VisitReturnStatement,
         Gen!VisitForLoopStatement, Gen!VisitWhileLoopStatement, Gen!VisitIfStatement,
         Gen!VisitIfElseStatement, Gen!EndBody, Gen!VisitFunctionDefinition,
         Gen!EndFunctionDefinition, Gen!At, Gen!node
    <3>3. functions' = functions
      BY <3>2 DEF Gen!Fail
    <3>. QED  BY <3>3 DEF MainHasAll
  <2>2. CASE pos \notin NodesOf("call")
    <3>1. \A i \in Fresh : i.op # "call"
      BY <2>2 DEF Fresh
    <3>2. PICK fs, gs, S, m : fs = functions /\ gs = functions' /\ S = Fresh /\ m = index
      OBVIOUS
    <3>3. Grows(fs, gs, S) /\ CallsInMain(fs, m) /\ \A i \in S : i.op # "call"
      BY <3>1, <3>2 DEF Grown, MainHasAll
    <3>4. CallsInMain(gs, m)
      BY <3>3, CallsStay
    <3>. QED  BY <3>2, <3>4
  <2>. QED  BY <2>1, <2>2
<1>2. symbols'["main"] = symbols["main"] \/ symbols["main"] = Gen!NoSymbol
  BY SymbolsStay, SymbolNamesFacts
<1>3. symbols["main"] = Gen!NoSymbol => index = 0
  BY DEF Gen!NoSymbol, Gen!Symbol
<1>4. PICK gs, m : gs = functions' /\ m = symbols'["main"].index
  OBVIOUS
<1>. HIDE DEF index
<1>5. CASE symbols'["main"] = symbols["main"]
  BY <1>1, <1>5 DEF index
<1>6. CASE index = 0
  <2>1. CallsInMain(gs, m)
    BY <1>1, <1>4, <1>6, NoCalls
  <2>. QED  BY <1>4, <2>1
<1>. QED  BY <1>2, <1>3, <1>5, <1>6

\* The rest of visit(Program) leaves the functions the symbols are of.
LEMMA FinishKnows ==
  ASSUME GenTypeOK, TextKept, SymbolsKnown, Gen!EndProgram
  PROVE  SymbolsKnown'
<1>. DEFINE ret == Gen!Instr("ret", "", TRUE)
            code == <<ret>>
<1>1. /\ functions' = Gen!Put(Gen!WithMain, Gen!EntryOf(Gen!MainIndex), code)
      /\ symbols' = Gen!MainSymbols /\ pos' = pos /\ ast' = ast
  BY Zenon DEF Gen!EndProgram, TextKept
<1>2. ret \in Fresh
  <2>1. pos \in 1..Len(ast) + 1
    BY DEF GenTypeOK
  <2>2. pos \in Nat
    BY <2>1
  <2>. QED  BY <2>2, FreshInstr, InstrNamesFacts, Zenon
<1>. HIDE DEF ret
<1>3. code \in Seq(Fresh)
  BY <1>2
<1>. HIDE DEF code
<1>4. /\ \A i \in 1..Len(functions) : /\ functions'[i].node = functions[i].node
                                      /\ functions'[i].params = functions[i].params
      /\ \A n \in Gen!SymbolNames \ {"main"} : symbols'[n] = symbols[n]
  BY <1>1, <1>3, MainGrows
<1>5. SymbolsOk(symbols, Len(functions))
  BY DEF GenTypeOK
<1>. SUFFICES ASSUME NEW n \in Gen!SymbolNames \ {"main"}
              PROVE  (/\ symbols[n].kind = "function" => Defined(n, symbols[n].index)
                      /\ symbols[n].kind = "library" => n \in Gen!Allocators \cup {"printf"})'
  BY DEF SymbolsKnown, Gen!SymbolNames, Gen!Allocators
<1>6. symbols[n].kind = "library" => n \in Gen!Allocators \cup {"printf"}
  BY DEF SymbolsKnown
<1>7. ASSUME symbols[n].kind = "function" PROVE Defined(n, symbols[n].index)'
  <2>. DEFINE index == symbols[n].index
  <2>1. index \in 1..Len(functions) /\ Defined(n, index)
    BY <1>5, <1>7 DEF SymbolsKnown, SymbolsOk
  <2>2. symbols'[n].index = index
    BY <1>4
  <2>. HIDE DEF index
  <2>3. PICK d \in 1..pos - 1 :
          /\ ast[d].node = "function" /\ ast[d].name = n
          /\ functions[index].node = d
          /\ functions[index].params = [i \in 1..Len(ast[d].parameters) |-> Gen!I32]
    BY <2>1 DEF Defined
  <2>4. /\ d \in 1..pos' - 1 /\ ast'[d].node = "function" /\ ast'[d].name = n
        /\ functions'[index].node = d
        /\ functions'[index].params = [i \in 1..Len(ast'[d].parameters) |-> Gen!I32]
    BY <1>1, <1>4, <2>1, <2>3
  <2>. QED  BY <2>2, <2>4 DEF Defined, Gen!I32
<1>. QED  BY <1>4, <1>6, <1>7

\* Every call that main has to make, it makes once.
CalledSoFar == \A k \in 1..Len(ast) : k < pos /\ Called(k) => Once(functions, k, "call")

\* The call that is visited.
LEMMA NodeIsCalled ==
  ASSUME NEW st, Analyzed, GenTypeOK, InsertOk, Reached(st), Known, NamesTaken, MainHasAll,
         Behind(functions, pos), Gen!Next, status' = "generating", Called(pos)
  PROVE  Once(functions', pos, "call")
<1>1. /\ pos \in 1..Len(ast) /\ pos \in Nat /\ ast[pos].node = "call" /\ PlainNode(pos) /\ NoClash
      /\ pos' # pos
  <2>1. pos \in 1..Len(ast) /\ pos' \in Nat /\ pos < pos'
    BY VisitsGoOn
  <2>2. pos \in Nat /\ pos' # pos
    BY <2>1
  <2>. QED  BY <2>1, <2>2 DEF Called, PlainNode
<1>2. frames = <<>>
  BY <1>1, BodyGoesOn
<1>3. Outside(st)
  BY <1>1, <1>2 DEF Outside
<1>4. Gen!VisitFunctionCall
  <2>1. \A how \in {"threw", "crashed"} : ~Gen!Fail(how)
    BY <1>1 DEF Gen!Fail
  <2>2. ~Gen!ThrowOutOfRange /\ ~Gen!EndProgram
    BY <2>1 DEF Gen!ThrowOutOfRange, Gen!EndProgram
  <2>. QED
    BY <1>1, <2>2 DEF Gen!Next, Gen!VisitDeclaration, Gen!VisitExpression,
       Gen!VisitExpressionStatement, Gen!VisitPrintStatement, Gen!VisitReturnStatement,
       Gen!VisitForLoopStatement, Gen!VisitWhileLoopStatement, Gen!VisitIfStatement,
       Gen!VisitIfElseStatement, Gen!EndBody, Gen!VisitFunctionDefinition,
       Gen!EndFunctionDefinition, Gen!At, Gen!node
<1>5. PutsInMain(Append(CallCode, CallInstr))
  BY <1>3, <1>4, CallIsMade
<1>6. Behind(Gen!WithMain, pos)
  BY <1>1, MainHasCalls DEF MainHasAll
<1>7. PICK p : p = pos
  OBVIOUS
<1>8. Once(Gen!Put(Gen!WithMain, Gen!EntryOf(Gen!MainIndex), Append(CallCode, CallInstr)), p, "call")
  BY <1>1, <1>3, <1>6, <1>7, CallIsOne, Zenon
<1>. QED  BY <1>5, <1>7, <1>8 DEF PutsInMain

LEMMA CalledStep ==
  ASSUME NEW st, Analyzed, GenTypeOK, InsertOk, Reached(st), Known, NamesTaken, MainHasAll,
         status = "generating", Behind(functions, pos), TextKept, Gen!Next, CalledSoFar
  PROVE  CalledSoFar'
<1>1. Len(ast) \in Nat /\ pos \in 1..Len(ast) + 1 /\ pos \in Nat /\ ast' = ast /\ ast \in Seq(Node)
  BY AnalyzedFacts DEF GenTypeOK, TextKept
<1>2. Grown
  BY GrowingStep
<1>3. \A k : Called(k)' = Called(k)
  BY PlainKept DEF TextKept, Called, NodesOf, Gen!Supported
<1>4. ASSUME NEW k \in 1..Len(ast), k < pos', Called(k) PROVE Once(functions', k, "call")
  <2>1. CASE k < pos
    <3>1. k # pos
      BY <1>1, <2>1
    <3>. QED  BY <1>2, <1>4, <2>1, <3>1, OthersKept DEF CalledSoFar
  <2>2. CASE ~(k < pos)
    <3>1. status' = "generating"
      <4>1. pos' # pos
        BY <1>4, <2>2
      <4>. QED
        BY <4>1, Zenon DEF Gen!Next, Gen!ThrowOutOfRange, Gen!VisitDeclaration, Gen!VisitExpression,
           Gen!VisitExpressionStatement, Gen!VisitPrintStatement, Gen!VisitReturnStatement,
           Gen!VisitForLoopStatement, Gen!VisitWhileLoopStatement, Gen!VisitIfStatement,
           Gen!VisitIfElseStatement, Gen!EndBody, Gen!VisitFunctionDefinition,
           Gen!EndFunctionDefinition, Gen!VisitFunctionCall, Gen!EndProgram, Gen!Fail,
           Gen!Proceed, Gen!Evaluated, Gen!At
    <3>2. /\ pos \in 1..Len(ast)
          /\ pos' = pos + 1 \/ pos' = Gen!NextItem(pos)
      BY <3>1, VisitsGoOn
    <3>3. k = pos
      <4>. DEFINE j == Gen!NextItem(pos)
      <4>1. j \in pos + 1..Len(ast) + 1 /\ \A i \in pos + 1..j - 1 : ast[i].node # "call"
        BY <1>1, <3>2, NextItemFacts
      <4>2. ast[k].node = "call"
        BY <1>4 DEF Called
      <4>. HIDE DEF j
      <4>3. pos' = pos + 1 \/ pos' = j
        BY <3>2 DEF j
      <4>4. k # pos => k \in pos + 1..j - 1 \/ pos' = pos + 1
        BY <1>1, <1>4, <2>2, <3>2, <4>1, <4>3
      <4>5. k # pos => pos' # pos + 1
        BY <1>1, <1>4, <2>2, <3>2
      <4>. QED  BY <4>1, <4>2, <4>4, <4>5
    <3>. QED  BY <1>4, <3>1, <3>3, NodeIsCalled, Zenon
  <2>. QED  BY <2>1, <2>2
<1>. QED  BY <1>1, <1>3, <1>4 DEF CalledSoFar, Once, Makes, Holds, InstrOf

\* The whole invariant: the calls are made in order, and the names they go by
\* are those of their definitions, also when the generator has stopped.
OrderKnown ==
  /\ SymbolsKnown /\ NamesTaken /\ CalledSoFar /\ MainHasAll
  /\ status = "done" => pos > Len(ast)
OrderedInv == LoweredInv /\ (outcome = "accepted" => OrderKnown)

LEMMA NothingCalled == Gen!Init => OrderKnown
<1>. SUFFICES ASSUME Gen!Init PROVE OrderKnown
  OBVIOUS
<1>1. /\ pos = 1 /\ Len(functions) = 0 /\ status = "generating"
      /\ symbols = [n \in Gen!SymbolNames |-> IF n \in Gen!Allocators
                                                THEN Gen!Symbol("library", 0) ELSE Gen!NoSymbol]
  BY DEF Gen!Init
<1>2. SymbolsKnown
  BY FirstKnown DEF Known
<1>3. NamesTaken
  BY <1>1 DEF NamesTaken, Gen!Symbol, Gen!NoSymbol
<1>4. CalledSoFar
  BY <1>1 DEF CalledSoFar
<1>5. MainHasAll
  BY <1>1 DEF MainHasAll, CallsInMain, CallAt, Holds
<1>. QED  BY <1>1, <1>2, <1>3, <1>4, <1>5 DEF OrderKnown

LEMMA OrderedInit == CompilerInit => OrderedInv
BY LoweredInit, Zenon DEF CompilerInit, Init, OrderedInv

LEMMA OrderedGenerate == OrderedInv /\ Generate => OrderKnown'
<1>. SUFFICES ASSUME OrderedInv, Generate PROVE OrderKnown'
  OBVIOUS
<1>1. /\ outcome = "accepted" /\ TextKept /\ Gen!Next /\ ast' = ast
      /\ ModuleInv /\ LoweredInv /\ OrderKnown
  BY Zenon DEF Generate, vars, TextKept, OrderedInv, LoweredInv
<1>2. status = "generating"
  BY <1>1, Zenon DEF Gen!Next, Gen!ThrowOutOfRange, Gen!VisitDeclaration, Gen!VisitExpression,
     Gen!VisitExpressionStatement, Gen!VisitPrintStatement, Gen!VisitReturnStatement,
     Gen!VisitForLoopStatement, Gen!VisitWhileLoopStatement, Gen!VisitIfStatement,
     Gen!VisitIfElseStatement, Gen!EndBody, Gen!VisitFunctionDefinition,
     Gen!EndFunctionDefinition, Gen!VisitFunctionCall, Gen!EndProgram, Gen!At
<1>3. Analyzed /\ GenTypeOK /\ InsertOk /\ Known /\ Behind(functions, pos)
  BY <1>1, <1>2 DEF LoweredInv, ModuleInv, NamesInv, CompilerInv, GenInv, Analyzed
<1>4. PICK st : Reached(st)
  BY <1>1, <1>2 DEF ModuleInv, CompilerInv, GenInv
<1>5. Grown /\ (status' # "done" => Known')
  BY <1>1, <1>2, <1>3, <1>4, GrowingStep
<1>6. pos \in 1..Len(ast) + 1 /\ Len(ast) \in Nat
  BY <1>3, AnalyzedFacts DEF GenTypeOK
<1>7. status' = "done" => Gen!EndProgram
  BY <1>1, <1>2 DEF Gen!Next, Gen!ThrowOutOfRange, Gen!VisitDeclaration, Gen!VisitExpression,
     Gen!VisitExpressionStatement, Gen!VisitPrintStatement, Gen!VisitReturnStatement,
     Gen!VisitForLoopStatement, Gen!VisitWhileLoopStatement, Gen!VisitIfStatement,
     Gen!VisitIfElseStatement, Gen!EndBody, Gen!VisitFunctionDefinition,
     Gen!EndFunctionDefinition, Gen!VisitFunctionCall, Gen!Fail, Gen!Proceed, Gen!Evaluated
<1>8. SymbolsKnown'
  <2>1. CASE status' = "done"
    BY <1>1, <1>3, <1>7, <2>1, FinishKnows DEF OrderKnown
  <2>2. CASE status' # "done"
    BY <1>5, <2>2 DEF Known
  <2>. QED  BY <2>1, <2>2
<1>9. NamesTaken'
  BY <1>1, <1>2, <1>3, NamesTakenStep DEF OrderKnown
<1>10. CalledSoFar'
  BY <1>1, <1>2, <1>3, <1>4, CalledStep DEF OrderKnown
<1>11. MainHasAll'
  <2>1. NoClash' <=> NoClash
    BY <1>1 DEF NoClash, NodesOf, Clash, Gen!Allocators
  <2>2. ASSUME NoClash PROVE CallsInMain(functions', symbols'["main"].index)
    <3>1. CASE Gen!VisitFunctionCall
      <4>1. pos <= Len(ast) /\ ast[pos].node = "call"
        BY <3>1, CallEmits
      <4>2. pos \in 1..Len(ast)
        BY <1>6, <4>1
      <4>3. frames = <<>>
        BY <1>3, <1>4, <4>1, BodyGoesOn
      <4>4. Outside(st)
        BY <1>3, <1>4, <4>2, <4>3 DEF Outside
      <4>. QED  BY <1>1, <1>3, <2>2, <3>1, <4>4, CallInOrder DEF OrderKnown
    <3>2. CASE Gen!EndProgram
      BY <1>1, <1>3, <2>2, <3>2, FinishInOrder DEF OrderKnown
    <3>3. CASE ~Gen!VisitFunctionCall /\ ~Gen!EndProgram
      BY <1>1, <1>3, <1>5, <2>2, <3>3, OthersInOrder DEF OrderKnown
    <3>. QED  BY <3>1, <3>2, <3>3
  <2>. QED  BY <2>1, <2>2 DEF MainHasAll, CallsInMain, CallAt, Holds, InstrOf
<1>12. status' = "done" => pos' > Len(ast')
  BY <1>1, <1>7, Zenon DEF Gen!EndProgram
<1>. QED  BY <1>8, <1>9, <1>10, <1>11, <1>12 DEF OrderKnown

LEMMA OrderedNext == OrderedInv /\ [CompilerNext]_<<vars, genVars>> => OrderedInv'
<1>. SUFFICES ASSUME OrderedInv, [CompilerNext]_<<vars, genVars>> PROVE OrderedInv'
  OBVIOUS
<1>1. LoweredInv /\ LoweredInv' /\ ModuleInv
  BY LoweredNext DEF OrderedInv, LoweredInv
<1>2. CASE Analyze
  <2>1. Gen!Init /\ UNCHANGED genVars
    BY <1>1, <1>2 DEF Analyze, ModuleInv, CompilerInv, GenInv
  <2>2. Gen!Init'
    BY <2>1 DEF Gen!Init, genVars
  <2>3. OrderKnown'
    BY <2>2, NothingCalled, PTL
  <2>. QED  BY <1>1, <2>3 DEF OrderedInv
<1>3. CASE Generate
  BY <1>1, <1>3, OrderedGenerate DEF OrderedInv
<1>4. CASE UNCHANGED <<vars, genVars>>
  <2>1. TextKept /\ UNCHANGED <<pos, status, functions, symbols>>
    BY <1>4 DEF vars, genVars, TextKept
  <2>2. SymbolsKnown' <=> SymbolsKnown
    <3>1. \A n, k : Defined(n, k)' <=> Defined(n, k)
      BY <2>1 DEF TextKept, Defined, Gen!I32
    <3>. QED  BY <2>1, <3>1 DEF SymbolsKnown, Gen!SymbolNames, Gen!Allocators
  <2>3. NamesTaken' <=> NamesTaken
    BY <2>1 DEF TextKept, NamesTaken, Declared, Gen!Supported, Gen!SymbolNames, Gen!Allocators
  <2>4. CalledSoFar' <=> CalledSoFar
    <3>1. \A k : Called(k)' <=> Called(k)
      BY <2>1, PlainKept DEF TextKept, Called, NodesOf, Gen!Supported
    <3>2. \A k : Once(functions, k, "call")' <=> Once(functions, k, "call")
      BY <2>1 DEF Once, Makes, Holds, InstrOf
    <3>. QED  BY <2>1, <3>1, <3>2 DEF TextKept, CalledSoFar
  <2>5. MainHasAll' <=> MainHasAll
    BY <2>1 DEF TextKept, MainHasAll, NoClash, NodesOf, Clash, Gen!Allocators, CallsInMain,
       CallAt, Holds, InstrOf
  <2>. QED  BY <1>1, <2>1, <2>2, <2>3, <2>4, <2>5 DEF OrderedInv, OrderKnown, TextKept
<1>. QED  BY <1>2, <1>3, <1>4 DEF CompilerNext, Over

\* A plain call goes to the definition that the analyzer found.
LEMMA CalleeIsDefined ==
  ASSUME Analyzed, GenTypeOK, OrderKnown, status = "done", NoClash,
         NEW k \in NodesOf("call"), NEW d \in NodesOf("function"),
         ast[k].name = ast[d].name, Gen!Supported(ast[d]), PlainNode(k)
  PROVE  functions[symbols[ast[k].name].index].node = d
<1>. DEFINE name == ast[k].name
<1>1. /\ k \in 1..Len(ast) /\ ast[k].node = "call" /\ d \in 1..Len(ast) /\ Len(ast) \in Nat
      /\ ast[d].node = "function" /\ ast[d].name = name /\ pos > Len(ast)
      /\ SymbolsOk(symbols, Len(functions)) /\ pos \in Nat
  <2>1. pos \in 1..Len(ast) + 1 /\ Len(ast) \in Nat
    BY AnalyzedFacts DEF GenTypeOK
  <2>2. pos \in Nat
    BY <2>1
  <2>. QED  BY <2>1, <2>2 DEF NodesOf, OrderKnown, GenTypeOK
<1>2. name \in Names /\ name \in Gen!SymbolNames
  BY <1>1, AnalyzedFacts, NodeFields, SymbolNamesFacts
<1>3. name \notin Gen!Allocators \cup {"main", "printf"} /\ name \notin Gen!Formats
  BY <1>1 DEF NoClash, Clash, NodesOf
<1>4. symbols[name].kind # "none"
  <2>1. d < pos
    BY <1>1
  <2>. QED  BY <1>1, <2>1 DEF OrderKnown, NamesTaken
<1>5. symbols[name].kind # "global"
  BY <1>1, <1>2, <1>3, NoGlobalHides DEF PlainNode, OrderKnown
<1>6. symbols[name].kind # "library"
  BY <1>2, <1>3 DEF OrderKnown, SymbolsKnown
<1>7. symbols[name].kind = "function"
  <2>. HIDE DEF name
  <2>1. symbols[name].kind \in {"none", "function", "global", "library"}
    BY <1>1, <1>2 DEF SymbolsOk
  <2>. QED  BY <1>4, <1>5, <1>6, <2>1
<1>8. Defined(name, symbols[name].index)
  BY <1>2, <1>3, <1>7 DEF OrderKnown, SymbolsKnown
<1>9. PICK c \in 1..pos - 1 : /\ ast[c].node = "function" /\ ast[c].name = name
                              /\ functions[symbols[name].index].node = c
  BY <1>8 DEF Defined
<1>10. c \in 1..Len(ast)
  <2>1. pos \in 1..Len(ast) + 1
    BY DEF GenTypeOK
  <2>. QED  BY <1>1, <2>1
<1>11. c = d
  BY <1>1, <1>9, <1>10 DEF Analyzed, CallsInv, FunctionsAreDefinitions
<1>. QED  BY <1>9, <1>11

LEMMA OrderFollows == OrderedInv => CallsInSourceOrder
<1>. SUFFICES ASSUME OrderedInv, status = "done", NoClash PROVE CallsInSourceOrder
  BY DEF CallsInSourceOrder
<1>. DEFINE calls == {p \in Places : InstrAt(p).op = "call"}
<1>1. outcome = "accepted" /\ OrderKnown /\ Analyzed /\ GenTypeOK
  <2>1. outcome = "accepted"
    BY DEF OrderedInv, LoweredInv, ModuleInv, CompilerInv, GenInv, Gen!Init
  <2>. QED  BY <2>1 DEF OrderedInv, LoweredInv, ModuleInv, CompilerInv, GenInv, Analyzed
<1>2. ASSUME NEW p \in calls
      PROVE  \E f, b, j \in Nat : p = <<f, b, j>> /\ CallAt(functions, f, b, j)
                                  /\ InstrAt(p) = InstrOf(functions, f, b, j)
  <2>1. p \in Places /\ InstrAt(p).op = "call"
    OBVIOUS
  <2>2. PICK f, b, j \in Nat :
          p = <<f, b, j>> /\ Holds(functions, f, b, j) /\ InstrAt(p) = InstrOf(functions, f, b, j)
    BY <2>1, PlacesHold
  <2>3. CallAt(functions, f, b, j)
    BY <2>1, <2>2 DEF CallAt
  <2>. QED  BY <2>2, <2>3
<1>3. ASSUME NEW p \in calls, NEW q \in calls
      PROVE  /\ p[1] = symbols["main"].index /\ p[2] = 1
             /\ p[3] < q[3] => InstrAt(p).from < InstrAt(q).from
  <2>1. PICK f, b, j \in Nat : p = <<f, b, j>> /\ CallAt(functions, f, b, j)
                               /\ InstrAt(p) = InstrOf(functions, f, b, j)
    BY <1>2
  <2>2. PICK g, c, i \in Nat : q = <<g, c, i>> /\ CallAt(functions, g, c, i)
                               /\ InstrAt(q) = InstrOf(functions, g, c, i)
    BY <1>2
  <2>. HIDE DEF calls
  <2>3. CallsInMain(functions, symbols["main"].index)
    BY <1>1 DEF OrderKnown, MainHasAll
  <2>4. f = symbols["main"].index /\ b = 1 /\ g = f /\ c = b
    BY <2>1, <2>2, <2>3 DEF CallsInMain
  <2>5. j < i => InstrOf(functions, f, b, j).from < InstrOf(functions, g, c, i).from
    BY <2>1, <2>2, <2>3, <2>4 DEF CallsInMain
  <2>. QED  BY <2>1, <2>2, <2>4, <2>5
<1>4. ASSUME NEW k \in NodesOf("call"), NEW d \in NodesOf("function"),
             ast[k].name = ast[d].name, Gen!Supported(ast[d]), PlainNode(k)
      PROVE  Single(Lowered(k, "call")) /\ functions[symbols[ast[k].name].index].node = d
  <2>1. functions[symbols[ast[k].name].index].node = d
    BY <1>1, <1>4, CalleeIsDefined
  <2>2. k \in 1..Len(ast) /\ k < pos
    <3>1. pos > Len(ast) /\ pos \in 1..Len(ast) + 1 /\ k \in 1..Len(ast) /\ Len(ast) \in Nat
      BY <1>1, AnalyzedFacts DEF OrderKnown, NodesOf, GenTypeOK
    <3>. QED  BY <3>1
  <2>3. Called(k)
    BY <1>4 DEF Called, NodesOf
  <2>4. Once(functions, k, "call")
    BY <1>1, <2>2, <2>3 DEF OrderKnown, CalledSoFar
  <2>. QED  BY <2>1, <2>4, OnceIsSingle
<1>. QED  BY <1>3, <1>4 DEF CallsInSourceOrder

\* Main makes the calls of an accepted program in the order of the text, none
\* twice; every plain call of a generated function is one of them and calls the
\* code of the definition that the analyzer checked it against
\* (visit(FunctionCall), ensureMainFunctionExist).
THEOREM CallsKeepTheirOrder == CompilerSpec => []CallsInSourceOrder
<1>. QED  BY OrderedInit, OrderedNext, OrderFollows, PTL DEF CompilerSpec
=============================================================================
