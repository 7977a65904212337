----------------------- MODULE SemanticAnalyzerProofs -----------------------
(***************************************************************************)
(* The analyzer's type invariant and its scope discipline, what its steps  *)
(* do to the source text, and what an accepted text is: its calls, scopes, *)
(* returns and expression statements, and how its nodes nest.  All of it   *)
(* for every set of names, literals, expressions and parameter lists, for  *)
(* programs of every size.                                                 *)
(***************************************************************************)
EXTENDS SemanticAnalyzer, SymbolTableLemmas

\* The inductive invariant.  The depth of the scope stack is tied to the stack
\* of visits; the numbers of the symbols are needed because the table's own
\* counter is what addVariable stamps them with.
ScopeIdsHold == ScopeIdsAreLevels(symbolTable)
IInv == TypeOK /\ ScopeDiscipline /\ ScopeIdsHold

LEMMA TableIsConsistent == IInv => Consistent(symbolTable)
BY DEF IInv, TypeOK, ScopeIdsHold, Consistent

\* The stack of visits under push and pop.
LEMMA VisitsStack ==
  ASSUME NEW v \in Seq(VisitKinds), NEW kind \in BodyKinds,
         \A i \in 1..Len(v) : v[i] = "function" <=> i = 1
  PROVE  /\ Len(v) \in Nat
         /\ v # <<>> =>
              /\ Append(v, kind) \in Seq(VisitKinds)
              /\ Len(Append(v, kind)) = Len(v) + 1
              /\ Append(v, kind) # <<>>
              /\ \A i \in 1..Len(v) + 1 : Append(v, kind)[i] = "function" <=> i = 1
         /\ v # <<>> /\ v[Len(v)] # "function" =>
              LET rest == SubSeq(v, 1, Len(v) - 1)
              IN  /\ rest \in Seq(VisitKinds)
                  /\ Len(v) > 1
                  /\ Len(rest) = Len(v) - 1
                  /\ rest # <<>>
                  /\ \A i \in 1..Len(v) - 1 : rest[i] = "function" <=> i = 1
<1>1. Len(v) \in Nat /\ (v # <<>> => Len(v) > 0)
  BY LenProperties, EmptySeq
<1>2. kind \in VisitKinds /\ kind # "function"
  BY DEF VisitKinds, BodyKinds
<1>3. ASSUME v # <<>>
      PROVE  /\ Append(v, kind) \in Seq(VisitKinds)
             /\ Len(Append(v, kind)) = Len(v) + 1
             /\ Append(v, kind) # <<>>
             /\ \A i \in 1..Len(v) + 1 : Append(v, kind)[i] = "function" <=> i = 1
  BY <1>1, <1>2, <1>3, AppendProperties, EmptySeq
<1>4. ASSUME v # <<>>, v[Len(v)] # "function"
      PROVE  LET rest == SubSeq(v, 1, Len(v) - 1)
             IN  /\ rest \in Seq(VisitKinds)
                 /\ Len(v) > 1
                 /\ Len(rest) = Len(v) - 1
                 /\ rest # <<>>
                 /\ \A i \in 1..Len(v) - 1 : rest[i] = "function" <=> i = 1
  <2>. DEFINE rest == SubSeq(v, 1, Len(v) - 1)
  <2>1. Len(v) > 1
    BY <1>1, <1>4
  <2>2. /\ rest \in Seq(VisitKinds)
        /\ Len(rest) = Len(v) - 1
        /\ \A i \in 1..Len(v) - 1 : rest[i] = v[i]
    BY <1>1, <2>1, SubSeqProperties
  <2>. HIDE DEF rest
  <2>3. rest # <<>>
    BY <1>1, <2>1, <2>2, EmptySeq
  <2>. USE DEF rest
  <2>. QED  BY <1>1, <2>1, <2>2, <2>3
<1>. QED  BY <1>1, <1>3, <1>4

\* Appending a node of the language keeps the tree typed.
LEMMA AppendNode ==
  ASSUME NEW s \in Seq(Node), NEW node \in Node
  PROVE  Append(s, node) \in Seq(Node)
BY AppendProperties

\* A throw leaves the analyzer's state as it was.
LEMMA ThrowStep ==
  ASSUME IInv, NEW node \in Node, Throw(node)
  PROVE  IInv'
BY AppendNode DEF IInv, TypeOK, ScopeDiscipline, ScopeIdsHold, Throw, tableVars,
                  Depth, ScopeIdsAreLevels

\* So does a visit that only goes on, perhaps to another list of the Program.
LEMMA ContinueStep ==
  ASSUME IInv, NEW node \in Node, Continue(node), section' \in 1..4,
         UNCHANGED <<tableVars, visits>>
  PROVE  IInv'
<1>1. ast' \in Seq(Node)
  BY AppendNode DEF IInv, TypeOK, Continue
<1>2. TypeOK'
  BY <1>1 DEF IInv, TypeOK, Continue, tableVars, Declarations, Functions
<1>3. ScopeDiscipline' /\ ScopeIdsHold'
  BY DEF IInv, ScopeDiscipline, ScopeIdsHold, tableVars, Depth, ScopeIdsAreLevels
<1>. QED  BY <1>2, <1>3 DEF IInv

\* A visit that only checks either goes on or throws.
LEMMA CheckStep ==
  ASSUME IInv, NEW node \in Node, NEW ok, Check(node, ok)
  PROVE  IInv'
<1>1. section \in 1..4
  BY DEF IInv, TypeOK, Declarations, Functions
<1>. QED  BY <1>1, ThrowStep, ContinueStep DEF Check

\* Opening a body opens two scopes.
LEMMA OpenBodyStep ==
  ASSUME IInv, NEW node \in Node, NEW kind \in BodyKinds, NEW ok,
         ok => insideFunction, OpenBody(node, kind, ok)
  PROVE  IInv'
<1>. DEFINE u == enterScope(symbolTable)
            w == enterScope(u)
<1>1. CASE Throw(node)
  BY <1>1, ThrowStep
<1>2. CASE /\ ok
           /\ symbolTable' = w
           /\ visits' = Append(visits, kind)
           /\ Continue(node)
           /\ UNCHANGED <<insideFunction, currentFunctionReturnType, section>>
  <2>1. /\ visits # <<>> /\ insideFunction
        /\ Depth(symbolTable) = 2 * Len(visits)
    BY <1>2 DEF IInv, ScopeDiscipline
  <2>2. /\ visits' \in Seq(VisitKinds)
        /\ Len(visits) \in Nat
        /\ Len(visits') = Len(visits) + 1
        /\ visits' # <<>>
        /\ \A i \in 1..Len(visits') : visits'[i] = "function" <=> i = 1
    <3>1. /\ visits \in Seq(VisitKinds)
          /\ \A i \in 1..Len(visits) : visits[i] = "function" <=> i = 1
      BY DEF IInv, TypeOK, ScopeDiscipline
    <3>2. visits' = Append(visits, kind)
      BY <1>2
    <3>. QED  BY <2>1, <3>1, <3>2, VisitsStack
  <2>3. Consistent(u) /\ Depth(u) = Depth(symbolTable) + 1
    BY TableIsConsistent, EnterScopeConsistent
  <2>4. Consistent(w) /\ Depth(w) = Depth(u) + 1
    BY <2>3, EnterScopeConsistent
  <2>. HIDE DEF u, w
  <2>5. TypeOK'
    <3>1. ast' \in Seq(Node)
      BY <1>2, AppendNode DEF IInv, TypeOK, Continue
    <3>. QED  BY <1>2, <2>2, <2>4, <3>1 DEF IInv, TypeOK, Consistent, Continue
  <2>6. ScopeDiscipline'
    BY <1>2, <2>1, <2>2, <2>3, <2>4 DEF ScopeDiscipline, Depth
  <2>7. ScopeIdsHold'
    BY <1>2, <2>4 DEF ScopeIdsHold, Consistent, ScopeIdsAreLevels, Depth
  <2>. QED  BY <2>5, <2>6, <2>7 DEF IInv
<1>. QED  BY <1>1, <1>2 DEF OpenBody
\* A body that ends closes the two scopes its statement opened; an else body
\* opens two again.
LEMMA EndBodyStep == IInv /\ EndBody => IInv'
<1>. SUFFICES ASSUME IInv, EndBody PROVE IInv'
  OBVIOUS
<1>. DEFINE one   == leaveScope(symbolTable)
            outer == leaveScope(one)
            rest  == SubSeq(visits, 1, Len(visits) - 1)
            node  == [node |-> "end", of |-> visits[Len(visits)]]
<1>1. /\ visits \in Seq(VisitKinds) /\ visits # <<>>
      /\ visits[Len(visits)] # "function"
      /\ \A i \in 1..Len(visits) : visits[i] = "function" <=> i = 1
      /\ insideFunction
      /\ Depth(symbolTable) = 2 * Len(visits)
  BY DEF IInv, TypeOK, ScopeDiscipline, EndBody
<1>2. /\ rest \in Seq(VisitKinds) /\ rest # <<>>
      /\ Len(visits) \in Nat /\ Len(visits) > 1
      /\ Len(rest) = Len(visits) - 1
      /\ \A i \in 1..Len(rest) : rest[i] = "function" <=> i = 1
  <2>1. "else" \in BodyKinds
    BY DEF BodyKinds
  <2>. QED  BY <1>1, <2>1, VisitsStack
<1>3. Consistent(one) /\ Depth(one) = Depth(symbolTable) - 1
  BY <1>1, <1>2, TableIsConsistent, LeaveScopeConsistent
<1>4. Consistent(outer) /\ Depth(outer) = 2 * Len(rest)
  BY <1>1, <1>2, <1>3, LeaveScopeConsistent
<1>5. /\ ast' = Append(ast, node) /\ outcome' = outcome
      /\ UNCHANGED <<insideFunction, currentFunctionReturnType, section>>
  BY DEF EndBody, Continue
<1>6. ast' \in Seq(Node)
  <2>1. visits[Len(visits)] \in VisitKinds
    BY <1>1, <1>2
  <2>2. node \in Node
    BY <2>1 DEF Node
  <2>. QED  BY <1>5, <2>2, AppendNode DEF IInv, TypeOK
<1>7. CASE visits[Len(visits)] # "thenElse"
  <2>1. symbolTable' = outer /\ visits' = rest
    BY <1>7 DEF EndBody
  <2>. HIDE DEF outer, rest
  <2>2. TypeOK'
    BY <1>2, <1>4, <1>5, <1>6, <2>1 DEF IInv, TypeOK, Consistent
  <2>3. ScopeDiscipline'
    BY <1>1, <1>2, <1>4, <1>5, <2>1 DEF ScopeDiscipline, Depth
  <2>4. ScopeIdsHold'
    BY <1>4, <2>1 DEF ScopeIdsHold, Consistent, ScopeIdsAreLevels, Depth
  <2>. QED  BY <2>2, <2>3, <2>4 DEF IInv
<1>8. CASE visits[Len(visits)] = "thenElse"
  <2>. DEFINE again == enterScope(outer)
              both  == enterScope(again)
              pushed == Append(rest, "else")
  <2>1. symbolTable' = both /\ visits' = pushed
    BY <1>8 DEF EndBody
  <2>2. Consistent(both) /\ Depth(both) = 2 * Len(rest) + 2
    <3>1. Consistent(again) /\ Depth(again) = 2 * Len(rest) + 1
      BY <1>4, EnterScopeConsistent
    <3>. QED  BY <1>2, <3>1, EnterScopeConsistent
  <2>3. /\ pushed \in Seq(VisitKinds) /\ pushed # <<>>
        /\ Len(pushed) = Len(rest) + 1
        /\ \A i \in 1..Len(pushed) : pushed[i] = "function" <=> i = 1
    <3>1. "else" \in BodyKinds
      BY DEF BodyKinds
    <3>. HIDE DEF rest
    <3>. QED  BY <1>2, <3>1, VisitsStack
  <2>. HIDE DEF both, rest, pushed
  <2>4. TypeOK'
    BY <1>5, <1>6, <2>1, <2>2, <2>3 DEF IInv, TypeOK, Consistent
  <2>5. ScopeDiscipline'
    BY <1>1, <1>2, <1>5, <2>1, <2>2, <2>3 DEF ScopeDiscipline, Depth
  <2>6. ScopeIdsHold'
    BY <2>1, <2>2 DEF ScopeIdsHold, Consistent, ScopeIdsAreLevels, Depth
  <2>. QED  BY <2>4, <2>5, <2>6 DEF IInv
<1>. QED  BY <1>7, <1>8

\* A declaration goes to the global scope.
LEMMA DeclarationStep ==
  ASSUME IInv, NEW type \in ScalarTypes \cup {"array"}, NEW name \in Names,
         NEW elements \in Seq(Expression),
         VisitDeclaration(type, name, elements)
  PROVE  IInv'
<1>. DEFINE d == [node |-> "declaration", type |-> type, name |-> name,
                  elements |-> elements]
            u == addVariable(symbolTable, name, type)
<1>1. d \in Node /\ type \in SymbolTypes
  BY DEF Node, SymbolTypes, ScalarTypes
<1>2. CASE Throw(d)
  BY <1>1, <1>2, ThrowStep
<1>3. CASE /\ symbolTable' = u
           /\ Continue(d)
           /\ UNCHANGED <<insideFunction, currentFunctionReturnType, visits, section>>
  <2>1. Consistent(u) /\ Depth(u) = Depth(symbolTable)
    BY <1>1, TableIsConsistent, AddVariableConsistent
  <2>2. ast' \in Seq(Node)
    BY <1>1, <1>3, AppendNode DEF IInv, TypeOK, Continue
  <2>. HIDE DEF u, d
  <2>3. TypeOK'
    BY <1>3, <2>1, <2>2 DEF IInv, TypeOK, Consistent, Continue
  <2>4. ScopeDiscipline'
    BY <1>3, <2>1 DEF IInv, ScopeDiscipline, Depth
  <2>5. ScopeIdsHold'
    BY <1>3, <2>1 DEF ScopeIdsHold, Consistent, ScopeIdsAreLevels, Depth
  <2>. QED  BY <2>3, <2>4, <2>5 DEF IInv
<1>. QED  BY <1>2, <1>3 DEF VisitDeclaration
\* The scope of a parameter list holds symbols with the given scope number.
LEMMA ParameterScopeTyped ==
  ASSUME NEW parameters \in Seq(ParamInfo), NEW scopeId \in Int
  PROVE  /\ ParameterScope(parameters, scopeId) \in Scope
         /\ \A n \in Names :
              ParameterScope(parameters, scopeId)[n] # NotDeclared =>
                ParameterScope(parameters, scopeId)[n].scopeId = scopeId
<1>1. ASSUME NEW n \in Names, Positions(parameters, n) # {}
      PROVE  TypeOfParameter(parameters, n) \in SymbolTypes
  <2>1. PICK k \in 1..Len(parameters) : k = CHOOSE i \in Positions(parameters, n) : TRUE
    BY <1>1 DEF Positions
  <2>2. parameters[k] \in ParamInfo
    BY <2>1, ElementOfSeq
  <2>. QED  BY <2>1, <2>2 DEF ParamInfo, SymbolTypes, TypeOfParameter
<1>. QED  BY <1>1 DEF ParameterScope, Scope, SymbolInfo

\* A function definition opens one scope above the global one, filled with its
\* parameters.
LEMMA FunctionDefinitionStep ==
  ASSUME IInv, NEW f \in Names, NEW parameters \in Seq(ParamInfo),
         NEW returnType \in ReturnTypes,
         VisitFunctionDefinition(f, parameters, returnType)
  PROVE  IInv'
<1>. DEFINE node  == [node |-> "function", name |-> f, parameters |-> parameters,
                      returnType |-> returnType]
            info  == [parameterInfo |-> parameters]
            added == addFunction(symbolTable, f, info)
            inner == enterScope(added)
            scope == ParameterScope(parameters, inner.currentScopeId)
            u     == [inner EXCEPT !.scopes[Depth(inner)] = scope]
<1>1. node \in Node
  BY DEF Node
<1>2. CASE Throw(node)
  BY <1>1, <1>2, ThrowStep
<1>3. CASE /\ symbolTable' = u
           /\ currentFunctionReturnType' = returnType
           /\ insideFunction' = TRUE
           /\ visits' = <<"function">>
           /\ section' = Functions
           /\ Continue(node)
  <2>1. Depth(symbolTable) = 1
    BY DEF IInv, ScopeDiscipline, VisitFunctionDefinition, Visiting
  <2>2. Consistent(added) /\ Depth(added) = 1
    <3>1. info \in FunctionInfo
      BY DEF FunctionInfo
    <3>. QED  BY <2>1, <3>1, TableIsConsistent, AddFunctionConsistent DEF Depth
  <2>3. Consistent(inner) /\ Depth(inner) = 2
    <3>. HIDE DEF added
    <3>. QED  BY <2>2, EnterScopeConsistent
  <2>4. /\ scope \in Scope
        /\ \A n \in Names : scope[n] # NotDeclared => scope[n].scopeId = inner.currentScopeId
    <3>1. inner.currentScopeId \in Int
      BY <2>3 DEF Consistent, Table
    <3>. HIDE DEF inner
    <3>. QED  BY <3>1, ParameterScopeTyped
  <2>5. Consistent(u) /\ Depth(u) = 2
    <3>. HIDE DEF inner, scope
    <3>. QED  BY <2>3, <2>4, TopScopeConsistent
  <2>6. ast' \in Seq(Node)
    BY <1>1, <1>3, AppendNode DEF IInv, TypeOK, Continue
  <2>. HIDE DEF u, node
  <2>7. TypeOK'
    <3>1. visits' \in Seq(VisitKinds) /\ section' \in Declarations'..Functions'
      BY <1>3 DEF VisitKinds, Declarations, Functions
    <3>. QED  BY <1>3, <2>5, <2>6, <3>1 DEF IInv, TypeOK, Consistent, Continue
  <2>8. ScopeDiscipline'
    <3>1. Len(visits') = 1 /\ visits'[1] = "function" /\ visits' # <<>>
      BY <1>3
    <3>. QED  BY <1>3, <2>5, <3>1 DEF ScopeDiscipline, Depth
  <2>9. ScopeIdsHold'
    BY <1>3, <2>5 DEF ScopeIdsHold, Consistent, ScopeIdsAreLevels, Depth
  <2>. QED  BY <2>7, <2>8, <2>9 DEF IInv
<1>. QED  BY <1>2, <1>3 DEF VisitFunctionDefinition

\* When the definition ends only the global scope is left.
LEMMA EndFunctionStep == IInv /\ EndFunctionDefinition => IInv'
<1>. SUFFICES ASSUME IInv, EndFunctionDefinition PROVE IInv'
  OBVIOUS
<1>. DEFINE u    == leaveScope(symbolTable)
            node == [node |-> "end", of |-> "function"]
<1>1. Depth(symbolTable) = 2
  BY DEF IInv, ScopeDiscipline, EndFunctionDefinition
<1>2. Consistent(u) /\ Depth(u) = 1
  BY <1>1, TableIsConsistent, LeaveScopeConsistent
<1>3. /\ symbolTable' = u /\ insideFunction' = FALSE /\ visits' = <<>>
      /\ UNCHANGED <<currentFunctionReturnType, section, outcome>>
  BY DEF EndFunctionDefinition, Continue
<1>4. ast' \in Seq(Node)
  <2>1. node \in Node
    BY DEF Node, VisitKinds
  <2>. QED  BY <2>1, AppendNode DEF IInv, TypeOK, EndFunctionDefinition, Continue
<1>. HIDE DEF u
<1>5. TypeOK'
  BY <1>2, <1>3, <1>4, EmptySeq DEF IInv, TypeOK, Consistent
<1>6. ScopeDiscipline'
  BY <1>2, <1>3 DEF ScopeDiscipline, Depth
<1>7. ScopeIdsHold'
  BY <1>2, <1>3 DEF ScopeIdsHold, Consistent, ScopeIdsAreLevels, Depth
<1>. QED  BY <1>5, <1>6, <1>7 DEF IInv
-----------------------------------------------------------------------------
LEMMA InitInvariant == Init => IInv
<1>. SUFFICES ASSUME Init PROVE IInv
  OBVIOUS
<1>1. TypeOK
  <2>1. visits \in Seq(VisitKinds) /\ ast \in Seq(Node)
    BY EmptySeq DEF Init
  <2>2. symbolTable \in Table
    BY NewTableConsistent DEF Init, Consistent
  <2>3. /\ currentFunctionReturnType \in {"", "string", "float"} \cup ReturnTypes
        /\ outcome \in {"visiting", "accepted", "rejected"}
    BY DEF Init
  <2>4. insideFunction \in BOOLEAN
    <3>1. insideFunction = FALSE
      BY DEF Init
    <3>. QED  BY <3>1
  <2>5. section \in Declarations..Functions
    <3>1. section = Declarations
      BY DEF Init
    <3>. QED  BY <3>1 DEF Declarations, Functions
  <2>. QED  BY <2>1, <2>2, <2>3, <2>4, <2>5 DEF TypeOK
<1>2. ScopeDiscipline
  <2>1. visits = <<>> /\ Len(visits) = 0
    BY EmptySeq DEF Init
  <2>2. Depth(symbolTable) = 1 /\ insideFunction = FALSE
    BY NewTableConsistent DEF Init
  <2>. QED  BY <2>1, <2>2 DEF ScopeDiscipline
<1>3. ScopeIdsHold
  BY NewTableConsistent DEF Init, ScopeIdsHold, Consistent
<1>. QED  BY <1>1, <1>2, <1>3 DEF IInv

\* The statements whose visit opens no body.
LEMMA StatementStep ==
  ASSUME IInv, NEW e \in Expression,
         \/ VisitExpressionStatement(e)
         \/ VisitPrintStatement(e)
         \/ VisitReturnStatement(e)
         \/ VisitExpression(e)
  PROVE  IInv'
<1>. DEFINE node(kind) == [node |-> kind, expr |-> e]
<1>0. \A kind \in {"expression", "print", "return"} : node(kind) \in Node
  BY DEF Node
<1>1. CASE VisitExpressionStatement(e)
  BY <1>0, <1>1, CheckStep DEF VisitExpressionStatement
<1>2. CASE VisitPrintStatement(e)
  BY <1>0, <1>2, CheckStep DEF VisitPrintStatement
<1>3. CASE VisitReturnStatement(e)
  <2>1. CASE Throw(node("return"))
    BY <1>0, <2>1, ThrowStep
  <2>2. CASE /\ currentFunctionReturnType' = NormalizedType(currentFunctionReturnType)
             /\ Continue(node("return"))
             /\ UNCHANGED <<symbolTable, insideFunction, visits, section>>
    <3>1. ast' \in Seq(Node)
      BY <1>0, <2>2, AppendNode DEF IInv, TypeOK, Continue
    <3>2. currentFunctionReturnType' \in {"", "string", "float"} \cup ReturnTypes
      BY <2>2 DEF IInv, TypeOK, NormalizedType, ReturnTypes
    <3>. QED
      BY <2>2, <3>1, <3>2 DEF IInv, TypeOK, ScopeDiscipline, ScopeIdsHold, Continue,
                              Depth, ScopeIdsAreLevels, ReturnTypes
  <2>. QED  BY <1>3, <2>1, <2>2 DEF VisitReturnStatement
<1>4. CASE VisitExpression(e)
  <2>1. CASE Throw(node("expression"))
    BY <1>0, <2>1, ThrowStep
  <2>2. CASE /\ section' = TopExprs
             /\ Continue(node("expression"))
             /\ UNCHANGED <<tableVars, visits>>
    BY <1>0, <2>2, ContinueStep DEF TopExprs
  <2>. QED  BY <1>4, <2>1, <2>2 DEF VisitExpression
<1>. QED  BY <1>1, <1>2, <1>3, <1>4

\* The statements that open a body.
LEMMA BodyStatementStep ==
  ASSUME IInv, NEW e \in Expression, NEW end \in Expression, NEW hasElse \in BOOLEAN,
         \/ VisitWhileLoopStatement(e)
         \/ VisitForLoopStatement(e, end)
         \/ VisitIfStatement(e, hasElse)
  PROVE  IInv'
<1>. DEFINE node(kind) == [node |-> kind, expr |-> e]
<1>0. /\ \A kind \in {"while", "if", "ifElse"} : node(kind) \in Node
      /\ [node |-> "for", start |-> e, end |-> end] \in Node
      /\ {"while", "for", "then", "thenElse"} \subseteq BodyKinds
  BY DEF Node, BodyKinds
<1>1. /\ ConditionOk(e) => insideFunction
      /\ ForOk(e, end) => insideFunction
  BY DEF ConditionOk, ForOk
<1>2. CASE VisitWhileLoopStatement(e)
  BY <1>0, <1>1, <1>2, OpenBodyStep DEF VisitWhileLoopStatement
<1>3. CASE VisitForLoopStatement(e, end)
  BY <1>0, <1>1, <1>3, OpenBodyStep DEF VisitForLoopStatement
<1>4. CASE VisitIfStatement(e, hasElse)
  BY <1>0, <1>1, <1>4, OpenBodyStep DEF VisitIfStatement
<1>. QED  BY <1>2, <1>3, <1>4

LEMMA FunctionCallStep ==
  ASSUME IInv, NEW f \in Names, NEW arguments \in Seq(Expression),
         VisitFunctionCall(f, arguments)
  PROVE  IInv'
<1>. DEFINE node == [node |-> "call", name |-> f, arguments |-> arguments]
<1>0. node \in Node
  BY DEF Node
<1>1. CASE Throw(node)
  BY <1>0, <1>1, ThrowStep
<1>2. CASE /\ section' = Functions
           /\ Continue(node)
           /\ UNCHANGED <<tableVars, visits>>
  BY <1>0, <1>2, ContinueStep DEF Functions
<1>. QED  BY <1>1, <1>2 DEF VisitFunctionCall

LEMMA NextInvariant == IInv /\ [Next]_vars => IInv'
<1>. SUFFICES ASSUME IInv, [Next]_vars PROVE IInv'
  OBVIOUS
<1>0. /\ VariableNames \subseteq Names /\ FunctionNames \subseteq Names
      /\ ResultTypes \subseteq ReturnTypes
      /\ Expressions \subseteq Expression
      /\ ExprLists \subseteq Seq(Expression)
      /\ ParamLists \subseteq Seq(ParamInfo)
      /\ <<>> \in Seq(Expression)
  BY ProgramsAssumption, EmptySeq
<1>1. ASSUME NEW type \in ScalarTypes \cup {"array"}, NEW n \in Names,
             NEW list \in Seq(Expression), VisitDeclaration(type, n, list)
      PROVE  IInv'
  BY <1>1, DeclarationStep
<1>2. ASSUME NEW e \in Expressions,
             \/ VisitExpressionStatement(e) \/ VisitPrintStatement(e)
             \/ VisitReturnStatement(e) \/ VisitExpression(e)
      PROVE  IInv'
  BY <1>0, <1>2, StatementStep
<1>3. ASSUME NEW e \in Expressions, NEW end \in Expressions, NEW hasElse \in BOOLEAN,
             \/ VisitWhileLoopStatement(e) \/ VisitForLoopStatement(e, end)
             \/ VisitIfStatement(e, hasElse)
      PROVE  IInv'
  BY <1>0, <1>3, BodyStatementStep
<1>4. CASE EndBody
  BY <1>4, EndBodyStep
<1>5. ASSUME NEW f \in Names, NEW ps \in ParamLists, NEW type \in ReturnTypes,
             VisitFunctionDefinition(f, ps, type)
      PROVE  IInv'
  BY <1>0, <1>5, FunctionDefinitionStep
<1>6. CASE EndFunctionDefinition
  BY <1>6, EndFunctionStep
<1>7. ASSUME NEW f \in Names, NEW list \in ExprLists, VisitFunctionCall(f, list)
      PROVE  IInv'
  BY <1>0, <1>7, FunctionCallStep
<1>8. CASE EndProgram
  BY <1>8 DEF EndProgram, IInv, TypeOK, ScopeDiscipline, ScopeIdsHold, tableVars,
              Depth, ScopeIdsAreLevels
<1>9. CASE UNCHANGED vars
  BY <1>9 DEF vars, IInv, TypeOK, ScopeDiscipline, ScopeIdsHold, Depth, ScopeIdsAreLevels
<1>. QED
  BY <1>0, <1>1, <1>2, <1>3, <1>4, <1>5, <1>6, <1>7, <1>8, <1>9 DEF Next, Finished, ScalarTypes

\* The inductive invariant holds in every reachable state, for every set of
\* names and expressions and every bound.
THEOREM InvariantHolds == Spec => []IInv
BY InitInvariant, NextInvariant, PTL DEF Spec

\* The analyzer's state keeps its type.
THEOREM TypeCorrect == Spec => []TypeOK
<1>1. IInv => TypeOK
  BY DEF IInv
<1>. QED  BY <1>1, InvariantHolds, PTL

\* Scopes are opened and closed in step with the visits, whatever is nested in
\* whatever (SemanticAnalyzer.cpp calls enterScope and leaveScope in seven
\* places), and insideFunction says whether a function is being visited.
THEOREM ScopesFollowVisits == Spec => []ScopeDiscipline
<1>1. IInv => ScopeDiscipline
  BY DEF IInv
<1>. QED  BY <1>1, InvariantHolds, PTL
-----------------------------------------------------------------------------
(***************************************************************************)
(* What the analyzer knows is what the source text says: the scopes it     *)
(* keeps and the functions it has collected, related to ast.               *)
(*                                                                         *)
(* The steps of the analyzer are first sorted into six kinds by what they  *)
(* do to the table and to the text; every invariant below is then shown    *)
(* kind by kind.                                                           *)
(***************************************************************************)
ParameterInfo(parameters) == [parameterInfo |-> parameters]

\* The scopes above those of the function hold nothing: bodies declare nothing.
EmptyAbove(t) == \A i \in 3..Depth(t) : t.scopes[i] = EmptyScope

\* A node is visited and accepted.
Goes(node) == /\ outcome = "visiting" /\ outcome' = "visiting"
              /\ node \in Node /\ ast' = Append(ast, node)

Stays == /\ UNCHANGED <<tableVars, visits, section, ast>>
         /\ outcome # "rejected" <=> outcome' # "rejected"

Rejects == \E node \in Node : Throw(node) /\ outcome = "visiting"

Declares ==
  \E type \in ScalarTypes \cup {"array"}, n \in Names, list \in Seq(Expression) :
    /\ Goes([node |-> "declaration", type |-> type, name |-> n, elements |-> list])
    /\ section = Declarations /\ visits = <<>>
    /\ ~isDeclared(symbolTable, n)
    /\ symbolTable' = addVariable(symbolTable, n, type)
    /\ UNCHANGED <<currentFunctionReturnType, visits, section>>

\* The statements that ask for a type, and what they ask of it.
AsksForType(node) == \/ node.node \in {"print", "return", "for", "while", "if", "ifElse"}
                     \/ node.node = "expression" /\ node.expr.kind = "assign"
TypeChecked(node, env, result) ==
  CASE node.node = "print"  -> TypeOf(node.expr, env) \in ScalarTypes
    [] node.node = "return" -> TypeOf(node.expr, env) = NormalizedType(result)
    [] node.node = "for"    -> TypeOf(node.start, env) = "int" /\ TypeOf(node.end, env) = "int"
    [] node.node = "expression" ->
         TypeOf(node.expr.expression, env) = env[node.expr.name]
    [] OTHER                -> TypeOf(node.expr, env) = "bool"
CheckedNow(node) == insideFunction /\ TypeChecked(node, VisibleTypes, currentFunctionReturnType)

\* Statements, the ends of their bodies, expressions and calls.
Advances ==
  \E node \in Node :
    /\ Goes(node) /\ node.node \notin {"declaration", "function"}
    /\ visits' = <<>> <=> visits = <<>>
    /\ symbolTable'.functions = symbolTable.functions
    /\ symbolTable'.scopes[1] = symbolTable.scopes[1]
    /\ visits # <<>> => symbolTable'.scopes[2] = symbolTable.scopes[2]
    /\ EmptyAbove(symbolTable) => EmptyAbove(symbolTable')
    /\ NormalizedType(currentFunctionReturnType') = NormalizedType(currentFunctionReturnType)
    /\ section <= section'
    /\ node.node = "call" => CallOk(node.name, node.arguments)
    /\ node.node = "expression" => ExpressionOk(node.expr)
    /\ AsksForType(node) => CheckedNow(node)

Defines ==
  \E f \in Names, ps \in Seq(ParamInfo), type \in ReturnTypes :
    /\ Goes([node |-> "function", name |-> f, parameters |-> ps, returnType |-> type])
    /\ FunctionOk(f, ps)
    /\ visits = <<>> /\ visits' = <<"function">>
    /\ symbolTable'.functions = [symbolTable.functions EXCEPT ![f] = ParameterInfo(ps)]
    /\ symbolTable'.scopes[1] = symbolTable.scopes[1]
    /\ symbolTable'.scopes[2] = ParameterScope(ps, 2)
    /\ Depth(symbolTable') = 2
    /\ currentFunctionReturnType' = type
    /\ section' = Functions

Ends ==
  /\ Goes([node |-> "end", of |-> "function"])
  /\ visits = <<"function">> /\ visits' = <<>>
  /\ symbolTable'.functions = symbolTable.functions
  /\ symbolTable'.scopes[1] = symbolTable.scopes[1]
  /\ Depth(symbolTable') = 1
  /\ UNCHANGED <<currentFunctionReturnType, section>>
-----------------------------------------------------------------------------
(***************************************************************************)
(* The six kinds.                                                          *)
(***************************************************************************)
LEMMA FunctionsKept ==
  ASSUME NEW t, Consistent(t)
  PROVE  /\ enterScope(t).functions = t.functions
         /\ leaveScope(t).functions = t.functions
BY DEF enterScope, leaveScope, Consistent, Table

\* Two scopes more, or two scopes less, above those of a function.
LEMMA NestScopes ==
  ASSUME NEW t, Consistent(t), Depth(t) >= 2
  PROVE  LET u == enterScope(enterScope(t))
         IN  /\ Consistent(u) /\ Depth(u) >= 2
             /\ u.functions = t.functions
             /\ u.scopes[1] = t.scopes[1] /\ u.scopes[2] = t.scopes[2]
             /\ EmptyAbove(t) => EmptyAbove(u)
<1>. DEFINE v == enterScope(t)
            u == enterScope(v)
<1>0. Depth(t) \in Nat
  BY LenProperties DEF Consistent, Table, Depth
<1>1. /\ Consistent(v) /\ Depth(v) = Depth(t) + 1
      /\ v.functions = t.functions
      /\ \A i \in 1..Depth(t) : v.scopes[i] = t.scopes[i]
      /\ v.scopes[Depth(t) + 1] = EmptyScope
  BY EnterScopeConsistent, FunctionsKept
<1>. HIDE DEF v
<1>2. /\ Consistent(u) /\ Depth(u) = Depth(v) + 1
      /\ u.functions = v.functions
      /\ \A i \in 1..Depth(v) : u.scopes[i] = v.scopes[i]
      /\ u.scopes[Depth(v) + 1] = EmptyScope
  BY <1>1, EnterScopeConsistent, FunctionsKept
<1>. HIDE DEF u
<1>3. EmptyAbove(t) => EmptyAbove(u)
  BY <1>0, <1>1, <1>2 DEF EmptyAbove
<1>4. /\ Consistent(u) /\ Depth(u) >= 2
      /\ u.functions = t.functions
      /\ u.scopes[1] = t.scopes[1] /\ u.scopes[2] = t.scopes[2]
  BY <1>0, <1>1, <1>2
<1>. QED  BY <1>3, <1>4 DEF u, v

LEMMA UnnestScopes ==
  ASSUME NEW t, Consistent(t), Depth(t) >= 4
  PROVE  LET u == leaveScope(leaveScope(t))
         IN  /\ Consistent(u) /\ Depth(u) >= 2
             /\ u.functions = t.functions
             /\ u.scopes[1] = t.scopes[1] /\ u.scopes[2] = t.scopes[2]
             /\ EmptyAbove(t) => EmptyAbove(u)
<1>. DEFINE v == leaveScope(t)
            u == leaveScope(v)
<1>0. Depth(t) \in Nat
  BY LenProperties DEF Consistent, Table, Depth
<1>1. /\ Consistent(v) /\ Depth(v) = Depth(t) - 1
      /\ v.functions = t.functions
      /\ \A i \in 1..Depth(t) - 1 : v.scopes[i] = t.scopes[i]
  BY <1>0, LeaveScopeConsistent, FunctionsKept
<1>. HIDE DEF v
<1>2. /\ Consistent(u) /\ Depth(u) = Depth(v) - 1
      /\ u.functions = v.functions
      /\ \A i \in 1..Depth(v) - 1 : u.scopes[i] = v.scopes[i]
  BY <1>0, <1>1, LeaveScopeConsistent, FunctionsKept
<1>. HIDE DEF u
<1>3. EmptyAbove(t) => EmptyAbove(u)
  BY <1>0, <1>1, <1>2 DEF EmptyAbove
<1>4. /\ Consistent(u) /\ Depth(u) >= 2
      /\ u.functions = t.functions
      /\ u.scopes[1] = t.scopes[1] /\ u.scopes[2] = t.scopes[2]
  BY <1>0, <1>1, <1>2
<1>. QED  BY <1>3, <1>4 DEF u, v

\* The depth of the scopes, as the invariant gives it at each kind of place.
LEMMA DepthAtPlaces ==
  ASSUME IInv
  PROVE  /\ visits = <<>> => Depth(symbolTable) = 1
         /\ visits # <<>> => Depth(symbolTable) >= 2
         /\ visits = <<"function">> => Depth(symbolTable) = 2
         /\ visits # <<>> /\ visits[Len(visits)] # "function" => Depth(symbolTable) >= 4
         /\ insideFunction => visits # <<>>
<1>1. /\ visits \in Seq(VisitKinds)
      /\ Depth(symbolTable) = IF visits = <<>> THEN 1 ELSE 2 * Len(visits)
      /\ \A i \in 1..Len(visits) : visits[i] = "function" <=> i = 1
      /\ insideFunction => visits # <<>>
  BY DEF IInv, TypeOK, ScopeDiscipline
<1>2. Len(visits) \in Nat /\ (visits # <<>> => Len(visits) > 0)
  BY <1>1, LenProperties, EmptySeq
<1>3. visits = <<"function">> => Len(visits) = 1
  OBVIOUS
<1>4. visits # <<>> /\ visits[Len(visits)] # "function" => Len(visits) > 1
  BY <1>1, <1>2
<1>. QED  BY <1>1, <1>2, <1>3, <1>4

\* The number of the list, for the comparisons below.
LEMMA SectionTyped == IInv => section \in 1..4 /\ section <= section
<1>1. IInv => section \in 1..4
  BY DEF IInv, TypeOK, Declarations, Functions
<1>. QED  BY <1>1

\* A node that leaves the table alone.
LEMMA QuietAdvance ==
  ASSUME NEW node \in Node, outcome = "visiting", Continue(node),
         node.node \notin {"declaration", "function"},
         UNCHANGED <<symbolTable, visits>>,
         NormalizedType(currentFunctionReturnType')
           = NormalizedType(currentFunctionReturnType),
         section <= section',
         node.node = "call" => CallOk(node.name, node.arguments),
         node.node = "expression" => ExpressionOk(node.expr),
         AsksForType(node) => CheckedNow(node)
  PROVE  Advances
<1>1. Goes(node)
  BY DEF Goes, Continue
<1>2. /\ symbolTable' = symbolTable /\ visits' = visits
      /\ EmptyAbove(symbolTable) => EmptyAbove(symbolTable')
  BY DEF EmptyAbove, Depth
<1>. QED  BY <1>1, <1>2 DEF Advances

LEMMA CheckKind ==
  ASSUME IInv, NEW node \in Node, NEW ok, outcome = "visiting", Check(node, ok),
         node.node \in {"expression", "print"},
         ok /\ node.node = "expression" => ExpressionOk(node.expr),
         ok /\ AsksForType(node) => CheckedNow(node)
  PROVE  Advances \/ Rejects
<1>1. CASE Throw(node)
  BY <1>1 DEF Rejects
<1>2. CASE ok /\ Continue(node) /\ UNCHANGED <<tableVars, visits, section>>
  <2>1. section' = section
    BY <1>2
  <2>2. section <= section'
    BY <2>1, SectionTyped
  <2>. QED  BY <1>2, <2>2, QuietAdvance DEF tableVars
<1>. QED  BY <1>1, <1>2 DEF Check

LEMMA OpenBodyKind ==
  ASSUME IInv, NEW node \in Node, NEW kind \in BodyKinds, NEW ok,
         ok => CheckedNow(node), outcome = "visiting", OpenBody(node, kind, ok),
         node.node \in {"while", "for", "if", "ifElse"}
  PROVE  Advances \/ Rejects
<1>1. CASE Throw(node)
  BY <1>1 DEF Rejects
<1>2. CASE /\ ok
           /\ symbolTable' = enterScope(enterScope(symbolTable))
           /\ visits' = Append(visits, kind)
           /\ Continue(node)
           /\ UNCHANGED <<insideFunction, currentFunctionReturnType, section>>
  <2>1. visits # <<>> /\ Depth(symbolTable) >= 2
    BY <1>2, DepthAtPlaces DEF CheckedNow
  <2>2. visits' # <<>>
    <3>1. kind \in VisitKinds /\ visits \in Seq(VisitKinds)
      BY DEF VisitKinds, IInv, TypeOK
    <3>. QED  BY <1>2, <3>1, AppendProperties
  <2>3. /\ symbolTable'.functions = symbolTable.functions
        /\ symbolTable'.scopes[1] = symbolTable.scopes[1]
        /\ symbolTable'.scopes[2] = symbolTable.scopes[2]
        /\ EmptyAbove(symbolTable) => EmptyAbove(symbolTable')
    BY <1>2, <2>1, TableIsConsistent, NestScopes
  <2>4. Goes(node)
    BY <1>2 DEF Goes, Continue
  <2>5. section <= section'
    <3>1. section' = section
      BY <1>2
    <3>. QED  BY <3>1, SectionTyped
  <2>. QED  BY <1>2, <2>1, <2>2, <2>3, <2>4, <2>5 DEF Advances
<1>. QED  BY <1>1, <1>2 DEF OpenBody

LEMMA EndBodyKind == IInv /\ EndBody => Advances
<1>. SUFFICES ASSUME IInv, EndBody PROVE Advances
  OBVIOUS
<1>. DEFINE node  == [node |-> "end", of |-> visits[Len(visits)]]
            outer == leaveScope(leaveScope(symbolTable))
            rest  == SubSeq(visits, 1, Len(visits) - 1)
<1>1. /\ visits \in Seq(VisitKinds) /\ visits # <<>>
      /\ visits[Len(visits)] # "function"
      /\ \A i \in 1..Len(visits) : visits[i] = "function" <=> i = 1
  BY DEF IInv, TypeOK, ScopeDiscipline, EndBody
<1>2. /\ rest \in Seq(VisitKinds) /\ rest # <<>>
      /\ Len(visits) \in Nat /\ Len(visits) > 1
  <2>1. "else" \in BodyKinds
    BY DEF BodyKinds
  <2>. QED  BY <1>1, <2>1, VisitsStack
<1>3. /\ Consistent(outer) /\ Depth(outer) >= 2
      /\ outer.functions = symbolTable.functions
      /\ outer.scopes[1] = symbolTable.scopes[1]
      /\ outer.scopes[2] = symbolTable.scopes[2]
      /\ EmptyAbove(symbolTable) => EmptyAbove(outer)
  <2>1. Depth(symbolTable) >= 4
    BY <1>1, DepthAtPlaces
  <2>. QED  BY <2>1, TableIsConsistent, UnnestScopes
<1>4. Goes(node)
  <2>1. node \in Node
    <3>1. visits[Len(visits)] \in VisitKinds
      BY <1>1, <1>2
    <3>. QED  BY <3>1 DEF Node
  <2>. QED  BY <2>1 DEF EndBody, Goes, Continue
<1>5. \/ symbolTable' = outer /\ visits' = rest
      \/ symbolTable' = enterScope(enterScope(outer)) /\ visits' = Append(rest, "else")
  BY DEF EndBody
<1>. HIDE DEF outer, rest
<1>6. /\ visits' # <<>>
      /\ symbolTable'.functions = symbolTable.functions
      /\ symbolTable'.scopes[1] = symbolTable.scopes[1]
      /\ symbolTable'.scopes[2] = symbolTable.scopes[2]
      /\ EmptyAbove(symbolTable) => EmptyAbove(symbolTable')
  <2>1. CASE symbolTable' = outer /\ visits' = rest
    BY <1>2, <1>3, <2>1
  <2>2. CASE symbolTable' = enterScope(enterScope(outer)) /\ visits' = Append(rest, "else")
    <3>1. visits' # <<>>
      <4>1. "else" \in VisitKinds
        BY DEF VisitKinds, BodyKinds
      <4>. QED  BY <1>2, <2>2, <4>1, AppendProperties
    <3>. QED  BY <1>3, <2>2, <3>1, NestScopes
  <2>. QED  BY <1>5, <2>1, <2>2
<1>7. UNCHANGED <<currentFunctionReturnType, section>> /\ section <= section'
  <2>1. section' = section /\ currentFunctionReturnType' = currentFunctionReturnType
    BY DEF EndBody
  <2>. QED  BY <2>1, SectionTyped
<1>8. node \in Node /\ node.node = "end"
  BY <1>4 DEF Goes
<1>. QED  BY <1>1, <1>4, <1>6, <1>7, <1>8 DEF Advances, AsksForType

LEMMA DeclarationKind ==
  ASSUME IInv, NEW type \in ScalarTypes \cup {"array"}, NEW n \in Names,
         NEW list \in Seq(Expression), VisitDeclaration(type, n, list)
  PROVE  Declares \/ Rejects
<1>. DEFINE d == [node |-> "declaration", type |-> type, name |-> n, elements |-> list]
<1>1. d \in Node
  BY DEF Node, ScalarTypes
<1>2. outcome = "visiting" /\ visits = <<>> /\ section = Declarations
  <2>1. outcome = "visiting" /\ visits = <<>> /\ section <= Declarations
    BY DEF VisitDeclaration, Visiting
  <2>. QED  BY <2>1, SectionTyped DEF Declarations
<1>3. CASE Throw(d)
  BY <1>1, <1>2, <1>3 DEF Rejects
<1>4. CASE /\ DeclarationOk(d)
           /\ symbolTable' = addVariable(symbolTable, n, type)
           /\ Continue(d)
           /\ UNCHANGED <<insideFunction, currentFunctionReturnType, visits, section>>
  <2>1. Goes(d)
    BY <1>1, <1>2, <1>4 DEF Goes, Continue
  <2>2. ~isDeclared(symbolTable, n)
    BY <1>4 DEF DeclarationOk
  <2>. QED  BY <1>2, <1>4, <2>1, <2>2 DEF Declares
<1>. QED  BY <1>3, <1>4 DEF VisitDeclaration

LEMMA DefinitionKind ==
  ASSUME IInv, NEW f \in Names, NEW ps \in Seq(ParamInfo), NEW type \in ReturnTypes,
         VisitFunctionDefinition(f, ps, type)
  PROVE  Defines \/ Rejects
<1>. DEFINE node  == [node |-> "function", name |-> f, parameters |-> ps,
                      returnType |-> type]
            info  == [parameterInfo |-> ps]
            added == addFunction(symbolTable, f, info)
            inner == enterScope(added)
            scope == ParameterScope(ps, inner.currentScopeId)
            u     == [inner EXCEPT !.scopes[Depth(inner)] = scope]
<1>1. node \in Node
  BY DEF Node
<1>2. outcome = "visiting" /\ visits = <<>> /\ Depth(symbolTable) = 1
  BY DepthAtPlaces DEF VisitFunctionDefinition, Visiting
<1>3. CASE Throw(node)
  BY <1>1, <1>2, <1>3 DEF Rejects
<1>4. CASE /\ FunctionOk(f, ps)
           /\ symbolTable' = u
           /\ currentFunctionReturnType' = type
           /\ insideFunction' = TRUE
           /\ visits' = <<"function">>
           /\ section' = Functions
           /\ Continue(node)
  <2>1. /\ Consistent(added) /\ Depth(added) = 1
        /\ added.scopes = symbolTable.scopes
    <3>1. info \in FunctionInfo
      BY DEF FunctionInfo
    <3>. QED  BY <1>2, <3>1, TableIsConsistent, AddFunctionConsistent DEF Depth
  <2>2. added.functions = [symbolTable.functions EXCEPT ![f] = info]
    <3>1. CanAddFunction(symbolTable, f)
      BY <1>4 DEF FunctionOk
    <3>2. symbolTable \in Table
      BY TableIsConsistent DEF Consistent
    <3>. QED  BY <3>1, <3>2 DEF addFunction, Table
  <2>. HIDE DEF added
  <2>3. /\ Consistent(inner) /\ Depth(inner) = 2
        /\ inner.functions = added.functions
        /\ inner.scopes[1] = added.scopes[1]
    BY <2>1, EnterScopeConsistent, FunctionsKept
  <2>. HIDE DEF inner
  <2>4. inner.currentScopeId = 2 /\ inner \in Table
    BY <2>3 DEF Consistent, ScopeIdsAreLevels
  <2>5. /\ scope \in Scope /\ scope = ParameterScope(ps, 2)
        /\ \A n \in Names : scope[n] # NotDeclared => scope[n].scopeId = inner.currentScopeId
    BY <2>4, ParameterScopeTyped
  <2>. HIDE DEF scope
  <2>6. /\ Depth(u) = 2 /\ u.scopes[2] = scope /\ u.scopes[1] = inner.scopes[1]
    BY <2>3, <2>5, TopScopeConsistent
  <2>7. u.functions = inner.functions
    BY <2>4 DEF Table
  <2>8. Goes(node)
    BY <1>1, <1>2, <1>4 DEF Goes, Continue
  <2>. HIDE DEF u
  <2>. QED  BY <1>2, <1>4, <2>1, <2>2, <2>3, <2>5, <2>6, <2>7, <2>8
            DEF Defines, ParameterInfo
<1>. QED  BY <1>3, <1>4 DEF VisitFunctionDefinition

LEMMA EndFunctionKind == IInv /\ EndFunctionDefinition => Ends
<1>. SUFFICES ASSUME IInv, EndFunctionDefinition PROVE Ends
  OBVIOUS
<1>. DEFINE u == leaveScope(symbolTable)
<1>1. visits = <<"function">> /\ Depth(symbolTable) = 2
  BY DepthAtPlaces DEF EndFunctionDefinition
<1>2. /\ Depth(u) = 1 /\ u.functions = symbolTable.functions
      /\ u.scopes[1] = symbolTable.scopes[1]
  BY <1>1, TableIsConsistent, LeaveScopeConsistent, FunctionsKept
<1>3. [node |-> "end", of |-> "function"] \in Node
  BY DEF Node, VisitKinds
<1>. HIDE DEF u
<1>. QED  BY <1>1, <1>2, <1>3 DEF EndFunctionDefinition, Continue, Goes, Ends, u

LEMMA StatementKind ==
  ASSUME IInv, NEW e \in Expression,
         \/ VisitExpressionStatement(e)
         \/ VisitPrintStatement(e)
         \/ VisitReturnStatement(e)
         \/ VisitExpression(e)
  PROVE  Advances \/ Rejects
<1>. DEFINE node(kind) == [node |-> kind, expr |-> e]
<1>0. \A kind \in {"expression", "print", "return"} : node(kind) \in Node
  BY DEF Node
<1>1. outcome = "visiting"
  BY DEF VisitExpressionStatement, VisitPrintStatement, VisitReturnStatement,
         VisitExpression, AtStatement, Visiting
<1>a. ExpressionOk(e) /\ AsksForType(node("expression")) => CheckedNow(node("expression"))
  <2>1. SUFFICES ASSUME ExpressionOk(e), e.kind = "assign"
                 PROVE  insideFunction /\ TypeOf(e.expression, VisibleTypes) = VisibleTypes[e.name]
    BY DEF AsksForType, CheckedNow, TypeChecked
  <2>. QED  BY <2>1 DEF ExpressionOk, AssignmentOk, TypeNow
<1>b. PrintOk(e) => CheckedNow(node("print"))
  BY DEF PrintOk, TypeNow, CheckedNow, TypeChecked
<1>2. CASE VisitExpressionStatement(e)
  BY <1>0, <1>1, <1>a, <1>2, CheckKind DEF VisitExpressionStatement
<1>3. CASE VisitPrintStatement(e)
  BY <1>0, <1>1, <1>b, <1>3, CheckKind DEF VisitPrintStatement
<1>4. CASE VisitReturnStatement(e)
  <2>1. CASE Throw(node("return"))
    BY <1>0, <1>1, <2>1 DEF Rejects
  <2>2. CASE /\ ReturnOk(e)
             /\ currentFunctionReturnType' = NormalizedType(currentFunctionReturnType)
             /\ Continue(node("return"))
             /\ UNCHANGED <<symbolTable, insideFunction, visits, section>>
    <3>1. NormalizedType(currentFunctionReturnType')
            = NormalizedType(currentFunctionReturnType)
      BY <2>2 DEF NormalizedType
    <3>2. section' = section
      BY <2>2
    <3>3. section <= section'
      BY <3>2, SectionTyped
    <3>4. CheckedNow(node("return"))
      BY <2>2 DEF ReturnOk, TypeNow, CheckedNow, TypeChecked
    <3>. QED  BY <1>0, <1>1, <2>2, <3>1, <3>3, <3>4, QuietAdvance
  <2>. QED  BY <1>4, <2>1, <2>2 DEF VisitReturnStatement
<1>5. CASE VisitExpression(e)
  <2>1. CASE Throw(node("expression"))
    BY <1>0, <1>1, <2>1 DEF Rejects
  <2>2. CASE /\ ExpressionOk(e)
             /\ section' = TopExprs
             /\ Continue(node("expression"))
             /\ UNCHANGED <<tableVars, visits>>
    <3>1. section <= section'
      BY <1>5, <2>2 DEF VisitExpression, Visiting
    <3>. QED  BY <1>0, <1>1, <1>a, <2>2, <3>1, QuietAdvance DEF tableVars
  <2>. QED  BY <1>5, <2>1, <2>2 DEF VisitExpression
<1>. QED  BY <1>2, <1>3, <1>4, <1>5

LEMMA BodyStatementKind ==
  ASSUME IInv, NEW e \in Expression, NEW end \in Expression, NEW hasElse \in BOOLEAN,
         \/ VisitWhileLoopStatement(e)
         \/ VisitForLoopStatement(e, end)
         \/ VisitIfStatement(e, hasElse)
  PROVE  Advances \/ Rejects
<1>. DEFINE node(kind) == [node |-> kind, expr |-> e]
<1>0. /\ \A kind \in {"while", "if", "ifElse"} : node(kind) \in Node
      /\ [node |-> "for", start |-> e, end |-> end] \in Node
      /\ {"while", "for", "then", "thenElse"} \subseteq BodyKinds
  BY DEF Node, BodyKinds
<1>1. /\ \A kind \in {"while", "if", "ifElse"} : ConditionOk(e) => CheckedNow(node(kind))
      /\ ForOk(e, end) => CheckedNow([node |-> "for", start |-> e, end |-> end])
      /\ outcome = "visiting"
  BY DEF ConditionOk, ForOk, CheckedNow, TypeChecked, TypeNow, VisitWhileLoopStatement, VisitForLoopStatement,
         VisitIfStatement, AtStatement, Visiting
<1>2. CASE VisitWhileLoopStatement(e)
  BY <1>0, <1>1, <1>2, OpenBodyKind DEF VisitWhileLoopStatement
<1>3. CASE VisitForLoopStatement(e, end)
  BY <1>0, <1>1, <1>3, OpenBodyKind DEF VisitForLoopStatement
<1>4. CASE VisitIfStatement(e, hasElse)
  BY <1>0, <1>1, <1>4, OpenBodyKind DEF VisitIfStatement
<1>. QED  BY <1>2, <1>3, <1>4

LEMMA FunctionCallKind ==
  ASSUME IInv, NEW f \in Names, NEW arguments \in Seq(Expression),
         VisitFunctionCall(f, arguments)
  PROVE  Advances \/ Rejects
<1>. DEFINE node == [node |-> "call", name |-> f, arguments |-> arguments]
<1>0. node \in Node
  BY DEF Node
<1>1. outcome = "visiting"
  BY DEF VisitFunctionCall, Visiting
<1>2. CASE Throw(node)
  BY <1>0, <1>1, <1>2 DEF Rejects
<1>3. CASE /\ CallOk(f, arguments)
           /\ section' = Functions
           /\ Continue(node)
           /\ UNCHANGED <<tableVars, visits>>
  <2>1. section <= section'
    BY <1>3, SectionTyped DEF Functions
  <2>. QED  BY <1>0, <1>1, <1>3, <2>1, QuietAdvance DEF tableVars, AsksForType
<1>. QED  BY <1>2, <1>3 DEF VisitFunctionCall

\* Every step is of one of the six kinds.
LEMMA KindOfStep ==
  ASSUME IInv, [Next]_vars
  PROVE  Stays \/ Rejects \/ Declares \/ Advances \/ Defines \/ Ends
<1>0. /\ VariableNames \subseteq Names /\ FunctionNames \subseteq Names
      /\ ResultTypes \subseteq ReturnTypes
      /\ Expressions \subseteq Expression
      /\ ExprLists \subseteq Seq(Expression)
      /\ ParamLists \subseteq Seq(ParamInfo)
      /\ <<>> \in Seq(Expression)
  BY ProgramsAssumption, EmptySeq
<1>. DEFINE Sorted == Stays \/ Rejects \/ Declares \/ Advances \/ Defines \/ Ends
<1>. SUFFICES Sorted
  OBVIOUS
<1>1. ASSUME NEW type \in ScalarTypes \cup {"array"}, NEW n \in Names,
             NEW list \in Seq(Expression), VisitDeclaration(type, n, list)
      PROVE  Sorted
  BY <1>1, DeclarationKind
<1>2. ASSUME NEW e \in Expressions,
             \/ VisitExpressionStatement(e) \/ VisitPrintStatement(e)
             \/ VisitReturnStatement(e) \/ VisitExpression(e)
      PROVE  Sorted
  BY <1>0, <1>2, StatementKind
<1>3. ASSUME NEW e \in Expressions, NEW end \in Expressions, NEW hasElse \in BOOLEAN,
             \/ VisitWhileLoopStatement(e) \/ VisitForLoopStatement(e, end)
             \/ VisitIfStatement(e, hasElse)
      PROVE  Sorted
  BY <1>0, <1>3, BodyStatementKind
<1>4. CASE EndBody
  BY <1>4, EndBodyKind
<1>5. ASSUME NEW f \in Names, NEW ps \in ParamLists, NEW type \in ReturnTypes,
             VisitFunctionDefinition(f, ps, type)
      PROVE  Sorted
  BY <1>0, <1>5, DefinitionKind
<1>6. CASE EndFunctionDefinition
  BY <1>6, EndFunctionKind
<1>7. ASSUME NEW f \in Names, NEW list \in ExprLists, VisitFunctionCall(f, list)
      PROVE  Sorted
  BY <1>0, <1>7, FunctionCallKind
<1>8. CASE EndProgram \/ Finished \/ UNCHANGED vars
  <2>1. UNCHANGED <<symbolTable, insideFunction, currentFunctionReturnType,
                    visits, section, ast>>
    BY <1>8 DEF EndProgram, Finished, vars, tableVars
  <2>2. outcome # "rejected" <=> outcome' # "rejected"
    BY <1>8 DEF EndProgram, Finished, vars
  <2>. QED  BY <2>1, <2>2 DEF tableVars, Stays
<1>. HIDE DEF Sorted
<1>. QED
  BY <1>0, <1>1, <1>2, <1>3, <1>4, <1>5, <1>6, <1>7, <1>8 DEF Next, ScalarTypes

\* The global scope and the list, kind by kind.
LEMMA GlobalScopeStep ==
  ASSUME IInv, [Next]_vars
  PROVE  /\ section <= section'
         /\ section' # Declarations => symbolTable'.scopes[1] = symbolTable.scopes[1]
<1>0. section \in 1..4
  BY SectionTyped
<1>1. CASE Stays
  BY <1>0, <1>1 DEF Stays, tableVars
<1>2. CASE Rejects
  BY <1>0, <1>2 DEF Rejects, Throw, tableVars
<1>3. CASE Declares
  BY <1>0, <1>3 DEF Declares, Declarations
<1>4. CASE Advances
  BY <1>0, <1>4 DEF Advances
<1>5. CASE Defines
  BY <1>0, <1>5 DEF Defines, Functions
<1>6. CASE Ends
  BY <1>0, <1>6 DEF Ends
<1>. QED  BY <1>1, <1>2, <1>3, <1>4, <1>5, <1>6, KindOfStep

\* Whatever scopes bodies, parameters and loops push and pop, the global scope
\* stays what the declarations made it.
THEOREM GlobalScopeIsFrozen == Spec => GlobalScopeFrozen
<1>1. IInv /\ [Next]_vars =>
        [section' # Declarations => symbolTable'.scopes[1] = symbolTable.scopes[1]]_vars
  BY GlobalScopeStep
<1>. QED  BY <1>1, InvariantHolds, PTL DEF Spec, GlobalScopeFrozen
-----------------------------------------------------------------------------
(***************************************************************************)
(* Functions and calls.                                                    *)
(***************************************************************************)
\* The table has the definitions that the text has, each once.
FunctionsAreDefinitions ==
  outcome # "rejected" =>
    /\ \A d \in 1..Len(ast) :
         ast[d].node = "function" =>
           symbolTable.functions[ast[d].name] = ParameterInfo(ast[d].parameters)
    /\ \A f \in Names :
         symbolTable.functions[f] # NoFunction =>
           \E d \in 1..Len(ast) : ast[d].node = "function" /\ ast[d].name = f
    /\ \A c, d \in 1..Len(ast) :
         ast[c].node = "function" /\ ast[d].node = "function" /\ ast[c].name = ast[d].name
           => c = d

CallsAreResolved ==
  \A i \in Accepted :
    ast[i].node = "call" =>
      \E d \in 1..i - 1 : /\ ast[d].node = "function"
                          /\ ast[d].name = ast[i].name
                          /\ Len(ast[d].parameters) = Len(ast[i].arguments)

\* The invariant that is inductive: a call is checked against the table, and
\* only FunctionsAreDefinitions says where in the text its entry comes from.
CallsInv == IInv /\ FunctionsAreDefinitions /\ CallsAreResolved

LEMMA AppendedNode ==
  ASSUME NEW s \in Seq(Node), NEW node \in Node
  PROVE  LET r == Append(s, node)
         IN  /\ Len(s) \in Nat /\ Len(r) = Len(s) + 1
             /\ 1..Len(r) = 1..Len(s) \cup {Len(r)}
             /\ \A i \in 1..Len(s) : r[i] = s[i]
             /\ r[Len(r)] = node
             /\ r \in Seq(Node)
<1>. DEFINE r == Append(s, node)
<1>1. /\ Len(s) \in Nat /\ Len(r) = Len(s) + 1
      /\ \A i \in 1..Len(s) : r[i] = s[i]
      /\ r[Len(s) + 1] = node
      /\ r \in Seq(Node)
  BY LenProperties, AppendProperties
<1>. HIDE DEF r
<1>2. 1..Len(r) = 1..Len(s) \cup {Len(r)}
  BY <1>1
<1>. QED  BY <1>1, <1>2 DEF r

\* What a step that accepts a node does to the text.
LEMMA GoesFacts ==
  ASSUME IInv, NEW node, Goes(node)
  PROVE  /\ Len(ast) \in Nat /\ Len(ast') = Len(ast) + 1
         /\ 1..Len(ast') = 1..Len(ast) \cup {Len(ast')}
         /\ \A i \in 1..Len(ast) : ast'[i] = ast[i]
         /\ ast'[Len(ast')] = node
         /\ Accepted = 1..Len(ast) /\ Accepted' = 1..Len(ast')
         /\ outcome # "rejected" /\ outcome' # "rejected"
<1>1. /\ outcome # "rejected" /\ outcome' # "rejected"
      /\ node \in Node /\ ast \in Seq(Node) /\ ast' = Append(ast, node)
  BY DEF Goes, IInv, TypeOK
<1>2. Accepted = 1..Len(ast) /\ Accepted' = 1..Len(ast')
  BY <1>1 DEF Accepted
<1>. QED  BY <1>1, <1>2, AppendedNode

\* And one that rejects a node.
LEMMA RejectsFacts ==
  ASSUME IInv, Rejects
  PROVE  /\ Len(ast) \in Nat /\ Len(ast') = Len(ast) + 1
         /\ \A i \in 1..Len(ast) : ast'[i] = ast[i]
         /\ Accepted = 1..Len(ast) /\ Accepted' = 1..Len(ast)
         /\ outcome # "rejected" /\ outcome' = "rejected"
         /\ UNCHANGED <<symbolTable, currentFunctionReturnType, visits, section>>
<1>1. PICK node \in Node : Throw(node) /\ outcome = "visiting"
  BY DEF Rejects
<1>2. /\ ast \in Seq(Node) /\ ast' = Append(ast, node) /\ outcome' = "rejected"
      /\ UNCHANGED <<symbolTable, currentFunctionReturnType, visits, section>>
  BY <1>1 DEF IInv, TypeOK, Throw, tableVars
<1>3. /\ Len(ast) \in Nat /\ Len(ast') = Len(ast) + 1
      /\ \A i \in 1..Len(ast) : ast'[i] = ast[i]
  BY <1>2, AppendedNode
<1>4. Len(ast') - 1 = Len(ast)
  BY <1>3
<1>5. Accepted = 1..Len(ast)
  BY <1>1 DEF Accepted
<1>6. Accepted' = 1..Len(ast)
  BY <1>2, <1>4 DEF Accepted
<1>. QED  BY <1>1, <1>2, <1>3, <1>5, <1>6

LEMMA StaysFacts ==
  ASSUME Stays
  PROVE  /\ UNCHANGED <<symbolTable, currentFunctionReturnType, visits, section, ast>>
         /\ outcome # "rejected" <=> outcome' # "rejected"
         /\ Accepted' = Accepted
<1>1. /\ UNCHANGED <<symbolTable, currentFunctionReturnType, visits, section, ast>>
      /\ outcome # "rejected" <=> outcome' # "rejected"
  BY DEF Stays, tableVars
<1>2. Accepted' = Accepted
  BY <1>1 DEF Accepted
<1>. QED  BY <1>1, <1>2

LEMMA InfoIsInfo ==
  ASSUME NEW ps
  PROVE  /\ ParameterInfo(ps) # NoFunction
         /\ ParameterInfo(ps).parameterInfo = ps
BY DEF ParameterInfo, NoFunction

\* The table's functions and the text's, when a node that is no definition
\* is accepted.
LEMMA FunctionsKeptStep ==
  ASSUME IInv, FunctionsAreDefinitions, NEW node, Goes(node), node.node # "function",
         symbolTable'.functions = symbolTable.functions
  PROVE  FunctionsAreDefinitions'
<1>1. /\ Len(ast) \in Nat /\ Len(ast') = Len(ast) + 1
      /\ \A i \in 1..Len(ast) : ast'[i] = ast[i]
      /\ ast'[Len(ast')] = node
      /\ outcome # "rejected"
      /\ \A d \in 1..Len(ast') : ast'[d].node = "function" => d \in 1..Len(ast)
  BY GoesFacts
<1>. QED  BY <1>1 DEF FunctionsAreDefinitions

\* Calls that were resolved stay so while the text grows.
LEMMA CallsKeptStep ==
  ASSUME IInv, CallsAreResolved, NEW node, Goes(node), node.node # "call"
  PROVE  CallsAreResolved'
<1>1. /\ Len(ast) \in Nat /\ Len(ast') = Len(ast) + 1
      /\ \A i \in 1..Len(ast) : ast'[i] = ast[i]
      /\ ast'[Len(ast')] = node
      /\ Accepted = 1..Len(ast) /\ Accepted' = 1..Len(ast')
      /\ \A i \in 1..Len(ast') : ast'[i].node = "call" => i \in 1..Len(ast)
  BY GoesFacts
<1>2. \A i \in 1..Len(ast) : \A d \in 1..i - 1 : ast'[d] = ast[d]
  BY <1>1
<1>. QED  BY <1>1, <1>2 DEF CallsAreResolved

\* A definition enters the table and the text together.
LEMMA DefinesStep ==
  ASSUME IInv, FunctionsAreDefinitions, CallsAreResolved, Defines
  PROVE  FunctionsAreDefinitions' /\ CallsAreResolved'
<1>1. PICK f \in Names, ps \in Seq(ParamInfo), type \in ReturnTypes :
        /\ Goes([node |-> "function", name |-> f, parameters |-> ps, returnType |-> type])
        /\ FunctionOk(f, ps)
        /\ symbolTable'.functions = [symbolTable.functions EXCEPT ![f] = ParameterInfo(ps)]
  BY DEF Defines
<1>. DEFINE node == [node |-> "function", name |-> f, parameters |-> ps,
                     returnType |-> type]
<1>2. node.node = "function" /\ node.name = f /\ node.parameters = ps
  OBVIOUS
<1>3. /\ symbolTable.functions[f] = NoFunction
      /\ symbolTable.functions \in [Names -> FunctionInfo \cup {NoFunction}]
  BY <1>1 DEF FunctionOk, CanAddFunction, IInv, TypeOK, Table
<1>4. Goes(node)
  BY <1>1
<1>. HIDE DEF node
<1>5. /\ Len(ast) \in Nat /\ Len(ast') = Len(ast) + 1
      /\ 1..Len(ast') = 1..Len(ast) \cup {Len(ast')}
      /\ \A i \in 1..Len(ast) : ast'[i] = ast[i]
      /\ ast'[Len(ast')] = node
      /\ outcome # "rejected"
  BY <1>4, GoesFacts
<1>6. \A d \in 1..Len(ast) : ast[d].node = "function" => ast[d].name # f
  BY <1>3, <1>5, InfoIsInfo DEF FunctionsAreDefinitions
<1>7. ASSUME NEW d \in 1..Len(ast'), ast'[d].node = "function"
      PROVE  symbolTable'.functions[ast'[d].name] = ParameterInfo(ast'[d].parameters)
  <2>1. CASE d = Len(ast')
    BY <1>1, <1>2, <1>3, <1>5, <2>1
  <2>2. CASE d \in 1..Len(ast)
    <3>1. /\ ast'[d] = ast[d] /\ ast[d].name # f
          /\ symbolTable.functions[ast[d].name] = ParameterInfo(ast[d].parameters)
      BY <1>5, <1>6, <1>7, <2>2 DEF FunctionsAreDefinitions
    <3>2. ast[d].name \in Names
      <4>1. ast[d] \in Node
        BY <2>2, ElementOfSeq DEF IInv, TypeOK
      <4>. QED  BY <1>7, <3>1, <4>1 DEF Node
    <3>. QED  BY <1>1, <1>3, <3>1, <3>2
  <2>. QED  BY <1>5, <2>1, <2>2
<1>8. ASSUME NEW g \in Names, symbolTable'.functions[g] # NoFunction
      PROVE  \E d \in 1..Len(ast') : ast'[d].node = "function" /\ ast'[d].name = g
  <2>1. CASE g = f
    BY <1>2, <1>5, <2>1
  <2>2. CASE g # f
    <3>1. symbolTable.functions[g] # NoFunction
      BY <1>1, <1>3, <1>8, <2>2
    <3>2. PICK d \in 1..Len(ast) : ast[d].node = "function" /\ ast[d].name = g
      BY <1>5, <3>1 DEF FunctionsAreDefinitions
    <3>. QED  BY <1>5, <3>2
  <2>. QED  BY <2>1, <2>2
<1>9. ASSUME NEW c \in 1..Len(ast'), NEW d \in 1..Len(ast'),
             ast'[c].node = "function", ast'[d].node = "function",
             ast'[c].name = ast'[d].name
      PROVE  c = d
  BY <1>2, <1>5, <1>6, <1>9 DEF FunctionsAreDefinitions
<1>10. FunctionsAreDefinitions'
  BY <1>7, <1>8, <1>9 DEF FunctionsAreDefinitions
<1>11. CallsAreResolved'
  BY <1>2, <1>4, CallsKeptStep
<1>. QED  BY <1>10, <1>11

\* A call was looked up in the table.
LEMMA AdvancesCalls ==
  ASSUME IInv, FunctionsAreDefinitions, CallsAreResolved, Advances
  PROVE  FunctionsAreDefinitions' /\ CallsAreResolved'
<1>1. PICK node \in Node :
        /\ Goes(node) /\ node.node # "function"
        /\ symbolTable'.functions = symbolTable.functions
        /\ node.node = "call" => CallOk(node.name, node.arguments)
  BY DEF Advances
<1>2. FunctionsAreDefinitions'
  BY <1>1, FunctionsKeptStep
<1>3. CASE node.node # "call"
  BY <1>1, <1>2, <1>3, CallsKeptStep
<1>4. CASE node.node = "call"
  <2>1. /\ Len(ast) \in Nat /\ Len(ast') = Len(ast) + 1
        /\ 1..Len(ast') = 1..Len(ast) \cup {Len(ast')}
        /\ \A i \in 1..Len(ast) : ast'[i] = ast[i]
        /\ ast'[Len(ast')] = node
        /\ Accepted = 1..Len(ast) /\ Accepted' = 1..Len(ast')
        /\ outcome # "rejected"
    BY <1>1, GoesFacts
  <2>2. /\ symbolTable.functions[node.name] # NoFunction
        /\ Len(node.arguments) = Len(symbolTable.functions[node.name].parameterInfo)
    BY <1>1, <1>4 DEF CallOk, getFunctionInfo
  <2>3. node.name \in Names
    BY <1>4 DEF Node
  <2>4. PICK d \in 1..Len(ast) : ast[d].node = "function" /\ ast[d].name = node.name
    BY <2>1, <2>2, <2>3 DEF FunctionsAreDefinitions
  <2>5. symbolTable.functions[node.name] = ParameterInfo(ast[d].parameters)
    BY <2>1, <2>4 DEF FunctionsAreDefinitions
  <2>6. Len(ast[d].parameters) = Len(node.arguments)
    BY <2>2, <2>5, InfoIsInfo
  <2>7. ASSUME NEW i \in Accepted', ast'[i].node = "call"
        PROVE  \E e \in 1..i - 1 : /\ ast'[e].node = "function"
                                   /\ ast'[e].name = ast'[i].name
                                   /\ Len(ast'[e].parameters) = Len(ast'[i].arguments)
    <3>1. CASE i = Len(ast')
      <4>1. d \in 1..i - 1 /\ ast'[d] = ast[d] /\ ast'[i] = node
        BY <2>1, <3>1
      <4>. QED  BY <2>4, <2>6, <4>1
    <3>2. CASE i \in 1..Len(ast)
      <4>1. \A e \in 1..i - 1 : ast'[e] = ast[e]
        BY <2>1, <3>2
      <4>. QED  BY <2>1, <2>7, <3>2, <4>1 DEF CallsAreResolved
    <3>. QED  BY <2>1, <3>1, <3>2
  <2>8. CallsAreResolved'
    BY <2>7 DEF CallsAreResolved
  <2>. QED  BY <1>2, <2>8
<1>. QED  BY <1>3, <1>4

LEMMA CallsStep == CallsInv /\ [Next]_vars => CallsInv'
<1>. SUFFICES ASSUME IInv, FunctionsAreDefinitions, CallsAreResolved, [Next]_vars
              PROVE  IInv' /\ FunctionsAreDefinitions' /\ CallsAreResolved'
  BY DEF CallsInv
<1>0. IInv'
  BY NextInvariant
<1>1. CASE Stays
  BY <1>0, <1>1, StaysFacts DEF FunctionsAreDefinitions, CallsAreResolved
<1>2. CASE Rejects
  <2>1. /\ Len(ast) \in Nat
        /\ \A i \in 1..Len(ast) : ast'[i] = ast[i]
        /\ Accepted = 1..Len(ast) /\ Accepted' = 1..Len(ast)
        /\ outcome' = "rejected"
    BY <1>2, RejectsFacts
  <2>2. FunctionsAreDefinitions'
    BY <2>1 DEF FunctionsAreDefinitions
  <2>3. \A i \in 1..Len(ast) : \A d \in 1..i - 1 : ast'[d] = ast[d]
    BY <2>1
  <2>4. CallsAreResolved'
    BY <2>1, <2>3 DEF CallsAreResolved
  <2>. QED  BY <1>0, <2>2, <2>4
<1>3. CASE Declares
  <2>1. PICK type \in ScalarTypes \cup {"array"}, n \in Names, list \in Seq(Expression) :
          /\ Goes([node |-> "declaration", type |-> type, name |-> n, elements |-> list])
          /\ symbolTable' = addVariable(symbolTable, n, type)
    BY <1>3 DEF Declares
  <2>2. symbolTable'.functions = symbolTable.functions
    <3>1. symbolTable \in Table
      BY TableIsConsistent DEF Consistent
    <3>. QED  BY <2>1, <3>1 DEF addVariable, Table
  <2>3. /\ [node |-> "declaration", type |-> type, name |-> n, elements |-> list].node
             # "function"
        /\ [node |-> "declaration", type |-> type, name |-> n, elements |-> list].node
             # "call"
    OBVIOUS
  <2>. QED  BY <1>0, <2>1, <2>2, <2>3, FunctionsKeptStep, CallsKeptStep
<1>4. CASE Advances
  BY <1>0, <1>4, AdvancesCalls
<1>5. CASE Defines
  BY <1>0, <1>5, DefinesStep
<1>6. CASE Ends
  <2>1. /\ Goes([node |-> "end", of |-> "function"])
        /\ symbolTable'.functions = symbolTable.functions
    BY <1>6 DEF Ends
  <2>2. /\ [node |-> "end", of |-> "function"].node # "function"
        /\ [node |-> "end", of |-> "function"].node # "call"
    OBVIOUS
  <2>. QED  BY <1>0, <2>1, <2>2, FunctionsKeptStep, CallsKeptStep
<1>. QED  BY <1>1, <1>2, <1>3, <1>4, <1>5, <1>6, KindOfStep

LEMMA CallsInit == Init => CallsInv
<1>. SUFFICES ASSUME Init PROVE CallsInv
  OBVIOUS
<1>1. ast = <<>> /\ Len(ast) = 0 /\ Accepted = {}
  <2>1. ast = <<>> /\ outcome = "visiting"
    BY DEF Init
  <2>. QED  BY <2>1, EmptySeq DEF Accepted
<1>2. \A f \in Names : symbolTable.functions[f] = NoFunction
  BY DEF Init, NewTable
<1>3. FunctionsAreDefinitions /\ CallsAreResolved
  BY <1>1, <1>2 DEF FunctionsAreDefinitions, CallsAreResolved
<1>. QED  BY <1>3, InitInvariant DEF CallsInv

LEMMA CallsInvGives == CallsInv => CallsFollowDefinitions
<1>. SUFFICES ASSUME CallsInv, NEW i \in Accepted, ast[i].node = "call"
              PROVE  LET definitions == {d \in 1..Len(ast) : ast[d].node = "function"
                                                             /\ ast[d].name = ast[i].name}
                     IN  /\ \E d \in definitions :
                              /\ d < i
                              /\ Len(ast[d].parameters) = Len(ast[i].arguments)
                         /\ outcome # "rejected" => \A c, d \in definitions : c = d
  BY DEF CallsFollowDefinitions
<1>1. Len(ast) \in Nat /\ i \in 1..Len(ast)
  <2>1. ast \in Seq(Node)
    BY DEF CallsInv, IInv, TypeOK
  <2>2. Len(ast) \in Nat
    BY <2>1, LenProperties
  <2>. QED  BY <2>2 DEF Accepted
<1>2. PICK d \in 1..i - 1 : /\ ast[d].node = "function"
                            /\ ast[d].name = ast[i].name
                            /\ Len(ast[d].parameters) = Len(ast[i].arguments)
  BY DEF CallsInv, CallsAreResolved
<1>3. d \in 1..Len(ast) /\ d < i
  BY <1>1, <1>2
<1>4. outcome # "rejected" =>
        \A c, e \in 1..Len(ast) :
          ast[c].node = "function" /\ ast[e].node = "function" /\ ast[c].name = ast[e].name
            => c = e
  BY DEF CallsInv, FunctionsAreDefinitions
<1>. QED  BY <1>2, <1>3, <1>4

\* Every accepted call comes after the one definition of its function and has
\* as many arguments as that has parameters, for programs of every size.
THEOREM CallsAlwaysFollowDefinitions == Spec => []CallsFollowDefinitions
BY CallsInit, CallsStep, CallsInvGives, PTL DEF Spec
-----------------------------------------------------------------------------
(***************************************************************************)
(* Expressions as statements.                                              *)
(***************************************************************************)
\* No statement that is accepted is an operator.
OperatorsAreRejected ==
  \A i \in Accepted : ast[i].node = "expression" => ast[i].expr.kind \notin {"unary", "binary"}

\* No type is both of those that visit(UnaryExpression) and
\* visit(BinaryExpression) ask for.
LEMMA OperatorsAreNotOk ==
  ASSUME NEW e, ExpressionOk(e)
  PROVE  e.kind \notin {"unary", "binary"}
<1>1. CASE e.kind = "unary"
  BY <1>1 DEF ExpressionOk, UnaryOk
<1>2. CASE e.kind = "binary"
  <2>1. BinaryOk(e)
    BY <1>2 DEF ExpressionOk
  <2>. DEFINE types == {TypeNow(e.left), TypeNow(e.right)}
  <2>2. types = {"int"} /\ types = {"float"}
    BY <2>1 DEF BinaryOk
  <2>. HIDE DEF types
  <2>. QED  BY <2>2
<1>. QED  BY <1>1, <1>2

LEMMA OperatorsStep ==
  ASSUME IInv, OperatorsAreRejected, [Next]_vars
  PROVE  OperatorsAreRejected'
<1>1. CASE Stays
  BY <1>1, StaysFacts DEF OperatorsAreRejected
<1>2. CASE Rejects
  <2>1. /\ \A i \in 1..Len(ast) : ast'[i] = ast[i]
        /\ Accepted = 1..Len(ast) /\ Accepted' = 1..Len(ast)
    BY <1>2, RejectsFacts
  <2>. QED  BY <2>1 DEF OperatorsAreRejected
<1>3. ASSUME NEW node, Goes(node), node.node = "expression" => ExpressionOk(node.expr)
      PROVE  OperatorsAreRejected'
  <2>1. /\ 1..Len(ast') = 1..Len(ast) \cup {Len(ast')}
        /\ \A i \in 1..Len(ast) : ast'[i] = ast[i]
        /\ ast'[Len(ast')] = node
        /\ Accepted = 1..Len(ast) /\ Accepted' = 1..Len(ast')
    BY <1>3, GoesFacts
  <2>2. node.node = "expression" => node.expr.kind \notin {"unary", "binary"}
    BY <1>3, OperatorsAreNotOk
  <2>. QED  BY <2>1, <2>2 DEF OperatorsAreRejected
<1>4. CASE Declares
  BY <1>3, <1>4 DEF Declares
<1>5. CASE Advances
  BY <1>3, <1>5 DEF Advances
<1>6. CASE Defines
  BY <1>3, <1>6 DEF Defines
<1>7. CASE Ends
  BY <1>3, <1>7 DEF Ends
<1>. QED  BY <1>1, <1>2, <1>4, <1>5, <1>6, <1>7, KindOfStep

LEMMA OperatorsInit == Init => OperatorsAreRejected
<1>. SUFFICES ASSUME Init PROVE OperatorsAreRejected
  OBVIOUS
<1>1. Len(ast) = 0 /\ Accepted = 1..Len(ast)
  BY EmptySeq DEF Init, Accepted
<1>. QED  BY <1>1 DEF OperatorsAreRejected

\* The analyzer accepts no operator as a statement, of whatever types and in
\* whatever program: an int is refused for not being a float, and a float for not
\* being an int (SemanticAnalyzer.cpp:82 and :99).
THEOREM OperatorStatementsAreRejected == Spec => []OperatorsAreRejected
<1>. QED  BY OperatorsInit, OperatorsStep, InvariantHolds, PTL DEF Spec
-----------------------------------------------------------------------------
(***************************************************************************)
(* The names that the analyzer sees and the return types that it accepts   *)
(* are those of the source text.                                           *)
(***************************************************************************)
\* Position f of the text s is the last function definition up to position i.
Encloses(s, f, i) == /\ f \in 1..i /\ s[f].node = "function"
                     /\ \A j \in f+1..i : s[j].node # "function"

\* The types in the body of a function with these parameters, by the table.
TypesInBody(t, parameters) ==
  [n \in Names |-> IF Positions(parameters, n) = {}
                     THEN t.scopes[1][n].type
                     ELSE TypeOfParameter(parameters, n)]

\* The global scope is the declaration list.
GlobalScopeIsDeclared ==
  \A n \in Names :
    /\ DeclarationsOf(n) = {} => symbolTable.scopes[1][n] = NotDeclared
    /\ \A i \in DeclarationsOf(n) : /\ symbolTable.scopes[1][n] # NotDeclared
                                    /\ symbolTable.scopes[1][n].type = ast[i].type

\* Functions are visited after everything else, so nothing is declared after one.
FunctionsComeLast ==
  outcome # "rejected" /\ section # Functions =>
    \A i \in 1..Len(ast) : ast[i].node # "function"

\* The second scope and the return type are those of the enclosing function.
BodyIsOfItsFunction ==
  outcome # "rejected" /\ visits # <<>> =>
    \E f \in 1..Len(ast) :
      /\ Encloses(ast, f, Len(ast))
      /\ symbolTable.scopes[2] = ParameterScope(ast[f].parameters, 2)
      /\ NormalizedType(currentFunctionReturnType) = NormalizedType(ast[f].returnType)

\* The types that statements ask for were found in the environment of their function.
StatementsAreChecked ==
  \A i \in Accepted :
    AsksForType(ast[i]) =>
      \E f \in 1..i :
        /\ Encloses(ast, f, i)
        /\ TypeChecked(ast[i], TypesInBody(symbolTable, ast[f].parameters), ast[f].returnType)

\* The inductive invariant: the stack of scopes, from the bottom up, in terms of
\* the text.  StatementsAreChecked speaks of the table of now about statements of
\* long ago, which FunctionsComeLast allows.
ScopesInv == /\ IInv
             /\ EmptyAbove(symbolTable)
             /\ GlobalScopeIsDeclared
             /\ FunctionsComeLast
             /\ BodyIsOfItsFunction
             /\ StatementsAreChecked
-----------------------------------------------------------------------------
(***************************************************************************)
(* What the table makes visible.                                           *)
(***************************************************************************)
LEMMA GlobalLookup ==
  ASSUME NEW t, Depth(t) = 1, NEW n \in Names
  PROVE  getSymbolInfo(t, n).type = t.scopes[1][n].type
<1>1. CASE t.scopes[1][n] = NotDeclared
  <2>1. DeclaringLevels(t, n) = {}
    BY <1>1 DEF DeclaringLevels
  <2>. QED  BY <1>1, <2>1 DEF getSymbolInfo, isDeclared
<1>2. CASE t.scopes[1][n] # NotDeclared
  <2>1. DeclaringLevels(t, n) = {1}
    BY <1>2 DEF DeclaringLevels
  <2>2. (CHOOSE i \in {1} : \A j \in {1} : j <= i) = 1
    OBVIOUS
  <2>. QED  BY <2>1, <2>2 DEF getSymbolInfo, isDeclared
<1>. QED  BY <1>1, <1>2

LEMMA BodyLookup ==
  ASSUME NEW t, Depth(t) \in Nat, Depth(t) >= 2, EmptyAbove(t),
         NEW ps \in Seq(ParamInfo), t.scopes[2] = ParameterScope(ps, 2),
         NEW n \in Names
  PROVE  getSymbolInfo(t, n).type = TypesInBody(t, ps)[n]
<1>1. DeclaringLevels(t, n) \subseteq {1, 2}
  BY DEF DeclaringLevels, EmptyAbove, EmptyScope
<1>2. CASE Positions(ps, n) # {}
  <2>1. t.scopes[2][n] = [type |-> TypeOfParameter(ps, n), scopeId |-> 2]
    BY <1>2 DEF ParameterScope
  <2>2. t.scopes[2][n] # NotDeclared
    BY <2>1 DEF NotDeclared
  <2>3. 2 \in DeclaringLevels(t, n)
    BY <2>2 DEF DeclaringLevels
  <2>4. (CHOOSE i \in DeclaringLevels(t, n) : \A j \in DeclaringLevels(t, n) : j <= i) = 2
    BY <1>1, <2>3
  <2>5. getSymbolInfo(t, n) = t.scopes[2][n]
    BY <2>3, <2>4 DEF getSymbolInfo, isDeclared
  <2>. QED  BY <1>2, <2>1, <2>5 DEF TypesInBody
<1>3. CASE Positions(ps, n) = {}
  <2>1. t.scopes[2][n] = NotDeclared
    BY <1>3 DEF ParameterScope
  <2>2. TypesInBody(t, ps)[n] = t.scopes[1][n].type
    BY <1>3 DEF TypesInBody
  <2>3. CASE t.scopes[1][n] = NotDeclared
    <3>1. DeclaringLevels(t, n) = {}
      BY <1>1, <2>1, <2>3 DEF DeclaringLevels
    <3>. QED  BY <2>2, <2>3, <3>1 DEF getSymbolInfo, isDeclared
  <2>4. CASE t.scopes[1][n] # NotDeclared
    <3>1. DeclaringLevels(t, n) = {1}
      BY <1>1, <2>1, <2>4 DEF DeclaringLevels
    <3>2. (CHOOSE i \in {1} : \A j \in {1} : j <= i) = 1
      OBVIOUS
    <3>. QED  BY <2>2, <3>1, <3>2 DEF getSymbolInfo, isDeclared
  <2>. QED  BY <2>3, <2>4
<1>. QED  BY <1>2, <1>3

\* In a body the analyzer's types are those of the function's parameters over
\* the global scope.
LEMMA VisibleInBody ==
  ASSUME IInv, EmptyAbove(symbolTable), visits # <<>>, NEW ps \in Seq(ParamInfo),
         symbolTable.scopes[2] = ParameterScope(ps, 2)
  PROVE  VisibleTypes = TypesInBody(symbolTable, ps)
<1>1. Depth(symbolTable) >= 2
  BY DepthAtPlaces
<1>2. Depth(symbolTable) \in Nat
  BY LenProperties, TableIsConsistent DEF Consistent, Table, Depth
<1>3. \A n \in Names : getSymbolInfo(symbolTable, n).type = TypesInBody(symbolTable, ps)[n]
  BY <1>1, <1>2, BodyLookup
<1>. QED  BY <1>3 DEF VisibleTypes, TypesInBody

LEMMA VisibleGlobally ==
  ASSUME IInv, visits = <<>>
  PROVE  VisibleTypes = [n \in Names |-> symbolTable.scopes[1][n].type]
<1>1. Depth(symbolTable) = 1
  BY DepthAtPlaces
<1>2. \A n \in Names : getSymbolInfo(symbolTable, n).type = symbolTable.scopes[1][n].type
  BY <1>1, GlobalLookup
<1>. QED  BY <1>2 DEF VisibleTypes
-----------------------------------------------------------------------------
(***************************************************************************)
(* The steps.                                                              *)
(***************************************************************************)
\* The global scope keeps its types, so the types in every body stay.
LEMMA TypesInBodyKept ==
  ASSUME symbolTable'.scopes[1] = symbolTable.scopes[1], NEW ps
  PROVE  TypesInBody(symbolTable', ps) = TypesInBody(symbolTable, ps)
BY DEF TypesInBody

\* The enclosing function of an old position.
LEMMA EnclosesKept ==
  ASSUME NEW s, NEW r, NEW n \in Nat, \A i \in 1..n : r[i] = s[i],
         NEW i \in 1..n, NEW f \in 1..i, Encloses(s, f, i)
  PROVE  Encloses(r, f, i) /\ r[f] = s[f]
<1>1. \A j \in 1..i : r[j] = s[j]
  OBVIOUS
<1>2. \A j \in f+1..i : j \in 1..i
  OBVIOUS
<1>. QED  BY <1>1, <1>2 DEF Encloses

\* Old declarations and old statements, when the accepted text so far is kept
\* and with it the types of the global scope.
LEMMA StatementsKept ==
  ASSUME NEW n \in Nat, Accepted = 1..n, \A i \in 1..n : ast'[i] = ast[i],
         symbolTable'.scopes[1] = symbolTable.scopes[1], StatementsAreChecked
  PROVE  \A i \in 1..n :
           AsksForType(ast'[i]) =>
             \E f \in 1..i :
               /\ Encloses(ast', f, i)
               /\ TypeChecked(ast'[i], TypesInBody(symbolTable', ast'[f].parameters),
                             ast'[f].returnType)
<1>. SUFFICES ASSUME NEW i \in 1..n, AsksForType(ast'[i])
              PROVE  \E f \in 1..i :
               /\ Encloses(ast', f, i)
               /\ TypeChecked(ast'[i], TypesInBody(symbolTable', ast'[f].parameters),
                             ast'[f].returnType)
  OBVIOUS
<1>1. ast'[i] = ast[i]
  OBVIOUS
<1>2. PICK f \in 1..i :
        /\ Encloses(ast, f, i)
        /\ TypeChecked(ast[i], TypesInBody(symbolTable, ast[f].parameters), ast[f].returnType)
  BY <1>1 DEF StatementsAreChecked
<1>3. Encloses(ast', f, i) /\ ast'[f] = ast[f]
  BY <1>2, EnclosesKept
<1>4. TypesInBody(symbolTable', ast'[f].parameters)
        = TypesInBody(symbolTable, ast[f].parameters)
  BY <1>3, TypesInBodyKept
<1>. QED  BY <1>1, <1>2, <1>3, <1>4

LEMMA GlobalKept ==
  ASSUME NEW n \in Nat, Accepted = 1..n, \A i \in 1..n : ast'[i] = ast[i],
         \A i \in Accepted' : i \in 1..n \/ ast'[i].node # "declaration",
         1..n \subseteq Accepted',
         symbolTable'.scopes[1] = symbolTable.scopes[1], GlobalScopeIsDeclared
  PROVE  GlobalScopeIsDeclared'
<1>1. \A x \in Names : DeclarationsOf(x)' = DeclarationsOf(x)
  BY DEF DeclarationsOf
<1>2. \A x \in Names : \A i \in DeclarationsOf(x) : ast'[i] = ast[i]
  BY DEF DeclarationsOf
<1>. QED  BY <1>1, <1>2 DEF GlobalScopeIsDeclared

\* Nothing that is accepted or rejected.
LEMMA ScopesStays ==
  ASSUME ScopesInv, Stays
  PROVE  /\ EmptyAbove(symbolTable)'
         /\ GlobalScopeIsDeclared' /\ FunctionsComeLast'
         /\ BodyIsOfItsFunction' /\ StatementsAreChecked'
<1>1. /\ symbolTable' = symbolTable /\ visits' = visits /\ section' = section
      /\ currentFunctionReturnType' = currentFunctionReturnType /\ ast' = ast
      /\ outcome # "rejected" <=> outcome' # "rejected"
      /\ Accepted' = Accepted
  BY StaysFacts
<1>2. EmptyAbove(symbolTable)'
  BY <1>1 DEF ScopesInv, EmptyAbove, Depth
<1>3. GlobalScopeIsDeclared'
  BY <1>1 DEF ScopesInv, GlobalScopeIsDeclared, DeclarationsOf
<1>4. FunctionsComeLast'
  BY <1>1 DEF ScopesInv, FunctionsComeLast, Functions
<1>5. BodyIsOfItsFunction'
  BY <1>1 DEF ScopesInv, BodyIsOfItsFunction
<1>6. StatementsAreChecked'
  BY <1>1 DEF ScopesInv, StatementsAreChecked
<1>. QED  BY <1>2, <1>3, <1>4, <1>5, <1>6

LEMMA ScopesRejects ==
  ASSUME ScopesInv, Rejects
  PROVE  /\ EmptyAbove(symbolTable)'
         /\ GlobalScopeIsDeclared' /\ FunctionsComeLast'
         /\ BodyIsOfItsFunction' /\ StatementsAreChecked'
<1>0. IInv /\ GlobalScopeIsDeclared /\ StatementsAreChecked /\ EmptyAbove(symbolTable)
  BY DEF ScopesInv
<1>1. /\ Len(ast) \in Nat
      /\ \A i \in 1..Len(ast) : ast'[i] = ast[i]
      /\ Accepted = 1..Len(ast) /\ Accepted' = 1..Len(ast)
      /\ outcome' = "rejected"
      /\ symbolTable' = symbolTable
  BY <1>0, RejectsFacts
<1>2. EmptyAbove(symbolTable)'
  BY <1>0, <1>1 DEF EmptyAbove, Depth
<1>3. FunctionsComeLast' /\ BodyIsOfItsFunction'
  BY <1>1 DEF FunctionsComeLast, BodyIsOfItsFunction
<1>4. GlobalScopeIsDeclared'
  BY <1>0, <1>1, GlobalKept
<1>5. StatementsAreChecked'
  BY <1>0, <1>1, StatementsKept DEF StatementsAreChecked
<1>. QED  BY <1>2, <1>3, <1>4, <1>5

\* A declaration adds one name to the global scope.
LEMMA DeclaredScope ==
  ASSUME NEW t, Consistent(t), Depth(t) = 1, NEW n \in Names, ~isDeclared(t, n), NEW type
  PROVE  LET u == addVariable(t, n, type)
         IN  /\ Depth(u) = 1
             /\ t.scopes[1][n] = NotDeclared
             /\ u.scopes[1] = [t.scopes[1] EXCEPT ![n] = [type |-> type, scopeId |-> 1]]
<1>1. t.scopes[1][n] = NotDeclared
  BY DEF isDeclared, DeclaringLevels
<1>2. /\ t.scopes \in Seq(Scope) /\ Len(t.scopes) = 1 /\ t.scopes # <<>>
      /\ t.currentScopeId = 1 /\ t \in Table
  BY EmptySeq DEF Consistent, Table, Depth, ScopeIdsAreLevels
<1>3. CanAddVariable(t, n)
  BY <1>1, <1>2 DEF CanAddVariable, Depth
<1>. DEFINE info == [type |-> type, scopeId |-> 1]
            u    == [t EXCEPT !.scopes[1][n] = info]
<1>4. addVariable(t, n, type) = u
  BY <1>2, <1>3 DEF addVariable, Depth
<1>5. u.scopes = [t.scopes EXCEPT ![1] = [t.scopes[1] EXCEPT ![n] = info]]
  BY <1>2 DEF Table
<1>6. Len(u.scopes) = 1 /\ u.scopes[1] = [t.scopes[1] EXCEPT ![n] = info]
  BY <1>2, <1>5
<1>. HIDE DEF u
<1>. QED  BY <1>1, <1>4, <1>6 DEF Depth

LEMMA ScopesDeclares ==
  ASSUME ScopesInv, Declares
  PROVE  /\ EmptyAbove(symbolTable)'
         /\ GlobalScopeIsDeclared' /\ FunctionsComeLast'
         /\ BodyIsOfItsFunction' /\ StatementsAreChecked'
<1>0. IInv /\ GlobalScopeIsDeclared /\ StatementsAreChecked /\ FunctionsComeLast
  BY DEF ScopesInv
<1>1. PICK type \in ScalarTypes \cup {"array"}, n \in Names, list \in Seq(Expression) :
        /\ Goes([node |-> "declaration", type |-> type, name |-> n, elements |-> list])
        /\ section = Declarations /\ visits = <<>>
        /\ ~isDeclared(symbolTable, n)
        /\ symbolTable' = addVariable(symbolTable, n, type)
        /\ visits' = visits /\ section' = section
  BY DEF Declares
<1>. DEFINE node == [node |-> "declaration", type |-> type, name |-> n, elements |-> list]
<1>2. node.node = "declaration" /\ node.name = n /\ node.type = type
  OBVIOUS
<1>3. Goes(node)
  BY <1>1
<1>. HIDE DEF node
<1>4. /\ Len(ast) \in Nat /\ Len(ast') = Len(ast) + 1
      /\ 1..Len(ast') = 1..Len(ast) \cup {Len(ast')}
      /\ \A i \in 1..Len(ast) : ast'[i] = ast[i]
      /\ ast'[Len(ast')] = node
      /\ Accepted = 1..Len(ast) /\ Accepted' = 1..Len(ast')
      /\ outcome # "rejected"
  BY <1>0, <1>3, GoesFacts
<1>5. /\ Depth(symbolTable') = 1
      /\ symbolTable.scopes[1][n] = NotDeclared
      /\ symbolTable'.scopes[1]
           = [symbolTable.scopes[1] EXCEPT ![n] = [type |-> type, scopeId |-> 1]]
  <2>1. Depth(symbolTable) = 1
    BY <1>0, <1>1, DepthAtPlaces
  <2>. QED  BY <1>0, <1>1, <2>1, TableIsConsistent, DeclaredScope
<1>6. EmptyAbove(symbolTable)' /\ FunctionsComeLast' /\ BodyIsOfItsFunction'
  <2>1. \A i \in 1..Len(ast) : ast[i].node # "function"
    BY <1>0, <1>1, <1>4 DEF FunctionsComeLast, Declarations, Functions
  <2>2. EmptyAbove(symbolTable)'
    BY <1>5 DEF EmptyAbove
  <2>3. FunctionsComeLast'
    BY <1>2, <1>4, <2>1 DEF FunctionsComeLast
  <2>4. BodyIsOfItsFunction'
    BY <1>1 DEF BodyIsOfItsFunction
  <2>. QED  BY <2>2, <2>3, <2>4
<1>7. StatementsAreChecked'
  <2>1. \A i \in 1..Len(ast) : ast[i].node # "function"
    BY <1>0, <1>1, <1>4 DEF FunctionsComeLast, Declarations, Functions
  <2>2. \A i \in 1..Len(ast) : ~AsksForType(ast[i])
    <3>1. ASSUME NEW i \in 1..Len(ast), AsksForType(ast[i])
          PROVE  FALSE
      <4>1. PICK f \in 1..i : Encloses(ast, f, i)
        BY <1>0, <1>4, <3>1 DEF StatementsAreChecked
      <4>2. f \in 1..Len(ast)
        BY <1>4, <4>1
      <4>. QED  BY <2>1, <4>1, <4>2 DEF Encloses
    <3>. QED  BY <3>1
  <2>. QED  BY <1>2, <1>4, <2>2 DEF StatementsAreChecked, AsksForType
<1>8. GlobalScopeIsDeclared'
  <2>1. symbolTable.scopes[1] \in Scope
    <3>1. symbolTable.scopes \in Seq(Scope) /\ Len(symbolTable.scopes) = 1
      BY <1>0, <1>1, DepthAtPlaces, TableIsConsistent DEF Consistent, Table, Depth
    <3>. QED  BY <3>1
  <2>2. \A x \in Names :
          symbolTable'.scopes[1][x] = IF x = n THEN [type |-> type, scopeId |-> 1]
                                               ELSE symbolTable.scopes[1][x]
    BY <1>5, <2>1 DEF Scope
  <2>3. DeclarationsOf(n) = {}
    BY <1>0, <1>5 DEF GlobalScopeIsDeclared
  <2>4. DeclarationsOf(n)' = {Len(ast')}
    BY <1>2, <1>4, <2>3 DEF DeclarationsOf
  <2>5. \A x \in Names \ {n} : DeclarationsOf(x)' = DeclarationsOf(x)
    BY <1>2, <1>4 DEF DeclarationsOf
  <2>6. \A x \in Names : \A i \in DeclarationsOf(x) : ast'[i] = ast[i]
    BY <1>4 DEF DeclarationsOf
  <2>7. [type |-> type, scopeId |-> 1] # NotDeclared
    BY DEF NotDeclared
  <2>8. ASSUME NEW x \in Names
        PROVE  /\ DeclarationsOf(x)' = {} => symbolTable'.scopes[1][x] = NotDeclared
               /\ \A i \in DeclarationsOf(x)' :
                    /\ symbolTable'.scopes[1][x] # NotDeclared
                    /\ symbolTable'.scopes[1][x].type = ast'[i].type
    <3>1. CASE x = n
      <4>1. /\ symbolTable'.scopes[1][x] = [type |-> type, scopeId |-> 1]
            /\ DeclarationsOf(x)' = {Len(ast')}
            /\ ast'[Len(ast')].type = type
        BY <1>2, <1>4, <2>2, <2>4, <3>1
      <4>2. /\ [type |-> type, scopeId |-> 1] # NotDeclared
            /\ [type |-> type, scopeId |-> 1].type = type
        BY <2>7
      <4>3. \A i \in DeclarationsOf(x)' : ast'[i].type = type
        BY <4>1
      <4>4. DeclarationsOf(x)' # {}
        BY <4>1
      <4>. QED  BY <4>1, <4>2, <4>3, <4>4
    <3>2. CASE x # n
      BY <1>0, <2>2, <2>5, <2>6, <3>2 DEF GlobalScopeIsDeclared
    <3>. QED  BY <3>1, <3>2
  <2>. QED  BY <2>8 DEF GlobalScopeIsDeclared
<1>. QED  BY <1>6, <1>7, <1>8

\* Statements, the ends of their bodies, expressions and calls.
LEMMA ScopesAdvances ==
  ASSUME ScopesInv, section' \in 1..4, Advances
  PROVE  /\ EmptyAbove(symbolTable)'
         /\ GlobalScopeIsDeclared' /\ FunctionsComeLast'
         /\ BodyIsOfItsFunction' /\ StatementsAreChecked'
<1>0. /\ IInv /\ GlobalScopeIsDeclared /\ StatementsAreChecked /\ FunctionsComeLast
      /\ BodyIsOfItsFunction /\ EmptyAbove(symbolTable)
  BY DEF ScopesInv
<1>1. PICK node \in Node :
        /\ Goes(node) /\ node.node \notin {"declaration", "function"}
        /\ visits' = <<>> <=> visits = <<>>
        /\ symbolTable'.scopes[1] = symbolTable.scopes[1]
        /\ visits # <<>> => symbolTable'.scopes[2] = symbolTable.scopes[2]
        /\ EmptyAbove(symbolTable) => EmptyAbove(symbolTable')
        /\ NormalizedType(currentFunctionReturnType')
             = NormalizedType(currentFunctionReturnType)
        /\ section <= section'
        /\ AsksForType(node) => CheckedNow(node)
  BY DEF Advances
<1>2. /\ Len(ast) \in Nat /\ Len(ast') = Len(ast) + 1
      /\ 1..Len(ast') = 1..Len(ast) \cup {Len(ast')}
      /\ \A i \in 1..Len(ast) : ast'[i] = ast[i]
      /\ ast'[Len(ast')] = node
      /\ Accepted = 1..Len(ast) /\ Accepted' = 1..Len(ast')
      /\ outcome # "rejected"
  BY <1>0, <1>1, GoesFacts
<1>3. EmptyAbove(symbolTable)'
  BY <1>0, <1>1
<1>4. GlobalScopeIsDeclared'
  BY <1>0, <1>1, <1>2, GlobalKept
<1>5. FunctionsComeLast'
  <2>1. section' # Functions => section # Functions
    <3>1. section \in 1..4 /\ section' \in 1..4
      BY <1>0, SectionTyped
    <3>. QED  BY <1>1, <3>1 DEF Functions
  <2>. QED  BY <1>0, <1>1, <1>2, <2>1 DEF FunctionsComeLast, Functions
\* The function whose body is open stays the last one.
<1>6. ASSUME visits # <<>>
      PROVE  \E f \in 1..Len(ast) :
               /\ Encloses(ast, f, Len(ast)) /\ Encloses(ast', f, Len(ast'))
               /\ ast'[f] = ast[f]
               /\ symbolTable.scopes[2] = ParameterScope(ast[f].parameters, 2)
               /\ NormalizedType(currentFunctionReturnType)
                    = NormalizedType(ast[f].returnType)
  <2>1. PICK f \in 1..Len(ast) :
          /\ Encloses(ast, f, Len(ast))
          /\ symbolTable.scopes[2] = ParameterScope(ast[f].parameters, 2)
          /\ NormalizedType(currentFunctionReturnType) = NormalizedType(ast[f].returnType)
    BY <1>0, <1>2, <1>6 DEF BodyIsOfItsFunction
  <2>2. \A j \in f+1..Len(ast') : ast'[j].node # "function"
    <3>1. \A j \in f+1..Len(ast') : j = Len(ast') \/ j \in f+1..Len(ast)
      BY <1>2
    <3>2. \A j \in f+1..Len(ast) : ast'[j] = ast[j] /\ ast[j].node # "function"
      BY <1>2, <2>1 DEF Encloses
    <3>. QED  BY <1>1, <1>2, <3>1, <3>2
  <2>3. Encloses(ast', f, Len(ast')) /\ ast'[f] = ast[f]
    BY <1>2, <2>1, <2>2 DEF Encloses
  <2>. QED  BY <2>1, <2>3
<1>7. BodyIsOfItsFunction'
  BY <1>1, <1>2, <1>6 DEF BodyIsOfItsFunction
<1>8. ASSUME AsksForType(node)
      PROVE  \E f \in 1..Len(ast') :
               /\ Encloses(ast', f, Len(ast'))
               /\ TypeChecked(node, TypesInBody(symbolTable', ast'[f].parameters),
                              ast'[f].returnType)
  <2>1. /\ insideFunction
        /\ TypeChecked(node, VisibleTypes, currentFunctionReturnType)
    BY <1>1, <1>8 DEF CheckedNow
  <2>2. visits # <<>>
    BY <1>0, <2>1, DepthAtPlaces
  <2>3. PICK f \in 1..Len(ast) :
          /\ Encloses(ast, f, Len(ast)) /\ Encloses(ast', f, Len(ast'))
          /\ ast'[f] = ast[f]
          /\ symbolTable.scopes[2] = ParameterScope(ast[f].parameters, 2)
          /\ NormalizedType(currentFunctionReturnType) = NormalizedType(ast[f].returnType)
    BY <1>6, <2>2
  <2>4. ast[f].parameters \in Seq(ParamInfo)
    <3>1. ast[f] \in Node /\ ast[f].node = "function"
      BY <1>0, <2>3, ElementOfSeq DEF IInv, TypeOK, Encloses
    <3>. QED  BY <3>1 DEF Node
  <2>5. VisibleTypes = TypesInBody(symbolTable, ast[f].parameters)
    BY <1>0, <2>2, <2>3, <2>4, VisibleInBody
  <2>6. TypesInBody(symbolTable', ast'[f].parameters)
          = TypesInBody(symbolTable, ast[f].parameters)
    BY <1>1, <2>3, TypesInBodyKept
  <2>7. f \in 1..Len(ast')
    BY <1>2, <2>3
  <2>8. TypeChecked(node, TypesInBody(symbolTable', ast'[f].parameters), ast'[f].returnType)
    BY <2>1, <2>3, <2>5, <2>6 DEF TypeChecked
  <2>. QED  BY <2>3, <2>7, <2>8
<1>9. StatementsAreChecked'
  <2>1. \A i \in 1..Len(ast) :
          AsksForType(ast'[i]) =>
            \E f \in 1..i :
              /\ Encloses(ast', f, i)
              /\ TypeChecked(ast'[i], TypesInBody(symbolTable', ast'[f].parameters),
                             ast'[f].returnType)
    BY <1>0, <1>1, <1>2, StatementsKept
  <2>. QED  BY <1>2, <1>8, <2>1 DEF StatementsAreChecked
<1>. QED  BY <1>3, <1>4, <1>5, <1>7, <1>9

LEMMA ScopesDefines ==
  ASSUME ScopesInv, Defines
  PROVE  /\ EmptyAbove(symbolTable)'
         /\ GlobalScopeIsDeclared' /\ FunctionsComeLast'
         /\ BodyIsOfItsFunction' /\ StatementsAreChecked'
<1>0. IInv /\ GlobalScopeIsDeclared /\ StatementsAreChecked
  BY DEF ScopesInv
<1>1. PICK name \in Names, ps \in Seq(ParamInfo), type \in ReturnTypes :
        /\ Goes([node |-> "function", name |-> name, parameters |-> ps,
                 returnType |-> type])
        /\ symbolTable'.scopes[1] = symbolTable.scopes[1]
        /\ symbolTable'.scopes[2] = ParameterScope(ps, 2)
        /\ Depth(symbolTable') = 2
        /\ currentFunctionReturnType' = type
        /\ section' = Functions
  BY DEF Defines
<1>. DEFINE node == [node |-> "function", name |-> name, parameters |-> ps,
                     returnType |-> type]
<1>2. /\ node.node = "function" /\ node.parameters = ps /\ node.returnType = type
      /\ Goes(node)
  BY <1>1
<1>. HIDE DEF node
<1>3. /\ Len(ast) \in Nat /\ Len(ast') = Len(ast) + 1
      /\ 1..Len(ast') = 1..Len(ast) \cup {Len(ast')}
      /\ \A i \in 1..Len(ast) : ast'[i] = ast[i]
      /\ ast'[Len(ast')] = node
      /\ Accepted = 1..Len(ast) /\ Accepted' = 1..Len(ast')
  BY <1>0, <1>2, GoesFacts
<1>4. EmptyAbove(symbolTable)'
  BY <1>1 DEF EmptyAbove
<1>5. GlobalScopeIsDeclared'
  BY <1>0, <1>1, <1>2, <1>3, GlobalKept
<1>6. FunctionsComeLast'
  BY <1>1 DEF FunctionsComeLast, Functions
<1>7. BodyIsOfItsFunction'
  <2>1. Encloses(ast', Len(ast'), Len(ast'))
    BY <1>2, <1>3 DEF Encloses
  <2>. QED  BY <1>1, <1>2, <1>3, <2>1 DEF BodyIsOfItsFunction
<1>8. StatementsAreChecked'
  <2>1. \A i \in 1..Len(ast) :
          AsksForType(ast'[i]) =>
            \E f \in 1..i :
              /\ Encloses(ast', f, i)
              /\ TypeChecked(ast'[i], TypesInBody(symbolTable', ast'[f].parameters),
                             ast'[f].returnType)
    BY <1>0, <1>1, <1>3, StatementsKept
  <2>. QED  BY <1>2, <1>3, <2>1 DEF StatementsAreChecked, AsksForType
<1>. QED  BY <1>4, <1>5, <1>6, <1>7, <1>8

LEMMA ScopesEnds ==
  ASSUME ScopesInv, Ends
  PROVE  /\ EmptyAbove(symbolTable)'
         /\ GlobalScopeIsDeclared' /\ FunctionsComeLast'
         /\ BodyIsOfItsFunction' /\ StatementsAreChecked'
<1>0. IInv /\ GlobalScopeIsDeclared /\ StatementsAreChecked /\ FunctionsComeLast
  BY DEF ScopesInv
<1>. DEFINE node == [node |-> "end", of |-> "function"]
<1>1. /\ node.node = "end" /\ Goes(node)
      /\ visits' = <<>> /\ section' = section
      /\ symbolTable'.scopes[1] = symbolTable.scopes[1]
      /\ Depth(symbolTable') = 1
  BY DEF Ends
<1>. HIDE DEF node
<1>2. /\ Len(ast) \in Nat /\ Len(ast') = Len(ast) + 1
      /\ 1..Len(ast') = 1..Len(ast) \cup {Len(ast')}
      /\ \A i \in 1..Len(ast) : ast'[i] = ast[i]
      /\ ast'[Len(ast')] = node
      /\ Accepted = 1..Len(ast) /\ Accepted' = 1..Len(ast')
      /\ outcome # "rejected"
  BY <1>0, <1>1, GoesFacts
<1>3. EmptyAbove(symbolTable)' /\ BodyIsOfItsFunction'
  BY <1>1 DEF EmptyAbove, BodyIsOfItsFunction
<1>4. GlobalScopeIsDeclared'
  BY <1>0, <1>1, <1>2, GlobalKept
<1>5. FunctionsComeLast'
  BY <1>0, <1>1, <1>2 DEF FunctionsComeLast, Functions
<1>6. StatementsAreChecked'
  <2>1. \A i \in 1..Len(ast) :
          AsksForType(ast'[i]) =>
            \E f \in 1..i :
              /\ Encloses(ast', f, i)
              /\ TypeChecked(ast'[i], TypesInBody(symbolTable', ast'[f].parameters),
                             ast'[f].returnType)
    BY <1>0, <1>1, <1>2, StatementsKept
  <2>. QED  BY <1>1, <1>2, <2>1 DEF StatementsAreChecked, AsksForType
<1>. QED  BY <1>3, <1>4, <1>5, <1>6

LEMMA ScopesStep == ScopesInv /\ [Next]_vars => ScopesInv'
<1>. SUFFICES ASSUME ScopesInv, [Next]_vars
              PROVE  /\ IInv' /\ EmptyAbove(symbolTable)'
                     /\ GlobalScopeIsDeclared' /\ FunctionsComeLast'
                     /\ BodyIsOfItsFunction' /\ StatementsAreChecked'
  BY DEF ScopesInv
<1>1. IInv /\ IInv'
  BY NextInvariant DEF ScopesInv
<1>2. section' \in 1..4
  BY <1>1 DEF IInv, TypeOK, Declarations, Functions
<1>3. /\ EmptyAbove(symbolTable)'
      /\ GlobalScopeIsDeclared' /\ FunctionsComeLast'
      /\ BodyIsOfItsFunction' /\ StatementsAreChecked'
  BY <1>1, <1>2, KindOfStep, ScopesStays, ScopesRejects, ScopesDeclares, ScopesAdvances,
     ScopesDefines, ScopesEnds
<1>. QED  BY <1>1, <1>3

LEMMA ScopesInit == Init => ScopesInv
<1>. SUFFICES ASSUME Init PROVE ScopesInv
  OBVIOUS
<1>1. /\ Len(ast) = 0 /\ Accepted = {} /\ visits = <<>>
      /\ symbolTable = NewTable
  <2>1. ast = <<>> /\ outcome = "visiting" /\ visits = <<>> /\ symbolTable = NewTable
    BY DEF Init
  <2>. QED  BY <2>1, EmptySeq DEF Accepted
<1>2. /\ Depth(symbolTable) = 1
      /\ \A n \in Names : symbolTable.scopes[1][n] = NotDeclared
  BY <1>1 DEF NewTable, Depth, EmptyScope
<1>3. EmptyAbove(symbolTable)
  BY <1>2 DEF EmptyAbove
<1>4. GlobalScopeIsDeclared
  BY <1>1, <1>2 DEF GlobalScopeIsDeclared, DeclarationsOf
<1>5. FunctionsComeLast /\ BodyIsOfItsFunction /\ StatementsAreChecked
  BY <1>1 DEF FunctionsComeLast, BodyIsOfItsFunction, StatementsAreChecked
<1>. QED  BY <1>3, <1>4, <1>5, InitInvariant DEF ScopesInv

\* The inductive invariant holds in every reachable state.
THEOREM ScopesInvHolds == Spec => []ScopesInv
BY ScopesInit, ScopesStep, PTL DEF Spec
-----------------------------------------------------------------------------
(***************************************************************************)
(* What the invariant says in the words of the model.                      *)
(***************************************************************************)
\* There is one enclosing function, and EnclosingFunction finds it.
LEMMA EnclosingIsUnique ==
  ASSUME NEW i \in Nat, NEW f \in 1..i, Encloses(ast, f, i)
  PROVE  EnclosingFunction(i) = f
<1>1. ASSUME NEW g \in 1..i, Encloses(ast, g, i)
      PROVE  g = f
  <2>1. ~(f < g)
    <3>1. f < g => g \in f+1..i
      OBVIOUS
    <3>. QED  BY <1>1, <3>1 DEF Encloses
  <2>2. ~(g < f)
    <3>1. g < f => f \in g+1..i
      OBVIOUS
    <3>. QED  BY <1>1, <3>1 DEF Encloses
  <2>. QED  BY <2>1, <2>2
<1>. DEFINE Last(g) == /\ ast[g].node = "function"
                       /\ \A j \in g+1..i : ast[j].node # "function"
<1>2. Last(f) /\ \A g \in 1..i : Last(g) => g = f
  BY <1>1 DEF Encloses
<1>. HIDE DEF Last
<1>3. (CHOOSE g \in 1..i : Last(g)) = f
  BY <1>2
<1>. QED  BY <1>3 DEF Last, EnclosingFunction

LEMMA GlobalTypes ==
  ASSUME ScopesInv, NEW n \in Names
  PROVE  GlobalType(n) = symbolTable.scopes[1][n].type
<1>1. GlobalScopeIsDeclared
  BY DEF ScopesInv
<1>2. CASE DeclarationsOf(n) = {}
  BY <1>1, <1>2 DEF GlobalScopeIsDeclared, GlobalType, NotDeclared
<1>3. CASE DeclarationsOf(n) # {}
  <2>. DEFINE i == CHOOSE i \in DeclarationsOf(n) : TRUE
  <2>1. i \in DeclarationsOf(n)
    BY <1>3
  <2>2. GlobalType(n) = ast[i].type
    BY <1>3 DEF GlobalType
  <2>. QED  BY <1>1, <2>1, <2>2 DEF GlobalScopeIsDeclared
<1>. QED  BY <1>2, <1>3

LEMMA LexicalTypes ==
  ASSUME ScopesInv, NEW f
  PROVE  [n \in Names |-> LexicalType(n, f)]
           = TypesInBody(symbolTable, ast[f].parameters)
BY GlobalTypes DEF LexicalType, TypesInBody

LEMMA ScopesInvGivesEnvironment == ScopesInv => EnvironmentIsLexical
<1>. SUFFICES ASSUME ScopesInv, outcome # "rejected"
              PROVE  VisibleTypes =
                       [n \in Names |-> IF visits = <<>>
                                          THEN GlobalType(n)
                                          ELSE LexicalType(n, EnclosingFunction(Len(ast)))]
  BY DEF EnvironmentIsLexical
<1>0. /\ IInv /\ EmptyAbove(symbolTable) /\ BodyIsOfItsFunction
      /\ ast \in Seq(Node) /\ Len(ast) \in Nat
  BY LenProperties DEF ScopesInv, IInv, TypeOK
<1>1. CASE visits = <<>>
  BY <1>0, <1>1, VisibleGlobally, GlobalTypes
<1>2. CASE visits # <<>>
  <2>1. PICK f \in 1..Len(ast) :
          /\ Encloses(ast, f, Len(ast))
          /\ symbolTable.scopes[2] = ParameterScope(ast[f].parameters, 2)
    BY <1>0, <1>2 DEF BodyIsOfItsFunction
  <2>2. ast[f].parameters \in Seq(ParamInfo)
    <3>1. ast[f] \in Node /\ ast[f].node = "function"
      BY <1>0, <2>1, ElementOfSeq DEF Encloses
    <3>. QED  BY <3>1 DEF Node
  <2>3. VisibleTypes = TypesInBody(symbolTable, ast[f].parameters)
    BY <1>0, <1>2, <2>1, <2>2, VisibleInBody
  <2>4. EnclosingFunction(Len(ast)) = f
    BY <1>0, <2>1, EnclosingIsUnique
  <2>. QED  BY <1>2, <2>3, <2>4, LexicalTypes
<1>. QED  BY <1>1, <1>2

\* What the analyzer checked of a statement it checked in its lexical environment.
LEMMA StatementTypes ==
  ASSUME ScopesInv, NEW i \in Accepted, AsksForType(ast[i])
  PROVE  LET f == EnclosingFunction(i)
         IN  TypeChecked(ast[i], [n \in Names |-> LexicalType(n, f)], ast[f].returnType)
<1>1. i \in Nat
  <2>1. ast \in Seq(Node) /\ Len(ast) \in Nat
    BY LenProperties DEF ScopesInv, IInv, TypeOK
  <2>. QED  BY <2>1 DEF Accepted
<1>2. PICK f \in 1..i :
        /\ Encloses(ast, f, i)
        /\ TypeChecked(ast[i], TypesInBody(symbolTable, ast[f].parameters), ast[f].returnType)
  BY DEF ScopesInv, StatementsAreChecked
<1>3. EnclosingFunction(i) = f
  BY <1>1, <1>2, EnclosingIsUnique
<1>. QED  BY <1>2, <1>3, LexicalTypes

LEMMA ScopesInvGivesReturns == ScopesInv => ReturnsMatchTheirFunction
BY StatementTypes DEF ReturnsMatchTheirFunction, AsksForType, TypeChecked

\* The names that the analyzer sees at any point, and their types, are those
\* that the source text has in scope there, however bodies are nested.
THEOREM EnvironmentIsAlwaysLexical == Spec => []EnvironmentIsLexical
BY ScopesInvHolds, ScopesInvGivesEnvironment, PTL

\* Every accepted ret has a value of the type of the function it stands in,
\* although one currentFunctionReturnType serves all functions and each ret
\* rewrites it.
THEOREM ReturnsAlwaysMatch == Spec => []ReturnsMatchTheirFunction
BY ScopesInvHolds, ScopesInvGivesReturns, PTL
-----------------------------------------------------------------------------
(***************************************************************************)
(* The nesting of the accepted text.                                       *)
(***************************************************************************)
BodyKindOf(node) ==
  CASE node.node = "while" -> "while" [] node.node = "for"    -> "for"
    [] node.node = "if"    -> "then"  [] node.node = "ifElse" -> "thenElse"

Front(s) == SubSeq(s, 1, Len(s) - 1)

\* What an accepted node does to the stack of visits.
Follows(node, before, after) ==
  \/ node.node \in {"declaration", "call"} /\ before = <<>> /\ after = <<>>
  \/ node.node = "expression" /\ after = before
  \/ /\ node.node \in {"print", "return"} /\ node.expr \in Primary \cup Unary
     /\ before # <<>> /\ after = before
  \/ /\ node.node \in {"while", "for", "if", "ifElse"}
     /\ before # <<>> /\ after = Append(before, BodyKindOf(node))
  \/ node.node = "function" /\ before = <<>> /\ after = <<"function">>
  \/ node.node = "end" /\ node.of = "function" /\ before = <<"function">> /\ after = <<>>
  \/ /\ node.node = "end" /\ before # <<>> /\ before[Len(before)] # "function"
     /\ node.of = before[Len(before)]
     /\ after = IF before[Len(before)] = "thenElse"
                  THEN Append(Front(before), "else") ELSE Front(before)

\* The nodes that may stand outside functions, but only before the first of them,
\* and the expressions that are accepted there.
Leading  == {"declaration", "expression"}
TopKinds == {"primary", "method"}
InPlace(node) ==
  visits = <<>> /\ node.node \in Leading =>
    /\ section # Functions
    /\ node.node = "expression" => node.expr.kind \in TopKinds

Accepts(node) == Goes(node) /\ Follows(node, visits, visits') /\ InPlace(node)

\* A step of the analyzer accepts a node, gives up, or does neither.
Waits == /\ UNCHANGED <<visits, ast>>
         /\ outcome' = "accepted" => visits = <<>> \/ outcome = "accepted"
         /\ outcome' # "rejected" => outcome # "rejected"
Moves == Waits \/ outcome' = "rejected" \/ \E node \in Node : Accepts(node)

\* A function definition is the outermost visit, and only that.
Rooted(s) == \A i \in 1..Len(s) : s[i] = "function" <=> i = 1

\* st[i] is the stack of visits after node i of the text s.
Nested(s, st) ==
  /\ st \in [0..Len(s) -> Seq(VisitKinds)]
  /\ \A i \in 0..Len(s) : Rooted(st[i])
  /\ st[0] = <<>>
  /\ \A i \in 1..Len(s) : Follows(s[i], st[i - 1], st[i])

\* The functions of the text come after what else stands outside functions.
Ordered(s, st) ==
  /\ \A i, j \in 1..Len(s) :
       i < j /\ s[i].node = "function" /\ s[j].node \in Leading => st[j - 1] # <<>>
  /\ \A j \in 1..Len(s) :
       s[j].node = "expression" /\ st[j - 1] = <<>> => s[j].expr.kind \in TopKinds

NestingInv ==
  /\ outcome # "rejected" => \E st : Nested(ast, st) /\ Ordered(ast, st) /\ st[Len(ast)] = visits
  /\ outcome = "accepted" => visits = <<>>
-----------------------------------------------------------------------------
LEMMA CheckMoves ==
  ASSUME NEW node \in Node, NEW ok, outcome = "visiting", Check(node, ok),
         ok => InPlace(node) /\ Follows(node, visits, visits)
  PROVE  Moves
<1>1. CASE Throw(node)
  BY <1>1 DEF Throw, Moves
<1>2. CASE ok /\ Continue(node) /\ UNCHANGED <<tableVars, visits, section>>
  BY <1>2 DEF Moves, Accepts, Goes, Continue
<1>. QED  BY <1>1, <1>2 DEF Check

LEMMA OpenBodyMoves ==
  ASSUME IInv, NEW node \in Node, NEW kind, NEW ok, outcome = "visiting",
         OpenBody(node, kind, ok),
         node.node \in {"while", "for", "if", "ifElse"}, kind = BodyKindOf(node),
         ok => insideFunction /\ InPlace(node)
  PROVE  Moves
<1>1. CASE Throw(node)
  BY <1>1 DEF Throw, Moves
<1>2. CASE ok /\ visits' = Append(visits, kind) /\ Continue(node)
  <2>1. visits # <<>>
    BY <1>2, DepthAtPlaces
  <2>2. Follows(node, visits, visits')
    BY <1>2, <2>1 DEF Follows
  <2>. QED  BY <1>2, <2>2 DEF Moves, Accepts, Goes, Continue
<1>. QED  BY <1>1, <1>2 DEF OpenBody

LEMMA StatementMoves ==
  ASSUME IInv, NEW e \in Expression,
         \/ VisitExpressionStatement(e) \/ VisitPrintStatement(e)
         \/ VisitReturnStatement(e) \/ VisitExpression(e)
  PROVE  Moves
<1>. DEFINE node(kind) == [node |-> kind, expr |-> e]
<1>0. /\ \A kind \in {"expression", "print", "return"} : node(kind) \in Node
      /\ outcome = "visiting"
      /\ insideFunction => visits # <<>>
  BY DepthAtPlaces DEF Node, VisitExpressionStatement, VisitPrintStatement,
     VisitReturnStatement, VisitExpression, AtStatement, Visiting
<1>1. CASE VisitExpressionStatement(e)
  <2>1. insideFunction /\ ExpressionOk(e) =>
          InPlace(node("expression")) /\ Follows(node("expression"), visits, visits)
    BY <1>0 DEF InPlace, Follows
  <2>. QED  BY <1>0, <1>1, <2>1, CheckMoves DEF VisitExpressionStatement
<1>2. CASE VisitPrintStatement(e)
  <2>1. PrintOk(e) => InPlace(node("print")) /\ Follows(node("print"), visits, visits)
    BY <1>0, <1>2 DEF InPlace, Leading, Follows, PrintOk, VisitPrintStatement
  <2>. QED  BY <1>0, <1>2, <2>1, CheckMoves DEF VisitPrintStatement
<1>3. CASE VisitReturnStatement(e)
  <2>1. CASE Throw(node("return"))
    BY <2>1 DEF Throw, Moves
  <2>2. CASE ReturnOk(e) /\ Continue(node("return")) /\ UNCHANGED visits
    <3>1. InPlace(node("return")) /\ Follows(node("return"), visits, visits')
      BY <1>0, <1>3, <2>2 DEF InPlace, Leading, Follows, ReturnOk, VisitReturnStatement
    <3>. QED  BY <1>0, <2>2, <3>1 DEF Moves, Accepts, Goes, Continue
  <2>. QED  BY <1>3, <2>1, <2>2 DEF VisitReturnStatement
<1>4. CASE VisitExpression(e)
  <2>1. CASE Throw(node("expression"))
    BY <2>1 DEF Throw, Moves
  <2>2. CASE ExpressionOk(e) /\ Continue(node("expression")) /\ UNCHANGED visits
    <3>1. ~insideFunction /\ section # Functions
      BY <1>4, DepthAtPlaces DEF VisitExpression, Visiting, TopExprs, Functions
    <3>2. e.kind \in TopKinds
      <4>1. e.kind \in {"primary", "unary", "binary", "assign", "method"}
        BY DEF Expression, Simple, Primary, Unary, Binary, MethodCall, PlainAssignment,
           NestedAssignment
      <4>. QED  BY <2>2, <3>1, <4>1 DEF ExpressionOk, UnaryOk, BinaryOk, AssignmentOk, TopKinds
    <3>3. InPlace(node("expression")) /\ Follows(node("expression"), visits, visits')
      BY <2>2, <3>1, <3>2 DEF InPlace, Follows
    <3>. QED  BY <1>0, <2>2, <3>3 DEF Moves, Accepts, Goes, Continue
  <2>. QED  BY <1>4, <2>1, <2>2 DEF VisitExpression
<1>. QED  BY <1>1, <1>2, <1>3, <1>4

LEMMA BodyStatementMoves ==
  ASSUME IInv, NEW e \in Expression, NEW end \in Expression, NEW hasElse \in BOOLEAN,
         \/ VisitWhileLoopStatement(e)
         \/ VisitForLoopStatement(e, end)
         \/ VisitIfStatement(e, hasElse)
  PROVE  Moves
<1>. DEFINE node(kind) == [node |-> kind, expr |-> e]
            loop == [node |-> "for", start |-> e, end |-> end]
<1>0. /\ \A kind \in {"while", "if", "ifElse"} : node(kind) \in Node
      /\ loop \in Node
      /\ outcome = "visiting"
  BY DEF Node, VisitWhileLoopStatement, VisitForLoopStatement,
         VisitIfStatement, AtStatement, Visiting
<1>1. /\ BodyKindOf(node("while")) = "while" /\ BodyKindOf(loop) = "for"
      /\ BodyKindOf(node("if")) = "then" /\ BodyKindOf(node("ifElse")) = "thenElse"
  BY DEF BodyKindOf
<1>2. /\ ForOk(e, end) => insideFunction /\ InPlace(loop)
      /\ \A kind \in {"while", "if", "ifElse"} :
           ConditionOk(e) => insideFunction /\ InPlace(node(kind))
  BY DEF InPlace, Leading, ConditionOk, ForOk
<1>3. CASE VisitWhileLoopStatement(e)
  BY <1>0, <1>1, <1>2, <1>3, OpenBodyMoves DEF VisitWhileLoopStatement
<1>4. CASE VisitForLoopStatement(e, end)
  BY <1>0, <1>1, <1>2, <1>4, OpenBodyMoves DEF VisitForLoopStatement
<1>5. CASE VisitIfStatement(e, hasElse)
  BY <1>0, <1>1, <1>2, <1>5, OpenBodyMoves DEF VisitIfStatement
<1>. QED  BY <1>3, <1>4, <1>5

LEMMA EndMoves ==
  ASSUME IInv, EndBody \/ EndFunctionDefinition
  PROVE  Moves
<1>1. CASE EndBody
  <2>. DEFINE node == [node |-> "end", of |-> visits[Len(visits)]]
  <2>1. Accepts(node)
    <3>1. visits # <<>> /\ visits[Len(visits)] # "function" /\ outcome = "visiting"
      BY <1>1 DEF EndBody
    <3>2. node \in Node
      <4>1. visits \in Seq(VisitKinds) /\ Len(visits) \in 1..Len(visits)
        <5>1. visits \in Seq(VisitKinds)
          BY DEF IInv, TypeOK
        <5>2. Len(visits) \in Nat \ {0}
          BY <3>1, <5>1, EmptySeq
        <5>. QED  BY <5>1, <5>2
      <4>2. visits[Len(visits)] \in VisitKinds
        BY <4>1, ElementOfSeq
      <4>. QED  BY <4>2 DEF Node
    <3>3. Follows(node, visits, visits')
      BY <1>1, <3>1 DEF EndBody, Follows, Front
    <3>. QED  BY <1>1, <3>1, <3>2, <3>3 DEF Accepts, Goes, EndBody, Continue, InPlace, Leading
  <2>2. node \in Node
    BY <2>1 DEF Accepts, Goes
  <2>. QED  BY <2>1, <2>2 DEF Moves
<1>2. CASE EndFunctionDefinition
  <2>. DEFINE node == [node |-> "end", of |-> "function"]
  <2>1. node \in Node
    BY DEF Node, VisitKinds
  <2>2. Follows(node, visits, visits')
    BY <1>2 DEF EndFunctionDefinition, Follows
  <2>3. Accepts(node)
    BY <1>2, <2>1, <2>2 DEF Accepts, Goes, EndFunctionDefinition, Continue, InPlace, Leading
  <2>. QED  BY <2>1, <2>3 DEF Moves
<1>. QED  BY <1>1, <1>2

LEMMA TopLevelMoves ==
  ASSUME IInv, NEW type \in ScalarTypes \cup {"array"}, NEW n \in Names,
         NEW list \in Seq(Expression), NEW ps \in Seq(ParamInfo),
         NEW result \in ReturnTypes,
         \/ VisitDeclaration(type, n, list)
         \/ VisitFunctionDefinition(n, ps, result)
         \/ VisitFunctionCall(n, list)
  PROVE  Moves
<1>1. CASE VisitDeclaration(type, n, list)
  <2>. DEFINE d == [node |-> "declaration", type |-> type, name |-> n, elements |-> list]
  <2>1. d \in Node
    BY DEF Node, ScalarTypes
  <2>2. CASE Throw(d)
    BY <2>2 DEF Throw, Moves
  <2>3. CASE DeclarationOk(d) /\ Continue(d) /\ UNCHANGED visits
    <3>1. outcome = "visiting" /\ visits = <<>> /\ section # Functions
      BY <1>1, SectionTyped DEF VisitDeclaration, Visiting, Declarations, Functions
    <3>2. Follows(d, visits, visits') /\ InPlace(d)
      BY <2>3, <3>1 DEF Follows, InPlace
    <3>. QED  BY <2>1, <2>3, <3>1, <3>2 DEF Moves, Accepts, Goes, Continue
  <2>. QED  BY <1>1, <2>2, <2>3 DEF VisitDeclaration
<1>2. CASE VisitFunctionDefinition(n, ps, result)
  <2>. DEFINE d == [node |-> "function", name |-> n, parameters |-> ps, returnType |-> result]
  <2>1. d \in Node
    BY DEF Node
  <2>2. CASE Throw(d)
    BY <2>2 DEF Throw, Moves
  <2>3. CASE FunctionOk(n, ps) /\ Continue(d) /\ visits' = <<"function">>
    <3>1. outcome = "visiting" /\ visits = <<>>
      BY <1>2 DEF VisitFunctionDefinition, Visiting
    <3>2. Follows(d, visits, visits') /\ InPlace(d)
      BY <2>3, <3>1 DEF Follows, InPlace, Leading
    <3>. QED  BY <2>1, <2>3, <3>1, <3>2 DEF Moves, Accepts, Goes, Continue
  <2>. QED  BY <1>2, <2>2, <2>3 DEF VisitFunctionDefinition
<1>3. CASE VisitFunctionCall(n, list)
  <2>. DEFINE d == [node |-> "call", name |-> n, arguments |-> list]
  <2>1. d \in Node
    BY DEF Node
  <2>2. CASE Throw(d)
    BY <2>2 DEF Throw, Moves
  <2>3. CASE CallOk(n, list) /\ Continue(d) /\ UNCHANGED visits
    <3>1. outcome = "visiting" /\ visits = <<>>
      BY <1>3 DEF VisitFunctionCall, Visiting
    <3>2. Follows(d, visits, visits') /\ InPlace(d)
      BY <2>3, <3>1 DEF Follows, InPlace, Leading
    <3>. QED  BY <2>1, <2>3, <3>1, <3>2 DEF Moves, Accepts, Goes, Continue
  <2>. QED  BY <1>3, <2>2, <2>3 DEF VisitFunctionCall
<1>. QED  BY <1>1, <1>2, <1>3

\* Every step of the analyzer moves through the text in one of the three ways.
LEMMA AnalyzerMoves ==
  ASSUME IInv, [Next]_vars
  PROVE  Moves
<1>0. /\ VariableNames \subseteq Names /\ FunctionNames \subseteq Names
      /\ ResultTypes \subseteq ReturnTypes
      /\ Expressions \subseteq Expression
      /\ ExprLists \subseteq Seq(Expression)
      /\ ParamLists \subseteq Seq(ParamInfo)
      /\ <<>> \in Seq(Expression) /\ <<>> \in Seq(ParamInfo)
      /\ "int" \in ScalarTypes /\ "int" \in ReturnTypes
  BY ProgramsAssumption, EmptySeq DEF ScalarTypes, ReturnTypes
<1>1. ASSUME NEW type \in ScalarTypes \cup {"array"}, NEW n \in Names,
             NEW list \in Seq(Expression), VisitDeclaration(type, n, list)
      PROVE  Moves
  BY <1>0, <1>1, TopLevelMoves
<1>2. ASSUME NEW e \in Expressions,
             \/ VisitExpressionStatement(e) \/ VisitPrintStatement(e)
             \/ VisitReturnStatement(e) \/ VisitExpression(e)
      PROVE  Moves
  BY <1>0, <1>2, StatementMoves
<1>3. ASSUME NEW e \in Expressions, NEW end \in Expressions, NEW hasElse \in BOOLEAN,
             \/ VisitWhileLoopStatement(e) \/ VisitForLoopStatement(e, end)
             \/ VisitIfStatement(e, hasElse)
      PROVE  Moves
  BY <1>0, <1>3, BodyStatementMoves
<1>4. CASE EndBody \/ EndFunctionDefinition
  BY <1>4, EndMoves
<1>5. ASSUME NEW f \in Names, NEW ps \in ParamLists, NEW type \in ReturnTypes,
             VisitFunctionDefinition(f, ps, type)
      PROVE  Moves
  BY <1>0, <1>5, TopLevelMoves
<1>6. ASSUME NEW f \in Names, NEW list \in ExprLists, VisitFunctionCall(f, list)
      PROVE  Moves
  BY <1>0, <1>6, TopLevelMoves
<1>7. CASE EndProgram \/ Finished \/ UNCHANGED vars
  BY <1>7 DEF EndProgram, Finished, vars, tableVars, Moves, Waits
<1>. QED
  BY <1>0, <1>1, <1>2, <1>3, <1>4, <1>5, <1>6, <1>7 DEF Next, ScalarTypes

LEMMA NestingInit == Init => NestingInv
<1>. SUFFICES ASSUME Init PROVE NestingInv
  OBVIOUS
<1>. DEFINE st == [i \in 0..0 |-> <<>>]
<1>1. ast = <<>> /\ Len(ast) = 0 /\ visits = <<>>
  BY DEF Init
<1>2. Nested(ast, st) /\ Ordered(ast, st) /\ st[Len(ast)] = visits
  BY <1>1, EmptySeq DEF Nested, Ordered, Rooted
<1>. QED  BY <1>1, <1>2 DEF NestingInv

\* The stack after one more node.
LEMMA NestedGrows ==
  ASSUME NEW st, Nested(ast, st), Ordered(ast, st), st[Len(ast)] = visits,
         ast \in Seq(Node), NEW node \in Node, ast' = Append(ast, node),
         visits' \in Seq(VisitKinds), Follows(node, visits, visits'), Rooted(visits'),
         InPlace(node), section # Functions => \A i \in 1..Len(ast) : ast[i].node # "function"
  PROVE  \E su : Nested(ast', su) /\ Ordered(ast', su) /\ su[Len(ast')] = visits'
<1>. DEFINE su == [i \in 0..Len(ast') |-> IF i <= Len(ast) THEN st[i] ELSE visits']
<1>1. /\ Len(ast) \in Nat /\ Len(ast') = Len(ast) + 1
      /\ \A i \in 1..Len(ast) : ast'[i] = ast[i]
      /\ ast'[Len(ast) + 1] = node
  BY LenProperties, AppendProperties
<1>2. /\ su \in [0..Len(ast') -> Seq(VisitKinds)] /\ su[0] = <<>>
      /\ \A i \in 0..Len(ast') : Rooted(su[i])
  BY <1>1 DEF Nested
<1>3. ASSUME NEW i \in 1..Len(ast') PROVE Follows(ast'[i], su[i - 1], su[i])
  <2>1. CASE i <= Len(ast)
    BY <1>1, <2>1 DEF Nested
  <2>2. CASE i = Len(ast) + 1
    BY <1>1, <2>2
  <2>. QED  BY <1>1, <2>1, <2>2
<1>4. /\ su[Len(ast')] = visits' /\ su[Len(ast)] = visits
      /\ \A i \in 0..Len(ast) : su[i] = st[i]
      /\ \A j \in 1..Len(ast') : \/ j \in 1..Len(ast) /\ j - 1 \in 0..Len(ast)
                                 \/ j = Len(ast) + 1
      /\ Len(ast) + 1 - 1 = Len(ast)
  BY <1>1
<1>. HIDE DEF su
<1>5. Nested(ast', su)
  BY <1>2, <1>3 DEF Nested
<1>6. ASSUME NEW i \in 1..Len(ast'), NEW j \in 1..Len(ast'), i < j,
             ast'[i].node = "function", ast'[j].node \in Leading
      PROVE  su[j - 1] # <<>>
  <2>0. i \in 1..Len(ast) /\ ast[i].node = "function"
    BY <1>1, <1>6
  <2>1. CASE j \in 1..Len(ast) /\ j - 1 \in 0..Len(ast)
    BY <1>1, <1>4, <1>6, <2>0, <2>1 DEF Ordered
  <2>2. CASE j = Len(ast) + 1
    BY <1>1, <1>4, <1>6, <2>0, <2>2 DEF InPlace
  <2>. QED  BY <1>4, <2>1, <2>2
<1>7. ASSUME NEW j \in 1..Len(ast'), ast'[j].node = "expression", su[j - 1] = <<>>
      PROVE  ast'[j].expr.kind \in TopKinds
  <2>1. CASE j \in 1..Len(ast) /\ j - 1 \in 0..Len(ast)
    BY <1>1, <1>4, <1>7, <2>1 DEF Ordered
  <2>2. CASE j = Len(ast) + 1
    BY <1>1, <1>4, <1>7, <2>2 DEF InPlace, Leading
  <2>. QED  BY <1>4, <2>1, <2>2
<1>8. Ordered(ast', su)
  BY <1>6, <1>7 DEF Ordered
<1>. QED  BY <1>4, <1>5, <1>8

LEMMA NestingStep == ScopesInv /\ ScopesInv' /\ NestingInv /\ Moves => NestingInv'
<1>. SUFFICES ASSUME ScopesInv, ScopesInv', NestingInv, Moves PROVE NestingInv'
  OBVIOUS
<1>. USE DEF ScopesInv
<1>0. ast \in Seq(Node) /\ visits' \in Seq(VisitKinds) /\ Rooted(visits')
  BY DEF IInv, TypeOK, ScopeDiscipline, Rooted
<1>1. CASE Waits
  <2>1. outcome' # "rejected" => outcome # "rejected"
    BY <1>1 DEF Waits
  <2>2. ast' = ast /\ visits' = visits
    BY <1>1 DEF Waits
  <2>3. outcome' # "rejected" => (\E st : Nested(ast, st) /\ Ordered(ast, st) /\ st[Len(ast)] = visits)'
    BY <2>1, <2>2 DEF NestingInv, Nested, Ordered
  <2>4. outcome' = "accepted" => visits' = <<>>
    BY <1>1 DEF Waits, NestingInv
  <2>. QED  BY <2>3, <2>4 DEF NestingInv
<1>2. CASE outcome' = "rejected"
  BY <1>2 DEF NestingInv
<1>3. CASE \E node \in Node : Accepts(node)
  <2>1. PICK node \in Node : Accepts(node)
    BY <1>3
  <2>2. /\ outcome = "visiting" /\ outcome' = "visiting"
        /\ ast' = Append(ast, node) /\ Follows(node, visits, visits') /\ InPlace(node)
    BY <2>1 DEF Accepts, Goes
  <2>3. PICK st : Nested(ast, st) /\ Ordered(ast, st) /\ st[Len(ast)] = visits
    BY <2>2 DEF NestingInv
  <2>5. section # Functions => \A i \in 1..Len(ast) : ast[i].node # "function"
    BY <2>2 DEF FunctionsComeLast
  <2>4. \E su : Nested(ast', su) /\ Ordered(ast', su) /\ su[Len(ast')] = visits'
    BY <1>0, <2>2, <2>3, <2>5, NestedGrows
  <2>. QED  BY <2>2, <2>4 DEF NestingInv
<1>. QED  BY <1>1, <1>2, <1>3 DEF Moves
=============================================================================
