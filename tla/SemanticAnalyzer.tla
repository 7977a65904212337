-------------------------- MODULE SemanticAnalyzer --------------------------
(***************************************************************************)
(* The semantic analyzer (src/semanticAnalyzer/SemanticAnalyzer.cpp): a    *)
(* visitor that walks a Program once, keeps a SymbolTable and throws at    *)
(* the first node it does not accept.                                      *)
(*                                                                         *)
(* Each step is one visit method, or the rest of one after the body of its *)
(* statement has been visited: visits is the stack of the methods that are *)
(* under way.  The program is not fixed in advance; every step picks the   *)
(* next node among all that the grammar allows there and adds it to ast,   *)
(* so ast is the program visited so far in visiting order.                 *)
(***************************************************************************)
EXTENDS SSLangAST

CONSTANTS VariableNames, FunctionNames,  \* what programs declare and define
          ResultTypes,  \* and the return types they give functions
          Expressions,  \* the expressions that programs are built from
          ExprLists,    \* the argument lists and array initializers
          ParamLists,   \* the parameter lists
          MaxNodes,     \* the length from which a program only gets its "end" nodes
          MaxVisits     \* bounds the nesting of bodies

ASSUME ProgramsAssumption ==
  /\ VariableNames \subseteq Names /\ FunctionNames \subseteq Names
  /\ ResultTypes \subseteq ReturnTypes
  /\ Expressions \subseteq Expression
  /\ ExprLists \subseteq Seq(Expression)
  /\ ParamLists \subseteq Seq(ParamInfo)
  /\ MaxNodes \in Nat /\ MaxVisits \in Nat

VARIABLES symbolTable,
          insideFunction,
          currentFunctionReturnType,
          visits,    \* the visit methods under way, outermost first
          section,   \* which list of the Program is being visited
          outcome,   \* "visiting", "accepted" or "rejected"
          ast        \* the nodes visited, the one that was thrown at included

vars == <<symbolTable, insideFunction, currentFunctionReturnType, visits,
          section, outcome, ast>>
tableVars == <<symbolTable, insideFunction, currentFunctionReturnType>>

\* Program holds declarations, statements, expressions and functions (calls
\* included) in four lists, visited in this order wherever they were written.
Declarations == 1
Statements   == 2
TopExprs     == 3
Functions    == 4

\* The body of a while, a for, a then and an else; a then that an else follows.
BodyKinds  == {"while", "for", "then", "thenElse", "else"}
VisitKinds == BodyKinds \cup {"function"}

Node ==
  [node : {"declaration"}, type : {"int", "float", "string", "bool", "array"},
   name : Names, elements : Seq(Expression)]
  \cup [node : {"expression", "print", "return", "while", "if", "ifElse"}, expr : Expression]
  \cup [node : {"for"}, start : Expression, end : Expression]
  \cup [node : {"function"}, name : Names, parameters : Seq(ParamInfo), returnType : ReturnTypes]
  \cup [node : {"call"}, name : Names, arguments : Seq(Expression)]
  \cup [node : {"end"}, of : VisitKinds]
-----------------------------------------------------------------------------
(***************************************************************************)
(* What the visit methods check.                                           *)
(***************************************************************************)
\* The types that getType sees: those of the innermost declarations.
VisibleTypes == [n \in Names |-> getSymbolInfo(symbolTable, n).type]
TypeNow(e)   == TypeOf(e, VisibleTypes)

AllInts(list) == \A i \in 1..Len(list) : TypeNow(list[i]) = "int"

DeclarationOk(d) == /\ ~isDeclared(symbolTable, d.name)
                    /\ d.type = "array" => AllInts(d.elements)

\* The code rejects an operand type that is not "int" or is not "float".
UnaryOk(e)  == LET type == TypeNow(e.expr) IN type = "int" /\ type = "float"
BinaryOk(e) == LET types == {TypeNow(e.left), TypeNow(e.right)}
               IN  insideFunction /\ types = {"int"} /\ types = {"float"}

AssignmentOk(e) ==
  /\ insideFunction
  /\ isDeclared(symbolTable, e.name)
  /\ TypeNow(e.expression) = VisibleTypes[e.name]

MethodCallOk(e) ==
  /\ LookupType(e.object, VisibleTypes) = "array"
  /\ e.name = "add"    => Len(e.arguments) = 1 /\ AllInts(e.arguments)
  /\ e.name = "remove" => e.arguments = <<>>

ExpressionOk(e) ==
  CASE e.kind = "primary" -> TypeNow(e) \in ScalarTypes
    [] e.kind = "unary"   -> UnaryOk(e)
    [] e.kind = "binary"  -> BinaryOk(e)
    [] e.kind = "assign"  -> AssignmentOk(e)
    [] e.kind = "method"  -> MethodCallOk(e)

PrintOk(e)     == insideFunction /\ TypeNow(e) \in ScalarTypes
ConditionOk(e) == insideFunction /\ TypeNow(e) = "bool"
ForOk(start, end) == insideFunction /\ TypeNow(start) = "int" /\ TypeNow(end) = "int"

NormalizedType(type) ==
  CASE type = "str" -> "string" [] type = "flt" -> "float" [] OTHER -> type

\* Slips in the two checks below: the function's type is not looked at, the
\* number of arguments is not compared.
ReturnOkAnyType(e)           == insideFunction /\ TypeNow(e) \in ScalarTypes
CallOkAnyCount(f, arguments) == getFunctionInfo(symbolTable, f) # NoFunction

ReturnOk(e) == /\ insideFunction
               /\ TypeNow(e) \in ScalarTypes
               /\ TypeNow(e) = NormalizedType(currentFunctionReturnType)

FunctionOk(f, parameters) ==
  /\ CanAddFunction(symbolTable, f)
  /\ \A i, j \in 1..Len(parameters) :
       parameters[i].name = parameters[j].name => i = j

CallOk(f, arguments) ==
  /\ getFunctionInfo(symbolTable, f) # NoFunction
  /\ Len(arguments) = Len(getFunctionInfo(symbolTable, f).parameterInfo)
-----------------------------------------------------------------------------
(***************************************************************************)
(* Where the grammar lets the next node be, and the two ways a visit ends. *)
(***************************************************************************)
Visiting(s) == /\ outcome = "visiting"
               /\ Len(ast) < MaxNodes
               /\ visits = <<>> /\ section <= s

AtStatement == \/ Visiting(Statements)
               \/ /\ outcome = "visiting"
                  /\ Len(ast) < MaxNodes
                  /\ visits # <<>>

Continue(node) == ast' = Append(ast, node) /\ UNCHANGED outcome

\* The exception unwinds to the catch of main, past the table and the analyzer:
\* what a method did to them before it threw (the scope of a loop, a function
\* whose parameters clash) is destroyed with them.
Throw(node) == /\ ast' = Append(ast, node)
               /\ outcome' = "rejected"
               /\ UNCHANGED <<tableVars, visits, section>>

\* A node that is only checked: the visit changes nothing.
Check(node, ok) ==
  \/ ok /\ Continue(node) /\ UNCHANGED <<tableVars, visits, section>>
  \/ ~ok /\ Throw(node)

\* A statement with bodies: its scope, then the scope of the block that is its
\* body.  insideFunction holds again when the block is visited.
OpenBody(node, kind, ok) ==
  \/ /\ ok /\ Len(visits) < MaxVisits
     /\ symbolTable' = enterScope(enterScope(symbolTable))
     /\ visits' = Append(visits, kind)
     /\ Continue(node)
     /\ UNCHANGED <<insideFunction, currentFunctionReturnType, section>>
  \/ ~ok /\ Throw(node)
-----------------------------------------------------------------------------
(***************************************************************************)
(* The visit methods.                                                      *)
(***************************************************************************)
VisitDeclaration(type, name, elements) ==
  LET d == [node |-> "declaration", type |-> type, name |-> name, elements |-> elements]
  IN  /\ Visiting(Declarations)
      /\ \/ /\ DeclarationOk(d)
            /\ symbolTable' = addVariable(symbolTable, name, type)
            /\ Continue(d)
            /\ UNCHANGED <<insideFunction, currentFunctionReturnType, visits, section>>
         \/ ~DeclarationOk(d) /\ Throw(d)

VisitExpressionStatement(e) ==
  /\ AtStatement
  /\ Check([node |-> "expression", expr |-> e], insideFunction /\ ExpressionOk(e))

\* log and ret are parsed with parseUnary.
VisitPrintStatement(e) ==
  /\ AtStatement /\ e \in Primary \cup Unary
  /\ Check([node |-> "print", expr |-> e], PrintOk(e))

VisitReturnStatement(e) ==
  LET node == [node |-> "return", expr |-> e]
  IN  /\ AtStatement /\ e \in Primary \cup Unary
      /\ \/ /\ ReturnOk(e)
            /\ currentFunctionReturnType' = NormalizedType(currentFunctionReturnType)
            /\ Continue(node)
            /\ UNCHANGED <<symbolTable, insideFunction, visits, section>>
         \/ ~ReturnOk(e) /\ Throw(node)

VisitWhileLoopStatement(e) ==
  AtStatement /\ OpenBody([node |-> "while", expr |-> e], "while", ConditionOk(e))

VisitForLoopStatement(start, end) ==
  /\ AtStatement
  /\ OpenBody([node |-> "for", start |-> start, end |-> end], "for", ForOk(start, end))

VisitIfStatement(e, hasElse) ==
  /\ AtStatement
  /\ IF hasElse
       THEN OpenBody([node |-> "ifElse", expr |-> e], "thenElse", ConditionOk(e))
       ELSE OpenBody([node |-> "if", expr |-> e], "then", ConditionOk(e))

\* A slip: the block's scope is left and the statement's own is not.
EndBodyOneScope ==
  /\ outcome = "visiting" /\ visits # <<>> /\ visits[Len(visits)] # "function"
  /\ symbolTable' = leaveScope(symbolTable)
  /\ visits' = SubSeq(visits, 1, Len(visits) - 1)
  /\ Continue([node |-> "end", of |-> visits[Len(visits)]])
  /\ UNCHANGED <<insideFunction, currentFunctionReturnType, section>>

\* The block of a loop or of a branch ends, and with it the scope around it;
\* a then body that has an else hands over to the else body.
EndBody ==
  LET kind  == visits[Len(visits)]
      outer == leaveScope(leaveScope(symbolTable))
      rest  == SubSeq(visits, 1, Len(visits) - 1)
  IN  /\ outcome = "visiting" /\ visits # <<>> /\ kind # "function"
      /\ IF kind = "thenElse"
           THEN /\ symbolTable' = enterScope(enterScope(outer))
                /\ visits' = Append(rest, "else")
           ELSE symbolTable' = outer /\ visits' = rest
      /\ Continue([node |-> "end", of |-> kind])
      /\ UNCHANGED <<insideFunction, currentFunctionReturnType, section>>

\* Top-level expressions: the parser puts there whatever starts with no keyword.
VisitExpression(e) ==
  LET node == [node |-> "expression", expr |-> e]
  IN  /\ Visiting(TopExprs)
      /\ \/ /\ ExpressionOk(e)
            /\ section' = TopExprs
            /\ Continue(node)
            /\ UNCHANGED <<tableVars, visits>>
         \/ ~ExpressionOk(e) /\ Throw(node)

Positions(parameters, n) == {i \in 1..Len(parameters) : parameters[i].name = n}
TypeOfParameter(parameters, n) ==
  parameters[CHOOSE i \in Positions(parameters, n) : TRUE].type

\* A slip: the two members of a ParamInfo are swapped.
ParameterScopeSwapped(parameters, scopeId) ==
  [n \in Names |->
    IF Positions(parameters, n) = {} THEN NotDeclared ELSE [type |-> n, scopeId |-> scopeId]]

\* The scope of the parameters, each stored with the type's lexeme.
ParameterScope(parameters, scopeId) ==
  [n \in Names |->
    IF Positions(parameters, n) = {}
      THEN NotDeclared
      ELSE [type |-> TypeOfParameter(parameters, n), scopeId |-> scopeId]]

VisitFunctionDefinition(f, parameters, returnType) ==
  LET node == [node |-> "function", name |-> f,
               parameters |-> parameters, returnType |-> returnType]
      added == addFunction(symbolTable, f, [parameterInfo |-> parameters])
      inner == enterScope(added)
  IN  /\ Visiting(Functions)
      /\ \/ /\ FunctionOk(f, parameters)
            /\ symbolTable' =
                 [inner EXCEPT !.scopes[Depth(inner)] =
                                 ParameterScope(parameters, inner.currentScopeId)]
            /\ currentFunctionReturnType' = returnType
            /\ insideFunction' = TRUE
            /\ visits' = <<"function">>
            /\ section' = Functions
            /\ Continue(node)
         \/ ~FunctionOk(f, parameters) /\ Throw(node)

\* A slip: the function's scope stays open.
EndFunctionKeepingScope ==
  /\ outcome = "visiting" /\ visits = <<"function">>
  /\ insideFunction' = FALSE
  /\ visits' = <<>>
  /\ Continue([node |-> "end", of |-> "function"])
  /\ UNCHANGED <<symbolTable, currentFunctionReturnType, section>>

EndFunctionDefinition ==
  /\ outcome = "visiting" /\ visits = <<"function">>
  /\ symbolTable' = leaveScope(symbolTable)
  /\ insideFunction' = FALSE
  /\ visits' = <<>>
  /\ Continue([node |-> "end", of |-> "function"])
  /\ UNCHANGED <<currentFunctionReturnType, section>>

VisitFunctionCall(f, arguments) ==
  LET node == [node |-> "call", name |-> f, arguments |-> arguments]
  IN  /\ Visiting(Functions)
      /\ \/ /\ CallOk(f, arguments)
            /\ section' = Functions
            /\ Continue(node)
            /\ UNCHANGED <<tableVars, visits>>
         \/ ~CallOk(f, arguments) /\ Throw(node)

\* visit(Program) returns: nothing was thrown.
EndProgram == /\ outcome = "visiting" /\ visits = <<>>
              /\ outcome' = "accepted"
              /\ UNCHANGED <<tableVars, visits, section, ast>>

\* main goes on with the program or gives the file up.
Finished == outcome # "visiting" /\ UNCHANGED vars

Init == /\ symbolTable = NewTable
        /\ insideFunction = FALSE
        /\ currentFunctionReturnType = ""
        /\ visits = <<>>
        /\ section = Declarations
        /\ outcome = "visiting"
        /\ ast = <<>>

Next ==
  \/ \E type \in ScalarTypes, n \in VariableNames : VisitDeclaration(type, n, <<>>)
  \/ \E n \in VariableNames, list \in ExprLists : VisitDeclaration("array", n, list)
  \/ \E e \in Expressions : \/ VisitExpressionStatement(e)
                            \/ VisitPrintStatement(e)
                            \/ VisitReturnStatement(e)
                            \/ VisitWhileLoopStatement(e)
                            \/ VisitExpression(e)
  \/ \E e \in Expressions, hasElse \in BOOLEAN : VisitIfStatement(e, hasElse)
  \/ \E start, end \in Expressions : VisitForLoopStatement(start, end)
  \/ EndBody
  \/ \E f \in FunctionNames, ps \in ParamLists, type \in ResultTypes :
       VisitFunctionDefinition(f, ps, type)
  \/ EndFunctionDefinition
  \/ \E f \in FunctionNames, list \in ExprLists : VisitFunctionCall(f, list)
  \/ EndProgram
  \/ Finished

Spec == Init /\ [][Next]_vars
-----------------------------------------------------------------------------
(***************************************************************************)
(* Properties.                                                             *)
(***************************************************************************)
TypeOK ==
  /\ symbolTable \in Table
  /\ insideFunction \in BOOLEAN
  /\ currentFunctionReturnType \in {"", "string", "float"} \cup ReturnTypes
  /\ visits \in Seq(VisitKinds)
  /\ section \in Declarations..Functions
  /\ outcome \in {"visiting", "accepted", "rejected"}
  /\ ast \in Seq(Node)

\* Every enterScope meets its leaveScope: the open scopes are the global one,
\* one of a function and two of each body under way (its own and its block's),
\* through every nesting of loops and branches and from one branch to the next.
\* insideFunction is set exactly while a function is under way.
ScopeDiscipline ==
  /\ Depth(symbolTable) = IF visits = <<>> THEN 1 ELSE 2 * Len(visits)
  /\ insideFunction <=> visits # <<>>
  /\ \A i \in 1..Len(visits) : visits[i] = "function" <=> i = 1

\* The nodes that were not thrown at.
Accepted == IF outcome = "rejected" THEN 1..Len(ast) - 1 ELSE 1..Len(ast)

\* The declaration list and the functions as the source text has them.
DeclarationsOf(n) ==
  {i \in Accepted : ast[i].node = "declaration" /\ ast[i].name = n}
EnclosingFunction(i) ==
  CHOOSE f \in 1..i : /\ ast[f].node = "function"
                      /\ \A j \in f+1..i : ast[j].node # "function"

\* The type of a name in the global scope, and in the body of the function
\* node f, by the source text alone.
GlobalType(n) ==
  IF DeclarationsOf(n) = {} THEN "none" ELSE ast[CHOOSE i \in DeclarationsOf(n) : TRUE].type
LexicalType(n, f) ==
  IF Positions(ast[f].parameters, n) = {}
    THEN GlobalType(n)
    ELSE TypeOfParameter(ast[f].parameters, n)

\* The names that the scope stack makes visible are those that the source text
\* has in scope at this point: the parameters of the enclosing function over
\* the global declarations, none of another function's and none of a body that
\* has ended.
EnvironmentIsLexical ==
  outcome # "rejected" =>
    VisibleTypes = [n \in Names |-> IF visits = <<>>
                                      THEN GlobalType(n)
                                      ELSE LexicalType(n, EnclosingFunction(Len(ast)))]

\* Every accepted ret returns a value of its own function's type, although the
\* analyzer keeps one return type for all functions and rewrites it at a ret.
ReturnsMatchTheirFunction ==
  \A i \in Accepted :
    ast[i].node = "return" =>
      LET f == EnclosingFunction(i)
      IN  TypeOf(ast[i].expr, [n \in Names |-> LexicalType(n, f)])
            = NormalizedType(ast[f].returnType)

\* An accepted call follows the one definition of its function and has as many
\* arguments as that has parameters.
CallsFollowDefinitions ==
  \A i \in Accepted :
    ast[i].node = "call" =>
      LET definitions == {d \in 1..Len(ast) : ast[d].node = "function"
                                               /\ ast[d].name = ast[i].name}
      IN  /\ \E d \in definitions : /\ d < i
                                    /\ Len(ast[d].parameters) = Len(ast[i].arguments)
          /\ outcome # "rejected" => \A c, d \in definitions : c = d

\* Once the declarations are over the global scope never changes, whatever
\* scopes are pushed and popped above it.
GlobalScopeFrozen ==
  [][section' # Declarations => symbolTable'.scopes[1] = symbolTable.scopes[1]]_vars
=============================================================================
