---------------------------- MODULE SymbolTable ----------------------------
(***************************************************************************)
(* class SymbolTable (src/symbolTable/SymbolTable.cpp): a stack of scopes, *)
(* each a map from names to SymbolInfo, a counter of the current scope,    *)
(* and a flat map of functions.                                            *)
(*                                                                         *)
(* The methods are operators from a table to a table or to a result, so    *)
(* that a caller's action can chain the calls its handler makes.           *)
(***************************************************************************)
EXTENDS Sequences, Integers

CONSTANT Names  \* identifiers, of variables and of functions

\* The lexeme the parser keeps as a parameter's type: the keyword, or the
\* colon when the type is left out.  It is stored as it is, so "flt" and
\* "float" are two types to the table.
ParamTypes  == {"int", "flt", "str", ":"}
SymbolTypes == {"int", "float", "string", "bool", "array"} \cup ParamTypes

ParamInfo    == [name : Names, type : ParamTypes]
FunctionInfo == [parameterInfo : Seq(ParamInfo)]
NoFunction   == [nullopt |-> TRUE]

NotDeclared == [type |-> "none", scopeId |-> 0]
SymbolInfo  == [type : SymbolTypes, scopeId : Int]
Scope       == [Names -> SymbolInfo \cup {NotDeclared}]
EmptyScope  == [n \in Names |-> NotDeclared]

Table == [scopes         : Seq(Scope),
          currentScopeId : Int,
          functions      : [Names -> FunctionInfo \cup {NoFunction}]]

\* The constructor enters the global scope.
NewTable == [scopes         |-> <<EmptyScope>>,
             currentScopeId |-> 1,
             functions      |-> [n \in Names |-> NoFunction]]
-----------------------------------------------------------------------------
Depth(t) == Len(t.scopes)

\* Slips in the bookkeeping that the properties must notice.
enterScopeCounterOnly(t) == [t EXCEPT !.currentScopeId = t.currentScopeId + 1]
leaveScopeKeepingId(t)   == [t EXCEPT !.scopes = SubSeq(t.scopes, 1, Depth(t) - 1)]

enterScope(t) == [t EXCEPT !.scopes         = Append(t.scopes, EmptyScope),
                           !.currentScopeId = t.currentScopeId + 1]

leaveScope(t) ==
  IF t.scopes = <<>>
    THEN t
    ELSE [t EXCEPT !.scopes         = SubSeq(t.scopes, 1, Depth(t) - 1),
                   !.currentScopeId = t.currentScopeId - 1]

\* addVariable looks at the innermost scope only and returns whether it added.
CanAddVariable(t, name) ==
  t.scopes # <<>> /\ t.scopes[Depth(t)][name] = NotDeclared

addVariable(t, name, type) ==
  IF CanAddVariable(t, name)
    THEN [t EXCEPT !.scopes[Depth(t)][name] =
                     [type |-> type, scopeId |-> t.currentScopeId]]
    ELSE t

DeclaringLevels(t, name) ==
  {i \in 1..Depth(t) : t.scopes[i][name] # NotDeclared}

isDeclared(t, name) == DeclaringLevels(t, name) # {}

\* A slip: the search goes from the global scope inwards.
getOutermostSymbolInfo(t, name) ==
  IF isDeclared(t, name)
    THEN LET level == CHOOSE i \in DeclaringLevels(t, name) :
                        \A j \in DeclaringLevels(t, name) : i <= j
         IN  t.scopes[level][name]
    ELSE NotDeclared

\* The search goes from the innermost scope outwards.
getSymbolInfo(t, name) ==
  IF isDeclared(t, name)
    THEN LET level == CHOOSE i \in DeclaringLevels(t, name) :
                        \A j \in DeclaringLevels(t, name) : j <= i
         IN  t.scopes[level][name]
    ELSE NotDeclared

CanAddFunction(t, name) == t.functions[name] = NoFunction

addFunction(t, name, info) ==
  IF CanAddFunction(t, name) THEN [t EXCEPT !.functions[name] = info] ELSE t

getFunctionInfo(t, name) == t.functions[name]
-----------------------------------------------------------------------------
\* Every symbol carries the number of the scope that holds it, and the counter
\* is the number of open scopes.  enterScope, leaveScope and addVariable each
\* keep only their own part of this in step.
ScopeIdsAreLevels(t) ==
  /\ t.currentScopeId = Depth(t)
  /\ \A i \in 1..Depth(t), n \in Names :
       t.scopes[i][n] # NotDeclared => t.scopes[i][n].scopeId = i
=============================================================================
