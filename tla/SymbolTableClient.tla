-------------------------- MODULE SymbolTableClient --------------------------
(***************************************************************************)
(* A client that calls the public methods of a SymbolTable in any order,   *)
(* the global scope's leaveScope included, and the table's contract.       *)
(***************************************************************************)
EXTENDS SymbolTable

CONSTANTS TypeChoices,      \* the types the client declares variables with
          FunctionChoices,  \* what it stores about functions
          MaxScopes         \* bounds the scope stack, for model checking only

ASSUME ClientAssumption == /\ TypeChoices \subseteq SymbolTypes
                           /\ FunctionChoices \subseteq FunctionInfo
                           /\ MaxScopes \in Nat \ {0}

VARIABLE symbolTable

Init == symbolTable = NewTable

EnterScope == /\ Depth(symbolTable) < MaxScopes
              /\ symbolTable' = enterScope(symbolTable)
LeaveScope == symbolTable' = leaveScope(symbolTable)
AddVariable(name, type) == symbolTable' = addVariable(symbolTable, name, type)
AddFunction(name, info) == symbolTable' = addFunction(symbolTable, name, info)

Next ==
  \/ EnterScope
  \/ LeaveScope
  \/ \E name \in Names, type \in TypeChoices : AddVariable(name, type)
  \/ \E name \in Names, info \in FunctionChoices : AddFunction(name, info)

Spec == Init /\ [][Next]_symbolTable
-----------------------------------------------------------------------------
\* The table has its type, and its scope numbers are the levels of the stack.
TableInvariant == symbolTable \in Table /\ ScopeIdsAreLevels(symbolTable)

\* The declarations of a name, outermost first.
BindingsOf(name) ==
  SelectSeq([i \in 1..Depth(symbolTable) |-> symbolTable.scopes[i][name]],
            LAMBDA info : info # NotDeclared)

Scoping ==
  INSTANCE LexicalScoping WITH
    Types    <- TypeChoices,
    Infos    <- FunctionChoices,
    Unknown  <- NoFunction,
    MaxDepth <- MaxScopes,
    depth    <- symbolTable.currentScopeId,
    bindings <- [n \in Names |-> BindingsOf(n)],
    defined  <- [n \in Names |-> getFunctionInfo(symbolTable, n)],
    visible  <- [n \in Names |-> getSymbolInfo(symbolTable, n)]

\* The stack of scopes with its counter and its inside-out search is a set of
\* per-name binding stacks: closing a scope uncovers exactly the bindings it
\* hid, and a refused addVariable or addFunction changes nothing.
ImplementsLexicalScoping == Scoping!Spec
=============================================================================
