------------------------- MODULE SymbolTableProofs -------------------------
(***************************************************************************)
(* The invariant of a table whose client calls the methods in any order.   *)
(***************************************************************************)
EXTENDS SymbolTableClient, SymbolTableLemmas

\* Whatever methods a client calls, in whatever order, the table stays of its
\* type and the counter and the symbols' scope numbers stay in step with the
\* stack of scopes (SymbolTable.cpp keeps the two by hand).
THEOREM TableInvariantHolds == Spec => []TableInvariant
<1>. USE DEF TableInvariant
<1>1. Init => TableInvariant
  BY NewTableConsistent DEF Init, Consistent
<1>2. TableInvariant /\ [Next]_symbolTable => TableInvariant'
  <2>. SUFFICES ASSUME TableInvariant, [Next]_symbolTable
                PROVE  Consistent(symbolTable')
    BY DEF Consistent, ScopeIdsAreLevels
  <2>0. Consistent(symbolTable)
    BY DEF Consistent
  <2>1. CASE EnterScope
    BY <2>0, <2>1, EnterScopeConsistent DEF EnterScope
  <2>2. CASE LeaveScope
    BY <2>0, <2>2, LeaveScopeConsistent DEF LeaveScope
  <2>3. ASSUME NEW n \in Names, NEW type \in TypeChoices, AddVariable(n, type)
        PROVE  Consistent(symbolTable')
    BY <2>0, <2>3, AddVariableConsistent, ClientAssumption DEF AddVariable
  <2>4. ASSUME NEW n \in Names, NEW info \in FunctionChoices, AddFunction(n, info)
        PROVE  Consistent(symbolTable')
    BY <2>0, <2>4, AddFunctionConsistent, ClientAssumption DEF AddFunction
  <2>5. CASE UNCHANGED symbolTable
    BY <2>0, <2>5
  <2>. QED  BY <2>1, <2>2, <2>3, <2>4, <2>5 DEF Next
<1>. QED  BY <1>1, <1>2, PTL DEF Spec
=============================================================================
