------------------------- MODULE SymbolTableLemmas -------------------------
(***************************************************************************)
(* What the methods of SymbolTable preserve, for every set of names.       *)
(***************************************************************************)
EXTENDS SymbolTable, SequenceTheorems, TLAPS

\* A table of the right type whose scope numbers are the levels of its stack.
Consistent(t) == t \in Table /\ ScopeIdsAreLevels(t)

LEMMA ScopeTypes == EmptyScope \in Scope /\ NotDeclared \notin SymbolInfo
<1>1. EmptyScope \in Scope
  BY DEF EmptyScope, Scope
<1>2. NotDeclared \notin SymbolInfo
  BY DEF NotDeclared, SymbolInfo, SymbolTypes, ParamTypes
<1>. QED  BY <1>1, <1>2

\* The constructor's table is consistent and holds one scope.
LEMMA NewTableConsistent == Consistent(NewTable) /\ Depth(NewTable) = 1
<1>1. <<EmptyScope>> \in Seq(Scope) /\ Len(<<EmptyScope>>) = 1
  BY ScopeTypes
<1>2. NewTable \in Table
  BY <1>1 DEF NewTable, Table
<1>3. ScopeIdsAreLevels(NewTable)
  BY <1>1 DEF NewTable, ScopeIdsAreLevels, Depth, EmptyScope
<1>. QED  BY <1>1, <1>2, <1>3 DEF Consistent, NewTable, Depth

\* enterScope adds one empty scope on top and leaves the others alone.
LEMMA EnterScopeConsistent ==
  ASSUME NEW t, Consistent(t)
  PROVE  /\ Consistent(enterScope(t))
         /\ Depth(enterScope(t)) = Depth(t) + 1
         /\ \A i \in 1..Depth(t) : enterScope(t).scopes[i] = t.scopes[i]
         /\ enterScope(t).scopes[Depth(t) + 1] = EmptyScope
<1>. DEFINE s == t.scopes
            e == enterScope(t)
<1>1. s \in Seq(Scope) /\ Len(s) \in Nat /\ t.currentScopeId = Len(s)
  BY LenProperties DEF Consistent, Table, ScopeIdsAreLevels, Depth
<1>2. /\ Append(s, EmptyScope) \in Seq(Scope)
      /\ Len(Append(s, EmptyScope)) = Len(s) + 1
      /\ \A i \in 1..Len(s) : Append(s, EmptyScope)[i] = s[i]
      /\ Append(s, EmptyScope)[Len(s) + 1] = EmptyScope
  BY <1>1, ScopeTypes, AppendProperties
<1>3. /\ e \in Table
      /\ e.scopes = Append(s, EmptyScope)
      /\ e.currentScopeId = Len(s) + 1
  <2>. DEFINE a == Append(s, EmptyScope)
  <2>1. t \in Table /\ a \in Seq(Scope) /\ t.currentScopeId + 1 \in Int
    BY <1>1, <1>2 DEF Consistent
  <2>2. e = [t EXCEPT !.scopes = a, !.currentScopeId = t.currentScopeId + 1]
    BY DEF enterScope
  <2>. HIDE DEF a, e
  <2>3. e \in Table /\ e.scopes = a /\ e.currentScopeId = t.currentScopeId + 1
    <3>1. e = [scopes |-> a, currentScopeId |-> t.currentScopeId + 1,
               functions |-> t.functions]
      BY <2>1, <2>2 DEF Table
    <3>. QED  BY <2>1, <3>1 DEF Table
  <2>. QED  BY <1>1, <2>3 DEF a
<1>4. ScopeIdsAreLevels(e)
  BY <1>1, <1>2, <1>3 DEF Consistent, ScopeIdsAreLevels, Depth, EmptyScope
<1>. QED  BY <1>1, <1>2, <1>3, <1>4 DEF Consistent, Depth

\* leaveScope takes the top scope away, and nothing from an empty stack.
LEMMA LeaveScopeConsistent ==
  ASSUME NEW t, Consistent(t)
  PROVE  /\ Consistent(leaveScope(t))
         /\ Depth(t) > 0 => Depth(leaveScope(t)) = Depth(t) - 1
         /\ \A i \in 1..Depth(t) - 1 : leaveScope(t).scopes[i] = t.scopes[i]
<1>. DEFINE s == t.scopes
            l == leaveScope(t)
            m == SubSeq(s, 1, Len(s) - 1)
<1>1. s \in Seq(Scope) /\ Len(s) \in Nat /\ t.currentScopeId = Len(s)
  BY LenProperties DEF Consistent, Table, ScopeIdsAreLevels, Depth
<1>2. CASE s = <<>>
  BY <1>1, <1>2 DEF leaveScope, Depth
<1>3. CASE s # <<>>
  <2>1. /\ Len(s) > 0
        /\ m \in Seq(Scope)
        /\ Len(m) = Len(s) - 1
        /\ \A i \in 1..Len(s) - 1 : m[i] = s[i]
    BY <1>1, <1>3, SubSeqProperties, EmptySeq
  <2>2. l \in Table /\ l.scopes = m /\ l.currentScopeId = Len(s) - 1
    <3>1. t \in Table /\ t.currentScopeId - 1 \in Int
      BY <1>1 DEF Consistent
    <3>2. l = [t EXCEPT !.scopes = m, !.currentScopeId = t.currentScopeId - 1]
      BY <1>3 DEF leaveScope, Depth
    <3>. HIDE DEF l, m
    <3>3. l \in Table /\ l.scopes = m /\ l.currentScopeId = t.currentScopeId - 1
      <4>1. l = [scopes |-> m, currentScopeId |-> t.currentScopeId - 1,
                 functions |-> t.functions]
        BY <3>1, <3>2 DEF Table
      <4>. QED  BY <2>1, <3>1, <4>1 DEF Table
    <3>. QED  BY <1>1, <3>3
  <2>3. ScopeIdsAreLevels(l)
    BY <1>1, <2>1, <2>2 DEF Consistent, ScopeIdsAreLevels, Depth
  <2>. QED  BY <1>1, <2>1, <2>2, <2>3 DEF Consistent, Depth
<1>. QED  BY <1>2, <1>3

\* Replacing the innermost scope by one whose symbols all carry the current
\* scope's number keeps a table consistent.
LEMMA TopScopeConsistent ==
  ASSUME NEW t, Consistent(t), Depth(t) > 0,
         NEW scope \in Scope,
         \A n \in Names : scope[n] # NotDeclared => scope[n].scopeId = t.currentScopeId
  PROVE  LET u == [t EXCEPT !.scopes[Depth(t)] = scope]
         IN  /\ Consistent(u)
             /\ Depth(u) = Depth(t)
             /\ u.scopes[Depth(t)] = scope
             /\ \A i \in 1..Depth(t) - 1 : u.scopes[i] = t.scopes[i]
<1>. DEFINE s == t.scopes
            u == [t EXCEPT !.scopes[Depth(t)] = scope]
            r == [s EXCEPT ![Len(s)] = scope]
<1>1. s \in Seq(Scope) /\ Len(s) \in Nat /\ Len(s) > 0 /\ t.currentScopeId = Len(s)
  BY LenProperties DEF Consistent, Table, ScopeIdsAreLevels, Depth
<1>2. u.scopes = r /\ u.currentScopeId = Len(s) /\ u.functions = t.functions
  BY <1>1 DEF Depth, Consistent, Table
<1>3. /\ r \in Seq(Scope)
      /\ Len(r) = Len(s)
      /\ \A i \in 1..Len(s) : r[i] = IF i = Len(s) THEN scope ELSE s[i]
  BY <1>1, ExceptSeq
<1>4. u \in Table
  BY <1>1, <1>2, <1>3 DEF Consistent, Table, Depth
<1>5. ScopeIdsAreLevels(u)
  BY <1>1, <1>2, <1>3 DEF Consistent, ScopeIdsAreLevels, Depth
<1>. QED  BY <1>1, <1>2, <1>3, <1>4, <1>5 DEF Consistent, Depth

\* addVariable changes nothing but one entry of the innermost scope.
LEMMA AddVariableConsistent ==
  ASSUME NEW t, Consistent(t), NEW name \in Names, NEW type \in SymbolTypes
  PROVE  /\ Consistent(addVariable(t, name, type))
         /\ Depth(addVariable(t, name, type)) = Depth(t)
<1>1. CASE ~CanAddVariable(t, name)
  BY <1>1 DEF addVariable
<1>2. CASE CanAddVariable(t, name)
  <2>. DEFINE top   == t.scopes[Depth(t)]
              info  == [type |-> type, scopeId |-> t.currentScopeId]
              scope == [top EXCEPT ![name] = info]
              u     == [t EXCEPT !.scopes[Depth(t)] = scope]
  <2>1. t.scopes \in Seq(Scope) /\ Depth(t) \in Nat /\ Depth(t) > 0
    BY <1>2, LenProperties, EmptySeq DEF CanAddVariable, Depth, Consistent, Table
  <2>2. top \in Scope
    BY <2>1, ElementOfSeq DEF Depth
  <2>3. info \in SymbolInfo
    BY DEF SymbolInfo, Consistent, Table
  <2>4. scope \in Scope
    BY <2>2, <2>3 DEF Scope
  <2>5. \A n \in Names : scope[n] # NotDeclared => scope[n].scopeId = t.currentScopeId
    BY <2>1, <2>2 DEF Consistent, ScopeIdsAreLevels, Scope
  <2>6. Consistent(u) /\ Depth(u) = Depth(t)
    BY <2>1, <2>4, <2>5, TopScopeConsistent
  <2>7. addVariable(t, name, type) = u
    BY <1>2 DEF addVariable
  <2>. QED  BY <2>6, <2>7
<1>. QED  BY <1>1, <1>2

\* addFunction touches the functions only.
LEMMA AddFunctionConsistent ==
  ASSUME NEW t, Consistent(t), NEW name \in Names, NEW info \in FunctionInfo
  PROVE  /\ Consistent(addFunction(t, name, info))
         /\ addFunction(t, name, info).scopes = t.scopes
<1>1. addFunction(t, name, info) \in Table
  BY DEF addFunction, Consistent, Table
<1>2. /\ addFunction(t, name, info).scopes = t.scopes
      /\ addFunction(t, name, info).currentScopeId = t.currentScopeId
  BY DEF addFunction, Consistent, Table
<1>. QED  BY <1>1, <1>2 DEF Consistent, ScopeIdsAreLevels, Depth
=============================================================================
