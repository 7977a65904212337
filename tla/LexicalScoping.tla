--------------------------- MODULE LexicalScoping ---------------------------
(***************************************************************************)
(* What a symbol table promises its clients: every name has a stack of     *)
(* bindings, one per scope that declares it; a lookup sees the top of the  *)
(* stack, a scope that closes takes the bindings made in it away and no    *)
(* other, and a function keeps its first definition.  There is no stack of *)
(* scopes here, only the depth at which each binding was made.             *)
(***************************************************************************)
EXTENDS Sequences, Integers

CONSTANTS Names, Types, Infos, Unknown, MaxDepth

VARIABLES depth,     \* the number of open scopes
          bindings,  \* for each name its bindings, outermost first
          defined,   \* for each name the function it was first defined as
          visible    \* what a lookup of each name returns

vars == <<depth, bindings, defined, visible>>

Unbound == [type |-> "none", scopeId |-> 0]

TopOf(stack) == IF stack = <<>> THEN Unbound ELSE stack[Len(stack)]

\* The bindings of a name once the scopes deeper than d are closed.
Truncate(stack, d) ==
  IF TopOf(stack).scopeId > d THEN SubSeq(stack, 1, Len(stack) - 1) ELSE stack

Init == /\ depth = 1
        /\ bindings = [n \in Names |-> <<>>]
        /\ defined = [n \in Names |-> Unknown]
        /\ visible = [n \in Names |-> Unbound]

Open == /\ depth < MaxDepth
        /\ depth' = depth + 1
        /\ UNCHANGED <<bindings, defined, visible>>

Close == /\ depth > 0
         /\ depth' = depth - 1
         /\ bindings' = [n \in Names |-> Truncate(bindings[n], depth')]
         /\ visible' = [n \in Names |-> TopOf(bindings'[n])]
         /\ UNCHANGED defined

\* A name is bound at most once per scope; a binding hides the outer ones.
Bind(n, type) ==
  /\ depth > 0
  /\ TopOf(bindings[n]).scopeId < depth
  /\ LET new == [type |-> type, scopeId |-> depth]
     IN  /\ bindings' = [bindings EXCEPT ![n] = Append(@, new)]
         /\ visible' = [visible EXCEPT ![n] = new]
  /\ UNCHANGED <<depth, defined>>

Define(n, info) == /\ defined[n] = Unknown
                   /\ defined' = [defined EXCEPT ![n] = info]
                   /\ UNCHANGED <<depth, bindings, visible>>

Next == \/ Open
        \/ Close
        \/ \E n \in Names, type \in Types : Bind(n, type)
        \/ \E n \in Names, info \in Infos : Define(n, info)

Spec == Init /\ [][Next]_vars
=============================================================================
