--------------------------- MODULE MCCompilerTypes ---------------------------
(***************************************************************************)
(* Names and types: globals of every type, parameters that hide them and   *)
(* are left behind by an earlier function, every kind of expression.  One  *)
(* variable has the name of the entry block, the other the name that LLVM  *)
(* gives to a parameter called so.                                         *)
(***************************************************************************)
EXTENDS Compiler, TLC

CONSTANTS foo, bar

MCNumbered(n, k) == n \o ToString(k)

Prim(l)         == [kind |-> "primary", name |-> l]
Un(op, l)       == [kind |-> "unary", op |-> op, expr |-> Prim(l)]
Bin(op, l, e)   == [kind |-> "binary", op |-> op, left |-> Prim(l), right |-> e]
Assign(n, e)    == [kind |-> "assign", name |-> n, expression |-> e]
Method(o, m, a) == [kind |-> "method", object |-> o, name |-> m, arguments |-> a]
Par(n, t)       == [name |-> n, type |-> t]

x == "entry1"

MCVariableNames == {"entry", x}
MCFunctionNames == {foo, bar}
MCNames         == MCVariableNames \cup MCFunctionNames
MCSymmetry      == Permutations(MCFunctionNames)
MCIntLiterals   == {"1"}
MCFloatLiterals == {"1.5"}

MCExpressions ==
  {Prim("entry"), Bin("<", x, Un("-", x)), Bin("and", x, Prim(x)),
   Assign(x, Bin("+", x, Prim("1"))), Assign(x, Assign(x, Prim("1.5")))}

MCExprLists  == {<<>>, <<Prim(x)>>, <<Bin("/", "1", Prim("1"))>>, <<Method(x, "remove", <<>>)>>}
MCParamLists == {<<>>, <<Par(x, "int")>>, <<Par("entry", "int")>>, <<Par(x, "flt")>>}
=============================================================================
