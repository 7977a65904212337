------------------------- MODULE MCSemanticAnalyzer -------------------------
(***************************************************************************)
(* Programs over two variable names, one of which a function may share, a  *)
(* handful of expressions of every kind, and parameters that hide globals. *)
(***************************************************************************)
EXTENDS SemanticAnalyzer

CONSTANTS x, y

Prim(l)         == [kind |-> "primary", name |-> l]
Un(op, l)       == [kind |-> "unary", op |-> op, expr |-> Prim(l)]
Bin(op, l, r)   == [kind |-> "binary", op |-> op, left |-> Prim(l), right |-> Prim(r)]
Assign(n, e)    == [kind |-> "assign", name |-> n, expression |-> e]
Method(o, m, a) == [kind |-> "method", object |-> o, name |-> m, arguments |-> a]
Par(n, t)       == [name |-> n, type |-> t]

MCNames         == {x, y}
MCIntLiterals   == {"1"}
MCFloatLiterals == {"1.5"}

MCExpressions ==
  {Prim(x), Prim("1.5"), Un("not", y), Bin("<", x, "1"), Bin("+", y, "1"),
   Assign(x, Prim("1")), Assign(y, Assign(x, Prim(y))), Method(y, "add", <<Prim("1")>>)}

MCExprLists  == {<<>>, <<Prim(x)>>}
MCParamLists == {<<>>, <<Par(x, "int")>>, <<Par(y, "flt"), Par(x, ":")>>,
                 <<Par(x, "int"), Par(x, "str")>>}
=============================================================================
