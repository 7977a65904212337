--------------------------- MODULE MCCompilerFlow ---------------------------
(***************************************************************************)
(* Control flow: loops and branches in every order and nesting that fits.  *)
(* One expression is an int that can be logged, returned and looped over,  *)
(* one a condition, and one an int that is lost, as every function has a   *)
(* parameter with the name of the entry block.  A global may take the name *)
(* of main.                                                                *)
(***************************************************************************)
EXTENDS Compiler, TLC

MCNumbered(n, k) == n \o ToString(k)

Prim(l)  == [kind |-> "primary", name |-> l]
Minus(l) == [kind |-> "unary", op |-> "-", expr |-> Prim(l)]

MCFunctionNames == {"foo", "main"}
MCNames         == {"entry"} \cup MCFunctionNames
MCIntLiterals   == {"1"}
MCFloatLiterals == {}
MCExpressions   == {Minus("1"), Minus("entry"),
                    [kind |-> "binary", op |-> "<", left |-> Prim("1"), right |-> Prim("1")]}
MCExprLists     == {}
MCParamLists    == {<<[name |-> "entry", type |-> "int"]>>}
=============================================================================
