--------------------------- MODULE MCSymbolTable ---------------------------
(***************************************************************************)
(* The symbol table with two names, two types and up to three scopes.      *)
(***************************************************************************)
EXTENDS SymbolTableClient

CONSTANTS x, f

MCNames           == {x, f}
MCTypeChoices     == {"int", "flt"}
MCFunctionChoices == {[parameterInfo |-> <<>>],
                      [parameterInfo |-> <<[name |-> x, type |-> "int"]>>]}

=============================================================================
