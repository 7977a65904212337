------------------------------- MODULE Tokens -------------------------------
(***************************************************************************)
(* The kinds of tokens that parser and grammar treat alike.                *)
(***************************************************************************)
EXTENDS Integers, Sequences

Literals   == {"Number", "FloatLiteral", "StringLiteral", "True", "False"}
Operands   == {"Identifier", "Number", "FloatLiteral"}  \* left of an operator
BinaryOps  == {"Plus", "Minus", "Asterisk", "Slash", "Modulo", "And", "Or",
               "Equals", "NotEquals", "GreaterThan", "GreaterThanEqual",
               "LessThan", "LessThanEqual"}
=============================================================================
