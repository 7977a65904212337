------------------------------ MODULE MCParser ------------------------------
(***************************************************************************)
(* All short texts of several vocabularies, each with the tokens that one  *)
(* part of the parser tells apart; the text may end after any token.       *)
(***************************************************************************)
EXTENDS ParsedTrees

V(n, ks) == [kinds |-> ks, length |-> n]
Braces == {"LeftCurly", "RightCurly"}
Parens == {"LeftParen", "RightParen"}
MCVocabularies ==
  {V(9, {"Int", "Array", "Identifier", "Equal", "Comma", "Semicolon"} \cup Braces),
   V(6, {"Int", "Identifier", "Equal", "Number", "Semicolon"}),
   V(5, {"Float", "String", "Identifier", "Equal", "FloatLiteral", "StringLiteral",
         "Semicolon"}),
   V(5, {"Bool", "Identifier", "Equal", "True", "Number", "Semicolon"}),
   V(6, {"Identifier", "Number", "Minus", "Not", "Plus", "Equal", "Semicolon"}),
   V(8, {"Identifier", "Equal", "Semicolon", "ArrayAdd", "ArrayRemove"} \cup Parens),
   V(12, {"If", "Else", "Number"} \cup Parens \cup Braces),
   V(11, {"Loop", "Range", "Comma", "Number"} \cup Parens \cup Braces),
   V(8, {"Log", "Return", "Semicolon", "Minus", "StringLiteral", "Plus"} \cup Parens),
   V(13, {"Function", "Identifier", "Int", "Colon", "Comma", "Arrow"} \cup Parens \cup Braces),
   V(8, {"Call", "Identifier", "Comma", "Semicolon", "Minus"} \cup Parens),
   V(5, {"Dot", "Unexpected", "Identifier", "Plus", "Equal", "Function", "LeftParen"}),
   V(4, {"While", "For", "Print", "Range", "Loop", "Identifier", "Equal"} \cup Braces)}

\* The documented operator expressions.
MCOperatorVocabularies ==
  {V(5, {"Identifier", "GreaterThan", "Slash", "Equals", "Not", "Minus", "Semicolon"})}
=============================================================================
