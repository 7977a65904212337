------------------------------ MODULE Grammar ------------------------------
(***************************************************************************)
(* The language that the parser accepts, as a context-free grammar over    *)
(* kinds of tokens, and what it means for tokens to be a text of the       *)
(* language or the beginning of one.  Where the parser looks ahead to      *)
(* choose among productions there is no choice here: all are followed.     *)
(***************************************************************************)
EXTENDS Tokens

OneOf(kinds) == {<<k>> : k \in kinds}
Or0(S)       == {<<>>} \cup S

\* The productions of every symbol that is not a kind of token.
Productions ==
  [text        |-> {<<"program", "End">>},
   program     |-> Or0({<<"item", "program">>}),
   item        |-> OneOf({"declaration", "definition", "call", "keyworded", "expression"}),
   declaration |-> {<<"Int", "Identifier", "Equal", "Number", "Semicolon">>,
                    <<"Float", "Identifier", "Equal", "FloatLiteral", "Semicolon">>,
                    <<"String", "Identifier", "Equal", "StringLiteral", "Semicolon">>,
                    <<"Bool", "Identifier", "Equal", "truth", "Semicolon">>,
                    <<"Int", "Array", "Identifier", "Equal",
                      "LeftCurly", "list", "RightCurly", "Semicolon">>},
   truth       |-> OneOf({"True", "False"}),
   list        |-> Or0({<<"expression">>, <<"expression", "Comma", "list">>}),
   expression  |-> {<<"Identifier", "Equal", "opening", "expression", "Semicolon">>,
                    <<"sign", "primary">>,
                    <<"operand", "operator", "unary">>,
                    <<"primary", "methods">>},
   opening     |-> Or0({<<"LeftParen">>}),  \* and nothing that closes it
   sign        |-> OneOf({"Minus", "Not"}),
   operand     |-> OneOf(Operands),
   operator    |-> OneOf(BinaryOps),
   unary       |-> {<<"primary">>, <<"sign", "primary">>},
   primary     |-> OneOf({"Identifier"} \cup Literals),
   methods     |-> Or0({<<"ArrayAdd", "expression", "RightParen", "Semicolon", "methods">>,
                        <<"ArrayRemove", "RightParen", "Semicolon", "methods">>}),
   keyworded   |-> {<<"Log", "LeftParen", "unary", "RightParen", "Semicolon">>,
                    <<"Return", "LeftParen", "unary", "RightParen", "Semicolon">>,
                    <<"If", "LeftParen", "expression", "RightParen", "block", "otherwise">>,
                    <<"Loop", "LeftParen", "expression", "RightParen", "block">>,
                    <<"Loop", "Range", "LeftParen", "expression", "Comma", "expression",
                      "RightParen", "block">>},
   otherwise   |-> Or0({<<"Else", "block">>}),
   block       |-> {<<"LeftCurly", "statements", "RightCurly">>},
   statements  |-> Or0({<<"keyworded", "statements">>, <<"expression", "statements">>}),
   definition  |-> {<<"Function", "Identifier", "LeftParen", "parameters", "RightParen",
                      "Arrow", "type", "block">>},
   parameters  |-> Or0({<<"parameter">>, <<"parameter", "Comma", "parameters">>}),
   parameter   |-> {<<"Colon", "Identifier">>}
                     \cup {<<t, "Colon", "Identifier">> : t \in {"Int", "Float", "String"}},
   type        |-> OneOf({"Int", "Float", "String", "Bool"}),
   call        |-> {<<"Call", "Identifier", "LeftParen", "list", "RightParen", "Semicolon">>}]

\* What a leftmost derivation can still expect, given what it has expanded: the
\* rests that start with a kind of token, or are empty.
RECURSIVE Rests(_)
Rests(symbols) ==
  IF symbols = <<>> \/ Head(symbols) \notin DOMAIN Productions
    THEN {symbols}
    ELSE UNION {Rests(p \o Tail(symbols)) : p \in Productions[Head(symbols)]}

\* The rests after the tokens ks.
RECURSIVE RestsAfter(_)
RestsAfter(ks) ==
  IF ks = <<>>
    THEN Rests(<<"text">>)
    ELSE LET last   == ks[Len(ks)]
             before == RestsAfter(SubSeq(ks, 1, Len(ks) - 1))
         IN  UNION {Rests(Tail(r)) : r \in {s \in before : s # <<>> /\ Head(s) = last}}

\* Every symbol derives some text, so a derivation can always be completed.
IsText(ks)          == <<>> \in RestsAfter(ks)
IsBeginning(ks)     == RestsAfter(ks) # {}
=============================================================================
