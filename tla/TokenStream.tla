---------------------------- MODULE TokenStream ----------------------------
(***************************************************************************)
(* What a lexer promises the parser: every call of next is answered, by a  *)
(* kind of token that the parser knows; the end of the text, once seen, is *)
(* all that is ever seen again, and so is a character that no token starts *)
(* with.  An Unexpected token followed by End is a string without its      *)
(* closing quote.                                                          *)
(*                                                                         *)
(* Nothing is promised about what follows a Dot: a dot takes the character *)
(* after it along, be it the one that ends the text.                       *)
(***************************************************************************)
EXTENDS Integers, Sequences

VARIABLES kinds,    \* the kinds of the tokens so far
          pending   \* a call of next is under way

vars == <<kinds, pending>>

\* Token::Kind without those no lexer function returns (Comment, DoubleQuote
\* and Uninitialized).
AtomKinds == {"LeftParen", "RightParen", "LeftSquare", "RightSquare",
              "LeftCurly", "RightCurly", "LessThan", "GreaterThan", "Equal",
              "Plus", "Minus", "Modulo", "Asterisk", "Hash", "Comma", "Colon",
              "Semicolon", "SingleQuote", "Pipe"}
KeywordKinds == {"Function", "If", "Else", "Range", "Return", "Loop", "Int",
                 "Float", "String", "Bool", "Log", "Not", "Equals", "NotEquals",
                 "Or", "And", "For", "While", "Print", "Call", "True", "False",
                 "Array"}
Kinds == AtomKinds \cup KeywordKinds \cup
         {"Number", "FloatLiteral", "Identifier", "StringLiteral", "Slash", "Dot",
          "LessThanEqual", "GreaterThanEqual", "Arrow", "ArrayAdd", "ArrayRemove",
          "End", "Unexpected"}

\* The kind k may come after the tokens ks.
MayFollow(ks, k) ==
  LET n == Len(ks)
  IN  \/ \E i \in 1..n : ks[i] = "Dot"
      \/ /\ n > 0 /\ ks[n] = "End" => k = "End"
         /\ n > 0 /\ ks[n] = "Unexpected" =>
              \/ k = "Unexpected"
              \/ k = "End" /\ ~(n > 1 /\ ks[n-1] = "Unexpected")

Init == kinds = <<>> /\ pending = FALSE

Request == ~pending /\ pending' = TRUE /\ UNCHANGED kinds

Reply == /\ pending
         /\ \E k \in Kinds : MayFollow(kinds, k) /\ kinds' = Append(kinds, k)
         /\ pending' = FALSE

Next == Request \/ Reply

Spec == Init /\ [][Next]_vars /\ WF_vars(Reply)
=============================================================================
