------------------------------ MODULE Literals ------------------------------
(***************************************************************************)
(* What becomes of a literal.  A PrimaryExpression keeps the lexeme of its *)
(* token and not the kind, so getType, for the analyzer, and the visitor   *)
(* of the generator each find out anew what was written, by regular        *)
(* expressions of their own.                                               *)
(***************************************************************************)
EXTENDS Lexer

\* The kinds of token that parsePrimary takes.
PrimaryKinds == {"Identifier", "Number", "FloatLiteral", "StringLiteral", "True", "False"}

lexeme(t) == SubSeq(text, t.from, t.after - 1)

Unsigned(w)   == IF w # <<>> /\ w[1] \in {"+", "-"} THEN Tail(w) ELSE w
DigitsOnly(w) == \A i \in 1..Len(w) : w[i] \in Digits

intRegex(w)    == Unsigned(w) # <<>> /\ DigitsOnly(Unsigned(w))
stringRegex(w) == /\ Len(w) > 1 /\ w[1] = Quote /\ w[Len(w)] = Quote
                  /\ \A i \in 1..Len(w) : w[i] # Newline
Truth(w)       == w \in DOMAIN KeywordOf /\ KeywordOf[w] \in {"True", "False"}

\* How many digits there are before and after the point of a decimal.
Decimal(w, before, after) ==
  LET u == Unsigned(w)
  IN  \E p \in 1..Len(u) : /\ u[p] = "." /\ p - 1 = before /\ Len(u) - p = after
                           /\ \A i \in 1..Len(u) : i # p => u[i] \in Digits

\* The analyzer wants digits after the point, the generator on one side of it.
analyzerFloatRegex(w) == \E b, a \in 0..Len(w) : Decimal(w, b, a) /\ a > 0

\* A slip: as the analyzer does.
generatorFloatRegexOfAnalyzer(w) == \E b, a \in 0..Len(w) : Decimal(w, b, a) /\ a > 0

generatorFloatRegex(w) == \E b, a \in 0..Len(w) : Decimal(w, b, a) /\ (a > 0 \/ b > 0)

\* "variable" is what is looked up by its name.
getType(w) ==
  CASE intRegex(w)           -> "int"
    [] analyzerFloatRegex(w) -> "float"
    [] stringRegex(w)        -> "string"
    [] Truth(w)              -> "bool"
    [] OTHER                 -> "variable"

visitPrimaryExpression(w) ==
  CASE intRegex(w)            -> "int"
    [] generatorFloatRegex(w) -> "float"
    [] Truth(w)               -> "bool"
    [] stringRegex(w)         -> "string"
    [] OTHER                  -> "variable"
-----------------------------------------------------------------------------
\* Analyzer and generator read every lexeme of an expression alike, and as the
\* kind of its token, but for two: a decimal with nothing after its point is a
\* variable to the analyzer, which nobody can declare; and a string is never a
\* string, as it has lost its quotes, but a number, a truth or a variable.
LexemesReadAlike ==
  \A i \in 1..Len(tokens) :
    LET t == tokens[i]
        w == lexeme(t)
        EndsInPoint == \E b \in 1..Len(w) : Decimal(w, b, 0)
    IN  t.kind \in PrimaryKinds /\ t.after <= Len(text) + 1 =>
          /\ getType(w) = IF EndsInPoint THEN "variable" ELSE visitPrimaryExpression(w)
          /\ CASE t.kind = "Number"            -> visitPrimaryExpression(w) = "int"
               [] t.kind = "FloatLiteral"      -> visitPrimaryExpression(w) = "float"
               [] t.kind \in {"True", "False"} -> visitPrimaryExpression(w) = "bool"
               [] t.kind = "Identifier"        -> visitPrimaryExpression(w) = "variable"
               [] t.kind = "StringLiteral"     -> visitPrimaryExpression(w) # "string"
=============================================================================
