---------------------------- MODULE ParsedTrees ----------------------------
(***************************************************************************)
(* What the parser makes of a text: which texts it accepts and the trees   *)
(* that it builds from them.  Trees are of any height, so the definitions  *)
(* are recursive.                                                          *)
(***************************************************************************)
EXTENDS Parser, Grammar, SequencesExt

\* The parser accepts exactly the language of the grammar, and it fails at the
\* first token that no text of the language has there: its two tokens of
\* lookahead never make it give up a text that another choice would accept.
AcceptsTheGrammar ==
  /\ status = "parsed" => IsText(Append(consumed, current))
  /\ status = "failed" => ~IsBeginning(Append(consumed, current))

\* The positions of the lexemes in a node, from left to right.
RECURSIVE Lexemes(_)
Lexemes(n) ==
  IF n.node = "lexeme" THEN <<n.at>>
                       ELSE FlattenSeq([i \in 1..Len(n.parts) |-> Lexemes(n.parts[i])])
LexemesOf(list) == FlattenSeq([i \in 1..Len(program[list]) |-> Lexemes(program[list][i])])

\* The tokens whose lexemes the program needs: names, literals, operators, the
\* types in the head of a function, and the colon where a type is missing.
Meaningful(p) ==
  LET k == consumed[p]
  IN  \/ k \in {"Identifier", "Not"} \cup Literals \cup BinaryOps
      \/ k \in Types /\ p > 1 /\ (consumed[p-1] = "Arrow" \/ consumed[p+1] = "Colon")
      \/ k = "Colon" /\ consumed[p-1] \notin Types

\* Every lexeme of an accepted text is in the tree once; inside each of the
\* four lists they have the order of the text, through methods that are called
\* on what was parsed before them and assignments inside assignments.
LexemesKeepTheirOrder ==
  status = "parsed" =>
    LET all == UNION {ToSet(LexemesOf(l)) : l \in DOMAIN program}
    IN  /\ \A l \in DOMAIN program :
             \A i, j \in 1..Len(LexemesOf(l)) : i < j => LexemesOf(l)[i] < LexemesOf(l)[j]
        /\ \A l, m \in DOMAIN program :
             l # m => ToSet(LexemesOf(l)) \cap ToSet(LexemesOf(m)) = {}
        /\ all = {p \in 1..Len(consumed) : Meaningful(p)}

Word       == {"lexeme"}
Unaries    == {"primary", "unary"}
Objects    == {"primary", "add", "remove"}
Values     == Unaries \cup Objects \cup {"binary", "assign"}
Block      == {"block"}
Statements == {"statement", "print", "return", "if", "for", "while"}

\* The parts of the nodes that visitors are written for.
Shapes(n) ==
  CASE n \in {"int", "float", "string", "bool", "parameter"} -> {<<Word, Word>>}
    [] n = "primary"              -> {<<Word>>}
    [] n = "unary"                -> {<<Word, {"primary"}>>}
    [] n = "binary"               -> {<<{"primary"}, Word, Unaries>>}
    [] n = "add"                  -> {<<Objects, Values>>}
    [] n = "remove"               -> {<<Objects>>}
    [] n = "assign"               -> {<<Word, Values>>}
    [] n = "statement"            -> {<<Values>>}
    [] n \in {"print", "return"}  -> {<<Unaries>>}
    [] n = "if"                   -> {<<Values, Block>>, <<Values, Block, Block>>}
    [] n = "while"                -> {<<Values, Block>>}
    [] n = "for"                  -> {<<Values, Values, Block>>}
    [] OTHER                      -> {}
AllIn(parts, S) == \A i \in 1..Len(parts) : parts[i].node \in S

HasShape(n) ==
  LET ps == n.parts
  IN  CASE n.node = "lexeme" -> ps = <<>>
        [] n.node = "block"  -> AllIn(ps, Statements)
        [] n.node \in {"array", "call"} ->
             ps # <<>> /\ ps[1].node \in Word /\ AllIn(Tail(ps), Values)
        [] n.node = "function" ->
             \E r \in 2..Len(ps) : /\ ps[1].node \in Word /\ ps[r].node \in Word
                                   /\ AllIn(SubSeq(ps, 2, r - 1), {"parameter"})
                                   /\ AllIn(SubSeq(ps, r + 1, Len(ps)), Statements)
        [] OTHER -> \E shape \in Shapes(n.node) :
             Len(ps) = Len(shape) /\ \A i \in 1..Len(ps) : ps[i].node \in shape[i]

RECURSIVE WellFormed(_)
WellFormed(n) == HasShape(n) /\ \A i \in 1..Len(n.parts) : WellFormed(n.parts[i])

NodesOf(list) ==
  CASE list = "functions"   -> {"function", "call"}
    [] list = "statements"  -> Statements
    [] list = "expressions" -> Values
    [] list = "declarations" -> {"int", "float", "string", "bool", "array"}

\* The trees are those of SSLangAST, from which analyzer and generator are
\* modelled: the left operand of an operator and the operand of a sign are
\* primary expressions, log and ret take no operator, bodies are blocks, and
\* functions, calls and declarations are at the top only.
TreesFitTheVisitors ==
  \A l \in DOMAIN program :
    AllIn(program[l], NodesOf(l)) /\ \A i \in 1..Len(program[l]) : WellFormed(program[l][i])
=============================================================================
