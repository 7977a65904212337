---------------------------- MODULE ParserProofs ----------------------------
(***************************************************************************)
(* Theorems about the parser, for texts of any length and vocabulary.      *)
(*                                                                         *)
(* Everything follows from one invariant, about the calls that are under   *)
(* way: from the place where the parser stands, the steps in todo lead to  *)
(* the end.  A place counts the nodes that have been begun, the parts of   *)
(* the program and the parentheses that have yet to be closed, and says    *)
(* whether the last token was an equals sign.  Each step has places that   *)
(* it may lead from and to; a call leads where the steps that take its     *)
(* place will lead, whatever they are, so that a parse function keeps the  *)
(* invariant exactly if its steps lead where its call does.                *)
(***************************************************************************)
EXTENDS Parser, SequenceTheorems, FiniteSetTheorems, TLAPS

\* Where the parser stands: how many nodes it has begun, how many parts the
\* program has, how many more parentheses have been opened than closed, and
\* what is known of the last token that was consumed.
Place == [level : Nat \ {0}, parts : Nat, open : Int, after : {"Equal", "other", "unknown"}]
PlaceAt(l, p, o, a) == [level |-> l, parts |-> p, open |-> o, after |-> a]

Bad == {"Dot", "Unexpected", "End"}

\* What a token adds to the parentheses that must be closed; the one after an
\* equals sign need not be.
Weight(kind, after) ==
  CASE kind = "RightParen"                 -> -1
    [] kind \in {"ArrayAdd", "ArrayRemove"} -> 1
    [] kind = "LeftParen"                  -> IF after = "Equal" THEN 0 ELSE 1
    [] OTHER                               -> 0

\* Parse functions that give the open node one part more, and those that fill
\* a node with any number of parts, which is never the program.
Pieces == {"Function", "Statement", "Declaration", "Expression", "ArrayDeclaration",
           "BoolDeclaration", "FunctionDefinition", "FunctionCall", "Binary", "Unary",
           "Primary", "Assignment", "LoopStatement", "Block"}
Lists  == {"Truth", "Elements", "Separator", "Parenthesis", "Operator", "Else", "Statements",
           "Parameters", "MoreParameters", "ReturnType", "Arguments", "MoreArguments"}

\* From x to y the level changes and the node open there gets some parts.
Moves(x, y, level, n) ==
  /\ y.level = level /\ y.open = x.open
  /\ y.parts = x.parts + (IF level = 1 THEN n ELSE 0)
  /\ y.after \in {x.after, "unknown"}

Token(s, x, y) ==
  /\ s.do \in {"take", "keep"} /\ s.what \notin Bad
  /\ s.do = "keep" => x.level > 1
  /\ s.what = "LeftParen" => x.after # "unknown"
  /\ y.level = x.level /\ y.parts = x.parts
  /\ y.open = x.open + Weight(s.what, x.after)
  /\ y.after \in {"unknown", IF s.what = "Equal" THEN "Equal" ELSE "other"}

Builds(s, x, y) ==
  \/ s.do = "look"  /\ x.level > 1 /\ Moves(x, y, x.level, 0)
  \/ s.do = "begin" /\ Moves(x, y, x.level + 1, 0)
  \/ /\ s.do = "wrap"
     /\ y.level = x.level + 1 /\ y.open = x.open /\ y.after \in {x.after, "unknown"}
     /\ x.level = 1 => x.parts > 0
     /\ y.parts = x.parts - (IF x.level = 1 THEN 1 ELSE 0)
  \/ s.do = "make"  /\ x.level > 1 /\ Moves(x, y, x.level - 1, 1)
  \/ /\ s.do = "file" /\ x.level = 1 /\ x.parts = 1
     /\ y.level = 1 /\ y.parts = 0 /\ y.open = x.open /\ y.after \in {x.after, "unknown"}

\* A call leads where its steps will lead, whatever they are.
Calls(s, x, y) ==
  /\ s.do = "call" /\ y.after = "unknown"
  /\ \/ s.what \in Pieces /\ Moves(x, y, x.level, 1)
     \/ /\ s.what \in Lists /\ x.level > 1 /\ Moves(x, y, x.level, 0)
        /\ s.what = "Parenthesis" => x.after = "Equal"
     \/ s.what = "Methods" /\ (x.level = 1 => x.parts > 0) /\ Moves(x, y, x.level, 0)
     \/ /\ s.what = "LoopKind" /\ x.level > 1 /\ x.after = "other"
        /\ Moves(x, y, x.level - 1, 1)
     \/ /\ s.what = "Program" /\ x.level = 1 /\ x.parts = 0 /\ x.open = 0
        /\ Moves(x, y, 1, 0)

Leads(s, x, y) == Token(s, x, y) \/ Builds(s, x, y) \/ Calls(s, x, y)

\* A sequence, of whatever there is in it.
Row(t) == t \in Seq({t[i] : i \in 1..Len(t)})

\* The steps t lead from x to y by way of the places w.
Way(t, w) == /\ w \in [1..Len(t) + 1 -> Place]
             /\ \A i \in 1..Len(t) : Leads(t[i], w[i], w[i + 1])
Runs(t, x, y) == Row(t) /\ \E w : Way(t, w) /\ w[1] = x /\ w[Len(t) + 1] = y
-----------------------------------------------------------------------------
(***************************************************************************)
(* Sequences, and the ways that lead along them.                           *)
(***************************************************************************)
LEMMA SequenceIsRow == ASSUME NEW S, NEW t \in Seq(S) PROVE Row(t)
<1>1. Len(t) \in Nat /\ t \in [1..Len(t) -> S] /\ DOMAIN t = 1..Len(t)
  BY LenProperties
<1>. DEFINE R == {t[i] : i \in 1..Len(t)}
<1>2. t \in [1..Len(t) -> R]
  BY <1>1
<1>. HIDE DEF R
<1>3. t \in Seq(R)
  BY <1>1, <1>2
<1>. QED  BY <1>3 DEF Row, R

\* Two sequences are sequences over one set.
LEMMA RowsInOneSet ==
  ASSUME NEW s, NEW t, Row(s), Row(t)
  PROVE  \E S : s \in Seq(S) /\ t \in Seq(S)
<1>. DEFINE A == {s[i] : i \in 1..Len(s)}
            B == {t[i] : i \in 1..Len(t)}
<1>1. s \in Seq(A) /\ t \in Seq(B)
  BY DEF Row
<1>. HIDE DEF A, B
<1>2. s \in Seq(A \cup B) /\ t \in Seq(A \cup B)
  BY <1>1
<1>. QED  BY <1>2

\* One sequence after another.
LEMMA RowsTogether == ASSUME NEW s, NEW t, Row(s), Row(t) PROVE Row(s \o t)
<1>1. PICK S : s \in Seq(S) /\ t \in Seq(S)
  BY RowsInOneSet
<1>2. s \o t \in Seq(S)
  BY <1>1, ConcatProperties
<1>. QED  BY <1>2, SequenceIsRow

\* No step leads nowhere.
LEMMA NoSteps == ASSUME NEW x \in Place PROVE Runs(<<>>, x, x)
<1>. DEFINE w == [i \in 1..1 |-> x]
<1>1. Way(<<>>, w)
  BY DEF Way
<1>2. Row(<<>>)
  BY EmptySeq, SequenceIsRow
<1>. QED  BY <1>1, <1>2 DEF Runs

\* One step, from a place that it leads from.
LEMMA OneStep ==
  ASSUME NEW s, NEW x \in Place, NEW y \in Place, Leads(s, x, y)
  PROVE  Runs(<<s>>, x, y)
<1>. DEFINE w == [i \in 1..2 |-> IF i = 1 THEN x ELSE y]
<1>1. w \in [1..2 -> Place] /\ w[1] = x /\ w[2] = y
  OBVIOUS
<1>. HIDE DEF w
<1>2. Way(<<s>>, w)
  BY <1>1 DEF Way
<1>3. Row(<<s>>)
  <2>1. <<s>> \in Seq({s})
    OBVIOUS
  <2>. QED  BY <2>1, SequenceIsRow
<1>. QED  BY <1>1, <1>2, <1>3 DEF Runs

\* Steps after steps.
LEMMA MoreSteps ==
  ASSUME NEW s, NEW t, NEW x, NEW y, NEW z, Runs(s, x, y), Runs(t, y, z)
  PROVE  Runs(s \o t, x, z)
<1>s. PICK S : s \in Seq(S) /\ t \in Seq(S)
  BY RowsInOneSet DEF Runs
<1>1. PICK v : Way(s, v) /\ v[1] = x /\ v[Len(s) + 1] = y
  BY DEF Runs
<1>2. PICK w : Way(t, w) /\ w[1] = y /\ w[Len(t) + 1] = z
  BY DEF Runs
<1>. DEFINE m == Len(s)
            n == Len(t)
            u == [i \in 1..m + n + 1 |-> IF i <= m THEN v[i] ELSE w[i - m]]
            r == s \o t
<1>3. m \in Nat /\ n \in Nat /\ Len(r) = m + n
      /\ \A i \in 1..m + n : r[i] = IF i <= m THEN s[i] ELSE t[i - m]
  BY <1>s, ConcatProperties
<1>4. v \in [1..m + 1 -> Place] /\ w \in [1..n + 1 -> Place]
  BY <1>1, <1>2 DEF Way
<1>5. \A i \in 1..m : Leads(s[i], v[i], v[i + 1])
  BY <1>1 DEF Way
<1>6. \A i \in 1..n : Leads(t[i], w[i], w[i + 1])
  BY <1>2 DEF Way
<1>7. v[1] = x /\ v[m + 1] = w[1] /\ w[n + 1] = z
  BY <1>1, <1>2
<1>. HIDE DEF m, n, r
<1>8. u \in [1..m + n + 1 -> Place]
  BY <1>3, <1>4
<1>9. u[1] = x /\ u[m + n + 1] = z
  BY <1>3, <1>7
<1>10. ASSUME NEW i \in 1..m + n PROVE Leads(r[i], u[i], u[i + 1])
  <2>1. CASE i < m
    <3>1. u[i] = v[i] /\ u[i + 1] = v[i + 1] /\ r[i] = s[i] /\ i \in 1..m
      BY <1>3, <2>1
    <3>. HIDE DEF u
    <3>. QED  BY <1>5, <3>1
  <2>2. CASE i = m
    BY <1>3, <1>5, <1>7, <2>2
  <2>3. CASE i > m
    <3>. DEFINE j == i - m
    <3>1. j \in 1..n /\ i = j + m /\ i \in 1..m + n + 1 /\ i + 1 \in 1..m + n + 1
          /\ ~(i <= m) /\ ~(i + 1 <= m) /\ i - m = j /\ (i + 1) - m = j + 1
      BY <1>3, <2>3
    <3>2. u[i] = w[j] /\ u[i + 1] = w[j + 1] /\ r[i] = t[j]
      BY <1>3, <3>1
    <3>. HIDE DEF j, u
    <3>. QED  BY <1>6, <3>1, <3>2
  <2>. QED  BY <1>3, <2>1, <2>2, <2>3
<1>. HIDE DEF u
<1>11. Way(r, u)
  BY <1>3, <1>8, <1>10 DEF Way
<1>12. Row(r)
  BY RowsTogether DEF Runs, r
<1>. QED  BY <1>3, <1>9, <1>11, <1>12 DEF Runs, r

\* The first step, and those after it.
LEMMA FirstStep ==
  ASSUME NEW t, t # <<>>, NEW x, NEW z, Runs(t, x, z)
  PROVE  \E y \in Place : /\ x \in Place /\ Leads(Head(t), x, y)
                          /\ Runs(Tail(t), y, z)
<1>s. PICK S : t \in Seq(S)
  BY DEF Runs, Row
<1>1. PICK w : Way(t, w) /\ w[1] = x /\ w[Len(t) + 1] = z
  BY DEF Runs
<1>. DEFINE n == Len(t)
            r == Tail(t)
            u == [i \in 1..n |-> w[i + 1]]
<1>2. n \in Nat /\ n > 0 /\ Len(r) = n - 1 /\ Head(t) = t[1]
      /\ \A i \in 1..n - 1 : r[i] = t[i + 1]
  BY <1>s, EmptySeq, LenProperties
<1>3. w \in [1..n + 1 -> Place] /\ \A i \in 1..n : Leads(t[i], w[i], w[i + 1])
  BY <1>1 DEF Way
<1>. HIDE DEF n, r
<1>4. u \in [1..n -> Place] /\ u[1] = w[2] /\ u[n] = w[n + 1]
  BY <1>2, <1>3
<1>5. \A i \in 1..n - 1 : Leads(r[i], u[i], u[i + 1])
  BY <1>2, <1>3
<1>. HIDE DEF u
<1>6. Way(r, u)
  BY <1>2, <1>4, <1>5 DEF Way
<1>r. Row(r)
  BY <1>s, HeadTailProperties, SequenceIsRow DEF r
<1>7. Runs(r, w[2], z)
  BY <1>1, <1>2, <1>4, <1>6, <1>r DEF Runs, n
<1>8. w[2] \in Place /\ x \in Place /\ Leads(Head(t), x, w[2])
  BY <1>1, <1>2, <1>3
<1>. QED  BY <1>7, <1>8 DEF r

\* One step before others.
LEMMA StepBefore ==
  ASSUME NEW s, NEW t, NEW x \in Place, NEW y \in Place, NEW z,
         Leads(s, x, y), Runs(t, y, z)
  PROVE  Runs(<<s>> \o t, x, z)
BY OneStep, MoreSteps

\* Two to ten steps, by the places between them.
LEMMA Path2 ==
  ASSUME NEW a, NEW b,
         NEW p0 \in Place, NEW p1 \in Place, NEW p2 \in Place,
         Leads(a, p0, p1), Leads(b, p1, p2)
  PROVE  Runs(<<a, b>>, p0, p2)
<1>. DEFINE t == <<a, b>>
            w == <<p0, p1, p2>>
<1>0. Row(t)
  <2>1. t \in Seq({a, b})
    OBVIOUS
  <2>. QED  BY <2>1, SequenceIsRow
<1>1. Len(t) = 2 /\ w \in [1..3 -> Place]
  OBVIOUS
<1>2. w[1] = p0 /\ w[3] = p2
  OBVIOUS
<1>3. \A i \in 1..2 : Leads(t[i], w[i], w[i + 1])
  OBVIOUS
<1>. HIDE DEF t, w
<1>4. Way(t, w)
  BY <1>1, <1>3 DEF Way
<1>5. Runs(t, p0, p2)
  BY <1>0, <1>1, <1>2, <1>4 DEF Runs
<1>. QED  BY <1>5 DEF t

LEMMA Path3 ==
  ASSUME NEW a, NEW b, NEW c,
         NEW p0 \in Place, NEW p1 \in Place, NEW p2 \in Place,
         NEW p3 \in Place,
         Leads(a, p0, p1), Leads(b, p1, p2), Leads(c, p2, p3)
  PROVE  Runs(<<a, b, c>>, p0, p3)
<1>. DEFINE t == <<a, b, c>>
            w == <<p0, p1, p2, p3>>
<1>0. Row(t)
  <2>1. t \in Seq({a, b, c})
    OBVIOUS
  <2>. QED  BY <2>1, SequenceIsRow
<1>1. Len(t) = 3 /\ w \in [1..4 -> Place]
  OBVIOUS
<1>2. w[1] = p0 /\ w[4] = p3
  OBVIOUS
<1>3. \A i \in 1..3 : Leads(t[i], w[i], w[i + 1])
  OBVIOUS
<1>. HIDE DEF t, w
<1>4. Way(t, w)
  BY <1>1, <1>3 DEF Way
<1>5. Runs(t, p0, p3)
  BY <1>0, <1>1, <1>2, <1>4 DEF Runs
<1>. QED  BY <1>5 DEF t

LEMMA Path5 ==
  ASSUME NEW a, NEW b, NEW c, NEW d, NEW e,
         NEW p0 \in Place, NEW p1 \in Place, NEW p2 \in Place,
         NEW p3 \in Place, NEW p4 \in Place, NEW p5 \in Place,
         Leads(a, p0, p1), Leads(b, p1, p2), Leads(c, p2, p3),
         Leads(d, p3, p4), Leads(e, p4, p5)
  PROVE  Runs(<<a, b, c, d, e>>, p0, p5)
<1>. DEFINE t == <<a, b, c, d, e>>
            w == <<p0, p1, p2, p3, p4, p5>>
<1>0. Row(t)
  <2>1. t \in Seq({a, b, c, d, e})
    OBVIOUS
  <2>. QED  BY <2>1, SequenceIsRow
<1>1. Len(t) = 5 /\ w \in [1..6 -> Place]
  OBVIOUS
<1>2. w[1] = p0 /\ w[6] = p5
  OBVIOUS
<1>3. \A i \in 1..5 : Leads(t[i], w[i], w[i + 1])
  OBVIOUS
<1>. HIDE DEF t, w
<1>4. Way(t, w)
  BY <1>1, <1>3 DEF Way
<1>5. Runs(t, p0, p5)
  BY <1>0, <1>1, <1>2, <1>4 DEF Runs
<1>. QED  BY <1>5 DEF t

LEMMA Path6 ==
  ASSUME NEW a, NEW b, NEW c, NEW d, NEW e, NEW f,
         NEW p0 \in Place, NEW p1 \in Place, NEW p2 \in Place,
         NEW p3 \in Place, NEW p4 \in Place, NEW p5 \in Place,
         NEW p6 \in Place,
         Leads(a, p0, p1), Leads(b, p1, p2), Leads(c, p2, p3),
         Leads(d, p3, p4), Leads(e, p4, p5), Leads(f, p5, p6)
  PROVE  Runs(<<a, b, c, d, e, f>>, p0, p6)
<1>. DEFINE t == <<a, b, c, d, e, f>>
            w == <<p0, p1, p2, p3, p4, p5, p6>>
<1>0. Row(t)
  <2>1. t \in Seq({a, b, c, d, e, f})
    OBVIOUS
  <2>. QED  BY <2>1, SequenceIsRow
<1>1. Len(t) = 6 /\ w \in [1..7 -> Place]
  OBVIOUS
<1>2. w[1] = p0 /\ w[7] = p6
  OBVIOUS
<1>3. \A i \in 1..6 : Leads(t[i], w[i], w[i + 1])
  OBVIOUS
<1>. HIDE DEF t, w
<1>4. Way(t, w)
  BY <1>1, <1>3 DEF Way
<1>5. Runs(t, p0, p6)
  BY <1>0, <1>1, <1>2, <1>4 DEF Runs
<1>. QED  BY <1>5 DEF t

LEMMA Path7 ==
  ASSUME NEW a, NEW b, NEW c, NEW d, NEW e, NEW f, NEW g,
         NEW p0 \in Place, NEW p1 \in Place, NEW p2 \in Place,
         NEW p3 \in Place, NEW p4 \in Place, NEW p5 \in Place,
         NEW p6 \in Place, NEW p7 \in Place,
         Leads(a, p0, p1), Leads(b, p1, p2), Leads(c, p2, p3),
         Leads(d, p3, p4), Leads(e, p4, p5), Leads(f, p5, p6),
         Leads(g, p6, p7)
  PROVE  Runs(<<a, b, c, d, e, f, g>>, p0, p7)
<1>. DEFINE t == <<a, b, c, d, e, f, g>>
            w == <<p0, p1, p2, p3, p4, p5, p6, p7>>
<1>0. Row(t)
  <2>1. t \in Seq({a, b, c, d, e, f, g})
    OBVIOUS
  <2>. QED  BY <2>1, SequenceIsRow
<1>1. Len(t) = 7 /\ w \in [1..8 -> Place]
  OBVIOUS
<1>2. w[1] = p0 /\ w[8] = p7
  OBVIOUS
<1>3. \A i \in 1..7 : Leads(t[i], w[i], w[i + 1])
  OBVIOUS
<1>. HIDE DEF t, w
<1>4. Way(t, w)
  BY <1>1, <1>3 DEF Way
<1>5. Runs(t, p0, p7)
  BY <1>0, <1>1, <1>2, <1>4 DEF Runs
<1>. QED  BY <1>5 DEF t

LEMMA Path8 ==
  ASSUME NEW a, NEW b, NEW c, NEW d, NEW e, NEW f, NEW g, NEW h,
         NEW p0 \in Place, NEW p1 \in Place, NEW p2 \in Place,
         NEW p3 \in Place, NEW p4 \in Place, NEW p5 \in Place,
         NEW p6 \in Place, NEW p7 \in Place, NEW p8 \in Place,
         Leads(a, p0, p1), Leads(b, p1, p2), Leads(c, p2, p3),
         Leads(d, p3, p4), Leads(e, p4, p5), Leads(f, p5, p6),
         Leads(g, p6, p7), Leads(h, p7, p8)
  PROVE  Runs(<<a, b, c, d, e, f, g, h>>, p0, p8)
<1>. DEFINE t == <<a, b, c, d, e, f, g, h>>
            w == <<p0, p1, p2, p3, p4, p5, p6, p7, p8>>
<1>0. Row(t)
  <2>1. t \in Seq({a, b, c, d, e, f, g, h})
    OBVIOUS
  <2>. QED  BY <2>1, SequenceIsRow
<1>1. Len(t) = 8 /\ w \in [1..9 -> Place]
  OBVIOUS
<1>2. w[1] = p0 /\ w[9] = p8
  OBVIOUS
<1>3. \A i \in 1..8 : Leads(t[i], w[i], w[i + 1])
  OBVIOUS
<1>. HIDE DEF t, w
<1>4. Way(t, w)
  BY <1>1, <1>3 DEF Way
<1>5. Runs(t, p0, p8)
  BY <1>0, <1>1, <1>2, <1>4 DEF Runs
<1>. QED  BY <1>5 DEF t

LEMMA Path10 ==
  ASSUME NEW a, NEW b, NEW c, NEW d, NEW e, NEW f, NEW g, NEW h, NEW i, NEW j,
         NEW p0 \in Place, NEW p1 \in Place, NEW p2 \in Place,
         NEW p3 \in Place, NEW p4 \in Place, NEW p5 \in Place,
         NEW p6 \in Place, NEW p7 \in Place, NEW p8 \in Place,
         NEW p9 \in Place, NEW p10 \in Place,
         Leads(a, p0, p1), Leads(b, p1, p2), Leads(c, p2, p3),
         Leads(d, p3, p4), Leads(e, p4, p5), Leads(f, p5, p6),
         Leads(g, p6, p7), Leads(h, p7, p8), Leads(i, p8, p9),
         Leads(j, p9, p10)
  PROVE  Runs(<<a, b, c, d, e, f, g, h, i, j>>, p0, p10)
<1>. DEFINE t == <<a, b, c, d, e, f, g, h, i, j>>
            w == <<p0, p1, p2, p3, p4, p5, p6, p7, p8, p9, p10>>
<1>0. Row(t)
  <2>1. t \in Seq({a, b, c, d, e, f, g, h, i, j})
    OBVIOUS
  <2>. QED  BY <2>1, SequenceIsRow
<1>1. Len(t) = 10 /\ w \in [1..11 -> Place]
  OBVIOUS
<1>2. w[1] = p0 /\ w[11] = p10
  OBVIOUS
<1>3. \A k \in 1..10 : Leads(t[k], w[k], w[k + 1])
  OBVIOUS
<1>. HIDE DEF t, w
<1>4. Way(t, w)
  BY <1>1, <1>3 DEF Way
<1>5. Runs(t, p0, p10)
  BY <1>0, <1>1, <1>2, <1>4 DEF Runs
<1>. QED  BY <1>5 DEF t

-----------------------------------------------------------------------------
(***************************************************************************)
(* What the parse functions put in the place of their calls leads where    *)
(* the calls lead.                                                         *)
(***************************************************************************)
Afters   == {"Equal", "other", "unknown"}
After(k) == IF k = "Equal" THEN "Equal" ELSE "other"
Brackets == {"LeftParen", "RightParen", "ArrayAdd", "ArrayRemove"}

\* In a node that has been begun at x, after o more parentheses.
In(x, o, a) == PlaceAt(x.level + 1, x.parts, x.open + o, a)

\* Within a node is a place.
LEMMA InPlace ==
  ASSUME NEW x \in Place, NEW o \in Int, NEW a \in Afters
  PROVE  In(x, o, a) \in Place
BY DEF Place, In, PlaceAt, Afters

\* The weights, kind by kind.
LEMMA Weights ==
  /\ \A k : k \notin Brackets => \A a : Weight(k, a) = 0
  /\ \A a : Weight("RightParen", a) = -1
  /\ \A a : Weight("LeftParen", a) = IF a = "Equal" THEN 0 ELSE 1
  /\ \A a : Weight("ArrayAdd", a) = 1 /\ Weight("ArrayRemove", a) = 1
BY DEF Weight, Brackets

\* Within a node: a token that is no parenthesis,
LEMMA InToken ==
  ASSUME NEW x \in Place, NEW o \in Int, NEW a \in Afters,
         NEW k, k \notin Bad \cup Brackets, NEW b \in {"unknown", After(k)}
  PROVE  /\ Leads(Take(k), In(x, o, a), In(x, o, b))
         /\ Leads(Keep(k), In(x, o, a), In(x, o, b))
BY Weights DEF Leads, Token, Take, Keep, Step, In, PlaceAt, Brackets, After, Place

\* an opening parenthesis after anything but an equals sign,
LEMMA InLeft ==
  ASSUME NEW x \in Place, NEW o \in Int, NEW b \in {"unknown", "other"}
  PROVE  Leads(Take("LeftParen"), In(x, o, "other"), In(x, o + 1, b))
BY Weights DEF Leads, Token, Take, Step, In, PlaceAt, Bad, Place

\* a closing one,
LEMMA InRight ==
  ASSUME NEW x \in Place, NEW o \in Int, NEW a \in Afters, NEW b \in {"unknown", "other"}
  PROVE  Leads(Take("RightParen"), In(x, o, a), In(x, o - 1, b))
BY Weights DEF Leads, Token, Take, Step, In, PlaceAt, Bad, Place

\* and a call.
LEMMA InCall ==
  ASSUME NEW x \in Place, NEW o \in Int, NEW a \in Afters,
         NEW f \in Pieces \cup Lists \cup {"Methods"}, f = "Parenthesis" => a = "Equal"
  PROVE  Leads(Call(f), In(x, o, a), In(x, o, "unknown"))
BY DEF Leads, Calls, Call, Step, In, PlaceAt, Moves, Place

\* What the fields of a place are.
LEMMA NumbersOfPlace ==
  ASSUME NEW x \in Place
  PROVE  /\ x.after \in Afters /\ x.level \in Nat /\ x.level > 0
         /\ x.parts \in Nat /\ x.open \in Int
BY DEF Place, Afters

\* A node is begun,
LEMMA BeginLeads ==
  ASSUME NEW x \in Place
  PROVE  Leads(Begin, x, In(x, 0, x.after))
<1>1. Moves(x, In(x, 0, x.after), x.level + 1, 0)
  BY NumbersOfPlace DEF In, PlaceAt, Moves
<1>. QED  BY <1>1 DEF Leads, Builds, Begin, Step

\* and becomes a part of the one around it.
LEMMA MakeLeads ==
  ASSUME NEW x \in Place, NEW y, Moves(x, y, x.level, 1), y.after = "unknown", NEW a, NEW node
  PROVE  Leads(Make(node), In(x, 0, a), y)
<1>1. In(x, 0, a).level > 1 /\ Moves(In(x, 0, a), y, In(x, 0, a).level - 1, 1)
  BY NumbersOfPlace DEF In, PlaceAt, Moves
<1>. QED  BY <1>1 DEF Leads, Builds, Make, Step

\* The places within a node that the parse functions need.
LEMMA InPlaces ==
  ASSUME NEW x \in Place
  PROVE  /\ In(x, 0, x.after) \in Place
         /\ \A a \in Afters : In(x, 0, a) \in Place /\ In(x, 1, a) \in Place
         /\ In(x, 0, "unknown") \in Place /\ In(x, 0, "other") \in Place
         /\ In(x, 0, "Equal") \in Place /\ In(x, 1, "unknown") \in Place
<1>1. \A o \in Int, a \in Afters : In(x, o, a) \in Place
  BY InPlace
<1>2. \A a \in Afters : In(x, 0, a) \in Place /\ In(x, 1, a) \in Place
  BY <1>1
<1>. QED  BY <1>2, NumbersOfPlace DEF Afters

\* A node with its parts is a part of the node around it.
LEMMA NodeRuns ==
  ASSUME NEW steps, NEW node, NEW x \in Place, NEW y \in Place,
         Moves(x, y, x.level, 1), y.after = "unknown", NEW a \in Afters,
         Runs(steps, In(x, 0, x.after), In(x, 0, a))
  PROVE  Runs(Node(node, steps), x, y)
<1>1. Leads(Begin, x, In(x, 0, x.after)) /\ Leads(Make(node), In(x, 0, a), y)
  BY BeginLeads, MakeLeads
<1>2. In(x, 0, x.after) \in Place /\ In(x, 0, a) \in Place
  BY NumbersOfPlace, InPlace
<1>3. Runs(<<Begin>> \o steps, x, In(x, 0, a))
  BY <1>1, <1>2, StepBefore
<1>4. Runs(<<Make(node)>>, In(x, 0, a), y)
  BY <1>1, <1>2, OneStep
<1>5. Runs((<<Begin>> \o steps) \o <<Make(node)>>, x, y)
  BY <1>3, <1>4, MoreSteps
<1>. QED  BY <1>5 DEF Node

\* A place within a node.
LEMMA InsideNode ==
  ASSUME NEW x \in Place, x.level > 1
  PROVE  \E p \in Place :
           /\ p.level = x.level - 1 /\ p.parts = x.parts /\ p.open = x.open
           /\ x = In(p, 0, x.after)
           /\ \A y \in Place : y.after = "unknown" /\ Moves(x, y, x.level, 0)
                                 => y = In(p, 0, "unknown")
<1>. DEFINE p == PlaceAt(x.level - 1, x.parts, x.open, "unknown")
<1>1. p \in Place
  BY DEF PlaceAt, Place
<1>2. p.level = x.level - 1 /\ p.parts = x.parts /\ p.open = x.open
  BY DEF PlaceAt
<1>. HIDE DEF p
<1>3. In(p, 0, x.after) = PlaceAt(x.level, x.parts, x.open, x.after)
  BY <1>2, NumbersOfPlace DEF In, PlaceAt
<1>4. x = PlaceAt(x.level, x.parts, x.open, x.after)
  BY DEF PlaceAt, Place
<1>5. ASSUME NEW y \in Place, y.after = "unknown", Moves(x, y, x.level, 0)
      PROVE  y = In(p, 0, "unknown")
  <2>1. y = PlaceAt(y.level, y.parts, y.open, y.after)
    BY DEF PlaceAt, Place
  <2>2. y.level = x.level /\ y.parts = x.parts /\ y.open = x.open
    BY <1>5, NumbersOfPlace DEF Moves
  <2>3. In(p, 0, "unknown") = PlaceAt(x.level, x.parts, x.open, "unknown")
    BY <1>2, NumbersOfPlace DEF In, PlaceAt
  <2>. QED  BY <1>5, <2>1, <2>2, <2>3
<1>. QED  BY <1>1, <1>2, <1>3, <1>4, <1>5

\* The nodes of the parse functions, one lemma for each.
LEMMA ScalarRuns ==
  ASSUME NEW x \in Place, NEW y \in Place, Calls(Call("Declaration"), x, y), NEW node,
         NEW type, type \notin Bad \cup Brackets,
         NEW value, value \notin Bad \cup Brackets
  PROVE  Runs(Node(node, <<Take(type), Keep("Identifier"), Take("Equal"), Keep(value),
                           Take("Semicolon")>>), x, y)
<1>0. Moves(x, y, x.level, 1) /\ y.after = "unknown"
  BY DEF Calls, Call, Step, Pieces, Lists
<1>1. Leads(Take(type), In(x, 0, x.after), In(x, 0, "unknown"))
  BY InToken, NumbersOfPlace DEF Afters, After, Bad, Brackets
<1>2. Leads(Keep("Identifier"), In(x, 0, "unknown"), In(x, 0, "unknown"))
  BY InToken DEF Afters, After, Bad, Brackets
<1>3. Leads(Take("Equal"), In(x, 0, "unknown"), In(x, 0, "unknown"))
  BY InToken DEF Afters, After, Bad, Brackets
<1>4. Leads(Keep(value), In(x, 0, "unknown"), In(x, 0, "unknown"))
  BY InToken DEF Afters, After, Bad, Brackets
<1>5. Leads(Take("Semicolon"), In(x, 0, "unknown"), In(x, 0, "unknown"))
  BY InToken DEF Afters, After, Bad, Brackets
<1>r. Runs(<<Take(type), Keep("Identifier"), Take("Equal"), Keep(value),
             Take("Semicolon")>>,
           In(x, 0, x.after), In(x, 0, "unknown"))
  BY <1>1, <1>2, <1>3, <1>4, <1>5, InPlaces, Path5
<1>. QED  BY <1>0, <1>r, NodeRuns DEF Afters

LEMMA BoolDeclarationRuns ==
  ASSUME NEW x \in Place, NEW y \in Place, Calls(Call("BoolDeclaration"), x, y)
  PROVE  Runs(Node("bool", <<Take("Bool"), Keep("Identifier"), Take("Equal"),
                             Call("Truth"), Take("Semicolon")>>), x, y)
<1>0. Moves(x, y, x.level, 1) /\ y.after = "unknown"
  BY DEF Calls, Call, Step, Pieces, Lists
<1>1. Leads(Take("Bool"), In(x, 0, x.after), In(x, 0, "unknown"))
  BY InToken, NumbersOfPlace DEF Afters, After, Bad, Brackets
<1>2. Leads(Keep("Identifier"), In(x, 0, "unknown"), In(x, 0, "unknown"))
  BY InToken DEF Afters, After, Bad, Brackets
<1>3. Leads(Take("Equal"), In(x, 0, "unknown"), In(x, 0, "unknown"))
  BY InToken DEF Afters, After, Bad, Brackets
<1>4. Leads(Call("Truth"), In(x, 0, "unknown"), In(x, 0, "unknown"))
  BY InCall DEF Afters, Pieces, Lists
<1>5. Leads(Take("Semicolon"), In(x, 0, "unknown"), In(x, 0, "unknown"))
  BY InToken DEF Afters, After, Bad, Brackets
<1>r. Runs(<<Take("Bool"), Keep("Identifier"), Take("Equal"), Call("Truth"),
             Take("Semicolon")>>,
           In(x, 0, x.after), In(x, 0, "unknown"))
  BY <1>1, <1>2, <1>3, <1>4, <1>5, InPlaces, Path5
<1>. QED  BY <1>0, <1>r, NodeRuns DEF Afters

LEMMA ArrayDeclarationRuns ==
  ASSUME NEW x \in Place, NEW y \in Place, Calls(Call("ArrayDeclaration"), x, y)
  PROVE  Runs(Node("array", <<Take("Int"), Take("Array"), Keep("Identifier"),
                              Take("Equal"), Take("LeftCurly"), Call("Elements"),
                              Take("RightCurly"), Take("Semicolon")>>), x, y)
<1>0. Moves(x, y, x.level, 1) /\ y.after = "unknown"
  BY DEF Calls, Call, Step, Pieces, Lists
<1>1. Leads(Take("Int"), In(x, 0, x.after), In(x, 0, "unknown"))
  BY InToken, NumbersOfPlace DEF Afters, After, Bad, Brackets
<1>2. Leads(Take("Array"), In(x, 0, "unknown"), In(x, 0, "unknown"))
  BY InToken DEF Afters, After, Bad, Brackets
<1>3. Leads(Keep("Identifier"), In(x, 0, "unknown"), In(x, 0, "unknown"))
  BY InToken DEF Afters, After, Bad, Brackets
<1>4. Leads(Take("Equal"), In(x, 0, "unknown"), In(x, 0, "unknown"))
  BY InToken DEF Afters, After, Bad, Brackets
<1>5. Leads(Take("LeftCurly"), In(x, 0, "unknown"), In(x, 0, "unknown"))
  BY InToken DEF Afters, After, Bad, Brackets
<1>6. Leads(Call("Elements"), In(x, 0, "unknown"), In(x, 0, "unknown"))
  BY InCall DEF Afters, Pieces, Lists
<1>7. Leads(Take("RightCurly"), In(x, 0, "unknown"), In(x, 0, "unknown"))
  BY InToken DEF Afters, After, Bad, Brackets
<1>8. Leads(Take("Semicolon"), In(x, 0, "unknown"), In(x, 0, "unknown"))
  BY InToken DEF Afters, After, Bad, Brackets
<1>r. Runs(<<Take("Int"), Take("Array"), Keep("Identifier"), Take("Equal"),
             Take("LeftCurly"), Call("Elements"), Take("RightCurly"), Take("Semicolon")>>,
           In(x, 0, x.after), In(x, 0, "unknown"))
  BY <1>1, <1>2, <1>3, <1>4, <1>5, <1>6, <1>7, <1>8, InPlaces, Path8
<1>. QED  BY <1>0, <1>r, NodeRuns DEF Afters

LEMMA AssignmentRuns ==
  ASSUME NEW x \in Place, NEW y \in Place, Calls(Call("Assignment"), x, y)
  PROVE  Runs(Node("assign", <<Keep("Identifier"), Take("Equal"), Call("Parenthesis"),
                               Call("Expression"), Take("Semicolon")>>), x, y)
<1>0. Moves(x, y, x.level, 1) /\ y.after = "unknown"
  BY DEF Calls, Call, Step, Pieces, Lists
<1>1. Leads(Keep("Identifier"), In(x, 0, x.after), In(x, 0, "unknown"))
  BY InToken, NumbersOfPlace DEF Afters, After, Bad, Brackets
<1>2. Leads(Take("Equal"), In(x, 0, "unknown"), In(x, 0, "Equal"))
  BY InToken DEF Afters, After, Bad, Brackets
<1>3. Leads(Call("Parenthesis"), In(x, 0, "Equal"), In(x, 0, "unknown"))
  BY InCall DEF Afters, Pieces, Lists
<1>4. Leads(Call("Expression"), In(x, 0, "unknown"), In(x, 0, "unknown"))
  BY InCall DEF Afters, Pieces, Lists
<1>5. Leads(Take("Semicolon"), In(x, 0, "unknown"), In(x, 0, "unknown"))
  BY InToken DEF Afters, After, Bad, Brackets
<1>r. Runs(<<Keep("Identifier"), Take("Equal"), Call("Parenthesis"), Call("Expression"),
             Take("Semicolon")>>,
           In(x, 0, x.after), In(x, 0, "unknown"))
  BY <1>1, <1>2, <1>3, <1>4, <1>5, InPlaces, Path5
<1>. QED  BY <1>0, <1>r, NodeRuns DEF Afters

LEMMA UnaryRuns ==
  ASSUME NEW x \in Place, NEW y \in Place, Calls(Call("Unary"), x, y),
         NEW sign, sign \notin Bad \cup Brackets
  PROVE  Runs(Node("unary", <<Keep(sign), Call("Primary")>>), x, y)
<1>0. Moves(x, y, x.level, 1) /\ y.after = "unknown"
  BY DEF Calls, Call, Step, Pieces, Lists
<1>1. Leads(Keep(sign), In(x, 0, x.after), In(x, 0, "unknown"))
  BY InToken, NumbersOfPlace DEF Afters, After, Bad, Brackets
<1>2. Leads(Call("Primary"), In(x, 0, "unknown"), In(x, 0, "unknown"))
  BY InCall DEF Afters, Pieces, Lists
<1>r. Runs(<<Keep(sign), Call("Primary")>>,
           In(x, 0, x.after), In(x, 0, "unknown"))
  BY <1>1, <1>2, InPlaces, Path2
<1>. QED  BY <1>0, <1>r, NodeRuns DEF Afters

LEMMA BinaryRuns ==
  ASSUME NEW x \in Place, NEW y \in Place, Calls(Call("Binary"), x, y)
  PROVE  Runs(Node("binary", <<Call("Unary"), Call("Operator"), Call("Unary")>>), x, y)
<1>0. Moves(x, y, x.level, 1) /\ y.after = "unknown"
  BY DEF Calls, Call, Step, Pieces, Lists
<1>1. Leads(Call("Unary"), In(x, 0, x.after), In(x, 0, "unknown"))
  BY InCall, NumbersOfPlace DEF Afters, Pieces, Lists
<1>2. Leads(Call("Operator"), In(x, 0, "unknown"), In(x, 0, "unknown"))
  BY InCall DEF Afters, Pieces, Lists
<1>3. Leads(Call("Unary"), In(x, 0, "unknown"), In(x, 0, "unknown"))
  BY InCall DEF Afters, Pieces, Lists
<1>r. Runs(<<Call("Unary"), Call("Operator"), Call("Unary")>>,
           In(x, 0, x.after), In(x, 0, "unknown"))
  BY <1>1, <1>2, <1>3, InPlaces, Path3
<1>. QED  BY <1>0, <1>r, NodeRuns DEF Afters

LEMMA PrimaryRuns ==
  ASSUME NEW x \in Place, NEW y \in Place, Calls(Call("Primary"), x, y),
         NEW word, word \notin Bad \cup Brackets
  PROVE  Runs(Node("primary", <<Keep(word)>>), x, y)
<1>0. Moves(x, y, x.level, 1) /\ y.after = "unknown"
  BY DEF Calls, Call, Step, Pieces, Lists
<1>1. Leads(Keep(word), In(x, 0, x.after), In(x, 0, "unknown"))
  BY InToken, NumbersOfPlace DEF Afters, After, Bad, Brackets
<1>r. Runs(<<Keep(word)>>,
           In(x, 0, x.after), In(x, 0, "unknown"))
  BY <1>1, InPlaces, OneStep
<1>. QED  BY <1>0, <1>r, NodeRuns DEF Afters

LEMMA PrintRuns ==
  ASSUME NEW x \in Place, NEW y \in Place, Calls(Call("Statement"), x, y)
  PROVE  Runs(Node("print", <<Take("Log"), Take("LeftParen"), Call("Unary"),
                              Take("RightParen"), Take("Semicolon")>>), x, y)
<1>0. Moves(x, y, x.level, 1) /\ y.after = "unknown"
  BY DEF Calls, Call, Step, Pieces, Lists
<1>1. Leads(Take("Log"), In(x, 0, x.after), In(x, 0, "other"))
  BY InToken, NumbersOfPlace DEF Afters, After, Bad, Brackets
<1>2. Leads(Take("LeftParen"), In(x, 0, "other"), In(x, 1, "unknown"))
  BY InLeft DEF Afters
<1>3. Leads(Call("Unary"), In(x, 1, "unknown"), In(x, 1, "unknown"))
  BY InCall DEF Afters, Pieces, Lists
<1>4. Leads(Take("RightParen"), In(x, 1, "unknown"), In(x, 0, "unknown"))
  BY InRight DEF Afters
<1>5. Leads(Take("Semicolon"), In(x, 0, "unknown"), In(x, 0, "unknown"))
  BY InToken DEF Afters, After, Bad, Brackets
<1>r. Runs(<<Take("Log"), Take("LeftParen"), Call("Unary"), Take("RightParen"),
             Take("Semicolon")>>,
           In(x, 0, x.after), In(x, 0, "unknown"))
  BY <1>1, <1>2, <1>3, <1>4, <1>5, InPlaces, Path5
<1>. QED  BY <1>0, <1>r, NodeRuns DEF Afters

LEMMA ReturnRuns ==
  ASSUME NEW x \in Place, NEW y \in Place, Calls(Call("Statement"), x, y)
  PROVE  Runs(Node("return", <<Take("Return"), Take("LeftParen"), Call("Unary"),
                               Take("RightParen"), Take("Semicolon")>>), x, y)
<1>0. Moves(x, y, x.level, 1) /\ y.after = "unknown"
  BY DEF Calls, Call, Step, Pieces, Lists
<1>1. Leads(Take("Return"), In(x, 0, x.after), In(x, 0, "other"))
  BY InToken, NumbersOfPlace DEF Afters, After, Bad, Brackets
<1>2. Leads(Take("LeftParen"), In(x, 0, "other"), In(x, 1, "unknown"))
  BY InLeft DEF Afters
<1>3. Leads(Call("Unary"), In(x, 1, "unknown"), In(x, 1, "unknown"))
  BY InCall DEF Afters, Pieces, Lists
<1>4. Leads(Take("RightParen"), In(x, 1, "unknown"), In(x, 0, "unknown"))
  BY InRight DEF Afters
<1>5. Leads(Take("Semicolon"), In(x, 0, "unknown"), In(x, 0, "unknown"))
  BY InToken DEF Afters, After, Bad, Brackets
<1>r. Runs(<<Take("Return"), Take("LeftParen"), Call("Unary"), Take("RightParen"),
             Take("Semicolon")>>,
           In(x, 0, x.after), In(x, 0, "unknown"))
  BY <1>1, <1>2, <1>3, <1>4, <1>5, InPlaces, Path5
<1>. QED  BY <1>0, <1>r, NodeRuns DEF Afters

LEMMA IfRuns ==
  ASSUME NEW x \in Place, NEW y \in Place, Calls(Call("Statement"), x, y)
  PROVE  Runs(Node("if", <<Take("If"), Take("LeftParen"), Call("Expression"),
                           Take("RightParen"), Call("Block"), Call("Else")>>), x, y)
<1>0. Moves(x, y, x.level, 1) /\ y.after = "unknown"
  BY DEF Calls, Call, Step, Pieces, Lists
<1>1. Leads(Take("If"), In(x, 0, x.after), In(x, 0, "other"))
  BY InToken, NumbersOfPlace DEF Afters, After, Bad, Brackets
<1>2. Leads(Take("LeftParen"), In(x, 0, "other"), In(x, 1, "unknown"))
  BY InLeft DEF Afters
<1>3. Leads(Call("Expression"), In(x, 1, "unknown"), In(x, 1, "unknown"))
  BY InCall DEF Afters, Pieces, Lists
<1>4. Leads(Take("RightParen"), In(x, 1, "unknown"), In(x, 0, "unknown"))
  BY InRight DEF Afters
<1>5. Leads(Call("Block"), In(x, 0, "unknown"), In(x, 0, "unknown"))
  BY InCall DEF Afters, Pieces, Lists
<1>6. Leads(Call("Else"), In(x, 0, "unknown"), In(x, 0, "unknown"))
  BY InCall DEF Afters, Pieces, Lists
<1>r. Runs(<<Take("If"), Take("LeftParen"), Call("Expression"), Take("RightParen"),
             Call("Block"), Call("Else")>>,
           In(x, 0, x.after), In(x, 0, "unknown"))
  BY <1>1, <1>2, <1>3, <1>4, <1>5, <1>6, InPlaces, Path6
<1>. QED  BY <1>0, <1>r, NodeRuns DEF Afters

LEMMA StatementRuns ==
  ASSUME NEW x \in Place, NEW y \in Place, Calls(Call("Statement"), x, y)
  PROVE  Runs(Node("statement", <<Call("Expression")>>), x, y)
<1>0. Moves(x, y, x.level, 1) /\ y.after = "unknown"
  BY DEF Calls, Call, Step, Pieces, Lists
<1>1. Leads(Call("Expression"), In(x, 0, x.after), In(x, 0, "unknown"))
  BY InCall, NumbersOfPlace DEF Afters, Pieces, Lists
<1>r. Runs(<<Call("Expression")>>,
           In(x, 0, x.after), In(x, 0, "unknown"))
  BY <1>1, InPlaces, OneStep
<1>. QED  BY <1>0, <1>r, NodeRuns DEF Afters

LEMMA BlockRuns ==
  ASSUME NEW x \in Place, NEW y \in Place, Calls(Call("Block"), x, y)
  PROVE  Runs(Node("block", <<Take("LeftCurly"), Call("Statements"),
                              Take("RightCurly")>>), x, y)
<1>0. Moves(x, y, x.level, 1) /\ y.after = "unknown"
  BY DEF Calls, Call, Step, Pieces, Lists
<1>1. Leads(Take("LeftCurly"), In(x, 0, x.after), In(x, 0, "unknown"))
  BY InToken, NumbersOfPlace DEF Afters, After, Bad, Brackets
<1>2. Leads(Call("Statements"), In(x, 0, "unknown"), In(x, 0, "unknown"))
  BY InCall DEF Afters, Pieces, Lists
<1>3. Leads(Take("RightCurly"), In(x, 0, "unknown"), In(x, 0, "unknown"))
  BY InToken DEF Afters, After, Bad, Brackets
<1>r. Runs(<<Take("LeftCurly"), Call("Statements"), Take("RightCurly")>>,
           In(x, 0, x.after), In(x, 0, "unknown"))
  BY <1>1, <1>2, <1>3, InPlaces, Path3
<1>. QED  BY <1>0, <1>r, NodeRuns DEF Afters

LEMMA FunctionDefinitionRuns ==
  ASSUME NEW x \in Place, NEW y \in Place, Calls(Call("FunctionDefinition"), x, y)
  PROVE  Runs(Node("function", <<Take("Function"), Keep("Identifier"), Take("LeftParen"),
                                 Call("Parameters"), Take("RightParen"), Take("Arrow"),
                                 Call("ReturnType"), Take("LeftCurly"),
                                 Call("Statements"), Take("RightCurly")>>), x, y)
<1>0. Moves(x, y, x.level, 1) /\ y.after = "unknown"
  BY DEF Calls, Call, Step, Pieces, Lists
<1>1. Leads(Take("Function"), In(x, 0, x.after), In(x, 0, "unknown"))
  BY InToken, NumbersOfPlace DEF Afters, After, Bad, Brackets
<1>2. Leads(Keep("Identifier"), In(x, 0, "unknown"), In(x, 0, "other"))
  BY InToken DEF Afters, After, Bad, Brackets
<1>3. Leads(Take("LeftParen"), In(x, 0, "other"), In(x, 1, "unknown"))
  BY InLeft DEF Afters
<1>4. Leads(Call("Parameters"), In(x, 1, "unknown"), In(x, 1, "unknown"))
  BY InCall DEF Afters, Pieces, Lists
<1>5. Leads(Take("RightParen"), In(x, 1, "unknown"), In(x, 0, "unknown"))
  BY InRight DEF Afters
<1>6. Leads(Take("Arrow"), In(x, 0, "unknown"), In(x, 0, "unknown"))
  BY InToken DEF Afters, After, Bad, Brackets
<1>7. Leads(Call("ReturnType"), In(x, 0, "unknown"), In(x, 0, "unknown"))
  BY InCall DEF Afters, Pieces, Lists
<1>8. Leads(Take("LeftCurly"), In(x, 0, "unknown"), In(x, 0, "unknown"))
  BY InToken DEF Afters, After, Bad, Brackets
<1>9. Leads(Call("Statements"), In(x, 0, "unknown"), In(x, 0, "unknown"))
  BY InCall DEF Afters, Pieces, Lists
<1>10. Leads(Take("RightCurly"), In(x, 0, "unknown"), In(x, 0, "unknown"))
  BY InToken DEF Afters, After, Bad, Brackets
<1>r. Runs(<<Take("Function"), Keep("Identifier"), Take("LeftParen"), Call("Parameters"),
             Take("RightParen"), Take("Arrow"), Call("ReturnType"), Take("LeftCurly"),
             Call("Statements"), Take("RightCurly")>>,
           In(x, 0, x.after), In(x, 0, "unknown"))
  BY <1>1, <1>2, <1>3, <1>4, <1>5, <1>6, <1>7, <1>8, <1>9, <1>10, InPlaces, Path10
<1>. QED  BY <1>0, <1>r, NodeRuns DEF Afters

LEMMA FunctionCallRuns ==
  ASSUME NEW x \in Place, NEW y \in Place, Calls(Call("FunctionCall"), x, y)
  PROVE  Runs(Node("call", <<Take("Call"), Keep("Identifier"), Take("LeftParen"),
                             Call("Arguments"), Take("RightParen"), Take("Semicolon")>>), x, y)
<1>0. Moves(x, y, x.level, 1) /\ y.after = "unknown"
  BY DEF Calls, Call, Step, Pieces, Lists
<1>1. Leads(Take("Call"), In(x, 0, x.after), In(x, 0, "unknown"))
  BY InToken, NumbersOfPlace DEF Afters, After, Bad, Brackets
<1>2. Leads(Keep("Identifier"), In(x, 0, "unknown"), In(x, 0, "other"))
  BY InToken DEF Afters, After, Bad, Brackets
<1>3. Leads(Take("LeftParen"), In(x, 0, "other"), In(x, 1, "unknown"))
  BY InLeft DEF Afters
<1>4. Leads(Call("Arguments"), In(x, 1, "unknown"), In(x, 1, "unknown"))
  BY InCall DEF Afters, Pieces, Lists
<1>5. Leads(Take("RightParen"), In(x, 1, "unknown"), In(x, 0, "unknown"))
  BY InRight DEF Afters
<1>6. Leads(Take("Semicolon"), In(x, 0, "unknown"), In(x, 0, "unknown"))
  BY InToken DEF Afters, After, Bad, Brackets
<1>r. Runs(<<Take("Call"), Keep("Identifier"), Take("LeftParen"), Call("Arguments"),
             Take("RightParen"), Take("Semicolon")>>,
           In(x, 0, x.after), In(x, 0, "unknown"))
  BY <1>1, <1>2, <1>3, <1>4, <1>5, <1>6, InPlaces, Path6
<1>. QED  BY <1>0, <1>r, NodeRuns DEF Afters

\* One call by another.
LEMMA PieceRuns ==
  ASSUME NEW x \in Place, NEW y \in Place, NEW f \in Pieces, NEW g \in Pieces,
         Calls(Call(f), x, y)
  PROVE  Runs(<<Call(g)>>, x, y)
<1>1. y.after = "unknown" /\ Moves(x, y, x.level, 1)
  BY DEF Calls, Call, Step, Pieces, Lists
<1>2. Leads(Call(g), x, y)
  BY <1>1 DEF Leads, Calls, Call, Step
<1>. QED  BY <1>2, OneStep

Fillers == Lists \ {"Parenthesis"}

\* A call that fills the open node stays within it.
LEMMA Filling ==
  ASSUME NEW x \in Place, NEW y \in Place, NEW f \in Lists, Calls(Call(f), x, y)
  PROVE  \E p \in Place : x = In(p, 0, x.after) /\ y = In(p, 0, "unknown")
<1>1. x.level > 1 /\ y.after = "unknown" /\ Moves(x, y, x.level, 0)
  BY DEF Calls, Call, Step, Pieces, Lists
<1>. QED  BY <1>1, InsideNode

\* So does any call within a node that needs no equals sign before it.
LEMMA InPart ==
  ASSUME NEW x \in Place, NEW a \in Afters, NEW f \in Pieces \cup Fillers
  PROVE  Leads(Call(f), In(x, 0, a), In(x, 0, "unknown"))
<1>1. f \in Pieces \cup Lists /\ f # "Parenthesis"
  BY DEF Fillers, Pieces
<1>. QED  BY <1>1, InCall

\* One token in the place of such a call.
LEMMA KeepRuns ==
  ASSUME NEW x \in Place, NEW y \in Place, NEW f \in Lists, Calls(Call(f), x, y),
         NEW k, k \notin Bad \cup Brackets
  PROVE  Runs(<<Keep(k)>>, x, y)
<1>1. PICK p \in Place : x = In(p, 0, x.after) /\ y = In(p, 0, "unknown")
  BY Filling
<1>2. Leads(Keep(k), In(p, 0, x.after), In(p, 0, "unknown"))
  BY InToken, NumbersOfPlace
<1>. QED  BY <1>1, <1>2, OneStep

\* The parenthesis of an assignment, which follows its equals sign.
LEMMA ParenthesisRuns ==
  ASSUME NEW x \in Place, NEW y \in Place, Calls(Call("Parenthesis"), x, y)
  PROVE  Runs(<<Take("LeftParen")>>, x, y)
<1>1. /\ x.level > 1 /\ x.after = "Equal"
      /\ y.after = "unknown" /\ Moves(x, y, x.level, 0)
  BY DEF Calls, Call, Step, Pieces, Lists
<1>2. Leads(Take("LeftParen"), x, y)
  BY <1>1, NumbersOfPlace, Weights DEF Leads, Token, Take, Step, Bad, Moves
<1>. QED  BY <1>2, OneStep

\* A list with one thing more in it.
LEMMA ListRuns ==
  ASSUME NEW x \in Place, NEW y \in Place, NEW f \in Lists, Calls(Call(f), x, y),
         NEW g \in Pieces \cup Fillers, NEW h \in Pieces \cup Fillers
  PROVE  Runs(<<Call(g), Call(h)>>, x, y)
<1>1. PICK p \in Place : x = In(p, 0, x.after) /\ y = In(p, 0, "unknown")
  BY Filling
<1>2. Leads(Call(g), In(p, 0, x.after), In(p, 0, "unknown"))
  BY InPart, NumbersOfPlace
<1>3. Leads(Call(h), In(p, 0, "unknown"), In(p, 0, "unknown"))
  BY InPart DEF Afters
<1>. QED  BY <1>1, <1>2, <1>3, InPlaces, Path2

\* A token, and the rest of the list.
LEMMA TokenAndListRuns ==
  ASSUME NEW x \in Place, NEW y \in Place, NEW f \in Lists, Calls(Call(f), x, y),
         NEW k, k \notin Bad \cup Brackets, NEW h \in Pieces \cup Fillers
  PROVE  Runs(<<Take(k), Call(h)>>, x, y)
<1>1. PICK p \in Place : x = In(p, 0, x.after) /\ y = In(p, 0, "unknown")
  BY Filling
<1>2. Leads(Take(k), In(p, 0, x.after), In(p, 0, "unknown"))
  BY InToken, NumbersOfPlace
<1>3. Leads(Call(h), In(p, 0, "unknown"), In(p, 0, "unknown"))
  BY InPart DEF Afters
<1>. QED  BY <1>1, <1>2, <1>3, InPlaces, Path2

\* Within the node of the parameter.
LEMMA ParameterRuns ==
  ASSUME NEW x \in Place, NEW y \in Place, Calls(Call("Parameters"), x, y),
         NEW s, s = Look \/ \E k : k \notin Bad \cup Brackets /\ s = Keep(k)
  PROVE  Runs(<<Begin, s, Take("Colon"), Keep("Identifier"), Make("parameter"),
                Call("MoreParameters")>>, x, y)
<1>1. PICK p \in Place : x = In(p, 0, x.after) /\ y = In(p, 0, "unknown")
  BY Filling DEF Lists
<1>2. Leads(Begin, x, In(x, 0, x.after))
  BY BeginLeads
<1>3. Leads(s, In(x, 0, x.after), In(x, 0, "unknown"))
  <2>1. CASE s = Look
    <3>1. In(x, 0, x.after).level > 1
          /\ Moves(In(x, 0, x.after), In(x, 0, "unknown"), In(x, 0, x.after).level, 0)
      BY NumbersOfPlace DEF In, PlaceAt, Moves
    <3>. QED  BY <2>1, <3>1 DEF Leads, Builds, Look, Step
  <2>2. CASE \E k : k \notin Bad \cup Brackets /\ s = Keep(k)
    BY <2>2, InToken, NumbersOfPlace
  <2>. QED  BY <2>1, <2>2
<1>4. Leads(Take("Colon"), In(x, 0, "unknown"), In(x, 0, "unknown"))
  BY InToken DEF Afters, Bad, Brackets
<1>5. Leads(Keep("Identifier"), In(x, 0, "unknown"), In(x, 0, "unknown"))
  BY InToken DEF Afters, Bad, Brackets
<1>6. Leads(Make("parameter"), In(x, 0, "unknown"), y)
  <2>1. x.level > 1 /\ y.after = "unknown" /\ Moves(x, y, x.level, 0)
    BY DEF Calls, Call, Step, Pieces, Lists
  <2>2. Moves(x, y, x.level, 1)
    BY <2>1 DEF Moves
  <2>. QED  BY <2>1, <2>2, MakeLeads
<1>7. Leads(Call("MoreParameters"), y, y)
  BY <1>1, InCall DEF Lists, Afters
<1>. QED  BY <1>2, <1>3, <1>4, <1>5, <1>6, <1>7, InPlaces, Path6

\* A method call takes the part before it into its own node.
LEMMA Wrapping ==
  ASSUME NEW x \in Place, NEW y \in Place, Calls(Call("Methods"), x, y)
  PROVE  \E p \in Place :
           /\ Leads(Wrap, x, In(p, 0, x.after))
           /\ \A node, a : Leads(Make(node), In(p, 0, a), y)
           /\ Leads(Call("Methods"), y, y)
<1>1. /\ x.level = 1 => x.parts > 0
      /\ y.after = "unknown" /\ Moves(x, y, x.level, 0)
  BY DEF Calls, Call, Step, Pieces, Lists
<1>. DEFINE p == PlaceAt(x.level, x.parts - (IF x.level = 1 THEN 1 ELSE 0), x.open, "unknown")
<1>2. p \in Place
  BY <1>1, NumbersOfPlace DEF Place, PlaceAt
<1>3. /\ p.level = x.level /\ p.open = x.open
      /\ p.parts = x.parts - (IF x.level = 1 THEN 1 ELSE 0)
  BY DEF PlaceAt
<1>. HIDE DEF p
<1>4. Leads(Wrap, x, In(p, 0, x.after))
  <2>1. /\ In(p, 0, x.after).level = x.level + 1 /\ In(p, 0, x.after).open = x.open
        /\ In(p, 0, x.after).parts = x.parts - (IF x.level = 1 THEN 1 ELSE 0)
        /\ In(p, 0, x.after).after = x.after
    BY <1>3, NumbersOfPlace DEF In, PlaceAt
  <2>. QED  BY <1>1, <2>1 DEF Leads, Builds, Wrap, Step
<1>5. Moves(p, y, p.level, 1)
  BY <1>1, <1>3, NumbersOfPlace DEF Moves
<1>6. \A node, a : Leads(Make(node), In(p, 0, a), y)
  BY <1>1, <1>2, <1>5, MakeLeads
<1>7. Leads(Call("Methods"), y, y)
  <2>1. (y.level = 1 => y.parts > 0) /\ Moves(y, y, y.level, 0)
    BY <1>1, NumbersOfPlace DEF Moves
  <2>. QED  BY <1>1, <2>1 DEF Leads, Calls, Call, Step
<1>. QED  BY <1>2, <1>4, <1>6, <1>7

\* The name of a method opens its parenthesis.
LEMMA MethodName ==
  ASSUME NEW p \in Place, NEW a \in Afters, NEW k \in {"ArrayAdd", "ArrayRemove"}
  PROVE  Leads(Take(k), In(p, 0, a), In(p, 1, "unknown"))
BY Weights, NumbersOfPlace DEF Leads, Token, Take, Step, In, PlaceAt, Bad

\* The two methods.
LEMMA AddRuns ==
  ASSUME NEW x \in Place, NEW y \in Place, Calls(Call("Methods"), x, y)
  PROVE  Runs(<<Wrap, Take("ArrayAdd"), Call("Expression"), Take("RightParen"),
                Take("Semicolon"), Make("add"), Call("Methods")>>, x, y)
<1>1. PICK p \in Place : /\ Leads(Wrap, x, In(p, 0, x.after))
                         /\ \A node, a : Leads(Make(node), In(p, 0, a), y)
                         /\ Leads(Call("Methods"), y, y)
  BY Wrapping
<1>2. Leads(Take("ArrayAdd"), In(p, 0, x.after), In(p, 1, "unknown"))
  BY MethodName, NumbersOfPlace
<1>3. Leads(Call("Expression"), In(p, 1, "unknown"), In(p, 1, "unknown"))
  BY InCall DEF Pieces, Afters
<1>4. Leads(Take("RightParen"), In(p, 1, "unknown"), In(p, 0, "unknown"))
  BY InRight DEF Afters
<1>5. Leads(Take("Semicolon"), In(p, 0, "unknown"), In(p, 0, "unknown"))
  BY InToken DEF Afters, Bad, Brackets
<1>6. In(p, 0, x.after) \in Place
  BY InPlaces, NumbersOfPlace
<1>. QED  BY <1>1, <1>2, <1>3, <1>4, <1>5, <1>6, InPlaces, Path7

LEMMA RemoveRuns ==
  ASSUME NEW x \in Place, NEW y \in Place, Calls(Call("Methods"), x, y)
  PROVE  Runs(<<Wrap, Take("ArrayRemove"), Take("RightParen"), Take("Semicolon"),
                Make("remove"), Call("Methods")>>, x, y)
<1>1. PICK p \in Place : /\ Leads(Wrap, x, In(p, 0, x.after))
                         /\ \A node, a : Leads(Make(node), In(p, 0, a), y)
                         /\ Leads(Call("Methods"), y, y)
  BY Wrapping
<1>2. Leads(Take("ArrayRemove"), In(p, 0, x.after), In(p, 1, "unknown"))
  BY MethodName, NumbersOfPlace
<1>3. Leads(Take("RightParen"), In(p, 1, "unknown"), In(p, 0, "unknown"))
  BY InRight DEF Afters
<1>4. Leads(Take("Semicolon"), In(p, 0, "unknown"), In(p, 0, "unknown"))
  BY InToken DEF Afters, Bad, Brackets
<1>5. In(p, 0, x.after) \in Place
  BY InPlaces, NumbersOfPlace
<1>. QED  BY <1>1, <1>2, <1>3, <1>4, <1>5, InPlaces, Path6

\* The node of a loop is begun here and made by what its kind asks for.
LEMMA LoopStatementRuns ==
  ASSUME NEW x \in Place, NEW y \in Place, Calls(Call("LoopStatement"), x, y)
  PROVE  Runs(<<Begin, Take("Loop"), Call("LoopKind")>>, x, y)
<1>0. y.after = "unknown" /\ Moves(x, y, x.level, 1)
  BY DEF Calls, Call, Step, Pieces, Lists
<1>1. Leads(Begin, x, In(x, 0, x.after))
  BY BeginLeads
<1>2. Leads(Take("Loop"), In(x, 0, x.after), In(x, 0, "other"))
  BY InToken, NumbersOfPlace DEF After, Bad, Brackets
<1>3. Leads(Call("LoopKind"), In(x, 0, "other"), y)
  <2>1. /\ In(x, 0, "other").level > 1 /\ In(x, 0, "other").after = "other"
        /\ Moves(In(x, 0, "other"), y, In(x, 0, "other").level - 1, 1)
    BY <1>0, NumbersOfPlace DEF In, PlaceAt, Moves
  <2>. QED  BY <1>0, <2>1 DEF Leads, Calls, Call, Step
<1>. QED  BY <1>1, <1>2, <1>3, InPlaces, Path3

\* Within the node of the loop, after the word loop.
LEMMA LoopKindCall ==
  ASSUME NEW x \in Place, NEW y \in Place, Calls(Call("LoopKind"), x, y)
  PROVE  \E p \in Place : /\ x = In(p, 0, "other")
                          /\ \A node, a : Leads(Make(node), In(p, 0, a), y)
<1>1. /\ x.level > 1 /\ x.after = "other"
      /\ y.after = "unknown" /\ Moves(x, y, x.level - 1, 1)
  BY DEF Calls, Call, Step, Pieces, Lists
<1>2. PICK p \in Place : /\ p.level = x.level - 1 /\ p.parts = x.parts /\ p.open = x.open
                         /\ x = In(p, 0, x.after)
  BY <1>1, InsideNode
<1>3. Moves(p, y, p.level, 1)
  BY <1>1, <1>2 DEF Moves
<1>. QED  BY <1>1, <1>2, <1>3, MakeLeads

\* The two kinds of loop.
LEMMA ForRuns ==
  ASSUME NEW x \in Place, NEW y \in Place, Calls(Call("LoopKind"), x, y)
  PROVE  Runs(<<Take("Range"), Take("LeftParen"), Call("Expression"), Take("Comma"),
                Call("Expression"), Take("RightParen"), Call("Block"), Make("for")>>, x, y)
<1>0. PICK p \in Place : /\ x = In(p, 0, "other")
                         /\ \A node, a : Leads(Make(node), In(p, 0, a), y)
  BY LoopKindCall
<1>1. Leads(Take("Range"), In(p, 0, "other"), In(p, 0, "other"))
  BY InToken DEF Afters, After, Bad, Brackets
<1>2. Leads(Take("LeftParen"), In(p, 0, "other"), In(p, 1, "unknown"))
  BY InLeft DEF Afters
<1>3. Leads(Call("Expression"), In(p, 1, "unknown"), In(p, 1, "unknown"))
  BY InCall DEF Afters, Pieces, Lists
<1>4. Leads(Take("Comma"), In(p, 1, "unknown"), In(p, 1, "unknown"))
  BY InToken DEF Afters, After, Bad, Brackets
<1>5. Leads(Call("Expression"), In(p, 1, "unknown"), In(p, 1, "unknown"))
  BY InCall DEF Afters, Pieces, Lists
<1>6. Leads(Take("RightParen"), In(p, 1, "unknown"), In(p, 0, "unknown"))
  BY InRight DEF Afters
<1>7. Leads(Call("Block"), In(p, 0, "unknown"), In(p, 0, "unknown"))
  BY InCall DEF Afters, Pieces, Lists
<1>. QED  BY <1>0, <1>1, <1>2, <1>3, <1>4, <1>5, <1>6, <1>7, InPlaces, Path8 DEF Afters

LEMMA WhileRuns ==
  ASSUME NEW x \in Place, NEW y \in Place, Calls(Call("LoopKind"), x, y)
  PROVE  Runs(<<Take("LeftParen"), Call("Expression"), Take("RightParen"), Call("Block"),
                Make("while")>>, x, y)
<1>0. PICK p \in Place : /\ x = In(p, 0, "other")
                         /\ \A node, a : Leads(Make(node), In(p, 0, a), y)
  BY LoopKindCall
<1>1. Leads(Take("LeftParen"), In(p, 0, "other"), In(p, 1, "unknown"))
  BY InLeft DEF Afters
<1>2. Leads(Call("Expression"), In(p, 1, "unknown"), In(p, 1, "unknown"))
  BY InCall DEF Afters, Pieces, Lists
<1>3. Leads(Take("RightParen"), In(p, 1, "unknown"), In(p, 0, "unknown"))
  BY InRight DEF Afters
<1>4. Leads(Call("Block"), In(p, 0, "unknown"), In(p, 0, "unknown"))
  BY InCall DEF Afters, Pieces, Lists
<1>. QED  BY <1>0, <1>1, <1>2, <1>3, <1>4, InPlaces, Path5 DEF Afters

\* A primary, and whatever methods are called on it.
LEMMA ExpressionRuns ==
  ASSUME NEW x \in Place, NEW y \in Place, Calls(Call("Expression"), x, y)
  PROVE  Runs(<<Call("Primary"), Call("Methods")>>, x, y)
<1>1. y.after = "unknown" /\ Moves(x, y, x.level, 1)
  BY DEF Calls, Call, Step, Pieces, Lists
<1>2. Leads(Call("Primary"), x, y)
  BY <1>1 DEF Leads, Calls, Call, Step, Pieces
<1>3. Leads(Call("Methods"), y, y)
  <2>1. (y.level = 1 => y.parts > 0) /\ Moves(y, y, y.level, 0)
    BY <1>1, NumbersOfPlace DEF Moves
  <2>. QED  BY <1>1, <2>1 DEF Leads, Calls, Call, Step
<1>. QED  BY <1>2, <1>3, Path2

\* An item of the program goes to its list before the next is begun.
LEMMA ProgramRuns ==
  ASSUME NEW x \in Place, NEW y \in Place, Calls(Call("Program"), x, y),
         NEW f \in Pieces, NEW list
  PROVE  Runs(<<Call(f), File(list), Call("Program")>>, x, y)
<1>1. /\ x.level = 1 /\ x.parts = 0 /\ x.open = 0
      /\ y.after = "unknown" /\ Moves(x, y, 1, 0)
  BY DEF Calls, Call, Step, Pieces, Lists
<1>. DEFINE z == PlaceAt(1, 1, 0, "unknown")
<1>2. z \in Place /\ z.level = 1 /\ z.parts = 1 /\ z.open = 0 /\ z.after = "unknown"
  BY DEF PlaceAt, Place
<1>3. y.level = 1 /\ y.parts = 0 /\ y.open = 0
  BY <1>1 DEF Moves
<1>. HIDE DEF z
<1>4. Leads(Call(f), x, z)
  BY <1>1, <1>2 DEF Leads, Calls, Call, Step, Moves
<1>5. Leads(File(list), z, y)
  BY <1>1, <1>2, <1>3 DEF Leads, Builds, File, Step
<1>6. Leads(Call("Program"), y, y)
  BY <1>1, <1>3 DEF Leads, Calls, Call, Step, Moves
<1>. QED  BY <1>2, <1>4, <1>5, <1>6, Path3

-----------------------------------------------------------------------------
(***************************************************************************)
(* The nodes that have been begun.                                         *)
(***************************************************************************)
IsNode(n)  == n = [node |-> n.node, at |-> n.at, parts |-> n.parts] /\ Row(n.parts)
AreNodes(b) == Row(b) /\ \A i \in 1..Len(b) : IsNode(b[i])

\* Facts about sequences of unknown elements, one by one.
LEMMA RowLength == ASSUME NEW t, Row(t) PROVE Len(t) \in Nat
BY LenProperties DEF Row

LEMMA RowAppend ==
  ASSUME NEW t, NEW e, Row(t)
  PROVE  /\ Row(Append(t, e)) /\ Len(Append(t, e)) = Len(t) + 1
         /\ \A i \in 1..Len(t) : Append(t, e)[i] = t[i]
         /\ Append(t, e)[Len(t) + 1] = e
<1>. DEFINE A == {t[i] : i \in 1..Len(t)}
<1>1. t \in Seq(A)
  BY DEF Row
<1>. HIDE DEF A
<1>2. t \in Seq(A \cup {e}) /\ e \in A \cup {e}
  BY <1>1
<1>. DEFINE B == A \cup {e}
<1>3. t \in Seq(B) /\ e \in B
  BY <1>2
<1>. HIDE DEF B
<1>4. /\ Append(t, e) \in Seq(B) /\ Len(Append(t, e)) = Len(t) + 1
      /\ \A i \in 1..Len(t) : Append(t, e)[i] = t[i]
      /\ Append(t, e)[Len(t) + 1] = e
  BY <1>3, AppendProperties
<1>. QED  BY <1>4, SequenceIsRow

LEMMA RowFront ==
  ASSUME NEW t, NEW n \in 0..Len(t), Row(t)
  PROVE  /\ Row(SubSeq(t, 1, n)) /\ Len(SubSeq(t, 1, n)) = n
         /\ \A i \in 1..n : SubSeq(t, 1, n)[i] = t[i]
<1>. DEFINE A == {t[i] : i \in 1..Len(t)}
<1>1. t \in Seq(A) /\ Len(t) \in Nat
  BY RowLength DEF Row
<1>. HIDE DEF A
<1>2. /\ SubSeq(t, 1, n) \in Seq(A) /\ Len(SubSeq(t, 1, n)) = n
      /\ \A i \in 1..n : SubSeq(t, 1, n)[i] = t[i]
  <2>1. n \in 0..Len(t)
    OBVIOUS
  <2>. QED  BY <1>1, <2>1, SubSeqProperties
<1>. QED  BY <1>2, SequenceIsRow

\* The parts of a node, replaced.
LEMMA NewParts ==
  ASSUME NEW b, AreNodes(b), NEW n \in 1..Len(b), NEW q, Row(q)
  PROVE  LET c == [b EXCEPT ![n].parts = q]
         IN  /\ AreNodes(c) /\ Len(c) = Len(b) /\ c[n].parts = q
             /\ \A i \in 1..Len(b) : i # n => c[i] = b[i]
<1>. DEFINE A == {b[i] : i \in 1..Len(b)}
            e == [b[n] EXCEPT !.parts = q]
            c == [b EXCEPT ![n] = e]
            m == Len(b)
<1>1. b \in Seq(A) /\ m \in Nat
  BY RowLength DEF AreNodes, Row
<1>2. b[n] = [node |-> b[n].node, at |-> b[n].at, parts |-> b[n].parts]
  BY DEF AreNodes, IsNode
<1>3. e = [node |-> b[n].node, at |-> b[n].at, parts |-> q]
  BY <1>2
<1>4. IsNode(e) /\ e.parts = q
  BY <1>3 DEF IsNode
<1>5. DOMAIN b = 1..m
  BY <1>1, LenProperties
<1>. HIDE DEF A, e
<1>6. c \in Seq(A \cup {e}) /\ Len(c) = m /\ c[n] = e /\ \A i \in 1..m : i # n => c[i] = b[i]
  <2>1. b \in [1..m -> A \cup {e}]
    BY <1>1, LenProperties
  <2>2. c \in [1..m -> A \cup {e}]
    BY <2>1
  <2>. QED  BY <1>1, <1>5, <2>1, <2>2
<1>. HIDE DEF c
<1>7. Row(c)
  BY <1>6, SequenceIsRow
<1>8. \A i \in 1..m : IsNode(c[i])
  BY <1>4, <1>6 DEF AreNodes
<1>9. c = [b EXCEPT ![n].parts = q]
  BY DEF c, e
<1>. QED  BY <1>4, <1>6, <1>7, <1>8, <1>9 DEF AreNodes

\* One part more for the node that is open.
LEMMA PartAdded ==
  ASSUME NEW b, AreNodes(b), Len(b) > 0, NEW part
  PROVE  LET c == [b EXCEPT ![Len(b)].parts = Append(@, part)]
         IN  /\ AreNodes(c) /\ Len(c) = Len(b)
             /\ Len(b) = 1 => Len(c[1].parts) = Len(b[1].parts) + 1
             /\ Len(b) > 1 => Len(c[1].parts) = Len(b[1].parts)
<1>. DEFINE n == Len(b)
            q == Append(b[n].parts, part)
            c == [b EXCEPT ![n].parts = q]
<1>1. n \in 1..Len(b)
  BY RowLength DEF AreNodes
<1>2. Row(q) /\ Len(q) = Len(b[n].parts) + 1
  BY <1>1, RowAppend DEF AreNodes, IsNode
<1>. HIDE DEF q
<1>3. /\ AreNodes(c) /\ Len(c) = Len(b) /\ c[n].parts = q
      /\ \A i \in 1..Len(b) : i # n => c[i] = b[i]
  <2>. HIDE DEF n
  <2>. QED  BY <1>1, <1>2, NewParts
<1>5. /\ n = 1 => Len(c[1].parts) = Len(b[1].parts) + 1
      /\ n > 1 => Len(c[1].parts) = Len(b[1].parts)
  <2>. HIDE DEF c
  <2>. QED  BY <1>1, <1>2, <1>3
<1>6. c = [b EXCEPT ![Len(b)].parts = Append(@, part)]
  BY DEF q
<1>. HIDE DEF c
<1>. QED  BY <1>3, <1>5, <1>6

\* One node more.
LEMMA NodeBegun ==
  ASSUME NEW b, AreNodes(b), NEW e, IsNode(e)
  PROVE  /\ AreNodes(Append(b, e)) /\ Len(Append(b, e)) = Len(b) + 1
         /\ Len(b) > 0 => Append(b, e)[1] = b[1]
<1>1. Len(b) \in Nat
  BY RowLength DEF AreNodes
<1>2. /\ Row(Append(b, e)) /\ Len(Append(b, e)) = Len(b) + 1
      /\ \A i \in 1..Len(b) : Append(b, e)[i] = b[i]
      /\ Append(b, e)[Len(b) + 1] = e
  BY RowAppend DEF AreNodes
<1>3. \A i \in 1..Len(b) + 1 : IsNode(Append(b, e)[i])
  BY <1>1, <1>2 DEF AreNodes
<1>. QED  BY <1>1, <1>2, <1>3 DEF AreNodes

\* All nodes but the last that was begun.
LEMMA NodesBefore ==
  ASSUME NEW b, AreNodes(b), Len(b) > 1
  PROVE  LET c == SubSeq(b, 1, Len(b) - 1)
         IN  AreNodes(c) /\ Len(c) = Len(b) - 1 /\ c[1] = b[1]
<1>1. Len(b) \in Nat
  BY RowLength DEF AreNodes
<1>. DEFINE n == Len(b) - 1
            c == SubSeq(b, 1, n)
<1>2. n \in 0..Len(b)
  BY <1>1
<1>. HIDE DEF n
<1>3. Row(c) /\ Len(c) = n /\ \A i \in 1..n : c[i] = b[i]
  BY <1>2, RowFront DEF AreNodes
<1>. HIDE DEF c
<1>4. \A i \in 1..n : IsNode(c[i])
  BY <1>1, <1>3 DEF AreNodes, n
<1>. QED  BY <1>1, <1>3, <1>4 DEF AreNodes, n, c
-----------------------------------------------------------------------------
(***************************************************************************)
(* The parentheses that have been consumed.                                *)
(***************************************************************************)
Opened(ks)   == {i \in 1..Len(ks) : ks[i] \in {"LeftParen", "ArrayAdd", "ArrayRemove"}}
Closed(ks)   == {i \in 1..Len(ks) : ks[i] \in {"RightParen"}}
Free(ks)     == {i \in 2..Len(ks) : ks[i] = "LeftParen" /\ ks[i-1] = "Equal"}
Unclosed(ks) == Cardinality(Opened(ks)) - Cardinality(Closed(ks)) - Cardinality(Free(ks))

\* What a place says of the last token.
Last(a, ks) == \/ a = "unknown"
               \/ a = "Equal" /\ ks # <<>> /\ ks[Len(ks)] = "Equal"
               \/ a = "other" /\ (ks = <<>> \/ ks[Len(ks)] # "Equal")

\* A new index makes a set of them larger by one.
LEMMA OneMore ==
  ASSUME NEW n \in Nat, NEW S, S \subseteq 1..n
  PROVE  /\ Cardinality(S) \in Nat
         /\ Cardinality(S \cup {n + 1}) = Cardinality(S) + 1
<1>1. IsFiniteSet(S)
  <2>1. IsFiniteSet(1..n) /\ S \in SUBSET (1..n)
    BY FS_Interval
  <2>. QED  BY <2>1, FS_Subset
<1>2. n + 1 \notin S
  OBVIOUS
<1>. QED  BY <1>1, <1>2, FS_CardinalityType, FS_AddElement

\* A token adds its weight to the parentheses that must be closed.
LEMMA UnclosedGrows ==
  ASSUME NEW K, NEW ks \in Seq(K), NEW k \in K, NEW a \in Afters, Last(a, ks),
         k = "LeftParen" => a # "unknown"
  PROVE  /\ Unclosed(ks) \in Int
         /\ Unclosed(Append(ks, k)) = Unclosed(ks) + Weight(k, a)
<1>. DEFINE n  == Len(ks)
            ls == Append(ks, k)
<1>1. /\ n \in Nat /\ Len(ls) = n + 1
      /\ ls[n + 1] = k /\ \A i \in 1..n : ls[i] = ks[i]
  BY AppendProperties, LenProperties
<1>. HIDE DEF ls
<1>2. Opened(ls) = Opened(ks)
        \cup (IF k \in {"LeftParen", "ArrayAdd", "ArrayRemove"} THEN {n + 1} ELSE {})
  BY <1>1 DEF Opened
<1>3. Closed(ls) = Closed(ks) \cup (IF k = "RightParen" THEN {n + 1} ELSE {})
  BY <1>1 DEF Closed
<1>4. Free(ls) = Free(ks)
        \cup (IF k = "LeftParen" /\ n > 0 /\ ks[n] = "Equal" THEN {n + 1} ELSE {})
  BY <1>1 DEF Free
<1>5. Opened(ks) \subseteq 1..n /\ Closed(ks) \subseteq 1..n /\ Free(ks) \subseteq 1..n
  BY <1>1 DEF Opened, Closed, Free
<1>c. /\ Cardinality(Opened(ks)) \in Nat /\ Cardinality(Closed(ks)) \in Nat
      /\ Cardinality(Free(ks)) \in Nat
  BY <1>1, <1>5, OneMore
<1>6. k = "LeftParen" => (a = "Equal" <=> n > 0 /\ ks[n] = "Equal")
  BY <1>1, EmptySeq DEF Last, Afters
<1>7. Cardinality(Opened(ls)) = Cardinality(Opened(ks))
           + (IF k \in {"LeftParen", "ArrayAdd", "ArrayRemove"} THEN 1 ELSE 0)
  <2>1. CASE k \in {"LeftParen", "ArrayAdd", "ArrayRemove"}
    BY <1>1, <1>2, <1>5, <2>1, OneMore
  <2>2. CASE ~(k \in {"LeftParen", "ArrayAdd", "ArrayRemove"})
    <3>1. Opened(ls) = Opened(ks)
      BY <1>2, <2>2
    <3>. QED  BY <1>c, <2>2, <3>1
  <2>. QED  BY <2>1, <2>2
<1>8. Cardinality(Closed(ls)) = Cardinality(Closed(ks)) + (IF k = "RightParen" THEN 1 ELSE 0)
  <2>1. CASE k = "RightParen"
    BY <1>1, <1>3, <1>5, <2>1, OneMore
  <2>2. CASE ~(k = "RightParen")
    <3>1. Closed(ls) = Closed(ks)
      BY <1>3, <2>2
    <3>. QED  BY <1>c, <2>2, <3>1
  <2>. QED  BY <2>1, <2>2
<1>9. Cardinality(Free(ls)) = Cardinality(Free(ks))
           + (IF k = "LeftParen" /\ n > 0 /\ ks[n] = "Equal" THEN 1 ELSE 0)
  <2>1. CASE k = "LeftParen" /\ n > 0 /\ ks[n] = "Equal"
    BY <1>1, <1>4, <1>5, <2>1, OneMore
  <2>2. CASE ~(k = "LeftParen" /\ n > 0 /\ ks[n] = "Equal")
    <3>1. Free(ls) = Free(ks)
      BY <1>4, <2>2
    <3>. QED  BY <1>c, <2>2, <3>1
  <2>. QED  BY <2>1, <2>2
<1>. HIDE DEF n
<1>10. Unclosed(ls) = Unclosed(ks) + Weight(k, a)
  <2>1. CASE k = "LeftParen"
    BY <1>c, <1>6, <1>7, <1>8, <1>9, <2>1, Weights DEF Unclosed
  <2>2. CASE k \in {"ArrayAdd", "ArrayRemove"}
    BY <1>c, <1>7, <1>8, <1>9, <2>2, Weights DEF Unclosed
  <2>3. CASE k = "RightParen"
    BY <1>c, <1>7, <1>8, <1>9, <2>3, Weights DEF Unclosed
  <2>4. CASE k \notin Brackets
    BY <1>c, <1>7, <1>8, <1>9, <2>4, Weights DEF Unclosed, Brackets
  <2>. QED  BY <2>1, <2>2, <2>3, <2>4 DEF Brackets
<1>. QED  BY <1>c, <1>10 DEF Unclosed, ls

-----------------------------------------------------------------------------
(***************************************************************************)
(* The inductive invariant: from where the parser stands its calls lead on *)
(* to the end.                                                             *)
(***************************************************************************)
Stands(x) == /\ x.level = Len(built) /\ x.parts = Len(built[1].parts)
             /\ x.open = Unclosed(consumed) /\ Last(x.after, consumed)

IInv ==
  /\ vocabulary \in Vocabularies
  /\ consumed \in Seq(Stream!Kinds \ Bad)
  /\ current \in Stream!Kinds /\ ahead \in Stream!Kinds
  /\ status \in {"parsing", "parsed", "failed"}
  /\ AreNodes(built)
  /\ status = "parsing" => \E x \in Place, y \in Place : Stands(x) /\ Runs(todo, x, y)
  /\ status = "parsed"  => /\ todo = <<>> /\ Len(built) = 1 /\ Len(built[1].parts) = 0
                           /\ Unclosed(consumed) = 0

\* The lexer returns kinds of tokens.
LEMMA NextKinds ==
  ASSUME IInv, NEW ks, NEW k \in NextOf(vocabulary, ks)
  PROVE  k \in Stream!Kinds
<1>1. vocabulary.kinds \subseteq Stream!Kinds
  BY VocabulariesAssumption DEF IInv
<1>. QED  BY <1>1 DEF NextOf, Stream!Kinds

\* The place before and after the first thing to do.
LEMMA Standing ==
  ASSUME IInv, status = "parsing", todo # <<>>
  PROVE  \E x \in Place, z \in Place, y \in Place :
           /\ Stands(x) /\ Leads(Head(todo), x, z) /\ Runs(Tail(todo), z, y)
<1>1. PICK x \in Place, y \in Place : Stands(x) /\ Runs(todo, x, y)
  BY DEF IInv
<1>2. PICK z \in Place : Leads(Head(todo), x, z) /\ Runs(Tail(todo), z, y)
  BY <1>1, FirstStep
<1>. QED  BY <1>1, <1>2

\* The same where the first thing to do is a call.
LEMMA StandingAtCall ==
  ASSUME IInv, NEW f, At(f)
  PROVE  \E x \in Place, z \in Place, y \in Place :
           /\ Stands(x) /\ Calls(Call(f), x, z) /\ Runs(Tail(todo), z, y)
<1>1. status = "parsing" /\ todo # <<>> /\ Head(todo).do = "call" /\ Head(todo).what = f
  BY DEF At, Doing
<1>2. PICK x \in Place, z \in Place, y \in Place :
        Stands(x) /\ Leads(Head(todo), x, z) /\ Runs(Tail(todo), z, y)
  BY <1>1, Standing
<1>3. Calls(Head(todo), x, z)
  BY <1>1, <1>2 DEF Leads, Token, Builds
<1>4. Calls(Call(f), x, z)
  BY <1>1, <1>3 DEF Calls, Call, Step
<1>. QED  BY <1>2, <1>4

\* The form in which the nodes after a step are used.
LEMMA NodesAre == ASSUME NEW c, AreNodes(c), built' = c PROVE AreNodes(built)'
OBVIOUS

\* Nothing but the calls changes.
LEMMA StandsKept ==
  ASSUME NEW x, Stands(x), built' = built, consumed' = consumed
  PROVE  Stands(x)'
<1>1. Len(built)' = Len(built) /\ Len(built[1].parts)' = Len(built[1].parts)
  OBVIOUS
<1>2. Unclosed(consumed)' = Unclosed(consumed)
  BY DEF Unclosed, Opened, Closed, Free
<1>3. Last(x.after, consumed)' <=> Last(x.after, consumed)
  BY DEF Last
<1>. QED  BY <1>1, <1>2, <1>3 DEF Stands

\* The steps lead wherever a call of f does.
Replaces(steps, f) == \A x, y \in Place : Calls(Call(f), x, y) => Runs(steps, x, y)

\* A call that gives way to its steps.
LEMMA CallMade ==
  ASSUME IInv, NEW f, At(f), NEW steps, Does(steps), Replaces(steps, f)
  PROVE  IInv'
<1>1. PICK x \in Place, z \in Place, y \in Place :
        Stands(x) /\ Calls(Call(f), x, z) /\ Runs(Tail(todo), z, y)
  BY StandingAtCall
<1>2. Runs(steps, x, z)
  BY <1>1 DEF Replaces
<1>. DEFINE rest == Tail(todo)
<1>3. Runs(steps \o rest, x, y)
  BY <1>1, <1>2, MoreSteps
<1>4. todo' = steps \o rest
  BY DEF Does
<1>. HIDE DEF rest
<1>5. Runs(todo, x, y)'
  BY <1>3, <1>4 DEF Runs, Way, Row
<1>6. Stands(x)'
  BY <1>1, StandsKept DEF Does
<1>7. status' = "parsing"
  BY DEF Does, At, Doing
<1>8. AreNodes(built)'
  BY NodesAre DEF IInv, Does
<1>. QED  BY <1>5, <1>6, <1>7, <1>8 DEF IInv, Does

\* A list that ends here.
LEMMA CallLeft ==
  ASSUME IInv, NEW f \in Lists \cup {"Methods"}, At(f), Does(<<>>)
  PROVE  IInv'
<1>1. PICK x \in Place, z \in Place, y \in Place :
        Stands(x) /\ Calls(Call(f), x, z) /\ Runs(Tail(todo), z, y)
  BY StandingAtCall
<1>2. z.after = "unknown" /\ Moves(x, z, x.level, 0)
  BY <1>1 DEF Calls, Call, Step, Pieces, Lists
<1>3. z.level = x.level /\ z.parts = x.parts /\ z.open = x.open
  BY <1>2, NumbersOfPlace DEF Moves
<1>4. Stands(z)
  BY <1>1, <1>2, <1>3 DEF Stands, Last
<1>5. todo' = Tail(todo)
  <2>1. PICK S : Tail(todo) \in Seq(S)
    BY <1>1 DEF Runs, Row
  <2>2. <<>> \o Tail(todo) = Tail(todo)
    BY <2>1, ConcatEmptySeq
  <2>. QED  BY <2>2 DEF Does
<1>6. Runs(todo, z, y)'
  BY <1>1, <1>5 DEF Runs, Way, Row
<1>7. Stands(z)'
  BY <1>4, StandsKept DEF Does
<1>8. status' = "parsing"
  BY DEF Does, At, Doing
<1>9. AreNodes(built)'
  BY NodesAre DEF IInv, Does
<1>. QED  BY <1>6, <1>7, <1>8, <1>9 DEF IInv, Does

\* An exception leaves nothing to be done.
LEMMA FailInv == ASSUME IInv, Fail PROVE IInv'
<1>1. AreNodes(<<>>)
  <2>1. <<>> \in Seq({})
    BY EmptySeq
  <2>2. Row(<<>>)
    BY <2>1, SequenceIsRow
  <2>. QED  BY <2>2 DEF AreNodes
<1>2. AreNodes(built)'
  BY <1>1, NodesAre DEF Fail
<1>. QED  BY <1>2 DEF IInv, Fail

\* A token that is consumed leads to the next place.
LEMMA consumeInv == ASSUME IInv, consume PROVE IInv'
<1>. DEFINE k == Head(todo).what
<1>1. CASE k # current /\ Fail
  BY <1>1, FailInv
<1>2. CASE /\ current = k
           /\ consumed' = Append(consumed, current)
           /\ current' = ahead
           /\ ahead' \in NextOf(vocabulary, consumed \o <<current, ahead>>)
           /\ built' = IF Doing("keep") THEN With(Leaf) ELSE built
           /\ todo' = Tail(todo)
           /\ UNCHANGED <<vocabulary, program, status>>
  <2>1. status = "parsing" /\ todo # <<>> /\ Head(todo).do \in {"take", "keep"}
        /\ (Doing("keep") <=> Head(todo).do = "keep")
    BY DEF consume, Doing
  <2>2. PICK x \in Place, z \in Place, y \in Place :
          Stands(x) /\ Leads(Head(todo), x, z) /\ Runs(Tail(todo), z, y)
    BY <2>1, Standing
  <2>3. Token(Head(todo), x, z)
    BY <2>1, <2>2 DEF Leads, Builds, Calls
  <2>4. current \in Stream!Kinds \ Bad /\ consumed \in Seq(Stream!Kinds \ Bad)
    BY <1>2, <2>3 DEF Token, IInv
  <2>5. consumed' \in Seq(Stream!Kinds \ Bad)
    <3>. DEFINE K == Stream!Kinds \ Bad
    <3>1. Append(consumed, current) \in Seq(K)
      <4>1. current \in K /\ consumed \in Seq(K)
        BY <2>4
      <4>. HIDE DEF K
      <4>. QED  BY <4>1, AppendProperties
    <3>. QED  BY <1>2, <3>1
  <2>6. Unclosed(consumed)' = Unclosed(consumed) + Weight(current, x.after)
    <3>1. Last(x.after, consumed) /\ (current = "LeftParen" => x.after # "unknown")
          /\ x.after \in Afters
      BY <1>2, <2>2, <2>3, NumbersOfPlace DEF Stands, Token
    <3>2. Unclosed(Append(consumed, current)) = Unclosed(consumed) + Weight(current, x.after)
      <4>. DEFINE K == Stream!Kinds \ Bad
      <4>1. current \in K /\ consumed \in Seq(K)
        BY <2>4
      <4>. HIDE DEF K
      <4>. QED  BY <3>1, <4>1, UnclosedGrows
    <3>3. Unclosed(consumed)' = Unclosed(Append(consumed, current))
      BY <1>2 DEF Unclosed, Opened, Closed, Free
    <3>. QED  BY <3>2, <3>3
  <2>7. Last(z.after, consumed)'
    <3>1. consumed' # <<>> /\ consumed'[Len(consumed')] = current
      <4>1. Append(consumed, current) # <<>>
            /\ Append(consumed, current)[Len(Append(consumed, current))] = current
        BY <2>4, AppendProperties
      <4>. QED  BY <1>2, <4>1
    <3>2. z.after \in {"unknown", IF current = "Equal" THEN "Equal" ELSE "other"}
      BY <1>2, <2>3 DEF Token
    <3>. QED  BY <3>1, <3>2 DEF Last
  <2>8. AreNodes(built)' /\ Len(built') = Len(built)
        /\ Len(built'[1].parts) = Len(built[1].parts)
    <3>1. CASE Head(todo).do = "take"
      <4>1. built' = built
        BY <1>2, <2>1, <3>1
      <4>2. AreNodes(built)'
        BY <4>1, NodesAre DEF IInv
      <4>. QED  BY <4>1, <4>2
    <3>2. CASE Head(todo).do = "keep"
      <4>1. Len(built) > 1
        BY <2>2, <2>3, <3>2 DEF Token, Stands
      <4>2. built' = [built EXCEPT ![Len(built)].parts = Append(@, Leaf)]
        BY <1>2, <2>1, <3>2 DEF With
      <4>. DEFINE c == [built EXCEPT ![Len(built)].parts = Append(@, Leaf)]
      <4>3. AreNodes(built) /\ Len(built) > 0 /\ Len(built) \in Nat
        BY <4>1, RowLength DEF IInv, AreNodes
      <4>4. /\ AreNodes(c) /\ Len(c) = Len(built)
            /\ Len(c[1].parts) = Len(built[1].parts)
        BY <4>1, <4>3, PartAdded
      <4>. HIDE DEF c
      <4>7. built' = c
        BY <4>2 DEF c
      <4>8. AreNodes(built)'
        BY <4>4, <4>7, NodesAre
      <4>. QED  BY <4>4, <4>7, <4>8
    <3>. QED  BY <2>1, <3>1, <3>2
  <2>9. Stands(z)'
    BY <1>2, <2>2, <2>3, <2>6, <2>7, <2>8 DEF Stands, Token
  <2>10. Runs(todo, z, y)'
    BY <1>2, <2>2 DEF Runs, Way, Row
  <2>11. current' \in Stream!Kinds /\ ahead' \in Stream!Kinds
    BY <1>2, NextKinds DEF IInv
  <2>. QED  BY <1>2, <2>1, <2>5, <2>8, <2>9, <2>10, <2>11 DEF IInv
<1>. QED  BY <1>1, <1>2 DEF consume

-----------------------------------------------------------------------------
(***************************************************************************)
(* Every step of the parser keeps the invariant.                           *)
(***************************************************************************)
\* A sequence without its last element.
LEMMA RowShortened ==
  ASSUME NEW t, Row(t)
  PROVE  /\ Row(SubSeq(t, 1, Len(t) - 1))
         /\ Len(t) > 0 => Len(SubSeq(t, 1, Len(t) - 1)) = Len(t) - 1
<1>. DEFINE n == Len(t) - 1
<1>1. Len(t) \in Nat
  BY RowLength
<1>2. CASE Len(t) > 0
  <2>1. n \in 0..Len(t)
    BY <1>1, <1>2
  <2>. HIDE DEF n
  <2>2. Row(SubSeq(t, 1, n)) /\ Len(SubSeq(t, 1, n)) = n
    BY <2>1, RowFront
  <2>. QED  BY <2>2 DEF n
<1>3. CASE Len(t) = 0
  <2>1. PICK S : t \in Seq(S)
    BY DEF Row
  <2>2. n < 1 /\ n \in Int
    BY <1>1, <1>3
  <2>. HIDE DEF n
  <2>3. SubSeq(t, 1, n) = <<>>
    BY <2>1, <2>2, SubSeqEmpty
  <2>4. Row(<<>>)
    BY EmptySeq, SequenceIsRow
  <2>5. Row(SubSeq(t, 1, n))
    BY <2>3, <2>4, Zenon
  <2>6. ~(Len(t) > 0)
    BY <1>3
  <2>. QED  BY <2>5, <2>6 DEF n
<1>. QED  BY <1>1, <1>2, <1>3

\* More than one is two or more than two.
LEMMA TwoOrMore == ASSUME NEW n \in Nat, n > 1 PROVE n = 2 \/ n > 2
OBVIOUS

\* Nodes are begun, wrapped and made where their steps say so.
LEMMA BuildNodeInv == ASSUME IInv, BuildNode PROVE IInv'
<1>1. status = "parsing" /\ todo # <<>>
      /\ UNCHANGED <<vocabulary, consumed, current, ahead, program, status>>
      /\ todo' = Tail(todo)
  BY DEF BuildNode, Doing
<1>2. PICK x \in Place, z \in Place, y \in Place :
        Stands(x) /\ Leads(Head(todo), x, z) /\ Runs(Tail(todo), z, y)
  BY <1>1, Standing
<1>3. Runs(todo, z, y)'
  BY <1>1, <1>2 DEF Runs, Way, Row
<1>4. AreNodes(built) /\ Len(built) \in Nat /\ Len(built) > 0
      /\ Len(built[1].parts) \in Nat /\ x.level = Len(built) /\ x.parts = Len(built[1].parts)
  <2>1. AreNodes(built) /\ Len(built) \in Nat /\ Len(built) > 0
    BY <1>2, RowLength, NumbersOfPlace DEF IInv, AreNodes, Stands
  <2>2. Len(built[1].parts) \in Nat
    BY <2>1, RowLength DEF AreNodes, IsNode
  <2>. QED  BY <1>2, <2>1, <2>2 DEF Stands
<1>5. SUFFICES /\ AreNodes(built)' /\ Len(built') = z.level /\ Len(built'[1].parts) = z.parts
               /\ z.open = x.open /\ z.after \in {x.after, "unknown"}
  <2>1. /\ Unclosed(consumed)' = Unclosed(consumed)
        /\ Last(x.after, consumed)' <=> Last(x.after, consumed)
    BY <1>1 DEF Unclosed, Opened, Closed, Free, Last
  <2>2. Last(z.after, consumed)'
    BY <1>2, <1>5, <2>1 DEF Stands, Last
  <2>3. Stands(z)'
    BY <1>2, <1>5, <2>1, <2>2 DEF Stands
  <2>. QED  BY <1>1, <1>3, <1>5, <2>3 DEF IInv
<1>6. CASE Doing("look") /\ built' = With(Leaf)
  <2>1. x.level > 1 /\ Moves(x, z, x.level, 0)
    BY <1>2, <1>6 DEF Doing, Leads, Token, Builds, Calls
  <2>. DEFINE c == [built EXCEPT ![Len(built)].parts = Append(@, Leaf)]
  <2>2. built' = c
    BY <1>6 DEF With
  <2>3. /\ AreNodes(c) /\ Len(c) = Len(built)
        /\ Len(c[1].parts) = Len(built[1].parts)
    BY <1>4, <2>1, PartAdded
  <2>. HIDE DEF c
  <2>5. z.level = x.level /\ z.parts = x.parts /\ z.open = x.open
        /\ z.after \in {x.after, "unknown"}
    BY <2>1, NumbersOfPlace DEF Moves
  <2>6. AreNodes(built)'
    BY <2>2, <2>3, NodesAre
  <2>. QED  BY <1>4, <2>2, <2>3, <2>5, <2>6
<1>7. CASE /\ Doing("begin")
           /\ built' = Append(built, [node |-> "", at |-> Here, parts |-> <<>>])
  <2>1. Moves(x, z, x.level + 1, 0)
    BY <1>2, <1>7 DEF Doing, Leads, Token, Builds, Calls
  <2>. DEFINE e == [node |-> "", at |-> Here, parts |-> <<>>]
  <2>2. IsNode(e)
    <3>1. <<>> \in Seq({})
      BY EmptySeq
    <3>2. Row(<<>>)
      BY <3>1, SequenceIsRow
    <3>. QED  BY <3>2 DEF IsNode
  <2>3. built' = Append(built, e)
    BY <1>7
  <2>. HIDE DEF e
  <2>4. /\ AreNodes(Append(built, e)) /\ Len(Append(built, e)) = Len(built) + 1
        /\ Append(built, e)[1] = built[1]
    BY <1>4, <2>2, NodeBegun
  <2>5. z.level = x.level + 1 /\ z.parts = x.parts /\ z.open = x.open
        /\ z.after \in {x.after, "unknown"}
    BY <2>1, NumbersOfPlace DEF Moves
  <2>6. AreNodes(built)'
    BY <2>3, <2>4, NodesAre
  <2>. QED  BY <1>4, <2>3, <2>4, <2>5, <2>6
<1>8. CASE /\ Doing("wrap")
           /\ LET object == Open.parts[Len(Open.parts)]
              IN  built' = Append([built EXCEPT ![Len(built)].parts = SubSeq(@, 1, Len(@) - 1)],
                                  [node |-> "", at |-> object.at, parts |-> <<object>>])
  <2>1. /\ z.level = x.level + 1 /\ z.open = x.open /\ z.after \in {x.after, "unknown"}
        /\ x.level = 1 => x.parts > 0
        /\ z.parts = x.parts - (IF x.level = 1 THEN 1 ELSE 0)
    BY <1>2, <1>8 DEF Doing, Leads, Token, Builds, Calls
  <2>. DEFINE n == Len(built)
              ps == built[n].parts
              object == ps[Len(ps)]
              q == SubSeq(ps, 1, Len(ps) - 1)
              c == [built EXCEPT ![n].parts = q]
              e == [node |-> "", at |-> object.at, parts |-> <<object>>]
  <2>2. built' = Append(c, e)
    BY <1>8 DEF Open
  <2>3. IsNode(e)
    <3>1. <<object>> \in Seq({object})
      OBVIOUS
    <3>2. Row(<<object>>)
      BY <3>1, SequenceIsRow
    <3>. QED  BY <3>2 DEF IsNode
  <2>4. n \in 1..Len(built) /\ Row(ps) /\ Len(ps) \in Nat
    <3>1. n \in 1..Len(built)
      BY <1>4
    <3>2. Row(ps)
      BY <1>4, <3>1 DEF AreNodes, IsNode
    <3>. QED  BY <3>1, <3>2, RowLength
  <2>. HIDE DEF ps
  <2>5. Row(q) /\ (Len(ps) > 0 => Len(q) = Len(ps) - 1)
    BY <2>4, RowShortened
  <2>. HIDE DEF q
  <2>6. /\ AreNodes(c) /\ Len(c) = Len(built) /\ c[n].parts = q
        /\ \A i \in 1..Len(built) : i # n => c[i] = built[i]
    <3>1. AreNodes(built) /\ n \in 1..Len(built) /\ Row(q)
      BY <1>4, <2>4, <2>5
    <3>. HIDE DEF n
    <3>. QED  BY <3>1, NewParts
  <2>7. Len(c[1].parts) = z.parts
    <3>1. CASE n = 1
      <4>1. ps = built[1].parts
        BY <3>1 DEF ps
      <4>. HIDE DEF c
      <4>. QED  BY <1>4, <2>1, <2>5, <2>6, <3>1, <4>1
    <3>2. CASE n # 1
      <4>1. c[1] = built[1] /\ z.parts = x.parts
        BY <1>4, <2>1, <2>6, <3>2
      <4>. QED  BY <1>4, <4>1
    <3>. QED  BY <3>1, <3>2
  <2>. HIDE DEF c, e
  <2>8. /\ AreNodes(Append(c, e)) /\ Len(Append(c, e)) = Len(c) + 1
        /\ Append(c, e)[1] = c[1]
    BY <1>4, <2>3, <2>6, NodeBegun
  <2>9. AreNodes(built)'
    BY <2>2, <2>8, NodesAre
  <2>. QED  BY <1>4, <2>1, <2>2, <2>6, <2>7, <2>8, <2>9
<1>9. CASE /\ Doing("make")
           /\ LET rest == SubSeq(built, 1, Len(built) - 1)
                  done == [Open EXCEPT !.node = Head(todo).what]
              IN  built' = [rest EXCEPT ![Len(rest)].parts = Append(@, done)]
  <2>1. x.level > 1 /\ Moves(x, z, x.level - 1, 1)
    BY <1>2, <1>9 DEF Doing, Leads, Token, Builds, Calls
  <2>. DEFINE rest == SubSeq(built, 1, Len(built) - 1)
              done == [Open EXCEPT !.node = Head(todo).what]
              c == [rest EXCEPT ![Len(rest)].parts = Append(@, done)]
  <2>2. built' = c
    BY <1>9
  <2>3. AreNodes(rest) /\ Len(rest) = Len(built) - 1 /\ rest[1] = built[1]
    BY <1>4, <2>1, NodesBefore
  <2>. HIDE DEF rest, done
  <2>4. /\ AreNodes(c) /\ Len(c) = Len(rest)
        /\ Len(rest) = 1 => Len(c[1].parts) = Len(rest[1].parts) + 1
        /\ Len(rest) > 1 => Len(c[1].parts) = Len(rest[1].parts)
    <3>1. Len(rest) > 0
      BY <1>4, <2>1, <2>3
    <3>. QED  BY <2>3, <3>1, PartAdded
  <2>. HIDE DEF c
  <2>5. /\ z.level = x.level - 1 /\ z.open = x.open /\ z.after \in {x.after, "unknown"}
        /\ x.level = 2 => z.parts = x.parts + 1
        /\ x.level > 2 => z.parts = x.parts
    BY <2>1, NumbersOfPlace DEF Moves
  <2>6. AreNodes(built)'
    BY <2>2, <2>4, NodesAre
  <2>7. Len(c) = z.level /\ Len(c[1].parts) = z.parts
    <3>1. CASE Len(built) = 2
      BY <1>4, <2>3, <2>4, <2>5, <3>1
    <3>2. CASE Len(built) > 2
      <4>1. Len(rest) > 1 /\ x.level > 2
        BY <1>4, <2>3, <3>2
      <4>2. Len(c[1].parts) = Len(built[1].parts)
        BY <2>3, <2>4, <4>1
      <4>. QED  BY <1>4, <2>3, <2>4, <2>5, <4>1, <4>2
    <3>3. Len(built) = 2 \/ Len(built) > 2
      <4>1. Len(built) \in Nat /\ Len(built) > 1
        BY <1>4, <2>1
      <4>. QED  BY <4>1, TwoOrMore
    <3>. QED  BY <3>1, <3>2, <3>3
  <2>. QED  BY <2>2, <2>5, <2>6, <2>7
<1>. QED  BY <1>6, <1>7, <1>8, <1>9 DEF BuildNode

\* An item leaves the program without parts.
LEMMA FileItemInv == ASSUME IInv, FileItem PROVE IInv'
<1>1. status = "parsing" /\ todo # <<>> /\ Head(todo).do = "file"
      /\ UNCHANGED <<vocabulary, consumed, current, ahead, status>>
      /\ todo' = Tail(todo) /\ built' = <<[Open EXCEPT !.parts = <<>>]>>
  BY DEF FileItem, Doing
<1>2. PICK x \in Place, z \in Place, y \in Place :
        Stands(x) /\ Leads(Head(todo), x, z) /\ Runs(Tail(todo), z, y)
  BY <1>1, Standing
<1>3. /\ x.level = 1 /\ z.level = 1 /\ z.parts = 0 /\ z.open = x.open
      /\ z.after \in {x.after, "unknown"}
  BY <1>1, <1>2 DEF Leads, Token, Builds, Calls
<1>4. Runs(todo, z, y)'
  BY <1>1, <1>2 DEF Runs, Way, Row
<1>5. Len(built) = 1 /\ AreNodes(built)
  BY <1>2, <1>3 DEF Stands, IInv
<1>. DEFINE e == [Open EXCEPT !.parts = <<>>]
<1>6. e = [node |-> Open.node, at |-> Open.at, parts |-> <<>>]
  <2>1. Open = [node |-> Open.node, at |-> Open.at, parts |-> Open.parts]
    BY <1>5 DEF AreNodes, IsNode, Open
  <2>. QED  BY <2>1
<1>7. IsNode(e) /\ Len(e.parts) = 0
  <2>1. <<>> \in Seq({})
    BY EmptySeq
  <2>2. Row(<<>>)
    BY <2>1, SequenceIsRow
  <2>3. e.node = Open.node /\ e.at = Open.at /\ e.parts = <<>>
    BY <1>6
  <2>. QED  BY <1>6, <2>2, <2>3 DEF IsNode
<1>. HIDE DEF e
<1>8. AreNodes(<<e>>) /\ Len(<<e>>) = 1 /\ <<e>>[1] = e
  <2>1. <<e>> \in Seq({e})
    OBVIOUS
  <2>2. Row(<<e>>)
    BY <2>1, SequenceIsRow
  <2>. QED  BY <1>7, <2>2 DEF AreNodes
<1>9. built' = <<e>>
  BY <1>1 DEF e
<1>10. AreNodes(built)'
  BY <1>8, <1>9, NodesAre
<1>11. /\ Unclosed(consumed)' = Unclosed(consumed)
       /\ Last(x.after, consumed)' <=> Last(x.after, consumed)
  BY <1>1 DEF Unclosed, Opened, Closed, Free, Last
<1>12. Last(z.after, consumed)'
  BY <1>2, <1>3, <1>11 DEF Stands, Last
<1>13. Stands(z)'
  BY <1>2, <1>3, <1>7, <1>8, <1>9, <1>11, <1>12 DEF Stands
<1>. QED  BY <1>1, <1>4, <1>10, <1>13 DEF IInv

\* The parse functions: their steps take the place of the call.
LEMMA parseDeclarationInv == ASSUME IInv, parseDeclaration PROVE IInv'
<1>1. CASE current = "Int" /\ ahead = "Array"
  <2>1. At("Declaration") /\ Does(<<Call("ArrayDeclaration")>>)
    BY <1>1 DEF parseDeclaration, Types
  <2>2. Replaces(<<Call("ArrayDeclaration")>>, "Declaration")
    BY PieceRuns DEF Pieces, Replaces
  <2>. QED  BY <2>1, <2>2, CallMade
<1>2. CASE current = "Int" /\ ahead # "Array"
  <2>. DEFINE steps == Scalar("Int", "int", "Number")
  <2>1. At("Declaration") /\ Does(steps)
    BY <1>2 DEF parseDeclaration, Types
  <2>2. Replaces(steps, "Declaration")
    BY ScalarRuns DEF Scalar, Bad, Brackets, Replaces
  <2>. QED  BY <2>1, <2>2, CallMade
<1>3. CASE current = "Float"
  <2>. DEFINE steps == Scalar("Float", "float", "FloatLiteral")
  <2>1. At("Declaration") /\ Does(steps)
    BY <1>3 DEF parseDeclaration, Types
  <2>2. Replaces(steps, "Declaration")
    BY ScalarRuns DEF Scalar, Bad, Brackets, Replaces
  <2>. QED  BY <2>1, <2>2, CallMade
<1>4. CASE current = "String"
  <2>. DEFINE steps == Scalar("String", "string", "StringLiteral")
  <2>1. At("Declaration") /\ Does(steps)
    BY <1>4 DEF parseDeclaration, Types
  <2>2. Replaces(steps, "Declaration")
    BY ScalarRuns DEF Scalar, Bad, Brackets, Replaces
  <2>. QED  BY <2>1, <2>2, CallMade
<1>5. CASE current = "Bool"
  <2>1. At("Declaration") /\ Does(<<Call("BoolDeclaration")>>)
    BY <1>5 DEF parseDeclaration, Types
  <2>2. Replaces(<<Call("BoolDeclaration")>>, "Declaration")
    BY PieceRuns DEF Pieces, Replaces
  <2>. QED  BY <2>1, <2>2, CallMade
<1>6. CASE current \notin Types
  <2>1. Fail
    BY <1>6 DEF parseDeclaration, Types
  <2>. QED  BY <2>1, FailInv
<1>. QED  BY <1>1, <1>2, <1>3, <1>4, <1>5, <1>6 DEF Types

LEMMA parseBoolDeclarationInv == ASSUME IInv, parseBoolDeclaration PROVE IInv'
<1>. DEFINE steps == Node("bool", <<Take("Bool"), Keep("Identifier"), Take("Equal"),
                                    Call("Truth"), Take("Semicolon")>>)
<1>1. At("BoolDeclaration") /\ Does(steps)
  BY DEF parseBoolDeclaration
<1>2. Replaces(steps, "BoolDeclaration")
  BY BoolDeclarationRuns DEF Replaces
<1>. QED  BY <1>1, <1>2, CallMade

LEMMA parseTruthInv == ASSUME IInv, parseTruth PROVE IInv'
<1>1. CASE current \in {"True", "False"}
  <2>1. At("Truth") /\ Does(<<Keep(current)>>)
    BY <1>1 DEF parseTruth
  <2>2. Replaces(<<Keep(current)>>, "Truth")
    BY <1>1, KeepRuns DEF Lists, Bad, Brackets, Replaces
  <2>. QED  BY <2>1, <2>2, CallMade
<1>2. CASE current \notin {"True", "False"}
  <2>1. Fail
    BY <1>2 DEF parseTruth
  <2>. QED  BY <2>1, FailInv
<1>. QED  BY <1>1, <1>2

LEMMA parseArrayDeclarationInv == ASSUME IInv, parseArrayDeclaration PROVE IInv'
<1>. DEFINE steps == Node("array", <<Take("Int"), Take("Array"), Keep("Identifier"),
                                     Take("Equal"),
                                     Take("LeftCurly"), Call("Elements"), Take("RightCurly"),
                                     Take("Semicolon")>>)
<1>1. At("ArrayDeclaration") /\ Does(steps)
  BY DEF parseArrayDeclaration
<1>2. Replaces(steps, "ArrayDeclaration")
  BY ArrayDeclarationRuns DEF Replaces
<1>. QED  BY <1>1, <1>2, CallMade

LEMMA parseElementsInv == ASSUME IInv, parseElements PROVE IInv'
<1>1. CASE current = "RightCurly"
  <2>1. At("Elements") /\ Does(<<>>)
    BY <1>1 DEF parseElements
  <2>. QED  BY <2>1, CallLeft DEF Lists
<1>2. CASE current # "RightCurly"
  <2>. DEFINE steps == <<Call("Expression"), Call("Separator")>>
  <2>1. At("Elements") /\ Does(steps)
    BY <1>2 DEF parseElements
  <2>2. Replaces(steps, "Elements")
    BY ListRuns DEF Pieces, Lists, Fillers, Replaces
  <2>. QED  BY <2>1, <2>2, CallMade
<1>. QED  BY <1>1, <1>2

LEMMA parseSeparatorInv == ASSUME IInv, parseSeparator PROVE IInv'
<1>1. CASE current # "Comma"
  <2>1. At("Separator") /\ Does(<<>>)
    BY <1>1 DEF parseSeparator
  <2>. QED  BY <2>1, CallLeft DEF Lists
<1>2. CASE current = "Comma"
  <2>. DEFINE steps == <<Take("Comma"), Call("Elements")>>
  <2>1. At("Separator") /\ Does(steps)
    BY <1>2 DEF parseSeparator
  <2>2. Replaces(steps, "Separator")
    BY TokenAndListRuns DEF Pieces, Lists, Fillers, Bad, Brackets, Replaces
  <2>. QED  BY <2>1, <2>2, CallMade
<1>. QED  BY <1>1, <1>2

LEMMA parseExpressionInv == ASSUME IInv, parseExpression PROVE IInv'
<1>1. CASE current \in Types \cup {"End", "Return", "While", "For", "Function", "Call"}
  <2>1. Fail
    BY <1>1 DEF parseExpression, Types, Operands, BinaryOps
  <2>. QED  BY <2>1, FailInv
<1>2. CASE current = "Identifier" /\ ahead = "Equal"
  <2>1. At("Expression") /\ Does(<<Call("Assignment")>>)
    BY <1>2 DEF parseExpression, Types, Operands, BinaryOps
  <2>2. Replaces(<<Call("Assignment")>>, "Expression")
    BY PieceRuns DEF Pieces, Replaces
  <2>. QED  BY <2>1, <2>2, CallMade
<1>3. CASE current \in {"Minus", "Not"}
  <2>1. At("Expression") /\ Does(<<Call("Unary")>>)
    BY <1>3 DEF parseExpression, Types, Operands, BinaryOps
  <2>2. Replaces(<<Call("Unary")>>, "Expression")
    BY PieceRuns DEF Pieces, Replaces
  <2>. QED  BY <2>1, <2>2, CallMade
<1>4. CASE current \in Operands /\ ahead \in BinaryOps
  <2>1. At("Expression") /\ Does(<<Call("Binary")>>)
    BY <1>4 DEF parseExpression, Types, Operands, BinaryOps
  <2>2. Replaces(<<Call("Binary")>>, "Expression")
    BY PieceRuns DEF Pieces, Replaces
  <2>. QED  BY <2>1, <2>2, CallMade
<1>5. CASE /\ current \notin Types \cup {"End", "Return", "While", "For", "Function", "Call"}
           /\ ~(current = "Identifier" /\ ahead = "Equal")
           /\ current \notin {"Minus", "Not"}
           /\ ~(current \in Operands /\ ahead \in BinaryOps)
  <2>. DEFINE steps == <<Call("Primary"), Call("Methods")>>
  <2>1. At("Expression") /\ Does(steps)
    BY <1>5 DEF parseExpression, Types, Operands, BinaryOps
  <2>2. Replaces(steps, "Expression")
    BY ExpressionRuns DEF Replaces
  <2>. QED  BY <2>1, <2>2, CallMade
<1>. QED  BY <1>1, <1>2, <1>3, <1>4, <1>5

LEMMA parseMethodCallInv == ASSUME IInv, parseMethodCall PROVE IInv'
<1>1. CASE current = "ArrayAdd"
  <2>. DEFINE steps == <<Wrap, Take("ArrayAdd"), Call("Expression"), Take("RightParen"),
                         Take("Semicolon"), Make("add"), Call("Methods")>>
  <2>1. At("Methods") /\ Does(steps)
    BY <1>1 DEF parseMethodCall
  <2>2. Replaces(steps, "Methods")
    BY AddRuns DEF Replaces
  <2>. QED  BY <2>1, <2>2, CallMade
<1>2. CASE current = "ArrayRemove"
  <2>. DEFINE steps == <<Wrap, Take("ArrayRemove"), Take("RightParen"),
                         Take("Semicolon"), Make("remove"), Call("Methods")>>
  <2>1. At("Methods") /\ Does(steps)
    BY <1>2 DEF parseMethodCall
  <2>2. Replaces(steps, "Methods")
    BY RemoveRuns DEF Replaces
  <2>. QED  BY <2>1, <2>2, CallMade
<1>3. CASE current \notin {"ArrayAdd", "ArrayRemove"}
  <2>1. At("Methods") /\ Does(<<>>)
    BY <1>3 DEF parseMethodCall
  <2>. QED  BY <2>1, CallLeft DEF Lists
<1>. QED  BY <1>1, <1>2, <1>3

LEMMA parseAssignmentInv == ASSUME IInv, parseAssignment PROVE IInv'
<1>. DEFINE steps == Node("assign", <<Keep("Identifier"), Take("Equal"), Call("Parenthesis"),
                                      Call("Expression"), Take("Semicolon")>>)
<1>1. At("Assignment") /\ Does(steps)
  BY DEF parseAssignment
<1>2. Replaces(steps, "Assignment")
  BY AssignmentRuns DEF Replaces
<1>. QED  BY <1>1, <1>2, CallMade

LEMMA parseParenthesisInv == ASSUME IInv, parseParenthesis PROVE IInv'
<1>1. CASE current # "LeftParen"
  <2>1. At("Parenthesis") /\ Does(<<>>)
    BY <1>1 DEF parseParenthesis
  <2>. QED  BY <2>1, CallLeft DEF Lists
<1>2. CASE current = "LeftParen"
  <2>1. At("Parenthesis") /\ Does(<<Take("LeftParen")>>)
    BY <1>2 DEF parseParenthesis
  <2>2. Replaces(<<Take("LeftParen")>>, "Parenthesis")
    BY ParenthesisRuns DEF Replaces
  <2>. QED  BY <2>1, <2>2, CallMade
<1>. QED  BY <1>1, <1>2

LEMMA parseUnaryInv == ASSUME IInv, parseUnary PROVE IInv'
<1>1. CASE current \in {"Minus", "Not"}
  <2>. DEFINE steps == Node("unary", <<Keep(current), Call("Primary")>>)
  <2>1. At("Unary") /\ Does(steps)
    BY <1>1 DEF parseUnary
  <2>2. Replaces(steps, "Unary")
    BY <1>1, UnaryRuns DEF Bad, Brackets, Replaces
  <2>. QED  BY <2>1, <2>2, CallMade
<1>2. CASE current \notin {"Minus", "Not"}
  <2>1. At("Unary") /\ Does(<<Call("Primary")>>)
    BY <1>2 DEF parseUnary
  <2>2. Replaces(<<Call("Primary")>>, "Unary")
    BY PieceRuns DEF Pieces, Replaces
  <2>. QED  BY <2>1, <2>2, CallMade
<1>. QED  BY <1>1, <1>2

LEMMA parseBinaryInv == ASSUME IInv, parseBinary PROVE IInv'
<1>. DEFINE steps == Node("binary", <<Call("Unary"), Call("Operator"), Call("Unary")>>)
<1>1. At("Binary") /\ Does(steps)
  BY DEF parseBinary
<1>2. Replaces(steps, "Binary")
  BY BinaryRuns DEF Replaces
<1>. QED  BY <1>1, <1>2, CallMade

LEMMA parseOperatorInv == ASSUME IInv, parseOperator PROVE IInv'
<1>1. At("Operator") /\ current \in BinaryOps /\ Does(<<Keep(current)>>)
  BY DEF parseOperator
<1>2. Replaces(<<Keep(current)>>, "Operator")
  BY <1>1, KeepRuns DEF BinaryOps, Lists, Bad, Brackets, Replaces
<1>. QED  BY <1>1, <1>2, CallMade

LEMMA parsePrimaryInv == ASSUME IInv, parsePrimary PROVE IInv'
<1>1. CASE current \in {"Identifier"} \cup Literals
  <2>. DEFINE steps == Node("primary", <<Keep(current)>>)
  <2>1. At("Primary") /\ Does(steps)
    BY <1>1 DEF parsePrimary
  <2>2. Replaces(steps, "Primary")
    BY <1>1, PrimaryRuns DEF Literals, Bad, Brackets, Replaces
  <2>. QED  BY <2>1, <2>2, CallMade
<1>2. CASE current \notin {"Identifier"} \cup Literals
  <2>1. Fail
    BY <1>2 DEF parsePrimary
  <2>. QED  BY <2>1, FailInv
<1>. QED  BY <1>1, <1>2

LEMMA parseStatementInv == ASSUME IInv, parseStatement PROVE IInv'
<1>1. CASE current = "Loop"
  <2>1. At("Statement") /\ Does(<<Call("LoopStatement")>>)
    BY <1>1 DEF parseStatement
  <2>2. Replaces(<<Call("LoopStatement")>>, "Statement")
    BY PieceRuns DEF Pieces, Replaces
  <2>. QED  BY <2>1, <2>2, CallMade
<1>2. CASE current = "Log"
  <2>. DEFINE steps == Node("print", <<Take("Log"), Take("LeftParen"), Call("Unary"),
                                       Take("RightParen"), Take("Semicolon")>>)
  <2>1. At("Statement") /\ Does(steps)
    BY <1>2 DEF parseStatement
  <2>2. Replaces(steps, "Statement")
    BY PrintRuns DEF Replaces
  <2>. QED  BY <2>1, <2>2, CallMade
<1>3. CASE current = "If"
  <2>. DEFINE steps == Node("if", <<Take("If"), Take("LeftParen"), Call("Expression"),
                                    Take("RightParen"), Call("Block"), Call("Else")>>)
  <2>1. At("Statement") /\ Does(steps)
    BY <1>3 DEF parseStatement
  <2>2. Replaces(steps, "Statement")
    BY IfRuns DEF Replaces
  <2>. QED  BY <2>1, <2>2, CallMade
<1>4. CASE current = "Return"
  <2>. DEFINE steps == Node("return", <<Take("Return"), Take("LeftParen"), Call("Unary"),
                                        Take("RightParen"), Take("Semicolon")>>)
  <2>1. At("Statement") /\ Does(steps)
    BY <1>4 DEF parseStatement
  <2>2. Replaces(steps, "Statement")
    BY ReturnRuns DEF Replaces
  <2>. QED  BY <2>1, <2>2, CallMade
<1>5. CASE current \in {"For", "While", "Print"}
  <2>1. Fail
    BY <1>5 DEF parseStatement
  <2>. QED  BY <2>1, FailInv
<1>6. CASE current \notin {"Loop", "Log", "If", "Return", "For", "While", "Print"}
  <2>. DEFINE steps == Node("statement", <<Call("Expression")>>)
  <2>1. At("Statement") /\ Does(steps)
    BY <1>6 DEF parseStatement
  <2>2. Replaces(steps, "Statement")
    BY StatementRuns DEF Replaces
  <2>. QED  BY <2>1, <2>2, CallMade
<1>. QED  BY <1>1, <1>2, <1>3, <1>4, <1>5, <1>6

LEMMA parseElseInv == ASSUME IInv, parseElse PROVE IInv'
<1>1. CASE current # "Else"
  <2>1. At("Else") /\ Does(<<>>)
    BY <1>1 DEF parseElse
  <2>. QED  BY <2>1, CallLeft DEF Lists
<1>2. CASE current = "Else"
  <2>. DEFINE steps == <<Take("Else"), Call("Block")>>
  <2>1. At("Else") /\ Does(steps)
    BY <1>2 DEF parseElse
  <2>2. Replaces(steps, "Else")
    BY TokenAndListRuns DEF Pieces, Lists, Fillers, Bad, Brackets, Replaces
  <2>. QED  BY <2>1, <2>2, CallMade
<1>. QED  BY <1>1, <1>2

LEMMA parseLoopStatementInv == ASSUME IInv, parseLoopStatement PROVE IInv'
<1>. DEFINE steps == <<Begin, Take("Loop"), Call("LoopKind")>>
<1>1. At("LoopStatement") /\ Does(steps)
  BY DEF parseLoopStatement
<1>2. Replaces(steps, "LoopStatement")
  BY LoopStatementRuns DEF Replaces
<1>. QED  BY <1>1, <1>2, CallMade

LEMMA parseLoopKindInv == ASSUME IInv, parseLoopKind PROVE IInv'
<1>1. CASE current = "Range"
  <2>. DEFINE steps == <<Take("Range"), Take("LeftParen"), Call("Expression"), Take("Comma"),
                         Call("Expression"), Take("RightParen"), Call("Block"), Make("for")>>
  <2>1. At("LoopKind") /\ Does(steps)
    BY <1>1 DEF parseLoopKind
  <2>2. Replaces(steps, "LoopKind")
    BY ForRuns DEF Replaces
  <2>. QED  BY <2>1, <2>2, CallMade
<1>2. CASE current = "LeftParen"
  <2>. DEFINE steps == <<Take("LeftParen"), Call("Expression"), Take("RightParen"),
                         Call("Block"), Make("while")>>
  <2>1. At("LoopKind") /\ Does(steps)
    BY <1>2 DEF parseLoopKind
  <2>2. Replaces(steps, "LoopKind")
    BY WhileRuns DEF Replaces
  <2>. QED  BY <2>1, <2>2, CallMade
<1>3. CASE current \notin {"Range", "LeftParen"}
  <2>1. Fail
    BY <1>3 DEF parseLoopKind
  <2>. QED  BY <2>1, FailInv
<1>. QED  BY <1>1, <1>2, <1>3

LEMMA parseBlockInv == ASSUME IInv, parseBlock PROVE IInv'
<1>. DEFINE steps == Node("block", <<Take("LeftCurly"), Call("Statements"),
                                     Take("RightCurly")>>)
<1>1. At("Block") /\ Does(steps)
  BY DEF parseBlock
<1>2. Replaces(steps, "Block")
  BY BlockRuns DEF Replaces
<1>. QED  BY <1>1, <1>2, CallMade

LEMMA parseStatementsInv == ASSUME IInv, parseStatements PROVE IInv'
<1>1. CASE current \in {"RightCurly", "End"}
  <2>1. At("Statements") /\ Does(<<>>)
    BY <1>1 DEF parseStatements
  <2>. QED  BY <2>1, CallLeft DEF Lists
<1>2. CASE current \notin {"RightCurly", "End"}
  <2>. DEFINE steps == <<Call("Statement"), Call("Statements")>>
  <2>1. At("Statements") /\ Does(steps)
    BY <1>2 DEF parseStatements
  <2>2. Replaces(steps, "Statements")
    BY ListRuns DEF Pieces, Lists, Fillers, Replaces
  <2>. QED  BY <2>1, <2>2, CallMade
<1>. QED  BY <1>1, <1>2

LEMMA parseFunctionInv == ASSUME IInv, parseFunction PROVE IInv'
<1>1. CASE current = "Function"
  <2>. DEFINE steps == <<Call("FunctionDefinition")>>
  <2>1. At("Function") /\ Does(steps)
    BY <1>1 DEF parseFunction
  <2>2. Replaces(steps, "Function")
    BY PieceRuns DEF Pieces, Replaces
  <2>. QED  BY <2>1, <2>2, CallMade
<1>2. CASE current = "Call"
  <2>1. At("Function") /\ Does(<<Call("FunctionCall")>>)
    BY <1>2 DEF parseFunction
  <2>2. Replaces(<<Call("FunctionCall")>>, "Function")
    BY PieceRuns DEF Pieces, Replaces
  <2>. QED  BY <2>1, <2>2, CallMade
<1>3. CASE current \notin {"Function", "Call"}
  <2>1. Fail
    BY <1>3 DEF parseFunction
  <2>. QED  BY <2>1, FailInv
<1>. QED  BY <1>1, <1>2, <1>3

LEMMA parseFunctionDefinitionInv == ASSUME IInv, parseFunctionDefinition PROVE IInv'
<1>. DEFINE steps == Node("function", <<Take("Function"), Keep("Identifier"), Take("LeftParen"),
                                        Call("Parameters"), Take("RightParen"), Take("Arrow"),
                                        Call("ReturnType"), Take("LeftCurly"),
                                        Call("Statements"), Take("RightCurly")>>)
<1>1. At("FunctionDefinition") /\ Does(steps)
  BY DEF parseFunctionDefinition
<1>2. Replaces(steps, "FunctionDefinition")
  BY FunctionDefinitionRuns DEF Replaces
<1>. QED  BY <1>1, <1>2, CallMade

LEMMA parseParametersInv == ASSUME IInv, parseParameters PROVE IInv'
<1>1. CASE current = "RightParen"
  <2>1. At("Parameters") /\ Does(<<>>)
    BY <1>1 DEF parseParameters
  <2>. QED  BY <2>1, CallLeft DEF Lists
<1>2. CASE current \in {"Int", "Float", "String"}
  <2>. DEFINE steps == <<Begin, Keep(current), Take("Colon"), Keep("Identifier"),
                         Make("parameter"), Call("MoreParameters")>>
  <2>1. At("Parameters") /\ Does(steps)
    BY <1>2 DEF parseParameters
  <2>2. Replaces(steps, "Parameters")
    BY <1>2, ParameterRuns DEF Bad, Brackets, Replaces
  <2>. QED  BY <2>1, <2>2, CallMade
<1>3. CASE current \notin {"RightParen", "Int", "Float", "String"}
  <2>. DEFINE steps == <<Begin, Look, Take("Colon"), Keep("Identifier"),
                         Make("parameter"), Call("MoreParameters")>>
  <2>1. At("Parameters") /\ Does(steps)
    BY <1>3 DEF parseParameters
  <2>2. Replaces(steps, "Parameters")
    BY ParameterRuns DEF Replaces
  <2>. QED  BY <2>1, <2>2, CallMade
<1>. QED  BY <1>1, <1>2, <1>3

LEMMA parseMoreParametersInv == ASSUME IInv, parseMoreParameters PROVE IInv'
<1>1. CASE current = "Comma"
  <2>. DEFINE steps == <<Take("Comma"), Call("Parameters")>>
  <2>1. At("MoreParameters") /\ Does(steps)
    BY <1>1 DEF parseMoreParameters
  <2>2. Replaces(steps, "MoreParameters")
    BY TokenAndListRuns DEF Pieces, Lists, Fillers, Bad, Brackets, Replaces
  <2>. QED  BY <2>1, <2>2, CallMade
<1>2. CASE current = "RightParen"
  <2>1. At("MoreParameters") /\ Does(<<>>)
    BY <1>2 DEF parseMoreParameters
  <2>. QED  BY <2>1, CallLeft DEF Lists
<1>3. CASE current \notin {"Comma", "RightParen"}
  <2>1. Fail
    BY <1>3 DEF parseMoreParameters
  <2>. QED  BY <2>1, FailInv
<1>. QED  BY <1>1, <1>2, <1>3

LEMMA parseReturnTypeInv == ASSUME IInv, parseReturnType PROVE IInv'
<1>1. CASE current \in Types
  <2>1. At("ReturnType") /\ Does(<<Keep(current)>>)
    BY <1>1 DEF parseReturnType
  <2>2. Replaces(<<Keep(current)>>, "ReturnType")
    BY <1>1, KeepRuns DEF Types, Lists, Bad, Brackets, Replaces
  <2>. QED  BY <2>1, <2>2, CallMade
<1>2. CASE current \notin Types
  <2>1. Fail
    BY <1>2 DEF parseReturnType
  <2>. QED  BY <2>1, FailInv
<1>. QED  BY <1>1, <1>2

LEMMA parseFunctionCallInv == ASSUME IInv, parseFunctionCall PROVE IInv'
<1>. DEFINE steps == Node("call", <<Take("Call"), Keep("Identifier"), Take("LeftParen"),
                                    Call("Arguments"), Take("RightParen"), Take("Semicolon")>>)
<1>1. At("FunctionCall") /\ Does(steps)
  BY DEF parseFunctionCall
<1>2. Replaces(steps, "FunctionCall")
  BY FunctionCallRuns DEF Replaces
<1>. QED  BY <1>1, <1>2, CallMade

LEMMA parseArgumentsInv == ASSUME IInv, parseArguments PROVE IInv'
<1>1. CASE current = "RightParen"
  <2>1. At("Arguments") /\ Does(<<>>)
    BY <1>1 DEF parseArguments
  <2>. QED  BY <2>1, CallLeft DEF Lists
<1>2. CASE current # "RightParen"
  <2>. DEFINE steps == <<Call("Expression"), Call("MoreArguments")>>
  <2>1. At("Arguments") /\ Does(steps)
    BY <1>2 DEF parseArguments
  <2>2. Replaces(steps, "Arguments")
    BY ListRuns DEF Pieces, Lists, Fillers, Replaces
  <2>. QED  BY <2>1, <2>2, CallMade
<1>. QED  BY <1>1, <1>2

LEMMA parseMoreArgumentsInv == ASSUME IInv, parseMoreArguments PROVE IInv'
<1>1. CASE current = "Comma"
  <2>. DEFINE steps == <<Take("Comma"), Call("Arguments")>>
  <2>1. At("MoreArguments") /\ Does(steps)
    BY <1>1 DEF parseMoreArguments
  <2>2. Replaces(steps, "MoreArguments")
    BY TokenAndListRuns DEF Pieces, Lists, Fillers, Bad, Brackets, Replaces
  <2>. QED  BY <2>1, <2>2, CallMade
<1>2. CASE current = "RightParen"
  <2>1. At("MoreArguments") /\ Does(<<>>)
    BY <1>2 DEF parseMoreArguments
  <2>. QED  BY <2>1, CallLeft DEF Lists
<1>3. CASE current \notin {"Comma", "RightParen"}
  <2>1. Fail
    BY <1>3 DEF parseMoreArguments
  <2>. QED  BY <2>1, FailInv
<1>. QED  BY <1>1, <1>2, <1>3

\* The program ends where nothing is open.
LEMMA parseProgramInv == ASSUME IInv, parseProgram PROVE IInv'
<1>1. CASE current = "End"
  <2>1. At("Program") /\ status' = "parsed" /\ todo' = <<>>
        /\ UNCHANGED <<vocabulary, consumed, current, ahead, built, program>>
    BY <1>1 DEF parseProgram
  <2>2. PICK x \in Place, z \in Place, y \in Place :
          Stands(x) /\ Calls(Call("Program"), x, z) /\ Runs(Tail(todo), z, y)
    BY <2>1, StandingAtCall
  <2>3. x.level = 1 /\ x.parts = 0 /\ x.open = 0
    BY <2>2 DEF Calls, Call, Step, Pieces, Lists
  <2>4. Len(built) = 1 /\ Len(built[1].parts) = 0 /\ Unclosed(consumed) = 0
    BY <2>2, <2>3 DEF Stands
  <2>5. Unclosed(consumed)' = Unclosed(consumed)
    BY <2>1 DEF Unclosed, Opened, Closed, Free
  <2>6. AreNodes(built)'
    BY <2>1, NodesAre DEF IInv
  <2>. QED  BY <2>1, <2>4, <2>5, <2>6 DEF IInv
<1>2. CASE current # "End"
  <2>. DEFINE list == ListOf(current)
              f == ParserOf(list)
  <2>1. At("Program") /\ Does(<<Call(f), File(list), Call("Program")>>)
    BY <1>2 DEF parseProgram
  <2>2. f \in Pieces
    <3>1. list \in {"functions", "declarations", "statements", "expressions"}
      BY DEF ListOf
    <3>. HIDE DEF list
    <3>. QED  BY <3>1 DEF ParserOf, Pieces
  <2>. HIDE DEF list, f
  <2>3. Replaces(<<Call(f), File(list), Call("Program")>>, "Program")
    BY <2>2, ProgramRuns DEF Replaces
  <2>. QED  BY <2>1, <2>3, CallMade
<1>. QED  BY <1>1, <1>2

\* At the start the program is the one node, without parts.
LEMMA InitInv == ASSUME Init PROVE IInv
<1>1. vocabulary.kinds \subseteq Stream!Kinds
  BY VocabulariesAssumption DEF Init
<1>2. current \in Stream!Kinds /\ ahead \in Stream!Kinds
  BY <1>1 DEF Init, NextOf, Stream!Kinds
<1>. DEFINE e == [node |-> "program", at |-> 1, parts |-> <<>>]
            x == PlaceAt(1, 0, 0, "unknown")
<1>3. Row(<<>>)
  BY EmptySeq, SequenceIsRow
<1>4. IsNode(e) /\ Len(e.parts) = 0
  BY <1>3 DEF IsNode
<1>5. built = <<e>>
  BY DEF Init
<1>. HIDE DEF e
<1>6. AreNodes(built) /\ Len(built) = 1 /\ built[1] = e
  <2>1. <<e>> \in Seq({e})
    OBVIOUS
  <2>2. Row(<<e>>)
    BY <2>1, SequenceIsRow
  <2>. QED  BY <1>4, <1>5, <2>2 DEF AreNodes
<1>7. consumed = <<>> /\ Unclosed(consumed) = 0
  <2>. DEFINE none == <<>>
  <2>1. consumed = none
    BY DEF Init
  <2>2. Opened(none) = {} /\ Closed(none) = {} /\ Free(none) = {}
    BY DEF Opened, Closed, Free
  <2>3. Cardinality({}) = 0
    BY FS_EmptySet
  <2>. HIDE DEF none
  <2>4. Unclosed(none) = 0
    BY <2>2, <2>3 DEF Unclosed
  <2>. QED  BY <2>1, <2>4 DEF none
<1>8. x \in Place /\ x.level = 1 /\ x.parts = 0 /\ x.open = 0 /\ x.after = "unknown"
  BY DEF Place, PlaceAt
<1>. HIDE DEF x
<1>9. Stands(x)
  BY <1>4, <1>6, <1>7, <1>8 DEF Stands, Last
<1>10. Leads(Call("Program"), x, x)
  BY <1>8 DEF Leads, Calls, Call, Step, Moves
<1>11. Runs(todo, x, x)
  BY <1>8, <1>10, OneStep DEF Init
<1>12. consumed \in Seq(Stream!Kinds \ Bad)
  BY <1>7, EmptySeq
<1>. QED  BY <1>2, <1>6, <1>8, <1>9, <1>11, <1>12 DEF Init, IInv

\* Every step of the parser.
LEMMA NextInv == ASSUME IInv, [Next]_vars PROVE IInv'
<1>1. CASE consume
  BY <1>1, consumeInv
<1>2. CASE BuildNode
  BY <1>2, BuildNodeInv
<1>3. CASE FileItem
  BY <1>3, FileItemInv
<1>4. CASE \/ parseProgram \/ parseDeclaration \/ parseBoolDeclaration \/ parseTruth
           \/ parseArrayDeclaration \/ parseElements \/ parseSeparator
  BY <1>4, parseProgramInv, parseDeclarationInv, parseBoolDeclarationInv, parseTruthInv,
     parseArrayDeclarationInv, parseElementsInv, parseSeparatorInv
<1>5. CASE \/ parseExpression \/ parseMethodCall \/ parseAssignment \/ parseParenthesis
           \/ parseUnary \/ parseBinary \/ parseOperator \/ parsePrimary
  BY <1>5, parseExpressionInv, parseMethodCallInv, parseAssignmentInv, parseParenthesisInv,
     parseUnaryInv, parseBinaryInv, parseOperatorInv, parsePrimaryInv
<1>6. CASE \/ parseStatement \/ parseElse \/ parseLoopStatement \/ parseLoopKind
           \/ parseBlock \/ parseStatements
  BY <1>6, parseStatementInv, parseElseInv, parseLoopStatementInv, parseLoopKindInv,
     parseBlockInv, parseStatementsInv
<1>7. CASE \/ parseFunction \/ parseFunctionDefinition \/ parseParameters
           \/ parseMoreParameters \/ parseReturnType
           \/ parseFunctionCall \/ parseArguments \/ parseMoreArguments
  BY <1>7, parseFunctionInv, parseFunctionDefinitionInv, parseParametersInv,
     parseMoreParametersInv, parseReturnTypeInv, parseFunctionCallInv, parseArgumentsInv,
     parseMoreArgumentsInv
<1>8. CASE UNCHANGED vars
  <2>1. UNCHANGED <<vocabulary, consumed, current, ahead, todo, built, program, status>>
    BY <1>8 DEF vars
  <2>2. AreNodes(built)'
    BY <2>1, NodesAre DEF IInv
  <2>3. Unclosed(consumed)' = Unclosed(consumed)
    BY <2>1 DEF Unclosed, Opened, Closed, Free
  <2>4. \A x \in Place, y \in Place :
          Stands(x) /\ Runs(todo, x, y) => (Stands(x) /\ Runs(todo, x, y))'
    <3>1. ASSUME NEW x \in Place, NEW y \in Place, Stands(x), Runs(todo, x, y)
          PROVE  (Stands(x) /\ Runs(todo, x, y))'
      <4>1. Stands(x)'
        BY <2>1, <3>1, StandsKept
      <4>2. Runs(todo, x, y)'
        BY <2>1, <3>1 DEF Runs, Way, Row
      <4>. QED  BY <4>1, <4>2
    <3>. QED  BY <3>1
  <2>5. status' = "parsing" => (\E x \in Place, y \in Place : Stands(x) /\ Runs(todo, x, y))'
    BY <2>1, <2>4 DEF IInv
  <2>. QED  BY <2>1, <2>2, <2>3, <2>5 DEF IInv
<1>. QED  BY <1>1, <1>2, <1>3, <1>4, <1>5, <1>6, <1>7, <1>8 DEF Next, Parse, Finished

\* The calls under way lead to the end of the program, in every state.
THEOREM CallsLeadToTheEnd == Spec => []IInv
<1>1. Init => IInv
  BY InitInv
<1>2. IInv /\ [Next]_vars => IInv'
  BY NextInv
<1>. QED  BY <1>1, <1>2, PTL DEF Spec
-----------------------------------------------------------------------------
(***************************************************************************)
(* What follows from it.                                                   *)
(***************************************************************************)
LEMMA NoParts ==
  ASSUME NEW t, Row(t), Len(t) = 0
  PROVE  t = <<>>
<1>1. PICK S : t \in Seq(S)
  BY DEF Row
<1>. QED  BY <1>1, EmptySeq

\* An item goes to its list where the program is the only node that is open and
\* has this one part; in the end it is the only node, without parts.
LEMMA TypesHold == ASSUME IInv PROVE TypeOK
<1>. DEFINE K == Stream!Kinds \ Bad
<1>1. consumed \in Seq(Stream!Kinds)
  <2>1. consumed \in Seq(K) /\ K \subseteq Stream!Kinds
    BY DEF IInv
  <2>. HIDE DEF K
  <2>. QED  BY <2>1
<1>2. status # "failed" => built # <<>>
  <2>. SUFFICES ASSUME status # "failed" PROVE built # <<>>
    OBVIOUS
  <2>1. CASE status = "parsing"
    <3>1. PICK x \in Place : Stands(x)
      BY <2>1 DEF IInv
    <3>2. Len(built) > 0
      BY <3>1, NumbersOfPlace DEF Stands
    <3>. QED  BY <3>2
  <2>2. CASE status = "parsed"
    <3>1. Len(built) = 1
      BY <2>2 DEF IInv
    <3>. QED  BY <3>1
  <2>3. status \in {"parsing", "parsed", "failed"}
    BY DEF IInv
  <2>. QED  BY <2>1, <2>2, <2>3
<1>3. Doing("file") => Len(built) = 1 /\ Len(Open.parts) = 1
  <2>. SUFFICES ASSUME Doing("file") PROVE Len(built) = 1 /\ Len(Open.parts) = 1
    OBVIOUS
  <2>1. status = "parsing" /\ todo # <<>> /\ Head(todo).do = "file"
    BY DEF Doing
  <2>2. PICK x \in Place, z \in Place : Stands(x) /\ Leads(Head(todo), x, z)
    BY <2>1, Standing
  <2>3. x.level = 1 /\ x.parts = 1
    BY <2>1, <2>2 DEF Leads, Token, Builds, Calls
  <2>. QED  BY <2>2, <2>3 DEF Stands, Open
<1>4. status = "parsed" => todo = <<>> /\ Len(built) = 1 /\ Open.parts = <<>>
  <2>. SUFFICES ASSUME status = "parsed"
                PROVE  todo = <<>> /\ Len(built) = 1 /\ Open.parts = <<>>
    OBVIOUS
  <2>1. todo = <<>> /\ Len(built) = 1 /\ Len(built[1].parts) = 0
    BY DEF IInv
  <2>2. Row(built[1].parts)
    BY <2>1 DEF IInv, AreNodes, IsNode
  <2>3. built[1].parts = <<>>
    BY <2>1, <2>2, NoParts
  <2>. QED  BY <2>1, <2>3 DEF Open
<1>. QED  BY <1>1, <1>2, <1>3, <1>4 DEF TypeOK, IInv

\* What a parse function has begun it returns, for every text: the parser's
\* state keeps its types, each item of the program is complete when it is filed,
\* and no node is left over at the end.
THEOREM ParserTypeCorrect == Spec => []TypeOK
<1>1. IInv => TypeOK
  BY TypesHold
<1>. QED  BY <1>1, CallsLeadToTheEnd, PTL

\* The parser never goes on over a dot, an unexpected character or the end.
THEOREM BadTokensAreNotPassed == Spec => []StopsAtBadTokens
<1>1. IInv => StopsAtBadTokens
  <2>. SUFFICES ASSUME IInv, NEW i \in 1..Len(consumed)
                PROVE  consumed[i] \notin {"Dot", "Unexpected", "End"}
    BY DEF StopsAtBadTokens
  <2>. DEFINE K == Stream!Kinds \ Bad
  <2>1. consumed \in Seq(K)
    BY DEF IInv
  <2>. HIDE DEF K
  <2>2. consumed[i] \in K
    BY <2>1, ElementOfSeq
  <2>. QED  BY <2>2 DEF K, Bad
<1>. QED  BY <1>1, CallsLeadToTheEnd, PTL

\* In every accepted text all parentheses are closed, except those after the
\* equals signs of assignments, none of which is.
THEOREM ParenthesesStayOpen == Spec => []OpenParentheses
<1>1. IInv => OpenParentheses
  <2>. SUFFICES ASSUME IInv, status = "parsed"
                PROVE  Cardinality(Opened(consumed)) - Cardinality(Closed(consumed))
                         = Cardinality(Free(consumed))
    BY DEF OpenParentheses, Opened, Closed, Free
  <2>1. Unclosed(consumed) = 0
    BY DEF IInv
  <2>2. /\ Cardinality(Opened(consumed)) \in Nat /\ Cardinality(Closed(consumed)) \in Nat
        /\ Cardinality(Free(consumed)) \in Nat
    <3>1. Len(consumed) \in Nat
      BY LenProperties DEF IInv
    <3>2. /\ Opened(consumed) \subseteq 1..Len(consumed)
          /\ Closed(consumed) \subseteq 1..Len(consumed)
          /\ Free(consumed) \subseteq 1..Len(consumed)
      BY <3>1 DEF Opened, Closed, Free
    <3>. QED  BY <3>1, <3>2, OneMore
  <2>. QED  BY <2>1, <2>2 DEF Unclosed
<1>. QED  BY <1>1, CallsLeadToTheEnd, PTL
=============================================================================
