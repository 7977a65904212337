------------------------ MODULE CompilerShapeProofs ------------------------
(***************************************************************************)
(* The shape of what the generator builds: which functions have valid      *)
(* control flow, whatever their loops and branches and however they nest.  *)
(***************************************************************************)
EXTENDS CompilerProofs

-----------------------------------------------------------------------------
(***************************************************************************)
(* The shape of a body while it is generated.                              *)
(***************************************************************************)
\* What Tidy asks of one node, and whether the visit of a node leaves the code that
\* Tidy counts on: a ret its return, and any node code at all.
NodeTidy(i) ==
  /\ ast[i].node # "if"
  /\ Leaves(i - 1) => ast[i].node = "end" /\ ast[i].of \in {"thenElse", "else", "function"}
  /\ ast[i].node = "end" /\ ast[i].of = "thenElse" => Leaves(i - 1)
KeepsReturn(i) == ast[i].node = "return" => Finds(i)
Shows(i)       == ast[i].node \notin {"if", "expression"} /\ Finds(i)

\* What holds of all nodes of a function before node p.
TidySoFar(f, p)   == \A i \in f + 1..p - 1 : NodeTidy(i)
ReturnsShow(f, p) == \A i \in f + 1..p - 1 : KeepsReturn(i)
Branches(f, p)    == \E i \in f + 1..p - 1 : ast[i].node \in {"for", "while", "if", "ifElse"}
Bare(f, p)        == \A i \in f + 1..p - 1 : Shows(i)

\* Code without a terminator, and code that goes on after one.
IsStraight(code) == \A j \in 1..Len(code) : code[j].op \notin Gen!Terminators
EndsEarly(code)  == \E j \in 1..Len(code) - 1 : code[j].op \in Gen!Terminators
GoesTo(code, n)  == \A j \in 1..Len(code) : code[j].to \subseteq 2..n

\* Some frame goes on in block c.
Awaited(fr, c) == \E i \in 1..Len(fr) : fr[i].next = c

\* A tidy body has closed every block that no frame waits for, but for its
\* current one b unless that has just been left.
CurrentIs(block, left) == IF left THEN BlockIsClosed(block) ELSE IsStraight(block)
Settled(blocks, b, fr, left) ==
  \A c \in 1..Len(blocks) :
    IF c = b THEN CurrentIs(blocks[c], left) ELSE Awaited(fr, c) \/ BlockIsClosed(blocks[c])

\* What makes a function invalid for good.
Broken(blocks, b, fr) ==
  \/ \E c \in 1..Len(blocks) : EndsEarly(blocks[c])
  \/ \E c \in 2..Len(blocks) : c # b /\ ~Awaited(fr, c) /\ ~Gen!Terminated(blocks[c])

\* A frame waits for a block of its own that is not the entry; that of an if
\* without an else waits for none.
FramePlaced(g, bare) ==
  /\ g.next # 1 /\ g.back # 1
  /\ g.kind \in {"for", "while"} => g.next # 0 /\ g.back # 0
  /\ g.kind = "thenElse" => g.next # 0
  /\ g.kind \in {"then", "else", "function"} => g.next = 0
  /\ g.kind = "then" => ~bare

Placed(f, p, blocks, b, fr) ==
  /\ IF Branches(f, p) THEN b # 1 ELSE Len(blocks) = 1
  /\ \A i \in 1..Len(fr) : FramePlaced(fr[i], Bare(f, p))
  /\ \A c \in 1..Len(blocks) : GoesTo(blocks[c], Len(blocks))

Shaped(f, p, blocks, b, fr) ==
  /\ TidySoFar(f, p) /\ ReturnsShow(f, p) => Settled(blocks, b, fr, Leaves(p - 1))
  /\ Bare(f, p) /\ ~TidySoFar(f, p) => Broken(blocks, b, fr)

-----------------------------------------------------------------------------
(***************************************************************************)
(* Code that follows code.                                                 *)
(***************************************************************************)
LEMMA Concatenated ==
  ASSUME NEW a \in Code, NEW b \in Code
  PROVE  /\ a \o b \in Code /\ Len(a) \in Nat /\ Len(b) \in Nat
         /\ Len(a \o b) = Len(a) + Len(b)
         /\ \A j \in 1..Len(a) : (a \o b)[j] = a[j]
         /\ \A j \in 1..Len(b) : (a \o b)[Len(a) + j] = b[j]
         /\ \A j \in 1..Len(a) + Len(b) :
              j \in 1..Len(a) \/ (j - Len(a) \in 1..Len(b) /\ (a \o b)[j] = b[j - Len(a)])
<1>1. a \in Seq(Instruction) /\ b \in Seq(Instruction) /\ Len(a) \in Nat /\ Len(b) \in Nat
  BY LenProperties DEF Code
<1>. DEFINE c == a \o b
<1>2. /\ c \in Seq(Instruction) /\ Len(c) = Len(a) + Len(b)
      /\ \A j \in 1..Len(a) + Len(b) : c[j] = IF j <= Len(a) THEN a[j] ELSE b[j - Len(a)]
  BY <1>1, ConcatProperties
<1>. HIDE DEF c
<1>3. ASSUME NEW j \in 1..Len(b) PROVE c[Len(a) + j] = b[j]
  <2>1. Len(a) + j \in 1..Len(a) + Len(b) /\ ~(Len(a) + j <= Len(a)) /\ Len(a) + j - Len(a) = j
    BY <1>1
  <2>. QED  BY <1>2, <2>1
<1>4. ASSUME NEW j \in 1..Len(a) PROVE c[j] = a[j]
  BY <1>1, <1>2
<1>5. ASSUME NEW j \in 1..Len(a) + Len(b), j \notin 1..Len(a)
      PROVE  j - Len(a) \in 1..Len(b) /\ c[j] = b[j - Len(a)]
  BY <1>1, <1>2, <1>5
<1>. QED  BY <1>1, <1>2, <1>3, <1>4, <1>5 DEF c, Code

LEMMA StraightOn ==
  ASSUME NEW a \in Code, NEW b \in Code, IsStraight(a), IsStraight(b)
  PROVE  IsStraight(a \o b)
<1>1. PICK c : c = a \o b
  OBVIOUS
<1>2. /\ Len(c) = Len(a) + Len(b)
      /\ \A j \in 1..Len(a) : c[j] = a[j]
      /\ \A j \in 1..Len(a) + Len(b) :
           j \in 1..Len(a) \/ (j - Len(a) \in 1..Len(b) /\ c[j] = b[j - Len(a)])
  BY <1>1, Concatenated
<1>3. ASSUME NEW j \in 1..Len(c) PROVE c[j].op \notin Gen!Terminators
  <2>1. CASE j \in 1..Len(a)
    BY <1>2, <2>1 DEF IsStraight
  <2>2. CASE j \notin 1..Len(a)
    BY <1>2, <2>2 DEF IsStraight
  <2>. QED  BY <2>1, <2>2
<1>. QED  BY <1>1, <1>3 DEF IsStraight

LEMMA ClosedAfter ==
  ASSUME NEW a \in Code, NEW b \in Code, IsStraight(a), BlockIsClosed(b)
  PROVE  BlockIsClosed(a \o b)
<1>1. PICK c : c = a \o b
  OBVIOUS
<1>2. /\ c \in Code /\ Len(a) \in Nat /\ Len(b) \in Nat /\ Len(c) = Len(a) + Len(b)
      /\ \A j \in 1..Len(a) : c[j] = a[j]
      /\ \A j \in 1..Len(b) : c[Len(a) + j] = b[j]
      /\ \A j \in 1..Len(a) + Len(b) :
           j \in 1..Len(a) \/ (j - Len(a) \in 1..Len(b) /\ c[j] = b[j - Len(a)])
  BY <1>1, Concatenated
<1>3. Len(b) # 0
  BY EmptySeq DEF BlockIsClosed, Gen!Terminated, Code
<1>4. Gen!Terminated(c)
  <2>1. c[Len(c)] = b[Len(b)] /\ Len(c) # 0
    BY <1>2, <1>3
  <2>2. c # <<>>
    BY <2>1, EmptySeq
  <2>. QED  BY <2>1, <2>2 DEF BlockIsClosed, Gen!Terminated
<1>5. ASSUME NEW j \in 1..Len(c) - 1 PROVE c[j].op \notin Gen!Terminators
  <2>1. CASE j \in 1..Len(a)
    BY <1>2, <2>1 DEF IsStraight
  <2>2. CASE j \notin 1..Len(a)
    <3>1. j - Len(a) \in 1..Len(b) - 1 /\ c[j] = b[j - Len(a)]
      BY <1>2, <1>5, <2>2
    <3>. QED  BY <3>1 DEF BlockIsClosed
  <2>. QED  BY <2>1, <2>2
<1>. QED  BY <1>1, <1>4, <1>5 DEF BlockIsClosed

LEMMA EarlyAfter ==
  ASSUME NEW a \in Code, NEW b \in Code, Gen!Terminated(a), b # <<>>
  PROVE  EndsEarly(a \o b)
<1>1. Len(a) # 0 /\ Len(b) # 0
  BY EmptySeq DEF Gen!Terminated, Code
<1>2. PICK c : c = a \o b
  OBVIOUS
<1>3. /\ Len(a) \in Nat /\ Len(b) \in Nat /\ Len(c) = Len(a) + Len(b)
      /\ \A j \in 1..Len(a) : c[j] = a[j]
  BY <1>2, Concatenated
<1>4. Len(a) \in 1..Len(c) - 1 /\ c[Len(a)] = a[Len(a)]
  BY <1>1, <1>3
<1>5. c[Len(a)].op \in Gen!Terminators
  BY <1>4 DEF Gen!Terminated
<1>. QED  BY <1>2, <1>4, <1>5 DEF EndsEarly

LEMMA EarlyStays ==
  ASSUME NEW a \in Code, NEW b \in Code, EndsEarly(a)
  PROVE  EndsEarly(a \o b)
<1>1. PICK c : c = a \o b
  OBVIOUS
<1>2. /\ Len(a) \in Nat /\ Len(b) \in Nat /\ Len(c) = Len(a) + Len(b)
      /\ \A j \in 1..Len(a) : c[j] = a[j]
  BY <1>1, Concatenated
<1>3. PICK j \in 1..Len(a) - 1 : a[j].op \in Gen!Terminators
  BY DEF EndsEarly
<1>4. j \in 1..Len(a) /\ j \in 1..Len(c) - 1
  BY <1>2
<1>. QED  BY <1>1, <1>2, <1>3, <1>4 DEF EndsEarly

LEMMA GoesOnTo ==
  ASSUME NEW a \in Code, NEW b \in Code, NEW n \in Nat, GoesTo(a, n), GoesTo(b, n)
  PROVE  GoesTo(a \o b, n)
<1>1. PICK c : c = a \o b
  OBVIOUS
<1>2. /\ Len(c) = Len(a) + Len(b)
      /\ \A j \in 1..Len(a) : c[j] = a[j]
      /\ \A j \in 1..Len(a) + Len(b) :
           j \in 1..Len(a) \/ (j - Len(a) \in 1..Len(b) /\ c[j] = b[j - Len(a)])
  BY <1>1, Concatenated
<1>3. ASSUME NEW j \in 1..Len(c) PROVE c[j].to \subseteq 2..n
  <2>1. CASE j \in 1..Len(a)
    BY <1>2, <2>1 DEF GoesTo
  <2>2. CASE j \notin 1..Len(a)
    BY <1>2, <2>2 DEF GoesTo
  <2>. QED  BY <2>1, <2>2
<1>. QED  BY <1>1, <1>3 DEF GoesTo

LEMMA GoesFurther ==
  ASSUME NEW a \in Code, NEW n \in Nat, NEW m \in Nat, n <= m, GoesTo(a, n)
  PROVE  GoesTo(a, m)
<1>1. 2..n \subseteq 2..m
  OBVIOUS
<1>. QED  BY <1>1 DEF GoesTo

\* Code that ends with its only terminator.
LEMMA Closing ==
  ASSUME NEW a \in Code, IsStraight(a), NEW i \in Instruction, i.op \in Gen!Terminators
  PROVE  Append(a, i) \in Code /\ BlockIsClosed(Append(a, i)) /\ Append(a, i) # <<>>
<1>1. PICK c : c = Append(a, i)
  OBVIOUS
<1>2. /\ c \in Seq(Instruction) /\ Len(c) = Len(a) + 1 /\ Len(a) \in Nat
      /\ c[Len(a) + 1] = i /\ \A j \in 1..Len(a) : c[j] = a[j] /\ c # <<>>
  BY <1>1, AppendProperties, LenProperties DEF Code
<1>3. Len(c) - 1 = Len(a) /\ c[Len(c)] = i
  BY <1>2
<1>4. Gen!Terminated(c)
  BY <1>2, <1>3 DEF Gen!Terminated
<1>5. BlockIsClosed(c)
  BY <1>2, <1>3, <1>4 DEF BlockIsClosed, IsStraight
<1>. QED  BY <1>1, <1>2, <1>5 DEF Code

LEMMA GoesToLast ==
  ASSUME NEW a \in Code, NEW i \in Instruction, NEW n, GoesTo(a, n), i.to \subseteq 2..n
  PROVE  GoesTo(Append(a, i), n)
<1>1. PICK c : c = Append(a, i)
  OBVIOUS
<1>2. /\ Len(c) = Len(a) + 1 /\ Len(a) \in Nat
      /\ c[Len(a) + 1] = i /\ \A j \in 1..Len(a) : c[j] = a[j]
  BY <1>1, AppendProperties, LenProperties DEF Code
<1>3. ASSUME NEW j \in 1..Len(c) PROVE j \in 1..Len(a) \/ j = Len(a) + 1
  BY <1>2
<1>. QED  BY <1>1, <1>2, <1>3 DEF GoesTo

LEMMA NoCode == <<>> \in Code /\ IsStraight(<<>>) /\ \A n : GoesTo(<<>>, n)
<1>1. Len(<<>>) = 0 /\ <<>> \in Code
  BY EmptySeq DEF Code
<1>. QED  BY <1>1 DEF IsStraight, GoesTo

\* A block is closed or straight, not both.
LEMMA ClosedIsNotStraight ==
  ASSUME NEW a \in Code, IsStraight(a)
  PROVE  ~Gen!Terminated(a)
<1>1. a # <<>> => Len(a) \in 1..Len(a)
  BY EmptySeq, LenProperties DEF Code
<1>. QED  BY <1>1 DEF IsStraight, Gen!Terminated

-----------------------------------------------------------------------------
(***************************************************************************)
(* One visit in a body, as its blocks see it.                              *)
(***************************************************************************)
\* Code goes to the current block cur, and d becomes the current one: the same,
\* one that a frame waited for, or a new one.  The other new blocks are closed
\* or awaited, and no frame but that of d stops waiting.
Builds(old, cur, fr, new, d, gr, code) ==
  /\ old \in Seq(Code) /\ new \in Seq(Code) /\ code \in Code
  /\ cur \in 1..Len(old) /\ d \in 1..Len(new)
  /\ Len(old) \in Nat /\ Len(new) \in Nat /\ Len(old) <= Len(new)
  /\ new[cur] = old[cur] \o code
  /\ \A c \in 1..Len(old) : c # cur => new[c] = old[c]
  /\ \A c \in 1..Len(new) :
       c \in 1..Len(old) \/ c = d \/ Awaited(gr, c) \/ BlockIsClosed(new[c])
  /\ d # cur => new[d] = <<>>
  /\ ~Awaited(fr, cur)
  /\ d \in 1..Len(old) /\ d # cur => Awaited(fr, d)
  /\ \A c \in 1..Len(old) : /\ Awaited(gr, c) => Awaited(fr, c)
                            /\ Awaited(fr, c) => c = d \/ Awaited(gr, c)

LEMMA BuildsFacts ==
  ASSUME NEW old, NEW cur, NEW fr, NEW new, NEW d, NEW gr, NEW code,
         Builds(old, cur, fr, new, d, gr, code)
  PROVE  /\ \A c \in 1..Len(old) : old[c] \in Code /\ c \in 1..Len(new)
         /\ \A c \in 1..Len(new) : new[c] \in Code
         /\ code \in Code
<1>1. old \in Seq(Code) /\ new \in Seq(Code) /\ code \in Code
  BY DEF Builds
<1>2. Len(old) \in Nat /\ Len(new) \in Nat /\ Len(old) <= Len(new)
  BY DEF Builds
<1>3. \A c \in 1..Len(old) : c \in 1..Len(new)
  BY <1>2
<1>. QED  BY <1>1, <1>3, ElementOfSeq

LEMMA SettledGoesOn ==
  ASSUME NEW old, NEW cur, NEW fr, NEW new, NEW d, NEW gr, NEW code,
         Builds(old, cur, fr, new, d, gr, code),
         NEW left \in BOOLEAN, Settled(old, cur, fr, left), NEW more \in BOOLEAN,
         CurrentIs(old[cur], left) =>
           IF d = cur THEN CurrentIs(new[cur], more) ELSE BlockIsClosed(new[cur]) /\ ~more
  PROVE  Settled(new, d, gr, more)
<1>1. CurrentIs(old[cur], left)
  BY DEF Settled, Builds
<1>2. CurrentIs(new[d], more)
  <2>1. CASE d = cur
    BY <1>1, <2>1
  <2>2. CASE d # cur
    <3>1. new[d] = <<>> /\ ~more
      BY <1>1, <2>2 DEF Builds
    <3>. QED  BY <3>1, NoCode DEF CurrentIs
  <2>. QED  BY <2>1, <2>2
<1>3. ASSUME NEW c \in 1..Len(new), c # d PROVE Awaited(gr, c) \/ BlockIsClosed(new[c])
  <2>1. CASE c = cur
    BY <1>1, <1>3, <2>1
  <2>2. CASE c \in 1..Len(old) /\ c # cur
    <3>1. Awaited(fr, c) \/ BlockIsClosed(old[c])
      BY <2>2 DEF Settled
    <3>2. new[c] = old[c] /\ (Awaited(fr, c) => c = d \/ Awaited(gr, c))
      BY <2>2 DEF Builds
    <3>. QED  BY <1>3, <3>1, <3>2
  <2>3. CASE c \notin 1..Len(old)
    BY <1>3, <2>3 DEF Builds
  <2>. QED  BY <2>1, <2>2, <2>3
<1>. QED  BY <1>2, <1>3 DEF Settled

LEMMA BrokenGoesOn ==
  ASSUME NEW old, NEW cur, NEW fr, NEW new, NEW d, NEW gr, NEW code,
         Builds(old, cur, fr, new, d, gr, code), Broken(old, cur, fr)
  PROVE  Broken(new, d, gr)
<1>0. /\ \A c \in 1..Len(old) : old[c] \in Code /\ c \in 1..Len(new)
      /\ code \in Code
  BY BuildsFacts
<1>1. CASE \E c \in 1..Len(old) : EndsEarly(old[c])
  <2>1. PICK c \in 1..Len(old) : EndsEarly(old[c])
    BY <1>1
  <2>2. EndsEarly(new[c])
    <3>1. CASE c = cur
      <4>1. EndsEarly(old[c] \o code)
        BY <1>0, <2>1, EarlyStays
      <4>. QED  BY <3>1, <4>1 DEF Builds
    <3>2. CASE c # cur
      BY <2>1, <3>2 DEF Builds
    <3>. QED  BY <3>1, <3>2
  <2>. QED  BY <1>0, <2>2 DEF Broken
<1>2. CASE \E c \in 2..Len(old) : c # cur /\ ~Awaited(fr, c) /\ ~Gen!Terminated(old[c])
  <2>1. PICK c \in 2..Len(old) : c # cur /\ ~Awaited(fr, c) /\ ~Gen!Terminated(old[c])
    BY <1>2
  <2>2. c \in 1..Len(old) /\ c \in 2..Len(new)
    BY DEF Builds
  <2>3. new[c] = old[c] /\ c # d /\ ~Awaited(gr, c)
    BY <2>1, <2>2 DEF Builds
  <2>. QED  BY <2>1, <2>2, <2>3 DEF Broken
<1>. QED  BY <1>1, <1>2 DEF Broken

\* What is not tidy puts code after a terminator or leaves a block without one.
LEMMA BreaksNow ==
  ASSUME NEW old, NEW cur, NEW fr, NEW new, NEW d, NEW gr, NEW code,
         Builds(old, cur, fr, new, d, gr, code),
         NEW left \in BOOLEAN, CurrentIs(old[cur], left),
         \/ left /\ code # <<>>
         \/ ~left /\ cur # 1 /\ d # cur /\ code = <<>>
  PROVE  Broken(new, d, gr)
<1>0. /\ cur \in 1..Len(old) /\ cur \in 1..Len(new) /\ old[cur] \in Code /\ code \in Code
      /\ new[cur] = old[cur] \o code
  BY BuildsFacts DEF Builds
<1>1. CASE left /\ code # <<>>
  <2>1. Gen!Terminated(old[cur])
    BY <1>1 DEF CurrentIs, BlockIsClosed
  <2>2. EndsEarly(new[cur])
    BY <1>0, <1>1, <2>1, EarlyAfter
  <2>. QED  BY <1>0, <2>2 DEF Broken
<1>2. CASE ~left /\ cur # 1 /\ d # cur /\ code = <<>>
  <2>1. new[cur] = old[cur]
    BY <1>0, <1>2, ConcatEmptySeq DEF Code
  <2>2. ~Gen!Terminated(new[cur])
    BY <1>0, <1>2, <2>1, ClosedIsNotStraight DEF CurrentIs
  <2>3. cur \in 2..Len(new) /\ ~Awaited(gr, cur)
    BY <1>0, <1>2 DEF Builds
  <2>. QED  BY <1>2, <2>2, <2>3 DEF Broken
<1>. QED  BY <1>1, <1>2

-----------------------------------------------------------------------------
(***************************************************************************)
(* What an evaluation leaves in the code.                                  *)
(***************************************************************************)
\* Instructions that the code goes on after, and to nowhere else.
Calm == {i \in Instruction : i.op \notin Gen!Terminators /\ i.to = {}}

LEMMA CalmCode ==
  ASSUME NEW code \in Seq(Calm)
  PROVE  code \in Code /\ IsStraight(code) /\ \A n : GoesTo(code, n)
<1>1. \A j \in 1..Len(code) : code[j] \in Calm
  BY ElementOfSeq
<1>2. \A j \in 1..Len(code) : code[j].op \notin Gen!Terminators /\ code[j].to = {}
  BY <1>1 DEF Calm
<1>3. Calm \subseteq Instruction
  BY Zenon DEF Calm
<1>4. code \in Code
  BY <1>3, LenProperties, ElementOfSeq DEF Code
<1>. QED  BY <1>2, <1>4 DEF IsStraight, GoesTo

LEMMA CalmInstr ==
  ASSUME pos \in Nat, NEW op \in {"load", "store", "arith", "call", "print"}, NEW ok \in BOOLEAN,
         NEW name \in InstrNames
  PROVE  Gen!Instr(op, name, ok) \in Calm
<1>1. op \in {"load", "store", "arith", "ret", "call", "print"}
  BY Zenon
<1>2. Gen!Instr(op, name, ok) \in Instruction
  BY <1>1, InstrTyped, Zenon
<1>3. Gen!Instr(op, name, ok).op = op /\ Gen!Instr(op, name, ok).to = {}
  BY Zenon DEF Gen!Instr
<1>4. op \notin Gen!Terminators
  BY DEF Gen!Terminators
<1>. QED  BY <1>2, <1>3, <1>4, Zenon DEF Calm

LEMMA CalmTakes == pos \in Nat => Takes(Calm, Evaluating, BOOLEAN)
<1>1. Evaluating \subseteq {"load", "store", "arith", "call", "print"}
  BY Zenon DEF Evaluating, Reading
<1>. QED  BY <1>1, CalmInstr, Zenon DEF Takes

LEMMA BodyCalm ==
  ASSUME NEW st, InBody(st), NEW e \in Expression, NEW last \in {lastValue, Gen!Null}, NEW h
  PROVE  Gen!Evaluate(e, last, h).code \in Seq(Calm)
<1>1. pos \in Nat
  BY AnalyzedFacts, ReadableState DEF InBody, Readable
<1>2. last.code = <<>>
  BY DEF InBody, Known, LastKnown, Gen!Null, Gen!Constant
<1>3. last.code \in Seq(Calm)
  BY <1>2, EmptySeq
<1>. QED  BY <1>1, <1>3, CalmTakes, EvaluateEmits

\* A value that leaves code where it is computed or printed.
HasValue(v) == ~Gen!IsNull(v) /\ (v.code # <<>> \/ Gen!Printable(v))

LEMMA YieldHasValue ==
  ASSUME NEW type, type # Gen!NoType, NEW op, NEW name, NEW ok, NEW code \in Code, NEW h,
         Gen!Instr(op, name, ok) \in Instruction
  PROVE  HasValue(Gen!Yield(type, op, name, ok, code, h))
<1>. DEFINE i == Gen!Instr(op, name, ok)
<1>. HIDE DEF i
<1>1. i \in Instruction
  BY DEF i
<1>2. Append(code, i) # <<>>
  BY <1>1, AppendProperties DEF Code
<1>. QED  BY <1>2 DEF HasValue, Gen!IsNull, Gen!Yield, i

LEMMA ConstantHasValue ==
  ASSUME NEW type \in {Gen!I32, Gen!Float, Gen!I1, Gen!Ptr}
  PROVE  HasValue(Gen!Constant(type))
<1>1. Gen!Constant(type).type = type /\ Gen!Constant(type).code = <<>> /\ Gen!Constant(type).home = 0
  BY Zenon DEF Gen!Constant
<1>2. type # Gen!NoType
  BY DEF Gen!NoType, Gen!I32, Gen!Float, Gen!I1, Gen!Ptr
<1>. QED  BY <1>1, <1>2 DEF HasValue, Gen!IsNull, Gen!Printable, Gen!IsConstant

LEMMA NameHasValue ==
  ASSUME NEW st, InBody(st), NEW n \in Names \ Lost(pos),
         Environment(pos)[n] \in ScalarTypes, NEW h
  PROVE  HasValue(Gen!PrimaryValue(n, h))
<1>1. PICK f \in 1..pos - 1 :
           /\ f \in 1..Len(ast) /\ Generated(f) /\ InFunction(pos) /\ EnclosingFunction(pos) = f
           /\ \A m \in Gen!FiledNames(ast[f]) \cap Names : currentLocals[m] = Len(functions)
  BY BodyFunction DEF InBody, Known
<1>2. Environment(pos)[n] = LexicalType(n, f) /\ Lost(pos) = Renamed(ast[f])
  BY <1>1 DEF Environment, Lost
<1>3. /\ pos \in 1..Len(ast) /\ pos <= Len(ast) /\ pos \in Nat /\ <<>> \in Code
      /\ Len(functions) # 0 /\ Analyzed /\ GenTypeOK /\ Reached(st) /\ GlobalsKnown
  BY BodyGoesOn, BodyPlace, AnalyzedFacts, EmptySeq DEF InBody, Known, Code
<1>4. \A ok \in BOOLEAN : Gen!Instr("load", n, ok) \in Instruction
  <2>1. n \in InstrNames
    BY InstrNamesFacts, Zenon DEF Lexemes
  <2>. QED  BY <1>3, <2>1, InstrTyped
<1>5. CASE currentLocals[n] # 0
  <2>. DEFINE own == currentLocals[n] = h
  <2>1. Gen!PrimaryValue(n, h) = Gen!Yield(Gen!I32, "load", n, own, <<>>, h)
    BY <1>5 DEF Gen!PrimaryValue, Gen!NoLocal, Gen!LocalValue
  <2>2. own \in BOOLEAN
    OBVIOUS
  <2>. HIDE DEF own
  <2>3. Gen!I32 # Gen!NoType
    BY DEF Gen!I32, Gen!NoType
  <2>. QED  BY <1>3, <1>4, <2>1, <2>2, <2>3, YieldHasValue, Zenon
<1>6. CASE currentLocals[n] = 0
  <2>1. n \notin ParameterNames(ast[f])
    BY <1>1, <1>2, <1>3, <1>6, KeptNameIsFiled
  <2>2. LexicalType(n, f) = GlobalType(n)
    BY <2>1 DEF LexicalType, Positions, ParameterNames
  <2>3. ast[f].node = "function"
    BY <1>1 DEF Generated
  <2>4. Means(n, GlobalType(n), h) /\ GlobalType(n) \in ScalarTypes
    BY <1>1, <1>2, <1>3, <1>6, <2>2, <2>3, GlobalIsDeclared
  <2>5. PICK d \in Node : /\ d.type \in ScalarTypes \cup {"array"}
                          /\ globals[n] = Gen!GlobalValueType(d)
    BY <1>6, <2>4 DEF Means, ScalarTypes
  <2>. DEFINE t == globals[n]
  <2>6. t \in {Gen!I32, Gen!Float, Gen!I1, Gen!Bytes} \/ t = Gen!ArrayOf(Len(d.elements))
    BY <2>5 DEF Gen!GlobalValueType, ScalarTypes
  <2>. HIDE DEF t
  <2>7. t # Gen!NoType
    BY <2>6 DEF Gen!I32, Gen!Float, Gen!I1, Gen!ArrayOf, Gen!Bytes, Gen!NoType
  <2>8. Gen!PrimaryValue(n, h) = IF t = Gen!Bytes THEN Gen!Constant(Gen!Ptr)
                                   ELSE Gen!Yield(t, "load", n, TRUE, <<>>, h)
    BY <1>6, <2>7 DEF Gen!PrimaryValue, Gen!NoLocal, Gen!GlobalValue, t
  <2>9. HasValue(Gen!Constant(Gen!Ptr))
    BY ConstantHasValue
  <2>10. HasValue(Gen!Yield(t, "load", n, TRUE, <<>>, h))
    BY <1>3, <1>4, <2>7, YieldHasValue, Zenon
  <2>. QED  BY <2>8, <2>9, <2>10
<1>. QED  BY <1>5, <1>6

LEMMA LexemeHasValue ==
  ASSUME NEW st, InBody(st), NEW e \in Primary, e.name \notin Lost(pos),
         TypeOfPrimary(e, Environment(pos)) \in ScalarTypes, NEW h
  PROVE  HasValue(Gen!PrimaryValue(e.name, h)) /\ Gen!PrimaryValue(e.name, h).code \in Code
<1>1. e.name \in Lexemes
  BY DEF Primary
<1>2. Gen!PrimaryValue(e.name, h).code \in Code
  <2>1. pos \in Nat
    BY AnalyzedFacts, ReadableState DEF InBody, Readable
  <2>2. Gen!PrimaryValue(e.name, h).code \in Seq(Calm)
    BY <1>1, <2>1, CalmTakes, TakesFewer, PrimaryEmits
  <2>. QED  BY <2>2, CalmCode
<1>3. CASE e.name \in Names
  <2>1. TypeOfPrimary(e, Environment(pos)) = Environment(pos)[e.name]
    BY <1>3, LexemesAssumption DEF TypeOfPrimary, LookupType
  <2>. QED  BY <1>3, <1>2, <2>1, NameHasValue
<1>4. CASE e.name \notin Names
  <2>1. Gen!PrimaryValue(e.name, h) = Gen!LiteralValue(e.name)
    BY <1>4 DEF Gen!PrimaryValue
  <2>2. \E type \in {Gen!I32, Gen!Float, Gen!I1} : Gen!LiteralValue(e.name) = Gen!Constant(type)
    BY DEF Gen!LiteralValue
  <2>. QED  BY <1>2, <2>1, <2>2, ConstantHasValue
<1>. QED  BY <1>3, <1>4, <1>2

\* A log or a ret that finds its names has a value to print or to return.
LEMMA OperandHasValue ==
  ASSUME NEW st, InBody(st), NEW e \in Primary \cup Unary, NamesIn(e) \cap Lost(pos) = {},
         TypeOf(e, Environment(pos)) \in ScalarTypes, NEW last, NEW h
  PROVE  HasValue(Gen!Evaluate(e, last, h))
<1>1. CASE e \in Primary
  <2>1. e.kind = "primary"
    BY <1>1, Zenon DEF Primary
  <2>2. TypeOf(e, Environment(pos)) = TypeOfPrimary(e, Environment(pos))
    BY <2>1 DEF TypeOf, TypeOfOperand
  <2>3. Gen!Evaluate(e, last, h) = Gen!PrimaryValue(e.name, h)
    BY <2>1 DEF Gen!Evaluate, Gen!SimpleValue
  <2>4. e.name \notin Lost(pos)
    BY <2>1 DEF NamesIn
  <2>. QED  BY <1>1, <2>2, <2>3, <2>4, LexemeHasValue
<1>2. CASE e \in Unary
  <2>. DEFINE v == Gen!PrimaryValue(e.expr.name, h)
              ok == v.type \in Gen!IntegerTypes
              y == Gen!Yield(v.type, "arith", "", ok, v.code, h)
  <2>1. e.kind = "unary" /\ e.expr \in Primary
    BY <1>2, Zenon DEF Unary
  <2>2. TypeOf(e, Environment(pos)) = TypeOfPrimary(e.expr, Environment(pos))
    BY <2>1 DEF TypeOf, TypeOfOperand
  <2>3. Gen!Evaluate(e, last, h) \in {v, y}
    BY <2>1 DEF Gen!Evaluate, Gen!SimpleValue, Gen!UnaryValue, Gen!Negated
  <2>4. HasValue(v) /\ v.code \in Code
    <3>1. e.expr.name \notin Lost(pos)
      BY <2>1 DEF NamesIn
    <3>. QED  BY <2>1, <2>2, <3>1, LexemeHasValue
  <2>5. ok \in BOOLEAN /\ pos \in Nat
    BY AnalyzedFacts, ReadableState DEF InBody, Readable
  <2>. HIDE DEF v, ok
  <2>6. v.type # Gen!NoType
    BY <2>4 DEF HasValue, Gen!IsNull
  <2>7. Gen!Instr("arith", "", ok) \in Instruction
    BY <2>5, InstrTyped, InstrNamesFacts
  <2>8. HasValue(y)
    BY <2>4, <2>6, <2>7, YieldHasValue, Zenon
  <2>. QED  BY <2>3, <2>4, <2>8
<1>. QED  BY <1>1, <1>2

-----------------------------------------------------------------------------
(***************************************************************************)
(* What the text asks of its nodes one by one.                             *)
(***************************************************************************)
LEMMA LeavesStep ==
  ASSUME NEW i \in Nat, i > 0
  PROVE  Leaves(i) <=> \/ ast[i].node = "return"
                       \/ ast[i].node = "end" /\ ast[i].of = "else" /\ Leaves(i - 1)
<1>1. ASSUME Leaves(i)
      PROVE  \/ ast[i].node = "return"
             \/ ast[i].node = "end" /\ ast[i].of = "else" /\ Leaves(i - 1)
  <2>1. PICK j \in 1..i : /\ ast[j].node = "return"
                          /\ \A m \in j+1..i : ast[m].node = "end" /\ ast[m].of = "else"
    BY <1>1 DEF Leaves
  <2>2. CASE j = i
    BY <2>1, <2>2
  <2>3. CASE j # i
    <3>1. j \in 1..i - 1 /\ i \in j+1..i /\ \A m \in j+1..i - 1 : m \in j+1..i
      BY <2>3
    <3>2. Leaves(i - 1)
      BY <2>1, <3>1 DEF Leaves
    <3>. QED  BY <2>1, <3>1, <3>2
  <2>. QED  BY <2>2, <2>3
<1>2. ASSUME ast[i].node = "return" PROVE Leaves(i)
  <2>1. i \in 1..i /\ ~ \E m \in Nat : m \in i+1..i
    OBVIOUS
  <2>. QED  BY <1>2, <2>1 DEF Leaves
<1>3. ASSUME ast[i].node = "end", ast[i].of = "else", Leaves(i - 1) PROVE Leaves(i)
  <2>1. PICK j \in 1..i - 1 :
           /\ ast[j].node = "return"
           /\ \A m \in j+1..i - 1 : ast[m].node = "end" /\ ast[m].of = "else"
    BY <1>3 DEF Leaves
  <2>2. j \in 1..i /\ \A m \in j+1..i : m \in j+1..i - 1 \/ m = i
    OBVIOUS
  <2>. QED  BY <1>3, <2>1, <2>2 DEF Leaves
<1>. QED  BY <1>1, <1>2, <1>3

LEMMA TidyNode ==
  ASSUME NEW p \in Nat, p > 0
  PROVE  /\ ast[p].node \notin {"if", "end"} =>
              (NodeTidy(p) <=> ~Leaves(p - 1)) /\ (Leaves(p) <=> ast[p].node = "return")
         /\ ast[p].node = "if" => ~NodeTidy(p) /\ ~Leaves(p)
         /\ ast[p].node = "end" =>
              /\ ast[p].of = "else" => NodeTidy(p) /\ (Leaves(p) <=> Leaves(p - 1))
              /\ ast[p].of = "thenElse" => (NodeTidy(p) <=> Leaves(p - 1)) /\ ~Leaves(p)
              /\ ast[p].of \in {"for", "while", "then"} =>
                   (NodeTidy(p) <=> ~Leaves(p - 1)) /\ ~Leaves(p)
              /\ ast[p].of = "function" => NodeTidy(p) /\ ~Leaves(p)
<1>1. Leaves(p) <=> \/ ast[p].node = "return"
                    \/ ast[p].node = "end" /\ ast[p].of = "else" /\ Leaves(p - 1)
  BY LeavesStep
<1>. DEFINE l == Leaves(p - 1)
<1>2. NodeTidy(p) <=>
        /\ ast[p].node # "if"
        /\ l => ast[p].node = "end" /\ ast[p].of \in {"thenElse", "else", "function"}
        /\ ast[p].node = "end" /\ ast[p].of = "thenElse" => l
  BY Zenon DEF NodeTidy
<1>3. l \in BOOLEAN /\ Leaves(p) \in BOOLEAN /\ NodeTidy(p) \in BOOLEAN
  BY Zenon DEF Leaves, NodeTidy
<1>. HIDE DEF l
<1>4. Leaves(p) <=> \/ ast[p].node = "return"
                    \/ ast[p].node = "end" /\ ast[p].of = "else" /\ l
  BY <1>1 DEF l
<1>5. CASE ast[p].node \notin {"if", "end"}
  BY <1>2, <1>4, <1>5 DEF l
<1>6. CASE ast[p].node = "if"
  BY <1>2, <1>4, <1>6
<1>7. CASE ast[p].node = "end"
  BY <1>2, <1>3, <1>4, <1>7 DEF l
<1>. QED  BY <1>5, <1>6, <1>7

\* The text does not change under the generator.
LEMMA ShapeOfText ==
  ASSUME TextKept
  PROVE  /\ \A i : /\ Leaves(i)' = Leaves(i) /\ NodeTidy(i)' = NodeTidy(i)
                    /\ Finds(i)' = Finds(i)
         /\ \A f, p : /\ TidySoFar(f, p)' = TidySoFar(f, p) /\ ReturnsShow(f, p)' = ReturnsShow(f, p)
                      /\ Branches(f, p)' = Branches(f, p) /\ Bare(f, p)' = Bare(f, p)
<1>1. ast' = ast
  BY DEF TextKept
<1>2. \A i : Leaves(i)' = Leaves(i)
  BY <1>1 DEF Leaves
<1>3. \A i : NodeTidy(i)' = NodeTidy(i)
  BY <1>1, <1>2 DEF NodeTidy
<1>4. \A i : Finds(i)' = Finds(i)
  <2>1. \A i : Lost(i)' = Lost(i)
    BY <1>1, BodiesKept DEF TextKept, Lost
  <2>. QED  BY <1>1, <2>1 DEF Finds
<1>. QED  BY <1>1, <1>2, <1>3, <1>4 DEF TidySoFar, ReturnsShow, KeepsReturn, Branches, Bare, Shows

LEMMA OneNodeOn ==
  ASSUME NEW f \in Nat, NEW p \in Nat, f < p
  PROVE  /\ TidySoFar(f, p + 1) <=> TidySoFar(f, p) /\ NodeTidy(p)
         /\ ReturnsShow(f, p + 1) <=> ReturnsShow(f, p) /\ KeepsReturn(p)
         /\ Branches(f, p + 1) <=>
              Branches(f, p) \/ ast[p].node \in {"for", "while", "if", "ifElse"}
         /\ Bare(f, p + 1) <=> Bare(f, p) /\ Shows(p)
<1>1. /\ p \in f + 1..p + 1 - 1
      /\ \A i \in f + 1..p - 1 : i \in f + 1..p + 1 - 1
      /\ \A i \in f + 1..p + 1 - 1 : i \in f + 1..p - 1 \/ i = p
  OBVIOUS
<1>2. TidySoFar(f, p + 1) <=> TidySoFar(f, p) /\ NodeTidy(p)
  BY <1>1 DEF TidySoFar
<1>3. Branches(f, p + 1) <=> Branches(f, p) \/ ast[p].node \in {"for", "while", "if", "ifElse"}
  BY <1>1 DEF Branches
<1>4. Bare(f, p + 1) <=> Bare(f, p) /\ Shows(p)
  BY <1>1 DEF Bare
<1>5. ReturnsShow(f, p + 1) <=> ReturnsShow(f, p) /\ KeepsReturn(p)
  BY <1>1 DEF ReturnsShow
<1>. QED  BY <1>2, <1>3, <1>4, <1>5

-----------------------------------------------------------------------------
(***************************************************************************)
(* A visit of node p in a body: how its blocks and its shape go on.        *)
(***************************************************************************)
Opening(p) == ast[p].node \in {"for", "while", "if", "ifElse"}

\* Where the visit leaves the block it found, if the node is tidy there.
LeavesWell(p, before, after, stays) ==
  NodeTidy(p) /\ KeepsReturn(p) /\ CurrentIs(before, Leaves(p - 1)) =>
    IF stays THEN CurrentIs(after, Leaves(p)) ELSE BlockIsClosed(after) /\ ~Leaves(p)

\* Why a node that is not tidy breaks the function.
Breaks(p, fr, code, stays) ==
  ~NodeTidy(p) =>
    \/ ~Shows(p)
    \/ \E i \in 1..Len(fr) : fr[i].kind = "then"
    \/ Leaves(p - 1) /\ code # <<>>
    \/ /\ ~Leaves(p - 1) /\ ~stays /\ code = <<>>
       /\ \E i \in 1..Len(fr) : fr[i].kind = "thenElse"

ShapeStep(p, old, cur, fr, new, d, gr, code) ==
  /\ Builds(old, cur, fr, new, d, gr, code)
  /\ LeavesWell(p, old[cur], new[cur], d = cur)
  /\ Breaks(p, fr, code, d = cur)
  /\ IF Opening(p) THEN d \notin 1..Len(old) ELSE Len(new) = Len(old)
  /\ GoesTo(code, Len(new))
  /\ \A c \in 1..Len(new) : c \in 1..Len(old) \/ GoesTo(new[c], Len(new))
  /\ \A i \in 1..Len(gr) :
       (\E j \in 1..Len(fr) : gr[i] = fr[j]) \/ FramePlaced(gr[i], ast[p].node # "if")

LEMMA PlacedGoesOn ==
  ASSUME NEW f \in Nat, NEW p \in Nat, f < p,
         NEW old, NEW cur, NEW fr, NEW new, NEW d, NEW gr, NEW code,
         ShapeStep(p, old, cur, fr, new, d, gr, code), Placed(f, p, old, cur, fr)
  PROVE  Placed(f, p + 1, new, d, gr)
<1>1. /\ Builds(old, cur, fr, new, d, gr, code)
      /\ \A c \in 1..Len(old) : old[c] \in Code /\ c \in 1..Len(new)
      /\ \A c \in 1..Len(new) : new[c] \in Code
      /\ code \in Code /\ Len(old) \in Nat /\ Len(new) \in Nat /\ Len(old) <= Len(new)
      /\ cur \in 1..Len(old)
  BY BuildsFacts DEF ShapeStep, Builds
<1>2. cur # 1 => d # 1
  <2>1. SUFFICES ASSUME cur # 1, d = 1 PROVE FALSE
    OBVIOUS
  <2>2. d \in 1..Len(old) /\ d # cur
    BY <1>1, <2>1
  <2>3. Awaited(fr, d)
    BY <1>1, <2>2 DEF Builds
  <2>. QED  BY <2>1, <2>3 DEF Awaited, Placed, FramePlaced
<1>3. IF Branches(f, p + 1) THEN d # 1 ELSE Len(new) = 1
  <2>1. CASE Opening(p)
    <3>1. d \notin 1..Len(old) /\ 1 \in 1..Len(old)
      BY <1>1, <2>1 DEF ShapeStep
    <3>2. Branches(f, p + 1)
      BY <2>1, OneNodeOn DEF Opening
    <3>. QED  BY <3>1, <3>2
  <2>2. CASE ~Opening(p)
    <3>1. Branches(f, p + 1) <=> Branches(f, p)
      BY <2>2, OneNodeOn DEF Opening
    <3>2. Len(new) = Len(old)
      BY <2>2 DEF ShapeStep
    <3>. QED  BY <1>2, <3>1, <3>2 DEF Placed
  <2>. QED  BY <2>1, <2>2
<1>4. ASSUME NEW i \in 1..Len(gr) PROVE FramePlaced(gr[i], Bare(f, p + 1))
  <2>1. Bare(f, p + 1) => Bare(f, p) /\ ast[p].node # "if"
    BY OneNodeOn DEF Shows
  <2>2. CASE \E j \in 1..Len(fr) : gr[i] = fr[j]
    <3>1. FramePlaced(gr[i], Bare(f, p))
      BY <2>2 DEF Placed
    <3>. QED  BY <2>1, <3>1 DEF FramePlaced
  <2>3. CASE FramePlaced(gr[i], ast[p].node # "if")
    BY <2>1, <2>3 DEF FramePlaced
  <2>. QED  BY <2>2, <2>3 DEF ShapeStep
<1>5. ASSUME NEW c \in 1..Len(new) PROVE GoesTo(new[c], Len(new))
  <2>1. CASE c \in 1..Len(old)
    <3>1. GoesTo(old[c], Len(new))
      <4>1. GoesTo(old[c], Len(old))
        BY <2>1 DEF Placed
      <4>. QED  BY <1>1, <2>1, <4>1, GoesFurther
    <3>2. CASE c = cur
      <4>1. new[c] = old[c] \o code /\ GoesTo(code, Len(new))
        BY <3>2 DEF ShapeStep, Builds
      <4>. QED  BY <1>1, <2>1, <3>1, <4>1, GoesOnTo
    <3>3. CASE c # cur
      BY <1>1, <2>1, <3>1, <3>3 DEF Builds
    <3>. QED  BY <3>2, <3>3
  <2>2. CASE c \notin 1..Len(old)
    BY <2>2 DEF ShapeStep
  <2>. QED  BY <2>1, <2>2
<1>. QED  BY <1>3, <1>4, <1>5 DEF Placed

LEMMA ShapedGoesOn ==
  ASSUME NEW f \in Nat, NEW p \in Nat, f < p,
         NEW old, NEW cur, NEW fr, NEW new, NEW d, NEW gr, NEW code,
         ShapeStep(p, old, cur, fr, new, d, gr, code), Open(fr, old, cur),
         Placed(f, p, old, cur, fr), Shaped(f, p, old, cur, fr)
  PROVE  Shaped(f, p + 1, new, d, gr)
<1>0. p + 1 - 1 = p
  OBVIOUS
<1>. DEFINE left == Leaves(p - 1)
            more == Leaves(p)
<1>1. left \in BOOLEAN /\ more \in BOOLEAN
  BY Zenon DEF Leaves
<1>2. Builds(old, cur, fr, new, d, gr, code)
  BY DEF ShapeStep
<1>3. NodeTidy(p) /\ KeepsReturn(p) /\ CurrentIs(old[cur], left) =>
        IF d = cur THEN CurrentIs(new[cur], more) ELSE BlockIsClosed(new[cur]) /\ ~more
  BY Zenon DEF ShapeStep, LeavesWell
<1>4. TidySoFar(f, p) /\ ReturnsShow(f, p) => Settled(old, cur, fr, left)
  BY Zenon DEF Shaped
<1>5. Bare(f, p) /\ ~TidySoFar(f, p) => Broken(old, cur, fr)
  BY Zenon DEF Shaped
<1>6. /\ TidySoFar(f, p + 1) <=> TidySoFar(f, p) /\ NodeTidy(p)
      /\ ReturnsShow(f, p + 1) <=> ReturnsShow(f, p) /\ KeepsReturn(p)
      /\ Bare(f, p + 1) <=> Bare(f, p) /\ Shows(p)
  BY OneNodeOn
<1>7. ASSUME TidySoFar(f, p), NodeTidy(p), ReturnsShow(f, p), KeepsReturn(p) PROVE Settled(new, d, gr, more)
  <2>. HIDE DEF left, more
  <2>. QED  BY <1>1, <1>2, <1>3, <1>4, <1>7, SettledGoesOn
<1>8. ASSUME Bare(f, p), Shows(p), TidySoFar(f, p), ~NodeTidy(p)
      PROVE  Broken(new, d, gr)
  <2>0. ReturnsShow(f, p)
    BY <1>8 DEF Bare, Shows, ReturnsShow, KeepsReturn
  <2>1. cur \in 1..Len(old) /\ Len(old) \in Nat /\ CurrentIs(old[cur], left)
    BY <1>2, <1>4, <1>8, <2>0, Zenon DEF Builds, Settled
  <2>2. ~ \E i \in 1..Len(fr) : fr[i].kind = "then"
    BY <1>8 DEF Placed, FramePlaced
  <2>3. (\E i \in 1..Len(fr) : fr[i].kind = "thenElse") => cur # 1
    <3>1. SUFFICES ASSUME NEW i \in 1..Len(fr), fr[i].kind = "thenElse" PROVE cur # 1
      OBVIOUS
    <3>2. fr[i].next # 0 /\ fr[i].next # 1
      BY <3>1 DEF Placed, FramePlaced
    <3>3. fr[i].next \in 1..Len(old)
      BY <3>2 DEF Open, WaitsFor
    <3>4. Len(old) # 1
      <4>1. \A n \in 1..1 : n = 1
        OBVIOUS
      <4>. QED  BY <3>2, <3>3, <4>1
    <3>5. IF Branches(f, p) THEN cur # 1 ELSE Len(old) = 1
      BY Zenon DEF Placed
    <3>. QED  BY <3>4, <3>5
  <2>4. \/ left /\ code # <<>>
        \/ ~left /\ cur # 1 /\ d # cur /\ code = <<>>
    BY <1>8, <2>2, <2>3, Zenon DEF ShapeStep, Breaks
  <2>. HIDE DEF left
  <2>. QED  BY <1>1, <1>2, <2>1, <2>4, BreaksNow
<1>9. ASSUME Bare(f, p), ~TidySoFar(f, p) PROVE Broken(new, d, gr)
  BY <1>2, <1>5, <1>9, BrokenGoesOn
<1>. QED  BY <1>0, <1>6, <1>7, <1>8, <1>9 DEF Shaped

-----------------------------------------------------------------------------
(***************************************************************************)
(* The statements that stay in their block.                                *)
(***************************************************************************)
\* The functions but the newest stay as they are, and that keeps its node.
OthersStay ==
  /\ Len(functions') = Len(functions)
  /\ \A i \in 1..Len(functions) :
       functions'[i].node = functions[i].node /\ (i # Len(functions) => functions'[i] = functions[i])

\* The visit of this node takes the newest function a step on.
ShapesOn ==
  /\ OthersStay
  /\ \E code : ShapeStep(pos, NewestBlocks, insert.block, frames,
                         NewestBlocks', insert'.block, frames', code)

LEMMA NotAwaited ==
  ASSUME NEW fr, NEW blocks, NEW b \in Nat, b # 0, Open(fr, blocks, b)
  PROVE  ~Awaited(fr, b)
BY DEF Open, WaitsFor, Awaited

LEMMA BodyPlaced ==
  ASSUME NEW st, InBody(st), NEW code \in Code, functions' = Gen!Put(functions, insert, code)
  PROVE  LET old == NewestBlocks new == NewestBlocks'
         IN  /\ OthersStay
             /\ old \in Seq(Code) /\ new \in Seq(Code) /\ Len(new) = Len(old) /\ Len(old) \in Nat
             /\ insert.block \in 1..Len(old) /\ ~Awaited(frames, insert.block)
             /\ new[insert.block] = old[insert.block] \o code
             /\ \A c \in 1..Len(old) : c # insert.block => new[c] = old[c]
<1>. DEFINE f == Len(functions)
            gs == Gen!Put(functions, insert, code)
<1>1. /\ f \in 1..Len(functions) /\ insert.function = f /\ functions \in Seq(Function)
      /\ insert.block \in 1..Len(functions[f].blocks)
      /\ functions[f].blocks \in Seq(Code)
      /\ Open(frames, functions[f].blocks, insert.block)
  BY BodyPlace DEF NewestBlocks, GenTypeOK, InBody
<1>2. Len(functions[f].blocks) \in Nat
  BY <1>1, LenProperties
<1>. HIDE DEF f
<1>3. /\ gs \in Seq(Function) /\ Len(gs) = Len(functions)
      /\ \A i \in 1..Len(functions) :
           /\ Len(gs[i].blocks) = Len(functions[i].blocks)
           /\ gs[i].node = functions[i].node
           /\ i # f => gs[i] = functions[i]
      /\ \A c \in 1..Len(functions[f].blocks) :
           gs[f].blocks[c] = IF c = insert.block THEN functions[f].blocks[insert.block] \o code
                                                 ELSE functions[f].blocks[c]
  BY <1>1, PutFacts
<1>4. functions' = gs
  OBVIOUS
<1>. HIDE DEF gs
<1>5. gs[f].blocks \in Seq(Code)
  BY <1>1, <1>3, BlocksFacts
<1>6. functions' = gs /\ NewestBlocks' = gs[f].blocks /\ NewestBlocks = functions[f].blocks
  BY <1>4, <1>3 DEF NewestBlocks, f
<1>7. OthersStay
  BY <1>3, <1>6 DEF OthersStay, f
<1>8. ~Awaited(frames, insert.block)
  <2>1. insert.block \in Nat /\ insert.block # 0
    BY <1>1, <1>2
  <2>. QED  BY <1>1, <2>1, NotAwaited
<1>. QED  BY <1>1, <1>2, <1>3, <1>5, <1>6, <1>7, <1>8

LEMMA InPlaceShapes ==
  ASSUME NEW st, InBody(st), NEW code \in Code, functions' = Gen!Put(functions, insert, code),
         insert' = insert, frames' = frames, ~Opening(pos),
         GoesTo(code, Len(NewestBlocks)),
         \A before \in Code : LeavesWell(pos, before, before \o code, TRUE),
         Breaks(pos, frames, code, TRUE)
  PROVE  ShapesOn
<1>. DEFINE old == NewestBlocks
            new == NewestBlocks'
            b == insert.block
<1>1. /\ OthersStay
      /\ old \in Seq(Code) /\ new \in Seq(Code) /\ Len(new) = Len(old) /\ Len(old) \in Nat
      /\ b \in 1..Len(old) /\ ~Awaited(frames, b)
      /\ new[b] = old[b] \o code
      /\ \A c \in 1..Len(old) : c # b => new[c] = old[c]
  BY BodyPlaced
<1>. HIDE DEF old, new, b
<1>2. Builds(old, b, frames, new, b, frames, code)
  BY <1>1 DEF Builds
<1>3. old[b] \in Code
  BY <1>1, ElementOfSeq
<1>4. LeavesWell(pos, old[b], new[b], b = b) /\ Breaks(pos, frames, code, b = b)
  <2>1. (b = b) = TRUE
    OBVIOUS
  <2>. QED  BY <1>1, <1>3, <2>1
<1>5. GoesTo(code, Len(new)) /\ \A c \in 1..Len(new) : c \in 1..Len(old)
  BY <1>1 DEF old
<1>6. \A i \in 1..Len(frames) : \E j \in 1..Len(frames) : frames[i] = frames[j]
  OBVIOUS
<1>7. ShapeStep(pos, old, b, frames, new, b, frames, code)
  BY <1>1, <1>2, <1>4, <1>5, <1>6, Zenon DEF ShapeStep
<1>8. insert'.block = b
  BY DEF b
<1>. QED  BY <1>1, <1>7, <1>8 DEF ShapesOn, old, new, b

\* What the visit of an expression finds.
LEMMA BodyValue ==
  ASSUME NEW st, InBody(st)
  PROVE  /\ pos \in Nat /\ pos > 0 /\ ast[pos] \in Node
         /\ \A e \in Expression, last \in {lastValue, Gen!Null} : \A h :
              LET v == Gen!Evaluate(e, last, h)
              IN  /\ v.code \in Seq(Calm) /\ v.code \in Code
                  /\ IsStraight(v.code) /\ \A n : GoesTo(v.code, n)
<1>1. pos \in Nat /\ pos > 0 /\ ast[pos] \in Node
  BY BodyGoesOn, AnalyzedFacts DEF InBody
<1>2. ASSUME NEW e \in Expression, NEW last \in {lastValue, Gen!Null}, NEW h
      PROVE  LET v == Gen!Evaluate(e, last, h)
             IN  /\ v.code \in Seq(Calm) /\ v.code \in Code
                 /\ IsStraight(v.code) /\ \A n : GoesTo(v.code, n)
  <2>1. PICK code : code = Gen!Evaluate(e, last, h).code
    OBVIOUS
  <2>2. code \in Seq(Calm)
    BY <2>1, BodyCalm
  <2>3. code \in Code /\ IsStraight(code) /\ \A n : GoesTo(code, n)
    BY <2>2, CalmCode
  <2>. QED  BY <2>1, <2>2, <2>3
<1>. QED  BY <1>1, <1>2

\* Code that goes on straight leaves its block well, and breaks it after a ret.
LEMMA StraightLeaves ==
  ASSUME NEW p \in Nat, p > 0, ast[p].node \notin {"if", "end", "return"},
         NEW code \in Code, IsStraight(code)
  PROVE  \A before \in Code : LeavesWell(p, before, before \o code, TRUE)
<1>1. /\ NodeTidy(p) => ~Leaves(p - 1)
      /\ ~Leaves(p)
  BY TidyNode
<1>2. ASSUME NEW before \in Code, IsStraight(before) PROVE IsStraight(before \o code)
  BY <1>2, StraightOn
<1>. QED  BY <1>1, <1>2, Zenon DEF LeavesWell, CurrentIs

LEMMA ExpressionStatementShapes ==
  ASSUME NEW st, InBody(st), Gen!VisitExpressionStatement
  PROVE  ShapesOn
<1>. DEFINE v == Gen!Evaluate(ast[pos].expr, lastValue, insert.function)
            code == v.code
<1>1. /\ ast[pos].node = "expression" /\ functions' = Gen!Put(functions, insert, code)
      /\ insert' = insert /\ frames' = frames
  BY DEF Gen!VisitExpressionStatement, Gen!At, Gen!node, Gen!Here
<1>2. /\ code \in Code /\ IsStraight(code) /\ \A n : GoesTo(code, n)
      /\ pos \in Nat /\ pos > 0
  <2>1. ast[pos].expr \in Expression
    BY <1>1, BodyValue, NodeFields
  <2>. QED  BY <2>1, BodyValue
<1>. HIDE DEF code
<1>3. \A before \in Code : LeavesWell(pos, before, before \o code, TRUE)
  BY <1>1, <1>2, StraightLeaves
<1>4. Breaks(pos, frames, code, TRUE) /\ ~Opening(pos)
  BY <1>1, Zenon DEF Breaks, Opening, Shows
<1>. QED  BY <1>1, <1>2, <1>3, <1>4, InPlaceShapes

\* What a log prints and a ret returns is there, unless LLVM has renamed it.
LEMMA StatementHasValue ==
  ASSUME NEW st, InBody(st), ast[pos].node \in {"print", "return"}
  PROVE  /\ ast[pos].expr \in Expression
         /\ Finds(pos) => \A last, h : HasValue(Gen!Evaluate(ast[pos].expr, last, h))
<1>1. /\ pos \in 1..Len(ast) /\ ast[pos] \in Node
      /\ Follows(ast[pos], st[pos - 1], st[pos])
  BY BodyGoesOn, BodyValue DEF InBody, Reached, Nested
<1>2. ast[pos].expr \in Expression
  BY <1>1, NodeFields
<1>3. ast[pos].expr \in Primary \cup Unary
  BY <1>1 DEF Follows
<1>4. AsksForType(ast[pos])
  BY Zenon DEF AsksForType
<1>5. PICK k \in ReturnTypes : TypeChecked(ast[pos], Environment(pos), k)
  BY <1>4, BodyTypes
<1>6. NormalizedType(k) \in ScalarTypes
  BY DEF ReturnTypes, NormalizedType, ScalarTypes
<1>7. TypeOf(ast[pos].expr, Environment(pos)) \in ScalarTypes
  <2>1. CASE ast[pos].node = "print"
    BY <1>5, <2>1 DEF TypeChecked
  <2>2. CASE ast[pos].node = "return"
    <3>1. TypeOf(ast[pos].expr, Environment(pos)) = NormalizedType(k)
      BY <1>5, <2>2 DEF TypeChecked
    <3>. QED  BY <1>6, <3>1
  <2>. QED  BY <2>1, <2>2
<1>8. Finds(pos) => NamesIn(ast[pos].expr) \cap Lost(pos) = {}
  BY DEF Finds, ExpressionsOf
<1>. QED  BY <1>2, <1>3, <1>7, <1>8, OperandHasValue

LEMMA PrintStatementShapes ==
  ASSUME NEW st, InBody(st), Gen!VisitPrintStatement
  PROVE  ShapesOn
<1>. DEFINE v == Gen!Evaluate(ast[pos].expr, lastValue, insert.function)
            callee == IF symbols["printf"].kind = "global" THEN "printf.1" ELSE "printf"
            ok == symbols["printf"].kind # "function"
            print == Gen!Instr("print", callee, ok)
            more == IF Gen!Printable(v) THEN <<print>> ELSE <<>>
            code == v.code \o more
<1>1. /\ ast[pos].node = "print" /\ functions' = Gen!Put(functions, insert, code)
      /\ insert' = insert /\ frames' = frames
  BY DEF Gen!VisitPrintStatement, Gen!At, Gen!node, Gen!Here
<1>2. ast[pos].node \in {"print", "return"}
  BY <1>1
<1>3. v.code \in Seq(Calm) /\ (Finds(pos) => HasValue(v)) /\ pos \in Nat /\ pos > 0
  BY <1>2, BodyValue, StatementHasValue
<1>4. print \in Calm
  <2>1. ok \in BOOLEAN /\ callee \in {"printf.1", "printf"}
    OBVIOUS
  <2>. HIDE DEF ok, callee
  <2>2. callee \in InstrNames
    BY <2>1, SymbolNamesFacts, InstrNamesFacts, Zenon
  <2>. QED  BY <1>3, <2>1, <2>2, CalmInstr, Zenon
<1>5. Finds(pos) => v.code # <<>> \/ Gen!Printable(v)
  BY <1>3, Zenon DEF HasValue
<1>. HIDE DEF v, print
<1>6. more \in Seq(Calm) /\ (Finds(pos) /\ v.code = <<>> => more # <<>>)
  <2>1. <<print>> \in Seq(Calm) /\ <<>> \in Seq(Calm) /\ <<print>> # <<>>
    BY <1>4, EmptySeq
  <2>. QED  BY <1>5, <2>1
<1>. HIDE DEF more
<1>7. code \in Seq(Calm) /\ (Finds(pos) => code # <<>>)
  <2>1. code \in Seq(Calm)
    BY <1>3, <1>6, ConcatProperties
  <2>2. CASE more # <<>>
    BY <1>3, <1>6, <2>2, LastOfConcat
  <2>3. CASE more = <<>>
    BY <1>3, <1>6, <2>3, ConcatEmptySeq
  <2>. QED  BY <2>1, <2>2, <2>3
<1>. HIDE DEF code
<1>8. code \in Code /\ IsStraight(code) /\ \A n : GoesTo(code, n)
  BY <1>7, CalmCode
<1>9. \A before \in Code : LeavesWell(pos, before, before \o code, TRUE)
  BY <1>1, <1>3, <1>8, StraightLeaves
<1>10. ~NodeTidy(pos) => Leaves(pos - 1)
  BY <1>1, <1>3, TidyNode
<1>11. Breaks(pos, frames, code, TRUE) /\ ~Opening(pos)
  BY <1>1, <1>7, <1>10, Zenon DEF Breaks, Opening, Shows
<1>. QED  BY <1>1, <1>8, <1>9, <1>11, InPlaceShapes

LEMMA ReturnStatementShapes ==
  ASSUME NEW st, InBody(st), Gen!VisitReturnStatement
  PROVE  ShapesOn
<1>. DEFINE v == Gen!Evaluate(ast[pos].expr, lastValue, insert.function)
            ok == v.type = functions[insert.function].result
            ret == Gen!Instr("ret", "", ok)
            code == v.code \o <<ret>>
            none == Gen!IsNull(v)
<1>1. /\ ast[pos].node = "return" /\ insert' = insert /\ frames' = frames
      /\ functions' = Gen!Put(functions, insert, v.code \o IF none THEN <<>> ELSE <<ret>>)
  BY DEF Gen!VisitReturnStatement, Gen!At, Gen!node, Gen!Here
<1>2. ast[pos].node \in {"print", "return"}
  BY <1>1
<1>3. /\ v.code \in Code /\ IsStraight(v.code) /\ \A n : GoesTo(v.code, n)
      /\ Finds(pos) => ~none
      /\ pos \in Nat /\ pos > 0
  BY <1>2, BodyValue, StatementHasValue DEF HasValue
<1>4. CASE none
  <2>1. functions' = Gen!Put(functions, insert, v.code)
    BY <1>1, <1>3, <1>4, ConcatEmptySeq DEF Code
  <2>2. \A before \in Code : LeavesWell(pos, before, before \o v.code, TRUE)
    BY <1>1, <1>3, <1>4, Zenon DEF LeavesWell, KeepsReturn
  <2>3. Breaks(pos, frames, v.code, TRUE) /\ ~Opening(pos)
    BY <1>1, <1>3, <1>4, Zenon DEF Breaks, Opening, Shows
  <2>. HIDE DEF v
  <2>. QED  BY <1>1, <1>3, <2>1, <2>2, <2>3, InPlaceShapes
<1>5. ret \in Instruction /\ ret.op \in Gen!Terminators /\ ret.to = {}
  <2>1. ok \in BOOLEAN
    OBVIOUS
  <2>. HIDE DEF ok
  <2>2. ret \in Instruction
    BY <1>3, <2>1, InstrTyped, InstrNamesFacts
  <2>. QED  BY <2>2 DEF Gen!Instr, Gen!Terminators
<1>. HIDE DEF v, ret, none
<1>6. code = Append(v.code, ret)
  BY <1>3, <1>5 DEF Code
<1>. HIDE DEF code
<1>7. code \in Code /\ BlockIsClosed(code) /\ code # <<>>
  BY <1>3, <1>5, <1>6, Closing
<1>8. GoesTo(code, Len(NewestBlocks))
  BY <1>3, <1>5, <1>6, GoesToLast
<1>9. /\ NodeTidy(pos) <=> ~Leaves(pos - 1)
      /\ Leaves(pos)
  BY <1>1, <1>3, TidyNode
<1>10. ASSUME NEW before \in Code PROVE LeavesWell(pos, before, before \o code, TRUE)
  <2>1. IsStraight(before) => BlockIsClosed(before \o code)
    BY <1>7, ClosedAfter
  <2>. QED  BY <1>9, <2>1, Zenon DEF LeavesWell, CurrentIs
<1>11. Breaks(pos, frames, code, TRUE) /\ ~Opening(pos)
  BY <1>1, <1>7, <1>9, Zenon DEF Breaks, Opening, Shows
<1>12. CASE ~none
  <2>1. functions' = Gen!Put(functions, insert, code)
    BY <1>1, <1>12 DEF code
  <2>. QED  BY <1>1, <1>7, <1>8, <1>10, <1>11, <2>1, InPlaceShapes
<1>. QED  BY <1>4, <1>12

-----------------------------------------------------------------------------
(***************************************************************************)
(* The statements that open a body.                                        *)
(***************************************************************************)
\* How functions are after a Put, and after a Put in a function with new blocks.
AfterPut(fs, gs, f, b, code) ==
  /\ gs \in Seq(Function) /\ Len(gs) = Len(fs)
  /\ \A i \in 1..Len(fs) : gs[i].node = fs[i].node /\ (i # f => gs[i] = fs[i])
  /\ Len(gs[f].blocks) = Len(fs[f].blocks)
  /\ gs[f].blocks[b] = fs[f].blocks[b] \o code
  /\ \A c \in 1..Len(fs[f].blocks) : c # b => gs[f].blocks[c] = fs[f].blocks[c]

AfterNewBlocks(fs, gs, f, b, n, code) ==
  LET m == Len(fs[f].blocks)
  IN  /\ gs \in Seq(Function) /\ Len(gs) = Len(fs) /\ m \in Nat
      /\ \A i \in 1..Len(fs) : gs[i].node = fs[i].node /\ (i # f => gs[i] = fs[i])
      /\ Len(gs[f].blocks) = m + n
      /\ gs[f].blocks[b] = fs[f].blocks[b] \o code
      /\ \A c \in 1..m : c # b => gs[f].blocks[c] = fs[f].blocks[c]
      /\ \A c \in m + 1..m + n : gs[f].blocks[c] = <<>>

LEMMA PutGives ==
  ASSUME NEW fs \in Seq(Function), NEW at, NEW code \in Code,
         at.function \in 1..Len(fs), at.block \in 1..Len(fs[at.function].blocks)
  PROVE  AfterPut(fs, Gen!Put(fs, at, code), at.function, at.block, code)
<1>. DEFINE gs == Gen!Put(fs, at, code)
<1>1. PICK f \in 1..Len(fs) : at.function = f
  OBVIOUS
<1>2. PICK b \in 1..Len(fs[f].blocks) : at.block = b
  BY <1>1
<1>3. /\ gs \in Seq(Function) /\ Len(gs) = Len(fs)
      /\ \A i \in 1..Len(fs) :
           /\ Len(gs[i].blocks) = Len(fs[i].blocks)
           /\ gs[i].node = fs[i].node /\ gs[i].params = fs[i].params
           /\ gs[i].result = fs[i].result
           /\ i # f => gs[i] = fs[i]
      /\ \A c \in 1..Len(fs[f].blocks) :
           gs[f].blocks[c] = IF c = b THEN fs[f].blocks[b] \o code ELSE fs[f].blocks[c]
  BY <1>1, <1>2, PutFacts
<1>. HIDE DEF gs
<1>. QED  BY <1>1, <1>2, <1>3 DEF gs, AfterPut

LEMMA NewBlocksGive ==
  ASSUME NEW fs \in Seq(Function), NEW at, NEW n \in Nat, NEW code \in Code,
         at.function \in 1..Len(fs), at.block \in 1..Len(fs[at.function].blocks)
  PROVE  AfterNewBlocks(fs, Gen!Put(Gen!NewBlocks(fs, at.function, n), at, code),
                        at.function, at.block, n, code)
<1>. DEFINE f  == at.function
            b  == at.block
            m  == Len(fs[f].blocks)
            hs == Gen!NewBlocks(fs, f, n)
            gs == Gen!Put(hs, at, code)
<1>1. f \in 1..Len(fs) /\ b \in 1..m
  OBVIOUS
<1>. HIDE DEF f, b
<1>2. m \in Nat
  <2>. HIDE DEF hs, gs
  <2>. QED  BY <1>1, BlocksFacts
<1>3. /\ hs \in Seq(Function) /\ Len(hs) = Len(fs)
      /\ \A i \in 1..Len(fs) : hs[i].node = fs[i].node /\ (i # f => hs[i] = fs[i])
      /\ Len(hs[f].blocks) = m + n
      /\ \A c \in 1..m : hs[f].blocks[c] = fs[f].blocks[c]
      /\ \A c \in m + 1..m + n : hs[f].blocks[c] = <<>>
  <2>1. /\ hs \in Seq(Function) /\ Len(hs) = Len(fs)
        /\ \A i \in 1..Len(fs) :
             /\ hs[i].node = fs[i].node /\ hs[i].params = fs[i].params
             /\ hs[i].result = fs[i].result
             /\ i # f => hs[i] = fs[i]
        /\ Len(hs[f].blocks) = Len(fs[f].blocks) + n
        /\ \A c \in 1..Len(fs[f].blocks) : hs[f].blocks[c] = fs[f].blocks[c]
        /\ \A c \in Len(fs[f].blocks) + 1..Len(fs[f].blocks) + n : hs[f].blocks[c] = <<>>
    BY <1>1, NewBlocksFacts
  <2>. HIDE DEF hs
  <2>. QED  BY <2>1
<1>. HIDE DEF hs, m
<1>4. at.function \in 1..Len(hs) /\ at.block \in 1..Len(hs[at.function].blocks)
  BY <1>1, <1>2, <1>3 DEF f, b
<1>5. AfterPut(hs, gs, f, b, code)
  BY <1>3, <1>4, PutGives DEF f, b
<1>. HIDE DEF gs
<1>6. gs[f].blocks[b] = fs[f].blocks[b] \o code
  BY <1>1, <1>3, <1>5 DEF AfterPut
<1>7. ASSUME NEW c \in 1..m, c # b PROVE gs[f].blocks[c] = fs[f].blocks[c]
  <2>1. c \in 1..m + n
    BY <1>2
  <2>. QED  BY <1>3, <1>5, <1>7, <2>1 DEF AfterPut
<1>8. ASSUME NEW c \in m + 1..m + n PROVE gs[f].blocks[c] = <<>>
  <2>1. c \in 1..m + n /\ c # b
    BY <1>1, <1>2
  <2>. QED  BY <1>3, <1>5, <2>1 DEF AfterPut
<1>9. \A i \in 1..Len(fs) : gs[i].node = fs[i].node /\ (i # f => gs[i] = fs[i])
  BY <1>3, <1>5 DEF AfterPut
<1>10. gs \in Seq(Function) /\ Len(gs) = Len(fs) /\ Len(gs[f].blocks) = m + n
  BY <1>3, <1>5 DEF AfterPut
<1>11. AfterNewBlocks(fs, gs, f, b, n, code)
  BY <1>2, <1>6, <1>7, <1>8, <1>9, <1>10 DEF AfterNewBlocks, m
<1>. QED  BY <1>11 DEF f, b, hs, gs

\* Where the builder is in a body, in the shape the lemmas on Put ask for.
LEMMA BodyHere ==
  ASSUME NEW st, InBody(st)
  PROVE  /\ insert.function = Len(functions) /\ functions \in Seq(Function)
         /\ insert.function \in 1..Len(functions)
         /\ insert.block \in 1..Len(functions[insert.function].blocks)
         /\ NewestBlocks = functions[insert.function].blocks
         /\ NewestBlocks \in Seq(Code) /\ Len(NewestBlocks) \in Nat
         /\ frames \in Seq(FrameSet) /\ Len(frames) \in Nat
         /\ ~Awaited(frames, insert.block)
<1>1. /\ Len(functions) \in 1..Len(functions) /\ insert.function = Len(functions)
      /\ functions \in Seq(Function) /\ frames \in Seq(FrameSet)
      /\ insert.block \in 1..Len(NewestBlocks) /\ NewestBlocks \in Seq(Code)
      /\ Open(frames, NewestBlocks, insert.block)
  BY BodyPlace DEF GenTypeOK, InBody
<1>2. Len(NewestBlocks) \in Nat /\ Len(frames) \in Nat
  BY <1>1, LenProperties
<1>3. ~Awaited(frames, insert.block)
  <2>1. insert.block \in Nat /\ insert.block # 0
    BY <1>1, <1>2
  <2>. QED  BY <1>1, <2>1, NotAwaited
<1>4. NewestBlocks = functions[insert.function].blocks
  BY <1>1 DEF NewestBlocks
<1>. QED  BY <1>1, <1>2, <1>3, <1>4

\* What a change of the newest function leaves of the others.
LEMMA OnlyNewest ==
  ASSUME NEW st, InBody(st), NEW gs \in Seq(Function), functions' = gs, Len(gs) = Len(functions),
         \A i \in 1..Len(functions) :
            gs[i].node = functions[i].node /\ (i # insert.function => gs[i] = functions[i])
  PROVE  /\ OthersStay /\ NewestBlocks' = gs[insert.function].blocks
         /\ NewestBlocks' \in Seq(Code)
<1>1. insert.function = Len(functions) /\ insert.function \in 1..Len(functions)
  BY BodyHere
<1>2. NewestBlocks' = gs[insert.function].blocks
  BY <1>1 DEF NewestBlocks
<1>3. gs[insert.function].blocks \in Seq(Code)
  BY <1>1, BlocksFacts
<1>. QED  BY <1>1, <1>2, <1>3 DEF OthersStay

\* The blocks of a branch.
LEMMA BranchPlaced ==
  ASSUME NEW st, InBody(st), NEW n \in Nat, NEW code \in Code,
         functions' = Gen!Put(Gen!NewBlocks(functions, insert.function, n), insert, code)
  PROVE  LET old == NewestBlocks new == NewestBlocks' m == Len(old)
         IN  /\ OthersStay
             /\ old \in Seq(Code) /\ new \in Seq(Code) /\ m \in Nat /\ Len(new) = m + n
             /\ new[insert.block] = old[insert.block] \o code
             /\ \A c \in 1..m : c # insert.block => new[c] = old[c]
             /\ \A c \in m + 1..m + n : new[c] = <<>>
<1>. DEFINE f  == insert.function
            gs == Gen!Put(Gen!NewBlocks(functions, insert.function, n), insert, code)
<1>1. AfterNewBlocks(functions, gs, f, insert.block, n, code)
  BY BodyHere, NewBlocksGive
<1>2. functions' = gs
  OBVIOUS
<1>. HIDE DEF gs
<1>3. OthersStay /\ NewestBlocks' = gs[f].blocks /\ NewestBlocks' \in Seq(Code)
  BY <1>1, <1>2, OnlyNewest DEF AfterNewBlocks
<1>4. NewestBlocks = functions[f].blocks /\ NewestBlocks \in Seq(Code)
  BY BodyHere
<1>. HIDE DEF f
<1>. QED  BY <1>1, <1>3, <1>4 DEF AfterNewBlocks

\* The blocks of a loop: its condition has the first of them.
LEMMA LoopPlaced ==
  ASSUME NEW st, InBody(st), NEW enter \in Code, NEW test \in Code,
         functions' = Gen!Put(Gen!Put(Gen!NewBlocks(functions, insert.function, 3), insert, enter),
                              Gen!Block(Len(NewestBlocks) + 1), test)
  PROVE  LET old == NewestBlocks new == NewestBlocks' m == Len(old)
         IN  /\ OthersStay
             /\ old \in Seq(Code) /\ new \in Seq(Code) /\ m \in Nat /\ Len(new) = m + 3
             /\ new[insert.block] = old[insert.block] \o enter
             /\ \A c \in 1..m : c # insert.block => new[c] = old[c]
             /\ new[m + 1] = test /\ new[m + 2] = <<>> /\ new[m + 3] = <<>>
<1>. DEFINE f  == insert.function
            b  == insert.block
            gs == Gen!Put(Gen!NewBlocks(functions, insert.function, 3), insert, enter)
            m  == Len(functions[f].blocks)
            at == Gen!Block(m + 1)
            hs == Gen!Put(gs, at, test)
<1>1. AfterNewBlocks(functions, gs, f, b, 3, enter)
  <2>1. 3 \in Nat
    OBVIOUS
  <2>. QED  BY <2>1, BodyHere, NewBlocksGive
<1>2. f \in 1..Len(functions) /\ b \in 1..m /\ NewestBlocks = functions[f].blocks
      /\ NewestBlocks \in Seq(Code)
  BY BodyHere
<1>3. at.function = f /\ at.block = m + 1
  BY DEF Gen!Block, GenTypeOK, Place, InBody
<1>4. functions' = hs
  BY <1>2, Zenon
<1>. HIDE DEF gs, at, f, b
<1>5. /\ gs \in Seq(Function) /\ Len(gs) = Len(functions) /\ m \in Nat
      /\ \A i \in 1..Len(functions) :
           gs[i].node = functions[i].node /\ (i # f => gs[i] = functions[i])
      /\ Len(gs[f].blocks) = m + 3
      /\ gs[f].blocks[b] = functions[f].blocks[b] \o enter
      /\ \A c \in 1..m : c # b => gs[f].blocks[c] = functions[f].blocks[c]
      /\ \A c \in m + 1..m + 3 : gs[f].blocks[c] = <<>>
  BY <1>1, Zenon DEF AfterNewBlocks
<1>. HIDE DEF m
<1>6. /\ m + 1 \in 1..m + 3 /\ m + 2 \in 1..m + 3 /\ m + 3 \in 1..m + 3
      /\ m + 1 \in m + 1..m + 3 /\ m + 2 \in m + 1..m + 3 /\ m + 3 \in m + 1..m + 3
      /\ m + 2 # m + 1 /\ m + 3 # m + 1
  <2>1. m \in Nat
    BY <1>5
  <2>. QED  BY <2>1
<1>7. AfterPut(gs, hs, f, m + 1, test)
  <2>1. at.function \in 1..Len(gs) /\ at.block \in 1..Len(gs[at.function].blocks)
    BY <1>2, <1>3, <1>5, <1>6
  <2>2. AfterPut(gs, hs, at.function, at.block, test)
    BY <1>5, <2>1, PutGives
  <2>. QED  BY <1>3, <2>2
<1>. HIDE DEF hs
<1>8. /\ hs \in Seq(Function) /\ Len(hs) = Len(gs)
      /\ \A i \in 1..Len(gs) : hs[i].node = gs[i].node /\ (i # f => hs[i] = gs[i])
      /\ Len(hs[f].blocks) = m + 3
      /\ hs[f].blocks[m + 1] = gs[f].blocks[m + 1] \o test
      /\ \A c \in 1..m + 3 : c # m + 1 => hs[f].blocks[c] = gs[f].blocks[c]
  BY <1>5, <1>7 DEF AfterPut
<1>9. hs[f].blocks[m + 1] = test
  <2>1. hs[f].blocks[m + 1] = <<>> \o test
    BY <1>5, <1>6, <1>8
  <2>. QED  BY <2>1, ConcatEmptySeq DEF Code
<1>10. hs[f].blocks[m + 2] = <<>> /\ hs[f].blocks[m + 3] = <<>>
  BY <1>5, <1>6, <1>8
<1>11. ASSUME NEW c \in 1..m PROVE hs[f].blocks[c] = gs[f].blocks[c]
  <2>1. c \in 1..m + 3 /\ c # m + 1
    BY <1>5
  <2>. QED  BY <1>8, <2>1
<1>12. hs[f].blocks[b] = functions[f].blocks[b] \o enter
  BY <1>2, <1>5, <1>11
<1>13. OthersStay /\ NewestBlocks' = hs[f].blocks /\ NewestBlocks' \in Seq(Code)
  <2>1. \A i \in 1..Len(functions) :
          hs[i].node = functions[i].node /\ (i # insert.function => hs[i] = functions[i])
    BY <1>5, <1>8 DEF f
  <2>2. Len(hs) = Len(functions)
    BY <1>5, <1>8
  <2>. QED  BY <1>4, <1>8, <2>1, <2>2, OnlyNewest DEF f
<1>14. \A c \in 1..m : c # b => hs[f].blocks[c] = functions[f].blocks[c]
  BY <1>5, <1>11
<1>15. m = Len(NewestBlocks)
  BY <1>2 DEF m
<1>. QED  BY <1>2, <1>5, <1>8, <1>9, <1>10, <1>12, <1>13, <1>14, <1>15 DEF b

\* How the blocks are after a visit that opened a body in block d with frame f.
Opens(old, b, new, d, f, code) ==
  /\ new \in Seq(Code) /\ Len(old) <= Len(new)
  /\ new[b] = old[b] \o code
  /\ \A c \in 1..Len(old) : c # b => new[c] = old[c]
  /\ d \in Len(old) + 1..Len(new) /\ new[d] = <<>>
  /\ \A c \in Len(old) + 1..Len(new) : /\ c = d \/ c = f.next \/ BlockIsClosed(new[c])
                                       /\ GoesTo(new[c], Len(new))
  /\ f.next \notin 1..Len(old) /\ GoesTo(code, Len(new))

LEMMA OpeningShapes ==
  ASSUME NEW st, InBody(st), Opening(pos), OthersStay, NEW code \in Code,
         NEW d, NEW f \in FrameSet, Opens(NewestBlocks, insert.block, NewestBlocks', d, f, code),
         insert'.block = d, frames' = Append(frames, f),
         FramePlaced(f, ast[pos].node # "if"),
         ast[pos].node # "if" => BlockIsClosed(code) /\ code # <<>>
  PROVE  ShapesOn
<1>. DEFINE old == NewestBlocks
            new == NewestBlocks'
<1>0. /\ new \in Seq(Code) /\ Len(old) <= Len(new)
      /\ new[insert.block] = old[insert.block] \o code
      /\ \A c \in 1..Len(old) : c # insert.block => new[c] = old[c]
      /\ d \in Len(old) + 1..Len(new) /\ new[d] = <<>>
      /\ \A c \in Len(old) + 1..Len(new) : /\ c = d \/ c = f.next \/ BlockIsClosed(new[c])
                                           /\ GoesTo(new[c], Len(new))
      /\ f.next \notin 1..Len(old) /\ GoesTo(code, Len(new))
  BY Zenon DEF Opens
<1>. DEFINE b  == insert.block
            gr == Append(frames, f)
<1>1. /\ b \in 1..Len(old) /\ old \in Seq(Code) /\ Len(old) \in Nat /\ Len(new) \in Nat
      /\ ~Awaited(frames, b) /\ frames \in Seq(FrameSet) /\ old[b] \in Code
      /\ pos \in Nat /\ pos > 0
  <2>1. /\ old \in Seq(Code) /\ Len(old) \in Nat /\ ~Awaited(frames, b)
        /\ frames \in Seq(FrameSet) /\ b \in 1..Len(old)
    BY BodyHere
  <2>. HIDE DEF old, new, b
  <2>2. Len(new) \in Nat
    BY <1>0, LenProperties
  <2>. QED  BY <2>1, <2>2, BodyValue, ElementOfSeq
<1>. HIDE DEF b, old, new
<1>2. /\ Len(frames) \in Nat /\ Len(gr) = Len(frames) + 1 /\ gr[Len(frames) + 1] = f
      /\ \A i \in 1..Len(frames) : gr[i] = frames[i]
  BY <1>1, LenProperties, AppendProperties
<1>. HIDE DEF gr
<1>3. \A c : Awaited(gr, c) <=> Awaited(frames, c) \/ c = f.next
  <2>1. /\ \A i \in 1..Len(gr) : i \in 1..Len(frames) \/ i = Len(frames) + 1
        /\ \A i \in 1..Len(frames) : i \in 1..Len(gr)
        /\ Len(frames) + 1 \in 1..Len(gr)
    BY <1>2
  <2>. QED  BY <1>2, <2>1 DEF Awaited
<1>4. /\ d \in 1..Len(new) /\ d \notin 1..Len(old) /\ d # b
      /\ \A c \in 1..Len(new) : c \in 1..Len(old) \/ c \in Len(old) + 1..Len(new)
  BY <1>0, <1>1
<1>5. Builds(old, b, frames, new, d, gr, code)
  BY <1>0, <1>1, <1>3, <1>4, Zenon DEF Builds, b
<1>6. /\ ast[pos].node \notin {"end", "return"} /\ ~Leaves(pos)
      /\ ast[pos].node # "if" => (NodeTidy(pos) <=> ~Leaves(pos - 1))
      /\ ast[pos].node = "if" => ~NodeTidy(pos)
  BY <1>1, TidyNode DEF Opening
<1>7. LeavesWell(pos, old[b], new[b], d = b)
  <2>1. ast[pos].node # "if" /\ IsStraight(old[b]) => BlockIsClosed(new[b])
    <3>1. new[b] = old[b] \o code
      BY <1>0 DEF b
    <3>. QED  BY <1>1, <3>1, ClosedAfter
  <2>2. (d = b) = FALSE
    BY <1>4
  <2>. QED  BY <1>6, <2>1, <2>2, Zenon DEF LeavesWell, CurrentIs
<1>8. Breaks(pos, frames, code, d = b)
  BY <1>1, <1>6, Zenon DEF Breaks, Shows
<1>9. \A i \in 1..Len(gr) :
        (\E j \in 1..Len(frames) : gr[i] = frames[j]) \/ FramePlaced(gr[i], ast[pos].node # "if")
  <2>1. \A i \in 1..Len(gr) : i \in 1..Len(frames) \/ i = Len(frames) + 1
    BY <1>2
  <2>. QED  BY <1>2, <2>1
<1>10. \A c \in 1..Len(new) : c \in 1..Len(old) \/ GoesTo(new[c], Len(new))
  BY <1>0, <1>4
<1>11. ShapeStep(pos, old, b, frames, new, d, gr, code)
  BY <1>0, <1>4, <1>5, <1>7, <1>8, <1>9, <1>10, Zenon DEF ShapeStep
<1>. QED  BY <1>11 DEF ShapesOn, b, gr, old, new

\* A branch, and code that ends with one.
LEMMA ClosingBranch ==
  ASSUME pos \in Nat, NEW op \in {"br", "condbr"}, NEW n \in Nat, NEW to \in SUBSET (2..n),
         NEW ok \in BOOLEAN, NEW a \in Code, IsStraight(a), GoesTo(a, n)
  PROVE  LET code == Append(a, Gen!Branch(op, to, ok))
         IN  code \in Code /\ BlockIsClosed(code) /\ code # <<>> /\ GoesTo(code, n)
<1>. DEFINE i == Gen!Branch(op, to, ok)
<1>1. to \in SUBSET Nat
  OBVIOUS
<1>2. i \in Instruction /\ i.to = to
  BY <1>1, BranchTyped
<1>3. i.op \in Gen!Terminators
  BY DEF Gen!Branch, Gen!Terminators
<1>. HIDE DEF i
<1>4. Append(a, i) \in Code /\ BlockIsClosed(Append(a, i)) /\ Append(a, i) # <<>>
  BY <1>2, <1>3, Closing
<1>5. GoesTo(Append(a, i), n)
  BY <1>2, GoesToLast
<1>. QED  BY <1>4, <1>5 DEF i

LEMMA FrameGiven ==
  ASSUME NEW st, InBody(st), NEW kind \in VisitKinds, NEW back \in Nat, NEW next \in Nat
  PROVE  LET f == Gen!Frame(kind, back, next)
         IN  f \in FrameSet /\ f.kind = kind /\ f.back = back /\ f.next = next
BY DEF Gen!Frame, FrameSet, GenTypeOK, InBody

\* A loop: the block under way and the condition are closed, the exit is awaited.
LEMMA LoopShapes ==
  ASSUME NEW st, InBody(st), ast[pos].node \in {"for", "while"},
         NEW kind \in {"for", "while"}, NEW enter \in Code, NEW test \in Code,
         NEW m, m = Len(NewestBlocks),
         BlockIsClosed(enter), enter # <<>>, GoesTo(enter, m + 3),
         BlockIsClosed(test), GoesTo(test, m + 3),
         functions' = Gen!Put(Gen!Put(Gen!NewBlocks(functions, insert.function, 3), insert, enter),
                              Gen!Block(m + 1), test),
         insert' = Gen!Block(m + 2),
         frames' = Append(frames, Gen!Frame(kind, m + 1, m + 3))
  PROVE  ShapesOn
<1>. DEFINE old == NewestBlocks
            new == NewestBlocks'
            f   == Gen!Frame(kind, m + 1, m + 3)
            d   == m + 2
<1>1. /\ OthersStay
      /\ old \in Seq(Code) /\ new \in Seq(Code) /\ m \in Nat /\ Len(new) = m + 3
      /\ new[insert.block] = old[insert.block] \o enter
      /\ \A c \in 1..m : c # insert.block => new[c] = old[c]
      /\ new[m + 1] = test /\ new[m + 2] = <<>> /\ new[m + 3] = <<>>
  BY LoopPlaced
<1>2. insert.block \in 1..m
  BY BodyHere
<1>3. /\ m <= m + 3 /\ d \in m + 1..m + 3
      /\ m + 3 \notin 1..m /\ m + 1 \in Nat /\ m + 3 \in Nat
      /\ m + 3 # 0 /\ m + 1 # 0 /\ m + 3 # 1 /\ m + 1 # 1
      /\ \A c \in m + 1..m + 3 : c = m + 1 \/ c = m + 2 \/ c = m + 3
  <2>1. m \in Nat /\ m # 0
    BY <1>1, <1>2
  <2>. QED  BY <2>1
<1>4. f \in FrameSet /\ f.kind = kind /\ f.back = m + 1 /\ f.next = m + 3
  <2>1. kind \in VisitKinds
    BY DEF VisitKinds, BodyKinds
  <2>. QED  BY <1>3, <2>1, FrameGiven
<1>5. insert'.block = d
  BY DEF Gen!Block, GenTypeOK, Place, InBody
<1>6. frames' = Append(frames, f)
  OBVIOUS
<1>. HIDE DEF old, new, f
<1>7. FramePlaced(f, ast[pos].node # "if")
  BY <1>3, <1>4 DEF FramePlaced
<1>8. Opening(pos) /\ ast[pos].node # "if"
  BY DEF Opening
<1>9. ASSUME NEW c \in m + 1..m + 3
      PROVE  /\ c = d \/ c = f.next \/ BlockIsClosed(new[c])
             /\ GoesTo(new[c], m + 3)
  <2>1. c = m + 1 \/ c = m + 2 \/ c = m + 3
    BY <1>3
  <2>2. GoesTo(new[c], m + 3)
    BY <1>1, <2>1, NoCode
  <2>3. c = d \/ c = f.next \/ BlockIsClosed(new[c])
    BY <1>1, <1>4, <2>1
  <2>. QED  BY <2>2, <2>3
<1>. HIDE DEF d
<1>10. new[d] = <<>>
  BY <1>1 DEF d
<1>11. old = NewestBlocks /\ new = NewestBlocks'
  BY DEF old, new
<1>12. Opens(old, insert.block, new, d, f, enter)
  <2>1. Len(old) = m
    BY <1>11
  <2>. QED  BY <1>1, <1>3, <1>4, <1>9, <1>10, <2>1 DEF Opens
<1>. QED  BY <1>1, <1>4, <1>5, <1>6, <1>7, <1>8, <1>11, <1>12, OpeningShapes

LEMMA WhileShapes ==
  ASSUME NEW st, InBody(st), Gen!VisitWhileLoopStatement
  PROVE  ShapesOn \/ \E how \in {"threw", "crashed"} : Gen!Fail(how)
<1>. DEFINE v == Gen!Evaluate(ast[pos].expr, lastValue, insert.function)
<1>m. PICK m : m = Len(NewestBlocks)
  OBVIOUS
<1>. DEFINE ok == Gen!UsableIn(v, insert.function)
            test == Append(v.code, Gen!Branch("condbr", {m + 2, m + 3}, ok))
            enter == <<Gen!Branch("br", {m + 1}, TRUE)>>
<1>1. ast[pos].node = "while" /\ Gen!BlockCount = m
  BY <1>m, BodyHere DEF Gen!VisitWhileLoopStatement, Gen!At, Gen!node, Gen!BlockCount, Gen!Here
<1>2. \/ \E how \in {"threw", "crashed"} : Gen!Fail(how)
      \/ /\ functions' = Gen!Put(Gen!Put(Gen!NewBlocks(functions, insert.function, 3), insert, enter),
                                 Gen!Block(m + 1), test)
         /\ insert' = Gen!Block(m + 2)
         /\ frames' = Append(frames, Gen!Frame("while", m + 1, m + 3))
  BY <1>1 DEF Gen!VisitWhileLoopStatement, Gen!Here, Gen!node
<1>3. v.code \in Code /\ IsStraight(v.code) /\ (\A n : GoesTo(v.code, n)) /\ pos \in Nat
  <2>1. ast[pos].expr \in Expression
    BY <1>1, BodyValue, NodeFields
  <2>. QED  BY <2>1, BodyValue
<1>4. /\ m + 3 \in Nat /\ {m + 2, m + 3} \in SUBSET (2..m + 3) /\ {m + 1} \in SUBSET (2..m + 3)
  <2>1. m \in Nat /\ insert.block \in 1..m
    BY <1>m, BodyHere
  <2>. QED  BY <2>1
<1>5. ok \in BOOLEAN
  BY DEF Gen!UsableIn
<1>. HIDE DEF v, ok
<1>6. test \in Code /\ BlockIsClosed(test) /\ GoesTo(test, m + 3)
  BY <1>3, <1>4, <1>5, ClosingBranch
<1>7. enter \in Code /\ BlockIsClosed(enter) /\ enter # <<>> /\ GoesTo(enter, m + 3)
  <2>1. LET code == Append(<<>>, Gen!Branch("br", {m + 1}, TRUE))
        IN  code \in Code /\ BlockIsClosed(code) /\ code # <<>> /\ GoesTo(code, m + 3)
    BY <1>3, <1>4, NoCode, ClosingBranch
  <2>2. enter = Append(<<>>, Gen!Branch("br", {m + 1}, TRUE))
    OBVIOUS
  <2>. QED  BY <2>1, <2>2
<1>. HIDE DEF test, enter
<1>8. ast[pos].node \in {"for", "while"} /\ "while" \in {"for", "while"}
  BY <1>1
<1>. QED  BY <1>m, <1>2, <1>6, <1>7, <1>8, LoopShapes

LEMMA ForShapes ==
  ASSUME NEW st, InBody(st), Gen!VisitForLoopStatement
  PROVE  ShapesOn \/ Gen!Fail("crashed")
<1>. DEFINE start == Gen!Evaluate(ast[pos].start, lastValue, insert.function)
            end == Gen!Evaluate(ast[pos].end, Gen!Null, insert.function)
<1>m. PICK m : m = Len(NewestBlocks)
  OBVIOUS
<1>. DEFINE ok == /\ start.type = end.type /\ start.type \in Gen!IntegerTypes
                  /\ Gen!UsableIn(start, insert.function)
            store == Gen!Instr("store", "loopVar", TRUE)
            load == Gen!Instr("load", "loopVar", TRUE)
            compare == Gen!Instr("arith", "", ok)
            goto == Gen!Branch("br", {m + 1}, TRUE)
            jump == Gen!Branch("condbr", {m + 2, m + 3}, TRUE)
            enter == start.code \o <<store, goto>>
            test == end.code \o <<load, compare, jump>>
<1>1. ast[pos].node = "for" /\ Gen!BlockCount = m
  BY <1>m, BodyHere DEF Gen!VisitForLoopStatement, Gen!At, Gen!node, Gen!BlockCount, Gen!Here
<1>2. \/ Gen!Fail("crashed")
      \/ /\ functions' = Gen!Put(Gen!Put(Gen!NewBlocks(functions, insert.function, 3), insert, enter),
                                 Gen!Block(m + 1), test)
         /\ insert' = Gen!Block(m + 2)
         /\ frames' = Append(frames, Gen!Frame("for", m + 1, m + 3))
  BY <1>1 DEF Gen!VisitForLoopStatement, Gen!Here, Gen!node
<1>3. /\ start.code \in Seq(Calm) /\ end.code \in Seq(Calm) /\ pos \in Nat
  <2>1. ast[pos].start \in Expression /\ ast[pos].end \in Expression
    BY <1>1, BodyValue, NodeFields
  <2>. QED  BY <2>1, BodyValue
<1>4. /\ m + 3 \in Nat /\ {m + 2, m + 3} \in SUBSET (2..m + 3) /\ {m + 1} \in SUBSET (2..m + 3)
  <2>1. m \in Nat /\ insert.block \in 1..m
    BY <1>m, BodyHere
  <2>. QED  BY <2>1
<1>5. store \in Calm /\ load \in Calm /\ compare \in Calm
  <2>1. ok \in BOOLEAN
    BY DEF Gen!UsableIn
  <2>. HIDE DEF ok
  <2>. QED  BY <1>3, <2>1, CalmInstr, InstrNamesFacts
<1>. HIDE DEF start, end, store, load, compare
<1>6. goto \in Instruction /\ jump \in Instruction
  <2>1. {m + 1} \in SUBSET Nat /\ {m + 2, m + 3} \in SUBSET Nat
    BY <1>4
  <2>. QED  BY <1>3, <2>1, BranchTyped
<1>7. enter = Append(start.code \o <<store>>, goto)
  <2>1. start.code \in Seq(Instruction) /\ store \in Instruction
    BY <1>3, <1>5, CalmCode DEF Calm, Code
  <2>. HIDE DEF goto
  <2>. QED  BY <1>6, <2>1
<1>8. test = Append(end.code \o <<load, compare>>, jump)
  <2>1. end.code \in Seq(Instruction) /\ load \in Instruction /\ compare \in Instruction
    BY <1>3, <1>5, CalmCode DEF Calm, Code
  <2>. HIDE DEF jump
  <2>. QED  BY <1>6, <2>1
<1>9. start.code \o <<store>> \in Seq(Calm) /\ end.code \o <<load, compare>> \in Seq(Calm)
  <2>1. <<store>> \in Seq(Calm) /\ <<load, compare>> \in Seq(Calm)
    BY <1>5
  <2>. QED  BY <1>3, <2>1, ConcatProperties
<1>. DEFINE init == start.code \o <<store>>
            value == end.code \o <<load, compare>>
<1>10. /\ init \in Code /\ IsStraight(init) /\ GoesTo(init, m + 3)
       /\ value \in Code /\ IsStraight(value) /\ GoesTo(value, m + 3)
  BY <1>9, CalmCode
<1>. HIDE DEF init, value
<1>11. enter \in Code /\ BlockIsClosed(enter) /\ enter # <<>> /\ GoesTo(enter, m + 3)
  <2>1. LET code == Append(init, Gen!Branch("br", {m + 1}, TRUE))
        IN  code \in Code /\ BlockIsClosed(code) /\ code # <<>> /\ GoesTo(code, m + 3)
    BY <1>3, <1>4, <1>10, ClosingBranch
  <2>. QED  BY <1>7, <2>1 DEF init
<1>12. test \in Code /\ BlockIsClosed(test) /\ GoesTo(test, m + 3)
  <2>1. LET code == Append(value, Gen!Branch("condbr", {m + 2, m + 3}, TRUE))
        IN  code \in Code /\ BlockIsClosed(code) /\ code # <<>> /\ GoesTo(code, m + 3)
    BY <1>3, <1>4, <1>10, ClosingBranch
  <2>. QED  BY <1>8, <2>1 DEF value
<1>. HIDE DEF test, enter
<1>13. ast[pos].node \in {"for", "while"} /\ "for" \in {"for", "while"}
  BY <1>1
<1>. QED  BY <1>m, <1>2, <1>11, <1>12, <1>13, LoopShapes

LEMMA IfShapes ==
  ASSUME NEW st, InBody(st), Gen!VisitIfStatement
  PROVE  ShapesOn
<1>. DEFINE v == Gen!Evaluate(ast[pos].expr, lastValue, insert.function)
            code == v.code
            f == Gen!Frame("then", 0, 0)
<1>m. PICK m : m = Len(NewestBlocks)
  OBVIOUS
<1>. DEFINE d == m + 1
<1>1. ast[pos].node = "if" /\ Gen!BlockCount = m
  BY <1>m, BodyHere DEF Gen!VisitIfStatement, Gen!At, Gen!node, Gen!BlockCount, Gen!Here
<1>2. /\ functions' = Gen!Put(Gen!NewBlocks(functions, insert.function, 1), insert, code)
      /\ insert' = Gen!Block(d)
      /\ frames' = Append(frames, f)
  BY <1>1 DEF Gen!VisitIfStatement, Gen!Here, Gen!node
<1>3. code \in Code /\ \A n : GoesTo(code, n)
  <2>1. ast[pos].expr \in Expression
    BY <1>1, BodyValue, NodeFields
  <2>. QED  BY <2>1, BodyValue
<1>. HIDE DEF code
<1>4. /\ OthersStay /\ NewestBlocks' \in Seq(Code) /\ m \in Nat /\ Len(NewestBlocks') = m + 1
      /\ NewestBlocks'[insert.block] = NewestBlocks[insert.block] \o code
      /\ \A c \in 1..m : c # insert.block => NewestBlocks'[c] = NewestBlocks[c]
      /\ \A c \in m + 1..m + 1 : NewestBlocks'[c] = <<>>
  <2>1. 1 \in Nat
    OBVIOUS
  <2>. QED  BY <1>m, <1>2, <1>3, <2>1, BranchPlaced
<1>5. f \in FrameSet /\ f.kind = "then" /\ f.next = 0 /\ f.back = 0
  BY FrameGiven DEF VisitKinds, BodyKinds
<1>6. insert'.block = d
  BY <1>2 DEF Gen!Block, GenTypeOK, Place, InBody
<1>. HIDE DEF f
<1>7. d \in m + 1..m + 1 /\ (\A c \in m + 1..m + 1 : c = d) /\ m <= m + 1 /\ 0 \notin 1..m
  BY <1>4
<1>8. FramePlaced(f, ast[pos].node # "if") /\ Opening(pos)
  BY <1>1, <1>5 DEF FramePlaced, Opening
<1>9. \A c \in m + 1..m + 1 : NewestBlocks'[c] = <<>> /\ GoesTo(NewestBlocks'[c], m + 1)
  BY <1>4, NoCode
<1>. HIDE DEF d
<1>10. Opens(NewestBlocks, insert.block, NewestBlocks', d, f, code)
  BY <1>m, <1>3, <1>4, <1>5, <1>7, <1>9, Zenon DEF Opens
<1>. QED  BY <1>1, <1>2, <1>3, <1>4, <1>5, <1>6, <1>8, <1>10, OpeningShapes

LEMMA IfElseShapes ==
  ASSUME NEW st, InBody(st), Gen!VisitIfElseStatement
  PROVE  ShapesOn
<1>. DEFINE v == Gen!Evaluate(ast[pos].expr, lastValue, insert.function)
            ok == v.type = Gen!I1 /\ Gen!UsableIn(v, insert.function)
<1>m. PICK m : m = Len(NewestBlocks)
  OBVIOUS
<1>. DEFINE d == m + 1
            f == Gen!Frame("thenElse", 0, m + 2)
            code == Append(v.code, Gen!Branch("condbr", {m + 1, m + 2}, ok))
<1>1. ast[pos].node = "ifElse" /\ Gen!BlockCount = m
  BY <1>m, BodyHere DEF Gen!VisitIfElseStatement, Gen!At, Gen!node, Gen!BlockCount, Gen!Here
<1>2. /\ functions' = Gen!Put(Gen!NewBlocks(functions, insert.function, 2), insert, code)
      /\ insert' = Gen!Block(d)
      /\ frames' = Append(frames, f)
  BY <1>1 DEF Gen!VisitIfElseStatement, Gen!Here, Gen!node
<1>3. v.code \in Code /\ IsStraight(v.code) /\ (\A n : GoesTo(v.code, n)) /\ pos \in Nat
  <2>1. ast[pos].expr \in Expression
    BY <1>1, BodyValue, NodeFields
  <2>. QED  BY <2>1, BodyValue
<1>4. ok \in BOOLEAN
  BY DEF Gen!UsableIn
<1>5. m \in Nat /\ m + 2 \in Nat /\ {m + 1, m + 2} \in SUBSET (2..m + 2)
  <2>1. m \in Nat /\ insert.block \in 1..m
    BY <1>m, BodyHere
  <2>. QED  BY <2>1
<1>. HIDE DEF v, ok
<1>6. code \in Code /\ BlockIsClosed(code) /\ code # <<>> /\ GoesTo(code, m + 2)
  BY <1>3, <1>4, <1>5, ClosingBranch
<1>. HIDE DEF code
<1>7. /\ OthersStay /\ NewestBlocks' \in Seq(Code) /\ Len(NewestBlocks') = m + 2
      /\ NewestBlocks'[insert.block] = NewestBlocks[insert.block] \o code
      /\ \A c \in 1..m : c # insert.block => NewestBlocks'[c] = NewestBlocks[c]
      /\ \A c \in m + 1..m + 2 : NewestBlocks'[c] = <<>>
  <2>1. 2 \in Nat
    OBVIOUS
  <2>. QED  BY <1>m, <1>2, <1>6, <2>1, BranchPlaced
<1>8. f \in FrameSet /\ f.kind = "thenElse" /\ f.next = m + 2 /\ f.back = 0
  BY <1>5, FrameGiven DEF VisitKinds, BodyKinds
<1>9. insert'.block = d
  BY <1>2 DEF Gen!Block, GenTypeOK, Place, InBody
<1>. HIDE DEF f
<1>10. /\ d \in m + 1..m + 2 /\ (\A c \in m + 1..m + 2 : c = d \/ c = m + 2) /\ m <= m + 2
       /\ m + 2 \notin 1..m /\ m + 2 # 0 /\ m + 2 # 1
  <2>1. m # 0
    BY <1>m, <1>5, BodyHere
  <2>. QED  BY <1>5, <2>1
<1>11. FramePlaced(f, ast[pos].node # "if") /\ Opening(pos)
  BY <1>1, <1>8, <1>10 DEF FramePlaced, Opening
<1>12. \A c \in m + 1..m + 2 : NewestBlocks'[c] = <<>> /\ GoesTo(NewestBlocks'[c], m + 2)
  BY <1>7, NoCode
<1>. HIDE DEF d
<1>13. Opens(NewestBlocks, insert.block, NewestBlocks', d, f, code)
  BY <1>m, <1>6, <1>7, <1>8, <1>10, <1>12, Zenon DEF Opens
<1>. QED  BY <1>2, <1>6, <1>7, <1>8, <1>9, <1>11, <1>13, OpeningShapes

-----------------------------------------------------------------------------
(***************************************************************************)
(* The end of a body in a function.                                        *)
(***************************************************************************)
\* The visits that go on when the innermost body is over, that of a then body
\* with its else.
ElseOf(f)  == [f EXCEPT !.kind = "else", !.next = 0]
Leaving(fr) ==
  LET f == fr[Len(fr)]
  IN  IF f.kind = "thenElse" THEN Append(Front(fr), ElseOf(f)) ELSE Front(fr)

LEMMA ElseFrame ==
  ASSUME NEW f \in FrameSet
  PROVE  /\ ElseOf(f) \in FrameSet /\ ElseOf(f).kind = "else" /\ ElseOf(f).next = 0
         /\ ElseOf(f).back = f.back
BY DEF ElseOf, FrameSet, VisitKinds, BodyKinds

LEMMA FramesLeft ==
  ASSUME NEW fr \in Seq(FrameSet), fr # <<>>
  PROVE  LET f == fr[Len(fr)] gr == Leaving(fr)
         IN  /\ Len(fr) \in 1..Len(fr) /\ f \in FrameSet
             /\ \A i \in 1..Len(gr) :
                  \/ \E j \in 1..Len(fr) : gr[i] = fr[j]
                  \/ f.kind = "thenElse" /\ gr[i] = ElseOf(f)
             /\ \A c : c # 0 => /\ Awaited(gr, c) => Awaited(fr, c)
                                /\ Awaited(fr, c) => c = f.next \/ Awaited(gr, c)
<1>. DEFINE n  == Len(fr)
            f  == fr[n]
            r  == Front(fr)
            gr == Leaving(fr)
<1>1. n \in Nat /\ n > 0 /\ n \in 1..n /\ f \in FrameSet
  BY LenProperties, EmptySeq, ElementOfSeq
<1>2. r \in Seq(FrameSet) /\ Len(r) = n - 1 /\ \A i \in 1..n - 1 : r[i] = fr[i]
  BY FrontFacts
<1>3. gr = IF f.kind = "thenElse" THEN Append(r, ElseOf(f)) ELSE r
  BY DEF Leaving
<1>4. ElseOf(f) \in FrameSet /\ ElseOf(f).next = 0
  BY <1>1, ElseFrame
<1>. HIDE DEF f, r, gr
<1>5. /\ Len(gr) \in {n - 1, n}
      /\ Len(gr) = n => f.kind = "thenElse" /\ gr[n] = ElseOf(f)
      /\ \A i \in 1..n - 1 : gr[i] = fr[i]
  <2>1. CASE f.kind = "thenElse"
    <3>1. gr = Append(r, ElseOf(f))
      BY <1>3, <2>1
    <3>2. /\ Len(gr) = n - 1 + 1 /\ gr[n - 1 + 1] = ElseOf(f)
          /\ \A i \in 1..n - 1 : gr[i] = r[i]
      BY <1>2, <1>4, <3>1, AppendProperties
    <3>3. n - 1 + 1 = n
      BY <1>1
    <3>. QED  BY <1>2, <2>1, <3>2, <3>3
  <2>2. CASE f.kind # "thenElse"
    <3>1. gr = r /\ n - 1 # n
      BY <1>1, <1>3, <2>2
    <3>. QED  BY <1>2, <3>1
  <2>. QED  BY <2>1, <2>2
<1>6. /\ \A i \in 1..Len(gr) : i \in 1..n - 1 \/ (i = n /\ Len(gr) = n)
      /\ \A i \in 1..n - 1 : i \in 1..Len(gr)
      /\ \A i \in 1..n : i \in 1..n - 1 \/ i = n
      /\ \A i \in 1..n - 1 : i \in 1..n
  BY <1>1, <1>5
<1>7. ASSUME NEW i \in 1..Len(gr)
      PROVE  (\E j \in 1..n : gr[i] = fr[j]) \/ (f.kind = "thenElse" /\ gr[i] = ElseOf(f))
  BY <1>5, <1>6
<1>8. ASSUME NEW c, c # 0, Awaited(gr, c) PROVE Awaited(fr, c)
  BY <1>4, <1>7, <1>8 DEF Awaited, n
<1>9. ASSUME NEW c, Awaited(fr, c), c # f.next PROVE Awaited(gr, c)
  BY <1>5, <1>6, <1>9 DEF Awaited, f, n
<1>. QED  BY <1>1, <1>7, <1>8, <1>9 DEF f, gr

\* What the text and the frames say of the body that ends.
EndKind(kind) ==
  /\ ast[pos].node = "end" /\ ast[pos].of = kind
  /\ kind \in {"for", "while", "then", "thenElse", "else"}

LEMMA BodyEnds ==
  ASSUME NEW st, InBody(st), NEW s, NEW t, AtNode(s, t), Gen!EndBody
  PROVE  EndKind(frames[Len(frames)].kind)
<1>. DEFINE f == frames[Len(frames)]
<1>1. ast[pos].node = "end" /\ f.kind # "function"
  BY Zenon DEF Gen!EndBody, Gen!At, Gen!node
<1>2. f.kind = s[Len(s)] /\ s # <<>> /\ Len(s) \in 1..Len(s)
  <2>1. f.kind = s[Len(s)] /\ s # <<>> /\ Len(s) \in Nat /\ Len(s) > 0
    BY <1>1, EndFacts
  <2>. QED  BY <2>1
<1>3. s[Len(s)] \in VisitKinds
  BY <1>2, ElementOfSeq DEF AtNode
<1>4. ast[pos].of = s[Len(s)]
  <2>1. <<"function">>[Len(<<"function">>)] = "function"
    OBVIOUS
  <2>. QED  BY <1>1, <1>2, <2>1 DEF AtNode, Follows
<1>. QED  BY <1>1, <1>2, <1>3, <1>4 DEF EndKind, VisitKinds, BodyKinds

LEMMA EndBodyShapes ==
  ASSUME NEW st, InBody(st), NEW s, NEW t, AtNode(s, t), Gen!EndBody,
         NEW bare, \A i \in 1..Len(frames) : FramePlaced(frames[i], bare)
  PROVE  ShapesOn
<1>. DEFINE f    == frames[Len(frames)]
            back == Gen!Branch("br", {f.back}, TRUE)
            add  == Gen!Instr("arith", "", TRUE)
            store == Gen!Instr("store", "loopVar", TRUE)
            code == CASE f.kind = "for"   -> Append(<<add, store>>, back)
                      [] f.kind = "while" -> <<back>>
                      [] OTHER            -> <<>>
            old  == NewestBlocks
            new  == NewestBlocks'
            cur  == insert.block
            d    == IF f.next = 0 THEN cur ELSE f.next
            gr   == Leaving(frames)
<1>1. /\ EndKind(f.kind)
      /\ functions' = Gen!Put(functions, insert, code)
      /\ insert' = IF f.next = 0 THEN insert ELSE Gen!Block(f.next)
      /\ frames' = gr
  BY BodyEnds, Zenon DEF Gen!EndBody, Gen!At, Gen!node, Front, Leaving, ElseOf
<1>2. /\ frames \in Seq(FrameSet) /\ frames # <<>> /\ pos \in Nat /\ pos > 0
      /\ Open(frames, old, cur) /\ cur \in 1..Len(old) /\ Len(old) \in Nat
  <2>1. frames # <<>> /\ Open(frames, old, cur)
    BY BodyPlace DEF InBody
  <2>. QED  BY <2>1, BodyHere, BodyValue
<1>3. insert'.block = d
  BY <1>1 DEF Gen!Block, GenTypeOK, Place, InBody
<1>4. /\ f \in FrameSet /\ FramePlaced(f, bare)
      /\ WaitsFor(f, old, cur) /\ LoopsBack(f, old, cur)
      /\ f.kind \notin {"for", "while"} => f.back = 0
      /\ \E i \in 1..Len(frames) : frames[i] = f
  <2>1. Len(frames) \in 1..Len(frames) /\ f \in FrameSet
    BY <1>2, FramesLeft
  <2>. QED  BY <1>2, <2>1 DEF Open
<1>5. /\ \A i \in 1..Len(gr) :
           \/ \E j \in 1..Len(frames) : gr[i] = frames[j]
           \/ f.kind = "thenElse" /\ gr[i] = ElseOf(f)
      /\ \A c : c # 0 => /\ Awaited(gr, c) => Awaited(frames, c)
                         /\ Awaited(frames, c) => c = f.next \/ Awaited(gr, c)
  BY <1>2, FramesLeft
<1>. HIDE DEF f, gr
<1>6. /\ f.next # 0 => f.next \in 1..Len(old) /\ old[f.next] = <<>> /\ f.next # cur
      /\ f.next # 1 /\ f.back # 1
      /\ f.kind \in {"for", "while"} => f.next # 0 /\ f.back # 0 /\ f.back \in 1..Len(old)
      /\ f.kind = "thenElse" => f.next # 0
      /\ f.kind \in {"then", "else"} => f.next = 0
  BY <1>4 DEF FramePlaced, WaitsFor, LoopsBack
<1>7. f.kind \in {"for", "while"} =>
        code \in Code /\ BlockIsClosed(code) /\ code # <<>> /\ GoesTo(code, Len(old))
  <2>1. SUFFICES ASSUME f.kind \in {"for", "while"}
                 PROVE  code \in Code /\ BlockIsClosed(code) /\ code # <<>> /\ GoesTo(code, Len(old))
    OBVIOUS
  <2>2. {f.back} \in SUBSET (2..Len(old))
    BY <1>2, <1>6, <2>1
  <2>3. add \in Calm /\ store \in Calm
    BY <1>2, CalmInstr, InstrNamesFacts
  <2>4. PICK a \in Seq(Calm) : a = <<add, store>>
    <3>. HIDE DEF add, store
    <3>1. <<add, store>> \in Seq(Calm)
      BY <2>3
    <3>. QED  BY <3>1
  <2>5. PICK e \in Seq(Calm) : e = <<>>
    BY EmptySeq
  <2>6. /\ Append(a, back) \in Code /\ BlockIsClosed(Append(a, back))
        /\ Append(a, back) # <<>> /\ GoesTo(Append(a, back), Len(old))
    <3>1. a \in Code /\ IsStraight(a) /\ GoesTo(a, Len(old))
      BY CalmCode
    <3>. QED  BY <1>2, <2>2, <3>1, ClosingBranch
  <2>7. /\ Append(e, back) \in Code /\ BlockIsClosed(Append(e, back))
        /\ Append(e, back) # <<>> /\ GoesTo(Append(e, back), Len(old))
    <3>1. e \in Code /\ IsStraight(e) /\ GoesTo(e, Len(old))
      BY CalmCode
    <3>. QED  BY <1>2, <2>2, <3>1, ClosingBranch
  <2>8. <<back>> = Append(e, back)
    <3>. HIDE DEF back
    <3>. QED  BY <2>5
  <2>. HIDE DEF back, add, store
  <2>9. code = Append(a, back) \/ code = Append(e, back)
    BY <2>1, <2>4, <2>8
  <2>. HIDE DEF code
  <2>. QED  BY <2>6, <2>7, <2>9
<1>8. f.kind \notin {"for", "while"} => code = <<>>
  OBVIOUS
<1>. HIDE DEF code
<1>9. code \in Code /\ GoesTo(code, Len(old))
  BY <1>7, <1>8, NoCode
<1>10. /\ OthersStay
       /\ old \in Seq(Code) /\ new \in Seq(Code) /\ Len(new) = Len(old)
       /\ ~Awaited(frames, cur)
       /\ new[cur] = old[cur] \o code
       /\ \A c \in 1..Len(old) : c # cur => new[c] = old[c]
  BY <1>1, <1>9, BodyPlaced
<1>. HIDE DEF old, new, cur
<1>11. /\ d \in 1..Len(old) /\ (f.next = 0 <=> d = cur) /\ (f.next # 0 => d = f.next)
       /\ d # cur => new[d] = <<>>
  BY <1>2, <1>6, <1>10
<1>. HIDE DEF d
<1>12. d # cur => Awaited(frames, d)
  BY <1>4, <1>11 DEF Awaited
<1>13. \A c \in 1..Len(old) : /\ Awaited(gr, c) => Awaited(frames, c)
                              /\ Awaited(frames, c) => c = d \/ Awaited(gr, c)
  <2>1. ASSUME NEW c \in 1..Len(old)
        PROVE  /\ Awaited(gr, c) => Awaited(frames, c)
               /\ Awaited(frames, c) => c = d \/ Awaited(gr, c)
    <3>1. c # 0
      BY <1>2
    <3>. QED  BY <1>5, <1>11, <3>1
  <2>. QED  BY <2>1
<1>14. Builds(old, cur, frames, new, d, gr, code)
  <2>1. Len(old) <= Len(new) /\ d \in 1..Len(new)
        /\ \A c \in 1..Len(new) : c \in 1..Len(old)
    BY <1>2, <1>10, <1>11
  <2>. QED  BY <1>2, <1>9, <1>10, <1>11, <1>12, <1>13, <2>1, Zenon DEF Builds
<1>15. ast[pos].node = "end" /\ ast[pos].of = f.kind
       /\ f.kind \in {"for", "while", "then", "thenElse", "else"}
  BY <1>1 DEF EndKind
<1>16. /\ f.kind = "else" => NodeTidy(pos) /\ (Leaves(pos) <=> Leaves(pos - 1))
       /\ f.kind = "thenElse" => (NodeTidy(pos) <=> Leaves(pos - 1)) /\ ~Leaves(pos)
       /\ f.kind \in {"for", "while", "then"} => (NodeTidy(pos) <=> ~Leaves(pos - 1)) /\ ~Leaves(pos)
  BY <1>2, <1>15, TidyNode
<1>17. old[cur] \in Code /\ (code = <<>> => new[cur] = old[cur])
  <2>1. old[cur] \in Code
    BY <1>2, <1>10, ElementOfSeq
  <2>. QED  BY <1>10, <2>1, ConcatEmptySeq DEF Code
<1>18. LeavesWell(pos, old[cur], new[cur], d = cur)
  <2>1. CASE f.kind \in {"for", "while"}
    <3>1. IsStraight(old[cur]) => BlockIsClosed(new[cur])
      BY <1>7, <1>10, <1>17, <2>1, ClosedAfter
    <3>2. (d = cur) = FALSE /\ (NodeTidy(pos) <=> ~Leaves(pos - 1)) /\ ~Leaves(pos)
      BY <1>6, <1>11, <1>16, <2>1
    <3>. QED  BY <3>1, <3>2, Zenon DEF LeavesWell, CurrentIs
  <2>2. CASE f.kind = "then"
    <3>1. (d = cur) = TRUE /\ (NodeTidy(pos) <=> ~Leaves(pos - 1)) /\ ~Leaves(pos)
          /\ new[cur] = old[cur]
      BY <1>6, <1>8, <1>11, <1>16, <1>17, <2>2
    <3>. QED  BY <3>1, Zenon DEF LeavesWell, CurrentIs
  <2>3. CASE f.kind = "thenElse"
    <3>1. (d = cur) = FALSE /\ (NodeTidy(pos) <=> Leaves(pos - 1)) /\ ~Leaves(pos)
          /\ new[cur] = old[cur]
      BY <1>6, <1>8, <1>11, <1>16, <1>17, <2>3
    <3>. QED  BY <3>1, Zenon DEF LeavesWell, CurrentIs
  <2>4. CASE f.kind = "else"
    <3>1. (d = cur) = TRUE /\ NodeTidy(pos) /\ (Leaves(pos) <=> Leaves(pos - 1))
          /\ new[cur] = old[cur]
      BY <1>6, <1>8, <1>11, <1>16, <1>17, <2>4
    <3>. QED  BY <3>1, Zenon DEF LeavesWell, CurrentIs
  <2>. QED  BY <1>15, <2>1, <2>2, <2>3, <2>4
<1>19. Breaks(pos, frames, code, d = cur)
  <2>1. CASE f.kind \in {"for", "while"}
    BY <1>7, <1>16, <2>1, Zenon DEF Breaks
  <2>2. CASE f.kind = "then"
    BY <1>4, <2>2, Zenon DEF Breaks
  <2>3. CASE f.kind = "thenElse"
    <3>1. (d = cur) = FALSE /\ (NodeTidy(pos) <=> Leaves(pos - 1)) /\ code = <<>>
      BY <1>6, <1>8, <1>11, <1>16, <2>3
    <3>. QED  BY <1>4, <2>3, <3>1, Zenon DEF Breaks
  <2>4. CASE f.kind = "else"
    BY <1>16, <2>4, Zenon DEF Breaks
  <2>. QED  BY <1>15, <2>1, <2>2, <2>3, <2>4
<1>20. \A i \in 1..Len(gr) :
         (\E j \in 1..Len(frames) : gr[i] = frames[j]) \/ FramePlaced(gr[i], ast[pos].node # "if")
  <2>1. f.kind = "thenElse" => FramePlaced(ElseOf(f), ast[pos].node # "if")
    <3>1. /\ ElseOf(f).kind = "else" /\ ElseOf(f).next = 0
          /\ f.kind = "thenElse" => ElseOf(f).back = 0
      BY <1>4, ElseFrame
    <3>. QED  BY <3>1 DEF FramePlaced
  <2>. QED  BY <1>5, <2>1
<1>21. ~Opening(pos)
  BY <1>15 DEF Opening
<1>22. GoesTo(code, Len(new)) /\ \A c \in 1..Len(new) : c \in 1..Len(old)
  BY <1>9, <1>10
<1>23. ShapeStep(pos, old, cur, frames, new, d, gr, code)
  BY <1>10, <1>14, <1>18, <1>19, <1>20, <1>21, <1>22, Zenon DEF ShapeStep
<1>. QED  BY <1>1, <1>3, <1>10, <1>23 DEF ShapesOn, old, new, cur

-----------------------------------------------------------------------------
(***************************************************************************)
(* The end of a function: whether its control flow is valid.               *)
(***************************************************************************)
\* The entry is given a ret that it lacks.
EndShape(old, new, ret) ==
  /\ old \in Seq(Code) /\ new \in Seq(Code) /\ Len(old) \in Nat /\ Len(new) = Len(old)
  /\ 1 \in 1..Len(old)
  /\ ret \in Instruction /\ ret.op = "ret" /\ ret.to = {}
  /\ new[1] = old[1] \o IF Gen!Terminated(old[1]) THEN <<>> ELSE <<ret>>
  /\ \A c \in 1..Len(old) : c # 1 => new[c] = old[c]

Flows(blocks) == \A c \in 1..Len(blocks) : BlockIsClosed(blocks[c]) /\ GoesTo(blocks[c], Len(blocks))

TidyToEnd(f, p) == TidySoFar(f, p) /\ (Branches(f, p) => Leaves(p - 1))

LEMMA EntryEnds ==
  ASSUME NEW old, NEW new, NEW ret, EndShape(old, new, ret)
  PROVE  /\ \A c \in 1..Len(old) : old[c] \in Code /\ new[c] \in Code
         /\ Gen!Terminated(old[1]) => \A c \in 1..Len(old) : new[c] = old[c]
         /\ IsStraight(old[1]) => BlockIsClosed(new[1])
         /\ \A c \in 1..Len(old) :
              /\ GoesTo(old[c], Len(old)) => GoesTo(new[c], Len(new))
              /\ EndsEarly(old[c]) => EndsEarly(new[c])
<1>0. /\ old \in Seq(Code) /\ new \in Seq(Code) /\ Len(old) \in Nat /\ Len(new) = Len(old)
      /\ 1 \in 1..Len(old)
      /\ ret \in Instruction /\ ret.op = "ret" /\ ret.to = {}
      /\ new[1] = old[1] \o IF Gen!Terminated(old[1]) THEN <<>> ELSE <<ret>>
      /\ \A c \in 1..Len(old) : c # 1 => new[c] = old[c]
  BY Zenon DEF EndShape
<1>1. \A c \in 1..Len(old) : old[c] \in Code /\ new[c] \in Code
  BY <1>0, ElementOfSeq
<1>2. Gen!Terminated(old[1]) => new[1] = old[1]
  BY <1>0, <1>1, ConcatEmptySeq DEF Code
<1>3. ~Gen!Terminated(old[1]) => new[1] = Append(old[1], ret)
  BY <1>0, <1>1 DEF Code
<1>4. IsStraight(old[1]) => ~Gen!Terminated(old[1]) /\ BlockIsClosed(new[1])
  <2>1. SUFFICES ASSUME IsStraight(old[1])
                 PROVE  ~Gen!Terminated(old[1]) /\ BlockIsClosed(new[1])
    OBVIOUS
  <2>2. ~Gen!Terminated(old[1])
    BY <1>0, <1>1, <2>1, ClosedIsNotStraight
  <2>3. BlockIsClosed(Append(old[1], ret))
    BY <1>0, <1>1, <2>1, Closing DEF Gen!Terminators
  <2>. QED  BY <1>3, <2>2, <2>3
<1>5. ASSUME NEW c \in 1..Len(old), GoesTo(old[c], Len(old)) PROVE GoesTo(new[c], Len(new))
  <2>1. GoesTo(Append(old[c], ret), Len(old))
    BY <1>0, <1>1, <1>5, GoesToLast
  <2>. QED  BY <1>0, <1>2, <1>3, <1>5, <2>1
<1>6. ASSUME NEW c \in 1..Len(old), EndsEarly(old[c]) PROVE EndsEarly(new[c])
  <2>1. <<ret>> \in Code
    BY <1>0 DEF Code
  <2>2. EndsEarly(old[c] \o <<ret>>)
    BY <1>1, <1>6, <2>1, EarlyStays
  <2>. QED  BY <1>0, <1>2, <1>6, <2>2
<1>. QED  BY <1>0, <1>1, <1>2, <1>4, <1>5, <1>6

LEMMA ShapeAtEnd ==
  ASSUME NEW f, NEW p, NEW old, NEW b, NEW fr, NEW new, NEW ret,
         Placed(f, p, old, b, fr), Shaped(f, p, old, b, fr), EndShape(old, new, ret),
         b \in 1..Len(old), \A c \in 1..Len(old) : ~Awaited(fr, c)
  PROVE  /\ TidyToEnd(f, p) /\ ReturnsShow(f, p) => Flows(new)
         /\ Bare(f, p) /\ Flows(new) => TidyToEnd(f, p)
<1>0. /\ Len(old) \in Nat /\ Len(new) = Len(old) /\ 1 \in 1..Len(old)
      /\ \A c \in 1..Len(old) : c # 1 => new[c] = old[c]
  BY Zenon DEF EndShape
<1>1. /\ \A c \in 1..Len(old) : old[c] \in Code /\ new[c] \in Code
      /\ Gen!Terminated(old[1]) => \A c \in 1..Len(old) : new[c] = old[c]
      /\ IsStraight(old[1]) => BlockIsClosed(new[1])
      /\ \A c \in 1..Len(old) :
           /\ GoesTo(old[c], Len(old)) => GoesTo(new[c], Len(new))
           /\ EndsEarly(old[c]) => EndsEarly(new[c])
  BY EntryEnds
<1>2. /\ IF Branches(f, p) THEN b # 1 ELSE Len(old) = 1
      /\ \A c \in 1..Len(old) : GoesTo(old[c], Len(old))
  BY Zenon DEF Placed
<1>3. \A c \in 1..Len(new) : GoesTo(new[c], Len(new))
  BY <1>0, <1>1, <1>2
<1>4. TidySoFar(f, p) /\ ReturnsShow(f, p) =>
        /\ CurrentIs(old[b], Leaves(p - 1))
        /\ \A c \in 1..Len(old) : c # b => BlockIsClosed(old[c])
  BY Zenon DEF Shaped, Settled
<1>5. ASSUME TidyToEnd(f, p), ReturnsShow(f, p) PROVE Flows(new)
  <2>1. TidySoFar(f, p) /\ ReturnsShow(f, p) /\ (Branches(f, p) => Leaves(p - 1))
    BY <1>5, Zenon DEF TidyToEnd
  <2>2. CASE Leaves(p - 1)
    <3>1. \A c \in 1..Len(old) : BlockIsClosed(old[c])
      BY <1>4, <2>1, <2>2, Zenon DEF CurrentIs
    <3>2. Gen!Terminated(old[1])
      BY <1>0, <3>1 DEF BlockIsClosed
    <3>. QED  BY <1>0, <1>1, <1>3, <3>1, <3>2, Zenon DEF Flows
  <2>3. CASE ~Leaves(p - 1)
    <3>1. Len(old) = 1 /\ IsStraight(old[b])
      BY <1>2, <1>4, <2>1, <2>3, Zenon DEF CurrentIs
    <3>2. b = 1 /\ \A c \in 1..Len(new) : c = 1
      BY <1>0, <3>1
    <3>. QED  BY <1>1, <1>3, <3>1, <3>2, Zenon DEF Flows
  <2>. QED  BY <2>2, <2>3
<1>6. ASSUME Bare(f, p), Flows(new) PROVE TidyToEnd(f, p)
  <2>0. ReturnsShow(f, p) /\ \A c \in 1..Len(old) : BlockIsClosed(new[c])
    BY <1>0, <1>6 DEF Flows, ReturnsShow, KeepsReturn, Bare, Shows
  <2>1. TidySoFar(f, p)
    <3>1. SUFFICES ASSUME Broken(old, b, fr) PROVE FALSE
      BY <1>6, Zenon DEF Shaped
    <3>2. CASE \E c \in 1..Len(old) : EndsEarly(old[c])
      <4>1. PICK c \in 1..Len(old) : EndsEarly(new[c])
        BY <1>1, <3>2
      <4>. QED  BY <2>0, <4>1 DEF BlockIsClosed, EndsEarly
    <3>3. CASE \E c \in 2..Len(old) : c # b /\ ~Awaited(fr, c) /\ ~Gen!Terminated(old[c])
      <4>1. PICK c \in 2..Len(old) : ~Gen!Terminated(old[c])
        BY <3>3
      <4>2. c \in 1..Len(old) /\ c # 1
        BY <1>0
      <4>. QED  BY <1>0, <2>0, <4>1, <4>2 DEF BlockIsClosed
    <3>. QED  BY <3>1, <3>2, <3>3 DEF Broken
  <2>2. ASSUME Branches(f, p), ~Leaves(p - 1) PROVE FALSE
    <3>1. b # 1 /\ IsStraight(old[b])
      BY <1>2, <1>4, <2>0, <2>1, <2>2, Zenon DEF CurrentIs
    <3>2. new[b] = old[b] /\ ~Gen!Terminated(old[b])
      BY <1>0, <1>1, <3>1, ClosedIsNotStraight
    <3>. QED  BY <2>0, <3>2 DEF BlockIsClosed
  <2>. QED  BY <2>1, <2>2, Zenon DEF TidyToEnd
<1>. QED  BY <1>5, <1>6

\* Tidy and ControlFlowIsValid in these terms.
LEMMA TidyAtEnd ==
  ASSUME NEW f \in Nat, NEW p \in Nat, 0 < f, f < p, EndOf(f) = p, ast[f].node = "function",
         ast[p].node = "end", ast[p].of = "function"
  PROVE  Tidy(f) <=> TidyToEnd(f, p)
<1>1. ~Leaves(f)
  BY LeavesStep
<1>. DEFINE R == f + 1..p - 1
            goesOn(i) == ast[i].node = "end" /\ ast[i].of \in {"thenElse", "else", "function"}
            nested(i) == ast[i].node # "if"
                           /\ (ast[i].node = "end" /\ ast[i].of = "thenElse" => Leaves(i - 1))
<1>2. Tidy(f) <=> /\ \A i \in R : nested(i) /\ (Leaves(i) => goesOn(i + 1))
                  /\ (\E i \in R : ast[i].node \in {"for", "while", "ifElse"}) => Leaves(p - 1)
  BY Zenon DEF Tidy
<1>3. TidySoFar(f, p) <=> \A i \in R : nested(i) /\ (Leaves(i - 1) => goesOn(i))
  BY Zenon DEF TidySoFar, NodeTidy
<1>4. (\A i \in R : nested(i)) =>
        (Branches(f, p) <=> \E i \in R : ast[i].node \in {"for", "while", "ifElse"})
  BY DEF Branches
<1>5. goesOn(p)
  OBVIOUS
<1>. HIDE DEF goesOn, nested
<1>6. (\A i \in R : Leaves(i) => goesOn(i + 1)) <=> \A i \in R : Leaves(i - 1) => goesOn(i)
  <2>1. ASSUME \A i \in R : Leaves(i) => goesOn(i + 1), NEW i \in R, Leaves(i - 1) PROVE goesOn(i)
    <3>1. i - 1 # f
      BY <1>1, <2>1
    <3>2. i - 1 \in R /\ i - 1 + 1 = i
      BY <3>1
    <3>3. goesOn(i - 1 + 1)
      BY <2>1, <3>2
    <3>. QED  BY <3>2, <3>3
  <2>2. ASSUME \A i \in R : Leaves(i - 1) => goesOn(i), NEW i \in R, Leaves(i) PROVE goesOn(i + 1)
    <3>1. CASE i + 1 = p
      BY <1>5, <3>1
    <3>2. CASE i + 1 # p
      <4>1. i + 1 \in R /\ i + 1 - 1 = i
        BY <3>2
      <4>2. Leaves(i + 1 - 1)
        BY <2>2, <4>1
      <4>. QED  BY <2>2, <4>1, <4>2
    <3>. QED  BY <3>1, <3>2
  <2>. QED  BY <2>1, <2>2
<1>. HIDE DEF R
<1>. QED  BY <1>2, <1>3, <1>4, <1>6, Zenon DEF TidyToEnd

LEMMA FlowIsValid ==
  ASSUME NEW g
  PROVE  ControlFlowIsValid(g) <=> Flows(g.blocks)
BY Zenon DEF ControlFlowIsValid, Flows, GoesTo

-----------------------------------------------------------------------------
(***************************************************************************)
(* The function that is under way, and those that are complete.            *)
(***************************************************************************)
BodyShaped ==
  frames # <<>> =>
    LET f == functions[Len(functions)].node
    IN  /\ Placed(f, pos, NewestBlocks, insert.block, frames)
        /\ Shaped(f, pos, NewestBlocks, insert.block, frames)

\* A function's control flow is valid where its text is tidy and its rets leave
\* code, and only there if all that the text does shows in its code.
Verifies(g) ==
  /\ Tidy(g.node) /\ (\A k \in BodyOf(g.node) : KeepsReturn(k)) => ControlFlowIsValid(g)
  /\ (\A k \in BodyOf(g.node) : Shows(k)) => (ControlFlowIsValid(g) => Tidy(g.node))

LEMMA FunctionEndsHere ==
  ASSUME NEW st, InBody(st), status = "generating", ast[pos].node = "end", Len(frames) = 1,
         NEW f \in 1..pos - 1,
         \A k \in f + 1..pos - 1 : ast[k].node \notin {"function", "call", "declaration"},
         ast[f].node = "function"
  PROVE  EndOf(f) = pos /\ ast[pos].of = "function" /\ frames[1].kind = "function"
<1>1. /\ pos \in 1..Len(ast) /\ Len(ast) \in Nat /\ ast \in Seq(Node) /\ pos <= Len(ast)
      /\ Nested(ast, st) /\ Ordered(ast, st)
  <2>1. pos \in 1..Len(ast) /\ Len(ast) \in Nat /\ ast \in Seq(Node)
    BY BodyGoesOn, AnalyzedFacts DEF InBody
  <2>. QED  BY <2>1 DEF InBody, Reached
<1>2. AtNode(st[pos - 1], st[pos])
  BY <1>1, ThisNodeIsReached DEF InBody
<1>s. PICK s : s = st[pos - 1]
  OBVIOUS
<1>t. PICK t : t = st[pos]
  OBVIOUS
<1>3. /\ Len(s) = 1 /\ s[1] = "function" /\ t = <<>> /\ frames[1].kind = "function"
      /\ s \in Seq(VisitKinds) /\ Follows(ast[pos], s, t)
  <2>1. AtNode(s, t)
    BY <1>2, <1>s, <1>t
  <2>2. /\ Len(frames) = Len(s) /\ s[1] = "function"
        /\ frames[Len(frames)].kind = s[Len(s)]
        /\ s[Len(s)] = "function" => Len(s) = 1 /\ t = <<>>
    BY <2>1, EndFacts
  <2>. QED  BY <2>1, <2>2 DEF AtNode
<1>4. ast[pos].of = "function"
  BY <1>3 DEF Follows
<1>. DEFINE j == Gen!NextItem(f)
<1>5. f \in 1..Len(ast) /\ f < pos /\ f \in Nat /\ pos \in Nat
  BY <1>1
<1>6. /\ j \in f + 1..Len(ast) + 1
      /\ j <= Len(ast) => ast[j].node \in {"function", "call"}
      /\ \A k \in f + 1..j - 1 : ast[k].node \notin {"function", "call"}
  BY <1>1, <1>5, NextItemFacts
<1>7. EndOf(f) = j - 1
  BY DEF EndOf
<1>. HIDE DEF j
<1>8. ~(j <= pos)
  <2>1. j <= pos => j = pos \/ j \in f + 1..pos - 1
    BY <1>1, <1>5, <1>6
  <2>2. j <= pos => j <= Len(ast)
    BY <1>1, <1>6
  <2>. QED  BY <1>6, <2>1, <2>2
<1>9. ~(pos + 1 < j)
  <2>1. SUFFICES ASSUME pos + 1 < j PROVE FALSE
    OBVIOUS
  <2>. DEFINE n == pos + 1
  <2>2. n \in 1..Len(ast) /\ n \in f + 1..j - 1 /\ n - 1 = pos /\ f \in 1..n - 1
    BY <1>1, <1>5, <1>6, <2>1
  <2>. HIDE DEF n
  <2>3. st[n - 1] = <<>> /\ Follows(ast[n], st[n - 1], st[n])
    BY <1>1, <1>3, <1>t, <2>2 DEF Nested
  <2>4. ast[n].node \in {"declaration", "call", "expression", "function"}
    <3>1. <<"function">> # <<>>
      OBVIOUS
    <3>. QED  BY <2>3, <3>1 DEF Follows
  <2>5. ast[n].node \notin {"function", "call"}
    BY <1>6, <2>2
  <2>6. ast[n].node = "declaration" \/ (ast[n].node = "expression" /\ st[n - 1] = <<>>)
    BY <2>3, <2>4, <2>5
  <2>7. \A i \in 1..n - 1 : ast[i].node \notin {"function", "call"}
    BY <1>1, <2>2, <2>6, LeadingFirst DEF InBody
  <2>. QED  BY <2>2, <2>7
<1>10. j - 1 = pos
  BY <1>5, <1>6, <1>8, <1>9
<1>. QED  BY <1>3, <1>4, <1>7, <1>10

LEMMA FunctionVerifies ==
  ASSUME NEW st, InBody(st), status = "generating", BodyShaped, Gen!EndFunctionDefinition
  PROVE  /\ OthersStay /\ frames' = <<>>
         /\ Verifies(functions'[Len(functions)])
<1>. DEFINE h == Len(functions)
            ret == Gen!Instr("ret", "", TRUE)
            at == Gen!EntryOf(insert.function)
            code == IF Gen!Terminated(functions[insert.function].blocks[1]) THEN <<>> ELSE <<ret>>
            gs == Gen!Put(functions, at, code)
            old == NewestBlocks
            new == NewestBlocks'
            f == functions[h].node
            g == functions'[h]
<1>1. /\ ast[pos].node = "end" /\ Len(frames) = 1 /\ functions' = gs /\ frames' = <<>>
  BY Zenon DEF Gen!EndFunctionDefinition, Gen!At, Gen!node, Gen!Here
<1>2. /\ insert.function = h /\ functions \in Seq(Function) /\ h \in 1..Len(functions)
      /\ old = functions[h].blocks /\ old \in Seq(Code) /\ Len(old) \in Nat
      /\ insert.block \in 1..Len(old)
  BY BodyHere
<1>3. /\ f \in 1..pos - 1 /\ ast[f].node = "function"
      /\ \A k \in f + 1..pos - 1 : ast[k].node \notin {"function", "call", "declaration"}
      /\ pos \in Nat
  <2>1. \E i \in 1..pos - 1 :
          /\ Generated(i) /\ functions[Len(functions)].node = i
          /\ \A k \in i + 1..pos - 1 : ast[k].node \notin {"function", "call", "declaration"}
    BY DEF InBody, Known, BodyKnown
  <2>2. pos \in Nat
    BY BodyValue
  <2>. QED  BY <2>1, <2>2 DEF Generated
<1>4. frames # <<>> /\ Placed(f, pos, old, insert.block, frames)
      /\ Shaped(f, pos, old, insert.block, frames)
  BY Zenon DEF BodyShaped, InBody
<1>5. ret \in Instruction /\ ret.op = "ret" /\ ret.to = {}
  <2>1. ret \in Instruction
    BY <1>3, InstrTyped, InstrNamesFacts
  <2>2. ret.op = "ret" /\ ret.to = {}
    BY DEF Gen!Instr
  <2>. QED  BY <2>1, <2>2
<1>. HIDE DEF h, old, new, ret
<1>6. code = IF Gen!Terminated(old[1]) THEN <<>> ELSE <<ret>>
  BY <1>2
<1>7. code \in Code
  <2>1. <<ret>> \in Code /\ <<>> \in Code
    BY <1>5, EmptySeq DEF Code
  <2>. QED  BY <1>6, <2>1
<1>8. at.function = h /\ at.block = 1 /\ 1 \in 1..Len(old)
  BY <1>2 DEF Gen!EntryOf
<1>. HIDE DEF code, at
<1>9. AfterPut(functions, gs, h, 1, code)
  <2>1. at.function \in 1..Len(functions) /\ at.block \in 1..Len(functions[at.function].blocks)
    BY <1>2, <1>8
  <2>2. AfterPut(functions, gs, at.function, at.block, code)
    BY <1>2, <1>7, <2>1, PutGives
  <2>. QED  BY <1>8, <2>2
<1>. HIDE DEF gs
<1>10. /\ OthersStay /\ new = gs[h].blocks /\ new \in Seq(Code)
       /\ g = gs[h] /\ g.node = f
  <2>1. OthersStay /\ NewestBlocks' = gs[insert.function].blocks /\ NewestBlocks' \in Seq(Code)
    BY <1>1, <1>2, <1>9, OnlyNewest DEF AfterPut
  <2>. QED  BY <1>1, <1>2, <1>9, <2>1 DEF AfterPut, new
<1>. HIDE DEF f, g
<1>11. EndShape(old, new, ret)
  BY <1>2, <1>5, <1>6, <1>8, <1>9, <1>10 DEF EndShape, AfterPut
<1>12. EndOf(f) = pos /\ ast[pos].of = "function" /\ frames[1].kind = "function"
  BY <1>1, <1>3, FunctionEndsHere
<1>13. \A c \in 1..Len(old) : ~Awaited(frames, c)
  <2>1. 1 \in 1..Len(frames) /\ \A i \in 1..Len(frames) : i = 1
    BY <1>1
  <2>2. frames[1].next = 0
    BY <1>4, <1>12, <2>1 DEF Placed, FramePlaced
  <2>3. \A c \in 1..Len(old) : c # 0
    OBVIOUS
  <2>. QED  BY <2>1, <2>2, <2>3 DEF Awaited
<1>14. /\ TidyToEnd(f, pos) /\ ReturnsShow(f, pos) => Flows(new)
       /\ Bare(f, pos) /\ Flows(new) => TidyToEnd(f, pos)
  BY <1>2, <1>4, <1>11, <1>13, ShapeAtEnd
<1>15. Tidy(f) <=> TidyToEnd(f, pos)
  <2>1. f \in Nat /\ 0 < f /\ f < pos
    BY <1>3
  <2>. QED  BY <1>1, <1>3, <1>12, <2>1, TidyAtEnd
<1>16. ControlFlowIsValid(g) <=> Flows(new)
  BY <1>10, FlowIsValid
<1>17. /\ (\A k \in BodyOf(f) : Shows(k)) => Bare(f, pos)
       /\ (\A k \in BodyOf(f) : KeepsReturn(k)) => ReturnsShow(f, pos)
  <2>1. \A k \in f + 1..pos - 1 : k \in f + 1..pos
    BY <1>3
  <2>. QED  BY <1>12, <2>1 DEF BodyOf, Bare, ReturnsShow
<1>18. Verifies(g)
  BY <1>10, <1>14, <1>15, <1>16, <1>17, Zenon DEF Verifies
<1>. QED  BY <1>1, <1>10, <1>18 DEF g, h

-----------------------------------------------------------------------------
(***************************************************************************)
(* A step in a body.                                                       *)
(***************************************************************************)
Halts == UNCHANGED <<pos, functions, insert, frames>>
Ended == OthersStay /\ frames' = <<>> /\ Verifies(functions'[Len(functions)])

LEMMA InBodyOnly ==
  ASSUME NEW st, InBody(st)
  PROVE  /\ ~Gen!VisitDeclaration /\ ~Gen!VisitExpression /\ ~Gen!VisitFunctionDefinition
         /\ ~Gen!VisitFunctionCall /\ ~Gen!EndProgram
<1>1. ast[pos].node \notin {"function", "call", "declaration"} /\ ~(pos > Len(ast)) /\ frames # <<>>
  BY BodyGoesOn, AnalyzedFacts, ReadableState DEF InBody, Readable
<1>. QED
  BY <1>1, Zenon DEF Gen!VisitDeclaration, Gen!VisitExpression,
     Gen!VisitFunctionDefinition, Gen!VisitFunctionCall, Gen!EndProgram, Gen!At, Gen!node

LEMMA BodyStep ==
  ASSUME NEW st, InBody(st), status = "generating", TextKept, Gen!Next, BodyShaped
  PROVE  Halts \/ (ShapesOn /\ pos' = pos + 1) \/ Ended
<1>1. pos <= Len(ast) /\ frames # <<>>
      /\ ast[pos].node \notin {"function", "call", "declaration"}
  <2>1. pos \in 1..Len(ast) /\ Len(ast) \in Nat
        /\ ast[pos].node \notin {"function", "call", "declaration"}
    BY BodyGoesOn, AnalyzedFacts DEF InBody
  <2>. QED  BY <2>1 DEF InBody
<1>s. PICK s : s = st[pos - 1]
  OBVIOUS
<1>t. PICK t : t = st[pos]
  OBVIOUS
<1>2. AtNode(s, t)
  <2>1. AtNode(st[pos - 1], st[pos])
    BY <1>1, ThisNodeIsReached DEF InBody
  <2>. QED  BY <1>s, <1>t, <2>1
<1>f. ASSUME \E how \in {"threw", "crashed"} : Gen!Fail(how) PROVE Halts
  BY <1>f, Zenon DEF Gen!Fail, Halts
<1>3. CASE Gen!ThrowOutOfRange
  BY <1>3, Zenon DEF Gen!ThrowOutOfRange, Gen!Fail, Halts
<1>4. CASE Gen!VisitExpressionStatement \/ Gen!VisitPrintStatement \/ Gen!VisitReturnStatement
  <2>1. pos' = pos + 1
    BY <1>4, Zenon DEF Gen!VisitExpressionStatement, Gen!VisitPrintStatement,
       Gen!VisitReturnStatement, Gen!Evaluated, Gen!Proceed
  <2>. QED  BY <1>4, <2>1, ExpressionStatementShapes, PrintStatementShapes, ReturnStatementShapes
<1>5. CASE Gen!VisitForLoopStatement \/ Gen!VisitWhileLoopStatement
  <2>1. pos' = pos + 1 \/ \E how \in {"threw", "crashed"} : Gen!Fail(how)
    BY <1>5, Zenon DEF Gen!VisitForLoopStatement, Gen!VisitWhileLoopStatement,
       Gen!Evaluated, Gen!Proceed
  <2>2. ShapesOn \/ \E how \in {"threw", "crashed"} : Gen!Fail(how)
    BY <1>5, WhileShapes, ForShapes
  <2>. QED  BY <1>f, <2>1, <2>2
<1>6. CASE Gen!VisitIfStatement \/ Gen!VisitIfElseStatement
  <2>1. pos' = pos + 1
    BY <1>6, Zenon DEF Gen!VisitIfStatement, Gen!VisitIfElseStatement, Gen!Evaluated, Gen!Proceed
  <2>. QED  BY <1>6, <2>1, IfShapes, IfElseShapes
<1>7. CASE Gen!EndBody
  <2>1. pos' = pos + 1
    BY <1>7, Zenon DEF Gen!EndBody, Gen!Proceed
  <2>2. PICK bare : \A i \in 1..Len(frames) : FramePlaced(frames[i], bare)
    BY <1>1, Zenon DEF BodyShaped, Placed
  <2>3. ShapesOn
    BY <1>2, <1>7, <2>2, EndBodyShapes
  <2>. QED  BY <2>1, <2>3
<1>8. CASE Gen!EndFunctionDefinition
  BY <1>8, FunctionVerifies DEF Ended
<1>9. ~Gen!VisitDeclaration /\ ~Gen!VisitExpression /\ ~Gen!VisitFunctionDefinition
      /\ ~Gen!VisitFunctionCall /\ ~Gen!EndProgram
  BY InBodyOnly
<1>. QED  BY <1>3, <1>4, <1>5, <1>6, <1>7, <1>8, <1>9 DEF Gen!Next

\* No name but printf is taken in a body, and the program does not end there.
LEMMA BodyTakes ==
  ASSUME NEW st, InBody(st), status = "generating", Gen!Next
  PROVE  status' # "done" /\ symbols'["main"] = symbols["main"]
<1>1. SymbolsOk(symbols, Len(functions)) /\ Len(functions) \in Nat
  BY LenProperties DEF InBody, GenTypeOK
<1>2. ~Gen!VisitDeclaration /\ ~Gen!VisitExpression /\ ~Gen!VisitFunctionDefinition
      /\ ~Gen!VisitFunctionCall /\ ~Gen!EndProgram
  BY InBodyOnly
<1>3. CASE Gen!VisitPrintStatement
  <2>1. status' = status
    BY <1>3, Zenon DEF Gen!VisitPrintStatement, Gen!Evaluated, Gen!Proceed
  <2>2. PrintClaims
    BY <1>3, PrintSymbols DEF InBody
  <2>3. symbols'["main"] = symbols["main"]
    BY <2>2, SymbolNamesFacts, FormatsFacts, Zenon DEF PrintClaims
  <2>. QED  BY <2>1, <2>3
<1>4. CASE ~Gen!VisitPrintStatement
  <2>1. symbols' = symbols /\ (status' = status \/ \E how \in {"threw", "crashed"} : status' = how)
    BY <1>2, <1>4, Zenon DEF Gen!Next, Gen!ThrowOutOfRange, Gen!VisitExpressionStatement,
       Gen!VisitReturnStatement, Gen!VisitForLoopStatement, Gen!VisitWhileLoopStatement,
       Gen!VisitIfStatement, Gen!VisitIfElseStatement, Gen!EndBody, Gen!EndFunctionDefinition,
       Gen!Fail, Gen!Evaluated, Gen!Proceed
  <2>. QED  BY <2>1
<1>. QED  BY <1>3, <1>4

LEMMA PlacedText ==
  ASSUME TextKept
  PROVE  \A f, p, blocks, b, fr :
           /\ Placed(f, p, blocks, b, fr)' = Placed(f, p, blocks, b, fr)
           /\ Shaped(f, p, blocks, b, fr)' = Shaped(f, p, blocks, b, fr)
BY ShapeOfText DEF Placed, Shaped

LEMMA BodyText ==
  ASSUME TextKept
  PROVE  BodyShaped' <=>
           (frames' # <<>> =>
              LET f == functions'[Len(functions')].node
              IN  /\ Placed(f, pos', NewestBlocks', insert'.block, frames')
                  /\ Shaped(f, pos', NewestBlocks', insert'.block, frames'))
BY PlacedText DEF BodyShaped

LEMMA BodyGoesShaped ==
  ASSUME NEW st, InBody(st), status = "generating", TextKept, Gen!Next, BodyShaped
  PROVE  BodyShaped'
<1>. DEFINE f == functions[Len(functions)].node
            g == functions'[Len(functions')].node
<1>1. /\ frames # <<>> /\ Placed(f, pos, NewestBlocks, insert.block, frames)
      /\ Shaped(f, pos, NewestBlocks, insert.block, frames)
  BY Zenon DEF BodyShaped, InBody
<1>2. CASE Halts
  <2>1. pos' = pos /\ g = f /\ NewestBlocks' = NewestBlocks /\ insert' = insert /\ frames' = frames
    BY <1>2, Zenon DEF Halts, NewestBlocks
  <2>. HIDE DEF f, g
  <2>2. /\ Placed(g, pos', NewestBlocks', insert'.block, frames')
        /\ Shaped(g, pos', NewestBlocks', insert'.block, frames')
    BY <1>1, <2>1, Zenon
  <2>. QED  BY <2>2, BodyText, Zenon DEF g
<1>3. CASE Ended
  BY <1>3, Zenon DEF Ended, BodyShaped
<1>4. CASE ShapesOn /\ pos' = pos + 1
  <2>1. PICK code : ShapeStep(pos, NewestBlocks, insert.block, frames,
                              NewestBlocks', insert'.block, frames', code)
    BY <1>4 DEF ShapesOn
  <2>2. f \in Nat /\ pos \in Nat /\ f < pos
    <3>1. \E i \in 1..pos - 1 : functions[Len(functions)].node = i
      BY DEF InBody, Known, BodyKnown
    <3>2. pos \in Nat
      BY BodyValue
    <3>. QED  BY <3>1, <3>2
  <2>3. g = f
    <3>1. Len(functions) \in 1..Len(functions)
      BY BodyHere
    <3>. QED  BY <1>4, <3>1, Zenon DEF ShapesOn, OthersStay
  <2>4. Open(frames, NewestBlocks, insert.block)
    BY BodyPlace DEF InBody
  <2>. HIDE DEF f, g
  <2>5. /\ Placed(f, pos + 1, NewestBlocks', insert'.block, frames')
        /\ Shaped(f, pos + 1, NewestBlocks', insert'.block, frames')
    BY <1>1, <2>1, <2>2, <2>4, PlacedGoesOn, ShapedGoesOn
  <2>6. /\ Placed(g, pos', NewestBlocks', insert'.block, frames')
        /\ Shaped(g, pos', NewestBlocks', insert'.block, frames')
    BY <1>4, <2>3, <2>5, Zenon
  <2>. QED  BY <2>6, BodyText, Zenon DEF g
<1>. QED  BY <1>2, <1>3, <1>4, BodyStep

-----------------------------------------------------------------------------
(***************************************************************************)
(* The start of a function.                                                *)
(***************************************************************************)
\* A function that has parameters stored and nothing else has its shape.
LEMMA StartShaped ==
  ASSUME NEW p \in Nat, p > 0, ast[p].node = "function",
         NEW blocks, Len(blocks) = 1, blocks[1] \in Seq(Calm),
         NEW fr, Len(fr) = 1, fr[1].kind = "function", fr[1].next = 0, fr[1].back = 0
  PROVE  Placed(p, p + 1, blocks, 1, fr) /\ Shaped(p, p + 1, blocks, 1, fr)
<1>1. /\ p + 1 - 1 = p /\ \A i : i \notin p + 1..p
      /\ \A i \in 1..1 : i = 1
  OBVIOUS
<1>2. TidySoFar(p, p + 1) /\ ~Branches(p, p + 1) /\ ~Leaves(p)
  <2>1. ~Leaves(p)
    <3>1. ast[p].node \notin {"if", "end"} /\ ast[p].node # "return"
      OBVIOUS
    <3>. QED  BY <3>1, TidyNode
  <2>. QED  BY <1>1, <2>1 DEF TidySoFar, Branches
<1>3. IsStraight(blocks[1]) /\ GoesTo(blocks[1], 1)
  BY CalmCode
<1>4. FramePlaced(fr[1], Bare(p, p + 1))
  BY DEF FramePlaced
<1>5. Placed(p, p + 1, blocks, 1, fr)
  BY <1>1, <1>2, <1>3, <1>4 DEF Placed
<1>6. Settled(blocks, 1, fr, Leaves(p))
  BY <1>1, <1>2, <1>3 DEF Settled, CurrentIs
<1>. QED  BY <1>1, <1>2, <1>5, <1>6 DEF Shaped

\* What is appended to the functions, and that the others stay as they are.
OneMore ==
  /\ Len(functions') = Len(functions) + 1
  /\ \A i \in 1..Len(functions) : functions'[i] = functions[i]

LEMMA FunctionStarts ==
  ASSUME NEW st, Outside(st), TextKept, Gen!VisitFunctionDefinition, Gen!Supported(ast[pos])
  PROVE  /\ OneMore /\ functions'[Len(functions) + 1].node = pos
         /\ frames' # <<>> /\ BodyShaped'
<1>. DEFINE d == ast[pos]
            ps == d.parameters
            count == Len(functions)
            index == count + 1
            store(i) == Gen!Instr("store", Gen!LLVMNames(d)[i], TRUE)
            stores == [i \in 1..Len(ps) |-> store(i)]
            params == [i \in 1..Len(ps) |-> Gen!I32]
            result == Gen!ReturnType(d.returnType)
            new == Gen!NewFunction(pos, result, params)
            gs == Append(functions, new)
            at == Gen!EntryOf(index)
            frame == Gen!Frame("function", 0, 0)
<1>1. /\ d.node = "function"
      /\ functions' = Gen!Put(gs, at, stores)
      /\ insert' = at /\ frames' = <<frame>> /\ pos' = pos + 1
  BY DEF Gen!VisitFunctionDefinition, Gen!At, Gen!node, Gen!Proceed
<1>2. /\ ps \in Seq(ParamInfo) /\ d.returnType \in ReturnTypes
      /\ pos \in Nat /\ pos > 0 /\ count \in Nat /\ functions \in Seq(Function) /\ Len(ps) \in Nat
  <2>1. ps \in Seq(ParamInfo) /\ d.returnType \in ReturnTypes
    BY <1>1, OutsideFacts, NodeFields
  <2>2. pos \in Nat /\ pos > 0
    BY OutsideFacts DEF Outside
  <2>. HIDE DEF ps
  <2>. QED  BY <2>1, <2>2, OutsideFacts, LenProperties
<1>4. stores \in Seq(Calm)
  <2>. HIDE DEF ps
  <2>1. ASSUME NEW i \in 1..Len(ps) PROVE store(i) \in Calm
    <3>1. d \in Node /\ i \in 1..Len(d.parameters)
      BY <2>1, OutsideFacts DEF ps
    <3>2. Gen!LLVMNames(d)[i] \in InstrNames
      BY <3>1, AllocaIsNamed, InstrNamesFacts
    <3>. QED  BY <1>2, <3>2, CalmInstr, Zenon
  <2>. HIDE DEF store
  <2>. QED  BY <1>2, <2>1
<1>. HIDE DEF stores
<1>5. /\ gs \in Seq(Function) /\ Len(gs) = index
      /\ \A i \in 1..count : gs[i] = functions[i]
      /\ gs[index].node = pos /\ Len(gs[index].blocks) = 1 /\ gs[index].blocks[1] = <<>>
  <2>1. params \in Seq(ValueTypes)
    <3>1. Gen!I32 \in ValueTypes
      BY DEF ValueTypes
    <3>. HIDE DEF ps
    <3>. QED  BY <1>2, <3>1
  <2>2. result \in ValueTypes
    BY <1>2 DEF ReturnTypes, Gen!ReturnType, ValueTypes
  <2>0. functions \in Seq(Function) /\ pos \in Nat
    BY <1>2
  <2>. HIDE DEF params, result, d, ps
  <2>3. LET m == Gen!NewFunction(pos, result, params)
            hs == Append(functions, m)
        IN  /\ hs \in Seq(Function) /\ Len(hs) = Len(functions) + 1
            /\ hs[Len(functions) + 1] = m
            /\ \A i \in 1..Len(functions) : hs[i] = functions[i]
            /\ m.node = pos /\ Len(m.blocks) = 1 /\ m.blocks[1] = <<>>
    BY <2>0, <2>1, <2>2, NewFunctionFacts
  <2>. QED  BY <2>3
<1>. HIDE DEF gs
<1>6. at.function = index /\ at.block = 1 /\ index \in Nat /\ index \in 1..index
      /\ \A i \in 1..count : i \in 1..index /\ i # index
  BY <1>2 DEF Gen!EntryOf
<1>. HIDE DEF index, at
<1>7. AfterPut(gs, functions', index, 1, stores)
  <2>1. stores \in Code /\ 1 \in 1..1
    BY <1>4, CalmCode
  <2>2. at.function \in 1..Len(gs) /\ at.block \in 1..Len(gs[at.function].blocks)
    BY <1>5, <1>6, <2>1
  <2>3. AfterPut(gs, Gen!Put(gs, at, stores), at.function, at.block, stores)
    BY <1>5, <2>1, <2>2, PutGives
  <2>. QED  BY <1>1, <1>6, <2>3
<1>8. /\ Len(functions') = index /\ \A i \in 1..count : functions'[i] = functions[i]
      /\ functions'[index].node = pos
  BY <1>5, <1>6, <1>7 DEF AfterPut
<1>9. Len(NewestBlocks') = 1 /\ NewestBlocks'[1] \in Seq(Calm)
  <2>1. NewestBlocks' = functions'[index].blocks
    BY <1>8 DEF NewestBlocks
  <2>2. Len(NewestBlocks') = 1 /\ NewestBlocks'[1] = <<>> \o stores
    BY <1>5, <1>7, <2>1 DEF AfterPut
  <2>3. <<>> \o stores = stores
    BY <1>4, ConcatEmptySeq
  <2>. QED  BY <1>4, <2>2, <2>3
<1>10. /\ Len(frames') = 1 /\ frames'[1].kind = "function" /\ frames'[1].next = 0
       /\ frames'[1].back = 0 /\ frames' # <<>>
  <2>1. frame.kind = "function" /\ frame.next = 0 /\ frame.back = 0
    BY DEF Gen!Frame
  <2>. HIDE DEF frame
  <2>. QED  BY <1>1, <2>1
<1>11. insert'.block = 1 /\ pos' = pos + 1
  BY <1>1, <1>6
<1>12. /\ Placed(pos, pos + 1, NewestBlocks', 1, frames')
       /\ Shaped(pos, pos + 1, NewestBlocks', 1, frames')
  BY <1>1, <1>2, <1>9, <1>10, StartShaped
<1>13. functions'[Len(functions')].node = pos
  BY <1>8
<1>14. BodyShaped'
  BY <1>11, <1>12, <1>13, BodyText, Zenon
<1>. QED  BY <1>8, <1>10, <1>14 DEF OneMore, index

-----------------------------------------------------------------------------
(***************************************************************************)
(* The functions that are complete stay as they are, and so does main but  *)
(* for the calls that it is given.                                         *)
(***************************************************************************)
ShapesKept == \A i \in Complete : ast[functions[i].node].name # "main" => Verifies(functions[i])

\* Main is the function of the generator's own, or a function of that name of
\* the program's.  Without one it has one block, that of the calls.
IsMain(m) == m.node = 0 \/ ast[m.node].name = "main"
Calls(m)  == m.node = 0 /\ Len(m.blocks) = 1 /\ m.blocks[1] \in Seq(Calm)
MainShaped ==
  LET main == symbols["main"]
      m    == functions[main.index]
  IN  /\ main.kind = "function" => IsMain(m)
      /\ NoClash /\ main.kind # "none" =>
           /\ main.kind = "function"
           /\ IF status = "done" THEN m.node = 0 /\ ControlFlowIsValid(m) ELSE Calls(m)
      /\ NoClash /\ status = "done" => main.kind # "none"

LEMMA VerdictsOfText ==
  ASSUME TextKept
  PROVE  /\ \A g : Verifies(g)' = Verifies(g)
         /\ \A m : IsMain(m)' = IsMain(m)
         /\ NoClash' = NoClash
<1>1. ast' = ast
  BY DEF TextKept
<1>2. \A f : Gen!NextItem(f)' = Gen!NextItem(f)
  BY <1>1 DEF Gen!NextItem
<1>3. \A f : EndOf(f)' = EndOf(f)
  BY <1>2 DEF EndOf
<1>4. \A f : Tidy(f)' = Tidy(f)
  BY <1>1, <1>3, ShapeOfText DEF Tidy
<1>5. \A g : ControlFlowIsValid(g)' = ControlFlowIsValid(g)
  BY Zenon DEF ControlFlowIsValid
<1>6. \A g : Verifies(g)' = Verifies(g)
  <2>1. \A k : KeepsReturn(k)' = KeepsReturn(k) /\ Shows(k)' = Shows(k)
    BY <1>1, ShapeOfText DEF KeepsReturn, Shows
  <2>. QED  BY <1>1, <1>3, <1>4, <1>5, <2>1 DEF Verifies, BodyOf
<1>7. \A m : IsMain(m)' = IsMain(m)
  BY <1>1 DEF IsMain
<1>8. NoClash' = NoClash
  BY <1>1 DEF NoClash, Clash, NodesOf
<1>. QED  BY <1>6, <1>7, <1>8

\* A step after which every complete function was so before or verifies.
LEMMA ShapesStay ==
  ASSUME TextKept, ShapesKept,
         \A i \in 1..Len(functions') :
            functions'[i].node # 0 /\ (i < Len(functions') \/ frames' = <<>>) =>
              \/ i \in Complete /\ functions'[i] = functions[i]
              \/ Verifies(functions'[i])
              \/ IsMain(functions'[i])
  PROVE  ShapesKept'
<1>. SUFFICES ASSUME NEW i \in Complete', ast'[functions'[i].node].name # "main"
              PROVE  Verifies(functions[i])'
  BY DEF ShapesKept
<1>1. ast' = ast
  BY DEF TextKept
<1>2. i \in 1..Len(functions') /\ functions'[i].node # 0 /\ (i < Len(functions') \/ frames' = <<>>)
  BY DEF Complete
<1>3. \/ i \in Complete /\ functions'[i] = functions[i]
      \/ Verifies(functions'[i])
  BY <1>1, <1>2 DEF IsMain
<1>4. Verifies(functions'[i])
  <2>1. CASE i \in Complete /\ functions'[i] = functions[i]
    <3>1. Verifies(functions[i])
      BY <1>1, <2>1 DEF ShapesKept
    <3>. QED  BY <2>1, <3>1
  <2>. QED  BY <1>3, <2>1
<1>. QED  BY <1>4, VerdictsOfText

LEMMA MainStays ==
  ASSUME GenTypeOK, TextKept, MainShaped, status # "done", status' # "done",
         symbols'["main"] = symbols["main"],
         symbols["main"].kind = "function" =>
            LET m == symbols["main"].index
            IN  functions'[m].node = functions[m].node
                /\ (functions[m].node = 0 => functions'[m] = functions[m])
  PROVE  MainShaped'
<1>1. /\ \A m : IsMain(m)' = IsMain(m) 
      /\ NoClash' = NoClash
  BY VerdictsOfText
<1>2. \A m : Calls(m)' = Calls(m)
  BY DEF TextKept, Calls, Calm
<1>. DEFINE k == symbols["main"].index
<1>3. symbols["main"].kind = "function" => IsMain(functions'[k])
  BY DEF MainShaped, IsMain
<1>4. NoClash /\ symbols["main"].kind # "none" =>
        symbols["main"].kind = "function" /\ Calls(functions'[k])
  BY DEF MainShaped, Calls
<1>5. symbols'["main"].index = k
  OBVIOUS
<1>. HIDE DEF k
<1>. QED  BY <1>1, <1>2, <1>3, <1>4, <1>5, Zenon DEF MainShaped

LEMMA FramesStay ==
  ASSUME NEW st, InBody(st), status = "generating", Gen!Next, ~Gen!EndFunctionDefinition
  PROVE  frames' # <<>>
<1>1. pos <= Len(ast) /\ frames # <<>> /\ frames \in Seq(FrameSet)
  <2>1. pos \in 1..Len(ast) /\ Len(ast) \in Nat
    BY BodyGoesOn, AnalyzedFacts DEF InBody
  <2>. QED  BY <2>1, BodyHere DEF InBody
<1>2. CASE Gen!EndBody
  <2>1. PICK s, t : AtNode(s, t)
    BY <1>1, NodeIsReached DEF InBody
  <2>. DEFINE f    == frames[Len(frames)]
              rest == SubSeq(frames, 1, Len(frames) - 1)
              more == [f EXCEPT !.kind = "else", !.next = 0]
  <2>2. /\ ast[pos].node = "end" /\ f.kind # "function"
        /\ frames' = IF f.kind = "thenElse" THEN Append(rest, more) ELSE rest
    BY <1>2, Zenon DEF Gen!EndBody, Gen!At, Gen!node
  <2>3. Len(frames) = Len(s) /\ Len(s) \in Nat /\ Len(s) > 1
    BY <2>1, <2>2, EndFacts
  <2>4. Len(frames) \in Nat /\ Len(frames) - 1 > 0
    BY <2>3
  <2>5. rest \in Seq(FrameSet) /\ Len(rest) = Len(frames) - 1
    BY <1>1, FrontFacts DEF Front
  <2>. HIDE DEF rest, more
  <2>6. rest # <<>> /\ Append(rest, more) # <<>>
    BY <2>4, <2>5
  <2>. QED  BY <2>2, <2>6
<1>3. CASE ~Gen!EndBody
  <2>1. frames' = frames \/ \E f : frames' = Append(frames, f)
    BY <1>3, InBodyOnly, Zenon DEF Gen!Next, Gen!ThrowOutOfRange, Gen!VisitExpressionStatement,
       Gen!VisitPrintStatement, Gen!VisitReturnStatement, Gen!VisitForLoopStatement,
       Gen!VisitWhileLoopStatement, Gen!VisitIfStatement, Gen!VisitIfElseStatement, Gen!Fail
  <2>2. \A f : Append(frames, f) # <<>>
    BY <1>1
  <2>. QED  BY <1>1, <2>1, <2>2
<1>. QED  BY <1>2, <1>3

LEMMA BodyKeeps ==
  ASSUME NEW st, InBody(st), status = "generating", TextKept, Gen!Next,
         BodyShaped, ShapesKept, MainShaped
  PROVE  BodyShaped' /\ ShapesKept' /\ MainShaped'
<1>1. BodyShaped'
  BY BodyGoesShaped
<1>2. status' # "done" /\ symbols'["main"] = symbols["main"]
  BY BodyTakes
<1>3. /\ Len(functions) \in 1..Len(functions) /\ GenTypeOK /\ frames # <<>>
      /\ functions[Len(functions)].node # 0
      /\ SymbolsOk(symbols, Len(functions)) /\ "main" \in Gen!SymbolNames
  <2>1. functions[Len(functions)].node # 0
    <3>1. \E i \in 1..pos - 1 : functions[Len(functions)].node = i
      BY DEF InBody, Known, BodyKnown
    <3>2. \A i \in 1..pos - 1 : i # 0
      OBVIOUS
    <3>. QED  BY <3>1, <3>2
  <2>. QED  BY <2>1, BodyHere, SymbolNamesFacts DEF InBody, GenTypeOK
<1>4. symbols["main"].kind = "function" => symbols["main"].index \in 1..Len(functions)
  BY <1>3 DEF SymbolsOk
<1>5. \/ functions' = functions /\ frames' # <<>>
      \/ OthersStay /\ frames' # <<>>
      \/ Ended
  <2>1. CASE Gen!EndFunctionDefinition
    BY <2>1, FunctionVerifies DEF Ended
  <2>2. CASE ~Gen!EndFunctionDefinition
    <3>1. frames' # <<>>
      BY <2>2, FramesStay
    <3>. QED  BY <3>1, BodyStep DEF Halts, ShapesOn
  <2>. QED  BY <2>1, <2>2
<1>6. OthersStay
  BY <1>5 DEF Ended, OthersStay
<1>7. MainShaped'
  BY <1>2, <1>3, <1>4, <1>6, MainStays DEF OthersStay
<1>8. ASSUME NEW i \in 1..Len(functions'), functions'[i].node # 0,
             i < Len(functions') \/ frames' = <<>>
      PROVE  (i \in Complete /\ functions'[i] = functions[i]) \/ Verifies(functions'[i])
  <2>1. i \in 1..Len(functions) /\ Len(functions') = Len(functions)
    BY <1>6 DEF OthersStay
  <2>2. CASE i # Len(functions)
    <3>1. i < Len(functions) /\ functions'[i] = functions[i]
      BY <1>6, <2>1, <2>2 DEF OthersStay
    <3>. QED  BY <1>8, <2>1, <3>1 DEF Complete
  <2>3. CASE i = Len(functions)
    <3>1. frames' = <<>>
      BY <1>8, <2>1, <2>3
    <3>. QED  BY <1>5, <2>3, <3>1 DEF Ended
  <2>. QED  BY <2>2, <2>3
<1>9. ShapesKept'
  BY <1>8, ShapesStay
<1>. QED  BY <1>1, <1>7, <1>9

-----------------------------------------------------------------------------
(***************************************************************************)
(* Between functions, and at the end.                                      *)
(***************************************************************************)
\* Where main is hidden by what the program calls main, little is said of it.
LEMMA MainHidden ==
  ASSUME TextKept, ~NoClash,
         symbols'["main"].kind = "function" => IsMain(functions'[symbols'["main"].index])
  PROVE  MainShaped'
<1>1. /\ \A m : IsMain(m)' = IsMain(m)
      /\ ~NoClash'
  BY VerdictsOfText
<1>. QED  BY <1>1 DEF MainShaped

LEMMA ClashingName ==
  ASSUME NEW i \in 1..Len(ast), ast[i].node \in {"function", "declaration"}, ast[i].name = "main"
  PROVE  ~NoClash
<1>1. i \in NodesOf("function") \cup NodesOf("declaration")
  BY DEF NodesOf
<1>2. Clash(ast[i].name)
  BY DEF Clash
<1>. QED  BY <1>1, <1>2 DEF NoClash

LEMMA LeadingKeeps ==
  ASSUME NEW st, Outside(st), status = "generating", TextKept,
         Gen!VisitDeclaration \/ Gen!VisitExpression \/ Gen!ThrowOutOfRange
           \/ (Gen!VisitFunctionDefinition /\ ~Gen!Supported(ast[pos])),
         ShapesKept, MainShaped
  PROVE  BodyShaped' /\ ShapesKept' /\ MainShaped'
<1>1. /\ functions' = functions /\ frames' = <<>> /\ frames = <<>> /\ status' # "done"
      /\ \/ symbols' = symbols
         \/ /\ symbols' = Gen!Claim(symbols, ast[pos].name, Gen!Symbol("global", 0))
            /\ ast[pos].node = "declaration"
  <2>1. frames = <<>>
    BY DEF Outside
  <2>2. CASE Gen!VisitDeclaration
    <3>1. \/ Gen!Fail("crashed")
          \/ symbols' = symbols /\ UNCHANGED <<status, functions, frames>>
          \/ /\ symbols' = Gen!Claim(symbols, ast[pos].name, Gen!Symbol("global", 0))
             /\ UNCHANGED <<status, functions, frames>>
      BY <2>2, DeclarationVisits
    <3>2. ast[pos].node = "declaration"
      BY <2>2, DeclarationVisits
    <3>. QED  BY <2>1, <3>1, <3>2 DEF Gen!Fail
  <2>3. CASE Gen!VisitExpression \/ Gen!ThrowOutOfRange
    BY <2>1, <2>3 DEF Gen!VisitExpression, Gen!ThrowOutOfRange, Gen!Fail, Gen!Proceed
  <2>4. CASE Gen!VisitFunctionDefinition /\ ~Gen!Supported(ast[pos])
    BY <2>1, <2>4 DEF Gen!VisitFunctionDefinition, Gen!node
  <2>. QED  BY <2>2, <2>3, <2>4
<1>2. BodyShaped'
  BY <1>1, Zenon DEF BodyShaped
<1>3. ShapesKept'
  <2>1. ASSUME NEW i \in 1..Len(functions'), functions'[i].node # 0
        PROVE  i \in Complete /\ functions'[i] = functions[i]
    BY <1>1, <2>1 DEF Complete
  <2>. QED  BY <2>1, ShapesStay
<1>4. MainShaped'
  <2>1. /\ GenTypeOK /\ SymbolsOk(symbols, Len(functions)) /\ Len(functions) \in Nat
        /\ pos \in 1..Len(ast) /\ "main" \in Gen!SymbolNames /\ Names \subseteq Gen!SymbolNames
    BY OutsideFacts, SymbolNamesFacts DEF Outside
  <2>2. CASE symbols'["main"] = symbols["main"]
    BY <1>1, <2>1, <2>2, MainStays
  <2>3. CASE symbols'["main"] # symbols["main"]
    <3>1. /\ symbols' = Gen!Claim(symbols, ast[pos].name, Gen!Symbol("global", 0))
          /\ ast[pos].node = "declaration" /\ ast[pos].name \in Gen!SymbolNames
      <4>1. ast[pos].node = "declaration" => ast[pos].name \in Names
        BY OutsideFacts, NodeFields
      <4>. QED  BY <1>1, <2>1, <2>3, <4>1
    <3>2. Claims(ast[pos].name, Gen!Symbol("global", 0))
      <4>1. Declared(pos, ast[pos].name)
        BY <3>1 DEF Declared
      <4>2. Gen!Symbol("global", 0).kind = "global"
        BY DEF Gen!Symbol
      <4>. QED  BY <2>1, <3>1, <4>1, <4>2, Zenon DEF Claims
    <3>3. ast[pos].name = "main" /\ symbols'["main"] = Gen!Symbol("global", 0)
      BY <2>1, <2>3, <3>1, <3>2, ClaimsKeep
    <3>4. ~NoClash
      BY <2>1, <3>1, <3>3, ClashingName
    <3>5. symbols'["main"].kind = "global"
      BY <3>3 DEF Gen!Symbol
    <3>. QED  BY <3>4, <3>5, MainHidden
  <2>. QED  BY <2>2, <2>3
<1>. QED  BY <1>2, <1>3, <1>4

LEMMA DefinitionKeeps ==
  ASSUME NEW st, Outside(st), status = "generating", TextKept,
         Gen!VisitFunctionDefinition, Gen!Supported(ast[pos]), ShapesKept, MainShaped
  PROVE  BodyShaped' /\ ShapesKept' /\ MainShaped'
<1>. DEFINE n == Len(functions)
            s == Gen!Symbol("function", n + 1)
<1>1. /\ OneMore /\ functions'[n + 1].node = pos
      /\ frames' # <<>> /\ BodyShaped'
  BY FunctionStarts
<1>2. /\ symbols' = Gen!Claim(symbols, ast[pos].name, s) /\ status' # "done"
      /\ ast[pos].node = "function" /\ frames = <<>>
  BY DEF Gen!VisitFunctionDefinition, Gen!At, Gen!node, Gen!Proceed, Outside
<1>3. /\ GenTypeOK /\ SymbolsOk(symbols, n) /\ n \in Nat /\ n + 1 \in 1..n + 1 /\ n <= n + 1
      /\ pos \in 1..Len(ast) /\ "main" \in Gen!SymbolNames /\ ast[pos].name \in Gen!SymbolNames
  <2>1. ast[pos].name \in Names
    BY <1>2, OutsideFacts, NodeFields
  <2>2. n \in Nat /\ n + 1 \in 1..n + 1 /\ n <= n + 1
    BY OutsideFacts
  <2>. QED  BY <2>1, <2>2, OutsideFacts, SymbolNamesFacts DEF Outside
<1>4. ShapesKept'
  <2>1. ASSUME NEW i \in 1..Len(functions'), functions'[i].node # 0, i < Len(functions') \/ frames' = <<>>
        PROVE  i \in Complete /\ functions'[i] = functions[i]
    <3>1. i \in 1..n
      BY <1>1, <1>3, <2>1 DEF OneMore
    <3>2. functions'[i] = functions[i]
      BY <1>1, <3>1 DEF OneMore
    <3>. QED  BY <1>2, <2>1, <3>1, <3>2 DEF Complete
  <2>. QED  BY <2>1, ShapesStay
<1>5. Claims(ast[pos].name, s)
  <2>1. s.kind = "function"
    BY DEF Gen!Symbol
  <2>. QED  BY <1>2, <2>1 DEF Claims
<1>6. MainShaped'
  <2>1. CASE symbols'["main"] = symbols["main"]
    <3>1. symbols["main"].kind = "function" => symbols["main"].index \in 1..n
      BY <1>3 DEF SymbolsOk
    <3>2. symbols["main"].kind = "function" =>
            functions'[symbols["main"].index] = functions[symbols["main"].index]
      BY <1>1, <3>1 DEF OneMore
    <3>. QED  BY <1>2, <1>3, <2>1, <3>2, MainStays
  <2>2. CASE symbols'["main"] # symbols["main"]
    <3>1. ast[pos].name = "main" /\ symbols'["main"] = s
      BY <1>3, <1>5, <2>2, ClaimsKeep
    <3>2. ~NoClash
      BY <1>2, <1>3, <3>1, ClashingName
    <3>3. symbols'["main"].index = n + 1
      BY <3>1 DEF Gen!Symbol
    <3>4. IsMain(functions'[n + 1])
      BY <1>1, <3>1 DEF IsMain
    <3>. QED  BY <3>2, <3>3, <3>4, MainHidden
  <2>. QED  BY <2>1, <2>2
<1>. QED  BY <1>1, <1>4, <1>6

\* What a call, or the end of the program, does to main and what it leaves.
LEMMA MainGiven ==
  ASSUME GenTypeOK, NEW code \in Code, PutsInMain(code), symbols' = Gen!MainSymbols
  PROVE  LET m == functions'[Gen!MainIndex]
             w == functions[symbols["main"].index]
             exists == symbols["main"].kind = "function"
         IN  /\ \A i \in 1..Len(functions') : i # Gen!MainIndex => i \in 1..Len(functions) /\ functions'[i] = functions[i]
             /\ Gen!MainIndex \in 1..Len(functions')
             /\ m.node = IF exists THEN w.node ELSE 0
             /\ Len(m.blocks) = IF exists THEN Len(w.blocks) ELSE 1
             /\ m.blocks[1] = IF exists THEN w.blocks[1] \o code ELSE code
             /\ symbols'["main"].kind # "none"
             /\ symbols["main"].kind # "global" => symbols'["main"].kind = "function"
             /\ symbols'["main"].kind = "function" => symbols'["main"].index = Gen!MainIndex
<1>. DEFINE n == Len(functions)
            main == symbols["main"]
            k == Gen!MainIndex
            fs == Gen!WithMain
            m == functions'[k]
            w == functions[main.index]
            exists == main.kind = "function"
            none == <<>>
            new == Gen!NewFunction(0, Gen!I32, none)
<1>1. /\ fs \in Seq(Function) /\ \A i \in 1..n : fs[i] = functions[i]
      /\ n \in Nat /\ Len(fs) = IF exists THEN n ELSE n + 1
      /\ k = IF exists THEN main.index ELSE n + 1
      /\ k \in 1..Len(fs)
      /\ main.kind \in {"none", "function", "global"}
      /\ main = Gen!NoSymbol <=> main.kind = "none"
      /\ functions \in Seq(Function)
  BY MainPlace DEF GenTypeOK
<1>2. ~exists => fs[n + 1].node = 0 /\ Len(fs[n + 1].blocks) = 1 /\ fs[n + 1].blocks[1] = <<>>
  <2>1. 0 \in Nat /\ Gen!I32 \in ValueTypes /\ none \in Seq(ValueTypes)
    BY EmptySeq DEF ValueTypes
  <2>. HIDE DEF none
  <2>2. LET hs == Append(functions, new)
        IN  hs[n + 1] = new /\ new.node = 0 /\ Len(new.blocks) = 1 /\ new.blocks[1] = <<>>
    BY <1>1, <2>1, NewFunctionFacts
  <2>3. ~exists => fs = Append(functions, new)
    BY Zenon DEF Gen!WithMain, Gen!MainExists, none
  <2>. HIDE DEF new, fs
  <2>. QED  BY <2>2, <2>3
<1>3. Gen!MainSymbols["main"] = IF main = Gen!NoSymbol THEN Gen!Symbol("function", n + 1) ELSE main
  BY MainSymbolsTyped
<1>. DEFINE at == Gen!EntryOf(k)
<1>4. at.function = k /\ at.block = 1
  BY DEF Gen!EntryOf
<1>5. functions' = Gen!Put(fs, at, code)
  BY DEF PutsInMain
<1>. HIDE DEF n, main, k, fs, w, new, at
<1>6. 1 \in 1..Len(fs[k].blocks)
  BY <1>1, BlocksFacts
<1>7. AfterPut(fs, functions', k, 1, code)
  <2>1. at.function \in 1..Len(fs) /\ at.block \in 1..Len(fs[at.function].blocks)
    BY <1>1, <1>4, <1>6
  <2>2. AfterPut(fs, Gen!Put(fs, at, code), at.function, at.block, code)
    BY <1>1, <2>1, PutGives
  <2>. QED  BY <1>4, <1>5, <2>2
<1>8. fs[k] = IF exists THEN w ELSE fs[n + 1]
  <2>1. exists => k \in 1..n /\ k = main.index
    BY <1>1
  <2>. QED  BY <1>1, <2>1 DEF w
<1>9. ASSUME NEW i \in 1..Len(functions'), i # k PROVE i \in 1..n /\ functions'[i] = functions[i]
  <2>1. i \in 1..Len(fs) /\ functions'[i] = fs[i]
    BY <1>7, <1>9 DEF AfterPut
  <2>2. i \in 1..n
    BY <1>1, <1>9, <2>1
  <2>. QED  BY <1>1, <2>1, <2>2
<1>10. /\ k \in 1..Len(functions') /\ m.node = fs[k].node /\ Len(m.blocks) = Len(fs[k].blocks)
       /\ m.blocks[1] = fs[k].blocks[1] \o code
  BY <1>1, <1>7 DEF AfterPut
<1>11. <<>> \o code = code
  BY ConcatEmptySeq DEF Code
<1>12. /\ m.node = IF exists THEN w.node ELSE 0
       /\ Len(m.blocks) = IF exists THEN Len(w.blocks) ELSE 1
       /\ m.blocks[1] = IF exists THEN w.blocks[1] \o code ELSE code
  <2>1. CASE exists
    BY <1>8, <1>10, <2>1
  <2>2. CASE ~exists
    <3>1. m.blocks[1] = <<>> \o code /\ m.node = 0 /\ Len(m.blocks) = 1
      BY <1>2, <1>8, <1>10, <2>2
    <3>. QED  BY <1>11, <2>2, <3>1
  <2>. QED  BY <2>1, <2>2
<1>13. /\ symbols'["main"].kind # "none"
       /\ main.kind # "global" => symbols'["main"].kind = "function"
       /\ symbols'["main"].kind = "function" => symbols'["main"].index = k
  <2>1. symbols'["main"] = IF main = Gen!NoSymbol THEN Gen!Symbol("function", n + 1) ELSE main
    BY <1>3
  <2>2. CASE main = Gen!NoSymbol
    <3>1. symbols'["main"].kind = "function" /\ symbols'["main"].index = n + 1
      BY <2>1, <2>2 DEF Gen!Symbol
    <3>. QED  BY <1>1, <2>2, <3>1
  <2>3. CASE main # Gen!NoSymbol
    BY <1>1, <2>1, <2>3
  <2>. QED  BY <2>2, <2>3
<1>. QED  BY <1>9, <1>10, <1>12, <1>13 DEF n, main, k, w

\* Calm code that a ret ends is a block that is closed.
LEMMA CalmEnds ==
  ASSUME NEW a \in Seq(Calm), NEW i \in Instruction, i.op = "ret", i.to = {}, NEW n
  PROVE  BlockIsClosed(a \o <<i>>) /\ GoesTo(a \o <<i>>, n)
<1>1. a \in Code /\ IsStraight(a) /\ GoesTo(a, n)
  BY CalmCode
<1>2. i.op \in Gen!Terminators
  BY DEF Gen!Terminators
<1>3. BlockIsClosed(Append(a, i))
  BY <1>1, <1>2, Closing
<1>4. GoesTo(Append(a, i), n)
  <2>1. i.to \subseteq 2..n
    OBVIOUS
  <2>. QED  BY <1>1, <2>1, GoesToLast
<1>5. Append(a, i) = a \o <<i>>
  BY <1>1 DEF Code
<1>. QED  BY <1>3, <1>4, <1>5

LEMMA CalmFlow ==
  ASSUME NEW m, Len(m.blocks) = 1, BlockIsClosed(m.blocks[1]), GoesTo(m.blocks[1], 1)
  PROVE  ControlFlowIsValid(m)
<1>1. \A c \in 1..1 : c = 1
  OBVIOUS
<1>2. Flows(m.blocks)
  BY <1>1 DEF Flows
<1>. QED  BY <1>2, FlowIsValid

LEMMA GivenKeeps ==
  ASSUME GenTypeOK, TextKept, frames = <<>>, frames' = <<>>, status # "done",
         ShapesKept, MainShaped, NEW code \in Code, PutsInMain(code), symbols' = Gen!MainSymbols,
         \/ status' # "done" /\ code \in Seq(Calm)
         \/ status' = "done" /\ \E i \in Instruction : code = <<i>> /\ i.op = "ret" /\ i.to = {}
  PROVE  ShapesKept' /\ MainShaped'
<1>. DEFINE main == symbols["main"]
            k == Gen!MainIndex
            m == functions'[k]
            w == functions[main.index]
            exists == main.kind = "function"
<1>1. /\ \A i \in 1..Len(functions') : i # k => i \in 1..Len(functions) /\ functions'[i] = functions[i]
      /\ k \in 1..Len(functions')
      /\ m.node = IF exists THEN w.node ELSE 0
      /\ Len(m.blocks) = IF exists THEN Len(w.blocks) ELSE 1
      /\ m.blocks[1] = IF exists THEN w.blocks[1] \o code ELSE code
      /\ symbols'["main"].kind # "none"
      /\ main.kind # "global" => symbols'["main"].kind = "function"
      /\ symbols'["main"].kind = "function" => symbols'["main"].index = k
  BY MainGiven
<1>2. /\ exists => IsMain(w)
      /\ NoClash /\ main.kind # "none" => exists /\ Calls(w)
  BY DEF MainShaped
<1>3. main.kind \in {"none", "function", "global"}
  BY MainPlace
<1>. HIDE DEF k, m, w, main
<1>4. IsMain(m)
  BY <1>1, <1>2 DEF IsMain
<1>5. ShapesKept'
  <2>1. ASSUME NEW i \in 1..Len(functions'), functions'[i].node # 0
        PROVE  (i \in Complete /\ functions'[i] = functions[i]) \/ IsMain(functions'[i])
    <3>1. CASE i = k
      BY <1>4, <3>1 DEF m
    <3>2. CASE i # k
      BY <1>1, <2>1, <3>2 DEF Complete
    <3>. QED  BY <3>1, <3>2
  <2>. QED  BY <2>1, ShapesStay
<1>6. ASSUME NoClash
      PROVE  /\ m.node = 0 /\ symbols'["main"].kind = "function" /\ Len(m.blocks) = 1
             /\ \E calm \in Seq(Calm) : m.blocks[1] = calm \o code
  <2>1. CASE exists
    <3>1. Calls(w)
      BY <1>2, <1>6, <2>1
    <3>. QED  BY <1>1, <2>1, <3>1 DEF Calls
  <2>2. CASE ~exists
    <3>1. main.kind = "none"
      BY <1>2, <1>6, <2>2
    <3>2. <<>> \in Seq(Calm) /\ code = <<>> \o code
      BY ConcatEmptySeq, EmptySeq DEF Code
    <3>. QED  BY <1>1, <2>2, <3>1, <3>2
  <2>. QED  BY <2>1, <2>2
<1>7. ASSUME NoClash, status' # "done" PROVE Calls(m)
  <2>1. PICK calm \in Seq(Calm) : m.blocks[1] = calm \o code
    BY <1>6, <1>7
  <2>2. calm \o code \in Seq(Calm)
    BY <1>7, ConcatProperties
  <2>. QED  BY <1>6, <1>7, <2>1, <2>2 DEF Calls
<1>8. ASSUME NoClash, status' = "done" PROVE ControlFlowIsValid(m)
  <2>1. PICK calm \in Seq(Calm) : m.blocks[1] = calm \o code
    BY <1>6, <1>8
  <2>2. PICK i \in Instruction : code = <<i>> /\ i.op = "ret" /\ i.to = {}
    BY <1>8
  <2>3. BlockIsClosed(calm \o <<i>>) /\ GoesTo(calm \o <<i>>, 1)
    BY <2>2, CalmEnds
  <2>. QED  BY <1>6, <1>8, <2>1, <2>2, <2>3, CalmFlow
<1>9. /\ symbols'["main"].kind = "function" => functions'[symbols'["main"].index] = m
      /\ symbols'["main"].kind # "none"
  BY <1>1 DEF m
<1>10. /\ \A g : IsMain(g)' = IsMain(g)
       /\ NoClash' = NoClash
  BY VerdictsOfText
<1>11. \A g : Calls(g)' = Calls(g)
  BY DEF TextKept, Calls, Calm
<1>12. MainShaped'
  BY <1>4, <1>6, <1>7, <1>8, <1>9, <1>10, <1>11 DEF MainShaped
<1>. QED  BY <1>5, <1>12

LEMMA CallKeeps ==
  ASSUME NEW st, Outside(st), status = "generating", TextKept, Gen!VisitFunctionCall,
         ShapesKept, MainShaped
  PROVE  BodyShaped' /\ ShapesKept' /\ MainShaped'
<1>1. /\ symbols' = Gen!MainSymbols /\ frames' = frames /\ frames = <<>> /\ GenTypeOK
      /\ ast[pos].node = "call" /\ pos \in Nat
      /\ PutsInMain(<<>>) \/ PutsInMain(CallCode) \/ PutsInMain(Append(CallCode, CallInstr))
  BY CallEmits, OutsideFacts DEF Outside
<1>2. status' # "done"
  BY DEF Gen!VisitFunctionCall, Gen!Proceed
<1>3. CallCode \in Seq(Calm)
  <2>1. Takes(Calm, Evaluating, BOOLEAN)
    BY <1>1, CalmTakes
  <2>2. Takes(Calm, Evaluating, {TRUE})
    BY <2>1 DEF Takes
  <2>. QED  BY <1>1, <2>1, <2>2, CallEvaluates
<1>4. CallInstr \in Calm
  <2>. DEFINE name == ast[pos].name
              ok == Gen!Matches(CallValues, Callee, name)
  <2>1. name \in InstrNames
    <3>1. name \in Names
      BY <1>1, OutsideFacts, NodeFields
    <3>. QED  BY <3>1, InstrNamesFacts, SymbolNamesFacts
  <2>2. ok \in BOOLEAN
    BY Zenon DEF Gen!Matches
  <2>. HIDE DEF name, ok
  <2>3. Gen!Instr("call", name, ok) \in Calm
    BY <1>1, <2>1, <2>2, CalmInstr
  <2>. QED  BY <2>3 DEF CallInstr, name, ok
<1>5. \E code \in Seq(Calm) : PutsInMain(code)
  <2>1. <<>> \in Seq(Calm) /\ Append(CallCode, CallInstr) \in Seq(Calm)
    BY <1>3, <1>4, EmptySeq, AppendProperties
  <2>. QED  BY <1>1, <1>3, <2>1, Zenon
<1>6. PICK code \in Seq(Calm) : PutsInMain(code)
  BY <1>5
<1>7. code \in Code
  BY CalmCode
<1>8. ShapesKept' /\ MainShaped'
  BY <1>1, <1>2, <1>6, <1>7, GivenKeeps
<1>. QED  BY <1>1, <1>8, Zenon DEF BodyShaped

LEMMA FinishKeeps ==
  ASSUME GenTypeOK, TextKept, frames = <<>>, Gen!EndProgram, ShapesKept, MainShaped
  PROVE  ShapesKept' /\ MainShaped' /\ status' = "done"
<1>. DEFINE ret == Gen!Instr("ret", "", TRUE)
            code == <<ret>>
<1>1. /\ PutsInMain(code) /\ symbols' = Gen!MainSymbols
      /\ frames' = <<>> /\ status # "done" /\ status' = "done"
  BY DEF Gen!EndProgram, PutsInMain
<1>2. ret \in Instruction /\ ret.op = "ret" /\ ret.to = {}
  <2>1. pos \in Nat
    BY DEF GenTypeOK
  <2>2. ret \in Instruction
    BY <2>1, InstrTyped, InstrNamesFacts
  <2>3. ret.op = "ret" /\ ret.to = {}
    BY DEF Gen!Instr
  <2>. QED  BY <2>2, <2>3
<1>. HIDE DEF ret
<1>3. code \in Code
  BY <1>2 DEF Code
<1>4. \E i \in Instruction : code = <<i>> /\ i.op = "ret" /\ i.to = {}
  BY <1>2
<1>. HIDE DEF code
<1>. QED  BY <1>1, <1>3, <1>4, GivenKeeps

LEMMA OutsideKeeps ==
  ASSUME NEW st, Outside(st), status = "generating", TextKept, Gen!Next, ShapesKept, MainShaped
  PROVE  BodyShaped' /\ ShapesKept' /\ MainShaped'
<1>1. pos \in Nat /\ Len(ast) \in Nat /\ pos <= Len(ast) /\ frames = <<>>
  BY OutsideFacts DEF Outside
<1>2. PICK s, t : AtNode(s, t)
  BY <1>1, NodeIsReached DEF Outside
<1>3. ast[pos].node \notin {"print", "return", "while", "for", "if", "ifElse", "end"}
  BY <1>1, <1>2, FramesAtNode
<1>4. /\ ~Gen!VisitExpressionStatement /\ ~Gen!VisitPrintStatement
      /\ ~Gen!VisitReturnStatement /\ ~Gen!VisitForLoopStatement
      /\ ~Gen!VisitWhileLoopStatement /\ ~Gen!VisitIfStatement /\ ~Gen!VisitIfElseStatement
      /\ ~Gen!EndBody /\ ~Gen!EndFunctionDefinition
  BY <1>1, <1>3, Zenon DEF Gen!VisitExpressionStatement, Gen!VisitPrintStatement,
     Gen!VisitReturnStatement, Gen!VisitForLoopStatement, Gen!VisitWhileLoopStatement,
     Gen!VisitIfStatement, Gen!VisitIfElseStatement, Gen!EndBody, Gen!EndFunctionDefinition,
     Gen!At, Gen!node
<1>5. ~Gen!EndProgram
  <2>1. ~(pos > Len(ast))
    BY <1>1
  <2>. QED  BY <2>1, Zenon DEF Gen!EndProgram
<1>6. \/ Gen!VisitDeclaration \/ Gen!VisitExpression \/ Gen!ThrowOutOfRange
      \/ Gen!VisitFunctionDefinition \/ Gen!VisitFunctionCall
  BY <1>4, <1>5, Zenon DEF Gen!Next
<1>. QED  BY <1>6, LeadingKeeps, DefinitionKeeps, CallKeeps

-----------------------------------------------------------------------------
(***************************************************************************)
(* The invariant of the shapes.                                            *)
(***************************************************************************)
TidyKnown == (status # "done" => BodyShaped) /\ ShapesKept /\ MainShaped
TidyInv   == ModuleInv /\ (outcome = "accepted" => TidyKnown)

\* Nothing is there yet.
LEMMA NothingShaped == Gen!Init => TidyKnown
<1>. SUFFICES ASSUME Gen!Init PROVE TidyKnown
  OBVIOUS
<1>1. /\ frames = <<>> /\ Len(functions) = 0 /\ status = "generating"
      /\ symbols = [n \in Gen!SymbolNames |-> IF n \in Gen!Allocators
                                                THEN Gen!Symbol("library", 0) ELSE Gen!NoSymbol]
  BY DEF Gen!Init
<1>2. symbols["main"].kind = "none"
  <2>1. "main" \in Gen!SymbolNames /\ "main" \notin Gen!Allocators
    BY SymbolNamesFacts DEF Gen!Allocators
  <2>2. symbols["main"] = Gen!NoSymbol
    BY <1>1, <2>1
  <2>. QED  BY <2>2 DEF Gen!NoSymbol, Gen!Symbol
<1>3. BodyShaped
  BY <1>1, Zenon DEF BodyShaped
<1>4. ShapesKept
  BY <1>1 DEF ShapesKept, Complete
<1>5. MainShaped
  BY <1>1, <1>2 DEF MainShaped
<1>. QED  BY <1>3, <1>4, <1>5 DEF TidyKnown

LEMMA TidyInit == CompilerInit => TidyInv
BY ModuleInit, Zenon DEF CompilerInit, Init, TidyInv

LEMMA TidyGenerate == TidyInv /\ Generate => TidyKnown'
<1>. SUFFICES ASSUME TidyInv, Generate PROVE TidyKnown'
  OBVIOUS
<1>1. /\ outcome = "accepted" /\ TextKept /\ Gen!Next
      /\ ModuleInv /\ TidyKnown
  BY Zenon DEF Generate, vars, TextKept, TidyInv
<1>2. status = "generating"
  BY <1>1, Zenon DEF Gen!Next, Gen!ThrowOutOfRange, Gen!VisitDeclaration, Gen!VisitExpression,
     Gen!VisitExpressionStatement, Gen!VisitPrintStatement, Gen!VisitReturnStatement,
     Gen!VisitForLoopStatement, Gen!VisitWhileLoopStatement, Gen!VisitIfStatement,
     Gen!VisitIfElseStatement, Gen!EndBody, Gen!VisitFunctionDefinition,
     Gen!EndFunctionDefinition, Gen!VisitFunctionCall, Gen!EndProgram, Gen!At
<1>3. Analyzed /\ GenTypeOK /\ InsertOk /\ Known
  BY <1>1, <1>2 DEF ModuleInv, NamesInv, CompilerInv, GenInv, Analyzed
<1>4. PICK st : Reached(st)
  BY <1>1, <1>2 DEF ModuleInv, CompilerInv, GenInv
<1>5. BodyShaped /\ ShapesKept /\ MainShaped
  BY <1>1, <1>2 DEF TidyKnown
<1>6. Len(ast) \in Nat /\ pos \in 1..Len(ast) + 1
  BY <1>3, AnalyzedFacts DEF GenTypeOK
<1>7. CASE frames # <<>>
  BY <1>1, <1>2, <1>3, <1>4, <1>5, <1>7, BodyKeeps DEF InBody, TidyKnown
<1>8. CASE frames = <<>> /\ pos <= Len(ast)
  <2>1. Outside(st)
    BY <1>3, <1>4, <1>6, <1>8 DEF Outside
  <2>. QED  BY <1>1, <1>2, <1>5, <2>1, OutsideKeeps DEF TidyKnown
<1>9. CASE frames = <<>> /\ pos > Len(ast)
  <2>1. Gen!EndProgram
    BY <1>1, <1>3, <1>6, <1>9, PastTheEnd
  <2>. QED  BY <1>1, <1>3, <1>5, <1>9, <2>1, FinishKeeps DEF TidyKnown
<1>. QED  BY <1>6, <1>7, <1>8, <1>9

LEMMA TidyNext == TidyInv /\ [CompilerNext]_<<vars, genVars>> => TidyInv'
<1>. SUFFICES ASSUME TidyInv, [CompilerNext]_<<vars, genVars>> PROVE TidyInv'
  OBVIOUS
<1>1. ModuleInv /\ ModuleInv'
  BY ModuleNext DEF TidyInv
<1>2. CASE Analyze
  <2>1. Gen!Init /\ UNCHANGED genVars
    BY <1>1, <1>2 DEF Analyze, ModuleInv, CompilerInv, GenInv
  <2>2. Gen!Init'
    BY <2>1 DEF Gen!Init, genVars
  <2>3. TidyKnown'
    BY <2>2, NothingShaped, PTL
  <2>. QED  BY <1>1, <2>3 DEF TidyInv
<1>3. CASE Generate
  BY <1>1, <1>3, TidyGenerate DEF TidyInv
<1>4. CASE UNCHANGED <<vars, genVars>>
  <2>1. TextKept /\ UNCHANGED <<pos, status, functions, symbols, insert, frames>>
        /\ outcome' = outcome
    BY <1>4 DEF vars, genVars, TextKept
  <2>2. BodyShaped' <=> BodyShaped
    <3>1. NewestBlocks' = NewestBlocks
      BY <2>1 DEF NewestBlocks
    <3>. QED  BY <2>1, <3>1, BodyText DEF BodyShaped
  <2>3. ShapesKept' <=> ShapesKept
    <3>1. Complete' = Complete
      BY <2>1 DEF Complete
    <3>. QED  BY <2>1, <3>1, VerdictsOfText DEF ShapesKept, TextKept
  <2>4. MainShaped' <=> MainShaped
    <3>1. \A m : Calls(m)' = Calls(m)
      BY <2>1 DEF TextKept, Calls, Calm
    <3>2. \A m : ControlFlowIsValid(m)' = ControlFlowIsValid(m)
      BY Zenon DEF ControlFlowIsValid
    <3>. QED  BY <2>1, <3>1, <3>2, VerdictsOfText DEF MainShaped
  <2>. QED  BY <1>1, <2>1, <2>2, <2>3, <2>4 DEF TidyInv, TidyKnown
<1>. QED  BY <1>2, <1>3, <1>4 DEF CompilerNext, Over

LEMMA TidyFollows == TidyInv => TidyFunctionsVerify
<1>. SUFFICES ASSUME TidyInv, outcome = "accepted" PROVE TidyFunctionsVerify
  BY DEF TidyFunctionsVerify, Accepting
<1>1. ShapesKept /\ MainShaped
  BY DEF TidyInv, TidyKnown
<1>2. ASSUME NEW i \in Complete, ast[functions[i].node].name # "main"
      PROVE  LET f == functions[i].node
             IN  /\ Tidy(f) /\ (\A k \in BodyOf(f) : ast[k].node = "return" => Finds(k)) =>
                      ControlFlowIsValid(functions[i])
                 /\ (\A k \in BodyOf(f) : ast[k].node \notin {"if", "expression"} /\ Finds(k)) =>
                      (ControlFlowIsValid(functions[i]) => Tidy(f))
  BY <1>1, <1>2, Zenon DEF ShapesKept, Verifies, KeepsReturn, Shows
<1>3. ASSUME status = "done", NoClash
      PROVE  LET main == functions[symbols["main"].index]
             IN  main.node = 0 /\ ControlFlowIsValid(main)
  BY <1>1, <1>3 DEF MainShaped
<1>. QED  BY <1>2, <1>3 DEF TidyFunctionsVerify

\* Every tidy function is given blocks that each end with their only terminator
\* and lead to blocks of their own, however its loops and branches nest, and so
\* is main; what is tidy is all that is valid where the whole text of a function
\* shows in its code (the visits of the loops and branches, and the terminator
\* that visit(FunctionDefinition) adds to the entry).
THEOREM TidyFunctionsAreValid == CompilerSpec => []TidyFunctionsVerify
<1>. QED  BY TidyInit, TidyNext, TidyFollows, PTL DEF CompilerSpec
=============================================================================
