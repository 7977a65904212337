----------------------------- MODULE LexerProofs -----------------------------
(***************************************************************************)
(* The lexer for texts of any length over any characters, keywords and     *)
(* method names: where its cursor can be, that it keeps the promise of     *)
(* TokenStream (every step of it is a step of the promise or does not      *)
(* show), that it loses nothing between two tokens and takes the longest   *)
(* match, and how the later passes read the lexemes it returns.  That      *)
(* every call is answered needs the fairness of Spec and is left to TLC.   *)
(***************************************************************************)
EXTENDS Literals, SequenceTheorems, TLAPS

IInv == TypeOK /\ CursorInText

\* What is not the null character is in the text.
LEMMA InTheText ==
  ASSUME text \in Seq(Chars), NEW p \in Nat \ {0}
  PROVE  At(p) # NUL => p \in 1..Len(text) /\ At(p) = text[p]
BY DEF At

LEMMA NULIsNoLetter == NUL \notin Letters /\ NUL \notin Digits /\ NUL \notin Unknown
BY CharsAssumption

\* A word that is found at p ends in the text.
LEMMA WordsEndInTheText ==
  ASSUME text \in Seq(Chars), NEW p \in Nat, NEW word \in Seq(Chars), StartsAt(word, p)
  PROVE  p + Len(word) \in Nat /\ p + Len(word) <= Len(text) + 1
BY DEF StartsAt

\* A turn of a loop that leaves the cursor in the text.
LEMMA ContinueInv ==
  ASSUME IInv, NEW m \in {"next", "comment", "identifier", "number", "fraction", "string"},
         NEW to \in Nat \ {0}, to <= Len(text) + 1, NEW from \in Nat,
         Continue(m, to) \/ Enter(m, from, to)
  PROVE  IInv'
BY DEF IInv, TypeOK, CursorInText, Continue, Enter

\* A token that leaves it there.
LEMMA ReturnInv ==
  ASSUME IInv, NEW kind \in Stream!Kinds, NEW from \in Nat, NEW after \in Nat,
         NEW to \in Nat \ {0}, to <= Len(text) + 1, Return(kind, from, after, to)
  PROVE  IInv'
<1>. DEFINE token == [kind |-> kind, from |-> from, after |-> after]
<1>1. token \in [kind : Stream!Kinds, from : Nat, after : Nat]
  OBVIOUS
<1>2. tokens' = Append(tokens, token)
  BY DEF Return
<1>3. tokens' \in Seq([kind : Stream!Kinds, from : Nat, after : Nat])
  BY <1>1, <1>2 DEF IInv, TypeOK
<1>. QED
  BY <1>3 DEF IInv, TypeOK, CursorInText, Return

\* The kinds of tokens that are named in the actions.
LEMMA KindsOfTokens ==
  /\ {"End", "Slash", "ArrayAdd", "ArrayRemove", "Dot", "Identifier", "Number",
      "FloatLiteral", "StringLiteral", "Unexpected", "LessThanEqual",
      "GreaterThanEqual", "Arrow"} \subseteq Stream!Kinds
  /\ \A c \in Atoms : AtomKind(c) \in Stream!Kinds
<1>1. ASSUME NEW c \in Atoms PROVE AtomKind(c) \in Stream!AtomKinds
  BY <1>1, ZenonT(60) DEF Atoms, AtomKind, Stream!AtomKinds
<1>. QED
  BY <1>1 DEF Stream!Kinds

\* Between tokens.
LEMMA NextStepsInv ==
  ASSUME IInv, \/ SkipSpace \/ ReadEnd \/ ReadAtom \/ ReadPair \/ slash_or_comment
               \/ EnterIdentifier \/ EnterNumber \/ EnterString \/ ReadUnexpected
  PROVE  IInv'
<1>1. /\ text \in Seq(Chars) /\ cursor \in Nat \ {0} /\ Len(text) \in Nat
      /\ cursor <= Len(text) + 1 /\ method = "next" /\ cursor \in Nat
      /\ cursor + 1 \in Nat /\ cursor + 1 \in Nat \ {0} /\ 0 \in Nat
  BY DEF IInv, TypeOK, In, SkipSpace, ReadEnd, ReadAtom, ReadPair, slash_or_comment,
    EnterIdentifier, EnterNumber, EnterString, ReadUnexpected
<1>2. peek # NUL => cursor <= Len(text)
  BY <1>1 DEF peek, At
<1>3. At(cursor + 1) # NUL => cursor + 1 <= Len(text)
  BY <1>1 DEF At
<1>4. CASE SkipSpace
  <2>1. peek # NUL
    BY <1>4 DEF SkipSpace, Space, Blank, Newline, NUL
  <2>. QED
    BY <1>1, <1>2, <1>4, <2>1, ContinueInv DEF SkipSpace
<1>5. CASE ReadEnd
  BY <1>1, <1>5, ReturnInv, KindsOfTokens DEF ReadEnd
<1>6. CASE ReadAtom
  <2>1. peek # NUL
    BY <1>6 DEF ReadAtom, Atoms, NUL
  <2>2. AtomKind(peek) \in Stream!Kinds
    BY <1>6, KindsOfTokens DEF ReadAtom
  <2>. QED
    BY <1>1, <1>2, <1>6, <2>1, <2>2, ReturnInv DEF ReadAtom
<1>7. CASE ReadPair
  <2>. DEFINE kind == PairKind(peek, At(cursor + 1))
  <2>1. kind \in {"LessThanEqual", "GreaterThanEqual", "Arrow"} /\ At(cursor + 1) \in {"=", ">"}
    BY <1>7 DEF ReadPair, PairKind
  <2>2. /\ At(cursor + 1) # NUL /\ cursor + 2 \in Nat \ {0} /\ kind \in Stream!Kinds
        /\ cursor + 2 \in Nat
    BY <1>1, <2>1, KindsOfTokens DEF NUL
  <2>3. cursor + 2 <= Len(text) + 1
    BY <1>1, <1>3, <2>2
  <2>4. Return(kind, cursor, cursor + 2, cursor + 2)
    BY <1>7 DEF ReadPair
  <2>. QED
    BY <1>1, <2>2, <2>3, <2>4, ReturnInv
<1>8. CASE slash_or_comment
  <2>1. peek # NUL
    BY <1>8 DEF slash_or_comment, NUL
  <2>2. CASE At(cursor + 1) = "/"
    BY <1>1, <1>2, <1>8, <2>1, <2>2, ContinueInv DEF slash_or_comment
  <2>3. CASE At(cursor + 1) # "/"
    BY <1>1, <1>2, <1>8, <2>1, <2>3, ReturnInv, KindsOfTokens DEF slash_or_comment
  <2>. QED
    BY <2>2, <2>3
<1>9. CASE EnterIdentifier
  BY <1>1, <1>9, ContinueInv DEF EnterIdentifier
<1>10. CASE EnterNumber
  <2>1. peek # NUL
    BY <1>10, NULIsNoLetter DEF EnterNumber
  <2>. QED
    BY <1>1, <1>2, <1>10, <2>1, ContinueInv DEF EnterNumber
<1>11. CASE EnterString
  <2>1. peek # NUL
    BY <1>11 DEF EnterString, Quote, NUL
  <2>. QED
    BY <1>1, <1>2, <1>11, <2>1, ContinueInv DEF EnterString
<1>12. CASE ReadUnexpected
  BY <1>1, <1>12, ReturnInv, KindsOfTokens DEF ReadUnexpected
<1>. QED
  BY <1>4, <1>5, <1>6, <1>7, <1>8, <1>9, <1>10, <1>11, <1>12

\* Inside a token or a comment.
LEMMA LoopsInv ==
  ASSUME IInv, SkipComment \/ identifier \/ number \/ Fraction \/ string_literal
  PROVE  IInv'
<1>1. /\ text \in Seq(Chars) /\ cursor \in Nat \ {0} /\ Len(text) \in Nat /\ start \in Nat
      /\ cursor <= Len(text) + 1 /\ cursor \in Nat /\ cursor + 1 \in Nat \ {0}
      /\ cursor + 1 \in Nat /\ cursor + 2 \in Nat \ {0} /\ 0 \in Nat
  BY DEF IInv, TypeOK, In, SkipComment, identifier, number, Fraction, string_literal
<1>2. peek # NUL => cursor <= Len(text)
  BY <1>1 DEF peek, At
<1>3. At(cursor + 1) # NUL => cursor + 1 <= Len(text)
  BY <1>1 DEF At
<1>4. CASE SkipComment
  <2>1. CASE peek \in {NUL, Newline}
    BY <1>1, <1>4, <2>1, ContinueInv DEF SkipComment
  <2>2. CASE peek \notin {NUL, Newline}
    BY <1>1, <1>2, <1>4, <2>2, ContinueInv DEF SkipComment
  <2>. QED
    BY <2>1, <2>2
<1>5. CASE identifier
  <2>. DEFINE word == SubSeq(text, start, cursor - 1)
              kind == IF word \in DOMAIN KeywordOf THEN KeywordOf[word] ELSE "Identifier"
  <2>1. kind \in Stream!Kinds
    BY CharsAssumption, KindsOfTokens DEF Stream!Kinds
  <2>2. CASE peek \in Letters
    <3>1. peek # NUL /\ Continue("identifier", cursor + 1)
      BY <1>5, <2>2, NULIsNoLetter DEF identifier
    <3>. QED
      BY <1>1, <1>2, <3>1, ContinueInv
  <2>3. CASE peek \notin Letters
    <3>1. Return(kind, start, cursor, cursor)
      BY <1>5, <2>3 DEF identifier
    <3>. QED
      BY <1>1, <2>1, <3>1, ReturnInv
  <2>. QED
    BY <2>2, <2>3
<1>6. CASE number
  <2>1. CASE peek \in Digits
    <3>1. peek # NUL /\ Continue("number", cursor + 1)
      BY <1>6, <2>1, NULIsNoLetter, CharsAssumption DEF number
    <3>. QED
      BY <1>1, <1>2, <3>1, ContinueInv
  <2>2. CASE peek \notin Digits /\ peek = "."
    <3>1. peek # NUL /\ Continue("fraction", cursor + 1)
      BY <1>6, <2>2 DEF number, NUL
    <3>. QED
      BY <1>1, <1>2, <3>1, ContinueInv
  <2>3. CASE peek \notin Digits /\ peek # "."
    <3>1. Return("Number", start, cursor, cursor)
      BY <1>6, <2>3 DEF number
    <3>. QED
      BY <1>1, <3>1, ReturnInv, KindsOfTokens
  <2>. QED
    BY <2>1, <2>2, <2>3
<1>7. CASE Fraction
  <2>1. CASE peek \in Digits
    <3>1. peek # NUL /\ Continue("fraction", cursor + 1)
      BY <1>7, <2>1, NULIsNoLetter DEF Fraction
    <3>. QED
      BY <1>1, <1>2, <3>1, ContinueInv
  <2>2. CASE peek \notin Digits
    BY <1>1, <1>7, <2>2, ReturnInv, KindsOfTokens DEF Fraction
  <2>. QED
    BY <2>1, <2>2
<1>8. CASE string_literal
  <2>. USE DEF Quote, Backslash, NUL
  <2>1. CASE peek = Quote
    <3>1. Return("StringLiteral", start, cursor, cursor + 1) /\ peek # NUL
      BY <1>8, <2>1 DEF string_literal
    <3>. QED
      BY <1>1, <1>2, <3>1, ReturnInv, KindsOfTokens
  <2>2. CASE peek = NUL
    <3>1. Return("Unexpected", start, cursor, cursor)
      BY <1>8, <2>2 DEF string_literal
    <3>. QED
      BY <1>1, <3>1, ReturnInv, KindsOfTokens
  <2>3. CASE peek = Backslash /\ At(cursor + 1) = Quote
    <3>1. Continue("string", cursor + 2) /\ At(cursor + 1) # NUL
      BY <1>8, <2>3 DEF string_literal
    <3>2. cursor + 2 <= Len(text) + 1
      BY <1>1, <1>3, <3>1
    <3>. QED
      BY <1>1, <3>1, <3>2, ContinueInv
  <2>4. CASE peek \notin {Quote, NUL} /\ ~(peek = Backslash /\ At(cursor + 1) = Quote)
    <3>1. Continue("string", cursor + 1) /\ peek # NUL
      BY <1>8, <2>4 DEF string_literal
    <3>. QED
      BY <1>1, <1>2, <3>1, ContinueInv
  <2>. QED
    BY <2>1, <2>2, <2>3, <2>4
<1>. QED
  BY <1>4, <1>5, <1>6, <1>7, <1>8

\* A dot, of a method call or not: the one step that can leave the text.
LEMMA ReadDotInv == IInv /\ ReadDot => IInv'
<1>. SUFFICES ASSUME IInv, ReadDot PROVE IInv'
  OBVIOUS
<1>1. /\ text \in Seq(Chars) /\ cursor \in Nat \ {0} /\ Len(text) \in Nat /\ cursor \in Nat
      /\ cursor + 1 \in Nat /\ cursor + 1 \in Nat \ {0} /\ cursor + 2 \in Nat
      /\ cursor + 2 \in Nat \ {0} /\ method = "next"
      /\ tokens \in Seq([kind : Stream!Kinds, from : Nat, after : Nat])
      /\ AddCall \in Seq(Chars) /\ RemoveCall \in Seq(Chars)
  BY CharsAssumption DEF IInv, TypeOK, ReadDot, In
<1>2. peek # NUL /\ peek = "."
  BY DEF ReadDot, NUL
<1>3. cursor <= Len(text) /\ peek = text[cursor]
  BY <1>1, <1>2 DEF peek, At
<1>. DEFINE at == cursor + 1
<1>4. ASSUME NEW word \in Seq(Chars), StartsAt(word, at), NEW kind \in Stream!Kinds,
             Return(kind, cursor, at + Len(word), at + Len(word))
      PROVE  IInv'
  <2>1. /\ at + Len(word) \in Nat /\ at + Len(word) \in Nat \ {0}
        /\ at + Len(word) <= Len(text) + 1
    BY <1>1, <1>4, WordsEndInTheText
  <2>. QED
    BY <1>1, <1>4, <2>1, ReturnInv
<1>5. CASE StartsAt(AddCall, at)
  <2>1. Return("ArrayAdd", cursor, at + Len(AddCall), at + Len(AddCall))
    BY <1>5 DEF ReadDot
  <2>. QED
    BY <1>1, <1>4, <1>5, <2>1, KindsOfTokens
<1>6. CASE ~StartsAt(AddCall, at) /\ StartsAt(RemoveCall, at)
  <2>1. Return("ArrayRemove", cursor, at + Len(RemoveCall), at + Len(RemoveCall))
    BY <1>6 DEF ReadDot
  <2>. QED
    BY <1>1, <1>4, <1>6, <2>1, KindsOfTokens
<1>7. CASE ~StartsAt(AddCall, at) /\ ~StartsAt(RemoveCall, at)
  <2>1. Return("Dot", at, at + 1, at + 1) /\ at + 1 = cursor + 2
    BY <1>1, <1>7 DEF ReadDot
  <2>2. CASE cursor < Len(text)
    <3>1. at + 1 <= Len(text) + 1 /\ at + 1 \in Nat \ {0} /\ at + 1 \in Nat
      BY <1>1, <2>1, <2>2
    <3>. QED
      BY <1>1, <2>1, <3>1, ReturnInv, KindsOfTokens
  <2>3. CASE cursor = Len(text)
    <3>. DEFINE token == [kind |-> "Dot", from |-> at, after |-> at + 1]
    <3>1. token \in [kind : Stream!Kinds, from : Nat, after : Nat]
      BY <1>1, <2>1, KindsOfTokens
    <3>2. /\ tokens' = Append(tokens, token) /\ method' = "idle" /\ start' = 0
          /\ cursor' = Len(text) + 2 /\ text' = text
      BY <1>1, <2>1, <2>3 DEF Return
    <3>3. /\ tokens' \in Seq([kind : Stream!Kinds, from : Nat, after : Nat])
          /\ Len(tokens') = Len(tokens) + 1 /\ Len(tokens) \in Nat
          /\ tokens'[Len(tokens) + 1] = token
      BY <1>1, <3>1, <3>2
    <3>4. TypeOK'
      BY <1>1, <3>2, <3>3 DEF IInv, TypeOK
    <3>5. CursorInText'
      <4>1. /\ Len(tokens) + 1 \in 1..Len(tokens')
            /\ tokens'[Len(tokens) + 1].kind = "Dot"
            /\ tokens'[Len(tokens) + 1].from = Len(text) + 1
        BY <3>3, <2>3
      <4>2. text # <<>> /\ text[Len(text)] = "."
        BY <1>1, <1>2, <1>3, <2>3
      <4>. QED
        BY <3>2, <4>1, <4>2 DEF CursorInText
    <3>. QED
      BY <3>4, <3>5 DEF IInv
  <2>. QED
    BY <1>1, <1>3, <2>2, <2>3
<1>. QED
  BY <1>5, <1>6, <1>7

\* Behind the text next stays where it is.
LEMMA ReadPastEndInv == IInv /\ ReadPastEnd => IInv'
<1>. SUFFICES ASSUME IInv, ReadPastEnd PROVE IInv'
  OBVIOUS
<1>1. PICK kind \in Garbage : Return(kind, cursor, cursor, cursor)
  BY DEF ReadPastEnd
<1>. DEFINE token == [kind |-> kind, from |-> cursor, after |-> cursor]
<1>2. /\ token \in [kind : Stream!Kinds, from : Nat, after : Nat]
      /\ tokens \in Seq([kind : Stream!Kinds, from : Nat, after : Nat])
  BY CharsAssumption DEF IInv, TypeOK
<1>3. /\ tokens' = Append(tokens, token) /\ method' = "idle" /\ start' = 0
      /\ cursor' = cursor /\ text' = text
  BY <1>1 DEF Return
<1>4. /\ tokens' \in Seq([kind : Stream!Kinds, from : Nat, after : Nat])
      /\ Len(tokens') = Len(tokens) + 1 /\ Len(tokens) \in Nat
      /\ \A i \in 1..Len(tokens) : tokens'[i] = tokens[i]
  BY <1>2, <1>3
<1>5. TypeOK'
  BY <1>3, <1>4 DEF IInv, TypeOK
<1>6. PICK i \in 1..Len(tokens) : tokens[i].kind = "Dot" /\ tokens[i].from = Len(text) + 1
  BY DEF ReadPastEnd, IInv, TypeOK, CursorInText
<1>7. i \in 1..Len(tokens') /\ tokens'[i] = tokens[i]
  BY <1>4
<1>8. cursor = Len(text) + 2 /\ text # <<>> /\ text[Len(text)] = "."
  BY DEF ReadPastEnd, IInv, TypeOK, CursorInText
<1>9. CursorInText'
  BY <1>3, <1>6, <1>7, <1>8 DEF CursorInText
<1>. QED
  BY <1>5, <1>9 DEF IInv

LEMMA NextInv == IInv /\ [Next]_vars => IInv'
<1>. SUFFICES ASSUME IInv, [Next]_vars PROVE IInv'
  OBVIOUS
<1>1. CASE Call
  BY <1>1 DEF Call, IInv, TypeOK, CursorInText
<1>2. CASE UNCHANGED vars
  BY <1>2 DEF vars, IInv, TypeOK, CursorInText
<1>3. CASE \/ SkipSpace \/ ReadEnd \/ ReadAtom \/ ReadPair \/ slash_or_comment
           \/ EnterIdentifier \/ EnterNumber \/ EnterString \/ ReadUnexpected
  BY <1>3, NextStepsInv
<1>4. CASE SkipComment \/ identifier \/ number \/ Fraction \/ string_literal
  BY <1>4, LoopsInv
<1>5. CASE ReadDot
  BY <1>5, ReadDotInv
<1>6. CASE ReadPastEnd
  BY <1>6, ReadPastEndInv
<1>. QED
  BY <1>1, <1>2, <1>3, <1>4, <1>5, <1>6 DEF Next, Step, Rest

LEMMA InitInv == Init => IInv
<1>. SUFFICES ASSUME Init PROVE IInv
  OBVIOUS
<1>1. text \in Seq(Chars) /\ Len(text) \in Nat
  BY CharsAssumption DEF Init
<1>. QED
  BY <1>1 DEF Init, IInv, TypeOK, CursorInText

\* What the theorems below are read off.
THEOREM LexerInvariant == Spec => []IInv
BY InitInv, NextInv, PTL DEF Spec

\* Every token has a kind that the parser knows.
THEOREM LexerTypeCorrect == Spec => []TypeOK
<1>1. IInv => TypeOK
  BY DEF IInv
<1>. QED
  BY LexerInvariant, <1>1, PTL

\* The lexer looks behind its text after a dot that ends it, and in no other way,
\* whatever the text is.
THEOREM CursorStaysInText == Spec => []CursorInText
<1>1. IInv => CursorInText
  BY DEF IInv
<1>. QED
  BY LexerInvariant, <1>1, PTL
-----------------------------------------------------------------------------
(***************************************************************************)
(* The promise of TokenStream.                                             *)
(***************************************************************************)
Token == [kind : Stream!Kinds, from : Nat, after : Nat]

NoDot == \A i \in 1..Len(tokens) : tokens[i].kind # "Dot"

\* Where next returns without having moved.
AtStop == peek = NUL \/ peek \in Unknown

\* After an End the cursor is at the null character and after an Unexpected at
\* what caused it; two in a row come from an unknown character, as a string that
\* is not closed causes one only.
StaysAtStops ==
  LET n == Len(tokens)
  IN  NoDot /\ n > 0 =>
        /\ tokens[n].kind = "End" => method \in {"idle", "next"} /\ peek = NUL
        /\ tokens[n].kind = "Unexpected" => method \in {"idle", "next"} /\ AtStop
        /\ tokens[n].kind = "Unexpected" /\ n > 1 /\ tokens[n-1].kind = "Unexpected"
             => peek \in Unknown
-----------------------------------------------------------------------------
(***************************************************************************)
(* The steps of next, by what shows.                                       *)
(***************************************************************************)
\* A turn of a loop, or the way into one.
Turn == /\ UNCHANGED <<text, tokens>> /\ method # "idle" /\ method' # "idle"
        /\ method = "next" => ~AtStop

\* A token that takes characters.
Takes(kind) == /\ kind \notin {"End", "Unexpected"}
               /\ method = "next" => ~AtStop

\* A token that does not.
Stops(kind) == \/ kind = "End" /\ method = "next" /\ peek = NUL
               \/ kind = "Unexpected" /\ method = "next" /\ peek \in Unknown
               \/ kind = "Unexpected" /\ method = "string" /\ peek = NUL

Returns == \E kind \in Stream!Kinds, from, after, to \in Nat :
             /\ Return(kind, from, after, to) /\ method # "idle"
             /\ \/ Takes(kind)
                \/ Stops(kind) /\ to = cursor
                \/ ~NoDot

LEMMA StopsAreNoStarts ==
  /\ \A c \in Letters \cup Digits \cup Atoms \cup Space \cup {Quote, ".", "/"} :
       c \notin Unknown /\ c # NUL
<1>1. \A c \in Letters \cup Digits : c \notin Unknown /\ c # NUL
  BY CharsAssumption
<1>2. \A S \in {Atoms, Space, {Quote}, {"."}, {"/"}} : S \cap Unknown = {}
  BY CharsAssumption
<1>3. \A c \in Atoms \cup Space \cup {Quote, ".", "/"} : c \notin Unknown
  BY <1>2
<1>4. \A c \in Atoms \cup Space \cup {Quote, ".", "/"} : c # NUL
  BY DEF Atoms, Space, Blank, Newline, Quote, NUL
<1>. QED  BY <1>1, <1>3, <1>4

LEMMA TakingKinds ==
  /\ {"Slash", "ArrayAdd", "ArrayRemove", "Dot", "Identifier", "Number",
      "FloatLiteral", "StringLiteral", "LessThanEqual", "GreaterThanEqual",
      "Arrow"} \cap {"End", "Unexpected"} = {}
  /\ \A c \in Atoms : AtomKind(c) \notin {"End", "Unexpected"}
  /\ \A word \in DOMAIN KeywordOf : KeywordOf[word] \notin {"End", "Unexpected"}
<1>1. ASSUME NEW c \in Atoms PROVE AtomKind(c) \in Stream!AtomKinds
  BY <1>1, ZenonT(60) DEF Atoms, AtomKind, Stream!AtomKinds
<1>2. {"End", "Unexpected"} \cap (Stream!AtomKinds \cup Stream!KeywordKinds) = {}
  BY DEF Stream!AtomKinds, Stream!KeywordKinds
<1>3. \A word \in DOMAIN KeywordOf : KeywordOf[word] \in Stream!KeywordKinds
  BY CharsAssumption
<1>. QED  BY <1>1, <1>2, <1>3

LEMMA TurnFacts ==
  ASSUME NEW m, NEW from, NEW to, Continue(m, to) \/ Enter(m, from, to),
         m # "idle", method # "idle", method = "next" => ~AtStop
  PROVE  Turn
BY DEF Continue, Enter, Turn

LEMMA TakesFacts ==
  ASSUME NEW kind \in Stream!Kinds, NEW from \in Nat, NEW after \in Nat, NEW to \in Nat,
         Return(kind, from, after, to), method # "idle", Takes(kind)
  PROVE  Returns
BY DEF Returns

\* Between tokens.
LEMMA NextStepsShow ==
  ASSUME IInv, \/ SkipSpace \/ ReadEnd \/ ReadAtom \/ ReadPair \/ slash_or_comment
               \/ EnterIdentifier \/ EnterNumber \/ EnterString \/ ReadUnexpected
  PROVE  Turn \/ Returns
<1>1. /\ cursor \in Nat /\ cursor + 1 \in Nat /\ cursor + 2 \in Nat
      /\ method = "next"
  BY DEF IInv, TypeOK, In, SkipSpace, ReadEnd, ReadAtom, ReadPair, slash_or_comment,
    EnterIdentifier, EnterNumber, EnterString, ReadUnexpected
<1>2. ASSUME peek \in Letters \cup Digits \cup Atoms \cup Space \cup {Quote, ".", "/"}
      PROVE  ~AtStop
  BY <1>2, StopsAreNoStarts DEF AtStop
<1>3. CASE SkipSpace
  BY <1>1, <1>2, <1>3, TurnFacts DEF SkipSpace
<1>4. CASE ReadEnd
  BY <1>1, <1>4, KindsOfTokens DEF ReadEnd, Returns, Stops
<1>5. CASE ReadAtom
  <2>. DEFINE kind == AtomKind(peek)
  <2>1. /\ kind \in Stream!Kinds /\ Takes(kind)
        /\ Return(kind, cursor, cursor + 1, cursor + 1)
    BY <1>2, <1>5, KindsOfTokens, TakingKinds DEF ReadAtom, Takes
  <2>. QED  BY <1>1, <2>1, TakesFacts
<1>6. CASE ReadPair
  <2>. DEFINE kind == PairKind(peek, At(cursor + 1))
  <2>1. kind \in {"LessThanEqual", "GreaterThanEqual", "Arrow"} /\ peek \in {"<", ">", "-"}
    BY <1>6 DEF ReadPair, PairKind
  <2>2. kind \in Stream!Kinds /\ Takes(kind)
    BY <1>2, <2>1, KindsOfTokens DEF Takes, Atoms
  <2>3. Return(kind, cursor, cursor + 2, cursor + 2)
    BY <1>6 DEF ReadPair
  <2>. QED  BY <1>1, <2>2, <2>3, TakesFacts
<1>7. CASE slash_or_comment
  <2>1. ~AtStop
    BY <1>2, <1>7 DEF slash_or_comment
  <2>2. CASE At(cursor + 1) = "/"
    BY <1>1, <1>7, <2>1, <2>2, TurnFacts DEF slash_or_comment
  <2>3. CASE At(cursor + 1) # "/"
    BY <1>1, <1>7, <2>1, <2>3, TakesFacts, KindsOfTokens DEF slash_or_comment, Takes
  <2>. QED  BY <2>2, <2>3
<1>8. CASE EnterIdentifier
  BY <1>1, <1>2, <1>8, TurnFacts DEF EnterIdentifier
<1>9. CASE EnterNumber
  BY <1>1, <1>2, <1>9, TurnFacts DEF EnterNumber
<1>10. CASE EnterString
  BY <1>1, <1>2, <1>10, TurnFacts DEF EnterString
<1>11. CASE ReadUnexpected
  BY <1>1, <1>11, KindsOfTokens DEF ReadUnexpected, Returns, Stops
<1>. QED  BY <1>3, <1>4, <1>5, <1>6, <1>7, <1>8, <1>9, <1>10, <1>11

\* Inside a token or a comment.
LEMMA LoopsShow ==
  ASSUME IInv, SkipComment \/ identifier \/ number \/ Fraction \/ string_literal
  PROVE  Turn \/ Returns
<1>1. /\ cursor \in Nat /\ start \in Nat /\ cursor + 1 \in Nat
      /\ method \in {"comment", "identifier", "number", "fraction", "string"}
  BY DEF IInv, TypeOK, In, SkipComment, identifier, number, Fraction, string_literal
<1>2. method \notin {"idle", "next"}
  BY <1>1
<1>3. CASE SkipComment
  <2>1. Continue("next", cursor) \/ Continue("comment", cursor + 1)
    BY <1>3 DEF SkipComment
  <2>. QED  BY <1>2, <2>1, TurnFacts
<1>4. CASE identifier
  <2>. DEFINE word == SubSeq(text, start, cursor - 1)
              kind == IF word \in DOMAIN KeywordOf THEN KeywordOf[word] ELSE "Identifier"
  <2>1. kind \in Stream!Kinds /\ kind \notin {"End", "Unexpected"}
    BY CharsAssumption, KindsOfTokens, TakingKinds DEF Stream!Kinds
  <2>2. Continue("identifier", cursor + 1) \/ Return(kind, start, cursor, cursor)
    BY <1>4 DEF identifier
  <2>. HIDE DEF kind
  <2>. QED  BY <1>1, <1>2, <2>1, <2>2, TurnFacts, TakesFacts DEF Takes
<1>5. CASE number
  <2>1. \/ Continue("number", cursor + 1) \/ Continue("fraction", cursor + 1)
        \/ Return("Number", start, cursor, cursor)
    BY <1>5 DEF number
  <2>. QED  BY <1>1, <1>2, <2>1, TurnFacts, TakesFacts, KindsOfTokens DEF Takes
<1>6. CASE Fraction
  <2>1. Continue("fraction", cursor + 1) \/ Return("FloatLiteral", start, cursor, cursor)
    BY <1>6 DEF Fraction
  <2>. QED  BY <1>1, <1>2, <2>1, TurnFacts, TakesFacts, KindsOfTokens DEF Takes
<1>7. CASE string_literal
  <2>1. \/ Continue("string", cursor + 2) \/ Continue("string", cursor + 1)
        \/ Return("StringLiteral", start, cursor, cursor + 1)
        \/ Return("Unexpected", start, cursor, cursor) /\ peek = NUL /\ method = "string"
    BY <1>7 DEF string_literal, In
  <2>2. CASE Return("Unexpected", start, cursor, cursor) /\ peek = NUL /\ method = "string"
    BY <1>1, <2>2, KindsOfTokens DEF Returns, Stops
  <2>. QED  BY <1>1, <1>2, <2>1, <2>2, TurnFacts, TakesFacts, KindsOfTokens DEF Takes
<1>. QED  BY <1>3, <1>4, <1>5, <1>6, <1>7

LEMMA DotShows == IInv /\ ReadDot => Returns
<1>. SUFFICES ASSUME IInv, ReadDot PROVE Returns
  OBVIOUS
<1>. DEFINE at == cursor + 1
<1>1. /\ cursor \in Nat /\ at \in Nat /\ at + 1 \in Nat /\ method = "next"
      /\ at + Len(AddCall) \in Nat /\ at + Len(RemoveCall) \in Nat
  BY CharsAssumption DEF IInv, TypeOK, ReadDot, In
<1>2. ~AtStop
  BY StopsAreNoStarts DEF ReadDot, AtStop
<1>3. \/ Return("ArrayAdd", cursor, at + Len(AddCall), at + Len(AddCall))
      \/ Return("ArrayRemove", cursor, at + Len(RemoveCall), at + Len(RemoveCall))
      \/ Return("Dot", at, at + 1, at + 1)
  BY DEF ReadDot
<1>4. \A kind \in {"ArrayAdd", "ArrayRemove", "Dot"} : kind \in Stream!Kinds /\ Takes(kind)
  BY <1>2, KindsOfTokens DEF Takes
<1>. HIDE DEF at
<1>. QED  BY <1>1, <1>3, <1>4, TakesFacts

\* Behind the text a Dot has been returned.
LEMMA PastEndShows == IInv /\ ReadPastEnd => Returns
<1>. SUFFICES ASSUME IInv, ReadPastEnd PROVE Returns
  OBVIOUS
<1>1. PICK kind \in Garbage : Return(kind, cursor, cursor, cursor)
  BY DEF ReadPastEnd
<1>2. kind \in Stream!Kinds /\ cursor \in Nat /\ method # "idle"
  BY CharsAssumption DEF IInv, TypeOK, ReadPastEnd
<1>3. ~NoDot
  BY DEF ReadPastEnd, IInv, CursorInText, NoDot, TypeOK
<1>. QED  BY <1>1, <1>2, <1>3 DEF Returns

LEMMA StepShows ==
  ASSUME IInv, [Next]_vars
  PROVE  Turn \/ Returns \/ Call \/ UNCHANGED vars
BY NextStepsShow, LoopsShow, DotShows, PastEndShows DEF Next, Step, Rest

\* What a returned token does to the sequence of tokens.
LEMMA ReturnFacts ==
  ASSUME IInv, NEW kind \in Stream!Kinds, NEW from \in Nat, NEW after \in Nat, NEW to,
         Return(kind, from, after, to)
  PROVE  /\ Len(tokens) \in Nat /\ Len(tokens') = Len(tokens) + 1
         /\ \A i \in 1..Len(tokens) : tokens'[i] = tokens[i]
         /\ tokens'[Len(tokens) + 1].kind = kind
         /\ method' = "idle" /\ cursor' = to /\ text' = text
<1>. DEFINE token == [kind |-> kind, from |-> from, after |-> after]
<1>1. token \in Token /\ tokens \in Seq(Token)
  BY DEF Token, IInv, TypeOK
<1>2. /\ tokens' = Append(tokens, token)
      /\ method' = "idle" /\ cursor' = to /\ text' = text
  BY DEF Return
<1>3. token.kind = kind
  OBVIOUS
<1>. HIDE DEF token
<1>4. /\ Len(tokens) \in Nat /\ Len(tokens') = Len(tokens) + 1
      /\ \A i \in 1..Len(tokens) : tokens'[i] = tokens[i]
      /\ tokens'[Len(tokens) + 1] = token
  BY <1>1, <1>2, AppendProperties, LenProperties
<1>. QED  BY <1>2, <1>3, <1>4
-----------------------------------------------------------------------------
(***************************************************************************)
(* The invariant and the refinement.                                       *)
(***************************************************************************)
LEMMA StaysInit == Init => StaysAtStops
<1>. SUFFICES ASSUME Init PROVE StaysAtStops
  OBVIOUS
<1>1. Len(tokens) = 0
  BY EmptySeq DEF Init
<1>. QED  BY <1>1 DEF StaysAtStops

LEMMA PeekKept == text' = text /\ cursor' = cursor => peek' = peek
BY DEF peek, At

LEMMA StaysStep ==
  ASSUME IInv, StaysAtStops, [Next]_vars
  PROVE  StaysAtStops'
<1>1. CASE UNCHANGED vars
  BY <1>1 DEF vars, StaysAtStops, NoDot, AtStop, peek, At
<1>2. CASE Call
  <2>1. /\ tokens' = tokens /\ method' = "next" /\ peek' = peek
    BY <1>2, PeekKept DEF Call
  <2>. QED  BY <2>1 DEF StaysAtStops, NoDot, AtStop
<1>3. CASE Turn
  <2>1. tokens' = tokens /\ method # "idle" /\ (method = "next" => ~AtStop)
    BY <1>3 DEF Turn
  <2>2. ~(/\ NoDot /\ Len(tokens) > 0
          /\ tokens[Len(tokens)].kind \in {"End", "Unexpected"})
    BY <2>1 DEF StaysAtStops, AtStop
  <2>. QED  BY <2>1, <2>2 DEF StaysAtStops, NoDot
<1>4. CASE Returns
  <2>1. PICK kind \in Stream!Kinds, from, after, to \in Nat :
          /\ Return(kind, from, after, to) /\ method # "idle"
          /\ Takes(kind) \/ (Stops(kind) /\ to = cursor) \/ ~NoDot
    BY <1>4 DEF Returns
  <2>2. /\ Len(tokens) \in Nat /\ Len(tokens') = Len(tokens) + 1
        /\ \A i \in 1..Len(tokens) : tokens'[i] = tokens[i]
        /\ tokens'[Len(tokens) + 1].kind = kind
        /\ method' = "idle" /\ cursor' = to /\ text' = text
    BY <2>1, ReturnFacts
  <2>3. NoDot' => NoDot
    BY <2>2 DEF NoDot
  <2>4. CASE Takes(kind) \/ ~NoDot
    BY <2>2, <2>3, <2>4 DEF StaysAtStops, Takes
  <2>5. CASE Stops(kind) /\ to = cursor
    <3>1. peek' = peek
      BY <2>2, <2>5, PeekKept
    <3>2. tokens'[Len(tokens')].kind = kind /\ method' = "idle"
      BY <2>2
    <3>3. kind = "End" => peek' = NUL
      BY <2>5, <3>1 DEF Stops
    <3>4. kind = "Unexpected" => AtStop'
      BY <2>5, <3>1 DEF Stops, AtStop
    <3>5. ASSUME NoDot, kind = "Unexpected", Len(tokens') > 1,
                 tokens'[Len(tokens') - 1].kind = "Unexpected"
          PROVE  peek' \in Unknown
      <4>1. Len(tokens) > 0 /\ tokens[Len(tokens)].kind = "Unexpected"
        BY <2>2, <3>5
      <4>2. method \in {"idle", "next"}
        BY <3>5, <4>1 DEF StaysAtStops
      <4>. QED  BY <2>5, <3>1, <3>5, <4>2 DEF Stops
    <3>. QED  BY <2>3, <3>2, <3>3, <3>4, <3>5 DEF StaysAtStops
  <2>. QED  BY <2>1, <2>4, <2>5
<1>. QED  BY <1>1, <1>2, <1>3, <1>4, StepShows

\* The kinds that the promise speaks about.
KindsOf(ts) == [i \in 1..Len(ts) |-> ts[i].kind]

LEMMA KindsFacts ==
  ASSUME NEW ts \in Seq(Token)
  PROVE  /\ KindsOf(ts) \in Seq(Stream!Kinds)
         /\ Len(KindsOf(ts)) = Len(ts)
         /\ \A i \in 1..Len(ts) : KindsOf(ts)[i] = ts[i].kind
<1>1. Len(ts) \in Nat
  BY LenProperties
<1>2. \A i \in 1..Len(ts) : ts[i] \in Token
  BY ElementOfSeq
<1>3. \A i \in 1..Len(ts) : ts[i].kind \in Stream!Kinds
  BY <1>2 DEF Token
<1>. HIDE DEF Token
<1>4. KindsOf(ts) \in [1..Len(ts) -> Stream!Kinds]
  BY <1>3 DEF KindsOf
<1>5. KindsOf(ts) \in Seq(Stream!Kinds) /\ Len(KindsOf(ts)) = Len(ts)
  BY <1>1, <1>4
<1>. QED  BY <1>5 DEF KindsOf

\* A token more is a kind more.
LEMMA KindsGrow ==
  ASSUME NEW ts \in Seq(Token), NEW token \in Token
  PROVE  KindsOf(Append(ts, token)) = Append(KindsOf(ts), token.kind)
<1>. DEFINE r == Append(ts, token)
            k == Append(KindsOf(ts), token.kind)
<1>1. /\ Len(ts) \in Nat /\ r \in Seq(Token) /\ Len(r) = Len(ts) + 1
      /\ \A i \in 1..Len(ts) : r[i] = ts[i]
      /\ r[Len(ts) + 1] = token
  BY AppendProperties, LenProperties
<1>2. token.kind \in Stream!Kinds
  BY DEF Token
<1>3. /\ k \in Seq(Stream!Kinds) /\ Len(k) = Len(ts) + 1
      /\ \A i \in 1..Len(ts) : k[i] = ts[i].kind
      /\ k[Len(ts) + 1] = token.kind
  BY <1>2, KindsFacts, AppendProperties
<1>4. /\ KindsOf(r) \in Seq(Stream!Kinds) /\ Len(KindsOf(r)) = Len(r)
      /\ \A i \in 1..Len(r) : KindsOf(r)[i] = r[i].kind
  BY <1>1, KindsFacts
<1>. HIDE DEF r, k
<1>5. \A i \in 1..Len(KindsOf(r)) : KindsOf(r)[i] = k[i]
  BY <1>1, <1>3, <1>4
<1>6. KindsOf(r) = k
  BY <1>1, <1>3, <1>4, <1>5, SeqEqual
<1>. QED  BY <1>6 DEF r, k

\* The kind of every token may come where it comes.
LEMMA ReturnedMayFollow ==
  ASSUME IInv, StaysAtStops, NEW kind \in Stream!Kinds, method # "idle",
         Takes(kind) \/ Stops(kind) \/ ~NoDot
  PROVE  Stream!MayFollow(KindsOf(tokens), kind)
<1>. DEFINE n  == Len(tokens)
            ks == KindsOf(tokens)
<1>1. n \in Nat /\ Len(ks) = n /\ \A i \in 1..n : ks[i] = tokens[i].kind
  <2>1. tokens \in Seq(Token)
    BY DEF Token, IInv, TypeOK
  <2>. QED  BY <2>1, KindsFacts, LenProperties
<1>. HIDE DEF ks
<1>. SUFFICES Stream!MayFollow(ks, kind)
  BY DEF ks
<1>2. CASE ~NoDot
  <2>1. PICK i \in 1..n : ks[i] = "Dot"
    BY <1>1, <1>2 DEF NoDot
  <2>. QED  BY <1>1, <2>1 DEF Stream!MayFollow
<1>3. CASE NoDot
  <2>1. ASSUME n > 0, ks[n] = "End"
        PROVE  kind = "End"
    <3>1. tokens[n].kind = "End"
      BY <1>1, <2>1
    <3>2. method = "next" /\ peek = NUL
      BY <1>3, <2>1, <3>1 DEF StaysAtStops
    <3>3. NUL \notin Unknown
      BY NULIsNoLetter
    <3>. QED  BY <1>3, <3>2, <3>3 DEF Takes, Stops, AtStop
  <2>2. ASSUME n > 0, ks[n] = "Unexpected"
        PROVE  \/ kind = "Unexpected"
               \/ kind = "End" /\ ~(n > 1 /\ ks[n-1] = "Unexpected")
    <3>1. tokens[n].kind = "Unexpected"
      BY <1>1, <2>2
    <3>2. method = "next" /\ AtStop
      BY <1>3, <2>2, <3>1 DEF StaysAtStops
    <3>3. Stops(kind)
      BY <1>3, <3>2 DEF Takes
    <3>4. CASE n > 1 /\ ks[n-1] = "Unexpected"
      <4>1. tokens[n-1].kind = "Unexpected"
        BY <1>1, <3>4
      <4>2. peek \in Unknown
        BY <1>3, <2>2, <3>1, <3>4, <4>1 DEF StaysAtStops
      <4>. QED  BY <3>2, <3>3, <4>2, NULIsNoLetter DEF Stops
    <3>. QED  BY <3>2, <3>3, <3>4 DEF Stops
  <2>. QED  BY <1>1, <2>1, <2>2 DEF Stream!MayFollow
<1>. QED  BY <1>2, <1>3

LEMMA StreamInit == Init => Stream!Init
<1>. SUFFICES ASSUME Init PROVE Stream!Init
  OBVIOUS
<1>1. tokens = <<>> /\ method = "idle"
  BY DEF Init
<1>2. KindsOf(tokens) = <<>>
  BY <1>1 DEF KindsOf
<1>. QED  BY <1>1, <1>2 DEF Stream!Init, KindsOf

LEMMA StreamStep ==
  ASSUME IInv, StaysAtStops, [Next]_vars
  PROVE  [Stream!Next]_(Stream!vars)
<1>1. CASE UNCHANGED vars
  <2>1. tokens' = tokens /\ method' = method
    BY <1>1 DEF vars
  <2>. QED  BY <2>1 DEF Stream!vars
<1>2. CASE Turn
  <2>1. tokens' = tokens /\ method # "idle" /\ method' # "idle"
    BY <1>2 DEF Turn
  <2>. QED  BY <2>1 DEF Stream!vars
<1>3. CASE Call
  <2>1. tokens' = tokens /\ method = "idle" /\ method' = "next"
    BY <1>3 DEF Call
  <2>2. Stream!Request
    BY <2>1 DEF Stream!Request
  <2>. QED  BY <2>2 DEF Stream!Next
<1>4. CASE Returns
  <2>1. PICK kind \in Stream!Kinds, from, after, to \in Nat :
          /\ Return(kind, from, after, to) /\ method # "idle"
          /\ Takes(kind) \/ (Stops(kind) /\ to = cursor) \/ ~NoDot
    BY <1>4 DEF Returns
  <2>. DEFINE token == [kind |-> kind, from |-> from, after |-> after]
  <2>2. /\ tokens' = Append(tokens, token) /\ method' = "idle"
        /\ token \in Token /\ tokens \in Seq(Token) /\ token.kind = kind
    BY <2>1 DEF Return, Token, IInv, TypeOK
  <2>. HIDE DEF token
  <2>3. KindsOf(tokens') = Append(KindsOf(tokens), kind)
    BY <2>2, KindsGrow
  <2>4. Stream!MayFollow(KindsOf(tokens), kind)
    BY <2>1, ReturnedMayFollow
  <2>5. Stream!Reply
    BY <2>1, <2>2, <2>3, <2>4 DEF Stream!Reply, KindsOf
  <2>. QED  BY <2>5 DEF Stream!Next
<1>. QED  BY <1>1, <1>2, <1>3, <1>4, StepShows

\* What the parser is told about a text is what TokenStream promises: each
\* token is of a kind that may follow those before it, whatever the text; the
\* end comes for ever once it has come, and so does an unknown character.
THEOREM LexerKeepsThePromise ==
  Spec => Stream!Init /\ [][Stream!Next]_(Stream!vars)
<1>1. IInv /\ StaysAtStops /\ [Next]_vars => (IInv /\ StaysAtStops)'
  BY NextInv, StaysStep
<1>2. Init => IInv /\ StaysAtStops
  BY InitInv, StaysInit
<1>3. Spec => [](IInv /\ StaysAtStops)
  BY <1>1, <1>2, PTL DEF Spec
<1>4. IInv /\ StaysAtStops /\ [Next]_vars => [Stream!Next]_(Stream!vars)
  BY StreamStep
<1>. QED  BY <1>3, <1>4, StreamInit, PTL DEF Spec
-----------------------------------------------------------------------------
(***************************************************************************)
(* Tokens as long as can be.                                               *)
(***************************************************************************)
\* What a string literal under way has behind it: every quote in it has a
\* backslash before it, and no backslash waits for the quote at the cursor.
StringSoFar ==
  method = "string" =>
    /\ start >= 1 /\ start <= cursor
    /\ \A p \in start..cursor - 1 : text[p] = Quote => p > start /\ text[p - 1] = Backslash
    /\ cursor > start /\ text[cursor - 1] = Backslash => peek # Quote

LongInv == IInv /\ LongestMatch /\ StringSoFar

Words == {"Identifier"} \cup {KeywordOf[w] : w \in DOMAIN KeywordOf}

\* The kinds that have something to say about what follows.
Extensible == Words \cup {"Number", "FloatLiteral", "LessThan", "GreaterThan", "Minus",
                          "Slash", "StringLiteral"}

\* No kind that is not a word's is one, and an atom's tells its character.
LEMMA KindsTellApart ==
  /\ \A k \in {"Number", "FloatLiteral", "LessThan", "GreaterThan", "Minus", "Slash",
               "StringLiteral", "ArrayAdd", "ArrayRemove", "Dot", "End", "Unexpected",
               "LessThanEqual", "GreaterThanEqual", "Arrow"} : k \notin Words
  /\ \A c \in Atoms : /\ AtomKind(c) \notin Words
                      /\ AtomKind(c) \notin {"Number", "FloatLiteral", "Slash", "StringLiteral"}
                      /\ AtomKind(c) = "LessThan" => c = "<"
                      /\ AtomKind(c) = "GreaterThan" => c = ">"
                      /\ AtomKind(c) = "Minus" => c = "-"
<1>1. Words \subseteq {"Identifier"} \cup Stream!KeywordKinds
  BY CharsAssumption DEF Words
<1>2. ASSUME NEW c \in Atoms PROVE AtomKind(c) \in Stream!AtomKinds
  BY <1>2, ZenonT(60) DEF Atoms, AtomKind, Stream!AtomKinds
<1>3. /\ Stream!AtomKinds \cap ({"Identifier"} \cup Stream!KeywordKinds) = {}
      /\ Stream!AtomKinds \cap {"Number", "FloatLiteral", "Slash", "StringLiteral"} = {}
  BY DEF Stream!AtomKinds, Stream!KeywordKinds
<1>4. {"Number", "FloatLiteral", "LessThan", "GreaterThan", "Minus", "Slash", "StringLiteral",
       "ArrayAdd", "ArrayRemove", "Dot", "End", "Unexpected", "LessThanEqual",
       "GreaterThanEqual", "Arrow"} \cap ({"Identifier"} \cup Stream!KeywordKinds) = {}
  BY DEF Stream!KeywordKinds
<1>5. ASSUME NEW c \in Atoms
      PROVE  /\ AtomKind(c) = "LessThan" => c = "<"
             /\ AtomKind(c) = "GreaterThan" => c = ">"
             /\ AtomKind(c) = "Minus" => c = "-"
  BY <1>5, ZenonT(60) DEF Atoms, AtomKind
<1>. QED  BY <1>1, <1>2, <1>3, <1>4, <1>5

\* Whether a token is as long as can be is a matter of the text.
LEMMA LongestKept ==
  ASSUME text' = text
  PROVE  \A t : IsLongest(t) => IsLongest(t)'
BY DEF IsLongest, At

\* A turn of a loop that is not a string's.
LEMMA LongTurn ==
  ASSUME LongInv, text' = text, tokens' = tokens, method' # "string"
  PROVE  LongestMatch' /\ StringSoFar'
BY LongestKept DEF LongInv, LongestMatch, StringSoFar

LEMMA LongReturn ==
  ASSUME LongInv, NEW kind \in Stream!Kinds, NEW from \in Nat, NEW after \in Nat, NEW to,
         Return(kind, from, after, to),
         after <= Len(text) + 1 => IsLongest([kind |-> kind, from |-> from, after |-> after])
  PROVE  LongestMatch' /\ StringSoFar'
<1>. DEFINE token == [kind |-> kind, from |-> from, after |-> after]
<1>1. /\ tokens' = Append(tokens, token) /\ text' = text /\ method' = "idle"
      /\ token \in Token /\ tokens \in Seq(Token) /\ token.after = after
  BY DEF Return, LongInv, IInv, TypeOK, Token
<1>2. after <= Len(text) + 1 => IsLongest(token)
  OBVIOUS
<1>. HIDE DEF token
<1>3. /\ Len(tokens) \in Nat /\ Len(tokens') = Len(tokens) + 1
      /\ \A i \in 1..Len(tokens) : tokens'[i] = tokens[i]
      /\ tokens'[Len(tokens) + 1] = token
  BY <1>1, AppendProperties, LenProperties
<1>4. ASSUME NEW i \in 1..Len(tokens'), tokens'[i].after <= Len(text) + 1
      PROVE  IsLongest(tokens'[i])
  <2>1. CASE i \in 1..Len(tokens)
    <3>1. tokens'[i] = tokens[i]
      BY <1>3, <2>1
    <3>. QED  BY <1>4, <2>1, <3>1 DEF LongInv, LongestMatch
  <2>2. CASE i = Len(tokens) + 1
    BY <1>1, <1>2, <1>3, <1>4, <2>2
  <2>. QED  BY <1>3, <2>1, <2>2
<1>5. LongestMatch'
  BY <1>1, <1>4, LongestKept DEF LongestMatch
<1>. QED  BY <1>1, <1>5 DEF StringSoFar

\* A kind with nothing to say.
LEMMA NothingFollows ==
  ASSUME NEW t, t.kind \notin Extensible
  PROVE  IsLongest(t)
BY DEF IsLongest, Extensible, Words

LEMMA LongNext ==
  ASSUME LongInv, \/ SkipSpace \/ ReadEnd \/ ReadAtom \/ ReadPair \/ slash_or_comment
                  \/ EnterIdentifier \/ EnterNumber \/ EnterString \/ ReadUnexpected
  PROVE  LongestMatch' /\ StringSoFar'
<1>1. /\ cursor \in Nat /\ cursor + 1 \in Nat /\ cursor + 2 \in Nat /\ cursor >= 1
      /\ text \in Seq(Chars) /\ IInv
  BY DEF LongInv, IInv, TypeOK
<1>2. CASE SkipSpace \/ EnterIdentifier \/ EnterNumber
  <2>1. text' = text /\ tokens' = tokens /\ method' # "string"
    BY <1>2 DEF SkipSpace, EnterIdentifier, EnterNumber, Continue, Enter
  <2>. QED  BY <2>1, LongTurn
<1>3. CASE ReadEnd \/ ReadUnexpected
  <2>1. PICK kind \in {"End", "Unexpected"} : Return(kind, cursor, cursor + 1, cursor)
    BY <1>3 DEF ReadEnd, ReadUnexpected
  <2>. DEFINE t == [kind |-> kind, from |-> cursor, after |-> cursor + 1]
  <2>2. t.kind \notin Extensible /\ kind \in Stream!Kinds
    BY KindsTellApart, KindsOfTokens DEF Extensible
  <2>3. IsLongest(t)
    BY <2>2, NothingFollows
  <2>. QED  BY <1>1, <2>1, <2>2, <2>3, LongReturn
<1>4. CASE ReadAtom
  <2>. DEFINE kind == AtomKind(peek)
              t == [kind |-> kind, from |-> cursor, after |-> cursor + 1]
  <2>1. /\ peek \in Atoms /\ PairKind(peek, At(cursor + 1)) = "none"
        /\ Return(kind, cursor, cursor + 1, cursor + 1)
    BY <1>4 DEF ReadAtom
  <2>2. /\ kind \in Stream!Kinds /\ kind \notin Words
        /\ kind \notin {"Number", "FloatLiteral", "Slash", "StringLiteral"}
    BY <2>1, KindsOfTokens, KindsTellApart
  <2>3. /\ kind = "LessThan" => peek = "<"
        /\ kind = "GreaterThan" => peek = ">"
        /\ kind = "Minus" => peek = "-"
    BY <2>1, KindsTellApart
  <2>4. /\ kind \in {"LessThan", "GreaterThan"} => At(cursor + 1) # "="
        /\ kind = "Minus" => At(cursor + 1) # ">"
    BY <2>1, <2>3 DEF PairKind
  <2>5. t.kind = kind /\ t.after = cursor + 1
    OBVIOUS
  <2>6. IsLongest(t)
    <3>. HIDE DEF t, kind
    <3>. QED  BY <2>2, <2>4, <2>5 DEF IsLongest, Words
  <2>. QED  BY <1>1, <2>1, <2>2, <2>6, LongReturn
<1>5. CASE ReadPair
  <2>. DEFINE kind == PairKind(peek, At(cursor + 1))
              t == [kind |-> kind, from |-> cursor, after |-> cursor + 2]
  <2>1. /\ kind \in {"LessThanEqual", "GreaterThanEqual", "Arrow"}
        /\ Return(kind, cursor, cursor + 2, cursor + 2)
    BY <1>5 DEF ReadPair, PairKind
  <2>2. t.kind = kind
    OBVIOUS
  <2>. HIDE DEF kind
  <2>3. t.kind \notin Extensible /\ kind \in Stream!Kinds
    BY <2>1, <2>2, KindsTellApart, KindsOfTokens DEF Extensible
  <2>4. IsLongest(t)
    BY <2>3, NothingFollows
  <2>. QED  BY <1>1, <2>1, <2>3, <2>4, LongReturn
<1>6. CASE slash_or_comment
  <2>1. CASE At(cursor + 1) = "/"
    <3>1. text' = text /\ tokens' = tokens /\ method' # "string"
      BY <1>6, <2>1 DEF slash_or_comment, Continue
    <3>. QED  BY <3>1, LongTurn
  <2>2. CASE At(cursor + 1) # "/"
    <3>. DEFINE t == [kind |-> "Slash", from |-> cursor, after |-> cursor + 1]
    <3>1. Return("Slash", cursor, cursor + 1, cursor + 1) /\ "Slash" \notin Words
      BY <1>6, <2>2, KindsTellApart DEF slash_or_comment
    <3>2. IsLongest(t)
      BY <2>2, <3>1 DEF IsLongest, Words
    <3>. QED  BY <1>1, <3>1, <3>2, LongReturn, KindsOfTokens
  <2>. QED  BY <2>1, <2>2
<1>7. CASE EnterString
  <2>1. /\ text' = text /\ tokens' = tokens /\ method' = "string"
        /\ start' = cursor + 1 /\ cursor' = cursor + 1
    BY <1>7 DEF EnterString, Enter
  <2>2. LongestMatch'
    BY <2>1, LongestKept DEF LongInv, LongestMatch
  <2>. QED  BY <1>1, <2>1, <2>2 DEF StringSoFar
<1>. QED  BY <1>2, <1>3, <1>4, <1>5, <1>6, <1>7

\* One more character of a string, or two, that do not end it.
LEMMA StringGoesOn ==
  ASSUME LongInv, method = "string", cursor <= Len(text), peek # Quote,
         \/ /\ peek = Backslash /\ At(cursor + 1) = Quote
            /\ Continue("string", cursor + 2)
         \/ /\ ~(peek = Backslash /\ At(cursor + 1) = Quote)
            /\ Continue("string", cursor + 1)
  PROVE  LongestMatch' /\ StringSoFar'
<1>1. /\ cursor \in Nat /\ start \in Nat /\ text \in Seq(Chars) /\ Len(text) \in Nat
      /\ start >= 1 /\ start <= cursor /\ cursor >= 1 /\ peek = text[cursor]
      /\ \A p \in start..cursor - 1 : text[p] = Quote => p > start /\ text[p - 1] = Backslash
  BY DEF LongInv, IInv, TypeOK, StringSoFar, peek, At
<1>2. text' = text /\ tokens' = tokens /\ start' = start
  BY DEF Continue
<1>3. LongestMatch'
  BY <1>2, LongestKept DEF LongInv, LongestMatch
<1>4. CASE peek = Backslash /\ At(cursor + 1) = Quote /\ Continue("string", cursor + 2)
  <2>1. cursor' = cursor + 2
    BY <1>4 DEF Continue
  <2>2. Quote # NUL /\ Quote # Backslash
    BY DEF Quote, NUL, Backslash
  <2>3. cursor + 1 <= Len(text) /\ text[cursor + 1] = Quote
    BY <1>1, <1>4, <2>2 DEF At
  <2>4. ASSUME NEW p \in start..cursor' - 1, text[p] = Quote
        PROVE  p > start /\ text[p - 1] = Backslash
    <3>1. p \in start..cursor - 1 \/ p = cursor \/ p = cursor + 1
      BY <1>1, <2>1
    <3>2. p # cursor
      BY <1>1, <1>4, <2>2, <2>4
    <3>3. CASE p = cursor + 1
      <4>1. p - 1 = cursor /\ p > start
        BY <1>1, <3>3
      <4>. QED  BY <1>1, <1>4, <4>1
    <3>. QED  BY <1>1, <2>4, <3>1, <3>2, <3>3
  <2>5. cursor' - 1 = cursor + 1 /\ start <= cursor'
    BY <1>1, <2>1
  <2>6. text[cursor' - 1] # Backslash
    BY <2>2, <2>3, <2>5
  <2>. QED  BY <1>1, <1>2, <1>3, <2>4, <2>5, <2>6 DEF StringSoFar
<1>5. CASE ~(peek = Backslash /\ At(cursor + 1) = Quote) /\ Continue("string", cursor + 1)
  <2>1. cursor' = cursor + 1
    BY <1>5 DEF Continue
  <2>2. peek' = At(cursor + 1)
    BY <1>2, <2>1 DEF peek, At
  <2>3. ASSUME NEW p \in start..cursor' - 1, text[p] = Quote
        PROVE  p > start /\ text[p - 1] = Backslash
    <3>1. p \in start..cursor - 1 \/ p = cursor
      BY <1>1, <2>1
    <3>2. p # cursor
      BY <1>1, <2>3
    <3>. QED  BY <1>1, <2>3, <3>1, <3>2
  <2>4. cursor' - 1 = cursor /\ start <= cursor'
    BY <1>1, <2>1
  <2>5. text[cursor' - 1] = Backslash => peek' # Quote
    BY <1>1, <1>5, <2>2, <2>4
  <2>. QED  BY <1>1, <1>2, <1>3, <2>3, <2>4, <2>5 DEF StringSoFar
<1>. QED  BY <1>4, <1>5

LEMMA LongLoops ==
  ASSUME LongInv, SkipComment \/ identifier \/ number \/ Fraction \/ string_literal
  PROVE  LongestMatch' /\ StringSoFar'
<1>1. /\ cursor \in Nat /\ start \in Nat /\ text \in Seq(Chars) /\ Len(text) \in Nat
      /\ cursor <= Len(text) + 1 /\ IInv
  BY DEF LongInv, IInv, TypeOK, In, SkipComment, identifier, number, Fraction, string_literal
<1>2. ASSUME NEW m, m # "string", NEW to, Continue(m, to)
      PROVE  LongestMatch' /\ StringSoFar'
  <2>1. text' = text /\ tokens' = tokens /\ method' # "string"
    BY <1>2 DEF Continue
  <2>. QED  BY <2>1, LongTurn
<1>3. CASE SkipComment
  <2>1. Continue("next", cursor) \/ Continue("comment", cursor + 1)
    BY <1>3 DEF SkipComment
  <2>. QED  BY <1>2, <2>1
<1>4. CASE identifier
  <2>. DEFINE word == SubSeq(text, start, cursor - 1)
              kind == IF word \in DOMAIN KeywordOf THEN KeywordOf[word] ELSE "Identifier"
              t == [kind |-> kind, from |-> start, after |-> cursor]
  <2>1. kind \in Words
    BY DEF Words
  <2>2. kind \in Stream!Kinds
    BY CharsAssumption, KindsOfTokens DEF Stream!Kinds
  <2>3. \/ Continue("identifier", cursor + 1)
        \/ peek \notin Letters /\ Return(kind, start, cursor, cursor)
    BY <1>4 DEF identifier
  <2>4. t.kind = kind /\ t.after = cursor
    OBVIOUS
  <2>5. ASSUME peek \notin Letters PROVE IsLongest(t)
    <3>1. kind \notin {"Number", "FloatLiteral", "LessThan", "GreaterThan", "Minus", "Slash",
                       "StringLiteral"}
      BY <2>1, KindsTellApart
    <3>. HIDE DEF t, kind
    <3>. QED  BY <2>4, <2>5, <3>1 DEF IsLongest, peek
  <2>. HIDE DEF kind
  <2>. QED  BY <1>1, <1>2, <2>2, <2>3, <2>5, LongReturn
<1>5. CASE number
  <2>. DEFINE t == [kind |-> "Number", from |-> start, after |-> cursor]
  <2>1. \/ Continue("number", cursor + 1) \/ Continue("fraction", cursor + 1)
        \/ peek \notin Digits \cup {"."} /\ Return("Number", start, cursor, cursor)
    BY <1>5 DEF number
  <2>2. ASSUME peek \notin Digits \cup {"."} PROVE IsLongest(t)
    BY <2>2, KindsTellApart DEF IsLongest, peek, Words
  <2>. QED  BY <1>1, <1>2, <2>1, <2>2, LongReturn, KindsOfTokens
<1>6. CASE Fraction
  <2>. DEFINE t == [kind |-> "FloatLiteral", from |-> start, after |-> cursor]
  <2>1. \/ Continue("fraction", cursor + 1)
        \/ peek \notin Digits /\ Return("FloatLiteral", start, cursor, cursor)
    BY <1>6 DEF Fraction
  <2>2. ASSUME peek \notin Digits PROVE IsLongest(t)
    BY <2>2, KindsTellApart DEF IsLongest, peek, Words
  <2>. QED  BY <1>1, <1>2, <2>1, <2>2, LongReturn, KindsOfTokens
<1>7. CASE string_literal
  <2>1. method = "string"
    BY <1>7 DEF string_literal, In
  <2>2. CASE peek = Quote
    <3>. DEFINE t == [kind |-> "StringLiteral", from |-> start, after |-> cursor]
    <3>1. Return("StringLiteral", start, cursor, cursor + 1)
      BY <1>7, <2>2 DEF string_literal, Quote, Backslash, NUL
    <3>2. /\ At(cursor) = Quote /\ ~(cursor > start /\ text[cursor - 1] = Backslash)
          /\ \A p \in start..cursor - 1 : text[p] = Quote => p > start /\ text[p - 1] = Backslash
      BY <2>1, <2>2 DEF LongInv, StringSoFar, peek
    <3>3. t.kind = "StringLiteral" /\ t.from = start /\ t.after = cursor
      OBVIOUS
    <3>. HIDE DEF t
    <3>4. IsLongest(t)
      BY <3>2, <3>3, KindsTellApart DEF IsLongest, Words
    <3>5. cursor + 1 \in Nat
      BY <1>1
    <3>. QED  BY <1>1, <3>1, <3>4, <3>5, LongReturn, KindsOfTokens DEF t
  <2>3. CASE peek = NUL
    <3>. DEFINE t == [kind |-> "Unexpected", from |-> start, after |-> cursor]
    <3>1. Return("Unexpected", start, cursor, cursor)
      BY <1>7, <2>3 DEF string_literal, Quote, Backslash, NUL
    <3>2. t.kind \notin Extensible
      BY KindsTellApart DEF Extensible
    <3>3. IsLongest(t)
      BY <3>2, NothingFollows
    <3>. QED  BY <1>1, <3>1, <3>3, LongReturn, KindsOfTokens
  <2>4. CASE peek # Quote /\ peek # NUL
    <3>1. cursor <= Len(text)
      BY <1>1, <2>4 DEF peek, At
    <3>2. \/ /\ peek = Backslash /\ At(cursor + 1) = Quote
             /\ Continue("string", cursor + 2)
          \/ /\ ~(peek = Backslash /\ At(cursor + 1) = Quote)
             /\ Continue("string", cursor + 1)
      BY <1>7, <2>4 DEF string_literal
    <3>. QED  BY <2>1, <2>4, <3>1, <3>2, StringGoesOn
  <2>. QED  BY <2>2, <2>3, <2>4
<1>. QED  BY <1>3, <1>4, <1>5, <1>6, <1>7

LEMMA LongDot == LongInv /\ (ReadDot \/ ReadPastEnd) => LongestMatch' /\ StringSoFar'
<1>. SUFFICES ASSUME LongInv, ReadDot \/ ReadPastEnd PROVE LongestMatch' /\ StringSoFar'
  OBVIOUS
<1>1. /\ cursor \in Nat /\ cursor + 1 \in Nat /\ cursor + 1 + 1 \in Nat
      /\ cursor + 1 + Len(AddCall) \in Nat /\ cursor + 1 + Len(RemoveCall) \in Nat
      /\ Len(text) \in Nat
  BY CharsAssumption DEF LongInv, IInv, TypeOK
<1>2. CASE ReadDot
  <2>1. PICK kind \in {"ArrayAdd", "ArrayRemove", "Dot"}, from, after \in Nat :
          Return(kind, from, after, after)
    BY <1>1, <1>2 DEF ReadDot
  <2>. DEFINE t == [kind |-> kind, from |-> from, after |-> after]
  <2>2. t.kind \notin Extensible /\ kind \in Stream!Kinds
    BY KindsTellApart, KindsOfTokens DEF Extensible
  <2>3. IsLongest(t)
    BY <2>2, NothingFollows
  <2>. QED  BY <2>1, <2>2, <2>3, LongReturn
<1>3. CASE ReadPastEnd
  <2>1. PICK kind \in Stream!Kinds : Return(kind, cursor, cursor, cursor)
    BY <1>3, CharsAssumption DEF ReadPastEnd
  <2>2. ~(cursor <= Len(text) + 1)
    BY <1>1, <1>3 DEF ReadPastEnd
  <2>. QED  BY <1>1, <2>1, <2>2, LongReturn
<1>. QED  BY <1>2, <1>3

LEMMA LongStep == LongInv /\ [Next]_vars => LongInv'
<1>. SUFFICES ASSUME LongInv, [Next]_vars PROVE LongInv'
  OBVIOUS
<1>1. IInv'
  BY NextInv DEF LongInv
<1>2. CASE Call \/ UNCHANGED vars
  <2>1. CASE Call
    <3>1. text' = text /\ tokens' = tokens /\ method' # "string"
      BY <2>1 DEF Call
    <3>. QED  BY <1>1, <3>1, LongTurn DEF LongInv
  <2>2. CASE UNCHANGED vars
    <3>1. LongestMatch'
      BY <2>2, LongestKept DEF vars, LongInv, LongestMatch
    <3>. QED  BY <1>1, <2>2, <3>1 DEF vars, LongInv, StringSoFar, peek, At
  <2>. QED  BY <1>2, <2>1, <2>2
<1>3. CASE Step
  BY <1>1, <1>3, LongNext, LongLoops, LongDot DEF Step, LongInv
<1>. QED  BY <1>2, <1>3 DEF Next, Rest

\* No token could have been longer, whatever the text: a name, a number or an
\* operator ends where what follows is no part of it, and a string at the first
\* quote without a backslash before it.
THEOREM TokensAreLongest == Spec => []LongestMatch
<1>1. Init => LongInv
  <2>. SUFFICES ASSUME Init PROVE LongInv
    OBVIOUS
  <2>1. Len(tokens) = 0 /\ method = "idle"
    BY EmptySeq DEF Init
  <2>. QED  BY <2>1, InitInv DEF LongInv, LongestMatch, StringSoFar
<1>2. LongInv => LongestMatch
  BY DEF LongInv
<1>. QED  BY <1>1, <1>2, LongStep, PTL DEF Spec
-----------------------------------------------------------------------------
(***************************************************************************)
(* Nothing gets lost between tokens.                                       *)
(***************************************************************************)
\* Where what next is reading began.
Begin == IF start # 0 THEN start ELSE cursor

\* Only a token's loop has a start, and it is not ahead of the cursor.
StartOfLoop == /\ start # 0 <=> method \in {"identifier", "number", "fraction", "string"}
               /\ start <= cursor

\* Two slashes began the comment, on this line.
CommentSoFar ==
  method = "comment" =>
    \E q \in 1..cursor - 1 : /\ At(q) = "/" /\ At(q + 1) = "/" /\ ~InLexeme(q)
                             /\ \A r \in q..cursor - 1 : At(r) # Newline

\* A token is behind what is being read, or it is what the lexer stays at.
StaysAt(t) == /\ t.from = cursor /\ t.after = cursor + 1 /\ method \in {"idle", "next"}
              /\ \/ t.kind = "End" /\ peek = NUL
                 \/ t.kind = "Unexpected" /\ peek \in Unknown
Placed == \A i \in 1..Len(tokens) :
            tokens[i].after <= Begin \/ StaysAt(tokens[i]) \/ cursor > Len(text) + 1

\* What becomes of the character at p: a quote is kept aside by the string that
\* it opens, first under way and then a token.
QuoteOf(p) == \/ method = "string" /\ p + 1 = start
              \/ \E i \in 1..Len(tokens) : /\ tokens[i].kind \in {"StringLiteral", "Unexpected"}
                                           /\ p \in {tokens[i].from - 1, tokens[i].after}
DotOf(p) == \E i \in 1..Len(tokens) : tokens[i].kind = "Dot" /\ tokens[i].from = p + 1
Kept(p) == \/ InLexeme(p) \/ text[p] \in Space \/ InComment(p)
           \/ text[p] = Quote /\ QuoteOf(p)
           \/ text[p] = "." /\ DotOf(p)

InOrder ==
  \A i, j \in 1..Len(tokens) :
    i < j => \/ tokens[i].after <= tokens[j].from
             \/ tokens[i] = tokens[j] /\ tokens[i].kind \in {"End", "Unexpected"}
             \/ cursor > Len(text) + 1

AllKept == /\ StartOfLoop /\ CommentSoFar /\ Placed /\ InOrder
           /\ \A p \in 1..Begin - 1 : p <= Len(text) => Kept(p)

LostInv == IInv /\ AllKept

LEMMA Below ==
  ASSUME NEW a \in Nat, NEW b \in Nat
  PROVE  \A p \in 1..b - 1 : p \in 1..a - 1 \/ p \in a..b - 1
OBVIOUS

LEMMA EndsOfTokens == \A t \in Token : t.from \in Nat /\ t.after \in Nat
BY DEF Token

LEMMA BeginFacts ==
  ASSUME LostInv
  PROVE  /\ Begin \in Nat /\ Begin <= cursor /\ cursor \in Nat /\ start \in Nat
         /\ Len(text) \in Nat /\ Len(tokens) \in Nat
         /\ method \in {"idle", "next", "comment"} => Begin = cursor
         /\ method \in {"identifier", "number", "fraction", "string"} => Begin = start
         /\ cursor > Len(text) + 1 => method \in {"idle", "next"}
BY DEF LostInv, AllKept, IInv, TypeOK, StartOfLoop, Begin, CursorInText

\* What a returned token does.
LEMMA TokenAdded ==
  ASSUME IInv, NEW kind \in Stream!Kinds, NEW from \in Nat, NEW after \in Nat, NEW to,
         Return(kind, from, after, to)
  PROVE  /\ Len(tokens) \in Nat /\ Len(tokens') = Len(tokens) + 1
         /\ \A i \in 1..Len(tokens) : i \in 1..Len(tokens') /\ tokens'[i] = tokens[i]
         /\ \A i \in 1..Len(tokens') : i \in 1..Len(tokens) \/ i = Len(tokens) + 1
         /\ Len(tokens) + 1 \in 1..Len(tokens')
         /\ tokens'[Len(tokens) + 1] = [kind |-> kind, from |-> from, after |-> after]
         /\ method' = "idle" /\ start' = 0 /\ cursor' = to /\ text' = text /\ Begin' = to
<1>. DEFINE token == [kind |-> kind, from |-> from, after |-> after]
<1>1. token \in Token /\ tokens \in Seq(Token)
  BY DEF Token, IInv, TypeOK
<1>2. /\ tokens' = Append(tokens, token)
      /\ method' = "idle" /\ start' = 0 /\ cursor' = to /\ text' = text
  BY DEF Return
<1>. HIDE DEF token
<1>3. /\ Len(tokens) \in Nat /\ Len(tokens') = Len(tokens) + 1
      /\ \A i \in 1..Len(tokens) : tokens'[i] = tokens[i]
      /\ tokens'[Len(tokens) + 1] = token
  BY <1>1, <1>2, AppendProperties, LenProperties
<1>4. Begin' = to
  BY <1>2 DEF Begin
<1>. QED  BY <1>2, <1>3, <1>4 DEF token

\* What is in the text before the part that is being read stays where it was put.
LEMMA KeptStays ==
  ASSUME LostInv, NEW kind \in Stream!Kinds, NEW from \in Nat, NEW after \in Nat, NEW to,
         Return(kind, from, after, to), from >= Begin,
         method = "string" => from = start /\ kind \in {"StringLiteral", "Unexpected"}
  PROVE  \A p \in 1..Begin - 1 : p <= Len(text) => Kept(p)'
<1>. DEFINE n == Len(tokens) + 1
<1>0. /\ Len(tokens) \in Nat
      /\ \A i \in 1..Len(tokens) : i \in 1..Len(tokens') /\ tokens'[i] = tokens[i]
      /\ \A i \in 1..Len(tokens') : i \in 1..Len(tokens) \/ i = n
      /\ n \in 1..Len(tokens')
      /\ tokens'[n] = [kind |-> kind, from |-> from, after |-> after]
      /\ method' = "idle" /\ start' = 0 /\ cursor' = to /\ text' = text /\ Begin' = to
  <2>1. IInv
    BY DEF LostInv, AllKept
  <2>. QED  BY <2>1, TokenAdded
<1>. HIDE DEF n
<1>1. /\ Len(tokens) \in Nat
      /\ \A i \in 1..Len(tokens) : i \in 1..Len(tokens') /\ tokens'[i] = tokens[i]
      /\ \A i \in 1..Len(tokens') : i \in 1..Len(tokens) \/ i = n
      /\ n \in 1..Len(tokens')
      /\ tokens'[n].from = from /\ tokens'[n].kind = kind
      /\ text' = text
  BY <1>0
<1>2. Begin \in Nat
  BY BeginFacts
<1>. TAKE p \in 1..Begin - 1
<1>. HAVE p <= Len(text)
<1>3. CASE InLexeme(p)
  <2>1. InLexeme(p)'
    BY <1>1, <1>3 DEF InLexeme
  <2>. QED  BY <2>1 DEF Kept
<1>4. CASE text[p] \in Space
  BY <1>1, <1>4 DEF Kept
<1>5. CASE InComment(p)
  <2>1. PICK q \in 1..p : /\ At(q) = "/" /\ At(q + 1) = "/" /\ ~InLexeme(q)
                          /\ \A r \in q..p : At(r) # Newline
    BY <1>5 DEF InComment
  <2>2. ASSUME NEW i \in 1..Len(tokens'), tokens'[i].from <= q, q < tokens'[i].after
        PROVE  FALSE
    <3>1. i \in 1..Len(tokens)
      <4>1. CASE i = n
        BY <1>1, <1>2, <2>2, <4>1
      <4>. QED  BY <1>1, <4>1
    <3>. QED  BY <1>1, <2>1, <2>2, <3>1 DEF InLexeme
  <2>3. ~InLexeme(q)'
    BY <2>2 DEF InLexeme
  <2>4. InComment(p)'
    BY <1>1, <2>1, <2>3 DEF InComment, At
  <2>. QED  BY <2>4 DEF Kept
<1>6. CASE text[p] = Quote /\ QuoteOf(p)
  <2>1. CASE method = "string" /\ p + 1 = start
    <3>1. p = tokens'[n].from - 1
      BY <1>1, <2>1
    <3>2. tokens'[n].kind \in {"StringLiteral", "Unexpected"}
      BY <1>1, <2>1
    <3>3. QuoteOf(p)'
      BY <1>1, <3>1, <3>2 DEF QuoteOf
    <3>. QED  BY <1>1, <1>6, <3>3 DEF Kept
  <2>2. CASE \E i \in 1..Len(tokens) : /\ tokens[i].kind \in {"StringLiteral", "Unexpected"}
                                       /\ p \in {tokens[i].from - 1, tokens[i].after}
    <3>1. QuoteOf(p)'
      BY <1>1, <2>2 DEF QuoteOf
    <3>. QED  BY <1>1, <1>6, <3>1 DEF Kept
  <2>. QED  BY <1>6, <2>1, <2>2 DEF QuoteOf
<1>7. CASE text[p] = "." /\ DotOf(p)
  <2>1. DotOf(p)'
    BY <1>1, <1>7 DEF DotOf
  <2>. QED  BY <1>1, <1>7, <2>1 DEF Kept
<1>8. Kept(p)
  BY DEF LostInv, AllKept
<1>. QED  BY <1>3, <1>4, <1>5, <1>6, <1>7, <1>8 DEF Kept

\* A token that does not begin at a stop, with what becomes of what was read.
LEMMA LostTakes ==
  ASSUME LostInv, NEW kind \in Stream!Kinds, NEW from \in Nat, NEW after \in Nat, NEW to \in Nat,
         Return(kind, from, after, to),
         method # "idle", method = "next" => ~AtStop,
         from >= Begin, to >= cursor, after <= to,
         method = "string" => from = start /\ kind \in {"StringLiteral", "Unexpected"},
         \A p \in Begin..to - 1 :
            \/ from <= p /\ p < after
            \/ text[p] = Quote /\ p = after /\ kind = "StringLiteral"
            \/ text[p] = "." /\ kind = "Dot" /\ from = p + 1
  PROVE  AllKept'
<1>. DEFINE n == Len(tokens) + 1
<1>0. /\ Len(tokens) \in Nat
      /\ \A i \in 1..Len(tokens) : i \in 1..Len(tokens') /\ tokens'[i] = tokens[i]
      /\ \A i \in 1..Len(tokens') : i \in 1..Len(tokens) \/ i = n
      /\ n \in 1..Len(tokens')
      /\ tokens'[n] = [kind |-> kind, from |-> from, after |-> after]
      /\ method' = "idle" /\ start' = 0 /\ cursor' = to /\ text' = text /\ Begin' = to
  <2>1. IInv
    BY DEF LostInv, AllKept
  <2>. QED  BY <2>1, TokenAdded
<1>. HIDE DEF n
<1>1. /\ Len(tokens) \in Nat
      /\ \A i \in 1..Len(tokens) : i \in 1..Len(tokens') /\ tokens'[i] = tokens[i]
      /\ \A i \in 1..Len(tokens') : i \in 1..Len(tokens) \/ i = n
      /\ n \in 1..Len(tokens')
      /\ tokens'[n].from = from /\ tokens'[n].kind = kind /\ tokens'[n].after = after
      /\ method' = "idle" /\ start' = 0 /\ cursor' = to /\ text' = text /\ Begin' = to
  BY <1>0
<1>2. /\ Begin \in Nat /\ cursor \in Nat /\ Begin <= cursor /\ Len(text) \in Nat
      /\ tokens \in Seq(Token)
  BY BeginFacts DEF LostInv, AllKept, IInv, TypeOK, Token
<1>3. StartOfLoop' /\ CommentSoFar'
  BY <1>1, <1>2 DEF StartOfLoop, CommentSoFar
<1>4. ASSUME NEW i \in 1..Len(tokens)
      PROVE  tokens[i].after <= Begin \/ cursor > Len(text) + 1
  <2>1. ~StaysAt(tokens[i])
    BY DEF StaysAt, AtStop
  <2>. QED  BY <2>1 DEF LostInv, AllKept, Placed
<1>5. \A i \in 1..Len(tokens) : tokens[i].after \in Nat
  BY <1>2, ElementOfSeq, EndsOfTokens
<1>6. Placed'
  <2>1. ASSUME NEW i \in 1..Len(tokens')
        PROVE  tokens'[i].after <= to \/ to > Len(text) + 1
    <3>1. CASE i = n
      BY <1>1, <3>1
    <3>2. CASE i \in 1..Len(tokens)
      BY <1>1, <1>2, <1>4, <1>5, <3>2
    <3>. QED  BY <1>1, <3>1, <3>2
  <2>. QED  BY <1>1, <2>1 DEF Placed
<1>7. InOrder'
  <2>1. ASSUME NEW i \in 1..Len(tokens'), NEW j \in 1..Len(tokens'), i < j
        PROVE  \/ tokens'[i].after <= tokens'[j].from
               \/ tokens'[i] = tokens'[j] /\ tokens'[i].kind \in {"End", "Unexpected"}
               \/ to > Len(text) + 1
    <3>1. i \in 1..Len(tokens)
      BY <1>1, <2>1 DEF n
    <3>2. CASE j = n
      BY <1>1, <1>2, <1>4, <1>5, <3>1, <3>2
    <3>3. CASE j \in 1..Len(tokens)
      <4>1. \/ tokens[i].after <= tokens[j].from
            \/ tokens[i] = tokens[j] /\ tokens[i].kind \in {"End", "Unexpected"}
            \/ cursor > Len(text) + 1
        BY <2>1, <3>1, <3>3 DEF LostInv, AllKept, InOrder
      <4>. QED  BY <1>1, <1>2, <3>1, <3>3, <4>1
    <3>. QED  BY <1>1, <3>2, <3>3
  <2>. QED  BY <1>1, <2>1 DEF InOrder
<1>8. \A p \in 1..Begin - 1 : p <= Len(text) => Kept(p)'
  BY KeptStays
<1>9. ASSUME NEW p \in Begin..to - 1
      PROVE  Kept(p)'
  <2>1. CASE from <= p /\ p < after
    <3>1. InLexeme(p)'
      BY <1>1, <2>1 DEF InLexeme
    <3>. QED  BY <3>1 DEF Kept
  <2>2. CASE text[p] = Quote /\ p = after /\ kind = "StringLiteral"
    <3>1. QuoteOf(p)'
      BY <1>1, <2>2 DEF QuoteOf
    <3>. QED  BY <1>1, <2>2, <3>1 DEF Kept
  <2>3. CASE text[p] = "." /\ kind = "Dot" /\ from = p + 1
    <3>1. DotOf(p)'
      BY <1>1, <2>3 DEF DotOf
    <3>. QED  BY <1>1, <2>3, <3>1 DEF Kept
  <2>. QED  BY <2>1, <2>2, <2>3
<1>10. ASSUME NEW p \in 1..to - 1, p <= Len(text)
       PROVE  Kept(p)'
  <2>1. p \in 1..Begin - 1 \/ p \in Begin..to - 1
    BY <1>2, Below
  <2>. QED  BY <1>8, <1>9, <1>10, <2>1
<1>11. (\A p \in 1..Begin - 1 : p <= Len(text) => Kept(p))'
  BY <1>1, <1>10
<1>. QED  BY <1>3, <1>6, <1>7, <1>11 DEF AllKept

\* A token that leaves the cursor where it is, or one from behind the text.
LEMMA LostStops ==
  ASSUME LostInv, NEW kind \in Stream!Kinds, NEW after \in Nat,
         Return(kind, cursor, after, cursor), method = "next",
         \/ /\ after = cursor + 1
            /\ (kind = "End" /\ peek = NUL) \/ (kind = "Unexpected" /\ peek \in Unknown)
         \/ cursor > Len(text) + 1
  PROVE  AllKept'
<1>. DEFINE n == Len(tokens) + 1
            token == [kind |-> kind, from |-> cursor, after |-> after]
<1>0. cursor \in Nat /\ IInv /\ Begin = cursor /\ Len(text) \in Nat /\ tokens \in Seq(Token)
  BY BeginFacts DEF LostInv, AllKept, IInv, TypeOK, Token
<1>1. /\ Len(tokens) \in Nat
      /\ \A i \in 1..Len(tokens) : i \in 1..Len(tokens') /\ tokens'[i] = tokens[i]
      /\ \A i \in 1..Len(tokens') : i \in 1..Len(tokens) \/ i = n
      /\ n \in 1..Len(tokens')
      /\ tokens'[n] = token
      /\ method' = "idle" /\ start' = 0 /\ cursor' = cursor /\ text' = text /\ Begin' = cursor
  BY <1>0, TokenAdded
<1>2. token.from = cursor /\ token.after = after /\ token.kind = kind /\ token \in Token
  BY <1>0 DEF Token
<1>3. \A t \in Token : t.kind = kind /\ t.from = cursor /\ t.after = after => t = token
  BY DEF Token
<1>. HIDE DEF n, token
<1>4. StartOfLoop' /\ CommentSoFar' /\ peek' = peek
  <2>1. StartOfLoop' /\ CommentSoFar'
    BY <1>0, <1>1 DEF StartOfLoop, CommentSoFar
  <2>. QED  BY <1>1, <2>1, PeekKept
<1>5. Placed'
  <2>1. ASSUME NEW i \in 1..Len(tokens')
        PROVE  \/ tokens'[i].after <= cursor \/ cursor > Len(text) + 1
               \/ /\ tokens'[i].from = cursor /\ tokens'[i].after = cursor + 1
                  /\ \/ tokens'[i].kind = "End" /\ peek = NUL
                     \/ tokens'[i].kind = "Unexpected" /\ peek \in Unknown
    <3>1. CASE i = n
      BY <1>1, <1>2, <3>1
    <3>2. CASE i \in 1..Len(tokens)
      BY <1>0, <1>1, <3>2 DEF LostInv, AllKept, Placed, StaysAt
    <3>. QED  BY <1>1, <3>1, <3>2
  <2>. QED  BY <1>1, <1>4, <2>1 DEF Placed, StaysAt
<1>6. InOrder'
  <2>1. ASSUME NEW i \in 1..Len(tokens'), NEW j \in 1..Len(tokens'), i < j
        PROVE  \/ tokens'[i].after <= tokens'[j].from
               \/ tokens'[i] = tokens'[j] /\ tokens'[i].kind \in {"End", "Unexpected"}
               \/ cursor > Len(text) + 1
    <3>1. i \in 1..Len(tokens)
      BY <1>1, <2>1 DEF n
    <3>2. CASE j = n
      <4>1. CASE tokens[i].after <= Begin \/ cursor > Len(text) + 1
        BY <1>0, <1>1, <1>2, <3>1, <3>2, <4>1
      <4>2. CASE StaysAt(tokens[i]) /\ cursor <= Len(text) + 1
        <5>1. tokens[i] \in Token
          BY <1>0, <3>1, ElementOfSeq
        <5>2. tokens[i].from = cursor /\ tokens[i].after = cursor + 1 /\ after = cursor + 1
          BY <1>0, <4>2 DEF StaysAt
        <5>3. tokens[i].kind = kind /\ kind \in {"End", "Unexpected"}
          BY <1>0, <4>2, NULIsNoLetter DEF StaysAt
        <5>4. tokens[i] = token
          BY <1>3, <5>1, <5>2, <5>3
        <5>. QED  BY <1>1, <1>2, <3>1, <3>2, <5>3, <5>4
      <4>. QED  BY <1>0, <3>1, <4>1, <4>2 DEF LostInv, AllKept, Placed
    <3>3. CASE j \in 1..Len(tokens)
      <4>1. \/ tokens[i].after <= tokens[j].from
            \/ tokens[i] = tokens[j] /\ tokens[i].kind \in {"End", "Unexpected"}
            \/ cursor > Len(text) + 1
        BY <2>1, <3>1, <3>3 DEF LostInv, AllKept, InOrder
      <4>. QED  BY <1>1, <3>1, <3>3, <4>1
    <3>. QED  BY <1>1, <3>2, <3>3
  <2>. QED  BY <1>1, <2>1 DEF InOrder
<1>7. \A p \in 1..Begin - 1 : p <= Len(text) => Kept(p)'
  BY <1>0, KeptStays
<1>8. (\A p \in 1..Begin - 1 : p <= Len(text) => Kept(p))'
  BY <1>0, <1>1, <1>7
<1>. QED  BY <1>4, <1>5, <1>6, <1>8 DEF AllKept

\* A turn of a loop, with what becomes of what it passes.
LEMMA LostTurns ==
  ASSUME LostInv, text' = text, tokens' = tokens, method # "idle", method = "next" => ~AtStop,
         Begin' \in Nat, Begin' >= Begin, cursor <= Len(text) + 1,
         method = "string" => method' = "string" /\ start' = start,
         \A p \in Begin..Begin' - 1 : Kept(p)', StartOfLoop', CommentSoFar'
  PROVE  AllKept'
<1>1. /\ Begin \in Nat /\ Len(text) \in Nat /\ cursor \in Nat /\ tokens \in Seq(Token)
  BY BeginFacts DEF LostInv, AllKept, IInv, TypeOK, Token
<1>2. \A i \in 1..Len(tokens) : tokens[i].after \in Nat
  BY <1>1, ElementOfSeq, EndsOfTokens
<1>3. ASSUME NEW i \in 1..Len(tokens)
      PROVE  tokens[i].after <= Begin'
  <2>1. ~StaysAt(tokens[i])
    BY DEF StaysAt, AtStop
  <2>. QED  BY <1>1, <1>2, <2>1 DEF LostInv, AllKept, Placed
<1>4. Placed'
  BY <1>3 DEF Placed
<1>5. InOrder'
  BY <1>1 DEF LostInv, AllKept, InOrder
<1>6. ASSUME NEW p \in 1..Begin - 1, p <= Len(text), Kept(p)
      PROVE  Kept(p)'
  <2>1. /\ InLexeme(p) => InLexeme(p)'
        /\ InComment(p) => InComment(p)'
        /\ QuoteOf(p) => QuoteOf(p)'
        /\ DotOf(p) => DotOf(p)'
    BY DEF InLexeme, InComment, QuoteOf, DotOf, At
  <2>. QED  BY <1>6, <2>1 DEF Kept
<1>7. ASSUME NEW p \in 1..Begin' - 1, p <= Len(text)
      PROVE  Kept(p)'
  <2>1. p \in 1..Begin - 1 \/ p \in Begin..Begin' - 1
    BY <1>1, Below
  <2>. QED  BY <1>6, <1>7, <2>1 DEF LostInv, AllKept
<1>8. (\A p \in 1..Begin - 1 : p <= Len(text) => Kept(p))'
  BY <1>7
<1>. QED  BY <1>4, <1>5, <1>8 DEF AllKept

\* Space, or the beginning of a token or of a comment.
LEMMA LostNextTurns ==
  ASSUME LostInv, \/ SkipSpace \/ EnterIdentifier \/ EnterNumber \/ EnterString
                  \/ slash_or_comment /\ At(cursor + 1) = "/"
  PROVE  AllKept'
<1>1. /\ cursor \in Nat /\ cursor >= 1 /\ Len(text) \in Nat /\ cursor <= Len(text) + 1
      /\ method = "next" /\ Begin = cursor /\ cursor + 1 \in Nat
  BY BeginFacts DEF LostInv, IInv, TypeOK, In, SkipSpace, EnterIdentifier, EnterNumber,
    EnterString, slash_or_comment
<1>2. ASSUME peek \in Letters \cup Digits \cup Atoms \cup Space \cup {Quote, ".", "/"}
      PROVE  ~AtStop /\ cursor <= Len(text) /\ peek = text[cursor]
  <2>1. ~AtStop
    BY <1>2, StopsAreNoStarts DEF AtStop
  <2>. QED  BY <1>1, <2>1 DEF AtStop, peek, At
<1>3. CASE SkipSpace
  <2>1. /\ text' = text /\ tokens' = tokens /\ start' = start /\ method' = "next"
        /\ cursor' = cursor + 1 /\ peek \in Space
    BY <1>3 DEF SkipSpace, Continue
  <2>2. start = 0
    BY <1>1 DEF LostInv, AllKept, StartOfLoop
  <2>3. Begin' = cursor + 1
    BY <2>1, <2>2 DEF Begin
  <2>4. ASSUME NEW p \in Begin..Begin' - 1 PROVE Kept(p)'
    <3>1. p = cursor
      BY <1>1, <2>3
    <3>. QED  BY <1>2, <2>1, <3>1 DEF Kept
  <2>5. StartOfLoop' /\ CommentSoFar'
    BY <1>1, <2>1, <2>2 DEF StartOfLoop, CommentSoFar
  <2>. QED  BY <1>1, <1>2, <2>1, <2>3, <2>4, <2>5, LostTurns
<1>4. CASE EnterIdentifier \/ EnterNumber
  <2>1. /\ text' = text /\ tokens' = tokens /\ start' = cursor
        /\ method' \in {"identifier", "number"}
        /\ cursor' \in {cursor, cursor + 1} /\ peek \in Letters \cup Digits
    BY <1>4 DEF EnterIdentifier, EnterNumber, Enter
  <2>2. Begin' = cursor
    BY <1>1, <2>1 DEF Begin
  <2>3. start' # 0 /\ start' <= cursor'
    BY <1>1, <2>1
  <2>4. StartOfLoop' /\ CommentSoFar'
    BY <2>1, <2>3 DEF StartOfLoop, CommentSoFar
  <2>. QED  BY <1>1, <1>2, <2>1, <2>2, <2>4, LostTurns
<1>5. CASE EnterString
  <2>1. /\ text' = text /\ tokens' = tokens /\ start' = cursor + 1 /\ method' = "string"
        /\ cursor' = cursor + 1 /\ peek = Quote
    BY <1>5 DEF EnterString, Enter
  <2>2. Begin' = cursor + 1
    BY <1>1, <2>1 DEF Begin
  <2>3. ASSUME NEW p \in Begin..Begin' - 1 PROVE Kept(p)'
    <3>1. p = cursor
      BY <1>1, <2>2
    <3>2. QuoteOf(p)'
      BY <2>1, <3>1 DEF QuoteOf
    <3>. QED  BY <1>2, <2>1, <3>1, <3>2 DEF Kept
  <2>4. start' # 0 /\ start' <= cursor'
    BY <1>1, <2>1
  <2>5. StartOfLoop' /\ CommentSoFar'
    BY <2>1, <2>4 DEF StartOfLoop, CommentSoFar
  <2>. QED  BY <1>1, <1>2, <2>1, <2>2, <2>3, <2>5, LostTurns
<1>6. CASE slash_or_comment /\ At(cursor + 1) = "/"
  <2>1. /\ text' = text /\ tokens' = tokens /\ start' = start /\ method' = "comment"
        /\ cursor' = cursor + 1 /\ peek = "/" /\ At(cursor + 1) = "/"
    BY <1>6 DEF slash_or_comment, Continue
  <2>2. start = 0
    BY <1>1 DEF LostInv, AllKept, StartOfLoop
  <2>3. Begin' = cursor + 1
    BY <2>1, <2>2 DEF Begin
  <2>4. ~AtStop /\ At(cursor) = "/" /\ "/" # Newline
    BY <1>2, <2>1 DEF peek, Newline
  <2>. PICK q \in Nat : q = cursor
    BY <1>1
  <2>5. ~InLexeme(q)
    <3>1. SUFFICES ASSUME NEW i \in 1..Len(tokens),
                          tokens[i].from <= q, q < tokens[i].after
                   PROVE  FALSE
      BY DEF InLexeme
    <3>2. tokens[i].after <= cursor
      BY <1>1, <2>4 DEF LostInv, AllKept, Placed, StaysAt, AtStop
    <3>3. tokens[i].after \in Nat
      BY ElementOfSeq, EndsOfTokens DEF LostInv, IInv, TypeOK, Token
    <3>. QED  BY <1>1, <3>1, <3>2, <3>3
  <2>6. ~InLexeme(q)'
    BY <2>1, <2>5 DEF InLexeme
  <2>7. At(q)' = "/" /\ At(q + 1)' = "/"
    BY <2>1, <2>4 DEF At
  <2>8. \A r \in q..q : At(r)' # Newline
    <3>1. \A r \in q..q : r = q
      OBVIOUS
    <3>. QED  BY <2>4, <2>7, <3>1
  <2>9. InComment(q)'
    BY <1>1, <2>6, <2>7, <2>8 DEF InComment
  <2>10. ASSUME NEW p \in Begin..Begin' - 1 PROVE Kept(p)'
    <3>1. p = q
      BY <1>1, <2>3
    <3>. QED  BY <2>9, <3>1 DEF Kept
  <2>11. CommentSoFar'
    <3>1. cursor' - 1 = q /\ q \in 1..cursor' - 1
      BY <1>1, <2>1
    <3>. QED  BY <2>6, <2>7, <2>8, <3>1 DEF CommentSoFar
  <2>12. StartOfLoop'
    BY <1>1, <2>1, <2>2 DEF StartOfLoop
  <2>. QED  BY <1>1, <2>1, <2>3, <2>4, <2>10, <2>11, <2>12, LostTurns
<1>. QED  BY <1>3, <1>4, <1>5, <1>6

\* A token read in one step, or a stop.
LEMMA LostNextReturns ==
  ASSUME LostInv, \/ ReadEnd \/ ReadUnexpected \/ ReadPastEnd \/ ReadAtom \/ ReadPair \/ ReadDot
                  \/ slash_or_comment /\ At(cursor + 1) # "/"
  PROVE  AllKept'
<1>1. /\ cursor \in Nat /\ Len(text) \in Nat /\ method = "next" /\ Begin = cursor
      /\ cursor + 1 \in Nat /\ cursor + 2 \in Nat /\ IInv
  BY BeginFacts DEF LostInv, IInv, TypeOK, In, ReadEnd, ReadUnexpected, ReadPastEnd, ReadAtom,
    ReadPair, ReadDot, slash_or_comment
<1>2. ASSUME peek \in Letters \cup Digits \cup Atoms \cup Space \cup {Quote, ".", "/"}
      PROVE  ~AtStop
  BY <1>2, StopsAreNoStarts DEF AtStop
<1>. DEFINE Whole(kind, after) == Return(kind, cursor, after, after)
<1>3. ASSUME NEW kind \in Stream!Kinds, NEW after \in Nat, Whole(kind, after), after >= cursor,
             ~AtStop
      PROVE  AllKept'
  <2>1. \A p \in Begin..after - 1 : cursor <= p /\ p < after
    BY <1>1
  <2>2. cursor >= Begin /\ after <= after
    BY <1>1, <1>3
  <2>. QED  BY <1>1, <1>3, <2>1, <2>2, LostTakes
<1>4. CASE ReadEnd \/ ReadUnexpected
  <2>1. PICK kind \in Stream!Kinds :
          /\ Return(kind, cursor, cursor + 1, cursor)
          /\ (kind = "End" /\ peek = NUL) \/ (kind = "Unexpected" /\ peek \in Unknown)
    BY <1>4, KindsOfTokens DEF ReadEnd, ReadUnexpected
  <2>. QED  BY <1>1, <2>1, LostStops
<1>5. CASE ReadPastEnd
  <2>1. PICK kind \in Stream!Kinds : Return(kind, cursor, cursor, cursor)
    BY <1>5, CharsAssumption DEF ReadPastEnd
  <2>2. cursor > Len(text) + 1
    BY <1>5 DEF ReadPastEnd
  <2>. QED  BY <1>1, <2>1, <2>2, LostStops
<1>6. CASE ReadAtom
  <2>1. AtomKind(peek) \in Stream!Kinds /\ Whole(AtomKind(peek), cursor + 1) /\ ~AtStop
    BY <1>2, <1>6, KindsOfTokens DEF ReadAtom
  <2>. QED  BY <1>1, <1>3, <2>1
<1>7. CASE ReadPair
  <2>. DEFINE kind == PairKind(peek, At(cursor + 1))
  <2>1. kind \in {"LessThanEqual", "GreaterThanEqual", "Arrow"} /\ peek \in {"<", ">", "-"}
    BY <1>7 DEF ReadPair, PairKind
  <2>2. kind \in Stream!Kinds /\ ~AtStop /\ Whole(kind, cursor + 2)
    BY <1>2, <1>7, <2>1, KindsOfTokens DEF ReadPair, Atoms
  <2>. HIDE DEF kind
  <2>. QED  BY <1>1, <1>3, <2>2
<1>8. CASE slash_or_comment /\ At(cursor + 1) # "/"
  <2>1. Whole("Slash", cursor + 1) /\ ~AtStop
    BY <1>2, <1>8 DEF slash_or_comment
  <2>. QED  BY <1>1, <1>3, <2>1, KindsOfTokens
<1>9. CASE ReadDot
  <2>. DEFINE at == cursor + 1
  <2>1. peek = "." /\ ~AtStop
    BY <1>2, <1>9 DEF ReadDot
  <2>2. /\ AddCall \in Seq(Chars) /\ RemoveCall \in Seq(Chars)
        /\ Len(AddCall) \in Nat /\ Len(RemoveCall) \in Nat
    BY CharsAssumption
  <2>3. /\ at + Len(AddCall) \in Nat /\ at + Len(AddCall) >= cursor
        /\ at + Len(RemoveCall) \in Nat /\ at + Len(RemoveCall) >= cursor
    BY <1>1, <2>2
  <2>4. \/ Whole("ArrayAdd", at + Len(AddCall)) \/ Whole("ArrayRemove", at + Len(RemoveCall))
        \/ Return("Dot", at, at + 1, at + 1)
    BY <1>9 DEF ReadDot
  <2>5. CASE Return("Dot", at, at + 1, at + 1)
    <3>1. text[cursor] = "."
      BY <1>1, <2>1 DEF peek, At, NUL
    <3>2. \A p \in Begin..at + 1 - 1 : \/ at <= p /\ p < at + 1
                                       \/ p = cursor /\ at = p + 1
      BY <1>1
    <3>3. at >= Begin /\ at + 1 >= cursor /\ at + 1 <= at + 1 /\ at + 1 \in Nat /\ at \in Nat
      BY <1>1
    <3>. HIDE DEF at
    <3>4. \A p \in Begin..at + 1 - 1 : \/ at <= p /\ p < at + 1
                                       \/ text[p] = "." /\ at = p + 1
      BY <3>1, <3>2
    <3>. DEFINE after == at + 1
    <3>5. /\ Return("Dot", at, after, after) /\ after \in Nat /\ after >= cursor
          /\ after <= after
          /\ \A p \in Begin..after - 1 : \/ at <= p /\ p < after
                                         \/ text[p] = "." /\ at = p + 1
      BY <2>5, <3>3, <3>4
    <3>. HIDE DEF after
    <3>6. method # "idle" /\ method # "string" /\ "Dot" \in Stream!Kinds
      BY <1>1, KindsOfTokens
    <3>. QED  BY <2>1, <3>3, <3>5, <3>6, LostTakes
  <2>. HIDE DEF at, Whole
  <2>. QED  BY <1>3, <2>1, <2>3, <2>4, <2>5, KindsOfTokens
<1>. QED  BY <1>4, <1>5, <1>6, <1>7, <1>8, <1>9

\* Inside a token.
LEMMA LostTokens ==
  ASSUME LostInv, identifier \/ number \/ Fraction \/ string_literal
  PROVE  AllKept'
<1>1. /\ cursor \in Nat /\ Len(text) \in Nat /\ cursor <= Len(text) + 1 /\ Begin = start
      /\ start \in Nat /\ start <= cursor /\ start # 0
      /\ method \in {"identifier", "number", "fraction", "string"} /\ IInv
      /\ cursor + 1 \in Nat /\ cursor + 2 \in Nat
  <2>1. /\ method \in {"identifier", "number", "fraction", "string"}
        /\ cursor <= Len(text) + 1
    BY DEF In, identifier, number, Fraction, string_literal
  <2>2. start # 0 /\ start <= cursor
    BY <2>1 DEF LostInv, AllKept, StartOfLoop
  <2>. QED  BY <2>1, <2>2, BeginFacts DEF LostInv
<1>2. ASSUME NEW m \in {"identifier", "number", "fraction", "string"}, NEW to \in Nat, Continue(m, to),
             to >= cursor, method = "string" => m = "string"
      PROVE  AllKept'
  <2>1. /\ text' = text /\ tokens' = tokens /\ start' = start /\ method' = m /\ cursor' = to
    BY <1>2 DEF Continue
  <2>2. Begin' = start
    BY <1>1, <2>1 DEF Begin
  <2>3. start' # 0 /\ start' <= cursor' /\ \A p \in start..start - 1 : FALSE
    BY <1>1, <1>2, <2>1
  <2>4. StartOfLoop' /\ CommentSoFar'
    BY <2>1, <2>3 DEF StartOfLoop, CommentSoFar
  <2>. QED  BY <1>1, <1>2, <2>1, <2>2, <2>3, <2>4, LostTurns
<1>3. ASSUME NEW kind \in Stream!Kinds, Return(kind, start, cursor, cursor),
             method = "string" => kind = "Unexpected"
      PROVE  AllKept'
  <2>1. \A p \in Begin..cursor - 1 : start <= p /\ p < cursor
    BY <1>1
  <2>2. start >= Begin /\ cursor >= cursor
    BY <1>1
  <2>. QED  BY <1>1, <1>3, <2>1, <2>2, LostTakes
<1>4. CASE identifier
  <2>. DEFINE word == SubSeq(text, start, cursor - 1)
              kind == IF word \in DOMAIN KeywordOf THEN KeywordOf[word] ELSE "Identifier"
  <2>1. kind \in Stream!Kinds
    BY CharsAssumption, KindsOfTokens DEF Stream!Kinds
  <2>2. \/ Continue("identifier", cursor + 1) \/ Return(kind, start, cursor, cursor)
    BY <1>4 DEF identifier
  <2>3. method # "string" /\ cursor + 1 >= cursor
    BY <1>1, <1>4 DEF identifier, In
  <2>. HIDE DEF kind
  <2>. QED  BY <1>1, <1>2, <1>3, <2>1, <2>2, <2>3
<1>5. CASE number \/ Fraction
  <2>1. \/ Continue("number", cursor + 1) \/ Continue("fraction", cursor + 1)
        \/ Return("Number", start, cursor, cursor)
        \/ Return("FloatLiteral", start, cursor, cursor)
    BY <1>5 DEF number, Fraction
  <2>2. method # "string" /\ cursor + 1 >= cursor
    BY <1>1, <1>5 DEF number, Fraction, In
  <2>. QED  BY <1>1, <1>2, <1>3, <2>1, <2>2, KindsOfTokens
<1>6. CASE string_literal
  <2>1. \/ Continue("string", cursor + 1) \/ Continue("string", cursor + 2)
        \/ Return("Unexpected", start, cursor, cursor)
        \/ peek = Quote /\ Return("StringLiteral", start, cursor, cursor + 1)
    BY <1>6 DEF string_literal
  <2>2. method = "string" /\ cursor + 1 >= cursor /\ cursor + 2 >= cursor
    BY <1>1, <1>6 DEF string_literal, In
  <2>3. CASE peek = Quote /\ Return("StringLiteral", start, cursor, cursor + 1)
    <3>1. text[cursor] = Quote
      BY <1>1, <2>3 DEF peek, At, Quote, NUL
    <3>2. \A p \in Begin..cursor + 1 - 1 : (start <= p /\ p < cursor) \/ p = cursor
      BY <1>1
    <3>3. start >= Begin /\ cursor <= cursor + 1
      BY <1>1
    <3>. QED  BY <1>1, <2>2, <2>3, <3>1, <3>2, <3>3, LostTakes, KindsOfTokens
  <2>. QED  BY <1>1, <1>2, <1>3, <2>1, <2>2, <2>3, KindsOfTokens
<1>. QED  BY <1>4, <1>5, <1>6

LEMMA LostComment == LostInv /\ SkipComment => AllKept'
<1>. SUFFICES ASSUME LostInv, SkipComment PROVE AllKept'
  OBVIOUS
<1>1. /\ cursor \in Nat /\ Len(text) \in Nat /\ cursor <= Len(text) + 1 /\ method = "comment"
      /\ Begin = cursor /\ start = 0 /\ start' = start /\ text' = text /\ tokens' = tokens
      /\ cursor' \in {cursor, cursor + 1} /\ cursor + 1 \in Nat
  BY BeginFacts DEF LostInv, AllKept, StartOfLoop, In, SkipComment, Continue
<1>2. Begin' = cursor'
  BY <1>1 DEF Begin
<1>3. CASE peek \in {NUL, Newline}
  <2>1. method' = "next" /\ cursor' = cursor
    BY <1>3 DEF SkipComment, Continue
  <2>2. StartOfLoop' /\ CommentSoFar'
    BY <1>1, <2>1 DEF StartOfLoop, CommentSoFar
  <2>3. \A p \in Begin..Begin' - 1 : FALSE
    BY <1>1, <1>2, <2>1
  <2>. QED  BY <1>1, <1>2, <2>1, <2>2, <2>3, LostTurns
<1>4. CASE peek \notin {NUL, Newline}
  <2>1. method' = "comment" /\ cursor' = cursor + 1
    BY <1>4 DEF SkipComment, Continue
  <2>2. PICK q \in 1..cursor - 1 : /\ At(q) = "/" /\ At(q + 1) = "/" /\ ~InLexeme(q)
                                   /\ \A r \in q..cursor - 1 : At(r) # Newline
    BY <1>1 DEF LostInv, AllKept, CommentSoFar
  <2>3. At(q)' = "/" /\ At(q + 1)' = "/" /\ ~InLexeme(q)'
    BY <1>1, <2>2 DEF At, InLexeme
  <2>4. ASSUME NEW r \in q..cursor PROVE At(r)' # Newline
    <3>1. At(r)' = At(r)
      BY <1>1 DEF At
    <3>2. r \in q..cursor - 1 \/ r = cursor
      BY <1>1
    <3>. QED  BY <1>4, <2>2, <3>1, <3>2 DEF peek
  <2>5. cursor' - 1 = cursor /\ q \in 1..cursor' - 1 /\ q \in 1..cursor
    BY <1>1, <2>1
  <2>6. CommentSoFar'
    BY <2>3, <2>4, <2>5 DEF CommentSoFar
  <2>7. StartOfLoop'
    BY <1>1, <2>1 DEF StartOfLoop
  <2>8. ASSUME NEW p \in Begin..Begin' - 1 PROVE Kept(p)'
    <3>1. p = cursor /\ q \in 1..p
      BY <1>1, <1>2, <2>1
    <3>2. InComment(p)'
      BY <2>3, <2>4, <3>1 DEF InComment
    <3>. QED  BY <3>2 DEF Kept
  <2>. QED  BY <1>1, <1>2, <2>1, <2>6, <2>7, <2>8, LostTurns
<1>. QED  BY <1>3, <1>4

LEMMA LostStep == LostInv /\ [Next]_vars => LostInv'
<1>. SUFFICES ASSUME LostInv, [Next]_vars PROVE AllKept'
  BY NextInv DEF LostInv
<1>1. CASE Call \/ UNCHANGED vars
  <2>0. /\ Call => method = "idle" /\ method' = "next" /\ UNCHANGED <<text, cursor, start, tokens>>
        /\ UNCHANGED vars => method' = method /\ UNCHANGED <<text, cursor, start, tokens>>
    BY DEF Call, vars
  <2>1. /\ text' = text /\ tokens' = tokens /\ cursor' = cursor /\ start' = start
        /\ (method' = method \/ (method = "idle" /\ method' = "next"))
    BY <1>1, <2>0
  <2>2. Begin' = Begin /\ peek' = peek
    BY <2>1 DEF Begin, peek, At
  <2>3. StartOfLoop' /\ CommentSoFar'
    BY <2>1 DEF LostInv, AllKept, StartOfLoop, CommentSoFar, InLexeme, At
  <2>4. Placed' /\ InOrder'
    BY <2>1, <2>2 DEF LostInv, AllKept, Placed, StaysAt, InOrder
  <2>5. ASSUME NEW p, Kept(p) PROVE Kept(p)'
    <3>1. /\ InLexeme(p) => InLexeme(p)'
          /\ InComment(p) => InComment(p)'
          /\ QuoteOf(p) => QuoteOf(p)'
          /\ DotOf(p) => DotOf(p)'
      BY <2>1 DEF InLexeme, InComment, QuoteOf, DotOf, At
    <3>. QED  BY <2>1, <2>5, <3>1 DEF Kept
  <2>6. (\A p \in 1..Begin - 1 : p <= Len(text) => Kept(p))'
    BY <2>1, <2>2, <2>5 DEF LostInv, AllKept
  <2>. QED  BY <2>3, <2>4, <2>6 DEF AllKept
<1>2. CASE Step
  <2>1. slash_or_comment => At(cursor + 1) = "/" \/ At(cursor + 1) # "/"
    OBVIOUS
  <2>. QED  BY <1>2, <2>1, LostNextTurns, LostNextReturns, LostTokens, LostComment DEF Step
<1>. QED  BY <1>1, <1>2 DEF Next, Rest

\* Whatever the text, what lies between two tokens is space, a comment, a quote
\* or a dot, and no character is in two tokens, but the one the lexer stays at.
THEOREM NothingGetsLost == Spec => []NothingLost
<1>1. Init => LostInv
  <2>. SUFFICES ASSUME Init PROVE LostInv
    OBVIOUS
  <2>1. Len(tokens) = 0 /\ method = "idle" /\ start = 0 /\ cursor = 1
    BY EmptySeq DEF Init
  <2>2. Begin = 1
    BY <2>1 DEF Begin
  <2>. QED  BY <2>1, <2>2, InitInv DEF LostInv, AllKept, StartOfLoop, CommentSoFar, Placed, InOrder
<1>2. LostInv => NothingLost
  <2>. SUFFICES ASSUME LostInv PROVE NothingLost
    OBVIOUS
  <2>1. Passed = 1..Begin - 1
    BY DEF Passed, Begin
  <2>2. ASSUME NEW p \in Passed \cap 1..Len(text)
        PROVE  \/ InLexeme(p)
               \/ text[p] \in Space \/ InComment(p)
               \/ text[p] = Quote /\ \/ p + 1 = start
                                     \/ \E i \in 1..Len(tokens) :
                                          /\ tokens[i].kind \in {"StringLiteral", "Unexpected"}
                                          /\ p \in {tokens[i].from - 1, tokens[i].after}
               \/ text[p] = "." /\ \E i \in 1..Len(tokens) :
                                     tokens[i].kind = "Dot" /\ tokens[i].from = p + 1
    <3>1. p \in 1..Begin - 1 /\ p <= Len(text)
      BY <2>1, BeginFacts
    <3>2. Kept(p)
      BY <3>1 DEF LostInv, AllKept
    <3>. QED  BY <3>2 DEF Kept, QuoteOf, DotOf
  <2>3. InOrder
    BY DEF LostInv, AllKept
  <2>. QED  BY <2>2, <2>3 DEF NothingLost, InOrder
<1>. QED  BY <1>1, <1>2, LostStep, PTL DEF Spec
-----------------------------------------------------------------------------
(***************************************************************************)
(* Lexemes, as analyzer and generator read them again.                     *)
(***************************************************************************)
Within(from, after, S) == \A p \in from..after - 1 : text[p] \in S
Decimals(from, after) ==
  \E d \in from + 1..after - 1 : /\ text[d] = "." /\ Within(from, d, Digits)
                                 /\ Within(d + 1, after, Digits)

\* What the lexeme of a token for parsePrimary is made of.
Spelled(t) ==
  /\ t.from >= 1 /\ t.from <= t.after
  /\ t.kind = "Number" => t.from < t.after /\ Within(t.from, t.after, Digits)
  /\ t.kind = "FloatLiteral" => Decimals(t.from, t.after)
  /\ t.kind \in {"Identifier", "True", "False"} =>
       Within(t.from, t.after, Letters) /\ (t.kind # "Identifier" <=> Truth(lexeme(t)))

\* And what has been read of it.
SpelledSoFar ==
  /\ method \in {"identifier", "number", "fraction"} => start >= 1 /\ start <= cursor
  /\ method = "identifier" => Within(start, cursor, Letters)
  /\ method = "number" => start < cursor /\ Within(start, cursor, Digits)
  /\ method = "fraction" => Decimals(start, cursor)

AllSpelled == \A i \in 1..Len(tokens) :
                tokens[i].kind \in PrimaryKinds /\ tokens[i].after <= Len(text) + 1
                  => Spelled(tokens[i])

\* The characters of a lexeme are told apart.
LEMMA CharsToldApart ==
  /\ \A c \in Letters : c \notin Digits /\ c \notin {"+", "-", ".", Quote}
  /\ \A c \in Digits : c \notin {"+", "-", ".", Quote}
<1>1. \A c \in Letters \cup Digits : c \notin Atoms /\ c \notin {"."} /\ c \notin {Quote}
  <2>1. \A S \in {Atoms, {"."}, {Quote}} : S \cap (Letters \cup Digits) = {}
    BY CharsAssumption
  <2>2. Atoms \cap (Letters \cup Digits) = {}
    BY <2>1
  <2>3. {"."} \cap (Letters \cup Digits) = {}
    BY <2>1
  <2>4. {Quote} \cap (Letters \cup Digits) = {}
    BY <2>1
  <2>. QED  BY <2>2, <2>3, <2>4
<1>2. "+" \in Atoms /\ "-" \in Atoms
  BY DEF Atoms
<1>3. Letters \cap Digits = {}
  BY CharsAssumption
<1>. QED  BY <1>1, <1>2, <1>3

LEMMA FirstOf ==
  ASSUME NEW S, NEW w \in Seq(S), w # <<>>
  PROVE  1 \in 1..Len(w) /\ w[1] \in S
BY EmptySeq, LenProperties

LEMMA UnsignedFacts ==
  ASSUME NEW S, NEW w \in Seq(S)
  PROVE  /\ Unsigned(w) \in Seq(S) /\ Len(Unsigned(w)) \in Nat
         /\ (w # <<>> => w[1] \notin {"+", "-"}) => Unsigned(w) = w
<1>1. w # <<>> => Tail(w) \in Seq(S)
  BY HeadTailProperties
<1>2. Unsigned(w) \in Seq(S)
  BY <1>1 DEF Unsigned
<1>3. (w # <<>> => w[1] \notin {"+", "-"}) => Unsigned(w) = w
  BY DEF Unsigned
<1>. QED  BY <1>2, <1>3, LenProperties

\* A decimal has one point, so it is no int, and no word.
LEMMA DecimalFacts ==
  ASSUME NEW w \in Seq(Chars), NEW b, NEW a, Decimal(w, b, a)
  PROVE  /\ \A c, d : Decimal(w, c, d) => d = a
         /\ ~intRegex(w)
         /\ w \notin Seq(Letters)
<1>. DEFINE u == Unsigned(w)
<1>1. PICK p \in 1..Len(u) : /\ u[p] = "." /\ p - 1 = b /\ Len(u) - p = a
                             /\ \A i \in 1..Len(u) : i # p => u[i] \in Digits
  BY DEF Decimal
<1>2. "." \notin Digits /\ "." \notin Letters
  BY CharsToldApart
<1>3. ASSUME NEW c, NEW d, Decimal(w, c, d)
      PROVE  d = a
  <2>1. PICK q \in 1..Len(u) : /\ u[q] = "." /\ q - 1 = c /\ Len(u) - q = d
                               /\ \A i \in 1..Len(u) : i # q => u[i] \in Digits
    BY <1>3 DEF Decimal
  <2>2. p = q
    BY <1>1, <1>2, <2>1
  <2>. QED  BY <1>1, <2>1, <2>2
<1>4. ~intRegex(w)
  BY <1>1, <1>2 DEF intRegex, DigitsOnly
<1>5. ASSUME w \in Seq(Letters)
      PROVE  FALSE
  <2>1. w # <<>> => w[1] \in Letters
    BY <1>5, FirstOf
  <2>2. u = w
    BY <1>5, <2>1, CharsToldApart, UnsignedFacts
  <2>3. u[p] \in Letters
    BY <1>1, <1>5, <2>2, ElementOfSeq
  <2>. QED  BY <1>1, <1>2, <2>3
<1>. QED  BY <1>3, <1>4, <1>5

LEMMA WordsReadAsWords ==
  ASSUME NEW w \in Seq(Letters)
  PROVE  ~intRegex(w) /\ ~generatorFloatRegex(w) /\ ~analyzerFloatRegex(w) /\ ~stringRegex(w)
<1>1. w \in Seq(Chars) /\ Len(w) \in Nat
  <2>1. Letters \subseteq Chars
    BY DEF Chars
  <2>2. \A i \in 1..Len(w) : w[i] \in Letters
    BY ElementOfSeq
  <2>3. w \in Seq(Chars)
    BY <2>1, <2>2
  <2>. QED  BY <2>3, LenProperties
<1>2. \A i \in 1..Len(w) : w[i] \in Letters
  BY ElementOfSeq
<1>3. w # <<>> => 1 \in 1..Len(w)
  BY FirstOf
<1>4. Unsigned(w) = w
  BY <1>2, <1>3, CharsToldApart, UnsignedFacts
<1>5. ~intRegex(w)
  BY <1>2, <1>3, <1>4, CharsToldApart DEF intRegex, DigitsOnly
<1>6. ~generatorFloatRegex(w) /\ ~analyzerFloatRegex(w)
  BY <1>1, DecimalFacts DEF generatorFloatRegex, analyzerFloatRegex
<1>7. ~stringRegex(w)
  <2>1. Len(w) > 1 => w[1] # Quote
    BY <1>1, <1>2, CharsToldApart
  <2>. QED  BY <2>1 DEF stringRegex
<1>. QED  BY <1>5, <1>6, <1>7

LEMMA TruthsAreWords == \A w : Truth(w) => w \in Seq(Letters)
BY CharsAssumption DEF Truth

\* No lexeme matches two of the regular expressions, but for those of strings.
LEMMA OneReading ==
  ASSUME NEW w \in Seq(Chars)
  PROVE  /\ ~(intRegex(w) /\ generatorFloatRegex(w))
         /\ ~(intRegex(w) /\ Truth(w)) /\ ~(generatorFloatRegex(w) /\ Truth(w))
         /\ analyzerFloatRegex(w) => generatorFloatRegex(w)
<1>1. ~(intRegex(w) /\ generatorFloatRegex(w))
  BY DecimalFacts DEF generatorFloatRegex
<1>2. ~(intRegex(w) /\ Truth(w)) /\ ~(generatorFloatRegex(w) /\ Truth(w))
  BY TruthsAreWords, WordsReadAsWords
<1>. QED  BY <1>1, <1>2 DEF analyzerFloatRegex, generatorFloatRegex

\* What is no string in quotes is read alike, but for a decimal without digits
\* after its point.
LEMMA ReadAlike ==
  ASSUME NEW w \in Seq(Chars), ~stringRegex(w)
  PROVE  getType(w) = IF \E b \in 1..Len(w) : Decimal(w, b, 0)
                        THEN "variable" ELSE visitPrimaryExpression(w)
<1>. DEFINE EndsInPoint == \E b \in 1..Len(w) : Decimal(w, b, 0)
<1>1. /\ ~(intRegex(w) /\ generatorFloatRegex(w))
      /\ ~(intRegex(w) /\ Truth(w)) /\ ~(generatorFloatRegex(w) /\ Truth(w))
      /\ analyzerFloatRegex(w) => generatorFloatRegex(w)
  BY OneReading
<1>2. ASSUME EndsInPoint
      PROVE  ~intRegex(w) /\ ~analyzerFloatRegex(w) /\ ~Truth(w)
  <2>1. PICK b \in 1..Len(w) : Decimal(w, b, 0)
    BY <1>2
  <2>2. ~intRegex(w) /\ w \notin Seq(Letters) /\ \A c, d : Decimal(w, c, d) => d = 0
    BY <2>1, DecimalFacts
  <2>3. ~analyzerFloatRegex(w)
    BY <2>2 DEF analyzerFloatRegex
  <2>. QED  BY <2>2, <2>3, TruthsAreWords
<1>3. ASSUME ~EndsInPoint, generatorFloatRegex(w)
      PROVE  analyzerFloatRegex(w)
  <2>1. PICK b, a \in 0..Len(w) : Decimal(w, b, a) /\ (a > 0 \/ b > 0)
    BY <1>3 DEF generatorFloatRegex
  <2>2. a > 0
    <3>1. CASE a = 0
      <4>1. b \in 1..Len(w)
        BY <2>1, <3>1
      <4>. QED  BY <1>3, <2>1, <3>1, <4>1
    <3>. QED  BY <2>1, <3>1
  <2>. QED  BY <2>1, <2>2 DEF analyzerFloatRegex
<1>. HIDE DEF EndsInPoint
<1>4. CASE EndsInPoint
  <2>1. getType(w) = "variable"
    BY <1>2, <1>4 DEF getType
  <2>. QED  BY <1>4, <2>1 DEF EndsInPoint
<1>5. CASE ~EndsInPoint
  <2>1. analyzerFloatRegex(w) <=> generatorFloatRegex(w)
    BY <1>1, <1>3, <1>5
  <2>2. getType(w) = visitPrimaryExpression(w)
    <3>1. CASE intRegex(w)
      BY <1>1, <2>1, <3>1 DEF getType, visitPrimaryExpression
    <3>2. CASE generatorFloatRegex(w)
      BY <1>1, <2>1, <3>2 DEF getType, visitPrimaryExpression
    <3>3. CASE Truth(w)
      BY <1>1, <2>1, <3>3 DEF getType, visitPrimaryExpression
    <3>4. CASE ~intRegex(w) /\ ~generatorFloatRegex(w) /\ ~Truth(w)
      BY <2>1, <3>4 DEF getType, visitPrimaryExpression
    <3>. QED  BY <3>1, <3>2, <3>3, <3>4
  <2>. QED  BY <1>5, <2>2 DEF EndsInPoint
<1>. QED  BY <1>4, <1>5
-----------------------------------------------------------------------------
Lexeme(from, after) == SubSeq(text, from, after - 1)

LEMMA LexemeFacts ==
  ASSUME IInv, NEW from \in Nat, NEW after \in Nat, from >= 1, from <= after,
         after <= Len(text) + 1
  PROVE  LET w == Lexeme(from, after) IN
         /\ w \in Seq(Chars) /\ Len(w) \in Nat /\ Len(w) = after - from
         /\ \A i \in 1..Len(w) : w[i] = text[from + i - 1] /\ from + i - 1 \in from..after - 1
         /\ \A p \in from..after - 1 : p - from + 1 \in 1..Len(w) /\ w[p - from + 1] = text[p]
<1>. DEFINE w == Lexeme(from, after)
<1>1. text \in Seq(Chars) /\ Len(text) \in Nat /\ after - 1 \in Int /\ from \in Int
  BY DEF IInv, TypeOK
<1>2. \A i \in from..after - 1 : text[i] \in Chars
  <2>1. \A i \in from..after - 1 : i \in 1..Len(text)
    BY <1>1
  <2>. QED  BY <1>1, <2>1, ElementOfSeq
<1>3. /\ w \in Seq(Chars)
      /\ Len(w) = IF from <= after - 1 THEN after - 1 - from + 1 ELSE 0
      /\ \A i \in 1..(after - 1 - from + 1) : w[i] = text[from + i - 1]
  BY <1>1, <1>2, SubSeqProperties DEF Lexeme
<1>. HIDE DEF w
<1>4. Len(w) \in Nat /\ Len(w) = after - from
  BY <1>1, <1>3
<1>5. after - 1 - from + 1 = after - from
  BY <1>1
<1>6. \A i \in 1..Len(w) : w[i] = text[from + i - 1] /\ from + i - 1 \in from..after - 1
  BY <1>1, <1>3, <1>4, <1>5
<1>7. ASSUME NEW p \in from..after - 1
      PROVE  p - from + 1 \in 1..Len(w) /\ w[p - from + 1] = text[p]
  <2>1. p - from + 1 \in 1..Len(w) /\ from + (p - from + 1) - 1 = p
    BY <1>4
  <2>. QED  BY <1>6, <2>1
<1>8. w \in Seq(Chars)
  BY <1>3
<1>. QED  BY <1>4, <1>6, <1>7, <1>8 DEF w

LEMMA LexemeOf ==
  ASSUME IInv, NEW from \in Nat, NEW after \in Nat, from >= 1, from <= after,
         after <= Len(text) + 1, NEW S, Within(from, after, S)
  PROVE  Lexeme(from, after) \in Seq(S)
<1>. DEFINE w == Lexeme(from, after)
<1>1. /\ w \in Seq(Chars) /\ Len(w) \in Nat
      /\ \A i \in 1..Len(w) : w[i] = text[from + i - 1] /\ from + i - 1 \in from..after - 1
  BY LexemeFacts
<1>. HIDE DEF w
<1>2. \A i \in 1..Len(w) : w[i] \in S
  BY <1>1 DEF Within
<1>3. w \in [1..Len(w) -> S]
  BY <1>1, <1>2, LenProperties
<1>4. w \in Seq(S)
  BY <1>1, <1>3, SeqDef
<1>. QED  BY <1>4 DEF w

\* A spelling is a matter of the text.
LEMMA SpellingKept ==
  ASSUME text' = text
  PROVE  /\ \A t : Spelled(t) => Spelled(t)'
         /\ \A from, after, S : Within(from, after, S) => Within(from, after, S)'
         /\ \A from, after : Decimals(from, after) => Decimals(from, after)'
BY DEF Spelled, Within, Decimals, lexeme, Truth

SpellInv == LongInv /\ SpelledSoFar /\ AllSpelled

\* A turn of a loop of a kind that AllSpelled does not ask about.
LEMMA SpellTurn ==
  ASSUME SpellInv, text' = text, tokens' = tokens,
         method' \notin {"identifier", "number", "fraction"}
  PROVE  SpelledSoFar' /\ AllSpelled'
BY SpellingKept DEF SpellInv, SpelledSoFar, AllSpelled

LEMMA SpellReturn ==
  ASSUME SpellInv, NEW kind \in Stream!Kinds, NEW from \in Nat, NEW after \in Nat, NEW to,
         Return(kind, from, after, to),
         kind \in PrimaryKinds /\ after <= Len(text) + 1
           => Spelled([kind |-> kind, from |-> from, after |-> after])
  PROVE  SpelledSoFar' /\ AllSpelled'
<1>. DEFINE token == [kind |-> kind, from |-> from, after |-> after]
            n == Len(tokens) + 1
<1>1. /\ \A i \in 1..Len(tokens) : i \in 1..Len(tokens') /\ tokens'[i] = tokens[i]
      /\ \A i \in 1..Len(tokens') : i \in 1..Len(tokens) \/ i = n
      /\ tokens'[n] = token
      /\ method' = "idle" /\ text' = text
  <2>1. IInv
    BY DEF SpellInv, LongInv
  <2>. QED  BY <2>1, TokenAdded
<1>2. token.kind = kind /\ token.after = after
  OBVIOUS
<1>3. kind \in PrimaryKinds /\ after <= Len(text) + 1 => Spelled(token)
  OBVIOUS
<1>. HIDE DEF token, n
<1>4. ASSUME NEW i \in 1..Len(tokens'), tokens'[i].kind \in PrimaryKinds,
             tokens'[i].after <= Len(text) + 1
      PROVE  Spelled(tokens'[i])
  <2>1. CASE i \in 1..Len(tokens)
    BY <1>1, <1>4, <2>1 DEF SpellInv, AllSpelled
  <2>2. CASE i = n
    BY <1>1, <1>2, <1>3, <1>4, <2>2
  <2>. QED  BY <1>1, <2>1, <2>2
<1>5. AllSpelled'
  BY <1>1, <1>4, SpellingKept DEF AllSpelled
<1>6. SpelledSoFar'
  BY <1>1 DEF SpelledSoFar
<1>. QED  BY <1>5, <1>6

LEMMA NoPrimaries ==
  /\ {"End", "Unexpected", "Slash", "ArrayAdd", "ArrayRemove", "Dot", "LessThanEqual",
      "GreaterThanEqual", "Arrow"} \cap PrimaryKinds = {}
  /\ \A c \in Atoms : AtomKind(c) \notin PrimaryKinds
<1>1. ASSUME NEW c \in Atoms PROVE AtomKind(c) \in Stream!AtomKinds
  BY <1>1, ZenonT(60) DEF Atoms, AtomKind, Stream!AtomKinds
<1>2. Stream!AtomKinds \cap PrimaryKinds = {}
  BY DEF Stream!AtomKinds, PrimaryKinds
<1>3. {"End", "Unexpected", "Slash", "ArrayAdd", "ArrayRemove", "Dot", "LessThanEqual",
       "GreaterThanEqual", "Arrow"} \cap PrimaryKinds = {}
  BY DEF PrimaryKinds
<1>. QED  BY <1>1, <1>2, <1>3

\* Steps of next itself, and those that know no primary.
LEMMA SpellNext ==
  ASSUME SpellInv, \/ SkipSpace \/ ReadEnd \/ ReadAtom \/ ReadPair \/ slash_or_comment
                   \/ EnterString \/ ReadUnexpected \/ SkipComment \/ ReadDot \/ ReadPastEnd
  PROVE  SpelledSoFar' /\ AllSpelled'
<1>1. /\ cursor \in Nat /\ cursor + 1 \in Nat /\ cursor + 2 \in Nat /\ Len(text) \in Nat
      /\ cursor + 1 + 1 \in Nat
      /\ cursor + 1 + Len(AddCall) \in Nat /\ cursor + 1 + Len(RemoveCall) \in Nat
  BY CharsAssumption DEF SpellInv, LongInv, IInv, TypeOK
<1>2. ASSUME NEW kind \in Stream!Kinds, NEW from \in Nat, NEW after \in Nat, NEW to,
             Return(kind, from, after, to), kind \notin PrimaryKinds
      PROVE  SpelledSoFar' /\ AllSpelled'
  BY <1>2, SpellReturn
<1>3. ASSUME NEW m \in {"next", "comment", "string"}, NEW from, NEW to,
             Continue(m, to) \/ Enter(m, from, to)
      PROVE  SpelledSoFar' /\ AllSpelled'
  <2>1. text' = text /\ tokens' = tokens /\ method' = m
    BY <1>3 DEF Continue, Enter
  <2>. QED  BY <2>1, SpellTurn
<1>4. CASE SkipSpace \/ SkipComment \/ EnterString
  BY <1>3, <1>4 DEF SkipSpace, SkipComment, EnterString
<1>5. CASE ReadEnd \/ ReadUnexpected
  BY <1>1, <1>2, <1>5, KindsOfTokens, NoPrimaries DEF ReadEnd, ReadUnexpected
<1>6. CASE ReadAtom
  <2>1. AtomKind(peek) \in Stream!Kinds /\ AtomKind(peek) \notin PrimaryKinds
    BY <1>6, KindsOfTokens, NoPrimaries DEF ReadAtom
  <2>. QED  BY <1>1, <1>2, <1>6, <2>1 DEF ReadAtom
<1>7. CASE ReadPair
  <2>. DEFINE kind == PairKind(peek, At(cursor + 1))
  <2>1. kind \in {"LessThanEqual", "GreaterThanEqual", "Arrow"}
    BY <1>7 DEF ReadPair, PairKind
  <2>2. Return(kind, cursor, cursor + 2, cursor + 2)
    BY <1>7 DEF ReadPair
  <2>. HIDE DEF kind
  <2>. QED  BY <1>1, <1>2, <2>1, <2>2, KindsOfTokens, NoPrimaries
<1>8. CASE slash_or_comment
  <2>1. Continue("comment", cursor + 1) \/ Return("Slash", cursor, cursor + 1, cursor + 1)
    BY <1>8 DEF slash_or_comment
  <2>. QED  BY <1>1, <1>2, <1>3, <2>1, KindsOfTokens, NoPrimaries
<1>9. CASE ReadDot
  <2>1. PICK kind \in {"ArrayAdd", "ArrayRemove", "Dot"}, from, after \in Nat :
          Return(kind, from, after, after)
    BY <1>1, <1>9 DEF ReadDot
  <2>. QED  BY <1>2, <2>1, KindsOfTokens, NoPrimaries
<1>10. CASE ReadPastEnd
  <2>1. PICK kind \in Stream!Kinds : Return(kind, cursor, cursor, cursor)
    BY <1>10, CharsAssumption DEF ReadPastEnd
  <2>2. ~(cursor <= Len(text) + 1)
    BY <1>1, <1>10 DEF ReadPastEnd
  <2>. QED  BY <1>1, <2>1, <2>2, SpellReturn
<1>. QED  BY <1>4, <1>5, <1>6, <1>7, <1>8, <1>9, <1>10

\* One character more.
LEMMA Longer ==
  ASSUME NEW from \in Nat, NEW after \in Nat, NEW S
  PROVE  /\ Within(from, after, S) /\ text[after] \in S => Within(from, after + 1, S)
         /\ Within(from, from, S)
<1>1. \A p \in from..after + 1 - 1 : p \in from..after - 1 \/ p = after
  OBVIOUS
<1>2. \A p \in from..from - 1 : FALSE
  OBVIOUS
<1>. QED  BY <1>1, <1>2 DEF Within

LEMMA SpellWords ==
  ASSUME SpellInv, EnterIdentifier \/ identifier
  PROVE  SpelledSoFar' /\ AllSpelled'
<1>1. /\ cursor \in Nat /\ start \in Nat /\ Len(text) \in Nat /\ cursor <= Len(text) + 1
      /\ cursor >= 1 /\ cursor + 1 \in Nat /\ IInv
  BY DEF SpellInv, LongInv, IInv, TypeOK, In, EnterIdentifier, identifier
<1>2. ASSUME peek \in Letters PROVE cursor <= Len(text) /\ text[cursor] \in Letters
  BY <1>1, <1>2, NULIsNoLetter DEF peek, At
<1>3. ASSUME NEW b \in Nat, NEW c \in Nat, text' = text, tokens' = tokens, method' = "identifier",
             start' = b, cursor' = c, b >= 1, b <= c, Within(b, c, Letters)
      PROVE  SpelledSoFar' /\ AllSpelled'
  <2>1. AllSpelled'
    BY <1>3, SpellingKept DEF SpellInv, AllSpelled
  <2>2. SpelledSoFar'
    BY <1>3, SpellingKept DEF SpelledSoFar
  <2>. QED  BY <2>1, <2>2
<1>4. CASE EnterIdentifier
  BY <1>1, <1>3, <1>4, Longer DEF EnterIdentifier, Enter
<1>5. CASE identifier
  <2>. DEFINE word == SubSeq(text, start, cursor - 1)
              kind == IF word \in DOMAIN KeywordOf THEN KeywordOf[word] ELSE "Identifier"
              t == [kind |-> kind, from |-> start, after |-> cursor]
  <2>1. start >= 1 /\ start <= cursor /\ Within(start, cursor, Letters)
    BY <1>5 DEF SpellInv, SpelledSoFar, identifier, In
  <2>2. CASE peek \in Letters
    <3>1. Continue("identifier", cursor + 1)
      BY <1>5, <2>2 DEF identifier
    <3>2. Within(start, cursor + 1, Letters) /\ start <= cursor + 1
      BY <1>1, <1>2, <2>1, <2>2, Longer
    <3>. QED  BY <1>1, <1>3, <2>1, <3>1, <3>2 DEF Continue
  <2>3. CASE peek \notin Letters
    <3>1. Return(kind, start, cursor, cursor)
      BY <1>5, <2>3 DEF identifier
    <3>2. kind \in Stream!Kinds
      BY CharsAssumption, KindsOfTokens DEF Stream!Kinds
    <3>3. t.kind = kind /\ t.from = start /\ t.after = cursor /\ lexeme(t) = word
      BY DEF lexeme
    <3>4. kind \in {"Identifier", "True", "False"} => (kind # "Identifier" <=> Truth(word))
      <4>1. CASE word \in DOMAIN KeywordOf
        <5>1. KeywordOf[word] # "Identifier"
          BY <4>1, CharsAssumption DEF Stream!KeywordKinds
        <5>. QED  BY <4>1, <5>1 DEF Truth
      <4>2. CASE word \notin DOMAIN KeywordOf
        BY <4>2 DEF Truth
      <4>. QED  BY <4>1, <4>2
    <3>5. kind \notin {"Number", "FloatLiteral"}
      <4>1. KeywordOf[word] \notin {"Number", "FloatLiteral"} \/ word \notin DOMAIN KeywordOf
        BY CharsAssumption DEF Stream!KeywordKinds
      <4>. QED  BY <4>1
    <3>. HIDE DEF t, kind, word
    <3>6. Spelled(t)
      BY <2>1, <3>3, <3>4, <3>5 DEF Spelled
    <3>. QED  BY <1>1, <3>1, <3>2, <3>6, SpellReturn DEF t
  <2>. QED  BY <2>2, <2>3
<1>. QED  BY <1>4, <1>5

LEMMA SpellNumbers ==
  ASSUME SpellInv, EnterNumber \/ number \/ Fraction
  PROVE  SpelledSoFar' /\ AllSpelled'
<1>1. /\ cursor \in Nat /\ start \in Nat /\ Len(text) \in Nat /\ cursor <= Len(text) + 1
      /\ cursor >= 1 /\ cursor + 1 \in Nat /\ IInv
  BY DEF SpellInv, LongInv, IInv, TypeOK, In, EnterNumber, number, Fraction
<1>2. ASSUME peek \in Digits \cup {"."} PROVE cursor <= Len(text) /\ text[cursor] = peek
  BY <1>1, <1>2, NULIsNoLetter DEF peek, At, NUL
<1>3. ASSUME NEW b \in Nat, NEW c \in Nat, text' = text, tokens' = tokens,
             start' = b, cursor' = c, b >= 1, b <= c,
             \/ method' = "number" /\ b < c /\ Within(b, c, Digits)
             \/ method' = "fraction" /\ Decimals(b, c)
      PROVE  SpelledSoFar' /\ AllSpelled'
  <2>1. AllSpelled'
    BY <1>3, SpellingKept DEF SpellInv, AllSpelled
  <2>2. /\ method' = "number" => Within(b, c, Digits)' /\ b < c
        /\ method' = "fraction" => Decimals(b, c)'
    BY <1>3, SpellingKept
  <2>3. SpelledSoFar'
    BY <1>3, <2>2 DEF SpelledSoFar
  <2>. QED  BY <2>1, <2>3
<1>4. CASE EnterNumber
  <2>1. /\ peek \in Digits /\ text' = text /\ tokens' = tokens /\ start' = cursor
        /\ cursor' = cursor + 1 /\ method' = "number"
    BY <1>4 DEF EnterNumber, Enter
  <2>2. Within(cursor, cursor + 1, Digits) /\ cursor <= cursor + 1 /\ cursor < cursor + 1
    BY <1>1, <1>2, <2>1, Longer
  <2>. QED  BY <1>1, <1>3, <2>1, <2>2
<1>5. CASE number
  <2>1. start >= 1 /\ start < cursor /\ Within(start, cursor, Digits) /\ start <= cursor + 1
        /\ start <= cursor /\ start < cursor + 1
    <3>1. start >= 1 /\ start < cursor /\ Within(start, cursor, Digits)
      BY <1>5 DEF SpellInv, SpelledSoFar, number, In
    <3>. QED  BY <1>1, <3>1
  <2>2. CASE peek \in Digits
    <3>1. /\ text' = text /\ tokens' = tokens /\ start' = start
          /\ cursor' = cursor + 1 /\ method' = "number"
      BY <1>5, <2>2, CharsToldApart DEF number, Continue
    <3>2. Within(start, cursor + 1, Digits)
      BY <1>1, <1>2, <2>1, <2>2, Longer
    <3>. QED  BY <1>1, <1>3, <2>1, <3>1, <3>2
  <2>3. CASE peek \notin Digits /\ peek = "."
    <3>1. /\ text' = text /\ tokens' = tokens /\ start' = start
          /\ cursor' = cursor + 1 /\ method' = "fraction"
      BY <1>5, <2>3 DEF number, Continue
    <3>2. text[cursor] = "."
      BY <1>2, <2>3
    <3>3. cursor \in start + 1..cursor + 1 - 1 /\ Within(cursor + 1, cursor + 1, Digits)
      BY <1>1, <2>1, Longer
    <3>. DEFINE c == cursor + 1
    <3>. PICK d \in Nat : d = cursor
      BY <1>1
    <3>4. /\ d \in start + 1..c - 1 /\ text[d] = "."
          /\ Within(start, d, Digits) /\ Within(d + 1, c, Digits)
      BY <2>1, <3>2, <3>3
    <3>. HIDE DEF c
    <3>5. Decimals(start, c)
      BY <3>4 DEF Decimals
    <3>. QED  BY <1>1, <1>3, <2>1, <3>1, <3>5 DEF c
  <2>4. CASE peek \notin Digits /\ peek # "."
    <3>. DEFINE t == [kind |-> "Number", from |-> start, after |-> cursor]
    <3>1. Return("Number", start, cursor, cursor)
      BY <1>5, <2>4 DEF number
    <3>2. t.kind = "Number" /\ t.from = start /\ t.after = cursor
      OBVIOUS
    <3>. HIDE DEF t
    <3>3. Spelled(t)
      BY <2>1, <3>2 DEF Spelled
    <3>. QED  BY <1>1, <3>1, <3>3, SpellReturn, KindsOfTokens DEF t
  <2>. QED  BY <2>2, <2>3, <2>4
<1>6. CASE Fraction
  <2>1. start >= 1 /\ start <= cursor /\ Decimals(start, cursor) /\ start <= cursor + 1
    <3>1. start >= 1 /\ start <= cursor /\ Decimals(start, cursor)
      BY <1>6 DEF SpellInv, SpelledSoFar, Fraction, In
    <3>. QED  BY <1>1, <3>1
  <2>2. CASE peek \in Digits
    <3>1. /\ text' = text /\ tokens' = tokens /\ start' = start
          /\ cursor' = cursor + 1 /\ method' = "fraction"
      BY <1>6, <2>2 DEF Fraction, Continue
    <3>2. PICK d \in start + 1..cursor - 1 : /\ text[d] = "." /\ Within(start, d, Digits)
                                             /\ Within(d + 1, cursor, Digits)
      BY <2>1 DEF Decimals
    <3>3. Within(d + 1, cursor + 1, Digits)
      <4>1. d + 1 \in Nat
        BY <1>1
      <4>. QED  BY <1>1, <1>2, <2>2, <3>2, <4>1, Longer
    <3>. DEFINE c == cursor + 1
    <3>4. /\ d \in start + 1..c - 1 /\ text[d] = "."
          /\ Within(start, d, Digits) /\ Within(d + 1, c, Digits)
      BY <1>1, <3>2, <3>3
    <3>. HIDE DEF c
    <3>5. Decimals(start, c)
      BY <3>4 DEF Decimals
    <3>. QED  BY <1>1, <1>3, <2>1, <3>1, <3>5 DEF c
  <2>3. CASE peek \notin Digits
    <3>. DEFINE t == [kind |-> "FloatLiteral", from |-> start, after |-> cursor]
    <3>1. Return("FloatLiteral", start, cursor, cursor)
      BY <1>6, <2>3 DEF Fraction
    <3>2. t.kind = "FloatLiteral" /\ t.from = start /\ t.after = cursor
      OBVIOUS
    <3>. HIDE DEF t
    <3>3. Spelled(t)
      BY <2>1, <3>2 DEF Spelled
    <3>. QED  BY <1>1, <3>1, <3>3, SpellReturn, KindsOfTokens DEF t
  <2>. QED  BY <2>2, <2>3
<1>. QED  BY <1>4, <1>5, <1>6

LEMMA SpellStrings == SpellInv /\ string_literal => SpelledSoFar' /\ AllSpelled'
<1>. SUFFICES ASSUME SpellInv, string_literal PROVE SpelledSoFar' /\ AllSpelled'
  OBVIOUS
<1>1. /\ cursor \in Nat /\ start \in Nat /\ start >= 1 /\ start <= cursor /\ cursor + 1 \in Nat
  BY DEF SpellInv, LongInv, IInv, TypeOK, StringSoFar, string_literal, In
<1>2. \/ Continue("string", cursor + 1) \/ Continue("string", cursor + 2)
      \/ Return("Unexpected", start, cursor, cursor)
      \/ Return("StringLiteral", start, cursor, cursor + 1)
  BY DEF string_literal
<1>3. CASE Continue("string", cursor + 1) \/ Continue("string", cursor + 2)
  <2>1. text' = text /\ tokens' = tokens /\ method' = "string"
    BY <1>3 DEF Continue
  <2>. QED  BY <2>1, SpellTurn
<1>4. CASE Return("Unexpected", start, cursor, cursor)
  BY <1>1, <1>4, SpellReturn, KindsOfTokens, NoPrimaries
<1>5. CASE Return("StringLiteral", start, cursor, cursor + 1)
  <2>. DEFINE t == [kind |-> "StringLiteral", from |-> start, after |-> cursor]
  <2>1. t.kind = "StringLiteral" /\ t.from = start /\ t.after = cursor
    OBVIOUS
  <2>. HIDE DEF t
  <2>2. Spelled(t)
    BY <1>1, <2>1 DEF Spelled
  <2>. QED  BY <1>1, <1>5, <2>2, SpellReturn, KindsOfTokens DEF t
<1>. QED  BY <1>2, <1>3, <1>4, <1>5

LEMMA SpellStep == SpellInv /\ [Next]_vars => SpellInv'
<1>. SUFFICES ASSUME SpellInv, [Next]_vars PROVE SpelledSoFar' /\ AllSpelled'
  BY LongStep DEF SpellInv
<1>1. CASE Call
  <2>1. text' = text /\ tokens' = tokens /\ method' = "next"
    BY <1>1 DEF Call
  <2>. QED  BY <2>1, SpellTurn
<1>2. CASE UNCHANGED vars
  <2>1. AllSpelled'
    BY <1>2, SpellingKept DEF vars, SpellInv, AllSpelled
  <2>2. SpelledSoFar'
    BY <1>2 DEF vars, SpellInv, SpelledSoFar, Within, Decimals
  <2>. QED  BY <2>1, <2>2
<1>3. CASE Step
  BY <1>3, SpellNext, SpellWords, SpellNumbers, SpellStrings DEF Step
<1>. QED  BY <1>1, <1>2, <1>3 DEF Next, Rest

LEMMA Inside ==
  ASSUME NEW n \in Nat, NEW p \in 1..n, p > 1
  PROVE  p - 1 \in 0..n /\ n - p \in 0..n /\ p - 1 > 0 /\ 1 \in 1..n /\ 1 # p
OBVIOUS

\* What the spelling of a token's lexeme makes of it.
LEMMA SpelledReads ==
  ASSUME SpellInv, NEW i \in 1..Len(tokens), tokens[i].kind \in PrimaryKinds,
         tokens[i].after <= Len(text) + 1
  PROVE  LET t == tokens[i]
             w == lexeme(t)
         IN  /\ w \in Seq(Chars) /\ ~stringRegex(w)
             /\ t.kind = "Number"            => visitPrimaryExpression(w) = "int"
             /\ t.kind = "FloatLiteral"      => visitPrimaryExpression(w) = "float"
             /\ t.kind \in {"True", "False"} => visitPrimaryExpression(w) = "bool"
             /\ t.kind = "Identifier"        => visitPrimaryExpression(w) = "variable"
<1>. DEFINE t == tokens[i]
            from == t.from
            after == t.after
            w == Lexeme(from, after)
<1>1. t \in Token /\ from \in Nat /\ after \in Nat /\ IInv
  BY ElementOfSeq, EndsOfTokens DEF SpellInv, LongInv, IInv, TypeOK, Token
<1>2. Spelled(t) /\ t.after <= Len(text) + 1 /\ t.kind \in PrimaryKinds /\ IsLongest(t)
  BY DEF SpellInv, AllSpelled, LongInv, LongestMatch
<1>3. /\ from >= 1 /\ from <= after /\ after <= Len(text) + 1
      /\ t.from = from /\ t.after = after /\ lexeme(t) = w
  BY <1>2 DEF Spelled, lexeme, Lexeme
<1>. HIDE DEF t, from, after
<1>4. /\ w \in Seq(Chars) /\ Len(w) \in Nat /\ Len(w) = after - from
      /\ \A k \in 1..Len(w) : w[k] = text[from + k - 1]
                              /\ from + k - 1 \in from..after - 1
      /\ \A p \in from..after - 1 : p - from + 1 \in 1..Len(w)
                                        /\ w[p - from + 1] = text[p]
  BY <1>1, <1>3, LexemeFacts
<1>5. /\ ~(intRegex(w) /\ generatorFloatRegex(w))
      /\ ~(intRegex(w) /\ Truth(w)) /\ ~(generatorFloatRegex(w) /\ Truth(w))
  BY <1>4, OneReading
<1>6. ASSUME t.kind \in {"Identifier", "True", "False"}
      PROVE  /\ w \in Seq(Letters) /\ ~stringRegex(w)
             /\ ~intRegex(w) /\ ~generatorFloatRegex(w)
             /\ t.kind # "Identifier" <=> Truth(w)
  <2>1. Within(from, after, Letters) /\ (t.kind # "Identifier" <=> Truth(w))
    BY <1>2, <1>3, <1>6 DEF Spelled
  <2>2. w \in Seq(Letters)
    BY <1>1, <1>3, <2>1, LexemeOf
  <2>. QED  BY <2>1, <2>2, WordsReadAsWords
<1>7. ASSUME t.kind = "Number"
      PROVE  intRegex(w) /\ ~stringRegex(w)
  <2>1. Within(from, after, Digits) /\ from < after
    BY <1>2, <1>3, <1>7 DEF Spelled
  <2>2. w \in Seq(Digits) /\ w # <<>> /\ Len(w) > 0
    BY <1>1, <1>3, <1>4, <2>1, LexemeOf, EmptySeq
  <2>3. \A k \in 1..Len(w) : w[k] \in Digits
    BY <2>2, ElementOfSeq
  <2>4. w[1] \in Digits
    BY <2>2, FirstOf
  <2>5. Unsigned(w) = w
    BY <2>2, <2>4, CharsToldApart, UnsignedFacts
  <2>. QED  BY <2>2, <2>3, <2>4, <2>5, CharsToldApart DEF intRegex, DigitsOnly, stringRegex
<1>8. ASSUME t.kind = "FloatLiteral"
      PROVE  generatorFloatRegex(w) /\ ~stringRegex(w)
  <2>1. PICK d \in from + 1..after - 1 :
          text[d] = "." /\ Within(from, d, Digits) /\ Within(d + 1, after, Digits)
    BY <1>2, <1>3, <1>8 DEF Spelled, Decimals
  <2>. DEFINE p == d - from + 1
              b == p - 1
              a == Len(w) - p
  <2>2. /\ p \in 1..Len(w) /\ w[p] = "." /\ b \in 0..Len(w) /\ a \in 0..Len(w) /\ b > 0
        /\ 1 \in 1..Len(w) /\ 1 # p
    <3>1. d \in from..after - 1 /\ p > 1 /\ p \in Int
      BY <1>1, <2>1
    <3>2. p \in 1..Len(w) /\ w[p] = text[d]
      BY <1>4, <3>1
    <3>. HIDE DEF p
    <3>3. Len(w) \in Nat /\ w[p] = "."
      BY <1>4, <2>1, <3>2
    <3>. HIDE DEF w
    <3>. QED  BY <3>1, <3>2, <3>3, Inside
  <2>3. ASSUME NEW k \in 1..Len(w), k # p
        PROVE  w[k] \in Digits
    <3>1. w[k] = text[from + k - 1] /\ from + k - 1 \in from..after - 1
      BY <1>4
    <3>2. from + k - 1 \in from..d - 1 \/ from + k - 1 \in d + 1..after - 1
      BY <1>1, <2>1, <2>3, <3>1
    <3>. QED  BY <2>1, <3>1, <3>2 DEF Within
  <2>. HIDE DEF p
  <2>4. w[1] \in Digits
    BY <2>2, <2>3
  <2>5. Unsigned(w) = w
    BY <1>4, <2>4, CharsToldApart, UnsignedFacts
  <2>6. Decimal(w, b, a)
    BY <2>2, <2>3, <2>5 DEF Decimal
  <2>. HIDE DEF a, b
  <2>7. generatorFloatRegex(w)
    BY <2>2, <2>6 DEF generatorFloatRegex, b
  <2>. QED  BY <2>4, <2>7, CharsToldApart DEF stringRegex
<1>9. ASSUME t.kind = "StringLiteral"
      PROVE  ~stringRegex(w)
  <2>1. \A p \in from..after - 1 : text[p] = Quote => p > from
    BY <1>2, <1>3, <1>9 DEF IsLongest
  <2>2. ASSUME Len(w) > 1 PROVE w[1] # Quote
    <3>1. from \in from..after - 1 /\ 1 \in 1..Len(w) /\ from + 1 - 1 = from
      BY <1>1, <1>4, <2>2
    <3>2. w[1] = text[from]
      BY <1>4, <3>1
    <3>. QED  BY <1>1, <2>1, <3>1, <3>2
  <2>. QED  BY <2>2 DEF stringRegex
<1>10. t.kind \in {"Identifier", "Number", "FloatLiteral", "StringLiteral", "True", "False"}
  BY <1>2 DEF PrimaryKinds
<1>. HIDE DEF w
<1>11. ~stringRegex(w)
  BY <1>6, <1>7, <1>8, <1>9, <1>10
<1>12. t.kind = "Number" => visitPrimaryExpression(w) = "int"
  BY <1>5, <1>7 DEF visitPrimaryExpression
<1>13. t.kind = "FloatLiteral" => visitPrimaryExpression(w) = "float"
  BY <1>5, <1>8 DEF visitPrimaryExpression
<1>14. t.kind \in {"True", "False"} => visitPrimaryExpression(w) = "bool"
  BY <1>5, <1>6 DEF visitPrimaryExpression
<1>15. t.kind = "Identifier" => visitPrimaryExpression(w) = "variable"
  BY <1>6 DEF visitPrimaryExpression
<1>. QED  BY <1>4, <1>11, <1>12, <1>13, <1>14, <1>15, <1>3 DEF t

\* Analyzer and generator agree on every lexeme that the parser takes for a
\* literal or a name, whatever the text, but for decimals that end in a point,
\* and neither ever sees a string as one.
THEOREM LexemesAreReadAlike == Spec => []LexemesReadAlike
<1>1. Init => SpellInv
  <2>. SUFFICES ASSUME Init PROVE SpellInv
    OBVIOUS
  <2>1. Len(tokens) = 0 /\ method = "idle"
    BY EmptySeq DEF Init
  <2>. QED  BY <2>1, InitInv
       DEF SpellInv, LongInv, LongestMatch, StringSoFar, SpelledSoFar, AllSpelled
<1>2. SpellInv => LexemesReadAlike
  <2>. SUFFICES ASSUME SpellInv, NEW i \in 1..Len(tokens), tokens[i].kind \in PrimaryKinds,
                       tokens[i].after <= Len(text) + 1
                PROVE  LET t == tokens[i]
                           w == lexeme(t)
                           EndsInPoint == \E b \in 1..Len(w) : Decimal(w, b, 0)
                       IN  /\ getType(w) = IF EndsInPoint THEN "variable"
                                                          ELSE visitPrimaryExpression(w)
                           /\ CASE t.kind = "Number"            -> visitPrimaryExpression(w) = "int"
                                [] t.kind = "FloatLiteral"      -> visitPrimaryExpression(w) = "float"
                                [] t.kind \in {"True", "False"} -> visitPrimaryExpression(w) = "bool"
                                [] t.kind = "Identifier"        -> visitPrimaryExpression(w) = "variable"
                                [] t.kind = "StringLiteral"     -> visitPrimaryExpression(w) # "string"
    BY DEF LexemesReadAlike
  <2>. DEFINE k == tokens[i].kind
              w == lexeme(tokens[i])
              read == visitPrimaryExpression(w)
  <2>1. /\ w \in Seq(Chars) /\ ~stringRegex(w)
        /\ k = "Number"            => read = "int"
        /\ k = "FloatLiteral"      => read = "float"
        /\ k \in {"True", "False"} => read = "bool"
        /\ k = "Identifier"        => read = "variable"
    BY SpelledReads
  <2>2. read # "string"
    BY <2>1 DEF visitPrimaryExpression
  <2>3. getType(w) = IF \E b \in 1..Len(w) : Decimal(w, b, 0) THEN "variable" ELSE read
    BY <2>1, ReadAlike
  <2>4. k \in {"Identifier", "Number", "FloatLiteral", "StringLiteral", "True", "False"}
    BY DEF PrimaryKinds
  <2>. HIDE DEF read, k
  <2>. DEFINE Reads == CASE k = "Number"            -> read = "int"
                         [] k = "FloatLiteral"      -> read = "float"
                         [] k \in {"True", "False"} -> read = "bool"
                         [] k = "Identifier"        -> read = "variable"
                         [] k = "StringLiteral"     -> read # "string"
  <2>5. Reads
    BY <2>1, <2>2, <2>4
  <2>. QED  BY <2>3, <2>5 DEF read, k
<1>. QED  BY <1>1, <1>2, SpellStep, PTL DEF Spec
=============================================================================
