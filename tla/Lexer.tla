------------------------------- MODULE Lexer -------------------------------
(***************************************************************************)
(* The lexer (src/lexer/Lexer.cpp): a cursor that moves over a text, one   *)
(* call of next for each token.  The text is a sequence of characters; the *)
(* null character that ends it has the position Len(text) + 1.  A step is  *)
(* one turn of a loop or one branch of the switch in next.                 *)
(*                                                                         *)
(* Letters, digits and unknown characters are represented by a few of      *)
(* each, "add(" and "remove(" and the keywords by shorter words.           *)
(***************************************************************************)
EXTENDS Integers, Sequences

CONSTANTS Letters, Digits,     \* characters of identifiers, of numbers
          Others,              \* characters that no case of next knows, but for the backslash
          KeywordOf,           \* from the keywords, as sequences of letters, to kinds
          AddCall, RemoveCall, \* what follows the dot of a method call
          Garbage,             \* the kinds that what lies past the text may look like
          Texts,               \* the texts that are read
          ExtraCalls           \* bounds the calls of next after the text's last token

Blank     == " "
Newline   == "\n"
Quote     == "\""
Backslash == "\\"
NUL       == "NUL"

AtomKind(c) ==
  CASE c = "(" -> "LeftParen"  [] c = ")" -> "RightParen"  [] c = "[" -> "LeftSquare"
    [] c = "{" -> "LeftCurly"  [] c = "}" -> "RightCurly"  [] c = "]" -> "RightSquare"
    [] c = "<" -> "LessThan"   [] c = ">" -> "GreaterThan" [] c = "=" -> "Equal"
    [] c = "+" -> "Plus"       [] c = "-" -> "Minus"       [] c = "*" -> "Asterisk"
    [] c = "%" -> "Modulo"     [] c = "#" -> "Hash"        [] c = "," -> "Comma"
    [] c = ":" -> "Colon"      [] c = ";" -> "Semicolon"   [] c = "'" -> "SingleQuote"
    [] c = "|" -> "Pipe"
Atoms == {"(", ")", "[", "{", "}", "]", "<", ">", "=", "+", "-", "*", "%", "#",
          ",", ":", ";", "'", "|"}

PairKind(c, d) ==
  CASE c = "<" /\ d = "=" -> "LessThanEqual"
    [] c = ">" /\ d = "=" -> "GreaterThanEqual"
    [] c = "-" /\ d = ">" -> "Arrow"
    [] OTHER              -> "none"

Space   == {Blank, Newline}
Unknown == Others \cup {Backslash}
Chars == Letters \cup Digits \cup Unknown \cup Atoms \cup Space \cup {Quote, ".", "/"}

VARIABLES text,
          cursor,  \* m_beg
          method,  \* the loop under way, "next" between loops, "idle" between calls
          start,   \* where the lexeme of that loop starts, 0 if it has none
          tokens   \* what next has returned: kind, first position, position after

vars == <<text, cursor, method, start, tokens>>

\* What the tokens say, without the promise that ends at a Dot.
Stream == INSTANCE TokenStream WITH
            kinds   <- [i \in 1..Len(tokens) |-> tokens[i].kind],
            pending <- method # "idle"

ASSUME CharsAssumption ==
  /\ \A S \in {Atoms, Space, {Quote}, {"."}, {"/"}, {NUL}} :
       S \cap (Letters \cup Digits \cup Unknown) = {}
  /\ Letters \cap Digits = {} /\ (Letters \cup Digits) \cap Unknown = {}
  /\ AddCall \in Seq(Chars) /\ RemoveCall \in Seq(Chars)
  /\ Texts \subseteq Seq(Chars)
  /\ DOMAIN KeywordOf \subseteq Seq(Letters)
  /\ \A word \in DOMAIN KeywordOf : KeywordOf[word] \in Stream!KeywordKinds
  /\ Garbage \subseteq Stream!Kinds
  /\ ExtraCalls \in Nat

At(p) == IF p <= Len(text) THEN text[p] ELSE NUL
peek  == At(cursor)

\* strncmp(m_beg, word, ...) at position p.
StartsAt(word, p) == /\ p + Len(word) - 1 <= Len(text)
                     /\ SubSeq(text, p, p + Len(word) - 1) = word
-----------------------------------------------------------------------------
\* Bounds the calls: every token but the last ones takes a character.
Call == /\ method = "idle"
        /\ Len(tokens) < Len(text) + ExtraCalls
        /\ method' = "next"
        /\ UNCHANGED <<text, cursor, start, tokens>>

\* In this loop, on characters of the text or on its null character.
In(m) == method = m /\ cursor <= Len(text) + 1

Continue(m, to) == /\ method' = m /\ cursor' = to
                   /\ UNCHANGED <<text, start, tokens>>

Enter(m, from, to) == /\ method' = m /\ start' = from /\ cursor' = to
                      /\ UNCHANGED <<text, tokens>>

Return(kind, from, after, to) ==
  /\ tokens' = Append(tokens, [kind |-> kind, from |-> from, after |-> after])
  /\ method' = "idle" /\ start' = 0 /\ cursor' = to
  /\ UNCHANGED text

SkipSpace == In("next") /\ peek \in Space /\ Continue("next", cursor + 1)

ReadEnd == In("next") /\ peek = NUL /\ Return("End", cursor, cursor + 1, cursor)

ReadAtom == /\ In("next") /\ peek \in Atoms
            /\ PairKind(peek, At(cursor + 1)) = "none"
            /\ Return(AtomKind(peek), cursor, cursor + 1, cursor + 1)

ReadPair == LET kind == PairKind(peek, At(cursor + 1))
            IN  /\ In("next") /\ kind # "none"
                /\ Return(kind, cursor, cursor + 2, cursor + 2)

slash_or_comment ==
  /\ In("next") /\ peek = "/"
  /\ IF At(cursor + 1) = "/" THEN Continue("comment", cursor + 1)
                             ELSE Return("Slash", cursor, cursor + 1, cursor + 1)

\* Slips: the comment goes on over its newline; the loop does not look for the
\* end of the text; the comment becomes a token.
SkipCommentAndLine ==
  /\ In("comment")
  /\ IF peek = NUL THEN Continue("next", cursor) ELSE Continue("comment", cursor + 1)
SkipCommentPastEnd ==
  /\ In("comment")
  /\ IF peek = Newline THEN Continue("next", cursor) ELSE Continue("comment", cursor + 1)
SkipCommentAsToken ==
  /\ In("comment")
  /\ IF peek \in {NUL, Newline} THEN Return("Comment", cursor, cursor, cursor)
                                ELSE Continue("comment", cursor + 1)

\* At the end of the comment next calls itself.
SkipComment ==
  /\ In("comment")
  /\ IF peek \in {NUL, Newline} THEN Continue("next", cursor)
                                ELSE Continue("comment", cursor + 1)

\* A dot that is no method call is consumed twice: the lexeme is what follows it.
ReadDot ==
  LET at == cursor + 1
      Through(word) == at + Len(word)
  IN  /\ In("next") /\ peek = "."
      /\ CASE StartsAt(AddCall, at) ->
                Return("ArrayAdd", cursor, Through(AddCall), Through(AddCall))
           [] ~StartsAt(AddCall, at) /\ StartsAt(RemoveCall, at) ->
                Return("ArrayRemove", cursor, Through(RemoveCall), Through(RemoveCall))
           [] OTHER -> Return("Dot", at, at + 1, at + 1)

EnterIdentifier == In("next") /\ peek \in Letters /\ Enter("identifier", cursor, cursor)

identifier ==
  LET word == SubSeq(text, start, cursor - 1)
  IN  /\ In("identifier")
      /\ IF peek \in Letters
           THEN Continue("identifier", cursor + 1)
           ELSE Return(IF word \in DOMAIN KeywordOf THEN KeywordOf[word] ELSE "Identifier",
                       start, cursor, cursor)

EnterNumber == In("next") /\ peek \in Digits /\ Enter("number", cursor, cursor + 1)

number ==
  /\ In("number")
  /\ CASE peek \in Digits -> Continue("number", cursor + 1)
       [] peek = "."      -> Continue("fraction", cursor + 1)
       [] OTHER           -> Return("Number", start, cursor, cursor)

\* A slip: a fraction ends before its last digit.
FractionOfOneDigit ==
  In("fraction") /\ Return("FloatLiteral", start, cursor, cursor)

Fraction ==
  /\ In("fraction")
  /\ IF peek \in Digits THEN Continue("fraction", cursor + 1)
                        ELSE Return("FloatLiteral", start, cursor, cursor)

EnterString == In("next") /\ peek = Quote /\ Enter("string", cursor + 1, cursor + 1)

string_literal ==
  /\ In("string")
  /\ CASE peek = Quote -> Return("StringLiteral", start, cursor, cursor + 1)
       [] peek = NUL   -> Return("Unexpected", start, cursor, cursor)
       [] peek = Backslash /\ At(cursor + 1) = Quote -> Continue("string", cursor + 2)
       [] OTHER        -> Continue("string", cursor + 1)

\* A slip: it is.
ReadUnexpectedAdvance ==
  In("next") /\ peek \in Unknown /\ Return("Unexpected", cursor, cursor + 1, cursor + 1)

\* The character is not consumed.
ReadUnexpected ==
  In("next") /\ peek \in Unknown /\ Return("Unexpected", cursor, cursor + 1, cursor)

\* After a dot at the end of the text next reads what lies in memory behind it.
ReadPastEnd == /\ method = "next" /\ cursor > Len(text) + 1
               /\ \E kind \in Garbage : Return(kind, cursor, cursor, cursor)

\* The caller asks no more.
Rest == /\ method = "idle" /\ Len(tokens) = Len(text) + ExtraCalls
        /\ UNCHANGED vars

Init == /\ text \in Texts
        /\ cursor = 1
        /\ method = "idle"
        /\ start = 0
        /\ tokens = <<>>

Step == \/ SkipSpace \/ ReadEnd \/ ReadAtom \/ ReadPair
        \/ slash_or_comment \/ SkipComment \/ ReadDot
        \/ EnterIdentifier \/ identifier
        \/ EnterNumber \/ number \/ Fraction
        \/ EnterString \/ string_literal
        \/ ReadUnexpected \/ ReadPastEnd

Next == Call \/ Step \/ Rest

\* A call that was made runs to its return.
Spec == Init /\ [][Next]_vars /\ WF_vars(Step)
-----------------------------------------------------------------------------
(***************************************************************************)
(* Properties.                                                             *)
(***************************************************************************)
TypeOK ==
  /\ text \in Seq(Chars)
  /\ cursor \in Nat \ {0}
  /\ method \in {"idle", "next", "comment", "identifier", "number", "fraction", "string"}
  /\ start \in Nat
  /\ tokens \in Seq([kind : Stream!Kinds, from : Nat, after : Nat])

\* The cursor stays in the text and on the null character that ends it, unless
\* a dot stands last: next takes the null character for what follows the dot.
\* No loop overruns, whether it ends at a quote, a newline or a digit.
CursorInText ==
  \/ cursor <= Len(text) + 1
  \/ /\ cursor = Len(text) + 2
     /\ method \in {"idle", "next"}
     /\ text # <<>> /\ text[Len(text)] = "."
     /\ \E i \in 1..Len(tokens) : /\ tokens[i].kind = "Dot"
                                  /\ tokens[i].from = Len(text) + 1

\* Positions of the text that have been passed, and those in a lexeme.
Passed     == 1..(IF start # 0 THEN start ELSE cursor) - 1
InLexeme(p) == \E i \in 1..Len(tokens) : tokens[i].from <= p /\ p < tokens[i].after
InComment(p) ==
  \E q \in 1..p : /\ At(q) = "/" /\ At(q + 1) = "/" /\ ~InLexeme(q)
                  /\ \A r \in q..p : At(r) # Newline

\* No character gets lost between two tokens: what has been passed is part of a
\* lexeme, of a comment or space, is a quote around a string, or is a dot whose
\* token has the next character for its lexeme.  And no character is read twice,
\* but for the last one when the lexer stays at it.
NothingLost ==
  /\ \A p \in Passed \cap 1..Len(text) :
       \/ InLexeme(p)
       \/ text[p] \in Space \/ InComment(p)
       \/ text[p] = Quote /\ \/ p + 1 = start
                             \/ \E i \in 1..Len(tokens) :
                                  /\ tokens[i].kind \in {"StringLiteral", "Unexpected"}
                                  /\ p \in {tokens[i].from - 1, tokens[i].after}
       \/ text[p] = "." /\ \E i \in 1..Len(tokens) :
                             tokens[i].kind = "Dot" /\ tokens[i].from = p + 1
  /\ \A i, j \in 1..Len(tokens) :
       i < j => \/ tokens[i].after <= tokens[j].from
                \/ tokens[i] = tokens[j] /\ tokens[i].kind \in {"End", "Unexpected"}
                \/ cursor > Len(text) + 1

\* This token of the text is as long as it can be.
IsLongest(t) ==
  LET next       == At(t.after)
      words      == {"Identifier"} \cup {KeywordOf[w] : w \in DOMAIN KeywordOf}
      Escaped(p) == p > t.from /\ text[p - 1] = Backslash
  IN  /\ t.kind \in words => next \notin Letters
      /\ t.kind = "Number" => next \notin Digits \cup {"."}
      /\ t.kind = "FloatLiteral" => next \notin Digits
      /\ t.kind \in {"LessThan", "GreaterThan"} => next # "="
      /\ t.kind = "Minus" => next # ">"
      /\ t.kind = "Slash" => next # "/"
      /\ t.kind = "StringLiteral" =>
           /\ next = Quote /\ ~Escaped(t.after)
           /\ \A p \in t.from..t.after - 1 : text[p] = Quote => Escaped(p)

\* Every token is as long as it can be: of two that touch, the second could not
\* have been part of the first.  A string ends at the first quote that has no
\* backslash before it, whatever is before the backslash.
LongestMatch == \A i \in 1..Len(tokens) :
                  tokens[i].after <= Len(text) + 1 => IsLongest(tokens[i])

\* The lexer keeps the promise of TokenStream, that every call is answered
\* included: the parser gets the end of the text for ever once it is there, and
\* a character that no token starts with is never passed.
ImplementsTokenStream == Stream!Spec
=============================================================================
