------------------------------- MODULE Parser -------------------------------
(***************************************************************************)
(* The recursive descent parser (src/parser/Parser.cpp, the parse          *)
(* functions of src/ast/AST.cpp), pulling tokens from a lexer that keeps   *)
(* the promise of TokenStream.                                             *)
(*                                                                         *)
(* todo is the call stack: what each call under way has still to do, the   *)
(* innermost first.  Calling a parse function replaces the call by the     *)
(* function's steps; a loop is a step that calls itself again.  built      *)
(* holds the nodes that these calls have begun.  A token's lexeme is       *)
(* represented by its position in the text.                                *)
(***************************************************************************)
EXTENDS Tokens, FiniteSets

CONSTANT Vocabularies  \* of a text: the kinds of its tokens and their number

VARIABLES vocabulary,
          consumed,       \* the kinds of the tokens that advance has passed
          current, ahead, \* currentToken and nextToken
          todo, built,
          program,        \* the four lists of the Program
          status          \* "parsing", "parsed", or "failed" after a throw

vars == <<vocabulary, consumed, current, ahead, todo, built, program, status>>

Stream == INSTANCE TokenStream WITH
            kinds <- consumed \o <<current, ahead>>, pending <- FALSE

ASSUME VocabulariesAssumption ==
  \A v \in Vocabularies : v.kinds \subseteq Stream!Kinds /\ v.length \in Nat \ {0}

\* The tokens that lexer.next() may return after ks in a text of vocabulary v.
NextOf(v, ks) ==
  {k \in {"End"} \cup v.kinds :
     /\ Stream!MayFollow(ks, k)
     /\ Len(ks) >= v.length => k \in {"End", ks[Len(ks)]} \cap {"End", "Unexpected"}}

Here == Len(consumed) + 1  \* the position of the current token

\* A node of the tree: at is the position of its first lexeme.
Leaf == [node |-> "lexeme", at |-> Here, parts |-> <<>>]
-----------------------------------------------------------------------------
(***************************************************************************)
(* Steps of a parse function: to consume a token, with or without its      *)
(* lexeme, to look at a lexeme only, to call another, to begin a node, or  *)
(* one whose first part is there already, to return it, and to append it   *)
(* to a list of the program.                                               *)
(***************************************************************************)
Step(do, what) == [do |-> do, what |-> what]
Take(kind)  == Step("take", kind)
Keep(kind)  == Step("keep", kind)
Look        == Step("look", "")
Call(f)     == Step("call", f)
Begin       == Step("begin", "")
Wrap        == Step("wrap", "")
Make(node)  == Step("make", node)
File(list)  == Step("file", list)

Node(node, steps) == <<Begin>> \o steps \o <<Make(node)>>

Doing(do) == status = "parsing" /\ todo # <<>> /\ Head(todo).do = do
At(f)     == Doing("call") /\ Head(todo).what = f

\* The exception: the tree and the calls are gone.
Fail == /\ status' = "failed" /\ todo' = <<>> /\ built' = <<>>
        /\ UNCHANGED <<vocabulary, consumed, current, ahead, program>>

Does(steps) == /\ todo' = steps \o Tail(todo)
               /\ UNCHANGED <<vocabulary, consumed, current, ahead, built, program, status>>

Open      == built[Len(built)]
With(part) == [built EXCEPT ![Len(built)].parts = Append(@, part)]

\* A slip: whatever the token is.
consumeAny ==
  /\ Doing("take") \/ Doing("keep")
  /\ consumed' = Append(consumed, current)
  /\ current' = ahead
  /\ ahead' \in NextOf(vocabulary, consumed \o <<current, ahead>>)
  /\ built' = IF Doing("keep") THEN With(Leaf) ELSE built
  /\ todo' = Tail(todo)
  /\ UNCHANGED <<vocabulary, program, status>>

\* consume, with advance in it.
consume ==
  /\ Doing("take") \/ Doing("keep")
  /\ \/ /\ current = Head(todo).what
        /\ consumed' = Append(consumed, current)
        /\ current' = ahead
        /\ ahead' \in NextOf(vocabulary, consumed \o <<current, ahead>>)
        /\ built' = IF Doing("keep") THEN With(Leaf) ELSE built
        /\ todo' = Tail(todo)
        /\ UNCHANGED <<vocabulary, program, status>>
     \/ current # Head(todo).what /\ Fail

BuildNode ==
  /\ \/ Doing("look")  /\ built' = With(Leaf)
     \/ Doing("begin") /\ built' = Append(built, [node |-> "", at |-> Here, parts |-> <<>>])
     \/ /\ Doing("wrap")
        /\ LET object == Open.parts[Len(Open.parts)]
           IN  built' = Append([built EXCEPT ![Len(built)].parts = SubSeq(@, 1, Len(@) - 1)],
                               [node |-> "", at |-> object.at, parts |-> <<object>>])
     \/ /\ Doing("make")
        /\ LET rest == SubSeq(built, 1, Len(built) - 1)
               done == [Open EXCEPT !.node = Head(todo).what]
           IN  built' = [rest EXCEPT ![Len(rest)].parts = Append(@, done)]
  /\ todo' = Tail(todo)
  /\ UNCHANGED <<vocabulary, consumed, current, ahead, program, status>>

\* A slip: the list is filled from its front.
FileItemInFront ==
  /\ Doing("file")
  /\ program' = [program EXCEPT ![Head(todo).what] = <<Head(Open.parts)>> \o @]
  /\ built' = <<[Open EXCEPT !.parts = <<>>]>>
  /\ todo' = Tail(todo)
  /\ UNCHANGED <<vocabulary, consumed, current, ahead, status>>

FileItem == /\ Doing("file")
            /\ program' = [program EXCEPT ![Head(todo).what] = Append(@, Head(Open.parts))]
            /\ built' = <<[Open EXCEPT !.parts = <<>>]>>
            /\ todo' = Tail(todo)
            /\ UNCHANGED <<vocabulary, consumed, current, ahead, status>>
-----------------------------------------------------------------------------
(***************************************************************************)
(* Program and declarations.                                               *)
(***************************************************************************)
Types == {"Int", "Float", "String", "Bool"}

ListOf(kind) ==
  CASE kind \in {"Function", "Call"}                      -> "functions"
    [] kind \in Types                                     -> "declarations"
    [] kind \in {"Log", "Return", "If", "Loop", "Else"}   -> "statements"
    [] OTHER                                              -> "expressions"

ParserOf(list) ==
  CASE list = "functions"    -> "Function"  [] list = "statements"  -> "Statement"
    [] list = "declarations" -> "Declaration" [] list = "expressions" -> "Expression"

parseProgram ==
  /\ At("Program")
  /\ IF current = "End"
       THEN /\ status' = "parsed" /\ todo' = <<>>
            /\ UNCHANGED <<vocabulary, consumed, current, ahead, built, program>>
       ELSE LET list == ListOf(current)
            IN  Does(<<Call(ParserOf(list)), File(list), Call("Program")>>)

Scalar(type, node, value) ==
  Node(node, <<Take(type), Keep("Identifier"), Take("Equal"), Keep(value), Take("Semicolon")>>)

\* parseProgram calls it on one of the types only.
parseDeclaration ==
  /\ At("Declaration")
  /\ CASE current = "Int" /\ ahead = "Array" -> Does(<<Call("ArrayDeclaration")>>)
       [] current = "Int" /\ ahead # "Array" -> Does(Scalar("Int", "int", "Number"))
       [] current = "Float"                  -> Does(Scalar("Float", "float", "FloatLiteral"))
       [] current = "String"                 -> Does(Scalar("String", "string", "StringLiteral"))
       [] current = "Bool"                   -> Does(<<Call("BoolDeclaration")>>)
       [] OTHER                              -> Fail

parseBoolDeclaration ==
  /\ At("BoolDeclaration")
  /\ Does(Node("bool", <<Take("Bool"), Keep("Identifier"), Take("Equal"),
                         Call("Truth"), Take("Semicolon")>>))
parseTruth ==
  /\ At("Truth")
  /\ IF current \in {"True", "False"} THEN Does(<<Keep(current)>>) ELSE Fail

parseArrayDeclaration ==
  /\ At("ArrayDeclaration")
  /\ Does(Node("array", <<Take("Int"), Take("Array"), Keep("Identifier"), Take("Equal"),
                          Take("LeftCurly"), Call("Elements"), Take("RightCurly"),
                          Take("Semicolon")>>))

\* do { ... } while (not RightCurly), left where there is no comma.
parseElements ==
  /\ At("Elements")
  /\ Does(IF current = "RightCurly" THEN <<>> ELSE <<Call("Expression"), Call("Separator")>>)
parseSeparator ==
  /\ At("Separator")
  /\ Does(IF current = "Comma" THEN <<Take("Comma"), Call("Elements")>> ELSE <<>>)
-----------------------------------------------------------------------------
(***************************************************************************)
(* Expressions.                                                            *)
(***************************************************************************)
\* A slip: a minus ahead is left to be a sign.
parseExpressionMinusLast ==
  /\ At("Expression")
  /\ CASE current \in Types \cup {"End", "Return", "While", "For", "Function", "Call"} -> Fail
       [] current = "Identifier" /\ ahead = "Equal"    -> Does(<<Call("Assignment")>>)
       [] current \in {"Minus", "Not"}                 -> Does(<<Call("Unary")>>)
       [] current \in Operands /\ ahead \in BinaryOps \ {"Minus"} -> Does(<<Call("Binary")>>)
       [] OTHER -> Does(<<Call("Primary"), Call("Methods")>>)

\* parseBinary is called with an operator ahead only.
parseExpression ==
  /\ At("Expression")
  /\ CASE current \in Types \cup {"End", "Return", "While", "For", "Function", "Call"} -> Fail
       [] current = "Identifier" /\ ahead = "Equal"    -> Does(<<Call("Assignment")>>)
       [] current \in {"Minus", "Not"}                 -> Does(<<Call("Unary")>>)
       [] current \in Operands /\ ahead \in BinaryOps  -> Does(<<Call("Binary")>>)
       [] OTHER -> Does(<<Call("Primary"), Call("Methods")>>)

\* A slip: remove is not closed.
parseMethodCallOpen ==
  /\ At("Methods")
  /\ Does(CASE current = "ArrayAdd" ->
                 <<Wrap, Take("ArrayAdd"), Call("Expression"), Take("RightParen"),
                   Take("Semicolon"), Make("add"), Call("Methods")>>
            [] current = "ArrayRemove" ->
                 <<Wrap, Take("ArrayRemove"), Take("Semicolon"), Make("remove"), Call("Methods")>>
            [] OTHER -> <<>>)

parseMethodCall ==
  /\ At("Methods")
  /\ Does(CASE current = "ArrayAdd" ->
                 <<Wrap, Take("ArrayAdd"), Call("Expression"), Take("RightParen"),
                   Take("Semicolon"), Make("add"), Call("Methods")>>
            [] current = "ArrayRemove" ->
                 <<Wrap, Take("ArrayRemove"), Take("RightParen"),
                   Take("Semicolon"), Make("remove"), Call("Methods")>>
            [] OTHER -> <<>>)

\* Called on an identifier before an equals sign.  A parenthesis is consumed
\* after it, and none before the semicolon.
parseAssignment ==
  /\ At("Assignment")
  /\ Does(Node("assign", <<Keep("Identifier"), Take("Equal"), Call("Parenthesis"),
                           Call("Expression"), Take("Semicolon")>>))
parseParenthesis ==
  /\ At("Parenthesis")
  /\ Does(IF current = "LeftParen" THEN <<Take("LeftParen")>> ELSE <<>>)

\* A slip: the operand of a sign may have a sign.
parseUnaryNested ==
  /\ At("Unary")
  /\ Does(IF current \in {"Minus", "Not"}
            THEN Node("unary", <<Keep(current), Call("Unary")>>)
            ELSE <<Call("Primary")>>)

parseUnary ==
  /\ At("Unary")
  /\ Does(IF current \in {"Minus", "Not"}
            THEN Node("unary", <<Keep(current), Call("Primary")>>)
            ELSE <<Call("Primary")>>)

parseBinary ==
  At("Binary") /\ Does(Node("binary", <<Call("Unary"), Call("Operator"), Call("Unary")>>))
parseOperator ==
  At("Operator") /\ current \in BinaryOps /\ Does(<<Keep(current)>>)

parsePrimary ==
  /\ At("Primary")
  /\ IF current \in {"Identifier"} \cup Literals
       THEN Does(Node("primary", <<Keep(current)>>))
       ELSE Fail
-----------------------------------------------------------------------------
(***************************************************************************)
(* Statements.                                                             *)
(***************************************************************************)
parseStatement ==
  /\ At("Statement")
  /\ CASE current = "Loop"   -> Does(<<Call("LoopStatement")>>)
       [] current = "Log"    ->
            Does(Node("print", <<Take("Log"), Take("LeftParen"), Call("Unary"),
                                 Take("RightParen"), Take("Semicolon")>>))
       [] current = "If"     ->
            Does(Node("if", <<Take("If"), Take("LeftParen"), Call("Expression"),
                              Take("RightParen"), Call("Block"), Call("Else")>>))
       [] current = "Return" ->
            Does(Node("return", <<Take("Return"), Take("LeftParen"), Call("Unary"),
                                  Take("RightParen"), Take("Semicolon")>>))
       [] current \in {"For", "While", "Print"} -> Fail
       [] OTHER              -> Does(Node("statement", <<Call("Expression")>>))

parseElse == /\ At("Else")
             /\ Does(IF current = "Else" THEN <<Take("Else"), Call("Block")>> ELSE <<>>)

parseLoopStatement ==
  At("LoopStatement") /\ Does(<<Begin, Take("Loop"), Call("LoopKind")>>)
\* A slip: a while loop is not returned.
parseLoopKindUnmade ==
  /\ At("LoopKind")
  /\ CASE current = "Range" ->
            Does(<<Take("Range"), Take("LeftParen"), Call("Expression"), Take("Comma"),
                   Call("Expression"), Take("RightParen"), Call("Block"), Make("for")>>)
       [] current = "LeftParen" ->
            Does(<<Take("LeftParen"), Call("Expression"), Take("RightParen"), Call("Block")>>)
       [] OTHER -> Fail

parseLoopKind ==
  /\ At("LoopKind")
  /\ CASE current = "Range" ->
            Does(<<Take("Range"), Take("LeftParen"), Call("Expression"), Take("Comma"),
                   Call("Expression"), Take("RightParen"), Call("Block"), Make("for")>>)
       [] current = "LeftParen" ->
            Does(<<Take("LeftParen"), Call("Expression"), Take("RightParen"),
                   Call("Block"), Make("while")>>)
       [] OTHER -> Fail

parseBlock ==
  /\ At("Block")
  /\ Does(Node("block", <<Take("LeftCurly"), Call("Statements"), Take("RightCurly")>>))

\* A slip: an else without an if is passed over, and nobody consumes it.
parseStatementsOver ==
  /\ At("Statements")
  /\ Does(CASE current \in {"RightCurly", "End"} -> <<>>
            [] current = "Else"                  -> <<Call("Statements")>>
            [] OTHER -> <<Call("Statement"), Call("Statements")>>)

parseStatements ==
  /\ At("Statements")
  /\ Does(IF current \in {"RightCurly", "End"}
            THEN <<>> ELSE <<Call("Statement"), Call("Statements")>>)
-----------------------------------------------------------------------------
(***************************************************************************)
(* Functions.                                                              *)
(***************************************************************************)
\* parseProgram calls it on Function or Call only.
parseFunction ==
  /\ At("Function")
  /\ CASE current = "Function" -> Does(<<Call("FunctionDefinition")>>)
       [] current = "Call"     -> Does(<<Call("FunctionCall")>>)
       [] OTHER                -> Fail

parseFunctionDefinition ==
  /\ At("FunctionDefinition")
  /\ Does(Node("function", <<Take("Function"), Keep("Identifier"), Take("LeftParen"),
                             Call("Parameters"), Take("RightParen"), Take("Arrow"),
                             Call("ReturnType"), Take("LeftCurly"), Call("Statements"),
                             Take("RightCurly")>>))

\* The type is the lexeme before the colon, or the colon's own.
parseParameters ==
  /\ At("Parameters")
  /\ Does(CASE current = "RightParen" -> <<>>
            [] current \in {"Int", "Float", "String"} ->
                 <<Begin, Keep(current), Take("Colon"), Keep("Identifier"),
                   Make("parameter"), Call("MoreParameters")>>
            [] OTHER ->
                 <<Begin, Look, Take("Colon"), Keep("Identifier"),
                   Make("parameter"), Call("MoreParameters")>>)
parseMoreParameters ==
  /\ At("MoreParameters")
  /\ CASE current = "Comma"      -> Does(<<Take("Comma"), Call("Parameters")>>)
       [] current = "RightParen" -> Does(<<>>)
       [] OTHER                  -> Fail

parseReturnType == /\ At("ReturnType")
                   /\ IF current \in Types THEN Does(<<Keep(current)>>) ELSE Fail

parseFunctionCall ==
  /\ At("FunctionCall")
  /\ Does(Node("call", <<Take("Call"), Keep("Identifier"), Take("LeftParen"),
                         Call("Arguments"), Take("RightParen"), Take("Semicolon")>>))
parseArguments ==
  /\ At("Arguments")
  /\ Does(IF current = "RightParen"
            THEN <<>> ELSE <<Call("Expression"), Call("MoreArguments")>>)
parseMoreArguments ==
  /\ At("MoreArguments")
  /\ CASE current = "Comma"      -> Does(<<Take("Comma"), Call("Arguments")>>)
       [] current = "RightParen" -> Does(<<>>)
       [] OTHER                  -> Fail
-----------------------------------------------------------------------------
Finished == status # "parsing" /\ UNCHANGED vars

\* The constructor has called advance, which reads two tokens the first time.
Init == /\ vocabulary \in Vocabularies
        /\ consumed = <<>>
        /\ current \in NextOf(vocabulary, <<>>)
        /\ ahead \in NextOf(vocabulary, <<current>>)
        /\ todo = <<Call("Program")>>
        /\ built = <<[node |-> "program", at |-> 1, parts |-> <<>>]>>
        /\ program = [functions |-> <<>>, declarations |-> <<>>,
                      statements |-> <<>>, expressions |-> <<>>]
        /\ status = "parsing"

Parse == \/ consume \/ BuildNode \/ FileItem
         \/ parseProgram \/ parseDeclaration \/ parseBoolDeclaration \/ parseTruth
         \/ parseArrayDeclaration \/ parseElements \/ parseSeparator
         \/ parseExpression \/ parseMethodCall \/ parseAssignment \/ parseParenthesis
         \/ parseUnary \/ parseBinary \/ parseOperator \/ parsePrimary
         \/ parseStatement \/ parseElse \/ parseLoopStatement \/ parseLoopKind
         \/ parseBlock \/ parseStatements
         \/ parseFunction \/ parseFunctionDefinition \/ parseParameters
         \/ parseMoreParameters \/ parseReturnType
         \/ parseFunctionCall \/ parseArguments \/ parseMoreArguments

Next == Parse \/ Finished

\* The parser runs in the one thread of the program, and main waits for it.
Spec == Init /\ [][Next]_vars /\ WF_vars(Parse)
-----------------------------------------------------------------------------
(***************************************************************************)
(* Properties.                                                             *)
(***************************************************************************)
\* What a parse function has begun it returns: when an item goes to its list it
\* is the only node there is, and none is left over at the end.
TypeOK ==
  /\ consumed \in Seq(Stream!Kinds) /\ current \in Stream!Kinds /\ ahead \in Stream!Kinds
  /\ status \in {"parsing", "parsed", "failed"}
  /\ status # "failed" => built # <<>>
  /\ Doing("file") => Len(built) = 1 /\ Len(Open.parts) = 1
  /\ status = "parsed" => todo = <<>> /\ Len(built) = 1 /\ Open.parts = <<>>

\* The parser goes on over no token for which the lexer promises nothing about
\* the ones that follow, or that it never passes: behind a dot, at which next
\* may have left the text, it reads one token, and does nothing with it.
StopsAtBadTokens ==
  \A i \in 1..Len(consumed) : consumed[i] \notin {"Dot", "Unexpected", "End"}

\* In an accepted text the parentheses that are opened and never closed are
\* those after the equals sign of an assignment, all of them: what the author
\* closed there would have been rejected.
OpenParentheses ==
  LET count(kinds) == Cardinality({i \in 1..Len(consumed) : consumed[i] \in kinds})
  IN  status = "parsed" =>
        count({"LeftParen", "ArrayAdd", "ArrayRemove"}) - count({"RightParen"})
          = Cardinality({i \in 2..Len(consumed) : /\ consumed[i] = "LeftParen"
                                                  /\ consumed[i-1] = "Equal"})

\* Every text ends in a program or an exception, also where the lexer stays at
\* a character for ever: no loop goes round without consuming a token.
ParsingEnds == <>(status # "parsing")
-----------------------------------------------------------------------------
(***************************************************************************)
(* What the documentation says and the parser does not keep.               *)
(***************************************************************************)
\* "x > y;", "x / y;", "x * y;", "x notEquals y;", "x equals y;", "not x;" and "-x;"
\* (Documentation.md:61-65, 75-76): the semicolon that ends an operator expression
\* is not where the parser gives a text up.
DocumentedExpressions ==
  {<<"Identifier", op, "Identifier">> :
     op \in {"GreaterThan", "Slash", "Asterisk", "NotEquals", "Equals"}}
    \cup {<<sign, "Identifier">> : sign \in {"Not", "Minus"}}
DocumentedOperatorsParse ==
  status = "failed" /\ current = "Semicolon" => consumed \notin DocumentedExpressions
=============================================================================
