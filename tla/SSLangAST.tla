----------------------------- MODULE SSLangAST -----------------------------
(***************************************************************************)
(* The abstract syntax tree that the parser builds and the two visitors    *)
(* walk (include/ast/ASTNodes.h), and Expression::getType.                 *)
(*                                                                         *)
(* The tree is written as the sequence of nodes in the order in which a    *)
(* visitor meets them; an "end" node closes the innermost body, and the    *)
(* else body of an if statement follows the "end" of its then body.        *)
(* Lexemes are model values or strings of a small set.  A string literal   *)
(* reaches the tree without its quotes, as any other lexeme: it is not a   *)
(* separate kind of primary expression here because it is not one there.   *)
(***************************************************************************)
EXTENDS SymbolTable

CONSTANTS IntLiterals,     \* lexemes of integer literals
          FloatLiterals    \* lexemes of float literals

ASSUME LexemesAssumption ==
  /\ Names \cap (IntLiterals \cup FloatLiterals \cup {"true", "false"}) = {}
  /\ IntLiterals \cap FloatLiterals = {}
  /\ {"true", "false"} \cap (IntLiterals \cup FloatLiterals) = {}

Lexemes == Names \cup IntLiterals \cup FloatLiterals \cup {"true", "false"}

ScalarTypes == {"int", "float", "string", "bool"}
ReturnTypes == {"int", "flt", "str", "bool"}  \* keywords, kept as lexemes

ArithmeticOps == {"+", "-", "*", "/", "%"}
ComparisonOps == {"<", ">", "<=", ">=", "equals", "notEquals"}
LogicalOps    == {"and", "or"}
-----------------------------------------------------------------------------
(***************************************************************************)
(* Expressions, in the shapes the parser gives them: one operator per      *)
(* binary expression, its left operand a primary expression.  Methods and  *)
(* assignments nest without bound there; here the argument of a method is  *)
(* simple and an assignment has at most one other assignment inside.       *)
(***************************************************************************)
Primary == [kind : {"primary"}, name : Lexemes]
Unary   == [kind : {"unary"}, op : {"-", "not"}, expr : Primary]
Binary  == [kind  : {"binary"},
            op    : ArithmeticOps \cup ComparisonOps \cup LogicalOps,
            left  : Primary,
            right : Primary \cup Unary]
Simple  == Primary \cup Unary \cup Binary

MethodCall ==
  [kind : {"method"}, object : Lexemes, name : {"add"}, arguments : [{1} -> Simple]]
    \cup [kind : {"method"}, object : Lexemes, name : {"remove"}, arguments : {<<>>}]

\* x = e; and x = y = e;; -- the right-hand side may itself be an assignment.
PlainAssignment  == [kind : {"assign"}, name : Names, expression : Simple \cup MethodCall]
NestedAssignment == [kind : {"assign"}, name : Names, expression : PlainAssignment]

Expression == Simple \cup MethodCall \cup PlainAssignment \cup NestedAssignment
-----------------------------------------------------------------------------
(***************************************************************************)
(* Expression::getType over an environment env, the type of every name as  *)
(* SymbolTable::getSymbolInfo gives it.  "none" stands for the exception   *)
(* the code throws.                                                        *)
(***************************************************************************)
LookupType(name, env) == IF name \in Names THEN env[name] ELSE "none"

TypeOfPrimary(e, env) ==
  CASE e.name \in IntLiterals       -> "int"
    [] e.name \in FloatLiterals     -> "float"
    [] e.name \in {"true", "false"} -> "bool"
    [] OTHER                        -> LookupType(e.name, env)

TypeOfOperand(e, env) ==
  TypeOfPrimary(IF e.kind = "unary" THEN e.expr ELSE e, env)

TypeOfBinary(e, env) ==
  LET left  == TypeOfOperand(e.left, env)
      right == TypeOfOperand(e.right, env)
  IN  IF "none" \in {left, right} THEN "none"
      ELSE CASE e.op \in ComparisonOps \cup LogicalOps              -> "bool"
             [] e.op \in ArithmeticOps
                  /\ left = right /\ left \in {"int", "float"}      -> left
             [] OTHER                                               -> "none"

\* An assignment has the type of the variable it names and a method call the
\* type of a variable with the method's name: neither looks at its operands.
TypeOf(e, env) ==
  CASE e.kind \in {"primary", "unary"} -> TypeOfOperand(e, env)
    [] e.kind = "binary"               -> TypeOfBinary(e, env)
    [] e.kind \in {"assign", "method"} -> LookupType(e.name, env)
=============================================================================
