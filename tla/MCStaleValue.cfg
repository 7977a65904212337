CONSTANTS
  Numbered <- MCNumbered
  foo = foo
  bar = bar
  Names <- MCNames
  VariableNames <- MCVariableNames
  FunctionNames <- MCFunctionNames
  IntLiterals <- MCIntLiterals
  FloatLiterals <- MCFloatLiterals
  ResultTypes = {"int", "flt"}
  Expressions <- MCExpressions
  ExprLists <- MCExprLists
  ParamLists <- MCParamLists
  MaxNodes = 4
  MaxVisits = 2
SYMMETRY MCSymmetry
SPECIFICATION CompilerSpec
INVARIANT EvaluationStartsFresh
