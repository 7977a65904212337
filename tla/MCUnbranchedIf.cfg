CONSTANTS
  Numbered <- MCNumbered
  Names <- MCNames
  VariableNames = {}
  FunctionNames <- MCFunctionNames
  IntLiterals <- MCIntLiterals
  FloatLiterals <- MCFloatLiterals
  ResultTypes = {"int"}
  Expressions <- MCExpressions
  ExprLists <- MCExprLists
  ParamLists <- MCParamLists
  MaxNodes = 2
  MaxVisits = 3
SPECIFICATION CompilerSpec
INVARIANT EveryBlockIsReached
