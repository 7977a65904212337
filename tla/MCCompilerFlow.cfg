CONSTANTS
  Numbered <- MCNumbered
  Names <- MCNames
  VariableNames = {"main"}
  FunctionNames <- MCFunctionNames
  IntLiterals <- MCIntLiterals
  FloatLiterals <- MCFloatLiterals
  ResultTypes = {"int"}
  Expressions <- MCExpressions
  ExprLists <- MCExprLists
  ParamLists <- MCParamLists
  MaxNodes = 6
  MaxVisits = 3
SPECIFICATION CompilerSpec
INVARIANTS
  InsertPointDiscipline
  TidyFunctionsVerify
