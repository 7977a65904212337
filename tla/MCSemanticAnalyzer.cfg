CONSTANTS
  x = x
  y = y
  Names <- MCNames
  VariableNames <- MCNames
  FunctionNames <- MCNames
  IntLiterals <- MCIntLiterals
  FloatLiterals <- MCFloatLiterals
  ResultTypes = {"int", "flt", "str", "bool"}
  Expressions <- MCExpressions
  ExprLists <- MCExprLists
  ParamLists <- MCParamLists
  MaxNodes = 4
  MaxVisits = 3
SPECIFICATION Spec
INVARIANTS
  TypeOK
  ScopeDiscipline
  EnvironmentIsLexical
  ReturnsMatchTheirFunction
  CallsFollowDefinitions
PROPERTY GlobalScopeFrozen
