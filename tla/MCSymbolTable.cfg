CONSTANTS
  x = x
  f = f
  Names <- MCNames
  TypeChoices <- MCTypeChoices
  FunctionChoices <- MCFunctionChoices
  MaxScopes = 3
SPECIFICATION Spec
INVARIANT TableInvariant
PROPERTY ImplementsLexicalScoping
