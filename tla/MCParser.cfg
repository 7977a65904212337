CONSTANT Vocabularies <- MCVocabularies
SPECIFICATION Spec
INVARIANTS
  TypeOK
  AcceptsTheGrammar
  StopsAtBadTokens
  OpenParentheses
  LexemesKeepTheirOrder
  TreesFitTheVisitors
PROPERTY
  ParsingEnds
