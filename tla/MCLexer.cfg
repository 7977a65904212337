CONSTANTS
  Letters = {"a", "k"}
  Digits = {"9"}
  Others = {"?"}
  KeywordOf <- MCKeywordOf
  AddCall <- MCAddCall
  RemoveCall <- MCRemoveCall
  Garbage = {"End", "Identifier", "Dot"}
  Texts <- MCTexts
  ExtraCalls = 2
SPECIFICATION Spec
INVARIANTS
  TypeOK
  CursorInText
  NothingLost
  LongestMatch
  LexemesReadAlike
PROPERTY
  ImplementsTokenStream
