CONSTANT Vocabularies <- MCOperatorVocabularies
SPECIFICATION Spec
INVARIANT DocumentedOperatorsParse
