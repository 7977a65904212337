CONSTANTS
  FileCount = 2
  MaxRuns = 3
SPECIFICATION Spec
INVARIANTS
  TypeOK
  ArtefactsInOrder
  OptimizedIsValid
  EveryFileAccountedFor
PROPERTY
  RunEnds
