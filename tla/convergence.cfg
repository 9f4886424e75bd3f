SPECIFICATION Spec
CONSTANTS
  MaxSpelling = 2
  MaxWords = 8
  MaxText = 17
  MaxReceived = 2
  Sentences <- MCSentences
  Documents <- MCDocuments
  Natives <- MCNatives
  Schemas <- MCSchemas
INVARIANTS TypeOK  EqualMeansSaidTheSame EqualitiesAgree
CHECK_DEADLOCK FALSE
