SPECIFICATION Spec
CONSTANTS
  MaxSpelling = 2
  MaxWords = 8
  MaxText = 17
  MaxReceived = 4
  Sentences <- FewSentences
  Documents = {}
  Natives <- FewNatives
  Schemas <- MCSchemas
INVARIANT SomePromiseHolds
CHECK_DEADLOCK FALSE
