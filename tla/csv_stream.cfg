SPECIFICATION Spec
CONSTANTS
  LineMax = 2
  CarryCap = 3
  ViewBytes = 3
  FieldMax = 1
  MaxFields = 2
  Alphabet <- LineBytes
  MaxChunk = 6
  MaxInput = 6
  Reuse = FALSE
INVARIANTS TypeOK NoByteLost RecordsAreTheLines NothingWithheld EndedMeansAllDelivered RefusalHasCause ErrorNamesTheLine OneShotVerdict
PROPERTIES TilesTheStream EveryStepShortens CallsReturn
CHECK_DEADLOCK FALSE
