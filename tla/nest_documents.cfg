SPECIFICATION Spec
CONSTANTS
  MaxNest = 2
  MaxDoc = 6
  Alphabet <- DocumentBytes
INVARIANTS TypeOK LanesAgree VerdictIsTheGrammars PositionIsExact TruncatedCouldFinish
CHECK_DEADLOCK FALSE
