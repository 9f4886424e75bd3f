SPECIFICATION Spec
CONSTANTS
  MaxNest = 4
  MaxDoc = 9
  Alphabet <- RuleBytes
INVARIANT SomeCommentHolds
CHECK_DEADLOCK FALSE
