SPECIFICATION Spec
CONSTANTS
  LineMax = 2
  CarryCap = 3
  ViewBytes = 3
  FieldMax = 1
  MaxFields = 2
  Alphabet <- LineBytes
  MaxChunk = 5
  MaxInput = 5
  Reuse = FALSE
INVARIANT RefusedLineIsAtFault
CHECK_DEADLOCK FALSE
