SPECIFICATION Spec
CONSTANTS
  LineMax = 2
  CarryCap = 3
  ViewBytes = 3
  FieldMax = 2
  MaxFields = 2
  Alphabet <- TerminatorBytes
  MaxChunk = 5
  MaxInput = 5
  Reuse = FALSE
INVARIANT ChunkingAgreesWithOneShot
CHECK_DEADLOCK FALSE
