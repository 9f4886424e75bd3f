SPECIFICATION IngestSpec
CONSTANTS
  MaxNest = 3
  MaxDoc = 48
  Alphabet <- DocumentClasses
  MaxKey = 2
  MaxString = 2
  MaxDigits = 2
  MaxDocBytes = 32
  MaxPairs = 2
  Widths = {0, 4}
  Manifests <- SpacedDocuments
INVARIANT SubsetIsRead
CHECK_DEADLOCK FALSE
