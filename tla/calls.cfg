SPECIFICATION CallsSpec
CONSTANTS
  LineMax = 12
  CarryCap = 13
  FieldMax = 2
  MaxFields = 2
  Alphabet <- FieldBytes
  MaxWritten = 4
  MaxSpelling = 2
  MaxWords = 8
  MaxText = 8
  ViewWindow = 4
  Lanes = 4
  Radix = 4
  WordBytes = 2
  IdentityBytes = 2
  t1 = t1
  t2 = t2
  Threads <- MCThreads
  MaxCalls = 2
  MaxPanics = 1
  Functions <- MCFunctions
  Inputs <- MCInputs
  MaxAsked = 1
INVARIANTS RoundTrip BoundsAreExact UnreadableIsRefused AnswersAreRight SessionParity
PROPERTY EveryCallEnds
CHECK_DEADLOCK FALSE
