SPECIFICATION Spec
CONSTANTS
  MaxPayload = 8
  CarryCap = 16
  ViewBytes = 32
  MaxChunk = 32
  Transmissions <- FourHeartbeats
INVARIANTS EndedMeansAllDelivered
CHECK_DEADLOCK FALSE
