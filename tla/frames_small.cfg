SPECIFICATION Spec
CONSTANTS
  MaxPayload = 2
  CarryCap = 10
  ViewBytes = 18
  MaxChunk = 11
  Transmissions <- AllWires
INVARIANTS TypeOK NoByteLost DecodedAreSent FramesAreOnTheWire NothingWithheld EndedMeansAllDelivered SoundWireIsNotMalformed
PROPERTIES TruncatedOnlyAtEnd TilesTheStream CallsReturn
CHECK_DEADLOCK FALSE
