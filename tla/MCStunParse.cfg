CONSTANTS
  Packets <- MCPackets
  Opaque <- MCOpaque
SPECIFICATION Spec
INVARIANTS
  AttributesInBounds
  AnswerReadable
PROPERTY ParseEnds
