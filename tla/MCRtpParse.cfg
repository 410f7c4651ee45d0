CONSTANT Packets <- MCPackets
SPECIFICATION Spec
INVARIANTS
  ExtensionsInBounds
  PayloadExact
PROPERTY WalkEnds
