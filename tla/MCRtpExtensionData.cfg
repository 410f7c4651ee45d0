CONSTANT Packets <- MCPackets
SPECIFICATION Spec
INVARIANT ExtensionData
