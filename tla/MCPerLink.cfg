CONSTANTS
  WordOctets = 3
  Weight <- MCWeight
  Levels = {"scalar", "sse42"}
  MemoryBits = 88
  Scripts <- MCScripts
SPECIFICATION Spec
INVARIANTS
  TypeOK
  BatchInBounds
  InStep
  RoundTrip
  PaddingAccepted
PROPERTIES
  MessageRead
