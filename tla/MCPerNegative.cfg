CONSTANTS
  WordOctets = 3
  Weight <- MCWeight
  Levels = {"scalar", "sse42"}
  MemoryBits = 88
  Scripts <- MCScriptsNegative
SPECIFICATION Spec
INVARIANTS
  RoundTrip
