CONSTANTS
  WordOctets = 2
  Weight <- MCWeight
  TagModulus = 2097152
  Capacities = {3, 5}
  Ints <- MCInts
  Strings <- MCStrings
  UnusedBits = {3}
  Tags <- MCTags
  Lengths <- MCLengths
SPECIFICATION BerSpec
INVARIANTS
  TypeOK
  BatchInBounds
PROPERTIES
  Transparent
