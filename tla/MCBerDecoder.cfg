CONSTANTS
  WordOctets = 2
  Weight <- MCWeight
  TagModulus = 2097152
  Messages <- MCMessages
SPECIFICATION BerSpec
INVARIANTS
  TypeOK
  BatchInBounds
PROPERTIES
  ReadsWhatIsThere
