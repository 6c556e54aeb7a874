CONSTANTS
  WordOctets = 3
  Weight <- MCWeight
  TagModulus = 2097152
  OwnElements <- MCOwnElements
  OwnInts <- MCOwnInts
  Received <- MCReceived
SPECIFICATION Spec
INVARIANT AcceptedIntegerIsMinimal
