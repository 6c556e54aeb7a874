CONSTANTS
  WordOctets = 3
  Weight <- MCWeight
  TagModulus = 2097152
  OwnElements <- MCRefutedElements
  OwnInts <- MCOwnInts
  Received <- MCReceived
SPECIFICATION Spec
INVARIANT OwnOutputAccepted
