CONSTANTS
  WordOctets = 3
  Weight <- MCWeight
  Capacities = {3, 12, 136}
  Calls <- MCCalls
  Scripts <- MCScripts
SPECIFICATION Spec
INVARIANTS
  TypeOK
  BatchInBounds
  InStep
  RoundTrip
  OwnIntegersCanonical
PROPERTIES
  WholePieceOrError
