CONSTANTS
  WordOctets = 2
  Weight <- MCWeight
  TagModulus = 2097152
  Capacities = {6, 12}
  Scripts <- MCScripts
SPECIFICATION Spec
INVARIANTS
  InStep
  RoundTrip
