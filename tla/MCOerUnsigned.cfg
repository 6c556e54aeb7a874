CONSTANTS
  WordOctets = 3
  Weight <- MCWeight
  Capacities = {12}
  Calls <- MCCalls
  Scripts <- MCScripts
SPECIFICATION Spec
INVARIANT StatelessPerCall
