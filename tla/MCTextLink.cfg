CONSTANTS
  WordOctets = 1
  Weight <- MCWeight
  Words <- MCWords
  Scripts <- MCScripts
  MaxGivenUp = 1
SPECIFICATION Spec
INVARIANTS
  TypeOK
  ReadBack
  NeverAnother
  OwnSequence
  CanonicalText
