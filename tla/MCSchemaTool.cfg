CONSTANTS
  Sources <- MCSources
  Sessions <- MCSessions
  Written <- MCWritten
SPECIFICATION Spec
INVARIANTS
  TypeOK
  FailureIsReported
  OutputOnlyWhenClean
  NothingLost
  WrittenIsRead
PROPERTIES
  Terminates
CHECK_DEADLOCK FALSE
