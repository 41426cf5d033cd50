SPECIFICATION FairSpec
CONSTANTS
  Null = Null
  IndexLimit <- MCIndexLimit
  Files <- MCFiles
INVARIANTS
  TypeOK
  FailureHoldsNothing
  TablesFound
PROPERTIES
  ParseEnds
