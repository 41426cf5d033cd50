SPECIFICATION Spec
CONSTANTS
  Null = Null
  IndexLimit <- MCIndexLimit
  Libraries <- MCLibraries
  EhdrSize = 2
  ShdrSize = 3
  SymSize = 2
  SymAlign = 4
  FirstCapacity = 2
  NameLen <- MCNameLen
INVARIANTS
  FirstNotLocal
