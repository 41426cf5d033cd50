CONSTANTS
  p1 = p1
  p2 = p2
  libfoo = libfoo
  libbar = libbar
  NoInode = NoInode
  Nobody = Nobody
  Procs = {p1, p2}
  Out <- SeparateOut
  Pid <- MCPid
  Input <- TwoInputs
  ObjLen <- MCObjLen
  Keep = {p2}
  PathCap <- MCPathCap
  StaleFile <- MCStaleFile

SPECIFICATION Spec

INVARIANTS
  TypeOK
  Inv
  SuccessMeansArchive
  TempFileSettled
  NothingHeldOnReturn

PROPERTIES
  OutputTouchedLate
  PublishesInOrder
