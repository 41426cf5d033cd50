CONSTANTS
  p1 = p1
  p2 = p2
  libfoo = libfoo
  libbar = libbar
  NoInode = NoInode
  Nobody = Nobody
  Procs = {p1}
  Out <- LongOut
  Pid <- MCPid1
  Input <- Input1
  ObjLen <- MCObjLen
  Keep = {}
  PathCap <- MCPathCap
  StaleFile <- MCStaleFile

SPECIFICATION Spec

INVARIANTS
  CreatedMeansExists
