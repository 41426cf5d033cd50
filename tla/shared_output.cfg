CONSTANTS
  p1 = p1
  p2 = p2
  libfoo = libfoo
  libbar = libbar
  NoInode = NoInode
  Nobody = Nobody
  Procs = {p1, p2}
  Out <- SharedOut
  Pid <- MCPid
  Input <- OneInput
  ObjLen <- MCObjLen
  Keep = {}
  PathCap <- MCPathCap
  StaleFile <- MCStaleFile

SPECIFICATION Spec

INVARIANTS
  SharersConverge
