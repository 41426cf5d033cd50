CONSTANTS
  Null = Null
  Procs = {p1, p2}
  Paths <- MCPaths
  Libraries <- MCLibraries
  CommandLines <- MCCommandLines
  FileSystems <- MCFileSystems

SPECIFICATION FairSpec

INVARIANTS
  TypeOK
  ArchiveOfInput
  DisturbedByOthersOnly
  CommandLineObeyed

PROPERTIES
  OnlyAskedOutputsChange
  RunsEnd
