SPECIFICATION Spec
CONSTANTS
  SizeLimit = 64
  Align = 8
  PoolSizes = {5, 21, 24, 31}
  Sizes = {0, 1, 3, 8, 31}
  Asked = {0, 1, 3, 8, 31, 60, 63}
  DataSize = 6
  Resources = {r1, r2, r3}
  MaxResources = 2
  MaxBlocks = 3
  NoBuffer = NoBuffer
  Characters <- MCCharacters
  NUL = NUL
  Unset = Unset
  Strings <- MCStrings
  FirstTableSize = 2
  OffsetLimit = 32
  MaxTableSize = 16
  MaxAdded = 4
  ForeignTables <- MCForeignTables
  ByteLimit = 2
  DataLength = 10
  NativeLittle = TRUE
INVARIANTS
  TypeOK
  PoolSound
  ViewsInside
  HeldOnce
  NamesStay
  ViewStays
  ViewReads
  FieldsAsStored
PROPERTIES
  OnlyOwnReleased
