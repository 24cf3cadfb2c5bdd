SPECIFICATION FairSpec
CONSTANTS
  Chunk <- ThreeChunks
  Content <- OneId
  Generated <- AllFirst
  Slot = {s1}
  LoadLimit = 1
  RegionLists <- RowOrFirst
  MaxFaults = 0
  MaxRestarts = 0
  None = None
  Short = Short
PROPERTIES
  ChunksServed
  StoreSettles
