SPECIFICATION Spec
CONSTANTS
  Chunk <- OneChunk
  Content <- Ids
  Generated <- AllFirst
  Slot = {s1}
  LoadLimit = 1
  RegionLists <- OneChunkLists
  MaxFaults = 0
  MaxRestarts = 0
  None = None
  Short = Short
INVARIANTS
  CleanMeansSaved
