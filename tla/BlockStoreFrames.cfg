SPECIFICATION Spec
CONSTANTS
  Chunk <- TwoChunks
  Content <- Ids
  Generated <- AllFirst
  Slot = {s1}
  LoadLimit = 1
  RegionLists <- PairLists
  MaxFaults = 2
  MaxRestarts = 1
  None = None
  Short = Short
INVARIANTS
  TypeOK
  SlotsExact
  PointersLive
  ToldCurrent
  SaveReadsLiveGroup
  CleanMeansSavedUnlessTouched
PROPERTIES
  ImplementsWorld
