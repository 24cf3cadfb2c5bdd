SPECIFICATION PlayersSpec
CONSTANTS
  Chunk <- Line
  RegionLists <- Lists
  MaxId = 3
  MaxRestarts = 1
  Client = {c1, c2}
  None = None
  StartChunks <- Start
  LoginChunk <- Login1
  MajorRadius = 2
  MinorRadius = 2
SYMMETRY Symmetry
INVARIANTS
  TablesExact
  ToldHandles
  PlayersLive
  AvatarStays
PROPERTIES
  KeptByRestart
