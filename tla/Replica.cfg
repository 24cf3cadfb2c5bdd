SPECIFICATION Spec
CONSTANTS
  Chunk <- Pair
  Content = {v1, v2}
  MaxHandle = 0
  Places <- Ends
  Radius = 2
  MeshLimit = 1
  MaxQueue = 1
  None = None
INVARIANTS
  LinksExact
  CopyFollows
  MeshFresh
PROPERTIES
  MeshesSettle
