SPECIFICATION Spec
CONSTANTS
  Width = 16
  Radii <- SmallRadii
  Positions <- EntityPositions
  Grain = 10
  Solids <- Rooms
  Places <- Corners
  Size <- Player
  Offsets <- Moves
  Instants = 4
  Unit = 4
  Origins <- Starts
  Aims <- Rays
  Limit <- Far
  Sizes <- Messages
  HeaderSize = 2
  BufferSize = 3
  RecordMax = 3
  Room = 4
  rb_initial_cap = 2
  NULL = NULL
  Key = {w}
  Button = {left}
  Mouse <- Spots
  MaxOnTheWay = 2
  Seed = {s1, s2}
  SeedSize = 2
  NoFile = NoFile
  Dt = 3
  MaxWork = 9
  MaxLives = 3
INVARIANTS
  SphereVisitedOnce
  BlocksFound
  NoOverlap
  SlidesOnFloor
  RayInBlock
  CornerLight
  Reassembled
  InputFollows
  OneSeed
  NotHurried
CHECK_DEADLOCK FALSE
