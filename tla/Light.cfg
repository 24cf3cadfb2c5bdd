SPECIFICATION FairSpec
CONSTANTS
  Group <- TwoGroups
  Terrains <- HillAndTunnel
  MaxLevel = 3
  Threads = 2
  Sites <- Edited
  MaxEdits = 1
  MaxUnloads = 1
INVARIANTS
  LightRight
PROPERTIES
  LightSettles
