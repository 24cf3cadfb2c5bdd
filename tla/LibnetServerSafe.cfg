SPECIFICATION Spec
CONSTANTS
  Proxy = {c1, c2}
  None = None
  Room = 1
  MaxBroadcasts = 1
  MaxInputs = 1
SYMMETRY Symmetry
INVARIANTS
  EfdCounts
  ProxiesLive
  Conserved
PROPERTIES
  ImplementsMailbox
