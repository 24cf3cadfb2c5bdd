SPECIFICATION Spec
CONSTANTS
  Proxy = {c1}
  None = None
  Room = 1
  MaxBroadcasts = 1
  MaxInputs = 0
INVARIANTS
  OpaqueOfLiveProxy
