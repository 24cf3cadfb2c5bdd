SPECIFICATION LibnetSpec
CONSTANTS
  Proxy = {c1}
  None = None
  Room = 1
  ClientRoom = 1
  MaxBroadcasts = 2
  MaxInputs = 2
  MaxMessages = 2
PROPERTIES
  RequestsServed
