SPECIFICATION LibnetSpec
CONSTANTS
  Proxy = {c1}
  None = None
  Room = 1
  ClientRoom = 2
  MaxBroadcasts = 0
  MaxInputs = 2
  MaxMessages = 2
INVARIANTS
  InputsConserved
PROPERTIES
  ImplementsServer
  AllHandled
