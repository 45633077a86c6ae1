SPECIFICATION Spec
CONSTANTS
  Method = "udp"
  Version = "v6"
  Target = 0
  PacketLen = 60
  SourcePort = 40000
  FirstHop = 2
  LastHop = 3
  Count = 1
  PathLen = 2
  MaxMsgs = 1
  MaxStrays = 1
  RouterErrors <- SizeErrors
INVARIANTS
  IdentifiedExactly
  Attribution
  ReachedIsComplete
  NeverOverstays
PROPERTIES
  Returns
  Implements
