SPECIFICATION Spec
CONSTANTS
  Method = "tcp"
  Version = "v4"
  Target = 0
  PacketLen = 60
  SourcePort = 40000
  FirstHop = 1
  LastHop = 4
  Count = 1
  PathLen = 4
  MaxMsgs = 1
  MaxStrays = 1
  RouterErrors <- HopErrors
INVARIANTS
  SendsAccounted
  ReadersListen
  IdentifiedExactly
  Attribution
CONSTRAINT
  Backlog
