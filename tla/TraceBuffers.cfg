SPECIFICATION Spec
CONSTANTS
  Method = "icmp"
  Version = "v4"
  Target = 0
  PacketLen = 60
  SourcePort = 40000
  FirstHop = 1
  LastHop = 2
  Count = 1
  PathLen = 2
  MaxMsgs = 4
  MaxStrays = 1
  RouterErrors <- NoErrors
INVARIANTS
  BuffersConserved
  ReadersListen
