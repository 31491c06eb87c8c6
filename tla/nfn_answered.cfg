SPECIFICATION FairSpec
CONSTANTS
  Names <- Two
  Redirects = {}
  Target <- ToLong
  Size <- Chunks
  Clients = {c1}
  Repeating = {c1}
  Gateway = gw
  Self = self
  AskedKeys <- BaseKeys
  Published = {}
  Removable = {}
  Lossy = FALSE
  MaxMailbox = 2
INVARIANTS
  ChunkProgress
PROPERTIES
  Contract
  EventuallyAnswered
