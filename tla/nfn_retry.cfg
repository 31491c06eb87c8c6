SPECIFICATION FairSpec
CONSTANTS
  Names <- Two
  Redirects = {}
  Target <- ToLong
  Size <- Chunks
  Clients = {c1}
  Repeating = {c1}
  Gateway = gw
  Self = self
  AskedKeys = {}
  Published = {}
  Removable = {}
  Lossy = TRUE
  MaxMailbox = 2
PROPERTIES
  EventuallyAnswered
