SPECIFICATION Spec
CONSTANTS
  Names <- WithRedirect
  Redirects <- OnlyMoved
  Target <- ToLong
  Size <- Chunks
  Clients = {c1}
  Repeating = {}
  Gateway = gw
  Self = self
  AskedKeys <- MovedOrChunk
  Published <- OnlyLong
  Removable <- OnlyLong
  Lossy = TRUE
  MaxMailbox = 2
INVARIANTS
  TypeOK
  NoClientLost
