SPECIFICATION FairSpec
CONSTANTS
  Names <- OneName
  Versions = {v1}
  Nonces = {n1, n2, n3}
  NoNonce = NoNonce
  Peers = {c, u}
  ReflectPeers = {}
  MaxNonces = 2
  MaxCacheEntries <- NoLimit
  ContentTimeout = 1
  InterestTimeout = 3
  MaxRetransmit = 2
  FaceTimeout = 3
  LocalPeers = {c}
  StateNames <- NoNames
  Scopes <- DefaultScope
  NewFaceFlags <- StaticFaces
  Uploaders = {}
  MaxFaceId = 2
  MaxPit = 1
INVARIANTS
  LoopSuppressed
PROPERTIES
  PitTimesOut
