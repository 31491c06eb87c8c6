SPECIFICATION Spec
CONSTANTS
  Names <- OneName
  Versions = {v1, v2, v3}
  Nonces = {}
  NoNonce = NoNonce
  Peers = {c, u}
  ReflectPeers = {}
  MaxNonces = 2
  MaxCacheEntries = 1
  ContentTimeout = 2
  InterestTimeout = 2
  MaxRetransmit = 1
  FaceTimeout = 1
  LocalPeers = {c}
  StateNames <- NoNames
  Scopes <- DefaultScope
  NewFaceFlags <- StaticFaces
  Uploaders = {c}
  MaxFaceId = 3
  MaxPit = 2
PROPERTIES
  ServesAll
