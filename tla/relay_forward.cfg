SPECIFICATION Spec
CONSTANTS
  Names <- NameAndPrefix
  Versions = {v1}
  Nonces = {n1}
  NoNonce = NoNonce
  Peers = {c, u}
  ReflectPeers = {}
  MaxNonces = 2
  MaxCacheEntries = 1
  ContentTimeout = 1
  InterestTimeout = 2
  MaxRetransmit = 1
  FaceTimeout = 2
  LocalPeers = {c}
  StateNames <- LongName
  Scopes <- AnyScope
  NewFaceFlags <- StaticFaces
  Uploaders = {}
  MaxFaceId = 2
  MaxPit = 2
INVARIANTS
  TypeOK
  NoStarvedInterest
  Aggregated
PROPERTIES
  SolicitedOnly
  NoSilentDrop
  Contract
