SPECIFICATION FairSpec
CONSTANTS
  Clients = {c1}
  NoFace = NoFace
  Plain <- PlainNames
  Nfn <- NfnNames
  NoName = NoName
  Fetches = {}
  Routed <- RoutedNames
  Hint <- Hints
  Arity <- Arities
  Param <- Parameters
  CallName <- Calls
  ComputeName <- Computes
  Asked = {a, r1, r2, r3, compute}
  Arriving = {a, call_a, compute}
  MaxRunning = 2
  MaxConfigs = 3
  a = a
  b = b
  hint = hint
  r1 = r1
  r2 = r2
  r3 = r3
  call_b3 = call_b3
  compute3 = compute3
  call_a = call_a
  call_b = call_b
  compute = compute
INVARIANTS
  TypeOK
  CountedOnce
  SuspendedWaits
  NoClientOverlooked
PROPERTIES
  ForgottenOnceServed
  SuspensionEnds
  AnswerUsed
