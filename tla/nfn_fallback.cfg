SPECIFICATION Spec
CONSTANTS
  Clients = {c1}
  NoFace = NoFace
  Plain <- PlainNames
  Nfn <- NfnNames
  NoName = NoName
  Fetches = {}
  Routed <- RoutedNames
  Hint <- Hints
  Arity <- Arities
  Param <- Parameters
  CallName <- Calls
  ComputeName <- Computes
  Asked = {r1}
  Arriving = {compute}
  MaxRunning = 1
  MaxConfigs = 1
  a = a
  b = b
  hint = hint
  r1 = r1
  r2 = r2
  r3 = r3
  call_b3 = call_b3
  compute3 = compute3
  call_a = call_a
  call_b = call_b
  compute = compute
PROPERTIES
  ComputeAnswerUsed
