SPECIFICATION Spec
CONSTANTS
  t1 = t1
  t2 = t2
  nameA = nameA
  nameB = nameB
  s1 = s1
  s2 = s2
  secretA = secretA
  n1 = n1
  NoSecret = NoSecret
  NoId = NoId
  NoKey = NoKey
  Kind = "inbound"
  Trunks = {t1}
  Names = {nameA}
  Servers = {s1}
  AuthSecrets = {secretA}
  Fields = {n1}
  Settings <- InboundSettings
  Payload <- InboundPayload
  SpecsOf <- OneResource
  Ids = {i1, i2}
  Budgets <- OneDeletion
INVARIANT
  NothingLeftBehind
CHECK_DEADLOCK FALSE
