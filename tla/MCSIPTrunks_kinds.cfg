SPECIFICATION Spec
CONSTANTS
  t1 = t1
  u1 = u1
  nameA = nameA
  s1 = s1
  s2 = s2
  n1 = n1
  i1 = i1
  i2 = i2
  i3 = i3
  NoSecret = NoSecret
  NoId = NoId
  NoKey = NoKey
  InTrunks = {t1}
  OutTrunks = {u1}
  Names = {nameA}
  Servers = {s1, s2}
  AuthSecrets = {}
  Fields = {n1}
  InSpecsOf <- Moved
  OutSpecsOf <- Fixed
  Ids = {i1, i2, i3}
  Budgets <- Scenarios
SYMMETRY IdSymmetry
INVARIANT
  StatusesTrue
PROPERTIES
  InboundAlone
  OutboundAlone
  KeepsLifecycle
CHECK_DEADLOCK FALSE
