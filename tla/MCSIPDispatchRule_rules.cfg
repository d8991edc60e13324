SPECIFICATION Spec
CONSTANTS
  r1 = r1
  nameA = nameA
  s1 = s1
  s2 = s2
  b1 = b1
  b2 = b2
  e1 = e1
  k1 = k1
  old = old
  new = new
  NoRoom = NoRoom
  NoEgress = NoEgress
  Missing = Missing
  NoId = NoId
  NoHash = NoHash
  NoKey = NoKey
  Rules = {r1}
  Names = {nameA}
  Servers = {s1, s2}
  Bodies = {b1, b2}
  SpecsOf <- OneRule
  Egresses = {e1}
  EgressHistory <- Growing
  Secrets = {k1}
  SecretHistory <- Changing
  Ids = {i1, i2}
  Budgets <- Scenarios
INVARIANTS
  TypeOK
  SkipIsSound
PROPERTIES
  RecordedRuleReleased
  EgressFollowed
  RotationFollowed
CHECK_DEADLOCK FALSE
