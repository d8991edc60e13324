SPECIFICATION Spec
CONSTANTS
  r1 = r1
  m1 = m1
  m2 = m2
  a1 = a1
  ann = ann
  bob = bob
  i1 = i1
  i2 = i2
  i3 = i3
  lobby = lobby
  Unset = Unset
  Nothing = Nothing
  Missing = Missing
  NoTrunk = NoTrunk
  NoKey = NoKey
  Names = {r1}
  SIPNumbers = {m1, m2}
  Agents = {a1}
  Inputs = {m1, m2, a1}
  TrunkIds = {i1, i2, i3}
  AgentNames = {ann, bob}
  Individuals = {lobby}
  History <- Moving
  SpecsOf <- ByReference
  Budgets <- Scenarios
INVARIANTS
  TypeOK
  ServesAllNumbers
PROPERTY
  RouteFollows
CHECK_DEADLOCK FALSE
