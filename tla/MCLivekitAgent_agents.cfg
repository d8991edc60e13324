SPECIFICATION Spec
CONSTANTS
  g1 = g1
  g2 = g2
  d1 = d1
  d2 = d2
  ann = ann
  bob = bob
  Unset = Unset
  Missing = Missing
  Nothing = Nothing
  NoKey = NoKey
  Agents = {g1, g2}
  Deployments = {d1, d2}
  AgentNames = {ann, bob}
  SpecsOf <- Moving
  History <- Scaled
  Budgets <- Scenarios
INVARIANTS
  TypeOK
  ReportsItsDeployment
PROPERTY
  HealthFollows
CHECK_DEADLOCK FALSE
