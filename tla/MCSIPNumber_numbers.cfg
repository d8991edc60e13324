SPECIFICATION Spec
CONSTANTS
  n1 = n1
  did1 = did1
  c1 = c1
  v1 = v1
  v2 = v2
  Unset = Unset
  Nothing = Nothing
  Missing = Missing
  NoRef = NoRef
  NoKey = NoKey
  Names = {n1}
  Dids = {did1}
  Fields = {"livekitRef", "krispEnabled"}
  Values = {v1, v2}
  Inputs = {c1}
  History <- Changing
  SpecsOf <- Overriding
  Budgets <- Scenarios
INVARIANTS
  TypeOK
  OwnsWhatItShows
PROPERTIES
  MirrorsTrunk
  ChildrenCollected
CHECK_DEADLOCK FALSE
