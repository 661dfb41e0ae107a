SPECIFICATION PgSpec
CONSTANTS
  o1 = o1
  o2 = o2
  e1 = e1
  c1 = c1
  v1 = v1
  v2 = v2
  i1 = i1
  i2 = i2
  NoOne = NoOne
  Owners <- MCOwners
  EffectKeys <- MCEffectKeys
  ControlKeys <- Nothing
  Values <- MCValues
  InputIds <- Nothing
  InputBatches <- Nothing
  Transitions <- Nothing
  MaxToken = 2
  MaxInFlight = 1
  MaxNumber = 0
SYMMETRY Symmetry
PROPERTIES
  NoLateForget
CHECK_DEADLOCK FALSE
