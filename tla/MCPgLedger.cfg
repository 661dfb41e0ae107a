SPECIFICATION PgSpec
CONSTANTS
  o1 = o1
  o2 = o2
  e1 = e1
  c1 = c1
  v1 = v1
  v2 = v2
  i1 = i1
  i2 = i2
  NoOne = NoOne
  Owners <- MCOwners
  EffectKeys <- MCEffectKeys
  ControlKeys <- MCControlKeys
  Values <- MCValues
  InputIds <- MCInputIds
  InputBatches <- MCInputBatches
  Transitions <- MCTransitions
  MaxToken = 2
  MaxInFlight = 1
  MaxNumber = 2
SYMMETRY Symmetry
VIEW Seen
INVARIANTS
  PgTypeOK
  LateWritesAreBounded
  ListedInOrder
PROPERTIES
  ImplementsUnleasedLedger
CHECK_DEADLOCK FALSE
