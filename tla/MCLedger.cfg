SPECIFICATION Spec
CONSTANTS
  o1 = o1
  o2 = o2
  e1 = e1
  e2 = e2
  c1 = c1
  v1 = v1
  v2 = v2
  i1 = i1
  i2 = i2
  NoOne = NoOne
  Owners <- MCOwners
  EffectKeys <- MCEffectKeys
  ControlKeys <- MCControlKeys
  Values <- MCValues
  InputIds <- MCInputIds
  Transitions <- MCTransitions
  MaxToken = 2
SYMMETRY Symmetry
INVARIANTS
  TypeOK
  QueueOrder
PROPERTIES
  WritersNeverGoBack
  CommittedIsFinal
  TransitionsAreWhole
  InputsOnlyAdvance
