SPECIFICATION Spec
CONSTANTS
  w1 = w1
  w2 = w2
  c1 = c1
  c2 = c2
  s1 = s1
  s2 = s2
  NoOne = NoOne
  NoCall = NoCall
  Workers <- TwoWorkers
  Calls <- TwoCalls
  Gates <- SomeGates
  Retry = TRUE
  MaxToken = 3
SYMMETRY Symmetry
VIEW Seen
INVARIANTS
  TypeOK
  CopiesAreReal
PROPERTIES
  InheritedIsNotRepeated
  RegatedWaits
CHECK_DEADLOCK FALSE
