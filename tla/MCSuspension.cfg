SPECIFICATION Spec
CONSTANTS
  w1 = w1
  w2 = w2
  w3 = w3
  c1 = c1
  c2 = c2
  p1 = p1
  p2 = p2
  NoOne = NoOne
  Workers <- ThreeWorkers
  Calls <- TwoCalls
  PendingIds <- TwoIds
  MaxToken = 3
  MaxParks = 2
SYMMETRY Symmetry
VIEW Seen
INVARIANTS
  TypeOK
  CopyIsFresh
PROPERTIES
  RunsOnlyWhatWasApproved
  AnswersSurvive
  CompletionIsEarned
CHECK_DEADLOCK FALSE
