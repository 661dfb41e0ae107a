SPECIFICATION Spec
CONSTANTS
  w1 = w1
  w2 = w2
  p1 = p1
  p2 = p2
  NoOne = NoOne
  Workers <- OneWorker
  Prompts <- TwoPrompts
  Named <- OneNamed
  Screens <- Lenient
  Steerings <- NoSteering
  TurnVerdicts <- Stop
  MaxToken = 2
  MaxAsks = 2
INVARIANT
  DrivenIsInterrupted
CHECK_DEADLOCK FALSE
