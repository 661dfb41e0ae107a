SPECIFICATION Spec
CONSTANTS
  w1 = w1
  w2 = w2
  p1 = p1
  p2 = p2
  NoOne = NoOne
  Workers <- TwoWorkers
  Prompts <- TwoPrompts
  Named <- OneNamed
  Screens <- SomeScreens
  Steerings <- NoSteering
  TurnVerdicts <- SomeTurns
  MaxToken = 2
  MaxAsks = 2
SYMMETRY Symmetry
CONSTRAINT Tidy
VIEW Seen
INVARIANTS
  TypeOK
  DeliveredOnce
  NoOvertaking
  TranscriptIsHistory
PROPERTIES
  NothingIsLeftBehind
CHECK_DEADLOCK FALSE
