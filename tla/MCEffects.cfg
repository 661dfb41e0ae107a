SPECIFICATION Spec
CONSTANTS
  a1 = a1
  a2 = a2
  c1 = c1
  c2 = c2
  v1 = v1
  v2 = v2
  NoOne = NoOne
  Model = Model
  Response = Response
  Attempts <- TwoAttempts
  Calls <- TwoCalls
  Round <- OneRound
  ConcurrencySafe <- NoCalls
  RetryAttempts <- NoAttempts
  Values <- TwoValues
  MaxToken = 3
SYMMETRY Symmetry
VIEW Seen
INVARIANTS
  TypeOK
  AtMostOnce
  AnswersAgree
  RecordedIsReal
  HooksAreAccounted
  NothingBeginsBehindSuspension
  ApprovalsAreOfTheFuture
PROPERTIES
  RefusalsRespectRecords
  ImplementsEffectOnce
CHECK_DEADLOCK FALSE
