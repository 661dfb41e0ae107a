SPECIFICATION FairSpec
CONSTANTS
  a1 = a1
  a2 = a2
  c1 = c1
  v1 = v1
  NoOne = NoOne
  Model = Model
  Response = Response
  Attempts <- TwoAttempts
  Calls <- OneCall
  Round <- JustOne
  ConcurrencySafe <- OneCall
  RetryAttempts <- TwoAttempts
  Values <- OneValue
  MaxToken = 3
INVARIANTS
  RunsAreLicensed
  OwnerIsUncontested
PROPERTIES
  RetryFinishes
CHECK_DEADLOCK FALSE
