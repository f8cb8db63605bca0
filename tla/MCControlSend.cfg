SPECIFICATION FairSpec
CONSTANTS
  a = a
  b = b
  s1 = s1
  s2 = s2
  Programs = {a, b}
  Inodes = {1, 2}
  Outsider = outsider
  Plans <- Plays
  Senders = {s1, s2}
  Script <- Scripts
  AnswerMs = 2
INVARIANTS
  PathTellsWhoRuns
  SendTellsTheTruth
  HealthyIsInTime
PROPERTIES
  TakesOnlyItsOwn
  SendReturns
CHECK_DEADLOCK FALSE
