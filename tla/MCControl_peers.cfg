\* Peers that leave at any moment, batches in any order, arming may fail or not.
SPECIFICATION FairSpec
CONSTANTS
  c1 = c1
  c2 = c2
  None = None
  Clients <- Peers
  InMax = 2
  Script <- Mixed
  Deaf <- StopsReading
INVARIANTS
  AnswersInOrder
  NoLineLeftBehind
  ServedIsHeardOut
PROPERTIES
  EveryCommandIsAnswered
  HungUpIsLetGo
\* A closed control whose peers have said all they had to is at its end.
CHECK_DEADLOCK FALSE
