\* Batches in any order.
SPECIFICATION Spec
CONSTANTS
  c1 = c1
  None = None
  Clients <- Peers
  Script <- Picture
  Deaf <- Peers
  InMax = 2
  ArmMayFail = FALSE
PROPERTIES
  ShotShowsServedKeys
  SettledShotIsStill
  EachIsItself
\* Closed and shut down, with nothing more to say, the program is at its end.
CHECK_DEADLOCK FALSE
