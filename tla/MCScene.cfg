SPECIFICATION FairSpec
CONSTANTS
  FrameMs = 2
  Delays = {1, 3}
  Holds = {1, 4}
  SettleFrames = 2
  Ceiling = 6
  MaxFrames = 3
INVARIANTS
  FilmKeepsTime
  NothingMovesUnseen
PROPERTIES
  LineReturns
