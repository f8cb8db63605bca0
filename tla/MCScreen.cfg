\* Every set of hooks, batches in any order, arming that may fail or not; a
\* question opened, moved in, answered and withdrawn at any moment.
SPECIFICATION ScreenFairSpec
CONSTANTS
  clear = clear
  Plain = Plain
  Nothing = Nothing
  Subjects <- Questions
  Layouts <- Panels
INVARIANTS
  Held
  NoStaleFrame
  TimerFollowsMotion
  CursorIsNeverTrapped
  PanelShowsWhatIsAsked
PROPERTIES
  EveryChangeIsDrawnOnce
  RequestedFrameIsKept
  ArmedFrameIsDrawn
  ComesToSettle
  AnswersAreMeant
