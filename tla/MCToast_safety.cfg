SPECIFICATION FairToastSpec
CONSTANTS
  saved = saved
  arrived = arrived
  long = long
  longer = longer
  cut = cut
  Empty = Empty
  Texts <- TextsValue
  Cut <- CutValue
  QueueMax = 3
  Stand = 2
INVARIANTS
  QueueIsOrderly
PROPERTIES
  StandsItsTime
  GoesQuiet
