\* Two subjects, writes torn anywhere.
SPECIFICATION Spec
CONSTANTS
  s1 = s1
  s2 = s2
  Subjects <- Names
  MaxRecord = 2
  MaxPieces <- Lengths
INVARIANTS
  FilesAreAccountedFor
PROPERTIES
  ReadersKeepWhatTheyHad
  RewritesAreExact
  WipeTellsTheTruth
