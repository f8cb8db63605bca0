\* A write may leave a part of a line.
SPECIFICATION Spec
CONSTANTS
  s1 = s1
  s2 = s2
  Subjects <- Names
  MaxRecord = 2
  MaxPieces <- Lengths
INVARIANTS
  AckedIsRead
