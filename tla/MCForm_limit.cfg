SPECIFICATION FormSpec
CONSTANTS
  One = 1000
  MaskBits = 8
  Word = 16
  IntMax = 127
  DigitsMax = 2
  IdDigits = 2
  HexLike = {"hexish"}
  IndexMax = 15
  Table <- AppTable
  Forms <- WholeForms
  HandLines <- ForeignLines
PROPERTIES
  PastTheLimitIsRefused
CHECK_DEADLOCK FALSE
