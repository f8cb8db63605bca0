SPECIFICATION RingSpec
CONSTANTS
  Values = {"a", "b"}
  Capacity = 4
  MaxDropped = 3
PROPERTIES
  ImplementsWindow
