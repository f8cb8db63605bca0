SPECIFICATION Spec
CONSTANTS
  Names = {"a", "b", "c", "d"}
  Spellings = {1, 2}
  Capacity = 3
  Zero = Zero
  Refused = Refused
  MaxFields = 4
INVARIANTS
  SavedReadsBack
PROPERTIES
  ImplementsList
