SPECIFICATION Spec
CONSTANTS
  None = None
  PastEnd = PastEnd
  NoCase = NoCase
INVARIANTS
  NamedAsCalled
  TablesExist
  ErrnoOfEveryHandler
