SPECIFICATION Spec
CONSTANTS
  Lines <- MCLines
  Names <- MCNames
  Values <- MCValues
  atoi <- MCatoi
  UINT = 256
  NULL = NULL
  MaxLines = 5
  MaxFailures = 1
CHECK_DEADLOCK FALSE
INVARIANTS
  TypeOK
  OneEntryPerType
  QueueIsFileMeaning
  FirstErrorReported
PROPERTIES
  EntriesStay
