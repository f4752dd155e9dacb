SPECIFICATION Spec
CONSTANTS
  Args <- MCArgs
  Dirs <- MCDirs
  Links <- MCLinks
  Stem <- MCStem
  Home <- MCHome
  Procs = {p1, p2}
  Contents = {quiet, one, two}
  Quiet = quiet
  Faulty = {two}
  MaxFds = 3
  Absent = Absent
  NULL = NULL
SYMMETRY Symmetry
CHECK_DEADLOCK FALSE
INVARIANTS
  TypeOK
  RecognisedIfCanonical
  ServesCheckedDirectory
  EditTakesEffect
