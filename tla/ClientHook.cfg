SPECIFICATION Spec
CONSTANTS
  Bytes = {1, 2, 3}
  Pattern <- MCPattern
  CodeSize = 6
INVARIANTS
  PatchedInPlace
  RedirectedPatched
PROPERTIES
  ProgramRuns
  RedirectedInTheEnd
CHECK_DEADLOCK FALSE
