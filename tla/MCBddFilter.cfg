CONSTANTS
  MaxLines = 5
  Context = 3
  LineKinds = {"matched", "stepfailed", "panicked", "feature", "other"}

SPECIFICATION Spec

INVARIANTS
  TypeOK
  FilterKeepsExactly

CHECK_DEADLOCK FALSE
