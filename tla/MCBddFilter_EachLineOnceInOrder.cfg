CONSTANTS
  MaxLines = 5
  Context = 3
  LineKinds = {"matched", "stepfailed", "panicked", "feature", "other"}

SPECIFICATION Spec

INVARIANTS
  EachLineOnceInOrder

CHECK_DEADLOCK FALSE
