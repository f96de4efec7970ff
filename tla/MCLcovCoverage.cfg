CONSTANTS
  Paths = {pa, pb}
  MaxRecords = 2
  MaxDA = 2
  None = None

SPECIFICATION Spec

INVARIANTS
  TypeOK
  RowsMatchRecords

SYMMETRY MCSymmetry

CHECK_DEADLOCK FALSE
