CONSTANTS
  Tags = {r1, r2}
  Reqs = {r1, r2}
  Must = {r1}
  Texts = {"t1"}
  Contract <- MCContract
  Headers = {"scenario", "outline"}
  MaxFiles = 1
  MaxBlocks = 2
  MaxSteps = 2
  MaxBackground = 1
  None = None

SPECIFICATION Spec

INVARIANTS
  CoverageMatchesTags

CHECK_DEADLOCK FALSE
