\* Two invocations, no crash and no alteration of the workspace: only what the code does.
CONSTANTS
  Keys = {k1}
  EvilKey = kEvil
  Contents = {c1, c2}
  Sha256 <- MCSha256
  MaxRuns = 2
  MaxCrashes = 0
  MaxTampers = 0
  Absent = Absent
  Torn = Torn
  NoKey = NoKey
  NoPub = NoPub

SPECIFICATION Spec
INVARIANT SignatureOnlyWithKey
\* The pipeline is a batch job; after the last invocation nothing moves.
CHECK_DEADLOCK FALSE
SYMMETRY MCSymmetry
