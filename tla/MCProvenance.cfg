\* Two invocations with one crash and one alteration of the workspace.
CONSTANTS
  Keys = {k1}
  EvilKey = kEvil
  Contents = {c1, c2}
  Sha256 <- MCSha256
  MaxRuns = 2
  MaxCrashes = 1
  MaxTampers = 1
  Absent = Absent
  Torn = Torn
  NoKey = NoKey
  NoPub = NoPub

SPECIFICATION Spec
INVARIANT TypeOK
INVARIANT RoundTrip
PROPERTY ImplementsAttestation
\* The pipeline is a batch job; after the last invocation nothing moves.
CHECK_DEADLOCK FALSE
SYMMETRY MCSymmetry
VIEW MCView
