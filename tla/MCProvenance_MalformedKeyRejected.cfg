\* Two invocations, no crash and no alteration of the workspace: only what the code does.
\* PyNaCl is installed, so a key reaches the length check of sign_ed25519.
CONSTANTS
  Keys = {k1}
  EvilKey = kEvil
  Contents = {c1, c2}
  Sha256 <- MCSha256
  MaxRuns = 2
  MaxCrashes = 0
  MaxTampers = 0
  Absent = Absent
  Torn = Torn
  NoKey = NoKey
  NoPub = NoPub
  RunConfigs <- MCRunConfigsWithNacl

SPECIFICATION Spec
INVARIANT MalformedKeyRejected
\* The pipeline is a batch job; after the last invocation nothing moves.
CHECK_DEADLOCK FALSE
SYMMETRY MCSymmetry
