\* Two feature files sharing two scenario blocks and two steps, one of
\* which may be a Background step.
CONSTANTS
  Tags = {r1, r2}
  Reqs = {r1, r2}
  Must = {r1}
  Texts = {"t1"}
  Contract <- MCContract
  Headers = {"scenario"}
  MaxFiles = 2
  MaxBlocks = 2
  MaxSteps = 2
  MaxBackground = 1
  None = None

SPECIFICATION Spec

INVARIANTS
  TypeOK
  CoverageMatchesTags
  ScenarioStepsMatchBlocks

\* main returns once the report is written.
CHECK_DEADLOCK FALSE
