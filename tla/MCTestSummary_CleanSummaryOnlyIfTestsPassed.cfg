\* Three binaries of two tests: every fail-fast prefix and flaky rerun.
CONSTANTS
  Binaries = 3
  TestsPer = 2
  BuildError = BuildError
  NoFailures = NoFailures

SPECIFICATION Spec
INVARIANT CleanSummaryOnlyIfTestsPassed
\* run_switchyard_tests returns once the artifacts are written.
CHECK_DEADLOCK FALSE
