---------------------------- MODULE TestSummary ----------------------------
(***************************************************************************)
(* run_switchyard_tests, parse_test_output and write_tests_artifacts of    *)
(* scripts/provenance_ci.py: how the attested ci/tests/summary.json and    *)
(* ci/tests/failures.md come out of cargo test.                            *)
(*                                                                         *)
(* cargo's output is abstracted to the kinds of line the parser tells     *)
(* apart: a line starting with "failures:", a "test result:" line with its *)
(* passed and failed counts, a blank line, and any other text.  Which     *)
(* lines cargo prints is modelled from libtest's report: per test binary   *)
(* a "running" line, on failures two "failures:" sections, then the        *)
(* result line; cargo stops after the first binary that has failures; a    *)
(* build error prints no result line at all.                               *)
(***************************************************************************)
EXTENDS Integers, Sequences, SequencesExt, FiniteSetsExt

CONSTANTS
  Binaries,    \* number of test binaries cargo runs, in order
  TestsPer,    \* tests in each binary
  BuildError,  \* a cargo test that fails to compile
  NoFailures   \* failures.md holding "No failures detected."

ASSUME Binaries \in Nat \ {0} /\ TestsPer \in Nat \ {0}

Text == [k |-> "text"]
Blank == [k |-> "blank"]
FailHdr == [k |-> "failhdr"]
Result(p, f) == [k |-> "result", p |-> p, f |-> f]

(* What one cargo test invocation does: a build error, or the number of  *)
(* failing tests in each binary (binaries after a failing one never run). *)
Outcomes == {BuildError} \cup [1..Binaries -> 0..TestsPer]

(* The binaries cargo runs: all up to and including the first that fails. *)
Executed(o) ==
  {b \in 1..Binaries : \A c \in 1..(b - 1) : o[c] = 0}

(* libtest's report for one binary. *)
BinaryReport(o, b) ==
  <<Text>>
  \o (IF o[b] > 0 THEN <<FailHdr, Blank, Text, Blank, FailHdr, Text, Blank>>
      ELSE <<>>)
  \o <<Result(TestsPer - o[b], o[b]), Blank>>

(* stdout, "\n", then stderr (cargo's progress and error lines). *)
CargoOutput(o) ==
  IF o = BuildError THEN <<Blank, Text, Text>>
  ELSE FoldLeft(LAMBDA acc, b : IF b \in Executed(o) THEN acc \o BinaryReport(o, b)
                                ELSE acc,
                <<>>, [i \in 1..Binaries |-> i])
       \o <<Blank, Text>>

(* The exit status of cargo test. *)
CargoExit(o) == IF o = BuildError \/ \E b \in 1..Binaries : o[b] > 0 THEN 101 ELSE 0

-----------------------------------------------------------------------------
(* parse_test_output, one line at a time.                                  *)

NoSummary == [passed |-> 0, failed |-> 0, failureLines |-> <<>>]

(* Mutant: each "test result:" line overwrites the counts. *)
ParseLineOverwrite(acc, line) ==
  [passed |-> IF line.k = "result" THEN line.p ELSE acc.passed,
   failed |-> IF line.k = "result" THEN line.f ELSE acc.failed,
   failureLines |->
     IF line.k = "failhdr" \/ acc.failureLines # <<>>
     THEN Append(acc.failureLines, line)
     ELSE acc.failureLines]

(* Mutant: a blank line closes the failure section and drops it. *)
ParseLineResetOnBlank(acc, line) ==
  [passed |-> acc.passed + (IF line.k = "result" THEN line.p ELSE 0),
   failed |-> acc.failed + (IF line.k = "result" THEN line.f ELSE 0),
   failureLines |->
     IF line.k = "blank" THEN <<>>
     ELSE IF line.k = "failhdr" \/ acc.failureLines # <<>>
     THEN Append(acc.failureLines, line)
     ELSE acc.failureLines]

(* Once a "failures:" line is seen every later line is collected, blank   *)
(* ones as ""; a "test result:" line adds its passed and failed counts.    *)
ParseLine(acc, line) ==
  [passed |-> acc.passed + (IF line.k = "result" THEN line.p ELSE 0),
   failed |-> acc.failed + (IF line.k = "result" THEN line.f ELSE 0),
   failureLines |->
     IF line.k = "failhdr" \/ acc.failureLines # <<>>
     THEN Append(acc.failureLines, line)
     ELSE acc.failureLines]

ParseTestOutput(out) == FoldLeft(ParseLine, NoSummary, out)

-----------------------------------------------------------------------------

VARIABLES
  pc,           \* "run", "rerun", "write" or "done"
  runs,         \* outcomes of the cargo invocations so far, in order
  summary,      \* the TestSummary returned by run_switchyard_tests
  summaryJson,  \* ci/tests/summary.json: [total, passed, failed]
  failuresMd    \* ci/tests/failures.md: NoFailures or the failure lines

vars == <<pc, runs, summary, summaryJson, failuresMd>>

Init ==
  /\ pc = "run"
  /\ runs = <<>>
  /\ summary = NoSummary
  /\ summaryJson = [total |-> 0, passed |-> 0, failed |-> 0]
  /\ failuresMd = NoFailures

(* run_switchyard_tests: the quiet run under "|| true" is parsed; with   *)
(* failures it goes on to the verbose rerun.                               *)
RunTests ==
  /\ pc = "run"
  /\ \E o \in Outcomes :
       /\ runs' = <<o>>
       /\ summary' = ParseTestOutput(CargoOutput(o))
       /\ pc' = IF summary'.failed > 0 THEN "rerun" ELSE "write"
  /\ UNCHANGED <<summaryJson, failuresMd>>

(* The verbose rerun: a fresh cargo test whose result replaces the first. *)
(* The code compiled a moment ago, so the rerun builds; tests may flake.   *)
RerunTests ==
  /\ pc = "rerun"
  /\ \E o \in Outcomes \ {BuildError} :
       /\ runs' = Append(runs, o)
       /\ summary' = ParseTestOutput(CargoOutput(o))
  /\ pc' = "write"
  /\ UNCHANGED <<summaryJson, failuresMd>>

(* Mutant: total computed as passed minus failed. *)
WriteTestsArtifactsDiff ==
  /\ pc = "write"
  /\ summaryJson' = [total |-> summary.passed - summary.failed,
                     passed |-> summary.passed, failed |-> summary.failed]
  /\ failuresMd' = IF summary.failed > 0 /\ summary.failureLines # <<>>
                   THEN summary.failureLines
                   ELSE NoFailures
  /\ pc' = "done"
  /\ UNCHANGED <<runs, summary>>

(* write_tests_artifacts. *)
WriteTestsArtifacts ==
  /\ pc = "write"
  /\ summaryJson' = [total |-> summary.passed + summary.failed,
                     passed |-> summary.passed, failed |-> summary.failed]
  /\ failuresMd' = IF summary.failed > 0 /\ summary.failureLines # <<>>
                   THEN summary.failureLines
                   ELSE NoFailures
  /\ pc' = "done"
  /\ UNCHANGED <<runs, summary>>

Next == RunTests \/ RerunTests \/ WriteTestsArtifacts

Spec == Init /\ [][Next]_vars

-----------------------------------------------------------------------------
(* Properties.                                                              *)

TypeOK ==
  /\ pc \in {"run", "rerun", "write", "done"}
  /\ runs \in Seq(Outcomes) /\ Len(runs) <= 2
  /\ summary.passed \in Nat /\ summary.failed \in Nat
  /\ summaryJson \in [total : Nat, passed : Nat, failed : Nat]
  /\ failuresMd = NoFailures \/ failuresMd \in Seq({Text, Blank, FailHdr} \cup {Result(p, f) : p, f \in 0..TestsPer})

(* Reference for the counts: the tests of the binaries cargo executed.    *)
RefPassed(o) == IF o = BuildError THEN 0
                ELSE MapThenSumSet(LAMBDA b : TestsPer - o[b], Executed(o))
RefFailed(o) == IF o = BuildError THEN 0
                ELSE MapThenSumSet(LAMBDA b : o[b], Executed(o))

(* summary.json counts exactly the tests that the last cargo invocation   *)
(* executed, summed over every binary's "test result:" line.              *)
SummaryCountsLastRun ==
  pc = "done" =>
    /\ summaryJson.passed = RefPassed(runs[Len(runs)])
    /\ summaryJson.failed = RefFailed(runs[Len(runs)])

(* failures.md says "No failures detected." exactly when summary.json     *)
(* reports no failed test (spec section 6).                                *)
FailuresMdAgrees ==
  pc = "done" => (failuresMd = NoFailures <=> summaryJson.failed = 0)

(* A failure cargo reported in the first run is not lost: the comment on  *)
(* the rerun says it only captures details for failures.md.               *)
FirstRunFailuresKept ==
  (pc = "done" /\ RefFailed(runs[1]) > 0) => summaryJson.failed > 0

(* A cargo test that did not build is not attested as a clean run: a       *)
(* summary with no failures means cargo test exited 0.                     *)
CleanSummaryOnlyIfTestsPassed ==
  (pc = "done" /\ summaryJson.failed = 0) => CargoExit(runs[Len(runs)]) = 0

=============================================================================
