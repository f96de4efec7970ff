# TLA+ models of the switchyard provenance scripts

This directory holds TLA+ models of the attestation scripts of the
repository: `scripts/provenance_ci.py` builds and signs a manifest of the CI
artifacts; `scripts/verify_provenance_digests.py` and
`scripts/verify_provenance_signature.py` check it later. Each definition is
translated from the Python source. `PROJECT.json` maps every definition to
the source lines it models.

## 1. Inventory

### Components, their state and operations

| Component | Source | State it keeps | Operations |
|---|---|---|---|
| Digest Engine | `sha256_file` in `provenance_ci.py` and in `verify_provenance_digests.py` | none | hash a file in 8 KiB chunks |
| Canonicalizer | `canonicalize_json` | none | `json.dumps(sort_keys, compact separators, ensure_ascii=False)`, then a trailing `\n`, encoded as UTF-8 |
| Manifest Builder | `build_manifest` | none in memory. It reads `GITHUB_*` variables and the three artifact files. | build the manifest record with three descriptors in a fixed order |
| Signer | `sign_ed25519` | none | return `None` when there is no key, no PyNaCl, a wrong key length or any exception. Otherwise sign with the 32-byte seed, which for a 64-byte key is its first half. |
| Pipeline | `main` | the files: `ci/tests/summary.json`, `ci/tests/failures.md`, `ci/coverage/*`, `ci/front_page.pml`, `.provenance/manifest.json`, `.provenance/manifest.json.sig` | ensure dirs and write the front page if missing → run tests and write summary and failures → clean `ci/coverage`, run tarpaulin and write coverage → build and write the manifest → sign, and write the `.sig` only if a signature was produced |
| Test summary collector | `run_switchyard_tests`, `parse_test_output`, `write_tests_artifacts` | accumulators while parsing | run `cargo test` under `\|\| true`. If there are failures, run it again verbosely and keep the rerun's result. Sum the `passed`/`failed` counts over every `test result:` line. |
| Coverage collector | `ensure_cargo_tarpaulin`, `compute_coverage` | `ci/coverage/lcov.info` between invocations, and LCOV parser state: current file, `lf`, `lh`, and the `files` dict | unlink the files under `ci/coverage`, swallowing errors, and run tarpaulin under `\|\| true`. Then parse `SF:`, `DA:`, `LF:`, `LH:` and `end_of_record` lines and compute one-decimal percentages. |
| Digest Verifier | `verify_provenance_digests.main` | none | exit 2 if there is no manifest or an entry is invalid. Otherwise check each descriptor in order and exit 3 at the first missing file or 4 at the first mismatch. Exit 0 if all pass. |
| Signature Verifier | `verify_provenance_signature.main` | none | exit 0 ("skip") without a public key. Otherwise exit 2 without a manifest, 3 without a `.sig` file, 4 on a bad signature, and 0 if it verifies. |
| BDD failure filter | `scripts/bdd_filter_results.py` | none | run the BDD suite and print its output. With `--fail-only`, keep only the matching lines plus up to three context lines after a step failure. |
| Traceability tool | `SPEC/tools/traceability.py` | parser state: pending tags, current scenario, last step kind | parse feature files, join scenario tags with requirement ids, report uncovered MUST requirements |
| CI test runner | `test_ci_runner.py` | none | forward its arguments to `cargo test` |

### How the components interact

Nothing runs concurrently inside a script. The scripts interact only through
files in the repository. One run of `provenance_ci.py` writes the files in a
fixed order. The two verifiers run later as separate processes and read the
same files. The files persist from one CI invocation to the next. Nothing
deletes `.provenance/manifest.json.sig` or `ci/front_page.pml`.

### What is hard

- **A run killed part-way.** CI cancellations and timeouts can stop a run
  between two writes. They can also stop it inside `write_text`, which
  truncates the file and then writes it. The files that remain mix this run
  with the previous one, or are torn.
- **State that outlives a run.** The `.sig` file from an earlier run
  survives an unsigned run. The front page is created only when it is
  missing.
- **Files altered between runs.** Someone with access to the workspace can
  change an artifact. They can recompute digests into a new manifest, or
  put back an old manifest and its signature. The verifiers must catch every
  combination that is not a signed run's own output.
- **Errors swallowed on purpose.** `|| true` around cargo, `except
  Exception: return None` in the signer, and ignored unlink errors.
- **Re-running what was already done.** A flaky test run is replaced by the
  verbose rerun.
- **Arithmetic at the edges.** Coverage percentages when a record has no
  `DA:` lines (`LF:` is 0), and the total taken as a ratio of sums rather
  than a mean of rows. `LcovFiles` generates files as tarpaulin writes
  them: one record per source path, with `LH` counted from the `DA:`
  lines. So `LH` above `LF` and two records sharing a path are not
  explored.

The hazards are listed one by one, each at the line where it bites, under
`hazards` in `PROJECT.json`.

### Properties that make each component correct

- Pipeline and verifiers together:
  - **attestation soundness, as a refinement.** The scripts implement
    `AttestationSpec`. A signature attests the manifest and the files as
    they are on disk when it is made. Attestations are never withdrawn.
    Whenever both verifiers exit 0 for the public key of `k`, the manifest
    and the files on disk are exactly what `k` attested.
  - **round trip.** A finished run that nobody has touched since always
    verifies.
  - **no stale signature.** This is spec §6.
  - **invalid key fails.** This is spec §4.4.
- Test summary collector:
  - `total = passed + failed`, summed over all `test result:` lines.
  - `failures.md` says "No failures detected." only if no failures were
    counted.
  - A failure seen in the first run is not lost by the rerun.
- Coverage collector: every per-file row is the percentage of that
  record's lines, the total is the percentage of all of them, and both lie
  between 0 and 100. The rows come from this invocation's tarpaulin run.
- BDD failure filter: `--fail-only` keeps exactly the failure lines, the
  summary lines and the context after a step failure, each once and in
  order.
- Traceability: a requirement counts as covered exactly when some
  scenario carries its tag. Each scenario records exactly the steps of its
  own block, across files, each under the kind Gherkin gives it.

## 2. Plan

Modules in order of importance. Each one has an `MC*.tla` instance and
`.cfg` files.

1. **`Provenance`** (written): the pipeline, the signer, the manifest
   builder and both verifiers over the shared files. It covers repeated
   runs, kills between and inside writes, and alteration of the workspace
   between runs.
2. **`TestSummary`** (written): `run_switchyard_tests` with its verbose rerun,
   and `parse_test_output` as a fold over abstract output lines,
   feeding `write_tests_artifacts`. Runs check the summary counts and that
   `failures.md` agrees with them. A violation run checks "a failure seen in
   the first run is never lost", which the rerun breaks.
3. **`LcovCoverage`** (written): `compute_coverage`: the clean-up of
   `ci/coverage`, the tarpaulin run, and the LCOV read loop with one
   action per branch, checked against a reference computed from the
   records that were read.
4. **`BddFilter`** (written): `main` and `filter_failures_only` with its
   three-line look-ahead, one action per branch of its two loops.
5. **`Traceability`** (written): the `parse_features` state machine over
   the files of a directory (tags, scenario headers, step kinds inherited
   by `And`/`But`, the flush at the end of each file), `build_coverage`
   and the exit status of `main`.
6. **`AttestationSpec`** (written): the abstract promise of the
   attestation scripts. `Provenance` is shown to implement it with
   `INSTANCE AttestationSpec WITH ...`, checked as a PROPERTY.
7. **Canonicalizer** (not planned). See section 4.

Left for later: liveness, should a step of the code come to depend on
something eventually happening (see Fairness under `Provenance`).

## 3. Modules and runs

### `Provenance` (with `MCProvenance`)

State:

| Variable | Meaning |
|---|---|
| `pc` | the next step of the running invocation of `main`, or `"idle"` |
| `art` | the three artifact files |
| `manifest`, `sig`, `frontPage` | the other files |
| `hist` | one record per invocation: its environment (key material, PyNaCl, tarpaulin), what it wrote, the manifest it built, who signed it, and whether it finished or was killed. Properties use it as history. |
| `crashes`, `tampers` | bounded counters |
| `tamperedAt` | when the workspace was last altered |

Actions, one per step of `main`:

| Action | Step of `main` |
|---|---|
| `Start` | `ensure_dirs` and the front page |
| `WriteSummary` | writing `summary.json` |
| `WriteFailures` | writing `failures.md` |
| `CleanCoverage` | `compute_coverage` unlinking the files under `ci/coverage` when tarpaulin is present |
| `WriteCoverage` | writing `coverage.json` |
| `WriteManifest` | `build_manifest`, `canonicalize_json` and writing `manifest.json` |
| `WriteSignature` | `sign_ed25519` and the conditional write of the `.sig` file |

The environment has three more actions:

- `Crash` kills the invocation between steps.
- `CrashInWrite` kills it inside the write of the current step, which
  leaves a `Torn` file.
- `Tamper` alters the workspace while no invocation runs. It can replace
  an artifact, or write a manifest with recomputed digests. That manifest
  can be in full, with only one descriptor, with none, or with a
  descriptor whose `sha256` is missing. It can also put back any manifest
  or signature seen before, or sign with a key of its own.

The verifiers change nothing, so they are the operators `VerifyDigestsExit`
and `VerifySignatureExits(pk, nacl)`. They give the exit code of one
invocation. A torn signature file may end in either of two codes. `nacl`
says whether PyNaCl imports in the consumer's environment: the import runs
before `main` and exits 2 when it fails, even when no public key is set.
`Accepted` lets a consumer have PyNaCl or not; `RoundTrip` asks for exit 0
with PyNaCl installed.

Abstractions:

- **Contents.** Artifact contents are model values. The test and coverage
  collectors are modelled separately, in `TestSummary` and `LcovCoverage`.
- **Digests.** `Sha256` is an injective function, which stands for
  collision resistance.
- **Signatures.** Ed25519 is symbolic: a signature is
  `[signer, msg]`. An intruder cannot produce one for a key it does not
  hold.
- **Run identity.** The run identity is the invocation number.
- **Canonical bytes.** The manifest record stands for its bytes. The
  signature is made over the same in-memory bytes that are written to
  `manifest.json`, and the signature verifier reads the raw file. So
  nothing depends on the serialisation being canonical, only on
  `json.dumps` being a function of the record.
- **Missing artifact at build time.** `build_manifest`'s
  FileNotFoundError path for a missing artifact is unreachable here. `main`
  has just written all three files, and an invocation that is killed never
  reaches the build.

| Run | cfg | Expect | Checks |
|---|---|---|---|
| `attestation` | `MCProvenance.cfg` | pass | `TypeOK`, `RoundTrip`, `ImplementsAttestation` |
| `stale_signature` | `MCProvenance_SignatureOnlyWithKey.cfg` | violation | `SignatureOnlyWithKey` |
| `malformed_key` | `MCProvenance_MalformedKeyRejected.cfg` | violation | `MalformedKeyRejected` |

**Bounds.**

- `attestation` uses 2 invocations, 1 kill, 1 alteration, one operator
  seed `k1` plus the intruder's `kEvil`, and 2 contents with symmetry. It
  also uses the view `MCView`. Once an invocation is no longer the current
  one, the view keeps only what it wrote, built and signed. No action and
  no property of this run except `TypeOK` reads an earlier invocation's
  environment or status. Neither of those changes once the invocation is
  no longer current, so `TypeOK` checks the same values either way. The run explores about 380,000 distinct states in
  under 30 seconds; without the view it explores 3.8 million in about 3
  minutes. The two violation runs have no view. `MalformedKeyRejected`
  reads `hist[i].cfg` of earlier invocations.
- Two invocations are the fewest that can leave a previous run's files
  behind. One kill reaches every "new file beside an old file" combination,
  because a kill can land at any step. One alteration is enough for a
  single replayed or recomputed file to meet a stale one.
- The key material covers every branch of `sign_ed25519`: unset, a 32-byte
  seed, a 64-byte expanded key, and 16 bytes. PyNaCl and tarpaulin are each
  present or absent.
- The violation runs use no kills and no alterations, so the counterexample
  comes from what the code does on its own.

**What the runs show.**

- `attestation` passes. The scripts implement `AttestationSpec`. Killed
  writes, the clean-up of `ci/coverage`, stale signatures, replays,
  recomputed manifests (full, with one descriptor, with none, or with an
  entry that has no digest) and
  intruder signatures never make both verifiers accept files that no signed
  invocation wrote. A signature always attests the files as they are when
  it is made. A finished, untouched invocation always verifies. With
  usable key material the signature verifier gives exactly exit 0.
- `stale_signature` fails. An invocation with a key, followed by one
  without, finishes with the first run's `.sig` beside the second manifest.
  Spec §6 says the file is present only when key material was supplied. A
  verifier with the public key then reports "signature invalid" (4), not
  "signature missing" (3).
- `malformed_key` fails. Its configuration pins PyNaCl as installed
  (`RunConfigs <- MCRunConfigsWithNacl`), so `sign_ed25519` gets past its
  import at line 259. A 16-byte key then reaches the length check and the
  `return None` at line 267, and the run finishes unsigned. Spec §4.4 asks
  for `InvalidKeyError`.

**Refinement.** `AttestationSpec` has three variables:

- `disk`: the manifest and the files.
- `attested`: a growing set of `[signer, state]` records.
- `accepted`: for each key, whether its verifiers accept.

It has two actions:

- `Change` alters the disk arbitrarily.
- `Attest(k)` records the disk as it is.

Both keep `Consistent`: a key accepts only a state it attested. The
mapping in `Provenance` is:

- `disk` is the manifest file and `art`.
- `attested` is the (signer, built manifest, files written) records of the
  invocations that signed (`Attestations`).
- `accepted` is `Accepted(Pub(k))`.

`WriteSignature` is the abstract `Attest`. Every other step is a `Change`
or a stutter.

**Fairness.**

- None is assumed, and no liveness property is stated. Every loop in the
  scripts runs over finite input, and each step of `main` is enabled until
  it is taken. So termination holds by construction. What can really stop
  progress is a `cargo test` or `cargo tarpaulin` subprocess that never
  returns, because `sh` sets no timeout. A model can only assume that away,
  not check it.
- Deadlock checking is off because the pipeline really stops. After its
  last invocation the batch job is over and nothing is left to move.

### `TestSummary` (with `MCTestSummary`)

State: `pc` (`run`, `rerun`, `write`, `done`), `runs` (the outcome of each
cargo invocation), `summary` (what `run_switchyard_tests` returns), and the
two files `summaryJson` and `failuresMd`.

- An outcome is a build error, or the number of failing tests in each
  binary. `CargoOutput` turns it into the lines libtest and cargo print:
  per binary that ran, a `running` line, two `failures:` sections when
  tests fail, and a `test result:` line. cargo stops after the first binary
  with failures. A build error prints no result line.
- `ParseLine` is one iteration of the loop in `parse_test_output`, and
  `ParseTestOutput` folds it over the output.
- `RunTests` is the quiet run, which goes to `rerun` when failures are
  counted. `RerunTests` is the verbose rerun, whose result replaces the
  first. `WriteTestsArtifacts` writes both files.

| Run | cfg | Expect | Checks |
|---|---|---|---|
| `test_summary` | `MCTestSummary.cfg` | pass | `TypeOK`, `SummaryCountsLastRun`, `FailuresMdAgrees` |
| `flaky_rerun` | `MCTestSummary_FirstRunFailuresKept.cfg` | violation | `FirstRunFailuresKept` |
| `build_error_clean` | `MCTestSummary_CleanSummaryOnlyIfTestsPassed.cfg` | violation | `CleanSummaryOnlyIfTestsPassed` |

Bounds: 3 binaries of 2 tests each. Three binaries are the fewest where a
failing binary stops a later one from running while an earlier one has
already reported, so the sum over several result lines and the fail-fast
cut both happen.

- `test_summary` passes. The counts are the sums over the binaries the last
  invocation ran, and `failures.md` is "No failures detected." exactly when
  no failure is counted, because the failure section, once opened, is never
  closed by a blank line.
- `flaky_rerun` fails. A test that fails in the first run and passes in the
  rerun leaves 0 failures in `summary.json`, although the comment at the
  rerun says it is only there to capture details.
- `build_error_clean` fails. A build error is summarised as 0 passed,
  0 failed and "No failures detected.".

### `LcovCoverage` (with `MCLcovCoverage`)

State:

- `tarpaulin`: whether `ensure_cargo_tarpaulin` succeeded.
- `lcovFile`: the `lcov.info` in `ci/coverage`. It is either absent or
  holds records, and it is marked fresh when this invocation's tarpaulin
  wrote it.
- `step`: `clean`, `tarpaulin` or `read`.
- `records`: the records of the file that is read, and `input`, its lines.
- `pos`, the loop variables `currentFile`, `lf` and `lh`, the dict
  `files`, and `cov` (the result).

Actions:

- The invocation starts with either no `lcov.info` or one left by an
  earlier invocation.
- `CleanCoverage` is the unlink loop: the file is removed, or `unlink`
  raises and the exception is swallowed.
- `RunTarpaulin` is the `|| true` run: it writes a new `lcov.info`, or
  fails and leaves the directory as it was. The file is then read if it
  exists.
- Each branch of the read loop is an action: `ReadSF`, `ReadDA`, `ReadLF`,
  `ReadLH` and `ReadEndOfRecord`. `Finish` is the flush after the loop and
  the computation of the rows and the total. `NoTarpaulin` is the early
  return with zero coverage.
- Percentages are integers in tenths. `Round1` is Python's `round(x, 1)`,
  which rounds half to even on the exact value of the double.
- Inputs are the files tarpaulin writes: one record per source file, with
  or without `LF:`/`LH:` lines, and the last record possibly without
  `end_of_record`. A missing `lcov.info` is a file with no records.

| Run | cfg | Expect | Checks |
|---|---|---|---|
| `lcov_coverage` | `MCLcovCoverage.cfg` | pass | `TypeOK`, `RowsMatchRecords` |
| `stale_lcov` | `MCLcovCoverage_CoverageFromThisRun.cfg` | violation | `CoverageFromThisRun` |

Bounds: two paths (symmetric), up to two records of up to two `DA:` lines.
That reaches a record with no lines (`lf = 0`), a record that inherits
nothing from the one before, an unclosed last record, and totals of 3 lines
whose percentages round both down (33.3) and up (66.7). The earlier
invocation's `lcov.info` ranges over the same files. It is 10,146 states.

- `lcov_coverage` passes. `coverage.json` has one row per record read,
  with that record's percentage, and the total is the percentage of all
  the lines.
- `stale_lcov` fails in three steps:
  1. An earlier invocation leaves an `lcov.info`.
  2. The unlink of it fails, and the error is swallowed.
  3. Tarpaulin fails under `|| true`.

  The earlier rows are then read, written to `coverage.json`, digested and
  signed as this build's coverage. The spec says the manifest attests the
  coverage data produced by the build (§1), and it asks that "coverage tool
  ran" be told apart from the alternatives (§9).

### `BddFilter` (with `MCBddFilter`)

State: `failOnly` (the `--fail-only` flag), `lines` (the cucumber output,
abstracted to the matcher each line satisfies; `RunBdd` is the set of
outputs), `i` and `j` (the two loop indices), `filtered` (the input
positions appended so far), `result` and `pc`.

- `PrintAll` is `main` without `--fail-only`: the output is printed as is.
- `KeepLine` and `SkipLine` are the outer loop.
- `ContextLine` and `EndContext` are the inner look-ahead. It ends after
  three lines, at the end of the output, or at a `Feature:` header.
- `Finish` returns the filtered lines, or the whole output when nothing
  matched.

Keeping positions rather than text makes a repeated or reordered line
visible.

| Run | cfg | Expect | Checks |
|---|---|---|---|
| `bdd_filter` | `MCBddFilter.cfg` | pass | `TypeOK`, `FilterKeepsExactly` |
| `bdd_duplicate_context` | `MCBddFilter_EachLineOnceInOrder.cfg` | violation | `EachLineOnceInOrder` |

Bounds: every output of up to 5 lines over one representative of each
behaviour: a matching line, the two kinds of trigger, a feature header,
and other text. The four non-trigger matchers behave identically in the
code. This reaches a failure whose context runs past the end, a context
cut by a header, and overlapping contexts. With and without `--fail-only`,
it is 50,449 states.

- `bdd_filter` passes. With `--fail-only`, the set of lines printed is
  exactly the matching lines plus the context lines, or the whole output
  when nothing matched. Without it, the output is printed unchanged.
- `bdd_duplicate_context` fails on `Step failed:` followed by `Matched:`.
  The `Matched:` line is printed twice, once as context and once as a
  match. Cucumber prints `Defined:` and `Matched:` right after
  `Step failed:`, so this happens on every failure.

### `Traceability` (with `MCTraceability`)

State:

- `features`: the feature files opened so far, and `lines`, their lines
  one after the other. An `eof` line closes each file.
- The parser's `pending` tags, `current` scenario, `lastKind` and the
  list of flushed `scenarios`. Each scenario keeps its tags and its steps
  as (kind, position) pairs, as `Scenario.steps` does.
- `errors`: the positions of lint errors.
- `covered` and `exitCode`.

Actions:

- `OpenFile`: the next `.feature` file of `sorted(os.listdir(...))` is
  read whole. Pending tags, the current scenario and `last_kind` start
  afresh. The file is any one that fits in the blocks and steps still
  left, so the directory is chosen file by file.
- One per branch of the line loop: `ReadTags`, `ReadScenario`,
  `ReadOther`, `SkipStep` and `ReadStep`.
- `EndOfFile`: the `flush_scenario()` after each file's lines.
- `Finish`: no file is left. It computes `BuildCoverage` and `ExitStatus`.

Inputs (`MCTraceability.cfg`):

- up to two feature files;
- in each, optional feature tags, the `Feature:` line, and an optional
  `Background:` with one step;
- up to two blocks over all the files, each made of a tag line, a header
  and its steps;
- up to two steps over all the files, Background steps included.

This reaches an `And` opening a scenario after a `Given` (in the same file
or the one before) and a `Given` then `And` in one scenario. It also
reaches a file whose Background follows a file whose last scenario is
still open. Tags are `r1` and `r2`, both requirements, with `r1` a MUST.
The contract matches only `Given` steps. A budget of three steps passes
too, in about 1.5 minutes (2.9 million states). It is kept at two so that
the mutant runs stay short.

| Run | cfg | Expect | Checks |
|---|---|---|---|
| `traceability` | `MCTraceability.cfg` | pass | `TypeOK`, `CoverageMatchesTags`, `ScenarioStepsMatchBlocks` |
| `outline_tags` | `MCTraceability_Outline.cfg` | violation | `CoverageMatchesTags` |

- `traceability` passes with `Scenario:` headers only (590,142 states, in
  about 20 seconds).
  - The covered requirements are exactly those tagged on a scenario or on
    its feature, in any file. Feature tags reach only the first scenario
    of their file, but coverage is a union, so the result is the same.
    Without the flush after each file, the last scenario of every file
    would be lost (the mutant).
  - The n-th scenario recorded holds exactly the steps of the n-th
    scenario block, in order. Background steps and the next file's lines
    are not among them. Each step is checked under the kind Gherkin gives
    it: an `And` takes the kind of the nearest `Given` or `Then` above it
    in the same scenario, or `Then` when there is none. It never takes
    the kind of the previous scenario's last step, because `last_kind` is
    reset at each `Scenario:` (the mutant drops that reset).
- `outline_tags` fails. Once `Scenario Outline:` headers are allowed, a
  requirement tagged only on an outline is reported uncovered and the tool
  exits 1. The outline header does not start with `scenario:`.
- Steps of a `Background:` are skipped without a contract check
  (`SkipStep`). The code marks this as intended ("step outside scenario"),
  and the tool's contract is not part of the spec. No property takes a side
  on it.

## 4. Not modelled

- **`test_ci_runner.py`.** It only forwards arguments to cargo.
- **`canonicalize_json`.** It is four lines around `json.dumps`. A model of
  it would be a model of the json library. Nothing in the scripts relies on
  the bytes being canonical (see `Provenance`, Abstractions).
- **The YAML loading and the markdown report of `traceability.py`.** They
  are I/O and layout. The report's coverage matrix lists a feature-level
  tag only under the first scenario of the file.
- **Subprocess and stdout plumbing.** This covers `sh`, the copy of the
  BDD output to `target/bdd-lastrun.log`, the exit status passed through
  from cargo, and the final JSON echo of `main`.
- **The front page.** `ci/front_page.pml` is named in the manifest without
  a digest, and the default is written only when the file is missing.
  `Provenance` lets it be altered, and neither verifier reads it. The spec
  does not say whether it is part of what is attested, so no property
  takes a side.
- **The signature verifier's skip without PyNaCl.** Spec §4.6 says a
  consumer with no public key skips signature checking. The verifier
  imports PyNaCl before reading the key and exits 2 when the import fails,
  the code of a missing manifest. `VerifySignatureExits` models this, and
  `ImplementsAttestation` shows it never accepts too much. No run states
  the skip outcome itself.
- **Path normalisation and the row sort in `compute_coverage`.** They
  change the layout of `coverage.json`, not its numbers.
- **Two pipelines writing the same workspace at once.** Spec §5 leaves
  this to the caller.
- **A verifier run at the same time as a pipeline.** Each verifier is
  modelled as reading a consistent snapshot.
- **Run identity.** Comparing the run identity of the manifest with
  anything is not part of the code. See the replay hazard in
  `PROJECT.json`.
