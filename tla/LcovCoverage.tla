---------------------------- MODULE LcovCoverage ----------------------------
(***************************************************************************)
(* The LCOV reader and the percentage arithmetic of compute_coverage in   *)
(* scripts/provenance_ci.py, which produce ci/coverage/coverage.json.      *)
(*                                                                         *)
(* The reader is a loop over the lines of lcov.info with the state         *)
(* current_file, lf, lh and the dict files; each branch of the loop is an  *)
(* action.  Inputs are lcov.info files as cargo-tarpaulin writes them: a   *)
(* sequence of records "SF:<path>", DA lines, optionally the LF and LH     *)
(* summary lines, and "end_of_record" (the last one possibly missing).     *)
(* Percentages are kept as integers in tenths of a percent.                *)
(***************************************************************************)
EXTENDS Integers, Sequences, SequencesExt, FiniteSetsExt, Functions

CONSTANTS
  Paths,        \* source file paths tarpaulin reports
  MaxRecords,   \* records in one lcov.info
  MaxDA,        \* DA lines in one record
  None          \* current_file = None / a path with no row

ASSUME MaxRecords \in Nat /\ MaxDA \in Nat

(* The line kinds the reader distinguishes. *)
SF(p) == [k |-> "SF", path |-> p]
DA(hit) == [k |-> "DA", hit |-> hit]
LF(n) == [k |-> "LF", n |-> n]
LH(n) == [k |-> "LH", n |-> n]
EndOfRecord == [k |-> "end_of_record"]

(* One record as tarpaulin writes it. *)
Records ==
  [path : Paths, das : BoundedSeq(BOOLEAN, MaxDA), summary : BOOLEAN, closed : BOOLEAN]

HitCount(das) == Cardinality({i \in DOMAIN das : das[i]})

RecordLines(r) ==
  <<SF(r.path)>>
  \o [i \in DOMAIN r.das |-> DA(r.das[i])]
  \o (IF r.summary THEN <<LF(Len(r.das)), LH(HitCount(r.das))>> ELSE <<>>)
  \o (IF r.closed THEN <<EndOfRecord>> ELSE <<>>)

(* Files tarpaulin can write: one record per source file, every record   *)
(* but the last closed.  A missing lcov.info reads as no records.          *)
LcovFiles ==
  { rs \in BoundedSeq(Records, MaxRecords) :
      /\ IsInjective([i \in DOMAIN rs |-> rs[i].path])
      /\ \A i \in 1..(Len(rs) - 1) : rs[i].closed }

LcovLines(rs) == FoldLeft(LAMBDA acc, r : acc \o RecordLines(r), <<>>, rs)

(* round(n / d * 100.0, 1) in tenths of a percent: Python rounds the      *)
(* exact value of the double half to even; for these small counts the    *)
(* double is exact whenever the decimal value is a tie.                   *)
Round1(n, d) ==
  LET q == (n * 1000) \div d
      r == (n * 1000) % d
  IN CASE 2 * r > d -> q + 1
       [] 2 * r < d -> q
       [] OTHER     -> IF q % 2 = 0 THEN q ELSE q + 1

(* pct = 0.0 if lf == 0 else round((lh / max(lf, 1)) * 100.0, 1) *)
Pct(lh, lf) == IF lf = 0 THEN 0 ELSE Round1(lh, lf)

-----------------------------------------------------------------------------

VARIABLES
  tarpaulin,    \* ensure_cargo_tarpaulin found cargo-tarpaulin
  lcovFile,     \* ci/coverage/lcov.info: None, or [records, fresh], fresh
                \* when this invocation's tarpaulin wrote it
  step,         \* "clean", "tarpaulin" or "read"
  records,      \* the records of the lcov.info that is read
  input,        \* lcov.info, as a sequence of lines
  pos,          \* index of the next line to read
  currentFile,  \* current_file
  lf, lh,       \* counters of the record being read
  files,        \* the dict files: path -> <<lf, lh>>, or None when absent
  cov           \* the coverage record returned, None while reading

vars == <<tarpaulin, lcovFile, step, records, input, pos, currentFile, lf, lh, files, cov>>

line == input[pos]

(* lcov.info may be left in ci/coverage by an earlier invocation. *)
Init ==
  /\ tarpaulin \in BOOLEAN
  /\ lcovFile \in {None} \cup {[records |-> rs, fresh |-> FALSE] : rs \in LcovFiles}
  /\ step = "clean"
  /\ records = <<>>
  /\ input = <<>>
  /\ pos = 1
  /\ currentFile = None
  /\ lf = 0 /\ lh = 0
  /\ files = [p \in Paths |-> None]
  /\ cov = None

(* files[current_file] = (lf, lh) *)
Flush == IF currentFile # None THEN [files EXCEPT ![currentFile] = <<lf, lh>>]
         ELSE files

(* The loop over ci/coverage: lcov.info is unlinked, or unlink raises and *)
(* the exception is swallowed.                                             *)
CleanCoverage ==
  /\ tarpaulin /\ step = "clean"
  /\ \/ lcovFile' = None
     \/ lcovFile # None /\ UNCHANGED lcovFile
  /\ step' = "tarpaulin"
  /\ UNCHANGED <<tarpaulin, records, input, pos, currentFile, lf, lh, files, cov>>

(* cargo tarpaulin ... || true: it writes a new lcov.info, or fails and    *)
(* leaves ci/coverage as it is; lcov.info is then read if it exists.       *)
RunTarpaulin ==
  /\ step = "tarpaulin"
  /\ \/ \E rs \in LcovFiles : lcovFile' = [records |-> rs, fresh |-> TRUE]
     \/ UNCHANGED lcovFile
  /\ records' = IF lcovFile' = None THEN <<>> ELSE lcovFile'.records
  /\ input' = LcovLines(records')
  /\ step' = "read"
  /\ UNCHANGED <<tarpaulin, pos, currentFile, lf, lh, files, cov>>

Reading == step = "read" /\ pos <= Len(input)

(* Mutant: a new record starts with lf = 0 but keeps the hit counter. *)
ReadSFKeepHits ==
  /\ Reading /\ line.k = "SF"
  /\ files' = Flush
  /\ currentFile' = line.path
  /\ lf' = 0
  /\ pos' = pos + 1
  /\ UNCHANGED <<tarpaulin, lcovFile, step, records, input, lh, cov>>

(* "SF:": flush the open record, start a new one. *)
ReadSF ==
  /\ Reading /\ line.k = "SF"
  /\ files' = Flush
  /\ currentFile' = line.path
  /\ lf' = 0 /\ lh' = 0
  /\ pos' = pos + 1
  /\ UNCHANGED <<tarpaulin, lcovFile, step, records, input, cov>>

(* "DA:<line>,<count>": one more line found, and hit when count > 0. *)
ReadDA ==
  /\ Reading /\ line.k = "DA"
  /\ lf' = lf + 1
  /\ lh' = IF line.hit THEN lh + 1 ELSE lh
  /\ pos' = pos + 1
  /\ UNCHANGED <<tarpaulin, lcovFile, step, records, input, currentFile, files, cov>>

(* "LF:" and "LH:" overwrite the counters. *)
ReadLF ==
  /\ Reading /\ line.k = "LF"
  /\ lf' = line.n
  /\ pos' = pos + 1
  /\ UNCHANGED <<tarpaulin, lcovFile, step, records, input, currentFile, lh, files, cov>>

ReadLH ==
  /\ Reading /\ line.k = "LH"
  /\ lh' = line.n
  /\ pos' = pos + 1
  /\ UNCHANGED <<tarpaulin, lcovFile, step, records, input, currentFile, lf, files, cov>>

(* "end_of_record": flush and close the record; lf and lh are kept. *)
ReadEndOfRecord ==
  /\ Reading /\ line.k = "end_of_record"
  /\ files' = Flush
  /\ currentFile' = None
  /\ pos' = pos + 1
  /\ UNCHANGED <<tarpaulin, lcovFile, step, records, input, lf, lh, cov>>

(* Mutant: a record without end_of_record is never flushed. *)
FinishNoFlush ==
  /\ step = "read" /\ pos > Len(input) /\ cov = None
  /\ LET rows == {p \in Paths : files[p] # None}
         totalLf == MapThenSumSet(LAMBDA p : files[p][1], rows)
         totalLh == MapThenSumSet(LAMBDA p : files[p][2], rows)
     IN cov' = [files |-> [p \in rows |-> Pct(files[p][2], files[p][1])],
                total |-> Pct(totalLh, totalLf)]
  /\ currentFile' = None
  /\ UNCHANGED <<tarpaulin, lcovFile, step, records, input, pos, lf, lh, files>>

(* After the last line: flush a record left open, then one row per path  *)
(* and the total over all of them.                                        *)
Finish ==
  /\ step = "read" /\ pos > Len(input) /\ cov = None
  /\ LET fs == Flush
         rows == {p \in Paths : fs[p] # None}
         totalLf == MapThenSumSet(LAMBDA p : fs[p][1], rows)
         totalLh == MapThenSumSet(LAMBDA p : fs[p][2], rows)
     IN /\ files' = fs
        /\ cov' = [files |-> [p \in rows |-> Pct(fs[p][2], fs[p][1])],
                   total |-> Pct(totalLh, totalLf)]
  /\ currentFile' = None
  /\ UNCHANGED <<tarpaulin, lcovFile, step, records, input, pos, lf, lh>>

(* No cargo-tarpaulin: zero coverage, no rows. *)
NoTarpaulin ==
  /\ ~tarpaulin /\ cov = None
  /\ cov' = [files |-> [p \in {} |-> 0], total |-> 0]
  /\ UNCHANGED <<tarpaulin, lcovFile, step, records, input, pos, currentFile, lf, lh, files>>

Next == NoTarpaulin \/ CleanCoverage \/ RunTarpaulin \/ ReadSF \/ ReadDA \/ ReadLF \/ ReadLH \/ ReadEndOfRecord \/ Finish

Spec == Init /\ [][Next]_vars

-----------------------------------------------------------------------------
(* Properties.                                                              *)

Percent == 0..1000

TypeOK ==
  /\ tarpaulin \in BOOLEAN
  /\ lcovFile = None \/ lcovFile \in [records : LcovFiles, fresh : BOOLEAN]
  /\ step \in {"clean", "tarpaulin", "read"}
  /\ pos \in 1..(Len(input) + 1)
  /\ currentFile \in Paths \cup {None}
  /\ lf \in Nat /\ lh \in Nat
  /\ \A p \in Paths : files[p] = None \/ files[p] \in Nat \X Nat
  /\ cov = None \/ (cov.total \in Percent /\ \A p \in DOMAIN cov.files : cov.files[p] \in Percent)

(* Reference: each record's own DA lines, and their sum for the total. *)
RefFound(r) == Len(r.das)
RefHit(r) == HitCount(r.das)

(* coverage.json has one row per record tarpaulin wrote, closed or not,   *)
(* with the percentage of that record's own DA lines, and the total is    *)
(* the percentage over all of them; zero with no rows without tarpaulin.  *)
RowsMatchRecords ==
  cov # None =>
    IF ~tarpaulin THEN DOMAIN cov.files = {} /\ cov.total = 0
    ELSE
      /\ DOMAIN cov.files = {records[i].path : i \in DOMAIN records}
      /\ \A i \in DOMAIN records :
           cov.files[records[i].path] = Pct(RefHit(records[i]), RefFound(records[i]))
      /\ cov.total = Pct(MapThenSumSet(LAMBDA i : RefHit(records[i]), DOMAIN records),
                         MapThenSumSet(LAMBDA i : RefFound(records[i]), DOMAIN records))

(* Spec: the manifest attests the coverage data produced by the build,    *)
(* with "coverage tool ran" told apart from "no coverage tool".  With     *)
(* cargo-tarpaulin present, coverage.json has rows only when this         *)
(* invocation's tarpaulin wrote the lcov.info they were read from.        *)
CoverageFromThisRun ==
  (cov # None /\ DOMAIN cov.files # {}) => lcovFile # None /\ lcovFile.fresh

=============================================================================
