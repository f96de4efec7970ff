------------------------------ MODULE BddFilter ------------------------------
(***************************************************************************)
(* main and filter_failures_only of scripts/bdd_filter_results.py: the    *)
(* cucumber output of the BDD suite, printed whole or, with --fail-only,   *)
(* filtered to the failures.                                               *)
(*                                                                         *)
(* A line is abstracted to the regular expression it matches: the failure *)
(* mark, "Defined: SPEC/...feature", "Matched:", "Step failed:", "Step     *)
(* panicked.", a summary line, a "Feature:" header, or other text.  The    *)
(* filtered output is kept as the sequence of input positions it copies,  *)
(* so that a repeated or reordered line can be told apart.                 *)
(***************************************************************************)
EXTENDS Integers, Sequences, SequencesExt, FiniteSetsExt

CONSTANTS
  MaxLines,     \* lines of cucumber output
  LineKinds,    \* the kinds of line cucumber's output is drawn from
  Context       \* lines copied after a step failure: range(1, 4)

Kinds == {"mark", "defined", "matched", "stepfailed", "panicked", "summary",
          "feature", "other"}

(* FAIL_MARK, FAIL_DEFINED, FAIL_MATCHED, FAIL_STEP, FAIL_PANIC, SUMMARY *)
Matching == {"mark", "defined", "matched", "stepfailed", "panicked", "summary"}

(* FAIL_STEP or FAIL_PANIC: the lines after it are copied as context. *)
Trigger == {"stepfailed", "panicked"}

ASSUME MaxLines \in Nat /\ Context \in Nat /\ LineKinds \subseteq Kinds

(* run_bdd: the outputs of cargo test --features bdd --test bdd. *)
RunBdd == BoundedSeq(LineKinds, MaxLines)

VARIABLES
  failOnly,     \* args.fail_only
  lines,        \* output.splitlines()
  i,            \* the line of the outer loop
  j,            \* the look-ahead of the inner loop
  filtered,     \* positions of the lines appended so far
  result,       \* positions of the lines returned, <<>> while running
  pc            \* "all", "scan", "context" or "done"

vars == <<failOnly, lines, i, j, filtered, result, pc>>

(* main: run the suite, then filter_failures_only if --fail-only. *)
Init ==
  /\ failOnly \in BOOLEAN
  /\ lines \in RunBdd
  /\ i = 1 /\ j = 1
  /\ filtered = <<>>
  /\ result = <<>>
  /\ pc = IF failOnly THEN "scan" ELSE "all"

(* Without --fail-only the output is written unchanged. *)
PrintAll ==
  /\ pc = "all"
  /\ result' = [k \in DOMAIN lines |-> k]
  /\ pc' = "done"
  /\ UNCHANGED <<failOnly, lines, i, j, filtered>>

(* A matching line is appended; after a step failure or panic the inner  *)
(* loop copies what follows.                                              *)
KeepLine ==
  /\ pc = "scan" /\ i <= Len(lines)
  /\ lines[i] \in Matching
  /\ filtered' = Append(filtered, i)
  /\ IF lines[i] \in Trigger
       THEN pc' = "context" /\ j' = 1 /\ i' = i
       ELSE i' = i + 1 /\ UNCHANGED <<pc, j>>
  /\ UNCHANGED <<failOnly, lines, result>>

SkipLine ==
  /\ pc = "scan" /\ i <= Len(lines)
  /\ lines[i] \notin Matching
  /\ i' = i + 1
  /\ UNCHANGED <<failOnly, lines, j, filtered, result, pc>>

(* Mutant: range(1, 5), four lines of context. *)
ContextLineFour ==
  /\ pc = "context" /\ j <= Context + 1 /\ i + j <= Len(lines)
  /\ lines[i + j] # "feature"
  /\ filtered' = Append(filtered, i + j)
  /\ j' = j + 1
  /\ UNCHANGED <<failOnly, lines, i, result, pc>>

(* Mutant: a "Feature:" header is copied instead of ending the context. *)
ContextLineThroughFeature ==
  /\ pc = "context" /\ j <= Context /\ i + j <= Len(lines)
  /\ filtered' = Append(filtered, i + j)
  /\ j' = j + 1
  /\ UNCHANGED <<failOnly, lines, i, result, pc>>

(* for j in range(1, 4): if i + j < len(lines), and the line is not a     *)
(* feature header, copy it.                                                *)
ContextLine ==
  /\ pc = "context" /\ j <= Context /\ i + j <= Len(lines)
  /\ lines[i + j] # "feature"
  /\ filtered' = Append(filtered, i + j)
  /\ j' = j + 1
  /\ UNCHANGED <<failOnly, lines, i, result, pc>>

(* The inner loop ends: after three lines, at the end of the output, or   *)
(* at a feature header (break).                                           *)
EndContext ==
  /\ pc = "context"
  /\ \/ j > Context
     \/ i + j > Len(lines)
     \/ i + j <= Len(lines) /\ lines[i + j] = "feature"
  /\ pc' = "scan" /\ i' = i + 1
  /\ UNCHANGED <<failOnly, lines, j, filtered, result>>

(* Nothing matched: the original output is returned unchanged. *)
Finish ==
  /\ pc = "scan" /\ i > Len(lines)
  /\ result' = IF filtered = <<>> THEN [k \in DOMAIN lines |-> k] ELSE filtered
  /\ pc' = "done"
  /\ UNCHANGED <<failOnly, lines, i, j, filtered>>

Next == PrintAll \/ KeepLine \/ SkipLine \/ ContextLine \/ EndContext \/ Finish

Spec == Init /\ [][Next]_vars

-----------------------------------------------------------------------------
(* Properties.                                                              *)

TypeOK ==
  /\ failOnly \in BOOLEAN
  /\ lines \in RunBdd
  /\ i \in 1..(Len(lines) + 1)
  /\ j \in 1..(Context + 1)
  /\ filtered \in Seq(DOMAIN lines)
  /\ result \in Seq(DOMAIN lines)
  /\ pc \in {"all", "scan", "context", "done"}

(* Reference: the matching lines, and up to three lines after each step  *)
(* failure or panic that come before the next feature header.             *)
MatchedLines == {k \in DOMAIN lines : lines[k] \in Matching}

ContextLines ==
  {k \in DOMAIN lines :
     \E t \in DOMAIN lines :
        /\ lines[t] \in Trigger
        /\ t < k /\ k <= t + Context
        /\ \A m \in (t + 1)..k : lines[m] # "feature"}

(* --fail-only prints the failing steps, the summary lines and the        *)
(* assertion context after a failed step, and nothing else; when nothing  *)
(* matched, or without --fail-only, it prints the whole output.           *)
FilterKeepsExactly ==
  pc = "done" =>
    IF ~failOnly \/ MatchedLines = {} THEN result = [k \in DOMAIN lines |-> k]
    ELSE ToSet(result) = MatchedLines \cup ContextLines

(* The filtered view shows each line of the output once, in the order    *)
(* cucumber printed it: the context copied after "Step failed:" is the     *)
(* lines that follow, not a second copy of them.                          *)
EachLineOnceInOrder ==
  pc = "done" =>
    \A a, b \in DOMAIN result : a < b => result[a] < result[b]

=============================================================================
