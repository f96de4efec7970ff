---------------------------- MODULE Traceability ----------------------------
(***************************************************************************)
(* parse_features, build_coverage and the exit status of main in          *)
(* SPEC/tools/traceability.py, over the feature files of a directory.      *)
(*                                                                         *)
(* A feature file is generated as Gherkin lays it out: optional feature   *)
(* tags, the "Feature:" line, then blocks of a tag line, a header          *)
(* ("Scenario:" or "Scenario Outline:") and steps.  Lines are abstracted  *)
(* to what the parser tells apart; step text is a model value checked     *)
(* against the step contract.  The files are read one after the other as  *)
(* one sequence of lines, an "eof" line closing each.                      *)
(***************************************************************************)
EXTENDS Integers, Sequences, SequencesExt, FiniteSetsExt

CONSTANTS
  Tags,         \* tag names used in the feature file
  Reqs,         \* requirement ids of requirements.yaml (tags that name one)
  Must,         \* requirements of level MUST or MUST_NOT
  Texts,        \* step texts
  Contract,     \* steps-contract.yaml: the <<kind, text>> pairs it matches
  Headers,      \* the scenario headers used: "scenario", "outline"
  MaxFiles,     \* feature files in the directory
  MaxBlocks,    \* scenario blocks over all the files
  MaxSteps,     \* steps over all the files, Backgrounds included
  MaxBackground, \* steps of one Background
  None          \* current_scenario / last_kind = None

ASSUME /\ Reqs \subseteq Tags /\ Must \subseteq Reqs
       /\ Headers \subseteq {"scenario", "outline"}
       /\ MaxFiles \in Nat /\ MaxBlocks \in Nat /\ MaxSteps \in Nat
       /\ MaxBackground \in Nat

Words == {"Given", "Then", "And"}

Steps == [word : Words, text : Texts]

(* Sequences of at most b blocks holding at most s steps in all. *)
RECURSIVE BlockSeqs(_, _)
BlockSeqs(b, s) ==
  {<<>>} \cup
  IF b = 0 THEN {}
  ELSE UNION {{<<[tags |-> t, header |-> h, steps |-> ss]>> \o rest :
                  rest \in BlockSeqs(b - 1, s - Len(ss))} :
                t \in SUBSET Tags, h \in Headers, ss \in BoundedSeq(Steps, s)}

(* Feature files with at most b blocks and s steps. *)
FeatureFiles(b, s) ==
  UNION {{[featureTags |-> t, background |-> bg, blocks |-> bs] :
            bs \in BlockSeqs(b, s - Len(bg))} :
          t \in SUBSET Tags, bg \in BoundedSeq(Steps, Min({MaxBackground, s}))}

BlockCount(f) == Len(f.blocks)
StepCount(f) == Len(f.background) + FoldLeft(LAMBDA n, bl : n + Len(bl.steps), 0, f.blocks)

(* The files that fit in b more blocks and s more steps. *)
FilesWithin == [b \in 0..MaxBlocks, s \in 0..MaxSteps |-> FeatureFiles(b, s)]

TagLine(S) == IF S = {} THEN <<>> ELSE <<[k |-> "tags", tags |-> S]>>

StepLines(ss) == [i \in DOMAIN ss |-> [k |-> "step", word |-> ss[i].word, text |-> ss[i].text]]

BlockLines(b) == TagLine(b.tags) \o <<[k |-> b.header]>> \o StepLines(b.steps)

FileLines(f) ==
  TagLine(f.featureTags) \o <<[k |-> "feature"]>>
  \o (IF f.background = <<>> THEN <<>>
      ELSE <<[k |-> "background"]>> \o StepLines(f.background))
  \o FoldLeft(LAMBDA acc, b : acc \o BlockLines(b), <<>>, f.blocks)
  \o <<[k |-> "eof"]>>

-----------------------------------------------------------------------------

VARIABLES
  features,     \* the feature files opened so far, in sorted order
  lines,        \* their lines
  pos,          \* the next line
  pending,      \* pending_tags
  current,      \* current_scenario: None or [tags, steps]
  lastKind,     \* last_kind
  scenarios,    \* the scenarios flushed so far
  errors,       \* positions of steps not covered by the contract
  covered,      \* build_coverage: requirements with a tagged scenario
  exitCode      \* main's return value, None while parsing

vars == <<features, lines, pos, pending, current, lastKind, scenarios, errors,
          covered, exitCode>>

line == lines[pos]

UsedBlocks == FoldLeft(LAMBDA n, f : n + BlockCount(f), 0, features)
UsedSteps == FoldLeft(LAMBDA n, f : n + StepCount(f), 0, features)

Init ==
  /\ features = <<>>
  /\ lines = <<>>
  /\ pos = 1
  /\ pending = {}
  /\ current = None
  /\ lastKind = None
  /\ scenarios = <<>>
  /\ errors = <<>>
  /\ covered = {}
  /\ exitCode = None

(* The next .feature file in sorted order is read whole; pending_tags,   *)
(* current_scenario and last_kind start afresh for it.                     *)
OpenFile ==
  /\ exitCode = None /\ pos > Len(lines) /\ Len(features) < MaxFiles
  /\ \E f \in FilesWithin[MaxBlocks - UsedBlocks, MaxSteps - UsedSteps] :
       /\ features' = Append(features, f)
       /\ lines' = lines \o FileLines(f)
  /\ pending' = {}
  /\ current' = None
  /\ lastKind' = None
  /\ UNCHANGED <<pos, scenarios, errors, covered, exitCode>>

(* flush_scenario *)
Flushed == IF current # None THEN Append(scenarios, current) ELSE scenarios

Reading == exitCode = None /\ pos <= Len(lines)

(* Mutant: the '@' is kept on the tag name. *)
ReadTagsKeepAt ==
  /\ Reading /\ line.k = "tags"
  /\ pending' = pending \cup {<<"@", t>> : t \in line.tags}
  /\ pos' = pos + 1
  /\ UNCHANGED <<features, lines, current, lastKind, scenarios, errors, covered, exitCode>>

(* A line starting with '@': its tags become pending. *)
ReadTags ==
  /\ Reading /\ line.k = "tags"
  /\ pending' = pending \cup line.tags
  /\ pos' = pos + 1
  /\ UNCHANGED <<features, lines, current, lastKind, scenarios, errors, covered, exitCode>>

(* Mutant: last_kind is not reset when a scenario starts. *)
ReadScenarioKeepKind ==
  /\ Reading /\ line.k = "scenario"
  /\ scenarios' = Flushed
  /\ current' = [tags |-> pending, steps |-> <<>>]
  /\ pending' = {}
  /\ pos' = pos + 1
  /\ UNCHANGED <<features, lines, lastKind, errors, covered, exitCode>>

(* "scenario:": flush, open a scenario with the pending tags. *)
ReadScenario ==
  /\ Reading /\ line.k = "scenario"
  /\ scenarios' = Flushed
  /\ current' = [tags |-> pending, steps |-> <<>>]
  /\ pending' = {}
  /\ lastKind' = None
  /\ pos' = pos + 1
  /\ UNCHANGED <<features, lines, errors, covered, exitCode>>

(* Any other line: "Feature:", "Background:", and "Scenario Outline:",    *)
(* which does not start with "scenario:".                                  *)
ReadOther ==
  /\ Reading /\ line.k \in {"feature", "background", "outline"}
  /\ pos' = pos + 1
  /\ UNCHANGED <<features, lines, pending, current, lastKind, scenarios, errors,
                 covered, exitCode>>

(* A step outside any scenario, as in the Background, is skipped without *)
(* a contract check.                                                       *)
SkipStep ==
  /\ Reading /\ line.k = "step" /\ current = None
  /\ pos' = pos + 1
  /\ UNCHANGED <<features, lines, pending, current, lastKind, scenarios, errors,
                 covered, exitCode>>

(* A step: And takes last_kind, or Then; its kind's patterns must match. *)
ReadStep ==
  /\ Reading /\ line.k = "step" /\ current # None
  /\ LET kind == IF line.word = "And"
                 THEN IF lastKind = None THEN "Then" ELSE lastKind
                 ELSE line.word
     IN /\ lastKind' = IF line.word = "And" THEN lastKind ELSE line.word
        /\ errors' = IF <<kind, line.text>> \in Contract THEN errors
                     ELSE Append(errors, pos)
        /\ current' = [current EXCEPT !.steps = Append(@, <<kind, pos>>)]
  /\ pos' = pos + 1
  /\ UNCHANGED <<features, lines, pending, scenarios, covered, exitCode>>

(* build_coverage: the requirements some scenario is tagged with. *)
BuildCoverage(scs) == {r \in Reqs : \E i \in DOMAIN scs : r \in scs[i].tags}

(* main's exit status: 1 on a lint error or an uncovered MUST requirement. *)
ExitStatus(errs, cov) == IF errs # <<>> \/ Must \ cov # {} THEN 1 ELSE 0

(* Mutant: the scenario open at the end of a file is not flushed. *)
EndOfFileNoFlush ==
  /\ Reading /\ line.k = "eof"
  /\ pos' = pos + 1
  /\ UNCHANGED <<features, lines, pending, current, lastKind, scenarios, errors,
                 covered, exitCode>>

(* End of a file's lines: flush_scenario. *)
EndOfFile ==
  /\ Reading /\ line.k = "eof"
  /\ scenarios' = Flushed
  /\ current' = None
  /\ pos' = pos + 1
  /\ UNCHANGED <<features, lines, pending, lastKind, errors, covered, exitCode>>

(* No more feature files: build_coverage and main's exit status. *)
Finish ==
  /\ exitCode = None /\ pos > Len(lines)
  /\ covered' = BuildCoverage(scenarios)
  /\ exitCode' = ExitStatus(errors, covered')
  /\ UNCHANGED <<features, lines, pos, pending, current, lastKind, scenarios, errors>>

Next == OpenFile \/ ReadTags \/ ReadScenario \/ ReadOther \/ SkipStep \/ ReadStep
        \/ EndOfFile \/ Finish

Spec == Init /\ [][Next]_vars

-----------------------------------------------------------------------------
(* Properties.                                                              *)

Scenarios == [tags : SUBSET Tags, steps : Seq({"Given", "Then"} \X DOMAIN lines)]

TypeOK ==
  /\ Len(features) <= MaxFiles /\ UsedBlocks <= MaxBlocks /\ UsedSteps <= MaxSteps
  /\ pos \in 1..(Len(lines) + 1)
  /\ pending \subseteq Tags
  /\ current = None \/ current \in Scenarios
  /\ lastKind \in {None, "Given", "Then"}
  /\ scenarios \in Seq(Scenarios)
  /\ errors \in Seq(DOMAIN lines)
  /\ covered \subseteq Reqs
  /\ exitCode \in {None, 0, 1}

(* Gherkin's reading: a scenario or scenario outline carries the tags     *)
(* written above its header and those of its feature.                      *)
RefCovered ==
  Reqs \cap UNION {UNION {ff.blocks[i].tags \cup ff.featureTags : i \in DOMAIN ff.blocks} :
                     ff \in ToSet(features)}

(* The tool maps scenario tags to requirement ids: a requirement is       *)
(* reported covered exactly when a scenario of some feature file carries   *)
(* its tag.                                                                *)
CoverageMatchesTags ==
  exitCode # None => covered = RefCovered

Positions == [p \in 1..Len(lines) |-> p]

(* Gherkin's reading of a file: the header of the scenario block line p   *)
(* lies in, or 0 for a line of the Feature or the Background.              *)
Owner(p) ==
  LET hs == {q \in 1..p : lines[q].k \in {"scenario", "outline"}
                          /\ \A m \in q..p : lines[m].k # "eof"}
  IN IF hs = {} THEN 0 ELSE Max(hs)

(* The kind of step p: Given or Then as written; And takes the kind of    *)
(* the nearest Given or Then above it in its scenario, and is Then when   *)
(* there is none.                                                          *)
RefKind(p) ==
  LET above == {q \in (Owner(p) + 1)..(p - 1) :
                  lines[q].k = "step" /\ lines[q].word # "And"}
  IN CASE lines[p].word # "And" -> lines[p].word
       [] above # {}            -> lines[Max(above)].word
       [] OTHER                 -> "Then"

(* The steps of the block headed at h, with their kinds, in order. *)
RefSteps(h) ==
  LET ps == SelectSeq(Positions, LAMBDA p : lines[p].k = "step" /\ Owner(p) = h)
  IN [i \in DOMAIN ps |-> <<RefKind(ps[i]), ps[i]>>]

(* The scenario headers of all the files, in order. *)
RefHeaders == SelectSeq(Positions, LAMBDA p : lines[p].k \in {"scenario", "outline"})

(* current_scenario, pending tags and last_kind are loop-carried state of  *)
(* the line loop, reset per scenario and per file: the n-th scenario the  *)
(* tool records holds exactly the steps of the n-th scenario block of the *)
(* directory, in order, each checked under the kind Gherkin gives it.  So *)
(* an And opening a scenario never takes the previous scenario's kind,    *)
(* and no step of another block, file or Background is added to it.        *)
ScenarioStepsMatchBlocks ==
  exitCode # None =>
    [i \in DOMAIN scenarios |-> scenarios[i].steps]
      = [i \in DOMAIN RefHeaders |-> RefSteps(RefHeaders[i])]

=============================================================================
