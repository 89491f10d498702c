----------------------------- MODULE PatchLint ------------------------------
(* The safety lint of changes.patch: which changed files can run outside the   *)
(* workspace.  A line of a patch is a diff line (the path it changes, the rule  *)
(* that path falls under, and whether git quoted its name), a line that makes   *)
(* the file executable, one too long to be scanned, or any other.              *)
EXTENDS Naturals, Sequences, SequencesExt, Calculation

CONSTANTS
  Path,   \* the names of files
  Reason  \* the reasons of pathRules

PatchLintAssumption == "" \notin Path

DiffLine == [kind : {"diff"}, path : Path, rule : Reason \cup {"none"}, quoted : BOOLEAN]
Line     == DiffLine \cup [kind : {"exec", "long", "other"}]

\* Any patch.
PatchInput == [of : {"patch"}, diff : Seq(Line)]

-----------------------------------------------------------------------------
(* Lint.  Its state: the file a mode line is about, the findings so far, and  *)
(* whether the scanner gave up.                                              *)

\* diffGitPath: no path in a line whose names are quoted.
DiffGitPath(line) == IF line.quoted THEN "" ELSE line.path

\* The file a diff line opens.
EnteredPath_Stays(st, line) == IF line.quoted THEN st.cur ELSE line.path
EnteredPath(st, line) == DiffGitPath(line)

\* add: nothing for a file without a path, and no finding twice.
AddFinding(found, path, reason) ==
  IF path = "" \/ Contains(found, <<path, reason>>) THEN found ELSE Append(found, <<path, reason>>)

DiffLineRead(st, line) ==
  LET p == EnteredPath(st, line)
  IN [cur     |-> p,
      found   |-> IF line.rule = "none" THEN st.found ELSE AddFinding(st.found, p, line.rule),
      stopped |-> FALSE]

LintLine(st, line) ==
  IF st.stopped THEN st
  ELSE CASE line.kind = "diff" -> DiffLineRead(st, line)
         [] line.kind = "exec" -> [st EXCEPT !.found = AddFinding(st.found, st.cur, "exec")]
         [] line.kind = "long" -> [st EXCEPT !.stopped = TRUE]
         [] line.kind = "other" -> st

\* The state after each number of lines.
Scan(diff) ==
  LET st[n \in 0 .. Len(diff)] ==
        IF n = 0 THEN [cur |-> "", found |-> << >>, stopped |-> FALSE]
        ELSE LintLine(st[n - 1], diff[n])
  IN st

Lint(diff) == Scan(diff)[Len(diff)].found

-----------------------------------------------------------------------------
(* What it is for. *)

\* The diff lines up to line i; the last of them opens the file line i is about.
DiffLines(diff, i) == {j \in 1 .. i : diff[j].kind = "diff"}

FileOf(diff, i) == diff[Max(DiffLines(diff, i))]

\* Line i is scanned, is about a file whose name can be read, and makes that file
\* one to look at.
Reported(diff, i) ==
  /\ \A j \in 1 .. i : diff[j].kind # "long"
  /\ DiffLines(diff, i) # {} /\ ~FileOf(diff, i).quoted
  /\ diff[i].kind = "exec" \/ (diff[i].kind = "diff" /\ diff[i].rule # "none")

Report(diff, i) ==
  <<FileOf(diff, i).path, IF diff[i].kind = "exec" THEN "exec" ELSE diff[i].rule>>

\* (LintHolds) Every changed file that can run outside the workspace is named
\* once for where it is and once for becoming executable, and no file for what
\* another one does, although the lines that say which file a mode belongs to
\* may be unreadable (a quoted name) and the scan may stop early.  (Lint.)
LintHolds ==
  input.of = "patch" =>
    LET diff == input.diff
    IN /\ IsInjective(Lint(diff))
       /\ Range(Lint(diff)) = {Report(diff, i) : i \in {k \in DOMAIN diff : Reported(diff, k)}}
=============================================================================
