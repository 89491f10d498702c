-------------------------- MODULE Artifacts_proofs --------------------------
(* Proofs about what krayt calculates of texts, patches and JSON values of any *)
(* size: the lint of changes.patch, the redaction of what is written, the      *)
(* first-run configuration it seeds.  They are followed line by line,          *)
(* character by character or level by level, by induction over their number    *)
(* with the set of numbers a fact holds for in the place of a predicate.       *)
EXTENDS Artifacts, PatchLint, ConfigSeed, SequenceTheorems, FiniteSetTheorems, WellFoundedInduction, TLAPS

\* Induction over 0 .. m.
LEMMA SetInduction ==
  ASSUME NEW m \in Nat, NEW T, 0 \in T, \A n \in 0 .. m - 1 : n \in T => n + 1 \in T
  PROVE  0 .. m \subseteq T
<1> DEFINE F == 0 .. m \ T
<1>1. SUFFICES ASSUME F # {} PROVE FALSE
  OBVIOUS
<1>2. F \subseteq Nat
  OBVIOUS
<1>3. PICK x \in F : \A y \in F : ~(<<y, x>> \in OpToRel(<, Nat))
  BY <1>1, <1>2, NatLessThanWellFounded, WFMin
<1>4. \A y \in F : ~(y < x)
  BY <1>2, <1>3 DEF OpToRel
<1>5. x \in 1 .. m /\ x - 1 \in 0 .. m - 1 /\ (x - 1) + 1 = x /\ x - 1 < x
  OBVIOUS
<1>6. x - 1 \in T
  BY <1>4, <1>5
<1> QED
  BY <1>5, <1>6

\* g[n] is what the functions f[1], ..., f[n] make of a.
Iteration(g, m, S, a, f) ==
  g \in [0 .. m -> S] /\ g[0] = a /\ \A n \in 1 .. m : g[n] = f[n][g[n - 1]]

LEMMA Iterates ==
  ASSUME NEW m \in Nat, NEW S, NEW a \in S, NEW f \in [1 .. m -> [S -> S]]
  PROVE  \E g : Iteration(g, m, S, a, f)
<1> DEFINE T == {k \in 0 .. m : \E g : Iteration(g, k, S, a, f)}
<1>1. 0 \in T
  <2>1. Iteration([n \in 0 .. 0 |-> a], 0, S, a, f)
    BY DEF Iteration
  <2> QED
    BY <2>1
<1>2. ASSUME NEW k \in 0 .. m - 1, k \in T PROVE k + 1 \in T
  <2>1. PICK g : Iteration(g, k, S, a, f)
    BY <1>2
  <2> DEFINE h == [n \in 0 .. k + 1 |-> IF n = k + 1 THEN f[k + 1][g[k]] ELSE g[n]]
  <2>2. g \in [0 .. k -> S] /\ g[0] = a /\ \A n \in 1 .. k : g[n] = f[n][g[n - 1]]
    BY <2>1 DEF Iteration
  <2>3. f[k + 1][g[k]] \in S
    BY <2>2
  <2>4. h \in [0 .. k + 1 -> S] /\ h[0] = a
    BY <2>2, <2>3
  <2>5. ASSUME NEW n \in 1 .. k + 1 PROVE h[n] = f[n][h[n - 1]]
    <3>1. CASE n = k + 1
      <4>1. k \in 0 .. k + 1 /\ k # k + 1 /\ n - 1 = k /\ n \in 0 .. k + 1
        BY <3>1
      <4>2. h[n] = f[k + 1][g[k]] /\ h[n - 1] = g[k]
        BY <3>1, <4>1
      <4> QED
        BY <3>1, <4>2
    <3>2. CASE n \in 1 .. k
      <4>1. h[n] = g[n] /\ h[n - 1] = g[n - 1]
        BY <3>2
      <4> QED
        BY <2>2, <3>2, <4>1
    <3>3. n = k + 1 \/ n \in 1 .. k
      OBVIOUS
    <3> HIDE DEF h
    <3> QED
      BY <3>1, <3>2, <3>3
  <2> HIDE DEF h
  <2>6. Iteration(h, k + 1, S, a, f)
    BY <2>4, <2>5 DEF Iteration
  <2>7. k + 1 \in 0 .. m
    OBVIOUS
  <2> QED
    BY <2>6, <2>7
<1> HIDE DEF T
<1>3. 0 .. m \subseteq T
  BY <1>1, <1>2, SetInduction
<1>4. m \in T
  BY <1>3
<1> QED
  BY <1>4 DEF T

\* Of some numbers up to n one is the least and one the greatest.
LEMMA Extremes ==
  ASSUME NEW n \in Nat, NEW E, E # {}, E \subseteq 0 .. n
  PROVE  (\E x \in E : \A y \in E : x <= y) /\ (\E x \in E : \A y \in E : y <= x)
<1>1. ASSUME NEW F, F # {}, F \subseteq Nat PROVE \E x \in F : \A y \in F : x <= y
  <2>1. PICK x \in F : \A y \in F : ~(<<y, x>> \in OpToRel(<, Nat))
    BY <1>1, NatLessThanWellFounded, WFMin
  <2>2. \A y \in F : ~(y < x)
    BY <1>1, <2>1 DEF OpToRel
  <2>3. \A y \in F : y \in Nat /\ x \in Nat
    BY <1>1
  <2> QED
    BY <2>2, <2>3
<1>2. \E x \in E : \A y \in E : x <= y
  <2>1. E \subseteq Nat
    OBVIOUS
  <2> QED
    BY <1>1, <2>1
<1>3. \E x \in E : \A y \in E : y <= x
  <2> DEFINE F == {n - e : e \in E}
  <2>1. F # {} /\ F \subseteq Nat
    OBVIOUS
  <2> HIDE DEF F
  <2>2. PICK z \in F : \A y \in F : z <= y
    BY <1>1, <2>1
  <2>3. PICK x \in E : z = n - x
    BY DEF F
  <2>4. ASSUME NEW y \in E PROVE y <= x
    <3>1. n - y \in F
      BY DEF F
    <3>2. n - x <= n - y /\ x \in Nat /\ y \in Nat
      BY <2>2, <2>3, <3>1
    <3> QED
      BY <3>2
  <2> QED
    BY <2>4
<1> QED
  BY <1>2, <1>3

-----------------------------------------------------------------------------
(* PatchLint. *)

ScanStart == [cur |-> "", found |-> << >>, stopped |-> FALSE]

\* The states of a scan exist, one after each line.
LEMMA ScanUnfolds ==
  ASSUME NEW diff, Len(diff) \in Nat
  PROVE  /\ Scan(diff)[0] = ScanStart
         /\ \A n \in 1 .. Len(diff) : Scan(diff)[n] = LintLine(Scan(diff)[n - 1], diff[n])
<1> DEFINE L       == Len(diff)
           Next(g, n) == IF n = 0 THEN ScanStart ELSE LintLine(g[n - 1], diff[n])
           IsScan(g, m) == g = [n \in 0 .. m |-> Next(g, n)]
           T == {m \in 0 .. L : \E g : IsScan(g, m)}
<1>1. L \in Nat
  OBVIOUS
<1> HIDE DEF L
<1>2. 0 \in T
  <2> DEFINE g == [n \in 0 .. 0 |-> ScanStart]
  <2>1. IsScan(g, 0)
    OBVIOUS
  <2> HIDE DEF g, IsScan
  <2> QED
    BY <1>1, <2>1
<1>3. ASSUME NEW m \in 0 .. L - 1, m \in T PROVE m + 1 \in T
  <2>1. PICK g : IsScan(g, m)
    BY <1>3
  <2> DEFINE h == [n \in 0 .. m + 1 |-> IF n = m + 1 THEN LintLine(g[m], diff[m + 1]) ELSE g[n]]
  <2>2. \A n \in 0 .. m + 1 : h[n] = Next(h, n)
    <3> SUFFICES ASSUME NEW n \in 0 .. m + 1 PROVE h[n] = Next(h, n)
      OBVIOUS
    <3>1. CASE n = m + 1
      BY <3>1
    <3>2. CASE n \in 1 .. m
      <4>1. h[n] = g[n] /\ h[n - 1] = g[n - 1] /\ g[n] = Next(g, n)
        BY <2>1, <3>2
      <4> QED
        BY <3>2, <4>1
    <3>3. CASE n = 0
      BY <2>1, <3>3
    <3> QED
      BY <3>1, <3>2, <3>3
  <2>3. IsScan(h, m + 1)
    <3>1. h = [n \in 0 .. m + 1 |-> h[n]]
      OBVIOUS
    <3> HIDE DEF h, Next
    <3> QED
      BY <2>2, <3>1
  <2> HIDE DEF h, IsScan
  <2> QED
    BY <1>1, <2>3
<1>4. L \in T
  <2> HIDE DEF T
  <2>1. \A n \in 0 .. L - 1 : n \in T => n + 1 \in T
    BY <1>3
  <2>2. 0 .. L \subseteq T
    BY <1>1, <1>2, <2>1, SetInduction
  <2> QED
    BY <1>1, <2>2
<1>5. \E g : IsScan(g, L)
  BY <1>4
<1>6. Scan(diff) = CHOOSE g : IsScan(g, L)
  BY DEF Scan, ScanStart, L
<1>7. IsScan(Scan(diff), L)
  BY <1>5, <1>6
<1> QED
  BY <1>1, <1>7 DEF L

Finding   == Path \X (Reason \cup {"exec"})
ScanState == [cur : Path \cup {""}, found : Seq(Finding), stopped : BOOLEAN]

\* The file a mode line would be about after line n, if its name can be read.
CurrentPath(diff, n) ==
  IF DiffLines(diff, n) = {} \/ FileOf(diff, n).quoted THEN "" ELSE FileOf(diff, n).path

Reports(diff, n) == {Report(diff, i) : i \in {k \in 1 .. n : Reported(diff, k)}}

\* The inductive invariant of the scan.
ScanInv(diff, n) ==
  /\ Scan(diff)[n] \in ScanState
  /\ IsInjective(Scan(diff)[n].found) /\ Range(Scan(diff)[n].found) = Reports(diff, n)
  /\ Scan(diff)[n].stopped <=> \E j \in 1 .. n : diff[j].kind = "long"
  /\ ~Scan(diff)[n].stopped => Scan(diff)[n].cur = CurrentPath(diff, n)

LEMMA AppendFinding ==
  ASSUME NEW s \in Seq(Finding), NEW f \in Finding, IsInjective(s), ~Contains(s, f)
  PROVE  /\ Append(s, f) \in Seq(Finding) /\ IsInjective(Append(s, f))
         /\ Range(Append(s, f)) = Range(s) \cup {f}
<1> DEFINE t == Append(s, f)
<1>1. /\ t \in Seq(Finding) /\ Len(s) \in Nat /\ DOMAIN s = 1 .. Len(s)
      /\ DOMAIN t = 1 .. Len(s) + 1 /\ t[Len(s) + 1] = f
      /\ \A i \in 1 .. Len(s) : t[i] = s[i]
  OBVIOUS
<1> HIDE DEF t
<1>2. \A i \in 1 .. Len(s) : s[i] # f
  BY DEF Contains
<1>3. \A i \in 1 .. Len(s) + 1 : i = Len(s) + 1 \/ i \in 1 .. Len(s)
  BY <1>1
<1>4. IsInjective(t)
  BY <1>1, <1>2, <1>3 DEF IsInjective
<1>5. Len(s) + 1 \in 1 .. Len(s) + 1 /\ \A i \in 1 .. Len(s) : i \in 1 .. Len(s) + 1
  BY <1>1
<1>6. Range(t) = Range(s) \cup {f}
  BY <1>1, <1>3, <1>5 DEF Range
<1> QED
  BY <1>1, <1>4, <1>6 DEF t

LEMMA AddFindingAdds ==
  ASSUME NEW found \in Seq(Finding), IsInjective(found),
         NEW path \in Path \cup {""}, NEW reason \in Reason \cup {"exec"}
  PROVE  /\ AddFinding(found, path, reason) \in Seq(Finding)
         /\ IsInjective(AddFinding(found, path, reason))
         /\ Range(AddFinding(found, path, reason)) =
              Range(found) \cup IF path = "" THEN {} ELSE {<<path, reason>>}
<1>1. CASE path = ""
  BY <1>1 DEF AddFinding
<1>2. CASE path # "" /\ Contains(found, <<path, reason>>)
  <2>1. <<path, reason>> \in Range(found)
    <3>1. DOMAIN found = 1 .. Len(found)
      BY LenProperties
    <3>2. PICK i \in 1 .. Len(found) : found[i] = <<path, reason>>
      BY <1>2 DEF Contains
    <3> QED
      BY <3>1, <3>2 DEF Range
  <2>2. AddFinding(found, path, reason) = found
    BY <1>2 DEF AddFinding
  <2> QED
    BY <1>2, <2>1, <2>2
<1>3. CASE path # "" /\ ~Contains(found, <<path, reason>>)
  <2>1. <<path, reason>> \in Finding
    BY <1>3 DEF Finding
  <2>2. AddFinding(found, path, reason) = Append(found, <<path, reason>>)
    BY <1>3 DEF AddFinding
  <2> DEFINE f == <<path, reason>>
  <2>3. f \in Finding /\ ~Contains(found, f)
    BY <1>3, <2>1
  <2> HIDE DEF f
  <2>4. /\ Append(found, f) \in Seq(Finding) /\ IsInjective(Append(found, f))
        /\ Range(Append(found, f)) = Range(found) \cup {f}
    <3>1. found \in Seq(Finding) /\ IsInjective(found)
      OBVIOUS
    <3> QED
      BY <2>3, <3>1, AppendFinding
  <2> QED
    BY <1>3, <2>2, <2>4 DEF f
<1> QED
  BY <1>1, <1>2, <1>3

\* A diff line opens its own file; after any other line the file is the one before.
LEMMA FileOfLine ==
  ASSUME NEW diff \in Seq(Line), NEW n \in 0 .. Len(diff) - 1
  PROVE  /\ diff[n + 1].kind = "diff" =>
              /\ DiffLines(diff, n + 1) # {} /\ FileOf(diff, n + 1) = diff[n + 1]
         /\ diff[n + 1].kind # "diff" => DiffLines(diff, n + 1) = DiffLines(diff, n)
<1>1. n \in Nat /\ \A j \in 1 .. n + 1 : j = n + 1 \/ j \in 1 .. n
  OBVIOUS
<1>2. ASSUME diff[n + 1].kind = "diff"
      PROVE  DiffLines(diff, n + 1) # {} /\ FileOf(diff, n + 1) = diff[n + 1]
  <2> DEFINE D == DiffLines(diff, n + 1)
  <2>1. n + 1 \in D /\ D \subseteq 1 .. n + 1
    BY <1>1, <1>2 DEF DiffLines
  <2>2. \A y \in D : n + 1 >= y
    BY <1>1, <2>1
  <2>3. \A x \in D : (\A y \in D : x >= y) => x = n + 1
    BY <1>1, <2>1
  <2> HIDE DEF D
  <2>4. Max(D) = n + 1
    BY <2>1, <2>2, <2>3 DEF Max
  <2> QED
    BY <2>1, <2>4 DEF D, FileOf
<1>3. ASSUME diff[n + 1].kind # "diff"
      PROVE  DiffLines(diff, n + 1) = DiffLines(diff, n)
  BY <1>1, <1>3 DEF DiffLines
<1> QED
  BY <1>2, <1>3

\* What a line adds to the reports.
LEMMA ReportsOfLine ==
  ASSUME NEW diff, NEW n \in Nat
  PROVE  Reports(diff, n + 1) =
           Reports(diff, n) \cup IF Reported(diff, n + 1) THEN {Report(diff, n + 1)} ELSE {}
<1>1. \A k : k \in 1 .. n + 1 <=> k = n + 1 \/ k \in 1 .. n
  OBVIOUS
<1>2. {k \in 1 .. n + 1 : Reported(diff, k)} =
        {k \in 1 .. n : Reported(diff, k)} \cup IF Reported(diff, n + 1) THEN {n + 1} ELSE {}
  BY <1>1
<1> QED
  BY <1>2 DEF Reports

LEMMA CurrentIsPath ==
  ASSUME PatchLintAssumption, NEW diff \in Seq(Line), NEW n \in 0 .. Len(diff)
  PROVE  /\ CurrentPath(diff, n) \in Path \cup {""}
         /\ CurrentPath(diff, n) = "" <=> DiffLines(diff, n) = {} \/ FileOf(diff, n).quoted
<1>1. ASSUME DiffLines(diff, n) # {} PROVE FileOf(diff, n) \in DiffLine
  <2> DEFINE D == DiffLines(diff, n)
  <2>1. D \subseteq 1 .. n /\ \A j \in D : diff[j] \in DiffLine
    BY DEF DiffLines, Line, DiffLine
  <2>2. \E x \in D : \A y \in D : x >= y
    <3> DEFINE T == {n - j : j \in D}
    <3>1. T \subseteq Nat /\ T # {}
      BY <1>1, <2>1
    <3>2. PICK x \in T : \A y \in T : ~(<<y, x>> \in OpToRel(<, Nat))
      BY <3>1, NatLessThanWellFounded, WFMin
    <3>3. \A y \in T : ~(y < x)
      BY <3>1, <3>2 DEF OpToRel
    <3>4. PICK j \in D : x = n - j
      OBVIOUS
    <3>5. \A y \in D : ~(n - y < n - j)
      BY <3>3, <3>4
    <3> QED
      BY <2>1, <3>5
  <2> HIDE DEF D
  <2>3. Max(D) \in D
    BY <2>2 DEF Max
  <2> QED
    BY <2>1, <2>3 DEF FileOf, D
<1> QED
  BY <1>1 DEF CurrentPath, DiffLine, PatchLintAssumption

\* One line: what it adds to the findings is what it adds to the reports.
LEMMA ScanStep ==
  ASSUME PatchLintAssumption, NEW diff \in Seq(Line), NEW n \in 0 .. Len(diff) - 1, ScanInv(diff, n)
  PROVE  ScanInv(diff, n + 1)
<1> DEFINE s    == Scan(diff)[n]
           t    == Scan(diff)[n + 1]
           line == diff[n + 1]
           added == IF Reported(diff, n + 1) THEN {Report(diff, n + 1)} ELSE {}
           long(m) == \E j \in 1 .. m : diff[j].kind = "long"
<1>1. /\ n \in Nat /\ n + 1 \in 1 .. Len(diff) /\ (n + 1) - 1 = n /\ line \in Line
      /\ n \in 0 .. Len(diff) /\ n + 1 \in 0 .. Len(diff)
  OBVIOUS
<1>2. t = LintLine(s, line)
  BY <1>1, ScanUnfolds
<1>3. /\ s \in ScanState /\ IsInjective(s.found) /\ Range(s.found) = Reports(diff, n)
      /\ s.stopped <=> long(n)
      /\ ~s.stopped => s.cur = CurrentPath(diff, n)
  BY DEF ScanInv
<1>4. long(n + 1) <=> long(n) \/ line.kind = "long"
  <2>1. \A j : j \in 1 .. n + 1 <=> j = n + 1 \/ j \in 1 .. n
    BY <1>1
  <2> QED
    BY <2>1
<1>5. Reports(diff, n + 1) = Reports(diff, n) \cup added
  BY <1>1, ReportsOfLine
<1>6. CurrentPath(diff, n) \in Path \cup {""} /\ CurrentPath(diff, n + 1) \in Path \cup {""}
  BY <1>1, CurrentIsPath
<1>7. Reported(diff, n + 1) <=>
        /\ ~long(n + 1) /\ CurrentPath(diff, n + 1) # ""
        /\ line.kind = "exec" \/ (line.kind = "diff" /\ line.rule # "none")
  BY <1>1, CurrentIsPath DEF Reported
<1>8. Reported(diff, n + 1) =>
        Report(diff, n + 1) = <<CurrentPath(diff, n + 1), IF line.kind = "exec" THEN "exec" ELSE line.rule>>
  BY <1>1, CurrentIsPath DEF Reported, Report, CurrentPath
<1>9. /\ line.kind = "diff" => CurrentPath(diff, n + 1) = DiffGitPath(line)
      /\ line.kind # "diff" => CurrentPath(diff, n + 1) = CurrentPath(diff, n)
  BY <1>1, FileOfLine DEF CurrentPath, FileOf, DiffGitPath
<1>10. SUFFICES /\ t \in ScanState /\ IsInjective(t.found)
                /\ Range(t.found) = Range(s.found) \cup added
                /\ t.stopped <=> long(n + 1)
                /\ ~t.stopped => t.cur = CurrentPath(diff, n + 1)
  BY <1>3, <1>5 DEF ScanInv
<1> HIDE DEF s, t, long, added
<1>11. line.kind \in {"diff", "exec", "long", "other"}
  BY <1>1 DEF Line, DiffLine
<1>12. CASE s.stopped
  <2>1. t = s /\ added = {}
    BY <1>2, <1>3, <1>4, <1>7, <1>12 DEF LintLine, added
  <2> QED
    BY <1>3, <1>4, <1>12, <2>1
<1>13. CASE ~s.stopped /\ line.kind = "diff"
  <2>1. line \in DiffLine /\ ~long(n + 1)
    BY <1>1, <1>3, <1>4, <1>13 DEF Line
  <2> DEFINE p == DiffGitPath(line)
             r == line.rule
  <2>2. p \in Path \cup {""} /\ p = CurrentPath(diff, n + 1) /\ r \in Reason \cup {"none"}
    BY <1>6, <1>9, <1>13, <2>1 DEF DiffLine
  <2>3. t = [cur |-> p, found |-> IF r = "none" THEN s.found ELSE AddFinding(s.found, p, r),
             stopped |-> FALSE]
    BY <1>2, <1>13 DEF LintLine, DiffLineRead, EnteredPath
  <2>4. added = IF r = "none" \/ p = "" THEN {} ELSE {<<p, r>>}
    BY <1>7, <1>8, <1>13, <2>1, <2>2 DEF added
  <2> HIDE DEF p, r
  <2>5. CASE r = "none"
    BY <1>3, <2>1, <2>2, <2>3, <2>4, <2>5 DEF ScanState
  <2>6. CASE r # "none"
    <3>1. s.found \in Seq(Finding)
      BY <1>3 DEF ScanState
    <3>2. r \in Reason \cup {"exec"}
      BY <2>2, <2>6
    <3>3. /\ t.found \in Seq(Finding) /\ IsInjective(t.found)
          /\ Range(t.found) = Range(s.found) \cup IF p = "" THEN {} ELSE {<<p, r>>}
      BY <1>3, <2>2, <2>3, <2>6, <3>1, <3>2, AddFindingAdds
    <3>4. t \in ScanState
      BY <2>2, <2>3, <3>3 DEF ScanState
    <3> QED
      BY <2>1, <2>2, <2>3, <2>4, <2>6, <3>3, <3>4
  <2> QED
    BY <2>5, <2>6
<1>14. CASE ~s.stopped /\ line.kind = "exec"
  <2>1. ~long(n + 1) /\ s.cur = CurrentPath(diff, n + 1)
    BY <1>3, <1>4, <1>9, <1>14
  <2>2. t = [s EXCEPT !.found = AddFinding(s.found, s.cur, "exec")]
    BY <1>2, <1>14 DEF LintLine
  <2>3. added = IF s.cur = "" THEN {} ELSE {<<s.cur, "exec">>}
    BY <1>7, <1>8, <1>14, <2>1 DEF added
  <2>4. s.found \in Seq(Finding) /\ s.cur \in Path \cup {""}
    BY <1>3 DEF ScanState
  <2>5. /\ AddFinding(s.found, s.cur, "exec") \in Seq(Finding)
        /\ IsInjective(AddFinding(s.found, s.cur, "exec"))
        /\ Range(AddFinding(s.found, s.cur, "exec")) =
             Range(s.found) \cup IF s.cur = "" THEN {} ELSE {<<s.cur, "exec">>}
    BY <1>3, <2>4, AddFindingAdds
  <2>6. /\ t \in ScanState /\ t.found = AddFinding(s.found, s.cur, "exec")
        /\ t.cur = s.cur /\ t.stopped = s.stopped
    BY <1>3, <2>2, <2>5 DEF ScanState
  <2> QED
    BY <1>14, <2>1, <2>3, <2>5, <2>6
<1>15. CASE ~s.stopped /\ line.kind = "long"
  <2>1. t = [s EXCEPT !.stopped = TRUE] /\ added = {}
    BY <1>2, <1>4, <1>7, <1>15 DEF LintLine, added
  <2>2. t \in ScanState /\ t.found = s.found /\ t.stopped
    BY <1>3, <2>1 DEF ScanState
  <2> QED
    BY <1>3, <1>4, <1>15, <2>1, <2>2
<1>16. CASE ~s.stopped /\ line.kind = "other"
  <2>1. t = s /\ added = {}
    BY <1>2, <1>7, <1>16 DEF LintLine, added
  <2> QED
    BY <1>3, <1>4, <1>9, <1>16, <2>1
<1> QED
  BY <1>11, <1>12, <1>13, <1>14, <1>15, <1>16

LEMMA ScanHolds ==
  ASSUME PatchLintAssumption, NEW diff \in Seq(Line)
  PROVE  ScanInv(diff, Len(diff))
<1> DEFINE L == Len(diff)
           T == {n \in 0 .. L : ScanInv(diff, n)}
<1>1. L \in Nat
  OBVIOUS
<1>2. ScanInv(diff, 0)
  <2>1. Scan(diff)[0] = ScanStart
    BY <1>1, ScanUnfolds
  <2>2. /\ ScanStart \in ScanState /\ ScanStart.found = << >>
        /\ ScanStart.stopped = FALSE /\ ScanStart.cur = ""
    BY DEF ScanStart, ScanState
  <2>3. IsInjective(<< >>) /\ Range(<< >>) = {}
    BY DEF IsInjective, Range
  <2>4. \A j : j \notin 1 .. 0
    OBVIOUS
  <2>5. Reports(diff, 0) = {} /\ DiffLines(diff, 0) = {}
    BY <2>4 DEF Reports, DiffLines
  <2> QED
    BY <2>1, <2>2, <2>3, <2>4, <2>5 DEF ScanInv, CurrentPath
<1>3. \A n \in 0 .. L - 1 : n \in T => n + 1 \in T
  BY <1>1, ScanStep
<1>4. 0 \in T
  BY <1>1, <1>2
<1> HIDE DEF L, T
<1>5. 0 .. L \subseteq T
  BY <1>1, <1>3, <1>4, SetInduction
<1>6. L \in T
  BY <1>1, <1>5
<1> QED
  BY <1>6 DEF T, L

LEMMA LintOfPatch ==
  ASSUME PatchLintAssumption, input \in PatchInput
  PROVE  LintHolds
<1> DEFINE diff == input.diff
<1>1. diff \in Seq(Line)
  BY DEF PatchInput
<1>2. DOMAIN diff = 1 .. Len(diff)
  BY <1>1, LenProperties
<1> HIDE DEF diff
<1>3. IsInjective(Lint(diff)) /\ Range(Lint(diff)) = Reports(diff, Len(diff))
  BY <1>1, ScanHolds DEF ScanInv, Lint
<1> QED
  BY <1>2, <1>3 DEF LintHolds, Reports, diff

\* (LintHolds) For every patch, of any length: the lint reports what a reader of
\* the patch who knows every line's file would report, each once.  (Lint.)
THEOREM LintIsExact ==
  ASSUME PatchLintAssumption
  PROVE  Given(PatchInput) => []LintHolds
<1>1. input \in PatchInput => LintHolds
  BY LintOfPatch
<1>2. LintHolds /\ [FALSE]_input => LintHolds'
  BY DEF LintHolds
<1> QED
  BY <1>1, <1>2, PTL DEF Given

-----------------------------------------------------------------------------
(* Artifacts: one secret taken out. *)

Cell  == Char \cup {Marker, Elision}
Value == Seq(Char \ {NewLine}) \ {<< >>}
Pass  == [out : Seq(Cell), skip : Nat]

\* The states of ReplaceAll exist, one after each character.
LEMMA ReplacingUnfolds ==
  ASSUME NEW t \in Seq(Cell), NEW v \in Value
  PROVE  /\ Replacing(t, v)[0] = [out |-> << >>, skip |-> 0]
         /\ \A n \in 1 .. Len(t) : Replacing(t, v)[n] = ReplaceChar(Replacing(t, v)[n - 1], t, v, n)
         /\ \A n \in 0 .. Len(t) : Replacing(t, v)[n] \in Pass
<1> DEFINE m == Len(t)
           a == [out |-> << >>, skip |-> 0]
           f == [n \in 1 .. m |-> [s \in Pass |-> ReplaceChar(s, t, v, n)]]
           Is(g) == g = [n \in 0 .. m |-> IF n = 0 THEN a ELSE ReplaceChar(g[n - 1], t, v, n)]
<1>1. m \in Nat /\ Len(v) \in Nat \ {0} /\ a \in Pass
  BY DEF Value, Pass
<1>2. ASSUME NEW s \in Pass, NEW n \in 1 .. m PROVE ReplaceChar(s, t, v, n) \in Pass
  <2>1. t[n] \in Cell /\ Marker \in Cell
    BY DEF Cell
  <2>2. s.out \in Seq(Cell) /\ s.skip \in Nat /\ s = [out |-> s.out, skip |-> s.skip]
    BY DEF Pass
  <2>3. Append(s.out, t[n]) \in Seq(Cell) /\ Append(s.out, Marker) \in Seq(Cell)
    BY <2>1, <2>2, AppendProperties
  <2>4. s.skip > 0 => s.skip - 1 \in Nat
    BY <2>2
  <2>5. CASE s.skip > 0
    <3>1. ReplaceChar(s, t, v, n) = [out |-> s.out, skip |-> s.skip - 1]
      BY <2>2, <2>5 DEF ReplaceChar
    <3> QED
      BY <2>2, <2>4, <2>5, <3>1 DEF Pass
  <2>6. CASE ~(s.skip > 0) /\ OccursAt(v, t, n)
    BY <1>1, <2>3, <2>6 DEF ReplaceChar, Pass
  <2>7. CASE ~(s.skip > 0) /\ ~OccursAt(v, t, n)
    <3>1. ReplaceChar(s, t, v, n) = [out |-> Append(s.out, t[n]), skip |-> s.skip]
      BY <2>2, <2>7 DEF ReplaceChar
    <3> QED
      BY <2>2, <2>3, <3>1 DEF Pass
  <2> QED
    BY <2>5, <2>6, <2>7
<1>3. f \in [1 .. m -> [Pass -> Pass]]
  BY <1>2
<1> HIDE DEF a, f, m
<1>4. PICK g : Iteration(g, m, Pass, a, f)
  BY <1>1, <1>3, Iterates
<1>5. \A n \in 1 .. m : g[n] = ReplaceChar(g[n - 1], t, v, n)
  <2> SUFFICES ASSUME NEW n \in 1 .. m PROVE g[n] = ReplaceChar(g[n - 1], t, v, n)
    OBVIOUS
  <2>1. g[n - 1] \in Pass
    BY <1>1, <1>4 DEF Iteration
  <2> QED
    BY <1>4, <2>1 DEF f, Iteration
<1>6. Is(g)
  <2>1. \A n \in 0 .. m : g[n] = IF n = 0 THEN a ELSE ReplaceChar(g[n - 1], t, v, n)
    BY <1>1, <1>4, <1>5 DEF Iteration
  <2>2. g = [n \in 0 .. m |-> g[n]]
    BY <1>4 DEF Iteration
  <2> QED
    BY <2>1, <2>2
<1>7. Replacing(t, v) = CHOOSE r : Is(r)
  BY DEF Replacing, a, m
<1> DEFINE r == Replacing(t, v)
<1>8. Is(r)
  <2> HIDE DEF Is
  <2> QED
    BY <1>6, <1>7
<1> HIDE DEF r
<1>9. r[0] = a /\ \A n \in 1 .. m : r[n] = ReplaceChar(r[n - 1], t, v, n)
  BY <1>1, <1>8
<1>10. \A n \in 0 .. m : r[n] \in Pass
  <2> DEFINE T == {n \in 0 .. m : r[n] \in Pass}
  <2>1. 0 \in T
    BY <1>1, <1>9
  <2>2. \A n \in 0 .. m - 1 : n \in T => n + 1 \in T
    <3> SUFFICES ASSUME NEW n \in 0 .. m - 1, n \in T PROVE n + 1 \in T
      OBVIOUS
    <3>1. n + 1 \in 1 .. m /\ (n + 1) - 1 = n
      BY <1>1
    <3> QED
      BY <1>2, <1>9, <3>1
  <2> HIDE DEF T
  <2>3. 0 .. m \subseteq T
    BY <1>1, <2>1, <2>2, SetInduction
  <2> QED
    BY <2>3 DEF T
<1> QED
  BY <1>9, <1>10 DEF r, a, m

\* How what is written lies against what was read: its end that holds no marker
\* is the end of what was read, and no v began there.
EndIsRead(out, t, v, n) ==
  \A i \in 1 .. Len(out) :
    (\A j \in i .. Len(out) : out[j] # Marker) =>
       out[i] = t[i + (n - Len(out))] /\ ~OccursAt(v, t, i + (n - Len(out)))

\* A word that is in what is written is in the text, where no v begins.
WordsOfText(out, t, v) ==
  \A w \in Value : \A i \in 1 .. Len(out) :
    OccursAt(w, out, i) => \E p \in 1 .. Len(t) : OccursAt(w, t, p) /\ ~OccursAt(v, t, p)

PassInv(t, v, n, st) ==
  /\ st \in Pass /\ Len(st.out) <= n
  /\ st.skip > 0 => Len(st.out) > 0 /\ st.out[Len(st.out)] = Marker
  /\ EndIsRead(st.out, t, v, n)
  /\ WordsOfText(st.out, t, v)

\* A character more.
LEMMA Appended ==
  ASSUME NEW s \in Seq(Cell), NEW c \in Cell
  PROVE  /\ Append(s, c) \in Seq(Cell) /\ Len(Append(s, c)) = Len(s) + 1
         /\ Append(s, c)[Len(s) + 1] = c /\ \A i \in 1 .. Len(s) : Append(s, c)[i] = s[i]
  BY AppendProperties

\* A word in a longer text ends before the last character or with it.
LEMMA OccursAppended ==
  ASSUME NEW s \in Seq(Cell), NEW c \in Cell, NEW w \in Value, NEW i \in 1 .. Len(s) + 1,
         OccursAt(w, Append(s, c), i)
  PROVE  \/ i \in 1 .. Len(s) /\ OccursAt(w, s, i)
         \/ i + Len(w) - 1 = Len(s) + 1 /\ w[Len(w)] = c
<1>1. Len(w) \in Nat \ {0} /\ Len(s) \in Nat
  BY DEF Value
<1> DEFINE L == Len(w)
           m == Len(s)
<1>2. i + L - 1 <= m + 1 /\ \A k \in 1 .. L : Append(s, c)[i + k - 1] = w[k]
  BY Appended DEF OccursAt
<1>3. CASE i + L - 1 = m + 1
  <2>1. L \in 1 .. L /\ i + L - 1 = m + 1
    BY <1>1, <1>3
  <2>2. w[L] = Append(s, c)[m + 1]
    BY <1>2, <2>1
  <2> QED
    BY <2>1, <2>2, Appended
<1>4. CASE i + L - 1 <= m
  <2>1. i \in 1 .. m
    BY <1>1, <1>4
  <2>2. \A k \in 1 .. L : i + k - 1 \in 1 .. m
    BY <1>1, <1>4
  <2>3. \A k \in 1 .. L : s[i + k - 1] = w[k]
    BY <1>2, <2>2, Appended
  <2> QED
    BY <1>4, <2>1, <2>3 DEF OccursAt
<1> QED
  BY <1>1, <1>2, <1>3, <1>4

\* The letters of a secret are no marker, no line break and no elision.
LEMMA Letters ==
  ASSUME ArtifactsAssumption, NEW w \in Value, NEW k \in 1 .. Len(w)
  PROVE  w[k] \in Char /\ w[k] \notin {Marker, NewLine, Elision}
<1>1. w[k] \in Char \ {NewLine}
  BY DEF Value
<1> QED
  BY <1>1 DEF ArtifactsAssumption

\* Passing over a character, after a marker.
LEMMA EndPassed ==
  ASSUME NEW t \in Seq(Cell), NEW v \in Value, NEW n \in Nat, NEW out \in Seq(Cell),
         Len(out) > 0, out[Len(out)] = Marker
  PROVE  EndIsRead(out, t, v, n)
<1>1. \A i \in 1 .. Len(out) : Len(out) \in i .. Len(out)
  OBVIOUS
<1> QED
  BY <1>1 DEF EndIsRead

\* Copying a character where no v begins.
LEMMA EndCopied ==
  ASSUME NEW t \in Seq(Cell), NEW v \in Value, NEW n \in 0 .. Len(t) - 1, NEW out \in Seq(Cell),
         Len(out) <= n, EndIsRead(out, t, v, n), ~OccursAt(v, t, n + 1)
  PROVE  EndIsRead(Append(out, t[n + 1]), t, v, n + 1)
<1> DEFINE m == Len(out)
           o == Append(out, t[n + 1])
<1>1. m \in Nat /\ n \in Nat /\ t[n + 1] \in Cell
  OBVIOUS
<1>2. Len(o) = m + 1 /\ o[m + 1] = t[n + 1] /\ \A i \in 1 .. m : o[i] = out[i]
  BY <1>1, Appended
<1> HIDE DEF o
<1>3. ASSUME NEW i \in 1 .. m + 1, \A j \in i .. m + 1 : o[j] # Marker
      PROVE  o[i] = t[i + (n - m)] /\ ~OccursAt(v, t, i + (n - m))
  <2>1. CASE i = m + 1
    <3>1. i + (n - m) = n + 1
      BY <1>1, <2>1
    <3> QED
      BY <1>2, <2>1, <3>1
  <2>2. CASE i \in 1 .. m
    <3>1. \A j \in i .. m : j \in i .. m + 1 /\ j \in 1 .. m
      BY <1>1, <2>2
    <3>2. \A j \in i .. m : out[j] # Marker
      BY <1>2, <1>3, <3>1
    <3> QED
      BY <1>2, <2>2, <3>2 DEF EndIsRead
  <2> QED
    BY <1>1, <2>1, <2>2
<1>4. (n + 1) - (m + 1) = n - m
  BY <1>1
<1> QED
  BY <1>2, <1>3, <1>4 DEF EndIsRead, o

\* A marker, or a character where no v begins, adds no word that is not in the text.
LEMMA WordsMarked ==
  ASSUME ArtifactsAssumption, NEW t \in Seq(Cell), NEW v \in Value, NEW out \in Seq(Cell),
         WordsOfText(out, t, v)
  PROVE  WordsOfText(Append(out, Marker), t, v)
<1>1. Marker \in Cell /\ Len(Append(out, Marker)) = Len(out) + 1
  BY Appended DEF Cell
<1>2. ASSUME NEW w \in Value, NEW i \in 1 .. Len(out) + 1, OccursAt(w, Append(out, Marker), i)
      PROVE  i \in 1 .. Len(out) /\ OccursAt(w, out, i)
  <2>1. Len(w) \in 1 .. Len(w)
    BY DEF Value
  <2>2. w[Len(w)] # Marker
    BY <2>1, Letters
  <2> QED
    BY <1>1, <1>2, <2>2, OccursAppended
<1> QED
  BY <1>1, <1>2 DEF WordsOfText

LEMMA WordsCopied ==
  ASSUME ArtifactsAssumption,
         NEW t \in Seq(Cell), NEW v \in Value, NEW n \in 0 .. Len(t) - 1, NEW out \in Seq(Cell),
         Len(out) <= n, WordsOfText(out, t, v), EndIsRead(Append(out, t[n + 1]), t, v, n + 1)
  PROVE  WordsOfText(Append(out, t[n + 1]), t, v)
<1> DEFINE m == Len(out)
           c == t[n + 1]
           o == Append(out, c)
<1>1. m \in Nat /\ n \in Nat /\ m <= n /\ c \in Cell /\ Len(t) \in Nat /\ n + 1 <= Len(t)
  OBVIOUS
<1>2. Len(o) = m + 1
  BY <1>1, Appended
<1> HIDE DEF c
<1>3. ASSUME NEW w \in Value, NEW i \in 1 .. m + 1, OccursAt(w, o, i)
      PROVE  \E p \in 1 .. Len(t) : OccursAt(w, t, p) /\ ~OccursAt(v, t, p)
  <2> DEFINE L == Len(w)
             d == n - m
  <2>1. L \in Nat \ {0} /\ d \in Nat
    BY <1>1 DEF Value
  <2>2. CASE i \in 1 .. m /\ OccursAt(w, out, i)
    BY <2>2 DEF WordsOfText
  <2>3. CASE i + L - 1 = m + 1
    <3> HIDE DEF o, d, L
    <3>1. \A k \in 1 .. L : o[i + k - 1] = w[k]
      BY <1>3 DEF OccursAt, L
    <3>2. \A j \in i .. m + 1 : j - i + 1 \in 1 .. L /\ i + (j - i + 1) - 1 = j
      BY <1>1, <2>1, <2>3
    <3>3. \A j \in i .. m + 1 : o[j] # Marker
      <4> SUFFICES ASSUME NEW j \in i .. m + 1 PROVE o[j] # Marker
        OBVIOUS
      <4>1. o[j] = w[j - i + 1]
        BY <3>1, <3>2
      <4> QED
        BY <3>2, <4>1, Letters DEF L
    <3>4. (n + 1) - Len(o) = d
      BY <1>1, <1>2 DEF d
    <3>5. \A j \in i .. m + 1 : o[j] = t[j + d] /\ ~OccursAt(v, t, j + d)
      <4> SUFFICES ASSUME NEW j \in i .. m + 1 PROVE o[j] = t[j + d] /\ ~OccursAt(v, t, j + d)
        OBVIOUS
      <4>1. j \in 1 .. Len(o) /\ \A l \in j .. Len(o) : l \in i .. m + 1
        BY <1>1, <1>2
      <4>2. \A l \in j .. Len(o) : o[l] # Marker
        BY <3>3, <4>1
      <4>3. o[j] = t[j + ((n + 1) - Len(o))] /\ ~OccursAt(v, t, j + ((n + 1) - Len(o)))
        BY <4>1, <4>2 DEF EndIsRead, o, c
      <4> QED
        BY <3>4, <4>3
    <3>6. \A k \in 1 .. L : i + k - 1 \in i .. m + 1 /\ (i + k - 1) + d = (i + d) + k - 1
      BY <1>1, <2>1, <2>3
    <3>7. i \in i .. m + 1 /\ i + d \in 1 .. Len(t) /\ (i + d) + L - 1 <= Len(t)
      BY <1>1, <2>1, <2>3 DEF d
    <3>8. \A k \in 1 .. L : t[(i + d) + k - 1] = w[k]
      BY <3>1, <3>5, <3>6
    <3>9. OccursAt(w, t, i + d)
      BY <3>7, <3>8 DEF OccursAt, L
    <3> QED
      BY <3>5, <3>7, <3>9
  <2> QED
    BY <1>1, <1>3, <2>2, <2>3, OccursAppended
<1> QED
  BY <1>2, <1>3 DEF WordsOfText, c

\* A character keeps the invariant: it is passed over, marked, or copied.
LEMMA PassStep ==
  ASSUME ArtifactsAssumption, NEW t \in Seq(Cell), NEW v \in Value, NEW n \in 0 .. Len(t) - 1,
         NEW st, PassInv(t, v, n, st)
  PROVE  PassInv(t, v, n + 1, ReplaceChar(st, t, v, n + 1))
<1>1. PICK out \in Seq(Cell), skip \in Nat : st = [out |-> out, skip |-> skip]
  BY DEF PassInv, Pass
<1>2. /\ Len(out) \in Nat /\ Len(out) <= n /\ n \in Nat /\ n + 1 \in Nat
      /\ EndIsRead(out, t, v, n) /\ WordsOfText(out, t, v)
      /\ skip > 0 => Len(out) > 0 /\ out[Len(out)] = Marker
  BY <1>1 DEF PassInv
<1>3. Marker \in Cell /\ t[n + 1] \in Cell /\ Len(v) - 1 \in Nat
  BY DEF Cell, Value
<1>4. CASE skip > 0
  <2>1. ReplaceChar(st, t, v, n + 1) = [out |-> out, skip |-> skip - 1] /\ skip - 1 \in Nat
    BY <1>1, <1>4 DEF ReplaceChar
  <2>2. EndIsRead(out, t, v, n + 1)
    BY <1>2, <1>4, EndPassed
  <2> QED
    BY <1>2, <1>4, <2>1, <2>2 DEF PassInv, Pass
<1>5. CASE ~(skip > 0) /\ OccursAt(v, t, n + 1)
  <2>1. ReplaceChar(st, t, v, n + 1) = [out |-> Append(out, Marker), skip |-> Len(v) - 1]
    BY <1>1, <1>5 DEF ReplaceChar
  <2>2. PICK o : o = Append(out, Marker)
    OBVIOUS
  <2>3. o \in Seq(Cell) /\ Len(o) = Len(out) + 1 /\ o[Len(o)] = Marker
    BY <1>3, <2>2, Appended
  <2>4. EndIsRead(o, t, v, n + 1)
    BY <1>2, <2>3, EndPassed
  <2>5. WordsOfText(o, t, v)
    BY <1>2, <2>2, WordsMarked
  <2>6. Len(o) > 0 /\ Len(o) <= n + 1
    BY <1>2, <2>3
  <2>7. ReplaceChar(st, t, v, n + 1) = [out |-> o, skip |-> Len(v) - 1]
    BY <2>1, <2>2
  <2> QED
    BY <1>3, <2>3, <2>4, <2>5, <2>6, <2>7 DEF PassInv, Pass
<1>6. CASE ~(skip > 0) /\ ~OccursAt(v, t, n + 1)
  <2>1. ReplaceChar(st, t, v, n + 1) = [out |-> Append(out, t[n + 1]), skip |-> skip]
    BY <1>1, <1>6 DEF ReplaceChar
  <2>2. PICK o : o = Append(out, t[n + 1])
    OBVIOUS
  <2>3. o \in Seq(Cell) /\ Len(o) = Len(out) + 1
    BY <1>3, <2>2, Appended
  <2>4. EndIsRead(o, t, v, n + 1)
    BY <1>2, <1>6, <2>2, EndCopied
  <2>5. WordsOfText(o, t, v)
    BY <1>2, <2>2, <2>4, WordsCopied
  <2>6. Len(o) <= n + 1
    BY <1>2, <2>3
  <2>7. ReplaceChar(st, t, v, n + 1) = [out |-> o, skip |-> skip]
    BY <2>1, <2>2
  <2> QED
    BY <1>6, <2>3, <2>4, <2>5, <2>6, <2>7 DEF PassInv, Pass
<1> QED
  BY <1>4, <1>5, <1>6

\* What one value taken out leaves.
LEMMA ReplaceValueLeaves ==
  ASSUME ArtifactsAssumption, NEW t \in Seq(Cell), NEW v \in Value
  PROVE  /\ ReplaceValue(t, v) \in Seq(Cell)
         /\ \A w \in Value : Occurs(w, ReplaceValue(t, v)) => Occurs(w, t) /\ w # v
<1> DEFINE r == Replacing(t, v)
           T == {n \in 0 .. Len(t) : PassInv(t, v, n, r[n])}
<1>1. Len(t) \in Nat
  OBVIOUS
<1>2. 0 \in T
  <2>1. r[0] = [out |-> << >>, skip |-> 0]
    BY ReplacingUnfolds
  <2>2. PICK e : e = << >>
    OBVIOUS
  <2>3. e \in Seq(Cell) /\ Len(e) = 0 /\ r[0] = [out |-> e, skip |-> 0]
    BY <2>1, <2>2
  <2> HIDE DEF r
  <2>4. PassInv(t, v, 0, r[0])
    BY <2>3 DEF PassInv, Pass, EndIsRead, WordsOfText
  <2> QED
    BY <1>1, <2>4
<1>3. ASSUME NEW n \in 0 .. Len(t) - 1, n \in T PROVE n + 1 \in T
  <2>1. n + 1 \in 1 .. Len(t) /\ (n + 1) - 1 = n
    BY <1>1
  <2>2. r[n + 1] = ReplaceChar(r[n], t, v, n + 1)
    BY <2>1, ReplacingUnfolds
  <2> HIDE DEF r
  <2> QED
    BY <1>3, <2>1, <2>2, PassStep
<1> HIDE DEF T
<1>4. 0 .. Len(t) \subseteq T
  BY <1>1, <1>2, <1>3, SetInduction
<1>5. PassInv(t, v, Len(t), r[Len(t)])
  BY <1>1, <1>4 DEF T
<1> QED
  BY <1>5 DEF PassInv, Pass, WordsOfText, Occurs, ReplaceValue

-----------------------------------------------------------------------------
(* Artifacts: all of them taken out, and a text in parts. *)

\* The texts of Redact exist, one after each value.
LEMMA RedactingUnfolds ==
  ASSUME ArtifactsAssumption, NEW t \in Seq(Cell), NEW red \in Seq(Value)
  PROVE  /\ Redacting(t, red)[0] = t
         /\ \A n \in 1 .. Len(red) : Redacting(t, red)[n] = ReplaceValue(Redacting(t, red)[n - 1], red[n])
         /\ \A n \in 0 .. Len(red) : Redacting(t, red)[n] \in Seq(Cell)
<1> DEFINE m == Len(red)
           S == Seq(Cell)
           f == [n \in 1 .. m |-> [s \in S |-> ReplaceValue(s, red[n])]]
           Is(g) == g = [n \in 0 .. m |-> IF n = 0 THEN t ELSE ReplaceValue(g[n - 1], red[n])]
<1>1. m \in Nat /\ \A n \in 1 .. m : red[n] \in Value
  OBVIOUS
<1>2. \A n \in 1 .. m : \A s \in S : ReplaceValue(s, red[n]) \in S
  BY <1>1, ReplaceValueLeaves
<1>3. f \in [1 .. m -> [S -> S]]
  BY <1>2
<1> HIDE DEF f, m
<1>4. PICK g : Iteration(g, m, S, t, f)
  BY <1>1, <1>3, Iterates
<1> HIDE DEF S
<1>5. \A n \in 1 .. m : g[n] = ReplaceValue(g[n - 1], red[n])
  <2> SUFFICES ASSUME NEW n \in 1 .. m PROVE g[n] = ReplaceValue(g[n - 1], red[n])
    OBVIOUS
  <2>1. g[n - 1] \in S
    BY <1>1, <1>4 DEF Iteration
  <2> QED
    BY <1>4, <2>1 DEF f, Iteration
<1>6. Is(g)
  <2>1. \A n \in 0 .. m : g[n] = IF n = 0 THEN t ELSE ReplaceValue(g[n - 1], red[n])
    BY <1>1, <1>4, <1>5 DEF Iteration
  <2>2. g = [n \in 0 .. m |-> g[n]]
    BY <1>4 DEF Iteration
  <2> QED
    BY <2>1, <2>2
<1>7. Redacting(t, red) = CHOOSE r : Is(r)
  BY DEF Redacting, m
<1> DEFINE r == Redacting(t, red)
<1>8. Is(r)
  <2> HIDE DEF Is
  <2> QED
    BY <1>6, <1>7
<1> HIDE DEF r
<1>9. r[0] = t /\ \A n \in 1 .. m : r[n] = ReplaceValue(r[n - 1], red[n])
  BY <1>1, <1>8
<1>10. \A n \in 0 .. m : r[n] \in S
  <2> DEFINE T == {n \in 0 .. m : r[n] \in S}
  <2>1. 0 \in T
    BY <1>1, <1>9 DEF S
  <2>2. \A n \in 0 .. m - 1 : n \in T => n + 1 \in T
    <3> SUFFICES ASSUME NEW n \in 0 .. m - 1, n \in T PROVE n + 1 \in T
      OBVIOUS
    <3>1. n + 1 \in 1 .. m /\ (n + 1) - 1 = n
      BY <1>1
    <3>2. r[n + 1] = ReplaceValue(r[n], red[n + 1])
      BY <1>9, <3>1
    <3> QED
      BY <1>2, <3>1, <3>2
  <2> HIDE DEF T
  <2>3. 0 .. m \subseteq T
    BY <1>1, <2>1, <2>2, SetInduction
  <2> QED
    BY <2>3 DEF T
<1> QED
  BY <1>9, <1>10 DEF r, S, m

\* What all values taken out leave: no secret that was not there, and none of them.
LEMMA RedactLeaves ==
  ASSUME ArtifactsAssumption, NEW t \in Seq(Cell), NEW red \in Seq(Value)
  PROVE  /\ Redact(t, red) \in Seq(Cell)
         /\ \A w \in Value : Occurs(w, Redact(t, red)) =>
              Occurs(w, t) /\ \A k \in 1 .. Len(red) : red[k] # w
<1> DEFINE r == Redacting(t, red)
           m == Len(red)
           T == {n \in 0 .. m : \A w \in Value : Occurs(w, r[n]) =>
                                  Occurs(w, t) /\ \A k \in 1 .. n : red[k] # w}
<1>1. m \in Nat /\ \A n \in 1 .. m : red[n] \in Value
  OBVIOUS
<1>2. r[0] = t /\ \A n \in 1 .. m : r[n] = ReplaceValue(r[n - 1], red[n])
  BY RedactingUnfolds
<1>3. \A n \in 0 .. m : r[n] \in Seq(Cell)
  BY RedactingUnfolds
<1> HIDE DEF r
<1>4. 0 \in T
  BY <1>1, <1>2
<1>5. ASSUME NEW n \in 0 .. m - 1, n \in T PROVE n + 1 \in T
  <2>1. n + 1 \in 1 .. m /\ n \in 0 .. m /\ (n + 1) - 1 = n
    BY <1>1
  <2>2. r[n + 1] = ReplaceValue(r[n], red[n + 1]) /\ r[n] \in Seq(Cell) /\ red[n + 1] \in Value
    BY <1>1, <1>2, <1>3, <2>1
  <2>3. \A w \in Value : Occurs(w, r[n + 1]) => Occurs(w, r[n]) /\ w # red[n + 1]
    BY <2>2, ReplaceValueLeaves
  <2>4. \A k \in 1 .. n + 1 : k = n + 1 \/ k \in 1 .. n
    BY <1>1
  <2> QED
    BY <1>5, <2>1, <2>3, <2>4
<1> HIDE DEF T
<1>6. 0 .. m \subseteq T
  BY <1>1, <1>4, <1>5, SetInduction
<1>7. m \in T
  BY <1>1, <1>6
<1> QED
  BY <1>1, <1>3, <1>7 DEF T, r, Redact

\* A character that is passed over, and one that is copied.
LEMMA CharPassed ==
  ASSUME NEW st \in Pass, NEW t, NEW v, NEW n, st.skip > 0
  PROVE  ReplaceChar(st, t, v, n) = [out |-> st.out, skip |-> st.skip - 1]
BY DEF ReplaceChar, Pass

LEMMA CharCopied ==
  ASSUME NEW st \in Pass, NEW t, NEW v, NEW n, st.skip = 0, ~OccursAt(v, t, n)
  PROVE  ReplaceChar(st, t, v, n) = [out |-> Append(st.out, t[n]), skip |-> 0]
<1>1. ~(st.skip > 0)
  OBVIOUS
<1>2. ReplaceChar(st, t, v, n) = [st EXCEPT !.out = Append(st.out, t[n])]
  BY <1>1 DEF ReplaceChar
<1>3. [st EXCEPT !.out = Append(st.out, t[n])] = [out |-> Append(st.out, t[n]), skip |-> 0]
  BY DEF Pass
<1> QED
  BY <1>2, <1>3

\* A text without the value stays as it is.
LEMMA ReplaceUnchanged ==
  ASSUME NEW t \in Seq(Cell), NEW v \in Value, ~Occurs(v, t)
  PROVE  ReplaceValue(t, v) = t
<1> DEFINE r == Replacing(t, v)
           read(n) == SubSeq(t, 1, n)
           at(n) == [out |-> read(n), skip |-> 0]
           T == {n \in 0 .. Len(t) : r[n] = at(n)}
<1>1. Len(t) \in Nat
  OBVIOUS
<1>2. /\ r[0] = [out |-> << >>, skip |-> 0]
      /\ \A n \in 1 .. Len(t) : r[n] = ReplaceChar(r[n - 1], t, v, n)
  BY ReplacingUnfolds
<1>3. \A n \in 0 .. Len(t) : r[n] \in Pass
  BY ReplacingUnfolds
<1>4. read(0) = << >>
  BY SubSeqEmpty
<1>5. \A n \in 0 .. Len(t) - 1 : read(n + 1) = Append(read(n), t[n + 1])
  <2> SUFFICES ASSUME NEW n \in 0 .. Len(t) - 1 PROVE read(n + 1) = Append(read(n), t[n + 1])
    OBVIOUS
  <2>1. n + 1 \in 1 .. Len(t) /\ (n + 1) - 1 = n /\ 1 \in 1 .. Len(t)
    BY <1>1
  <2>2. read(n + 1) = read((n + 1) - 1) \o <<t[n + 1]>>
    BY <2>1, SubSeqRecursiveSecond
  <2>3. read(n) \in Seq(Cell) /\ t[n + 1] \in Cell
    BY <2>1, SubSeqProperties
  <2> QED
    BY <2>1, <2>2, <2>3, AppendIsConcat
<1>6. read(Len(t)) = t
  BY SubSeqFull
<1> HIDE DEF r, read
<1>7. 0 \in T
  BY <1>1, <1>2, <1>4
<1>8. ASSUME NEW n \in 0 .. Len(t) - 1, n \in T PROVE n + 1 \in T
  <2>1. n + 1 \in 1 .. Len(t) /\ (n + 1) - 1 = n
    BY <1>1
  <2>2. ~OccursAt(v, t, n + 1)
    BY <2>1 DEF Occurs
  <2>3. r[n] = [out |-> read(n), skip |-> 0]
    BY <1>8
  <2>4. r[n + 1] = ReplaceChar(r[n], t, v, n + 1)
    BY <1>2, <2>1
  <2>5. r[n] \in Pass /\ r[n].skip = 0 /\ r[n].out = read(n)
    BY <1>3, <2>1, <2>3
  <2>6. ReplaceChar(r[n], t, v, n + 1) = [out |-> Append(r[n].out, t[n + 1]), skip |-> 0]
    BY <2>2, <2>5, CharCopied, Zenon
  <2>7. r[n + 1] = [out |-> Append(read(n), t[n + 1]), skip |-> 0]
    BY <2>4, <2>5, <2>6
  <2>8. r[n + 1] = at(n + 1)
    BY <1>5, <2>7
  <2> HIDE DEF at
  <2> QED
    BY <1>1, <2>1, <2>8
<1> HIDE DEF T
<1>9. 0 .. Len(t) \subseteq T
  BY <1>1, <1>7, <1>8, SetInduction
<1>10. r[Len(t)] = at(Len(t))
  BY <1>1, <1>9 DEF T
<1> QED
  BY <1>6, <1>10 DEF ReplaceValue, r

\* A text without any of the values stays as it is.
LEMMA RedactUnchanged ==
  ASSUME ArtifactsAssumption, NEW t \in Seq(Cell), NEW red \in Seq(Value),
         \A k \in 1 .. Len(red) : ~Occurs(red[k], t)
  PROVE  Redact(t, red) = t
<1> DEFINE r == Redacting(t, red)
           m == Len(red)
           T == {n \in 0 .. m : r[n] = t}
<1>1. m \in Nat /\ \A n \in 1 .. m : red[n] \in Value
  OBVIOUS
<1>2. r[0] = t /\ \A n \in 1 .. m : r[n] = ReplaceValue(r[n - 1], red[n])
  BY RedactingUnfolds
<1> HIDE DEF r
<1>3. 0 \in T
  BY <1>1, <1>2
<1>4. ASSUME NEW n \in 0 .. m - 1, n \in T PROVE n + 1 \in T
  <2>1. n + 1 \in 1 .. m /\ (n + 1) - 1 = n
    BY <1>1
  <2>2. r[n + 1] = ReplaceValue(t, red[n + 1])
    BY <1>2, <1>4, <2>1
  <2> QED
    BY <1>1, <1>4, <2>1, <2>2, ReplaceUnchanged
<1> HIDE DEF T
<1>5. 0 .. m \subseteq T
  BY <1>1, <1>3, <1>4, SetInduction
<1> QED
  BY <1>1, <1>5 DEF T, r, Redact

\* A text that no secret can go beyond: it ends with what is in none.
Closed(a) == Len(a) = 0 \/ a[Len(a)] \in {NewLine, Elision}

\* An occurrence that begins in a closed text ends before its last character, and
\* what follows makes no difference to it.
LEMMA OccursClosed ==
  ASSUME ArtifactsAssumption, NEW a \in Seq(Cell), NEW b \in Seq(Cell), Closed(a), NEW v \in Value,
         NEW p \in 1 .. Len(a)
  PROVE  /\ OccursAt(v, a, p) => p + Len(v) - 1 < Len(a)
         /\ OccursAt(v, a \o b, p) <=> OccursAt(v, a, p)
<1> DEFINE m == Len(a)
           L == Len(v)
           c == a \o b
<1>1. m \in Nat \ {0} /\ L \in Nat \ {0} /\ Len(b) \in Nat /\ L \in 1 .. L
  BY DEF Value
<1>2. Len(c) = m + Len(b) /\ \A i \in 1 .. m : c[i] = a[i]
  <2>1. \A i \in 1 .. m : i \in 1 .. m + Len(b) /\ i <= m
    BY <1>1
  <2> QED
    BY <2>1, ConcatProperties
<1>3. a[m] \in {NewLine, Elision}
  BY <1>1 DEF Closed
<1> HIDE DEF c
<1>4. \A k \in 1 .. L : v[k] # a[m]
  BY <1>3, Letters
<1>5. ASSUME \A k \in 1 .. L : p + k - 1 \in 1 .. m => a[p + k - 1] = v[k]
      PROVE  p + L - 1 < m
  <2> SUFFICES ASSUME ~(p + L - 1 < m) PROVE FALSE
    OBVIOUS
  <2>1. m - p + 1 \in 1 .. L /\ p + (m - p + 1) - 1 = m /\ m \in 1 .. m
    BY <1>1
  <2> QED
    BY <1>4, <1>5, <2>1
<1>6. OccursAt(v, a, p) => p + L - 1 < m
  BY <1>5 DEF OccursAt
<1>7. OccursAt(v, c, p) => p + L - 1 < m
  BY <1>2, <1>5 DEF OccursAt
<1>8. p + L - 1 < m => \A k \in 1 .. L : p + k - 1 \in 1 .. m
  BY <1>1
<1>9. p + L - 1 < m => p + L - 1 <= Len(c) /\ p + L - 1 <= Len(a)
  BY <1>1, <1>2
<1>10. OccursAt(v, c, p) => OccursAt(v, a, p)
  <2> SUFFICES ASSUME OccursAt(v, c, p) PROVE OccursAt(v, a, p)
    OBVIOUS
  <2>1. \A k \in 1 .. L : c[p + k - 1] = v[k]
    BY DEF OccursAt
  <2>2. \A k \in 1 .. L : a[p + k - 1] = v[k]
    BY <1>2, <1>7, <1>8, <2>1
  <2> QED
    BY <1>7, <1>9, <2>2 DEF OccursAt
<1>11. OccursAt(v, a, p) => OccursAt(v, c, p)
  <2> SUFFICES ASSUME OccursAt(v, a, p) PROVE OccursAt(v, c, p)
    OBVIOUS
  <2>1. \A k \in 1 .. L : a[p + k - 1] = v[k]
    BY DEF OccursAt
  <2>2. \A k \in 1 .. L : c[p + k - 1] = v[k]
    BY <1>2, <1>6, <1>8, <2>1
  <2> QED
    BY <1>6, <1>9, <2>2 DEF OccursAt
<1> QED
  BY <1>6, <1>10, <1>11 DEF c

\* What precedes makes no difference to an occurrence.
LEMMA OccursBeyond ==
  ASSUME NEW a \in Seq(Cell), NEW b \in Seq(Cell), NEW v \in Value, NEW q \in 1 .. Len(b)
  PROVE  OccursAt(v, a \o b, Len(a) + q) <=> OccursAt(v, b, q)
<1> DEFINE m == Len(a)
           L == Len(v)
           c == a \o b
<1>1. m \in Nat /\ L \in Nat /\ Len(b) \in Nat
  BY DEF Value
<1>2. Len(c) = m + Len(b) /\ \A i \in 1 .. Len(b) : c[m + i] = b[i]
  <2>1. \A i \in 1 .. Len(b) : m + i \in 1 .. m + Len(b) /\ ~(m + i <= m) /\ (m + i) - m = i
    BY <1>1
  <2> QED
    BY <2>1, ConcatProperties
<1> HIDE DEF c
<1>3. (m + q) + L - 1 <= Len(c) <=> q + L - 1 <= Len(b)
  BY <1>1, <1>2
<1>4. ASSUME q + L - 1 <= Len(b)
      PROVE  \A k \in 1 .. L : c[(m + q) + k - 1] = b[q + k - 1]
  <2>1. \A k \in 1 .. L : q + k - 1 \in 1 .. Len(b) /\ (m + q) + k - 1 = m + (q + k - 1)
    BY <1>1, <1>4
  <2> QED
    BY <1>2, <2>1
<1>5. OccursAt(v, c, m + q) <=> (m + q) + L - 1 <= Len(c) /\ \A k \in 1 .. L : c[(m + q) + k - 1] = v[k]
  BY DEF OccursAt
<1>6. OccursAt(v, b, q) <=> q + L - 1 <= Len(b) /\ \A k \in 1 .. L : b[q + k - 1] = v[k]
  BY DEF OccursAt
<1> QED
  BY <1>3, <1>4, <1>5, <1>6 DEF c

\* In a closed text ReplaceAll has passed over all of an occurrence before the end.
LEMMA SkipInside ==
  ASSUME ArtifactsAssumption, NEW a \in Seq(Cell), Closed(a), NEW v \in Value
  PROVE  \A n \in 0 .. Len(a) : Replacing(a, v)[n].skip = 0 \/ n + Replacing(a, v)[n].skip < Len(a)
<1> DEFINE r == Replacing(a, v)
           m == Len(a)
           T == {n \in 0 .. m : r[n].skip = 0 \/ n + r[n].skip < m}
<1>1. m \in Nat /\ Len(v) \in Nat \ {0}
  BY DEF Value
<1>2. r[0].skip = 0
  BY ReplacingUnfolds
<1>3. \A n \in 1 .. m : r[n] = ReplaceChar(r[n - 1], a, v, n)
  BY ReplacingUnfolds
<1>4. \A n \in 0 .. m : r[n] \in Pass
  BY ReplacingUnfolds
<1> HIDE DEF r
<1>5. ASSUME NEW n \in 0 .. m - 1, n \in T PROVE n + 1 \in T
  <2>1. n + 1 \in 1 .. m /\ n + 1 \in 0 .. m /\ n \in 0 .. m /\ (n + 1) - 1 = n
    BY <1>1
  <2>2. r[n + 1] = ReplaceChar(r[n], a, v, n + 1) /\ r[n] \in Pass
    BY <1>3, <1>4, <2>1
  <2>3. r[n].skip \in Nat
    BY <2>2 DEF Pass
  <2>4. CASE r[n].skip > 0
    <3>1. ReplaceChar(r[n], a, v, n + 1) = [out |-> r[n].out, skip |-> r[n].skip - 1]
      BY <2>2, <2>4, CharPassed
    <3>2. r[n + 1].skip = r[n].skip - 1
      BY <2>2, <3>1
    <3>3. PICK k \in Nat : k = r[n].skip
      BY <2>3
    <3>4. n + k < m /\ k > 0
      BY <1>5, <2>4, <3>3
    <3>5. (n + 1) + (k - 1) < m
      BY <1>1, <3>4
    <3> QED
      BY <2>1, <3>2, <3>3, <3>5
  <2>5. CASE r[n].skip = 0 /\ OccursAt(v, a, n + 1)
    <3>1. ReplaceChar(r[n], a, v, n + 1) = [out |-> Append(r[n].out, Marker), skip |-> Len(v) - 1]
      BY <2>2, <2>5 DEF ReplaceChar, Pass
    <3>2. r[n + 1].skip = Len(v) - 1
      BY <2>2, <3>1
    <3>3. (n + 1) + Len(v) - 1 < m
      BY <2>1, <2>5, OccursClosed
    <3> QED
      BY <1>1, <2>1, <3>2, <3>3
  <2>6. CASE r[n].skip = 0 /\ ~OccursAt(v, a, n + 1)
    <3>1. ReplaceChar(r[n], a, v, n + 1) = [out |-> Append(r[n].out, a[n + 1]), skip |-> 0]
      BY <2>2, <2>6, CharCopied, Zenon
    <3>2. r[n + 1].skip = 0
      BY <2>2, <3>1
    <3> QED
      BY <2>1, <3>2
  <2> QED
    BY <2>3, <2>4, <2>5, <2>6
<1>6. 0 \in T
  BY <1>1, <1>2
<1> HIDE DEF T
<1>7. 0 .. m \subseteq T
  BY <1>1, <1>5, <1>6, SetInduction
<1> QED
  BY <1>7 DEF T, r

\* What is left of a closed text is closed: its last character stays.
LEMMA ClosedStaysClosed ==
  ASSUME ArtifactsAssumption, NEW a \in Seq(Cell), Closed(a), NEW v \in Value
  PROVE  Closed(ReplaceValue(a, v)) /\ Replacing(a, v)[Len(a)].skip = 0
<1> DEFINE r == Replacing(a, v)
           m == Len(a)
<1>1. m \in Nat /\ Len(v) \in Nat \ {0}
  BY DEF Value
<1>2. r[0] = [out |-> << >>, skip |-> 0] /\ \A n \in 1 .. m : r[n] = ReplaceChar(r[n - 1], a, v, n)
  BY ReplacingUnfolds
<1>3. \A n \in 0 .. m : r[n] \in Pass
  BY ReplacingUnfolds
<1>4. \A n \in 0 .. m : r[n].skip = 0 \/ n + r[n].skip < m
  BY SkipInside
<1>5. ReplaceValue(a, v) = r[m].out
  BY DEF ReplaceValue
<1> HIDE DEF r
<1>6. CASE m = 0
  <2>1. r[m].skip = 0 /\ r[m].out = << >>
    BY <1>2, <1>6
  <2>2. Len(r[m].out) = 0
    BY <2>1
  <2> QED
    BY <1>5, <2>1, <2>2 DEF Closed, r
<1>7. CASE m > 0
  <2>1. m \in 1 .. m /\ m - 1 \in 0 .. m /\ m \in 0 .. m
    BY <1>1, <1>7
  <2>2. r[m - 1] \in Pass /\ r[m - 1].out \in Seq(Cell) /\ r[m - 1].skip \in Nat
    BY <1>3, <2>1 DEF Pass
  <2>3. r[m - 1].skip = 0
    BY <1>1, <1>4, <2>1, <2>2
  <2>4. ~OccursAt(v, a, m)
    BY <1>1, <2>1, OccursClosed
  <2>5. ReplaceChar(r[m - 1], a, v, m) = [out |-> Append(r[m - 1].out, a[m]), skip |-> 0]
    BY <2>2, <2>3, <2>4, CharCopied, Zenon
  <2>6. r[m].skip = 0 /\ r[m].out = Append(r[m - 1].out, a[m])
    BY <1>2, <2>1, <2>5
  <2>7. a[m] \in Cell /\ a[m] \in {NewLine, Elision}
    BY <1>7, <2>1 DEF Closed
  <2>8. Len(r[m].out) = Len(r[m - 1].out) + 1 /\ r[m].out[Len(r[m - 1].out) + 1] = a[m]
    BY <2>2, <2>6, <2>7, Appended
  <2> QED
    BY <1>5, <2>6, <2>7, <2>8 DEF Closed, r
<1> QED
  BY <1>1, <1>6, <1>7

\* Appending to the second of two parts.
LEMMA ConcatAppend ==
  ASSUME NEW x \in Seq(Cell), NEW y \in Seq(Cell), NEW c \in Cell
  PROVE  x \o Append(y, c) = Append(x \o y, c)
<1>1. Append(y, c) = y \o <<c>> /\ <<c>> \in Seq(Cell) /\ x \o y \in Seq(Cell)
  BY AppendIsConcat, ConcatProperties
<1>2. Append(x \o y, c) = (x \o y) \o <<c>>
  BY <1>1, AppendIsConcat
<1> QED
  BY <1>1, <1>2, ConcatAssociative

\* ReplaceAll of a closed text followed by another goes through the first as if
\* it were alone ...
LEMMA SplitFirst ==
  ASSUME ArtifactsAssumption, NEW a \in Seq(Cell), NEW b \in Seq(Cell), Closed(a), NEW v \in Value
  PROVE  \A n \in 0 .. Len(a) : Replacing(a \o b, v)[n] = Replacing(a, v)[n]
<1> DEFINE c == a \o b
           r == Replacing(a, v)
           rc == Replacing(c, v)
           m == Len(a)
           T == {n \in 0 .. m : rc[n] = r[n]}
<1>1. m \in Nat /\ c \in Seq(Cell) /\ Len(c) \in Nat /\ m <= Len(c)
  BY ConcatProperties
<1>2. \A n \in 1 .. m : c[n] = a[n] /\ (OccursAt(v, c, n) <=> OccursAt(v, a, n)) /\ n \in 1 .. Len(c)
  <2>1. \A n \in 1 .. m : n \in 1 .. m + Len(b) /\ n <= m
    OBVIOUS
  <2> QED
    BY <1>1, <2>1, OccursClosed, ConcatProperties
<1>3. r[0] = rc[0]
  BY <1>1, ReplacingUnfolds
<1>4. \A n \in 1 .. m : r[n] = ReplaceChar(r[n - 1], a, v, n)
  BY ReplacingUnfolds
<1>5. \A n \in 1 .. Len(c) : rc[n] = ReplaceChar(rc[n - 1], c, v, n)
  BY <1>1, ReplacingUnfolds
<1> HIDE DEF c, r, rc
<1>6. \A n \in 1 .. m : \A st : ReplaceChar(st, c, v, n) = ReplaceChar(st, a, v, n)
  BY <1>2 DEF ReplaceChar
<1>7. ASSUME NEW n \in 0 .. m - 1, n \in T PROVE n + 1 \in T
  <2>1. n + 1 \in 1 .. m /\ n + 1 \in 0 .. m /\ (n + 1) - 1 = n
    BY <1>1
  <2>2. rc[n + 1] = ReplaceChar(rc[n], c, v, n + 1) /\ r[n + 1] = ReplaceChar(r[n], a, v, n + 1)
    BY <1>2, <1>4, <1>5, <2>1
  <2>3. ReplaceChar(r[n], c, v, n + 1) = ReplaceChar(r[n], a, v, n + 1)
    BY <1>6, <2>1
  <2> QED
    BY <1>7, <2>1, <2>2, <2>3
<1>8. 0 \in T
  BY <1>1, <1>3
<1> HIDE DEF T
<1>9. 0 .. m \subseteq T
  BY <1>1, <1>7, <1>8, SetInduction
<1> QED
  BY <1>9 DEF T, r, rc, c

\* ... and then through the second as if that were alone.
LEMMA SplitSecond ==
  ASSUME ArtifactsAssumption, NEW a \in Seq(Cell), NEW b \in Seq(Cell), Closed(a), NEW v \in Value
  PROVE  \A q \in 0 .. Len(b) :
           Replacing(a \o b, v)[Len(a) + q] =
             [out |-> ReplaceValue(a, v) \o Replacing(b, v)[q].out, skip |-> Replacing(b, v)[q].skip]
<1> DEFINE c == a \o b
           r == Replacing(b, v)
           rc == Replacing(c, v)
           m == Len(a)
           k == Len(b)
           x == ReplaceValue(a, v)
           at(q) == [out |-> x \o r[q].out, skip |-> r[q].skip]
           T == {q \in 0 .. k : rc[m + q] = at(q)}
<1>1. m \in Nat /\ k \in Nat /\ c \in Seq(Cell) /\ Len(c) = m + k /\ Len(v) \in Nat \ {0} /\ x \in Seq(Cell)
  BY ConcatProperties, ReplaceValueLeaves DEF Value
<1>2. \A q \in 1 .. k : c[m + q] = b[q] /\ (OccursAt(v, c, m + q) <=> OccursAt(v, b, q))
  <2>1. \A q \in 1 .. k : m + q \in 1 .. m + k /\ ~(m + q <= m) /\ (m + q) - m = q
    BY <1>1
  <2>2. \A q \in 1 .. k : OccursAt(v, c, m + q) <=> OccursAt(v, b, q)
    BY OccursBeyond
  <2> QED
    BY <2>1, <2>2, ConcatProperties
<1>3. r[0] = [out |-> << >>, skip |-> 0] /\ \A n \in 1 .. k : r[n] = ReplaceChar(r[n - 1], b, v, n)
  BY ReplacingUnfolds
<1>4. \A n \in 1 .. Len(c) : rc[n] = ReplaceChar(rc[n - 1], c, v, n)
  BY <1>1, ReplacingUnfolds
<1>5. \A n \in 0 .. k : r[n] \in Pass
  BY ReplacingUnfolds
<1>6. rc[m] = [out |-> x, skip |-> 0]
  <2>1. rc[m] = Replacing(a, v)[m]
    BY <1>1, SplitFirst
  <2>2. Replacing(a, v)[m] \in Pass
    BY <1>1, ReplacingUnfolds
  <2>3. Replacing(a, v)[m].skip = 0
    BY ClosedStaysClosed
  <2>4. Replacing(a, v)[m].out = x
    BY DEF ReplaceValue
  <2> HIDE DEF rc, x
  <2> QED
    BY <2>1, <2>2, <2>3, <2>4 DEF Pass
<1> HIDE DEF c, r, rc, x
<1>7. 0 \in T
  <2>1. x \o << >> = x
    BY <1>1, ConcatEmptySeq
  <2>2. m + 0 = m /\ 0 \in 0 .. k
    BY <1>1
  <2>3. r[0].out = << >> /\ r[0].skip = 0
    BY <1>3
  <2>4. at(0) = [out |-> x, skip |-> 0]
    BY <2>1, <2>3
  <2> HIDE DEF at
  <2> QED
    BY <1>6, <2>2, <2>4
<1>8. ASSUME NEW q \in 0 .. k - 1, q \in T PROVE q + 1 \in T
  <2>1. /\ q + 1 \in 1 .. k /\ q + 1 \in 0 .. k /\ (q + 1) - 1 = q
        /\ m + (q + 1) \in 1 .. Len(c) /\ (m + (q + 1)) - 1 = m + q
    BY <1>1
  <2>2. q \in 0 .. k
    BY <1>1
  <2>3. r[q] \in Pass
    BY <1>5, <2>2
  <2>4. PICK y \in Seq(Cell), s \in Nat : r[q] = [out |-> y, skip |-> s]
    BY <2>3 DEF Pass
  <2> DEFINE xy == x \o y
             d == b[q + 1]
             new == r[q + 1]
             newc == rc[m + (q + 1)]
  <2>5. xy \in Seq(Cell) /\ d \in Cell /\ Marker \in Cell
    BY <1>1, <2>1, ConcatProperties DEF Cell
  <2>6. x \o Append(y, d) = Append(xy, d) /\ x \o Append(y, Marker) = Append(xy, Marker)
    BY <1>1, <2>5, ConcatAppend
  <2>7. r[q].out = y /\ r[q].skip = s
    BY <2>4
  <2>8. rc[m + q] = [out |-> xy, skip |-> s]
    BY <1>8, <2>7
  <2>9. new = ReplaceChar([out |-> y, skip |-> s], b, v, q + 1)
    BY <1>3, <2>1, <2>4
  <2>10. newc = ReplaceChar([out |-> xy, skip |-> s], c, v, m + (q + 1))
    BY <1>4, <2>1, <2>8
  <2>11. c[m + (q + 1)] = d /\ (OccursAt(v, c, m + (q + 1)) <=> OccursAt(v, b, q + 1))
    BY <1>2, <2>1
  <2> HIDE DEF xy, d, new, newc
  <2>12. newc = [out |-> x \o new.out, skip |-> new.skip]
    <3>1. CASE s > 0
      <4>1. new = [out |-> y, skip |-> s - 1]
        BY <2>9, <3>1 DEF ReplaceChar
      <4>2. newc = [out |-> xy, skip |-> s - 1]
        BY <2>10, <3>1 DEF ReplaceChar
      <4> QED
        BY <4>1, <4>2 DEF xy
    <3>2. CASE ~(s > 0) /\ OccursAt(v, b, q + 1)
      <4>1. new = [out |-> Append(y, Marker), skip |-> Len(v) - 1]
        BY <2>9, <3>2 DEF ReplaceChar
      <4>2. newc = [out |-> Append(xy, Marker), skip |-> Len(v) - 1]
        BY <2>10, <2>11, <3>2 DEF ReplaceChar
      <4> QED
        BY <2>6, <4>1, <4>2
    <3>3. CASE ~(s > 0) /\ ~OccursAt(v, b, q + 1)
      <4>1. new = [out |-> Append(y, d), skip |-> s]
        BY <2>9, <3>3 DEF ReplaceChar, d
      <4>2. newc = [out |-> Append(xy, d), skip |-> s]
        BY <2>10, <2>11, <3>3 DEF ReplaceChar
      <4> QED
        BY <2>6, <4>1, <4>2
    <3> QED
      BY <3>1, <3>2, <3>3
  <2> QED
    BY <2>1, <2>12 DEF new, newc
<1> HIDE DEF T
<1>9. 0 .. k \subseteq T
  BY <1>1, <1>7, <1>8, SetInduction
<1> QED
  BY <1>9 DEF T, r, rc, c, x

\* The two parts together.
LEMMA ReplaceSplits ==
  ASSUME ArtifactsAssumption, NEW a \in Seq(Cell), NEW b \in Seq(Cell), Closed(a), NEW v \in Value
  PROVE  ReplaceValue(a \o b, v) = ReplaceValue(a, v) \o ReplaceValue(b, v)
<1>1. Len(b) \in 0 .. Len(b) /\ Len(a \o b) = Len(a) + Len(b)
  BY ConcatProperties
<1>2. Replacing(a \o b, v)[Len(a) + Len(b)] =
        [out |-> ReplaceValue(a, v) \o Replacing(b, v)[Len(b)].out, skip |-> Replacing(b, v)[Len(b)].skip]
  BY <1>1, SplitSecond
<1>3. Replacing(a \o b, v)[Len(a \o b)].out = ReplaceValue(a, v) \o Replacing(b, v)[Len(b)].out
  BY <1>1, <1>2
<1> QED
  BY <1>3 DEF ReplaceValue

\* What is redacted in two parts, the first closed, is redacted.
LEMMA RedactSplits ==
  ASSUME ArtifactsAssumption, NEW a \in Seq(Cell), NEW b \in Seq(Cell), Closed(a), NEW red \in Seq(Value)
  PROVE  Redact(a \o b, red) = Redact(a, red) \o Redact(b, red)
<1> DEFINE ra == Redacting(a, red)
           rb == Redacting(b, red)
           rc == Redacting(a \o b, red)
           m == Len(red)
           T == {n \in 0 .. m : rc[n] = ra[n] \o rb[n] /\ Closed(ra[n])}
<1>1. m \in Nat /\ (\A n \in 1 .. m : red[n] \in Value) /\ a \o b \in Seq(Cell)
  BY ConcatProperties
<1>2. ra[0] = a /\ \A n \in 1 .. m : ra[n] = ReplaceValue(ra[n - 1], red[n])
  BY RedactingUnfolds
<1>3. rb[0] = b /\ \A n \in 1 .. m : rb[n] = ReplaceValue(rb[n - 1], red[n])
  BY RedactingUnfolds
<1>4. rc[0] = a \o b /\ \A n \in 1 .. m : rc[n] = ReplaceValue(rc[n - 1], red[n])
  BY <1>1, RedactingUnfolds
<1>5. \A n \in 0 .. m : ra[n] \in Seq(Cell) /\ rb[n] \in Seq(Cell)
  BY RedactingUnfolds
<1> HIDE DEF ra, rb, rc
<1>6. 0 \in T
  <2>1. rc[0] = ra[0] \o rb[0]
    BY <1>2, <1>3, <1>4
  <2>2. Closed(ra[0])
    BY <1>2
  <2>3. 0 \in 0 .. m
    BY <1>1
  <2> QED
    BY <2>1, <2>2, <2>3
<1>7. ASSUME NEW n \in 0 .. m - 1, n \in T PROVE n + 1 \in T
  <2>1. n + 1 \in 1 .. m /\ n + 1 \in 0 .. m /\ n \in 0 .. m /\ (n + 1) - 1 = n
    BY <1>1
  <2>2. ra[n + 1] = ReplaceValue(ra[n], red[n + 1]) /\ rb[n + 1] = ReplaceValue(rb[n], red[n + 1])
    BY <1>2, <1>3, <2>1
  <2>3. rc[n + 1] = ReplaceValue(ra[n] \o rb[n], red[n + 1])
    BY <1>4, <1>7, <2>1
  <2>4. Closed(ra[n]) /\ ra[n] \in Seq(Cell) /\ rb[n] \in Seq(Cell) /\ red[n + 1] \in Value
    BY <1>1, <1>5, <1>7, <2>1
  <2>5. ReplaceValue(ra[n] \o rb[n], red[n + 1]) = ReplaceValue(ra[n], red[n + 1]) \o ReplaceValue(rb[n], red[n + 1])
    BY <2>4, ReplaceSplits
  <2>6. Closed(ReplaceValue(ra[n], red[n + 1]))
    BY <2>4, ClosedStaysClosed
  <2> QED
    BY <2>1, <2>2, <2>3, <2>5, <2>6
<1> HIDE DEF T
<1>8. 0 .. m \subseteq T
  BY <1>1, <1>6, <1>7, SetInduction
<1>9. m \in T
  BY <1>1, <1>8
<1>10. rc[m] = ra[m] \o rb[m]
  BY <1>9 DEF T
<1> QED
  BY <1>10 DEF ra, rb, rc, Redact

-----------------------------------------------------------------------------
(* Artifacts: the cut of a long transcript. *)

\* The cuts fall after a line break when there is one to cut at.
LEMMA HeadCutAtLine ==
  ASSUME NEW h \in Seq(Cell), \E i \in 2 .. Len(h) : h[i] = NewLine
  PROVE  \E i \in 2 .. Len(h) : h[i] = NewLine /\ CutHead(h) = SubSeq(h, 1, i)
<1> DEFINE ends == {i \in DOMAIN h : h[i] = NewLine /\ i > 1}
           last == CHOOSE i \in ends : \A j \in ends : j <= i
<1>1. DOMAIN h = 1 .. Len(h) /\ Len(h) \in Nat
  OBVIOUS
<1>2. ends # {} /\ ends \subseteq 0 .. Len(h)
  BY <1>1
<1>3. \A i \in ends : i \in 2 .. Len(h) /\ h[i] = NewLine
  BY <1>1
<1>4. CutHead(h) = SubSeq(h, 1, last)
  BY <1>2 DEF CutHead
<1> HIDE DEF ends
<1>5. \E i \in ends : \A j \in ends : j <= i
  BY <1>1, <1>2, Extremes
<1>6. last \in ends
  BY <1>5
<1> HIDE DEF last
<1> QED
  BY <1>3, <1>4, <1>6

LEMMA TailCutAtLine ==
  ASSUME NEW t \in Seq(Cell), \E i \in 1 .. Len(t) - 1 : t[i] = NewLine
  PROVE  \E i \in 1 .. Len(t) - 1 : t[i] = NewLine /\ CutTail(t) = SubSeq(t, i + 1, Len(t))
<1> DEFINE ends == {i \in DOMAIN t : t[i] = NewLine}
           first == CHOOSE i \in ends : \A j \in ends : i <= j
<1>1. DOMAIN t = 1 .. Len(t) /\ Len(t) \in Nat
  OBVIOUS
<1>2. PICK e \in ends : e \in 1 .. Len(t) - 1
  BY <1>1
<1>3. ends # {} /\ ends \subseteq 0 .. Len(t)
  BY <1>1, <1>2
<1>4. \A i \in ends : i \in 1 .. Len(t) /\ t[i] = NewLine
  BY <1>1
<1>5. CutTail(t) = IF ends = {} \/ first = Len(t) THEN t ELSE SubSeq(t, first + 1, Len(t))
  BY DEF CutTail
<1> HIDE DEF ends
<1>6. \E i \in ends : \A j \in ends : i <= j
  BY <1>1, <1>3, Extremes
<1>7. PICK f \in ends : f = first /\ f <= e
  BY <1>2, <1>6
<1> HIDE DEF first
<1>8. f \in 1 .. Len(t) /\ t[f] = NewLine
  BY <1>4
<1>9. f \in 1 .. Len(t) - 1 /\ f # Len(t)
  <2>1. f <= e /\ Len(t) \in Nat
    BY <1>1, <1>7
  <2>2. f \in Nat /\ e \in Nat /\ 1 <= f /\ e <= Len(t) - 1
    BY <1>2, <1>8
  <2>3. f <= Len(t) - 1
    BY <2>1, <2>2
  <2> QED
    BY <2>1, <2>2, <2>3
<1>10. CutTail(t) = SubSeq(t, f + 1, Len(t))
  BY <1>3, <1>5, <1>7, <1>9
<1> QED
  BY <1>8, <1>9, <1>10

\* A long text that can be cut at lines: its beginning, what is left out, its end;
\* nothing crosses where they meet.
LEMMA LongText ==
  ASSUME ArtifactsAssumption, NEW t \in Seq(Cell), Len(t) > MaxLen, CutAtLines(t)
  PROVE  \E h, mid, tl \in Seq(Cell) :
           /\ t = h \o (mid \o tl) /\ Closed(h) /\ Closed(mid)
           /\ ElideMiddle(t) = h \o (<<Elision>> \o tl)
<1> DEFINE m == Len(t)
           d == m - (MaxLen - HeadLen)
           hd == HeadOf(t)
           tail == TailOf(t)
<1>1. /\ m \in Nat /\ MaxLen \in Nat /\ HeadLen \in Nat /\ HeadLen >= 1 /\ HeadLen < MaxLen /\ m > MaxLen
      /\ d \in Nat /\ d > HeadLen /\ d + 1 \in Int /\ \A i \in 1 .. m : t[i] \in Cell
  BY DEF ArtifactsAssumption
<1>2. hd \in Seq(Cell) /\ Len(hd) = HeadLen /\ \A i \in 1 .. HeadLen : hd[i] = t[i]
  BY <1>1, SubSeqProperties DEF HeadOf
<1>3. tail \in Seq(Cell) /\ Len(tail) = MaxLen - HeadLen
  <2>1. (\A i \in d + 1 .. m : t[i] \in Cell) /\ d + 1 <= m /\ m - (d + 1) + 1 = MaxLen - HeadLen
    BY <1>1
  <2>2. tail = SubSeq(t, d + 1, m)
    BY DEF TailOf
  <2> HIDE DEF d
  <2> QED
    BY <1>1, <2>1, <2>2, SubSeqProperties
<1>4. \A i \in 1 .. MaxLen - HeadLen : tail[i] = t[d + i] /\ d + i \in 1 .. m
  <2>1. (\A i \in d + 1 .. m : t[i] \in Cell) /\ m - (d + 1) + 1 = MaxLen - HeadLen
    BY <1>1
  <2>2. tail = SubSeq(t, d + 1, m)
    BY DEF TailOf
  <2>3. \A i \in 1 .. MaxLen - HeadLen : (d + 1) + i - 1 = d + i /\ d + i \in 1 .. m
    BY <1>1
  <2> HIDE DEF d, tail
  <2>4. \A i \in 1 .. m - (d + 1) + 1 : tail[i] = t[(d + 1) + i - 1]
    BY <1>1, <2>1, <2>2, SubSeqProperties
  <2> QED
    BY <2>1, <2>3, <2>4
<1>5. PICK i \in 2 .. HeadLen : hd[i] = NewLine /\ CutHead(hd) = SubSeq(hd, 1, i)
  BY <1>2, HeadCutAtLine DEF CutAtLines
<1>6. PICK p \in 1 .. MaxLen - HeadLen - 1 : tail[p] = NewLine /\ CutTail(tail) = SubSeq(tail, p + 1, Len(tail))
  BY <1>3, TailCutAtLine DEF CutAtLines
<1>7. ElideMiddle(t) = CutHead(hd) \o <<Elision>> \o CutTail(tail)
  BY <1>1 DEF ElideMiddle
<1> DEFINE q == d + p
           h == SubSeq(t, 1, i)
           mid == SubSeq(t, i + 1, q)
           tl == SubSeq(t, q + 1, m)
<1>8. CutHead(hd) = h
  <2>1. 1 \in 1 .. m /\ HeadLen \in 1 .. m /\ 1 \in 1 .. HeadLen - 1 + 1 /\ i \in 1 .. HeadLen - 1 + 1
        /\ 1 + 1 - 1 = 1 /\ 1 + i - 1 = i
    BY <1>1
  <2>2. SubSeq(SubSeq(t, 1, HeadLen), 1, i) = SubSeq(t, 1 + 1 - 1, 1 + i - 1)
    BY <2>1, SubSeqOfSubSeq
  <2> QED
    BY <1>5, <2>1, <2>2 DEF HeadOf
<1>9. CutTail(tail) = tl
  <2>1. /\ d + 1 \in 1 .. m /\ m \in 1 .. m /\ p + 1 \in 1 .. m - (d + 1) + 1
        /\ MaxLen - HeadLen \in 1 .. m - (d + 1) + 1
        /\ (d + 1) + (p + 1) - 1 = q + 1 /\ (d + 1) + (MaxLen - HeadLen) - 1 = m
    BY <1>1
  <2>2. tail = SubSeq(t, d + 1, m)
    BY DEF TailOf
  <2> DEFINE lo == d + 1
             from == p + 1
             to == MaxLen - HeadLen
  <2>3. lo \in 1 .. m /\ m \in 1 .. m /\ from \in 1 .. m - lo + 1 /\ to \in 1 .. m - lo + 1
        /\ lo + from - 1 = q + 1 /\ lo + to - 1 = m
    BY <2>1
  <2>4. tail = SubSeq(t, lo, m) /\ CutTail(tail) = SubSeq(tail, from, to)
    BY <1>3, <1>6, <2>2
  <2> HIDE DEF d, q, tail, lo, from, to
  <2>5. SubSeq(SubSeq(t, lo, m), from, to) = SubSeq(t, lo + from - 1, lo + to - 1)
    BY <2>3, SubSeqOfSubSeq
  <2> QED
    BY <2>3, <2>4, <2>5
<1>10. i \in 1 .. m /\ q \in i + 1 .. m - 1 /\ t[i] = NewLine /\ t[q] = NewLine
  <2>1. i \in 1 .. HeadLen /\ p \in 1 .. MaxLen - HeadLen
    BY <1>1
  <2>2. t[i] = NewLine
    BY <1>2, <1>5, <2>1
  <2>3. t[q] = NewLine
    BY <1>4, <1>6, <2>1
  <2>4. i \in 1 .. m /\ q \in i + 1 .. m - 1
    BY <1>1
  <2> QED
    BY <2>2, <2>3, <2>4
<1> HIDE DEF q, d, hd, tail
<1>11. h \in Seq(Cell) /\ Len(h) = i /\ h[i] = t[i]
  <2>1. \A j \in 1 .. i : t[j] \in Cell
    BY <1>1, <1>10
  <2> QED
    BY <1>10, <2>1, SubSeqProperties
<1>12. mid \in Seq(Cell) /\ Len(mid) = q - i /\ mid[q - i] = t[q]
  <2>1. (\A j \in i + 1 .. q : t[j] \in Cell) /\ q - (i + 1) + 1 = q - i /\ (i + 1) + (q - i) - 1 = q
    BY <1>1, <1>10
  <2>2. q - i \in 1 .. q - i /\ i + 1 <= q /\ i + 1 \in Int /\ q \in Int
    BY <1>1, <1>10
  <2>3. mid \in Seq(Cell) /\ Len(mid) = q - (i + 1) + 1
        /\ \A j \in 1 .. q - (i + 1) + 1 : mid[j] = t[(i + 1) + j - 1]
    BY <2>1, <2>2, SubSeqProperties
  <2> QED
    BY <2>1, <2>2, <2>3
<1>13. tl \in Seq(Cell)
  <2>1. (\A j \in q + 1 .. m : t[j] \in Cell) /\ q + 1 \in Int /\ m \in Int
    BY <1>1, <1>10
  <2> QED
    BY <2>1, SubSeqProperties
<1>14. t = h \o (mid \o tl)
  <2>1. /\ i + 1 \in 1 .. m + 1 /\ q \in (i + 1) - 1 .. m /\ m \in q .. m
        /\ 1 \in 1 .. m + 1 /\ i \in 1 - 1 .. m /\ m \in i .. m
    BY <1>1, <1>10
  <2>2. mid \o tl = SubSeq(t, i + 1, m)
    BY <2>1, ConcatAdjacentSubSeq
  <2>3. h \o SubSeq(t, i + 1, m) = SubSeq(t, 1, m)
    BY <2>1, ConcatAdjacentSubSeq
  <2> QED
    BY <2>2, <2>3, SubSeqFull
<1> HIDE DEF h, mid, tl
<1>15. Closed(h) /\ Closed(mid)
  BY <1>10, <1>11, <1>12 DEF Closed
<1>16. ElideMiddle(t) = h \o (<<Elision>> \o tl)
  <2> DEFINE el == <<Elision>>
  <2>1. el \in Seq(Cell)
    BY DEF Cell
  <2>2. ElideMiddle(t) = (h \o el) \o tl
    BY <1>7, <1>8, <1>9
  <2> HIDE DEF el
  <2>3. h \in Seq(Cell) /\ tl \in Seq(Cell)
    BY <1>11, <1>13
  <2>4. \A x, y, z \in Seq(Cell) : (x \o y) \o z = x \o (y \o z)
    BY ConcatAssociative
  <2>5. (h \o el) \o tl = h \o (el \o tl)
    BY <2>1, <2>3, <2>4
  <2> QED
    BY <2>2, <2>5 DEF el
<1> QED
  BY <1>11, <1>12, <1>13, <1>14, <1>15, <1>16

LEMMA Regrouped ==
  \A x, y, z \in Seq(Cell) : (x \o y) \o z = x \o (y \o z)
BY ConcatAssociative

\* A stretch of a text.
LEMMA Stretch ==
  ASSUME NEW s \in Seq(Cell), NEW k \in 1 .. Len(s) + 1, NEW n \in k - 1 .. Len(s)
  PROVE  /\ SubSeq(s, k, n) \in Seq(Cell) /\ Len(SubSeq(s, k, n)) = n - k + 1
         /\ \A i \in 1 .. n - k + 1 : SubSeq(s, k, n)[i] = s[k + i - 1]
<1>1. k \in Int /\ n \in Int /\ \A i \in k .. n : s[i] \in Cell
  OBVIOUS
<1>2. (IF k <= n THEN n - k + 1 ELSE 0) = n - k + 1
  OBVIOUS
<1> QED
  BY <1>1, <1>2, SubSeqProperties

\* s is a, something, and c.
Around(s, a, c) ==
  \E i, j \in 0 .. Len(s) : i <= j /\ SubSeq(s, 1, i) = a /\ SubSeq(s, j + 1, Len(s)) = c

\* The marker of a cut is in no secret and holds none.
LEMMA ElisionStays ==
  ASSUME ArtifactsAssumption, NEW red \in Seq(Value)
  PROVE  <<Elision>> \in Seq(Cell) /\ Closed(<<Elision>>) /\ Redact(<<Elision>>, red) = <<Elision>>
<1>1. PICK el : el = <<Elision>>
  OBVIOUS
<1>2. el \in Seq(Cell) /\ Len(el) = 1 /\ el[1] = Elision
  BY <1>1 DEF Cell
<1>3. Closed(el)
  BY <1>2 DEF Closed
<1>4. \A v \in Value : ~Occurs(v, el)
  <2> SUFFICES ASSUME NEW v \in Value, NEW i \in 1 .. 1, OccursAt(v, el, i) PROVE FALSE
    BY <1>2 DEF Occurs
  <2>1. 1 \in 1 .. Len(v) /\ i + 1 - 1 = 1
    BY DEF Value
  <2>2. el[1] = v[1]
    BY <2>1 DEF OccursAt
  <2> QED
    BY <1>2, <2>1, <2>2, Letters
<1>5. \A k \in 1 .. Len(red) : red[k] \in Value
  OBVIOUS
<1>6. Redact(el, red) = el
  BY <1>2, <1>4, <1>5, RedactUnchanged
<1> QED
  BY <1>1, <1>2, <1>3, <1>6

\* What stays when the middle of a redacted text is taken out.
LEMMA WithoutMiddle ==
  ASSUME NEW a \in Seq(Cell), NEW b \in Seq(Cell), NEW c \in Seq(Cell), NEW s, s = a \o (b \o c)
  PROVE  Around(s, a, c)
<1> DEFINE i == Len(a)
           j == Len(a) + Len(b)
           m == Len(s)
<1>1. Len(a) \in Nat /\ Len(b) \in Nat /\ Len(c) \in Nat /\ b \o c \in Seq(Cell) /\ Len(b \o c) = Len(b) + Len(c)
  BY ConcatProperties
<1>2. s \in Seq(Cell) /\ m = i + (Len(b) + Len(c))
  BY <1>1, ConcatProperties
<1>3. \A n \in 1 .. i : s[n] = a[n]
  <2>1. \A n \in 1 .. i : n \in 1 .. Len(a) + Len(b \o c) /\ n <= Len(a)
    BY <1>1
  <2> QED
    BY <1>1, <2>1, ConcatProperties
<1>4. \A n \in 1 .. Len(c) : s[j + n] = c[n]
  <2> SUFFICES ASSUME NEW n \in 1 .. Len(c) PROVE s[j + n] = c[n]
    OBVIOUS
  <2>1. j + n \in 1 .. Len(a) + Len(b \o c) /\ ~(j + n <= Len(a)) /\ (j + n) - Len(a) = Len(b) + n
    BY <1>1
  <2>2. s[j + n] = (b \o c)[Len(b) + n]
    BY <1>1, <2>1, ConcatProperties
  <2>3. Len(b) + n \in 1 .. Len(b) + Len(c) /\ ~(Len(b) + n <= Len(b)) /\ (Len(b) + n) - Len(b) = n
    BY <1>1
  <2> QED
    BY <2>2, <2>3, ConcatProperties
<1>5. i \in 0 .. m /\ j \in 0 .. m /\ i <= j /\ m - j = Len(c)
  BY <1>1, <1>2
<1>6. SubSeq(s, 1, i) = a
  <2> DEFINE x == SubSeq(s, 1, i)
  <2>1. \A n \in 1 .. i : n \in 1 .. m /\ s[n] \in Cell /\ 1 + n - 1 = n
    BY <1>1, <1>2, <1>5
  <2>2. x \in Seq(Cell) /\ Len(x) = Len(a) /\ \A n \in 1 .. i : x[n] = s[n]
    BY <1>1, <2>1, SubSeqProperties
  <2> HIDE DEF x
  <2>3. x = a
    BY <1>3, <2>2, SeqEqual
  <2> QED
    BY <2>3 DEF x
<1>7. SubSeq(s, j + 1, m) = c
  <2> DEFINE x == SubSeq(s, j + 1, m)
             k == j + 1
  <2>1. /\ k \in 1 .. m + 1 /\ m \in k - 1 .. m /\ m - k + 1 = Len(c)
        /\ \A n \in 1 .. Len(c) : k + n - 1 = j + n
    BY <1>1, <1>2, <1>5
  <2>2. x = SubSeq(s, k, m)
    OBVIOUS
  <2> HIDE DEF x, k, j
  <2>3. x \in Seq(Cell) /\ Len(x) = Len(c) /\ \A n \in 1 .. Len(c) : x[n] = s[k + n - 1]
    BY <1>2, <2>1, <2>2, Stretch
  <2>4. \A n \in 1 .. Len(c) : x[n] = c[n]
    BY <1>4, <2>1, <2>3
  <2>5. x = c
    BY <2>3, <2>4, SeqEqual
  <2> QED
    BY <2>5 DEF x
<1> HIDE DEF i, j
<1> QED
  BY <1>5, <1>6, <1>7 DEF Around

\* A beginning and an end of s with the elision between them.
LEMMA Rejoined ==
  ASSUME NEW a \in Seq(Cell), NEW c \in Seq(Cell), NEW s, Around(s, a, c),
         NEW kept, kept = a \o (<<Elision>> \o c), <<Elision>> \in Seq(Cell)
  PROVE  WithoutStretch(s, kept)
<1> DEFINE el == <<Elision>>
<1>1. PICK i, j \in 0 .. Len(s) : i <= j /\ SubSeq(s, 1, i) = a /\ SubSeq(s, j + 1, Len(s)) = c
  BY DEF Around
<1>2. el \in Seq(Cell) /\ kept = a \o (el \o c)
  OBVIOUS
<1> HIDE DEF el
<1>3. kept = (a \o el) \o c
  BY <1>2, Regrouped
<1>4. kept = SubSeq(s, 1, i) \o el \o SubSeq(s, j + 1, Len(s))
  BY <1>1, <1>3
<1> QED
  BY <1>1, <1>4 DEF WithoutStretch, el

\* The redactor holds every secret that is not empty, and nothing else.
LEMMA RedactorHolds ==
  ASSUME NEW V \in SUBSET Seq(Char \ {NewLine}), IsFiniteSet(V), NEW red \in NewRedactor(V)
  PROVE  red \in Seq(Value) /\ \A v \in V \ {<< >>} : \E k \in 1 .. Len(red) : red[k] = v
<1> DEFINE vs == V \ {<< >>}
           m == Cardinality(vs)
<1>1. m \in Nat
  <2>1. IsFiniteSet(vs)
    BY FS_Subset
  <2> QED
    BY <2>1, FS_CardinalityType
<1>2. vs \subseteq Value
  BY DEF Value
<1>3. red \in [1 .. m -> vs] /\ \A v \in vs : \E i \in DOMAIN red : red[i] = v
  BY DEF NewRedactor
<1> HIDE DEF vs, m
<1>4. red \in [1 .. m -> Value]
  BY <1>2, <1>3
<1>5. red \in Seq(Value) /\ Len(red) = m /\ DOMAIN red = 1 .. m
  BY <1>1, <1>4
<1> QED
  BY <1>3, <1>5 DEF vs

\* A secret that was left would be one that is taken out.
LEMMA RedactionOfText ==
  ASSUME ArtifactsAssumption, input \in TextInput
  PROVE  RedactionHolds
<1>1. SUFFICES ASSUME NEW red \in NewRedactor(input.values)
      PROVE  LET text == input.text
                 out  == Redact(text, red)
                 kept == WriteTranscript(text, red)
             IN /\ \A v \in input.values \ {<< >>} : ~Occurs(v, out)
                /\ ScanKeys(input.values, text) = {} <=> out = text
                /\ Len(text) <= MaxLen => kept = out
                /\ Len(text) > MaxLen /\ CutAtLines(text) => WithoutStretch(out, kept)
  BY DEF RedactionHolds
<1> DEFINE V == input.values
           t == input.text
           out == Redact(t, red)
           kept == WriteTranscript(t, red)
<1>2. V \in SUBSET Seq(Char \ {NewLine}) /\ IsFiniteSet(V) /\ t \in Seq(Char)
  BY DEF TextInput
<1>3. t \in Seq(Cell) /\ V \ {<< >>} \subseteq Value
  <2>1. Char \subseteq Cell
    BY DEF Cell
  <2> QED
    BY <1>2, <2>1, SeqMonotonic DEF Value
<1> HIDE DEF V, t
<1>4. red \in Seq(Value) /\ \A v \in V \ {<< >>} : \E k \in 1 .. Len(red) : red[k] = v
  BY <1>1, <1>2, RedactorHolds DEF V
<1>5. \A k \in 1 .. Len(red) : red[k] \in V \ {<< >>}
  <2>1. DOMAIN red = 1 .. Len(red)
    BY <1>4
  <2> QED
    BY <1>1, <2>1 DEF NewRedactor, V
<1>6. out \in Seq(Cell) /\ \A v \in V \ {<< >>} : ~Occurs(v, out)
  BY <1>3, <1>4, RedactLeaves
<1>7. ScanKeys(V, t) = {} <=> out = t
  <2>1. ASSUME ScanKeys(V, t) = {} PROVE out = t
    <3>1. \A k \in 1 .. Len(red) : ~Occurs(red[k], t)
      BY <1>5, <2>1 DEF ScanKeys
    <3> QED
      BY <1>3, <1>4, <3>1, RedactUnchanged
  <2>2. ASSUME out = t PROVE ScanKeys(V, t) = {}
    BY <1>6, <2>2 DEF ScanKeys
  <2> QED
    BY <2>1, <2>2
<1>8. Len(t) <= MaxLen => kept = out
  BY DEF WriteTranscript, ElideMiddle
<1>9. ASSUME Len(t) > MaxLen, CutAtLines(t)
      PROVE  WithoutStretch(out, kept)
  <2>1. PICK h, mid, tl \in Seq(Cell) :
          /\ t = h \o (mid \o tl) /\ Closed(h) /\ Closed(mid)
          /\ ElideMiddle(t) = h \o (<<Elision>> \o tl)
    BY <1>3, <1>9, LongText
  <2> DEFINE a == Redact(h, red)
             b == Redact(mid, red)
             c == Redact(tl, red)
  <2>2. a \in Seq(Cell) /\ b \in Seq(Cell) /\ c \in Seq(Cell)
    BY <1>4, RedactLeaves
  <2>3. \A x, y \in Seq(Cell) : Closed(x) => Redact(x \o y, red) = Redact(x, red) \o Redact(y, red)
    BY <1>4, RedactSplits
  <2>4. out = a \o (b \o c)
    <3>1. mid \o tl \in Seq(Cell)
      BY ConcatProperties
    <3>2. out = a \o Redact(mid \o tl, red)
      BY <2>1, <2>3, <3>1
    <3> QED
      BY <2>1, <2>3, <3>2
  <2> DEFINE el == <<Elision>>
  <2>5. el \in Seq(Cell) /\ Closed(el) /\ Redact(el, red) = el
    BY <1>4, ElisionStays
  <2>6. ElideMiddle(t) = h \o (el \o tl)
    BY <2>1
  <2> HIDE DEF el
  <2>7. kept = a \o (el \o c)
    <3>1. el \o tl \in Seq(Cell)
      BY <2>5, ConcatProperties
    <3>2. kept = a \o Redact(el \o tl, red)
      BY <2>1, <2>6, <2>3, <3>1 DEF WriteTranscript
    <3>3. Redact(el \o tl, red) = el \o c
      BY <2>5, <2>3
    <3> QED
      BY <3>2, <3>3
  <2> HIDE DEF a, b, c, out, kept
  <2>8. Around(out, a, c)
    BY <2>2, <2>4, WithoutMiddle
  <2> QED
    BY <2>2, <2>5, <2>7, <2>8, Rejoined DEF el
<1> QED
  BY <1>6, <1>7, <1>8, <1>9 DEF V, t

\* (RedactionHolds) Whatever the secrets and the text, of any length: no secret is
\* left in what is written; the scan of the patch reports exactly when there is
\* something to take out; and a transcript cut at lines is the redacted file
\* without a stretch.  (NewRedactor, Redact, ScanKeys, writeTranscript.)
THEOREM SecretsAreGone ==
  ASSUME ArtifactsAssumption
  PROVE  Given(TextInput) => []RedactionHolds
<1>1. input \in TextInput => RedactionHolds
  BY RedactionOfText
<1>2. input \in TextInput /\ [FALSE]_input => (input \in TextInput)'
  OBVIOUS
<1> QED
  BY <1>1, <1>2, PTL DEF Given

-----------------------------------------------------------------------------
(* Artifacts: numbers that rise. *)

\* Numbers that rise from one to the next rise throughout.
LEMMA RisesThroughout ==
  ASSUME NEW m \in Nat, NEW M \in Nat, NEW a \in [1 .. m + 1 -> 1 .. M],
         \A i \in 1 .. m : a[i] < a[i + 1]
  PROVE  \A i, j \in 1 .. m + 1 : i < j => a[i] < a[j]
<1> SUFFICES ASSUME NEW i \in 1 .. m + 1 PROVE \A j \in 1 .. m + 1 : i < j => a[i] < a[j]
  OBVIOUS
<1> DEFINE T == {n \in 0 .. m : i < n + 1 => a[i] < a[n + 1]}
<1>1. 0 \in T
  OBVIOUS
<1>2. ASSUME NEW n \in 0 .. m - 1, n \in T PROVE n + 1 \in T
  <2>1. /\ n + 1 \in 1 .. m /\ n + 1 \in 1 .. m + 1 /\ (n + 1) + 1 \in 1 .. m + 1
        /\ n + 1 \in 0 .. m
    OBVIOUS
  <2>2. a[n + 1] < a[(n + 1) + 1] /\ i < n + 1 => a[i] < a[n + 1]
    BY <1>2, <2>1
  <2>3. a[i] \in Nat /\ a[n + 1] \in Nat /\ a[(n + 1) + 1] \in Nat
    BY <2>1
  <2>4. i < (n + 1) + 1 => i = n + 1 \/ i < n + 1
    OBVIOUS
  <2>5. i < (n + 1) + 1 => a[i] < a[(n + 1) + 1]
    BY <1>2, <2>1, <2>2, <2>3, <2>4
  <2> QED
    BY <2>1, <2>5
<1> HIDE DEF T
<1>3. 0 .. m \subseteq T
  BY <1>1, <1>2, SetInduction
<1>4. \A j \in 1 .. m + 1 : j - 1 \in T /\ (j - 1) + 1 = j
  BY <1>3
<1> QED
  BY <1>4 DEF T

\* Between the first and the last number every p has its place.
LEMMA PlaceOf ==
  ASSUME NEW m \in Nat, NEW M \in Nat, NEW a \in [1 .. m + 1 -> 1 .. M + 1],
         a[1] = 1, a[m + 1] = M + 1, NEW p \in 1 .. M
  PROVE  \E i \in 1 .. m : a[i] <= p /\ p < a[i + 1]
<1> DEFINE E == {i \in 1 .. m + 1 : a[i] <= p}
<1>1. 1 \in E /\ E \subseteq 0 .. m + 1 /\ m + 1 \in Nat
  OBVIOUS
<1>2. PICK i \in E : \A y \in E : y <= i
  BY <1>1, Extremes
<1>3. i \in 1 .. m + 1 /\ a[i] <= p
  OBVIOUS
<1>4. i # m + 1
  BY <1>3
<1>5. i \in 1 .. m /\ i + 1 \in 1 .. m + 1 /\ i + 1 > i
  BY <1>3, <1>4
<1>6. ~(a[i + 1] <= p)
  BY <1>2, <1>5
<1>7. a[i + 1] \in Nat
  BY <1>5
<1> QED
  BY <1>3, <1>5, <1>6, <1>7

\* Of rising numbers the i-th has the rank i.
LEMMA RankOfRising ==
  ASSUME NEW m \in Nat, NEW a, \A i \in 1 .. m : a[i] \in Nat,
         \A i, j \in 1 .. m : i < j => a[i] < a[j]
  PROVE  /\ Cardinality({a[i] : i \in 1 .. m}) = m
         /\ \A i \in 1 .. m : Rank({a[j] : j \in 1 .. m}, a[i]) = i
<1>1. ASSUME NEW n \in 0 .. m PROVE Cardinality({a[i] : i \in 1 .. n}) = n
  <2> DEFINE S == {a[i] : i \in 1 .. n}
             f == [i \in 1 .. n |-> a[i]]
  <2>1. n \in Nat /\ \A i \in 1 .. n : i \in 1 .. m
    OBVIOUS
  <2>2. \A i, j \in 1 .. n : a[i] = a[j] => i = j
    <3> SUFFICES ASSUME NEW i \in 1 .. n, NEW j \in 1 .. n, i # j PROVE a[i] # a[j]
      OBVIOUS
    <3>1. i < j \/ j < i
      OBVIOUS
    <3>2. a[i] < a[j] \/ a[j] < a[i]
      BY <2>1, <3>1
    <3>3. a[i] \in Nat /\ a[j] \in Nat
      BY <2>1
    <3> QED
      BY <3>2, <3>3
  <2>3. f \in Bijection(1 .. n, S)
    BY <2>2 DEF Bijection, Injection, Surjection, IsInjective
  <2>4. ExistsBijection(1 .. n, S)
    BY <2>3 DEF ExistsBijection
  <2>5. IsFiniteSet(1 .. n) /\ Cardinality(1 .. n) = n
    BY <2>1, FS_Interval
  <2> HIDE DEF S
  <2>6. Cardinality(S) = n
    BY <2>4, <2>5, FS_Bijection
  <2> QED
    BY <2>6 DEF S
<1>2. ASSUME NEW i \in 1 .. m PROVE Rank({a[j] : j \in 1 .. m}, a[i]) = i
  <2>1. ASSUME NEW j \in 1 .. m PROVE a[j] <= a[i] <=> j <= i
    <3>1. a[i] \in Nat /\ a[j] \in Nat
      OBVIOUS
    <3>2. j < i => a[j] < a[i]
      OBVIOUS
    <3>3. i < j => a[i] < a[j]
      OBVIOUS
    <3>4. j < i \/ j = i \/ i < j
      OBVIOUS
    <3> QED
      BY <3>1, <3>2, <3>3, <3>4
  <2>2. i \in 0 .. m /\ \A j : j \in 1 .. i <=> j \in 1 .. m /\ j <= i
    OBVIOUS
  <2>3. {x \in {a[j] : j \in 1 .. m} : x <= a[i]} = {a[j] : j \in 1 .. i}
    BY <2>1, <2>2
  <2> QED
    BY <1>1, <2>2, <2>3 DEF Rank
<1>3. m \in 0 .. m
  OBVIOUS
<1> QED
  BY <1>1, <1>2, <1>3

-----------------------------------------------------------------------------
(* Artifacts: what is left of a text, cell by cell. *)

\* A cell that a pass writes, and the places p .. q - 1 it is written for: a character
\* copied from where no v begins, or the marker of an occurrence.
WrittenFor(c, t, v, p, q) ==
  \/ q = p + 1 /\ c = t[p] /\ ~OccursAt(v, t, p)
  \/ q = p + Len(v) /\ c = Marker /\ OccursAt(v, t, p)

\* out is written for the first e - 1 places of t, cell by cell: cell i for b[i] .. b[i + 1] - 1.
Cells(out, t, v, b, e) ==
  /\ b \in [1 .. Len(out) + 1 -> 1 .. Len(t) + 1]
  /\ b[1] = 1 /\ b[Len(out) + 1] = e
  /\ \A i \in 1 .. Len(out) : WrittenFor(out[i], t, v, b[i], b[i + 1])

LEMMA CellsAppended ==
  ASSUME NEW t \in Seq(Cell), NEW v \in Value, NEW out \in Seq(Cell), NEW c \in Cell,
         NEW e \in 1 .. Len(t) + 1, NEW d \in 1 .. Len(t) + 1,
         \E b : Cells(out, t, v, b, e), WrittenFor(c, t, v, e, d)
  PROVE  \E b : Cells(Append(out, c), t, v, b, d)
<1> DEFINE m == Len(out)
           o == Append(out, c)
<1>1. PICK b : Cells(out, t, v, b, e)
  OBVIOUS
<1>2. m \in Nat /\ Len(o) = m + 1 /\ o[m + 1] = c /\ \A i \in 1 .. m : o[i] = out[i]
  BY Appended
<1>3. /\ b \in [1 .. m + 1 -> 1 .. Len(t) + 1] /\ b[1] = 1 /\ b[m + 1] = e
      /\ \A i \in 1 .. m : WrittenFor(out[i], t, v, b[i], b[i + 1])
  BY <1>1 DEF Cells
<1> DEFINE g == [i \in 1 .. (m + 1) + 1 |-> IF i = (m + 1) + 1 THEN d ELSE b[i]]
<1> HIDE DEF o, m
<1>4. /\ g \in [1 .. (m + 1) + 1 -> 1 .. Len(t) + 1] /\ g[(m + 1) + 1] = d
      /\ \A i \in 1 .. m + 1 : g[i] = b[i]
  BY <1>2, <1>3
<1> HIDE DEF g
<1>5. g[1] = 1 /\ g[m + 1] = e
  BY <1>2, <1>3, <1>4
<1>6. ASSUME NEW i \in 1 .. m + 1 PROVE WrittenFor(o[i], t, v, g[i], g[i + 1])
  <2>1. CASE i = m + 1
    BY <1>2, <1>4, <1>5, <2>1
  <2>2. CASE i \in 1 .. m
    <3>1. i + 1 \in 1 .. m + 1
      BY <1>2, <2>2
    <3>2. o[i] = out[i] /\ g[i] = b[i] /\ g[i + 1] = b[i + 1]
      BY <1>2, <1>4, <2>2, <3>1
    <3> QED
      BY <1>3, <2>2, <3>2
  <2> QED
    BY <1>2, <2>1, <2>2
<1>7. Cells(o, t, v, g, d)
  BY <1>2, <1>4, <1>5, <1>6 DEF Cells
<1> QED
  BY <1>7 DEF o

\* The pass after n characters.
PassCells(st, t, v, n) ==
  /\ st \in Pass /\ n + st.skip <= Len(t)
  /\ \E b : Cells(st.out, t, v, b, n + st.skip + 1)

LEMMA PassCellsStep ==
  ASSUME ArtifactsAssumption, NEW t \in Seq(Cell), NEW v \in Value, NEW n \in 0 .. Len(t) - 1,
         NEW st, PassCells(st, t, v, n)
  PROVE  PassCells(ReplaceChar(st, t, v, n + 1), t, v, n + 1)
<1>1. PICK out \in Seq(Cell), skip \in Nat : st = [out |-> out, skip |-> skip]
  BY DEF PassCells, Pass
<1>2. /\ n + skip <= Len(t) /\ n \in Nat /\ Len(t) \in Nat /\ n + 1 <= Len(t)
      /\ \E b : Cells(out, t, v, b, n + skip + 1)
  BY <1>1 DEF PassCells
<1>3. Marker \in Cell /\ t[n + 1] \in Cell /\ Len(v) \in Nat /\ Len(v) - 1 \in Nat
  BY DEF Cell, Value
<1>4. ASSUME NEW o \in Seq(Cell), NEW k \in Nat, (n + 1) + k <= Len(t),
             \E b : Cells(o, t, v, b, (n + 1) + k + 1)
      PROVE  PassCells([out |-> o, skip |-> k], t, v, n + 1)
  <2> DEFINE s == [out |-> o, skip |-> k]
  <2>1. s \in Pass /\ s.out = o /\ s.skip = k
    BY DEF Pass
  <2> HIDE DEF s
  <2>2. PassCells(s, t, v, n + 1)
    BY <1>4, <2>1 DEF PassCells
  <2> QED
    BY <2>2 DEF s
<1>5. CASE skip > 0
  <2>1. ReplaceChar(st, t, v, n + 1) = [out |-> out, skip |-> skip - 1] /\ skip - 1 \in Nat
    BY <1>1, <1>5 DEF ReplaceChar
  <2>2. (n + 1) + (skip - 1) = n + skip /\ (n + 1) + (skip - 1) + 1 = n + skip + 1
    BY <1>2
  <2> QED
    BY <1>2, <1>4, <2>1, <2>2
<1>6. CASE ~(skip > 0) /\ OccursAt(v, t, n + 1)
  <2>1. ReplaceChar(st, t, v, n + 1) = [out |-> Append(out, Marker), skip |-> Len(v) - 1]
    BY <1>1, <1>6 DEF ReplaceChar
  <2>2. (n + 1) + Len(v) - 1 <= Len(t)
    BY <1>6 DEF OccursAt
  <2>3. /\ (n + 1) + (Len(v) - 1) <= Len(t) /\ (n + 1) + (Len(v) - 1) + 1 = (n + 1) + Len(v)
        /\ (n + 1) + Len(v) \in 1 .. Len(t) + 1 /\ n + 1 \in 1 .. Len(t) + 1 /\ n + skip + 1 = n + 1
    BY <1>2, <1>3, <1>6, <2>2
  <2>4. WrittenFor(Marker, t, v, n + 1, (n + 1) + Len(v))
    BY <1>6 DEF WrittenFor
  <2>5. PICK o : o = Append(out, Marker)
    OBVIOUS
  <2>6. \E b : Cells(o, t, v, b, (n + 1) + Len(v))
    BY <1>2, <1>3, <2>3, <2>4, <2>5, CellsAppended
  <2>7. o \in Seq(Cell)
    BY <1>3, <2>5
  <2>8. ReplaceChar(st, t, v, n + 1) = [out |-> o, skip |-> Len(v) - 1]
    BY <2>1, <2>5
  <2> QED
    BY <1>3, <1>4, <2>3, <2>6, <2>7, <2>8
<1>7. CASE ~(skip > 0) /\ ~OccursAt(v, t, n + 1)
  <2>1. ReplaceChar(st, t, v, n + 1) = [out |-> Append(out, t[n + 1]), skip |-> skip]
    BY <1>1, <1>7 DEF ReplaceChar
  <2>2. /\ (n + 1) + 1 \in 1 .. Len(t) + 1 /\ n + 1 \in 1 .. Len(t) + 1 /\ n + skip + 1 = n + 1
        /\ (n + 1) + skip + 1 = (n + 1) + 1 /\ (n + 1) + skip <= Len(t)
    BY <1>2, <1>7
  <2>3. WrittenFor(t[n + 1], t, v, n + 1, (n + 1) + 1)
    BY <1>7 DEF WrittenFor
  <2>4. PICK o : o = Append(out, t[n + 1])
    OBVIOUS
  <2>5. \E b : Cells(o, t, v, b, (n + 1) + 1)
    BY <1>2, <1>3, <2>2, <2>3, <2>4, CellsAppended
  <2>6. o \in Seq(Cell)
    BY <1>3, <2>4
  <2>7. ReplaceChar(st, t, v, n + 1) = [out |-> o, skip |-> skip]
    BY <2>1, <2>4
  <2> QED
    BY <1>2, <1>4, <1>7, <2>2, <2>5, <2>6, <2>7
<1> QED
  BY <1>5, <1>6, <1>7

\* What one value taken out leaves, cell by cell.
LEMMA ReplaceValueCells ==
  ASSUME ArtifactsAssumption, NEW t \in Seq(Cell), NEW v \in Value
  PROVE  \E b : Cells(ReplaceValue(t, v), t, v, b, Len(t) + 1)
<1> DEFINE r == Replacing(t, v)
           T == {n \in 0 .. Len(t) : PassCells(r[n], t, v, n)}
<1>1. Len(t) \in Nat
  OBVIOUS
<1>2. 0 \in T
  <2>1. r[0] = [out |-> << >>, skip |-> 0]
    BY ReplacingUnfolds
  <2>2. PICK e : e = << >>
    OBVIOUS
  <2>3. e \in Seq(Cell) /\ Len(e) = 0 /\ r[0] = [out |-> e, skip |-> 0]
    BY <2>1, <2>2
  <2> HIDE DEF r
  <2>4. Cells(e, t, v, [i \in 1 .. 1 |-> 1], 1)
    BY <1>1, <2>3 DEF Cells
  <2>5. PassCells(r[0], t, v, 0)
    BY <1>1, <2>3, <2>4 DEF PassCells, Pass
  <2> QED
    BY <1>1, <2>5
<1>3. ASSUME NEW n \in 0 .. Len(t) - 1, n \in T PROVE n + 1 \in T
  <2>1. n + 1 \in 1 .. Len(t) /\ (n + 1) - 1 = n
    BY <1>1
  <2>2. r[n + 1] = ReplaceChar(r[n], t, v, n + 1)
    BY <2>1, ReplacingUnfolds
  <2> HIDE DEF r
  <2> QED
    BY <1>3, <2>1, <2>2, PassCellsStep
<1> HIDE DEF T
<1>4. 0 .. Len(t) \subseteq T
  BY <1>1, <1>2, <1>3, SetInduction
<1>5. PassCells(r[Len(t)], t, v, Len(t))
  BY <1>1, <1>4 DEF T
<1>6. r[Len(t)].skip \in Nat /\ Len(t) + r[Len(t)].skip <= Len(t)
  BY <1>5 DEF PassCells, Pass
<1>7. r[Len(t)].skip = 0 /\ Len(t) + 0 + 1 = Len(t) + 1
  <2> HIDE DEF r
  <2> QED
    BY <1>1, <1>6
<1> QED
  BY <1>5, <1>7 DEF PassCells, ReplaceValue

-----------------------------------------------------------------------------
(* Artifacts: the characters of a text, pass by pass. *)

\* t is text with markers for occurrences of W: cell i of t stands for the places
\* a[i] .. a[i + 1] - 1 of text.
Frame(t, text, a) ==
  /\ a \in [1 .. Len(t) + 1 -> 1 .. Len(text) + 1]
  /\ a[1] = 1 /\ a[Len(t) + 1] = Len(text) + 1
  /\ \A i \in 1 .. Len(t) : a[i] < a[i + 1]

\* A character stands for itself.
Copied(t, text, a) ==
  \A i \in 1 .. Len(t) : t[i] # Marker => a[i + 1] = a[i] + 1 /\ t[i] = text[a[i]]

\* A marker stands for a whole occurrence.
Marked(t, text, W, a) ==
  \A i \in 1 .. Len(t) : t[i] = Marker =>
    \E w \in W : OccursAt(w, text, a[i]) /\ a[i + 1] = a[i] + Len(w)

\* A marker stands for what the places p .. q - 1 of text are a part of.
Hides(t, a, p, q) == \E i \in 1 .. Len(t) : t[i] = Marker /\ a[i] <= p /\ q <= a[i + 1]

\* No occurrence is left, whole or in part.
Hidden(t, text, W, a) ==
  \A w \in W, p \in 1 .. Len(text) : OccursAt(w, text, p) => Hides(t, a, p, p + Len(w))

StandsFor(t, text, W, a) ==
  Frame(t, text, a) /\ Copied(t, text, a) /\ Marked(t, text, W, a) /\ Hidden(t, text, W, a)

\* Of two occurrences that share characters one is inside the other.
Nested(text, W) ==
  \A v, w \in W : \A i, j \in 1 .. Len(text) :
    OccursAt(v, text, i) /\ OccursAt(w, text, j) /\ i < j /\ j <= i + Len(v) - 1 =>
      j + Len(w) <= i + Len(v)

\* An occurrence in t is one in text.
LEMMA OccurrenceInText ==
  ASSUME ArtifactsAssumption, NEW t \in Seq(Cell), NEW text \in Seq(Char), NEW a,
         Frame(t, text, a), Copied(t, text, a),
         NEW v \in Value, NEW q \in 1 .. Len(t), OccursAt(v, t, q)
  PROVE  OccursAt(v, text, a[q]) /\ q + Len(v) \in 1 .. Len(t) + 1 /\ a[q + Len(v)] = a[q] + Len(v)
<1> DEFINE L == Len(v)
           m == Len(t)
           M == Len(text)
<1>1. L \in Nat \ {0} /\ m \in Nat /\ M \in Nat
  BY DEF Value
<1>2. q + L - 1 <= m /\ \A k \in 1 .. L : t[q + k - 1] = v[k] /\ v[k] # Marker
  BY Letters DEF OccursAt
<1>3. a \in [1 .. m + 1 -> 1 .. M + 1]
  BY DEF Frame
<1> DEFINE T == {k \in 0 .. L : a[q + k] = a[q] + k}
<1> HIDE DEF L, m, M
<1>4. 0 \in T
  BY <1>1, <1>3 DEF m
<1>5. ASSUME NEW k \in 0 .. L - 1 PROVE /\ q + k \in 1 .. m /\ t[q + k] = v[k + 1]
                                        /\ a[(q + k) + 1] = a[q + k] + 1 /\ t[q + k] = text[a[q + k]]
  <2>1. k + 1 \in 1 .. L /\ q + (k + 1) - 1 = q + k /\ q + k \in 1 .. m
    BY <1>1, <1>2 DEF m
  <2>2. t[q + k] = v[k + 1] /\ t[q + k] # Marker
    BY <1>2, <2>1
  <2> QED
    BY <2>1, <2>2 DEF Copied, m
<1>6. ASSUME NEW k \in 0 .. L - 1, k \in T PROVE k + 1 \in T
  <2>1. a[(q + k) + 1] = a[q + k] + 1 /\ a[q + k] = a[q] + k
    BY <1>5, <1>6
  <2>2. a[q] \in Nat
    BY <1>1, <1>3 DEF m
  <2>3. (q + k) + 1 = q + (k + 1) /\ (a[q] + k) + 1 = a[q] + (k + 1) /\ k + 1 \in 0 .. L
    BY <1>1, <2>2
  <2> QED
    BY <2>1, <2>3
<1> HIDE DEF T
<1>7. 0 .. L \subseteq T
  BY <1>1, <1>4, <1>6, SetInduction
<1>8. \A k \in 0 .. L : a[q + k] = a[q] + k
  BY <1>7 DEF T
<1>9. L \in 0 .. L /\ q + L \in 1 .. m + 1 /\ a[q] \in Nat
  BY <1>1, <1>2, <1>3 DEF m
<1>10. a[q + L] = a[q] + L /\ a[q + L] \in 1 .. M + 1
  BY <1>3, <1>8, <1>9
<1>11. a[q] + L - 1 <= M
  BY <1>1, <1>9, <1>10
<1>12. ASSUME NEW k \in 1 .. L PROVE text[a[q] + k - 1] = v[k]
  <2>1. k - 1 \in 0 .. L - 1 /\ k - 1 \in 0 .. L /\ (k - 1) + 1 = k /\ a[q] + (k - 1) = a[q] + k - 1
    BY <1>1, <1>9
  <2>2. a[q + (k - 1)] = a[q] + (k - 1)
    BY <1>8, <2>1
  <2>3. t[q + (k - 1)] = v[(k - 1) + 1] /\ t[q + (k - 1)] = text[a[q + (k - 1)]]
    BY <1>5, <2>1
  <2> QED
    BY <2>1, <2>2, <2>3
<1>13. OccursAt(v, text, a[q])
  BY <1>11, <1>12 DEF OccursAt, L, M
<1> QED
  BY <1>9, <1>10, <1>13 DEF L, m

\* An occurrence in text whose first character is still there is one in t, when all
\* that was taken out is at least as long.
LEMMA OccurrenceIsLeft ==
  ASSUME ArtifactsAssumption, NEW t \in Seq(Cell), NEW text \in Seq(Char), NEW a,
         NEW W \in SUBSET Value, NEW v \in Value,
         Frame(t, text, a), Copied(t, text, a), Marked(t, text, W, a),
         Nested(text, W \cup {v}), \A w \in W : Len(w) >= Len(v),
         NEW i \in 1 .. Len(t), t[i] # Marker, OccursAt(v, text, a[i])
  PROVE  OccursAt(v, t, i)
<1> DEFINE L == Len(v)
           m == Len(t)
           M == Len(text)
           p == a[i]
<1>1. L \in Nat \ {0} /\ m \in Nat /\ M \in Nat
  BY DEF Value
<1>2. a \in [1 .. m + 1 -> 1 .. M + 1] /\ a[m + 1] = M + 1
  BY DEF Frame
<1>3. p + L - 1 <= M /\ \A k \in 1 .. L : text[p + k - 1] = v[k]
  BY DEF OccursAt
<1>4. p \in Nat \ {0}
  BY <1>2
<1> DEFINE T == {k \in 0 .. L : i + k \in 1 .. m + 1 /\ a[i + k] = p + k}
<1>5. 0 \in T
  BY <1>1, <1>2
<1> HIDE DEF L, m, M, p
<1>6. ASSUME NEW k \in 0 .. L - 1, i + k \in 1 .. m + 1, a[i + k] = p + k
      PROVE  /\ i + k \in 1 .. m /\ a[(i + k) + 1] = (p + k) + 1 /\ t[i + k] = text[p + k]
  <2>1. p + k <= M
    BY <1>1, <1>3, <1>4
  <2>2. i + k # m + 1
    <3>1. p + k # M + 1
      BY <1>1, <1>4, <2>1
    <3> QED
      BY <1>2, <1>6, <3>1
  <2>3. i + k \in 1 .. m
    BY <1>1, <1>6, <2>2
  <2>4. t[i + k] # Marker
    <3> SUFFICES ASSUME t[i + k] = Marker PROVE FALSE
      OBVIOUS
    <3>1. i + 0 = i
      BY DEF m
    <3>2. k # 0
      BY <3>1
    <3>3. PICK w \in W : OccursAt(w, text, p + k)
      BY <1>6, <2>3 DEF Marked, m
    <3>4. p < p + k /\ p + k <= p + L - 1 /\ p \in 1 .. M /\ p + k \in 1 .. M
      BY <1>1, <1>4, <2>1, <3>2
    <3>5. OccursAt(v, text, p)
      BY DEF p
    <3>6. (p + k) + Len(w) <= p + L
      BY <3>3, <3>4, <3>5 DEF Nested, L, M
    <3>7. Len(w) >= L /\ Len(w) \in Nat
      BY DEF L, Value
    <3> QED
      BY <1>1, <1>4, <3>2, <3>6, <3>7
  <2>5. a[(i + k) + 1] = a[i + k] + 1 /\ t[i + k] = text[a[i + k]]
    BY <2>3, <2>4 DEF Copied, m
  <2> QED
    BY <1>6, <2>3, <2>5
<1>7. ASSUME NEW k \in 0 .. L - 1, k \in T PROVE k + 1 \in T
  <2>1. i + k \in 1 .. m + 1 /\ a[i + k] = p + k
    BY <1>7
  <2>2. i + k \in 1 .. m /\ a[(i + k) + 1] = (p + k) + 1
    BY <1>6, <2>1
  <2>3. (i + k) + 1 = i + (k + 1) /\ (p + k) + 1 = p + (k + 1) /\ k + 1 \in 0 .. L
        /\ (i + k) + 1 \in 1 .. m + 1
    BY <1>1, <1>4, <2>2 DEF m
  <2> QED
    BY <2>2, <2>3
<1> HIDE DEF T
<1>8. 0 .. L \subseteq T
  BY <1>1, <1>5, <1>7, SetInduction
<1>9. \A k \in 0 .. L : i + k \in 1 .. m + 1 /\ a[i + k] = p + k
  BY <1>8 DEF T
<1>10. i + L - 1 <= m
  <2>1. i + L \in 1 .. m + 1 /\ i \in Nat
    BY <1>1, <1>9 DEF m
  <2> QED
    BY <1>1, <2>1
<1>11. ASSUME NEW k \in 1 .. L PROVE t[i + k - 1] = v[k]
  <2>1. k - 1 \in 0 .. L - 1 /\ k - 1 \in 0 .. L /\ i + (k - 1) = i + k - 1 /\ p + (k - 1) = p + k - 1
    BY <1>1, <1>4 DEF m
  <2>2. t[i + (k - 1)] = text[p + (k - 1)]
    BY <1>6, <1>9, <2>1
  <2> QED
    BY <1>3, <2>1, <2>2
<1> QED
  BY <1>10, <1>11 DEF OccursAt, L, m

\* The next pass finds a marker and copies it.
LEMMA MarkerStays ==
  ASSUME ArtifactsAssumption, NEW t \in Seq(Cell), NEW v \in Value, NEW u \in Seq(Cell), NEW b,
         Cells(u, t, v, b, Len(t) + 1), NEW i \in 1 .. Len(t), t[i] = Marker
  PROVE  \E l \in 1 .. Len(u) : u[l] = Marker /\ b[l] = i /\ b[l + 1] = i + 1
<1> DEFINE m == Len(t)
           n == Len(u)
           L == Len(v)
<1>1. m \in Nat /\ n \in Nat /\ L \in Nat
  BY DEF Value
<1>2. /\ b \in [1 .. n + 1 -> 1 .. m + 1] /\ b[1] = 1 /\ b[n + 1] = m + 1
      /\ \A l \in 1 .. n : WrittenFor(u[l], t, v, b[l], b[l + 1])
  BY DEF Cells
<1> HIDE DEF m, n
<1>3. PICK l \in 1 .. n : b[l] <= i /\ i < b[l + 1]
  BY <1>1, <1>2, PlaceOf DEF m
<1>4. b[l] \in Nat /\ b[l + 1] \in Nat /\ i \in Nat
  BY <1>1, <1>2 DEF m
<1>5. CASE b[l + 1] = b[l] + 1 /\ u[l] = t[b[l]]
  <2>1. b[l] = i
    BY <1>3, <1>4, <1>5
  <2> QED
    BY <1>5, <2>1 DEF n
<1>6. CASE b[l + 1] = b[l] + Len(v) /\ OccursAt(v, t, b[l])
  <2> DEFINE k == i - b[l] + 1
  <2>1. k \in 1 .. L /\ b[l] + k - 1 = i
    BY <1>1, <1>3, <1>4, <1>6
  <2>2. t[b[l] + k - 1] = v[k]
    BY <1>6, <2>1 DEF OccursAt
  <2>3. v[k] # Marker
    BY <2>1, Letters
  <2> QED
    BY <2>1, <2>2, <2>3
<1> QED
  BY <1>2, <1>5, <1>6 DEF WrittenFor

\* The next pass leaves nothing of an occurrence.
LEMMA OccurrenceGoes ==
  ASSUME ArtifactsAssumption, NEW t \in Seq(Cell), NEW text \in Seq(Char), NEW a,
         Frame(t, text, a), Copied(t, text, a), NEW v \in Value, Nested(text, {v}),
         NEW u \in Seq(Cell), NEW b, Cells(u, t, v, b, Len(t) + 1),
         NEW i \in 1 .. Len(t), OccursAt(v, t, i)
  PROVE  \E l \in 1 .. Len(u) : u[l] = Marker /\ b[l] = i /\ b[l + 1] = i + Len(v)
<1> DEFINE m == Len(t)
           n == Len(u)
           M == Len(text)
           L == Len(v)
<1>1. m \in Nat /\ n \in Nat /\ M \in Nat /\ L \in Nat \ {0}
  BY DEF Value
<1>2. /\ b \in [1 .. n + 1 -> 1 .. m + 1] /\ b[1] = 1 /\ b[n + 1] = m + 1
      /\ \A l \in 1 .. n : WrittenFor(u[l], t, v, b[l], b[l + 1])
  BY DEF Cells
<1>3. /\ a \in [1 .. m + 1 -> 1 .. M + 1] /\ \A j \in 1 .. m : a[j] < a[j + 1]
  BY DEF Frame
<1>4. \A x, y \in 1 .. m + 1 : x < y => a[x] < a[y]
  <2>1. M + 1 \in Nat
    BY <1>1
  <2> HIDE DEF m, M
  <2> QED
    BY <1>1, <1>3, <2>1, RisesThroughout
<1> HIDE DEF m, n, M, L
<1>5. PICK l \in 1 .. n : b[l] <= i /\ i < b[l + 1]
  BY <1>1, <1>2, PlaceOf DEF m
<1>6. b[l] \in 1 .. m + 1 /\ b[l + 1] \in 1 .. m + 1 /\ i \in 1 .. m
  BY <1>1, <1>2, <1>5 DEF m
<1>7. ~(b[l + 1] = b[l] + 1 /\ ~OccursAt(v, t, b[l]))
  <2> SUFFICES ASSUME b[l + 1] = b[l] + 1 PROVE OccursAt(v, t, b[l])
    OBVIOUS
  <2>1. b[l] = i
    BY <1>1, <1>5, <1>6
  <2> QED
    BY <2>1
<1>8. b[l + 1] = b[l] + L /\ u[l] = Marker /\ OccursAt(v, t, b[l])
  BY <1>2, <1>7 DEF WrittenFor, L
<1>9. b[l] = i
  <2> SUFFICES ASSUME b[l] # i PROVE FALSE
    OBVIOUS
  <2> DEFINE q == b[l]
  <2>1. q \in 1 .. m /\ q < i /\ i < q + L /\ q + L \in 1 .. m + 1 /\ i \in 1 .. m + 1 /\ q \in 1 .. m + 1
    BY <1>1, <1>5, <1>6, <1>8
  <2> HIDE DEF q
  <2>2. OccursAt(v, text, a[q]) /\ a[q + L] = a[q] + L
    BY <1>8, <2>1, OccurrenceInText DEF q, m, L
  <2>3. OccursAt(v, text, a[i])
    BY OccurrenceInText
  <2>4. a[q] < a[i] /\ a[i] < a[q] + L
    BY <1>4, <2>1, <2>2
  <2>5. a[q] \in 1 .. M + 1 /\ a[i] \in 1 .. M + 1 /\ a[q + L] \in 1 .. M + 1
    BY <1>3, <2>1
  <2>6. a[q] \in 1 .. M /\ a[i] \in 1 .. M /\ a[i] <= a[q] + L - 1
    BY <1>1, <2>2, <2>4, <2>5
  <2>7. a[i] + L <= a[q] + L
    BY <2>2, <2>3, <2>4, <2>6 DEF Nested, M, L
  <2> QED
    BY <1>1, <2>4, <2>5, <2>7
<1> QED
  BY <1>8, <1>9 DEF n, L

\* One more value, no longer than those before it, taken out.
LEMMA StandsForStep ==
  ASSUME ArtifactsAssumption, NEW t \in Seq(Cell), NEW text \in Seq(Char),
         NEW W \in SUBSET Value, NEW v \in Value, \A w \in W : Len(w) >= Len(v),
         Nested(text, W \cup {v}), \E a : StandsFor(t, text, W, a)
  PROVE  \E c : StandsFor(ReplaceValue(t, v), text, W \cup {v}, c)
<1>1. PICK a : StandsFor(t, text, W, a)
  OBVIOUS
<1>2. PICK u \in Seq(Cell) : u = ReplaceValue(t, v)
  BY ReplaceValueLeaves
<1>3. PICK b : Cells(u, t, v, b, Len(t) + 1)
  BY <1>2, ReplaceValueCells
<1>4. Frame(t, text, a) /\ Copied(t, text, a) /\ Marked(t, text, W, a) /\ Hidden(t, text, W, a)
  BY <1>1 DEF StandsFor
<1>5. Nested(text, {v})
  BY DEF Nested
<1>6. \A i \in 1 .. Len(t) :
         t[i] = Marker => \E l \in 1 .. Len(u) : u[l] = Marker /\ b[l] = i /\ b[l + 1] = i + 1
  BY <1>3, MarkerStays
<1>7. \A i \in 1 .. Len(t) :
         OccursAt(v, t, i) =>
           \E l \in 1 .. Len(u) : u[l] = Marker /\ b[l] = i /\ b[l + 1] = i + Len(v)
  BY <1>3, <1>4, <1>5, OccurrenceGoes
<1> DEFINE m == Len(t)
           n == Len(u)
           M == Len(text)
           L == Len(v)
           X == W \cup {v}
<1>8. m \in Nat /\ n \in Nat /\ M \in Nat /\ L \in Nat \ {0}
  BY DEF Value
<1>9. /\ b \in [1 .. n + 1 -> 1 .. m + 1] /\ b[1] = 1 /\ b[n + 1] = m + 1
      /\ \A l \in 1 .. n : WrittenFor(u[l], t, v, b[l], b[l + 1])
  BY <1>3 DEF Cells
<1>10. /\ a \in [1 .. m + 1 -> 1 .. M + 1] /\ a[1] = 1 /\ a[m + 1] = M + 1
      /\ \A j \in 1 .. m : a[j] < a[j + 1]
  BY <1>4 DEF Frame
<1>11. \A x, y \in 1 .. m + 1 : x < y => a[x] < a[y]
  <2>1. M + 1 \in Nat
    BY <1>8
  <2> HIDE DEF m, M
  <2> QED
    BY <1>8, <1>10, <2>1, RisesThroughout
<1> DEFINE c == [l \in 1 .. n + 1 |-> a[b[l]]]
<1> HIDE DEF m, n, M, L, X
<1>12. c \in [1 .. n + 1 -> 1 .. M + 1] /\ \A l \in 1 .. n + 1 : c[l] = a[b[l]]
  BY <1>8, <1>9, <1>10
<1>13. \A l \in 1 .. n : /\ l \in 1 .. n + 1 /\ l + 1 \in 1 .. n + 1
                         /\ b[l] \in 1 .. m + 1 /\ b[l + 1] \in 1 .. m + 1
                         /\ c[l] = a[b[l]] /\ c[l + 1] = a[b[l + 1]]
  <2> SUFFICES ASSUME NEW l \in 1 .. n PROVE l \in 1 .. n + 1 /\ l + 1 \in 1 .. n + 1
    BY <1>9, <1>12
  <2> QED
    BY <1>8
<1>14. ASSUME NEW l \in 1 .. n PROVE b[l] < b[l + 1] /\ b[l] \in 1 .. m
  <2>1. b[l + 1] = b[l] + 1 \/ b[l + 1] = b[l] + L
    BY <1>9 DEF WrittenFor, L
  <2>2. b[l] \in 1 .. m + 1 /\ b[l + 1] \in 1 .. m + 1
    BY <1>13
  <2> QED
    BY <1>8, <2>1, <2>2
<1> HIDE DEF c
<1>15. Frame(u, text, c)
  <2>1. c[1] = 1 /\ c[n + 1] = M + 1
    BY <1>8, <1>9, <1>10, <1>12
  <2>2. \A l \in 1 .. n : c[l] < c[l + 1]
    BY <1>11, <1>13, <1>14
  <2> QED
    BY <1>12, <2>1, <2>2 DEF Frame, n, M
<1>16. Copied(u, text, c)
  <2> SUFFICES ASSUME NEW l \in 1 .. n, u[l] # Marker PROVE c[l + 1] = c[l] + 1 /\ u[l] = text[c[l]]
    BY DEF Copied, n
  <2>1. b[l + 1] = b[l] + 1 /\ u[l] = t[b[l]]
    BY <1>9 DEF WrittenFor
  <2>2. a[b[l] + 1] = a[b[l]] + 1 /\ t[b[l]] = text[a[b[l]]]
    BY <1>4, <1>14, <2>1 DEF Copied, m
  <2> QED
    BY <1>13, <2>1, <2>2
<1>17. Marked(u, text, X, c)
  <2> SUFFICES ASSUME NEW l \in 1 .. n, u[l] = Marker
               PROVE  \E w \in X : OccursAt(w, text, c[l]) /\ c[l + 1] = c[l] + Len(w)
    BY DEF Marked, n
  <2>1. CASE b[l + 1] = b[l] + 1 /\ u[l] = t[b[l]]
    <3>1. PICK w \in W : OccursAt(w, text, a[b[l]]) /\ a[b[l] + 1] = a[b[l]] + Len(w)
      BY <1>4, <1>14, <2>1 DEF Marked, m
    <3> QED
      BY <1>13, <2>1, <3>1 DEF X
  <2>2. CASE b[l + 1] = b[l] + Len(v) /\ OccursAt(v, t, b[l])
    <3>1. OccursAt(v, text, a[b[l]]) /\ a[b[l] + Len(v)] = a[b[l]] + Len(v)
      BY <1>4, <1>14, <2>2, OccurrenceInText DEF m
    <3> QED
      BY <1>13, <2>2, <3>1 DEF X
  <2> QED
    BY <1>9, <2>1, <2>2 DEF WrittenFor
<1>18. ASSUME NEW p, NEW q, Hides(t, a, p, q) PROVE Hides(u, c, p, q)
  <2>1. PICK i \in 1 .. m : t[i] = Marker /\ a[i] <= p /\ q <= a[i + 1]
    BY <1>18 DEF Hides, m
  <2>2. PICK l \in 1 .. n : u[l] = Marker /\ b[l] = i /\ b[l + 1] = i + 1
    BY <2>1, <1>6 DEF m, n
  <2>3. c[l] = a[i] /\ c[l + 1] = a[i + 1]
    BY <1>13, <2>2
  <2> QED
    BY <2>1, <2>2, <2>3 DEF Hides, n
<1>19. Hidden(u, text, X, c)
  <2> SUFFICES ASSUME NEW w \in X, NEW p \in 1 .. M, OccursAt(w, text, p)
               PROVE  Hides(u, c, p, p + Len(w))
    BY DEF Hidden, M
  <2>1. CASE w \in W
    BY <1>4, <1>18, <2>1 DEF Hidden, M
  <2>2. CASE w = v
    <3>1. PICK i \in 1 .. m : a[i] <= p /\ p < a[i + 1]
      BY <1>8, <1>10, PlaceOf
    <3>2. a[i] \in 1 .. M + 1 /\ a[i + 1] \in 1 .. M + 1 /\ i + 1 \in 1 .. m + 1 /\ i \in 1 .. m + 1
      <4>1. i \in 1 .. m + 1 /\ i + 1 \in 1 .. m + 1
        BY <1>8
      <4> QED
        BY <1>10, <4>1
    <3>3. CASE t[i] = Marker
      <4>1. PICK x \in W : OccursAt(x, text, a[i]) /\ a[i + 1] = a[i] + Len(x)
        BY <1>4, <3>3 DEF Marked, m
      <4>2. Len(x) >= L /\ Len(x) \in Nat
        BY DEF L, Value
      <4>3. a[i] < p => p + L <= a[i] + Len(x)
        <5> SUFFICES ASSUME a[i] < p PROVE p + L <= a[i] + Len(x)
          OBVIOUS
        <5>1. a[i] \in 1 .. M /\ p <= a[i] + Len(x) - 1
          BY <1>8, <3>1, <3>2, <4>1, <4>2
        <5> QED
          BY <2>2, <4>1, <5>1 DEF Nested, M, L
      <4>4. p + L <= a[i + 1]
        BY <1>8, <3>1, <3>2, <4>1, <4>2, <4>3
      <4>5. Hides(t, a, p, p + L)
        BY <3>1, <3>3, <4>4 DEF Hides, m
      <4> QED
        BY <1>18, <2>2, <4>5 DEF L
    <3>4. CASE t[i] # Marker
      <4>1. a[i + 1] = a[i] + 1
        BY <1>4, <3>4 DEF Copied, m
      <4>2. p = a[i]
        BY <3>1, <3>2, <4>1
      <4>3. OccursAt(v, t, i)
        BY <1>4, <2>2, <3>4, <4>2, OccurrenceIsLeft DEF m
      <4>4. i + Len(v) \in 1 .. m + 1 /\ a[i + Len(v)] = p + Len(v)
        BY <1>4, <4>2, <4>3, OccurrenceInText DEF m
      <4>5. PICK l \in 1 .. n : u[l] = Marker /\ b[l] = i /\ b[l + 1] = i + Len(v)
        BY <4>3, <1>7 DEF m, n
      <4>6. c[l] = p /\ c[l + 1] = p + Len(v)
        BY <1>13, <4>2, <4>4, <4>5
      <4> QED
        BY <1>8, <2>2, <4>5, <4>6 DEF Hides, n, L
    <3> QED
      BY <3>3, <3>4
  <2> QED
    BY <2>1, <2>2 DEF X
<1> QED
  BY <1>2, <1>15, <1>16, <1>17, <1>19 DEF StandsFor, X

\* Before anything is taken out, each character stands for itself.
LEMMA TextStandsForItself ==
  ASSUME ArtifactsAssumption, NEW text \in Seq(Char)
  PROVE  \E a : StandsFor(text, text, {}, a)
<1> DEFINE M == Len(text)
           a == [i \in 1 .. M + 1 |-> i]
<1>1. M \in Nat /\ \A i \in 1 .. M : text[i] # Marker
  BY DEF ArtifactsAssumption
<1> HIDE DEF M
<1>2. a \in [1 .. M + 1 -> 1 .. M + 1] /\ a[1] = 1 /\ a[M + 1] = M + 1
  BY <1>1
<1>3. \A i \in 1 .. M : a[i] = i /\ a[i + 1] = i + 1
  BY <1>1
<1> HIDE DEF a
<1>4. \A i \in 1 .. M : a[i] < a[i + 1] /\ a[i + 1] = a[i] + 1 /\ text[i] = text[a[i]]
  BY <1>1, <1>3
<1>5. Frame(text, text, a)
  BY <1>2, <1>4 DEF Frame, M
<1>6. Copied(text, text, a)
  BY <1>4 DEF Copied, M
<1>7. Marked(text, text, {}, a) /\ Hidden(text, text, {}, a)
  BY <1>1 DEF Marked, Hidden, M
<1> QED
  BY <1>5, <1>6, <1>7 DEF StandsFor

\* All values taken out, longest first.
LEMMA RedactStandsFor ==
  ASSUME ArtifactsAssumption, NEW text \in Seq(Char), NEW red \in Seq(Value),
         \A i, j \in 1 .. Len(red) : i < j => Len(red[i]) >= Len(red[j]),
         Nested(text, {red[k] : k \in 1 .. Len(red)})
  PROVE  \E a : StandsFor(Redact(text, red), text, {red[k] : k \in 1 .. Len(red)}, a)
<1> DEFINE m == Len(red)
           r == Redacting(text, red)
           W(n) == {red[k] : k \in 1 .. n}
           T == {n \in 0 .. m : \E a : StandsFor(r[n], text, W(n), a)}
<1>1. m \in Nat /\ text \in Seq(Cell)
  BY DEF Cell
<1>2. 0 \in T
  <2>1. r[0] = text /\ W(0) = {}
    BY <1>1, RedactingUnfolds
  <2> HIDE DEF r, W
  <2>2. \E a : StandsFor(text, text, {}, a)
    BY TextStandsForItself
  <2>3. \E a : StandsFor(r[0], text, W(0), a)
    BY <2>1, <2>2
  <2> QED
    BY <1>1, <2>3
<1>3. ASSUME NEW n \in 0 .. m - 1, n \in T PROVE n + 1 \in T
  <2> DEFINE v == red[n + 1]
  <2>1. n + 1 \in 1 .. m /\ (n + 1) - 1 = n /\ n \in 0 .. m /\ n + 1 \in 0 .. m
    BY <1>1
  <2>2. r[n + 1] = ReplaceValue(r[n], v) /\ r[n] \in Seq(Cell)
    BY <1>1, <2>1, RedactingUnfolds
  <2>3. v \in Value /\ W(n) \in SUBSET Value
    BY <2>1
  <2>4. \A k \in 1 .. n : k \in 1 .. m /\ k < n + 1
    BY <1>1
  <2>5. \A w \in W(n) : Len(w) >= Len(v)
    BY <2>1, <2>4
  <2>6. \A k : k \in 1 .. n + 1 <=> k = n + 1 \/ k \in 1 .. n
    BY <2>1
  <2>7. W(n + 1) = W(n) \cup {v}
    BY <2>6
  <2>8. W(n) \cup {v} \subseteq W(m)
    BY <2>1, <2>4
  <2>9. Nested(text, W(n) \cup {v})
    <3>1. Nested(text, W(m))
      OBVIOUS
    <3> HIDE DEF W
    <3> QED
      BY <2>8, <3>1 DEF Nested
  <2>10. \E a : StandsFor(r[n], text, W(n), a)
    BY <1>3
  <2> HIDE DEF r, W, v
  <2>11. \E a : StandsFor(ReplaceValue(r[n], v), text, W(n) \cup {v}, a)
    BY <2>2, <2>3, <2>5, <2>9, <2>10, StandsForStep
  <2> QED
    BY <2>1, <2>2, <2>7, <2>11
<1> HIDE DEF T
<1>4. 0 .. m \subseteq T
  BY <1>1, <1>2, <1>3, SetInduction
<1>5. m \in T
  BY <1>1, <1>4
<1> QED
  BY <1>5 DEF T, Redact

\* What stands for the text, without a place left to chance: the characters that no
\* occurrence covers, and a marker where one begins that no earlier one reaches.
LEMMA LeftOfText ==
  ASSUME ArtifactsAssumption, NEW out \in Seq(Cell), NEW text \in Seq(Char),
         NEW V, V \ {<< >>} \subseteq Value, NEW a, StandsFor(out, text, V \ {<< >>}, a)
  PROVE  LET clear == Uncovered(text, V)
             left  == clear \cup Outermost(text, V)
         IN /\ Len(out) = Cardinality(left)
            /\ \A k \in left : out[Rank(left, k)] = IF k \in clear THEN text[k] ELSE Marker
<1> DEFINE W == V \ {<< >>}
           n == Len(out)
           M == Len(text)
           clear == Uncovered(text, V)
           left  == clear \cup Outermost(text, V)
           S == {a[i] : i \in 1 .. n}
<1>1. n \in Nat /\ M \in Nat /\ M + 1 \in Nat /\ \A w \in W : Len(w) \in Nat \ {0}
  BY DEF Value
<1>2. /\ a \in [1 .. n + 1 -> 1 .. M + 1] /\ a[1] = 1 /\ a[n + 1] = M + 1
      /\ \A i \in 1 .. n : a[i] < a[i + 1]
  BY DEF StandsFor, Frame
<1>3. \A i \in 1 .. n : out[i] # Marker => a[i + 1] = a[i] + 1 /\ out[i] = text[a[i]]
  BY DEF StandsFor, Copied
<1>4. \A i \in 1 .. n : out[i] = Marker =>
        \E w \in W : OccursAt(w, text, a[i]) /\ a[i + 1] = a[i] + Len(w)
  BY DEF StandsFor, Marked
<1>5. \A w \in W, p \in 1 .. M : OccursAt(w, text, p) =>
        \E i \in 1 .. n : out[i] = Marker /\ a[i] <= p /\ p + Len(w) <= a[i + 1]
  BY DEF StandsFor, Hidden, Hides
<1>6. /\ \A k : k \in clear <=>
           k \in 1 .. M /\ \A w \in W : \A i \in 1 .. M : OccursAt(w, text, i) => k < i \/ k > i + Len(w) - 1
      /\ \A k : k \in Outermost(text, V) <=>
           /\ k \in 1 .. M /\ \E w \in W : OccursAt(w, text, k)
           /\ \A w \in W, i \in 1 .. k - 1 : OccursAt(w, text, i) => k > i + Len(w) - 1
  BY DEF Uncovered, Outermost
<1> HIDE DEF W, n, M, clear
<1>7. \A x, y \in 1 .. n + 1 : x < y => a[x] < a[y]
  BY <1>1, <1>2, RisesThroughout
\* Cell i is the only one that stands for the places a[i] .. a[i + 1] - 1.
<1>8. ASSUME NEW i \in 1 .. n, NEW l \in 1 .. n, a[l] <= a[i], a[i] < a[l + 1] PROVE l = i
  <2>1. /\ i \in 1 .. n + 1 /\ l \in 1 .. n + 1 /\ i + 1 \in 1 .. n + 1 /\ l + 1 \in 1 .. n + 1
        /\ l < i \/ l = i \/ i < l
    BY <1>1
  <2>2. a[i] \in 1 .. M + 1 /\ a[l] \in 1 .. M + 1 /\ a[l + 1] \in 1 .. M + 1
    BY <1>2, <2>1
  <2>3. CASE l < i
    <3>1. l + 1 = i \/ l + 1 < i
      BY <1>1, <2>3
    <3>2. a[l + 1] = a[i] \/ a[l + 1] < a[i]
      BY <1>7, <2>1, <3>1
    <3> QED
      BY <1>1, <1>8, <2>2, <3>2
  <2>4. CASE i < l
    <3>1. a[i] < a[l]
      BY <1>7, <2>1, <2>4
    <3> QED
      BY <1>1, <1>8, <2>2, <3>1
  <2> QED
    BY <2>1, <2>3, <2>4
<1>9. ASSUME NEW i \in 1 .. n
      PROVE  a[i] \in 1 .. M /\ a[i + 1] \in 1 .. M + 1 /\ a[i] < a[i + 1]
  <2>1. i \in 1 .. n + 1 /\ i + 1 \in 1 .. n + 1
    BY <1>1
  <2>2. a[i] \in 1 .. M + 1 /\ a[i + 1] \in 1 .. M + 1 /\ a[i] < a[i + 1]
    BY <1>2, <2>1
  <2> QED
    BY <1>1, <2>2
\* An occurrence that covers a[i] is what the marker at i stands for.
<1>10. ASSUME NEW i \in 1 .. n, NEW w \in W, NEW p \in 1 .. M, OccursAt(w, text, p),
              p <= a[i], a[i] <= p + Len(w) - 1
       PROVE  out[i] = Marker /\ a[i] <= p
  <2>1. PICK l \in 1 .. n : out[l] = Marker /\ a[l] <= p /\ p + Len(w) <= a[l + 1]
    BY <1>5, <1>10
  <2>2. a[l] <= a[i] /\ a[i] < a[l + 1]
    BY <1>1, <1>9, <1>10, <2>1
  <2>3. l = i
    BY <1>8, <2>2
  <2> QED
    BY <2>1, <2>3
<1>11. ASSUME NEW i \in 1 .. n, out[i] # Marker PROVE a[i] \in clear
  <2> SUFFICES ASSUME NEW w \in W, NEW p \in 1 .. M, OccursAt(w, text, p)
               PROVE  a[i] < p \/ a[i] > p + Len(w) - 1
    BY <1>6, <1>9
  <2>1. ~(p <= a[i] /\ a[i] <= p + Len(w) - 1)
    BY <1>10, <1>11
  <2>2. a[i] \in Nat /\ p \in Nat /\ Len(w) \in Nat
    BY <1>1, <1>9
  <2> QED
    BY <2>1, <2>2
<1>12. ASSUME NEW i \in 1 .. n, out[i] = Marker
       PROVE  a[i] \in Outermost(text, V) /\ a[i] \notin clear
  <2>1. PICK w \in W : OccursAt(w, text, a[i])
    BY <1>4, <1>12
  <2>2. a[i] \notin clear
    <3>1. ~(a[i] < a[i] \/ a[i] > a[i] + Len(w) - 1)
      BY <1>1, <1>9
    <3> QED
      BY <1>6, <1>9, <2>1, <3>1
  <2>3. ASSUME NEW x \in W, NEW p \in 1 .. a[i] - 1, OccursAt(x, text, p)
        PROVE  a[i] > p + Len(x) - 1
    <3>1. p \in 1 .. M /\ p <= a[i] /\ ~(a[i] <= p)
      BY <1>1, <1>9
    <3> QED
      BY <1>1, <1>9, <1>10, <2>3, <3>1
  <2> QED
    BY <1>6, <1>9, <2>1, <2>2, <2>3
<1>13. ASSUME NEW k \in left PROVE \E i \in 1 .. n : a[i] = k
  <2>1. k \in 1 .. M
    BY <1>6
  <2>2. PICK i \in 1 .. n : a[i] <= k /\ k < a[i + 1]
    BY <1>1, <1>2, <2>1, PlaceOf
  <2>3. a[i] \in 1 .. M /\ a[i + 1] \in 1 .. M + 1
    BY <1>9
  <2>4. CASE out[i] # Marker
    <3>1. a[i + 1] = a[i] + 1
      BY <1>3, <2>4
    <3>2. a[i] = k
      BY <2>1, <2>2, <2>3, <3>1
    <3> QED
      BY <3>2
  <2>5. CASE out[i] = Marker
    <3>1. PICK w \in W : OccursAt(w, text, a[i]) /\ a[i + 1] = a[i] + Len(w)
      BY <1>4, <2>5
    <3>2. k <= a[i] + Len(w) - 1
      BY <1>1, <2>1, <2>2, <2>3, <3>1
    <3>3. ~(k < a[i]) /\ ~(k > a[i] + Len(w) - 1)
      BY <1>1, <2>1, <2>2, <2>3, <3>2
    <3>4. k \in Outermost(text, V)
      BY <1>6, <2>3, <3>1, <3>3
    <3>5. a[i] \notin 1 .. k - 1
      BY <1>6, <3>1, <3>3, <3>4
    <3> QED
      BY <1>1, <2>1, <2>2, <2>3, <3>5
  <2> QED
    BY <2>4, <2>5
<1>14. left = S
  BY <1>11, <1>12, <1>13
<1>15. Cardinality(S) = n /\ \A i \in 1 .. n : Rank(S, a[i]) = i
  <2>1. \A i \in 1 .. n : a[i] \in Nat
    BY <1>9
  <2>2. \A i, j \in 1 .. n : i < j => a[i] < a[j]
    <3>1. \A i \in 1 .. n : i \in 1 .. n + 1
      BY <1>1
    <3> QED
      BY <1>7, <3>1
  <2> QED
    BY <1>1, <2>1, <2>2, RankOfRising
<1>16. ASSUME NEW k \in left
       PROVE  out[Rank(left, k)] = IF k \in clear THEN text[k] ELSE Marker
  <2>1. PICK i \in 1 .. n : a[i] = k
    BY <1>13
  <2> HIDE DEF S, left
  <2>2. Rank(left, k) = i
    BY <1>14, <1>15, <2>1
  <2> QED
    BY <1>3, <1>11, <1>12, <2>1, <2>2
<1>17. Len(out) = Cardinality(left)
  <2> HIDE DEF S, left
  <2> QED
    BY <1>14, <1>15 DEF n
<1> QED
  BY <1>16, <1>17 DEF clear

\* The redaction of untangled secrets.
LEMMA RestOfText ==
  ASSUME ArtifactsAssumption, input \in TextInput
  PROVE  RestStays
<1>1. /\ input.text \in Seq(Char) /\ input.values \in SUBSET Seq(Char \ {NewLine})
      /\ IsFiniteSet(input.values)
  BY DEF TextInput
<1> SUFFICES ASSUME NEW red \in NewRedactor(input.values), ~Tangled(input.text, input.values)
             PROVE  LET out   == Redact(input.text, red)
                        clear == Uncovered(input.text, input.values)
                        left  == clear \cup Outermost(input.text, input.values)
                    IN /\ Len(out) = Cardinality(left)
                       /\ \A k \in left : out[Rank(left, k)] = IF k \in clear THEN input.text[k] ELSE Marker
  BY DEF RestStays
<1> DEFINE text == input.text
           V == input.values
           W == V \ {<< >>}
<1>2. red \in Seq(Value) /\ \A v \in W : \E k \in 1 .. Len(red) : red[k] = v
  BY <1>1, RedactorHolds
<1>3. /\ W \subseteq Value /\ DOMAIN red = 1 .. Len(red)
      /\ \A k \in 1 .. Len(red) : red[k] \in W
      /\ \A i, j \in 1 .. Len(red) : i < j => Len(red[i]) >= Len(red[j])
  <2>1. /\ red \in [1 .. Cardinality(W) -> W]
        /\ \A i, j \in DOMAIN red : i < j => Len(red[i]) >= Len(red[j])
    BY DEF NewRedactor
  <2>2. W \subseteq Value
    BY <1>1 DEF Value
  <2>3. DOMAIN red = 1 .. Len(red)
    BY <1>2
  <2> HIDE DEF W
  <2>4. \A k \in 1 .. Len(red) : red[k] \in W
    BY <2>1, <2>3
  <2> QED
    BY <2>1, <2>2, <2>3, <2>4
<1>4. {red[k] : k \in 1 .. Len(red)} = W
  BY <1>2, <1>3
<1>5. Nested(text, W)
  <2> SUFFICES ASSUME NEW v \in W, NEW w \in W, NEW i \in 1 .. Len(text), NEW j \in 1 .. Len(text),
                      OccursAt(v, text, i), OccursAt(w, text, j), i < j, j <= i + Len(v) - 1
               PROVE  j + Len(w) <= i + Len(v)
    BY DEF Nested
  <2>1. ~(i + Len(v) < j + Len(w))
    <3>1. DOMAIN text = 1 .. Len(text)
      BY <1>1
    <3> QED
      BY <3>1 DEF Tangled
  <2>2. Len(v) \in Nat /\ Len(w) \in Nat
    BY <1>3 DEF Value
  <2> QED
    BY <2>1, <2>2
<1> HIDE DEF W, V, text
<1>6. \E a : StandsFor(Redact(text, red), text, W, a)
  <2>1. text \in Seq(Char)
    BY <1>1 DEF text
  <2> QED
    BY <1>2, <1>3, <1>4, <1>5, <2>1, RedactStandsFor
<1>7. Redact(text, red) \in Seq(Cell)
  <2>1. text \in Seq(Cell)
    BY <1>1 DEF Cell, text
  <2> QED
    BY <1>2, <2>1, RedactLeaves
<1>8. PICK out \in Seq(Cell) : out = Redact(text, red)
  BY <1>7
<1>9. PICK a : StandsFor(out, text, V \ {<< >>}, a)
  BY <1>6, <1>8 DEF W
<1>10. text \in Seq(Char) /\ V \ {<< >>} \subseteq Value
  BY <1>1, <1>3 DEF W, V, text
<1>11. LET clear == Uncovered(text, V)
           left  == clear \cup Outermost(text, V)
       IN /\ Len(out) = Cardinality(left)
          /\ \A k \in left : out[Rank(left, k)] = IF k \in clear THEN text[k] ELSE Marker
  BY <1>9, <1>10, LeftOfText
<1> QED
  BY <1>8, <1>11 DEF V, text

\* (RestStays) For any secrets and any text in which no occurrences are tangled, what is
\* left is the text with one marker for each occurrence that is inside no other.
\* (NewRedactor, Redact.)
THEOREM NothingElseIsLost ==
  ASSUME ArtifactsAssumption
  PROVE  Given(TextInput) => []RestStays
<1>1. input \in TextInput => RestStays
  BY RestOfText
<1>2. input \in TextInput /\ [FALSE]_input => (input \in TextInput)'
  OBVIOUS
<1> QED
  BY <1>1, <1>2, PTL DEF Given

-----------------------------------------------------------------------------
(* The first-run configuration. *)

\* What the typed steps f[1], ..., f[m] make of a, one after the other.
TypedIteration(g, m, T, a, f) ==
  /\ DOMAIN g = 0 .. m /\ g = [n \in 0 .. m |-> g[n]]
  /\ g[0] = a /\ \A n \in 1 .. m : g[n] = f[n][g[n - 1]]
  /\ \A n \in 0 .. m : g[n] \in T[n]

TypedSteps(m, T, a, f) == a \in T[0] /\ \A n \in 1 .. m : f[n] \in [T[n - 1] -> T[n]]

\* Typed steps can be taken one after the other.
LEMMA TypedIterates ==
  ASSUME NEW m \in Nat, NEW T, NEW a, NEW f, TypedSteps(m, T, a, f)
  PROVE  \E g : TypedIteration(g, m, T, a, f)
<1> USE DEF TypedIteration, TypedSteps
<1> DEFINE Is(g, k) == /\ DOMAIN g = 0 .. k /\ g = [n \in 0 .. k |-> g[n]]
                       /\ g[0] = a /\ \A n \in 1 .. k : g[n] = f[n][g[n - 1]]
                       /\ \A n \in 0 .. k : g[n] \in T[n]
           K == {k \in 0 .. m : \E g : Is(g, k)}
<1>1. 0 \in K
  <2> DEFINE g == [n \in 0 .. 0 |-> a]
  <2>1. Is(g, 0)
    OBVIOUS
  <2> HIDE DEF g, Is
  <2> QED
    BY <2>1
<1>2. ASSUME NEW k \in 0 .. m - 1, k \in K PROVE k + 1 \in K
  <2>1. PICK g : Is(g, k)
    BY <1>2
  <2> DEFINE h == [n \in 0 .. k + 1 |-> IF n = k + 1 THEN f[k + 1][g[k]] ELSE g[n]]
  <2>2. k \in Nat /\ k + 1 \in 1 .. m /\ (k + 1) - 1 = k /\ k \in 0 .. k /\ 0 # k + 1
    OBVIOUS
  <2>3. /\ DOMAIN h = 0 .. k + 1 /\ h = [n \in 0 .. k + 1 |-> h[n]]
        /\ h[k + 1] = f[k + 1][g[k]] /\ \A n \in 0 .. k : h[n] = g[n]
    OBVIOUS
  <2> HIDE DEF h
  <2>4. f[k + 1] \in [T[k] -> T[k + 1]] /\ g[k] \in T[k]
    BY <2>1, <2>2
  <2>5. h[k + 1] \in T[k + 1]
    BY <2>3, <2>4
  <2>6. h[0] = a
    BY <2>1, <2>2, <2>3
  <2>7. ASSUME NEW n \in 1 .. k + 1 PROVE h[n] = f[n][h[n - 1]]
    <3>1. CASE n = k + 1
      BY <2>2, <2>3, <3>1
    <3>2. CASE n \in 1 .. k
      <4>1. n \in 0 .. k /\ n - 1 \in 0 .. k
        BY <2>2, <3>2
      <4> QED
        BY <2>1, <2>3, <3>2, <4>1
    <3> QED
      BY <2>2, <3>1, <3>2
  <2>8. ASSUME NEW n \in 0 .. k + 1 PROVE h[n] \in T[n]
    <3>1. CASE n = k + 1
      BY <2>5, <3>1
    <3>2. CASE n \in 0 .. k
      BY <2>1, <2>3, <3>2
    <3> QED
      BY <2>2, <3>1, <3>2
  <2>9. Is(h, k + 1)
    BY <2>3, <2>6, <2>7, <2>8
  <2> HIDE DEF Is
  <2> QED
    BY <2>2, <2>9
<1> HIDE DEF K
<1>3. 0 .. m \subseteq K
  BY <1>1, <1>2, SetInduction
<1>4. m \in K
  BY <1>3
<1> QED
  BY <1>4 DEF K

-----------------------------------------------------------------------------
LevelOf(S) == [scalar : Scalar] \cup [array : Seq(S)] \cup [object : [Field -> OrMissing(S)]]

\* The values of a level are made of those of the level below.
LEMMA ValuesUnfold ==
  ASSUME ConfigSeedAssumption
  PROVE  /\ Values[0] = [scalar : Scalar]
         /\ \A n \in 1 .. Depth : Values[n] = LevelOf(Values[n - 1])
<1> DEFINE Next(g, n) == IF n = 0 THEN [scalar : Scalar] ELSE LevelOf(g[n - 1])
           Is(g, m) == g = [n \in 0 .. m |-> Next(g, n)]
           T == {m \in 0 .. Depth : \E g : Is(g, m)}
<1>1. Depth \in Nat
  BY DEF ConfigSeedAssumption
<1>2. 0 \in T
  <2> DEFINE g == [n \in 0 .. 0 |-> [scalar : Scalar]]
  <2>1. Is(g, 0)
    OBVIOUS
  <2> HIDE DEF g, Is
  <2> QED
    BY <1>1, <2>1
<1>3. ASSUME NEW m \in 0 .. Depth - 1, m \in T PROVE m + 1 \in T
  <2>1. PICK g : Is(g, m)
    BY <1>3
  <2> DEFINE h == [n \in 0 .. m + 1 |-> IF n = m + 1 THEN LevelOf(g[m]) ELSE g[n]]
  <2>2. \A n \in 0 .. m + 1 : h[n] = Next(h, n)
    <3>1. /\ h[m + 1] = LevelOf(g[m]) /\ \A n \in 0 .. m : h[n] = g[n]
          /\ (m + 1) - 1 = m /\ m + 1 # 0 /\ 0 \in 0 .. m
      OBVIOUS
    <3>2. \A n \in 0 .. m : g[n] = Next(g, n)
      <4> HIDE DEF Next
      <4> QED
        BY <2>1
    <3>3. g[0] = [scalar : Scalar]
      BY <3>1, <3>2
    <3>4. \A n \in 1 .. m : g[n] = LevelOf(g[n - 1]) /\ n - 1 \in 0 .. m /\ n \in 0 .. m
      <4> SUFFICES ASSUME NEW n \in 1 .. m
                   PROVE  g[n] = LevelOf(g[n - 1]) /\ n - 1 \in 0 .. m /\ n \in 0 .. m
        OBVIOUS
      <4>1. n \in 0 .. m /\ n # 0 /\ n - 1 \in 0 .. m
        OBVIOUS
      <4>2. g[n] = Next(g, n)
        BY <3>2, <4>1
      <4> QED
        BY <4>1, <4>2
    <3> HIDE DEF h
    <3>5. h[0] = Next(h, 0)
      BY <3>1, <3>3
    <3>6. h[m + 1] = Next(h, m + 1)
      BY <3>1
    <3>7. \A n \in 1 .. m : h[n] = Next(h, n)
      BY <3>1, <3>4
    <3>8. \A n \in 0 .. m + 1 : n = 0 \/ n = m + 1 \/ n \in 1 .. m
      OBVIOUS
    <3> HIDE DEF Next
    <3> QED
      BY <3>5, <3>6, <3>7, <3>8
  <2>3. Is(h, m + 1)
    <3>1. h = [n \in 0 .. m + 1 |-> h[n]]
      OBVIOUS
    <3> HIDE DEF h, Next
    <3> QED
      BY <2>2, <3>1
  <2> HIDE DEF h, Is
  <2>4. m + 1 \in 0 .. Depth
    BY <1>1
  <2> QED
    BY <2>3, <2>4
<1>4. Depth \in T
  <2> HIDE DEF T
  <2>1. \A n \in 0 .. Depth - 1 : n \in T => n + 1 \in T
    BY <1>3
  <2>2. 0 .. Depth \subseteq T
    BY <1>1, <1>2, <2>1, SetInduction
  <2> QED
    BY <1>1, <2>2
<1>5. \E g : Is(g, Depth)
  BY <1>4
<1>6. Values = CHOOSE g : Is(g, Depth)
  BY DEF Values, LevelOf
<1>7. Is(Values, Depth)
  <2> HIDE DEF Is
  <2> QED
    BY <1>5, <1>6
<1> HIDE DEF T
<1> DEFINE V == Values
<1>8. Is(V, Depth)
  BY <1>7
<1> HIDE DEF V
<1>9. \A n \in 0 .. Depth : V[n] = Next(V, n)
  <2> HIDE DEF Next
  <2> QED
    BY <1>8
<1>10. V[0] = [scalar : Scalar]
  <2>1. 0 \in 0 .. Depth
    BY <1>1
  <2>2. V[0] = Next(V, 0)
    BY <1>9, <2>1
  <2> QED
    BY <2>2
<1>11. ASSUME NEW n \in 1 .. Depth PROVE V[n] = LevelOf(V[n - 1])
  <2>1. n \in 0 .. Depth /\ n # 0
    BY <1>1
  <2>2. V[n] = Next(V, n)
    BY <1>9, <2>1
  <2> QED
    BY <2>1, <2>2
<1> QED
  BY <1>10, <1>11 DEF V

Slot(n) == OrMissing(Values[n])

\* What a field may hold, and what it is then.
LEMMA ShapesOf ==
  ASSUME ConfigSeedAssumption, NEW n \in 0 .. Depth, NEW v \in Slot(n)
  PROVE  \/ v = Missing /\ ~IsArray(v) /\ ~IsObject(v)
         \/ v \in [scalar : Scalar] /\ ~IsArray(v) /\ ~IsObject(v) /\ v # Missing
         \/ /\ n \in 1 .. Depth /\ IsArray(v) /\ ~IsObject(v) /\ v # Missing
            /\ v.array \in Seq(Values[n - 1]) /\ v = [array |-> v.array]
         \/ /\ n \in 1 .. Depth /\ IsObject(v) /\ ~IsArray(v) /\ v # Missing
            /\ v.object \in [Field -> Slot(n - 1)] /\ v = [object |-> v.object]
<1>1. Depth \in Nat
  BY DEF ConfigSeedAssumption
<1>2. CASE v = Missing
  BY <1>2 DEF Missing, IsArray, IsObject
<1>3. CASE v \in [scalar : Scalar]
  BY <1>3 DEF Missing, IsArray, IsObject
<1>4. CASE n \in 1 .. Depth /\ v \in [array : Seq(Values[n - 1])]
  BY <1>4 DEF Missing, IsArray, IsObject
<1>5. CASE n \in 1 .. Depth /\ v \in [object : [Field -> Slot(n - 1)]]
  BY <1>5 DEF Missing, IsArray, IsObject
<1>6. n = 0 \/ n \in 1 .. Depth
  BY <1>1
<1>7. v = Missing \/ v \in Values[n]
  BY DEF Slot, OrMissing
<1>8. CASE n = 0
  BY <1>2, <1>3, <1>7, <1>8, ValuesUnfold
<1>9. CASE n \in 1 .. Depth
  <2>1. Values[n] = LevelOf(Values[n - 1])
    BY <1>9, ValuesUnfold
  <2> QED
    BY <1>2, <1>3, <1>4, <1>5, <1>7, <1>9, <2>1 DEF LevelOf, Slot
<1> QED
  BY <1>6, <1>8, <1>9

\* What may be made of the values of the level below.
LEMMA Makes ==
  ASSUME ConfigSeedAssumption, NEW n \in 0 .. Depth
  PROVE  /\ Missing \in Slot(n) /\ Values[n] \subseteq Slot(n) /\ [scalar : Scalar] \subseteq Values[n]
         /\ Missing \notin Values[n]
         /\ n \in 1 .. Depth => \A a \in Seq(Values[n - 1]) : [array |-> a] \in Values[n]
         /\ n \in 1 .. Depth => \A f \in [Field -> Slot(n - 1)] : [object |-> f] \in Values[n]
<1>1. Depth \in Nat /\ (n = 0 \/ n \in 1 .. Depth)
  BY DEF ConfigSeedAssumption
<1>2. Missing \in Slot(n) /\ Values[n] \subseteq Slot(n)
  BY DEF Slot, OrMissing
<1>3. CASE n = 0
  <2>1. Values[n] = [scalar : Scalar]
    BY <1>3, ValuesUnfold
  <2>2. Missing \notin [scalar : Scalar]
    BY DEF Missing
  <2> QED
    BY <1>2, <1>3, <2>1, <2>2
<1>4. CASE n \in 1 .. Depth
  <2>1. Values[n] = LevelOf(Values[n - 1])
    BY <1>4, ValuesUnfold
  <2>2. Missing \notin LevelOf(Values[n - 1])
    BY DEF Missing, LevelOf
  <2>3. \A a \in Seq(Values[n - 1]) : [array |-> a] \in LevelOf(Values[n - 1])
    BY DEF LevelOf
  <2>4. \A f \in [Field -> Slot(n - 1)] : [object |-> f] \in LevelOf(Values[n - 1])
    BY DEF LevelOf, Slot
  <2>5. [scalar : Scalar] \subseteq LevelOf(Values[n - 1])
    BY DEF LevelOf
  <2> QED
    BY <1>2, <2>1, <2>2, <2>3, <2>4, <2>5
<1> QED
  BY <1>1, <1>3, <1>4

-----------------------------------------------------------------------------
\* The arrays between existing and MergeArray(existing, defaults), one default after the other.
Union(m, W, e, d) ==
  /\ m \in [0 .. Len(d) -> Seq(W)] /\ m[0] = e /\ MergeArray(e, d) = m[Len(d)]
  /\ \A n \in 1 .. Len(d) : m[n] = AppendNew(m[n - 1], d[n])

\* MergeArray goes through the defaults one by one.
LEMMA MergeArrayUnfolds ==
  ASSUME NEW W, NEW e \in Seq(W), NEW d \in Seq(W)
  PROVE  \E m : Union(m, W, e, d)
<1> DEFINE l == Len(d)
           S == Seq(W)
           f == [n \in 1 .. l |-> [s \in S |-> AppendNew(s, d[n])]]
           Is(g) == g = [n \in 0 .. l |-> IF n = 0 THEN e ELSE AppendNew(g[n - 1], d[n])]
<1>1. l \in Nat /\ e \in S
  OBVIOUS
<1>2. ASSUME NEW s \in S, NEW n \in 1 .. l PROVE AppendNew(s, d[n]) \in S
  BY DEF AppendNew
<1>3. f \in [1 .. l -> [S -> S]]
  BY <1>2
<1> HIDE DEF f, l, S
<1>4. PICK g : Iteration(g, l, S, e, f)
  BY <1>1, <1>3, Iterates
<1>5. \A n \in 1 .. l : g[n] = AppendNew(g[n - 1], d[n])
  <2> SUFFICES ASSUME NEW n \in 1 .. l PROVE g[n] = AppendNew(g[n - 1], d[n])
    OBVIOUS
  <2>1. g[n - 1] \in S
    BY <1>1, <1>4 DEF Iteration
  <2> QED
    BY <1>4, <2>1 DEF f, Iteration
<1>6. Is(g)
  <2>1. \A n \in 0 .. l : g[n] = IF n = 0 THEN e ELSE AppendNew(g[n - 1], d[n])
    BY <1>1, <1>4, <1>5 DEF Iteration
  <2>2. g = [n \in 0 .. l |-> g[n]]
    BY <1>4 DEF Iteration
  <2> QED
    BY <2>1, <2>2
<1> DEFINE r == CHOOSE r : Is(r)
<1>7. MergeArray(e, d) = r[l]
  BY DEF MergeArray, l
<1>8. Is(r)
  <2> HIDE DEF Is
  <2> QED
    BY <1>6
<1> HIDE DEF r
<1>9. r[0] = e /\ \A n \in 1 .. l : r[n] = AppendNew(r[n - 1], d[n])
  BY <1>1, <1>8
<1>10. \A n \in 0 .. l : r[n] \in S
  <2> DEFINE T == {n \in 0 .. l : r[n] \in S}
  <2>1. 0 \in T
    BY <1>1, <1>9
  <2>2. \A n \in 0 .. l - 1 : n \in T => n + 1 \in T
    <3> SUFFICES ASSUME NEW n \in 0 .. l - 1, n \in T PROVE n + 1 \in T
      OBVIOUS
    <3>1. n + 1 \in 1 .. l /\ (n + 1) - 1 = n
      BY <1>1
    <3> QED
      BY <1>2, <1>9, <3>1 DEF l
  <2> HIDE DEF T
  <2>3. 0 .. l \subseteq T
    BY <1>1, <2>1, <2>2, SetInduction
  <2> QED
    BY <2>3 DEF T
<1>11. r \in [0 .. l -> S]
  <2>1. r = [n \in 0 .. l |-> r[n]]
    BY <1>8
  <2> QED
    BY <1>10, <2>1
<1> QED
  BY <1>7, <1>9, <1>11 DEF Union, l, S

\* The union of two arrays: the first one, as it is, and what it lacks of the second.
LEMMA ArrayUnion ==
  ASSUME NEW W, NEW e \in Seq(W), NEW d \in Seq(W)
  PROVE  /\ MergeArray(e, d) \in Seq(W) /\ IsPrefix(e, MergeArray(e, d))
         /\ \A i \in DOMAIN d : Contains(MergeArray(e, d), d[i])
         /\ (\A i \in DOMAIN d : Contains(e, d[i])) => MergeArray(e, d) = e
<1>1. PICK m : Union(m, W, e, d)
  BY MergeArrayUnfolds
<1> DEFINE l == Len(d)
<1>2. l \in Nat /\ DOMAIN d = 1 .. l /\ Len(e) \in Nat
  OBVIOUS
<1>3. /\ m[0] = e /\ MergeArray(e, d) = m[l]
      /\ \A n \in 0 .. l : m[n] \in Seq(W)
      /\ \A n \in 1 .. l : m[n] = AppendNew(m[n - 1], d[n]) /\ d[n] \in W
  BY <1>1 DEF Union
<1> DEFINE Longer(s, t) == Len(s) <= Len(t) /\ \A j \in 1 .. Len(s) : t[j] = s[j]
           T == {n \in 0 .. l : Longer(e, m[n]) /\ \A i \in 1 .. n : Contains(m[n], d[i])}
<1> HIDE DEF l
<1>4. 0 \in T
  BY <1>2, <1>3
<1>5. ASSUME NEW n \in 0 .. l - 1, n \in T PROVE n + 1 \in T
  <2>1. n + 1 \in 1 .. l /\ n + 1 \in 0 .. l /\ (n + 1) - 1 = n /\ n \in 0 .. l /\ n \in Nat
    BY <1>2
  <2> DEFINE s == m[n]
             t == m[n + 1]
  <2>2. s \in Seq(W) /\ t \in Seq(W) /\ t = AppendNew(s, d[n + 1]) /\ d[n + 1] \in W
    BY <1>3, <2>1
  <2>3. Longer(e, s) /\ \A i \in 1 .. n : Contains(s, d[i])
    BY <1>5
  <2> HIDE DEF s, t, T
  <2>4. Longer(s, t) /\ Contains(t, d[n + 1])
    <3>1. CASE Contains(s, d[n + 1])
      BY <2>2, <3>1 DEF AppendNew
    <3>2. CASE ~Contains(s, d[n + 1])
      <4>1. t = Append(s, d[n + 1])
        BY <2>2, <3>2 DEF AppendNew
      <4>2. Len(t) = Len(s) + 1 /\ t[Len(s) + 1] = d[n + 1] /\ \A j \in 1 .. Len(s) : t[j] = s[j]
        BY <2>2, <4>1
      <4>3. Len(s) \in Nat
        BY <2>2
      <4> QED
        BY <4>2, <4>3 DEF Contains
    <3> QED
      BY <3>1, <3>2
  <2>5. Len(s) \in Nat /\ Len(t) \in Nat
    BY <2>2
  <2>6. Longer(e, t)
    BY <1>2, <2>3, <2>4, <2>5
  <2>7. \A i \in 1 .. n : Contains(t, d[i])
    BY <2>3, <2>4, <2>5 DEF Contains
  <2>8. \A i \in 1 .. n + 1 : i \in 1 .. n \/ i = n + 1
    BY <2>1
  <2>9. \A i \in 1 .. n + 1 : Contains(t, d[i])
    BY <2>4, <2>7, <2>8
  <2> QED
    BY <2>1, <2>6, <2>9 DEF T, t
<1>6. l \in T
  <2> HIDE DEF T
  <2>1. 0 .. l \subseteq T
    BY <1>2, <1>4, <1>5, SetInduction
  <2> QED
    BY <1>2, <2>1
<1>7. Longer(e, MergeArray(e, d)) /\ \A i \in 1 .. l : Contains(MergeArray(e, d), d[i])
  BY <1>3, <1>6
<1>8. MergeArray(e, d) \in Seq(W)
  BY <1>2, <1>3
<1>9. IsPrefix(e, MergeArray(e, d))
  <2> DEFINE t == MergeArray(e, d)
  <2>1. t \in Seq(W) /\ Len(t) \in Nat /\ Len(e) <= Len(t) /\ \A j \in 1 .. Len(e) : t[j] = e[j]
    BY <1>7, <1>8
  <2> HIDE DEF t
  <2>2. SubSeq(e, 1, Len(e)) = [j \in 1 .. Len(e) |-> e[j]]
    BY <1>2
  <2>3. SubSeq(t, 1, Len(e)) = [j \in 1 .. Len(e) |-> t[j]]
    BY <1>2, <2>1
  <2>4. SubSeq(e, 1, Len(e)) = SubSeq(t, 1, Len(e))
    BY <2>1, <2>2, <2>3
  <2> QED
    BY <2>1, <2>4 DEF IsPrefix, t
<1>10. ASSUME \A i \in 1 .. l : Contains(e, d[i]) PROVE MergeArray(e, d) = e
  <2> DEFINE U == {n \in 0 .. l : m[n] = e}
  <2>1. 0 \in U
    BY <1>2, <1>3
  <2>2. ASSUME NEW n \in 0 .. l - 1, n \in U PROVE n + 1 \in U
    <3>1. n + 1 \in 1 .. l /\ n + 1 \in 0 .. l /\ (n + 1) - 1 = n
      BY <1>2
    <3>2. m[n + 1] = AppendNew(e, d[n + 1])
      BY <1>3, <2>2, <3>1
    <3> QED
      BY <1>10, <3>1, <3>2 DEF AppendNew
  <2> HIDE DEF U
  <2>3. 0 .. l \subseteq U
    BY <1>2, <2>1, <2>2, SetInduction
  <2>4. l \in U
    BY <1>2, <2>3
  <2> QED
    BY <1>3, <2>4 DEF U
<1> QED
  BY <1>2, <1>7, <1>8, <1>9, <1>10

-----------------------------------------------------------------------------
\* What holds of the first, and of each with the one before, holds of all.
LEMMA TypedThroughout ==
  ASSUME NEW m \in Nat, NEW F, NEW T, F[0] \in T[0],
         \A n \in 1 .. m : F[n - 1] \in T[n - 1] => F[n] \in T[n]
  PROVE  \A n \in 0 .. m : F[n] \in T[n]
<1> DEFINE K == {n \in 0 .. m : F[n] \in T[n]}
<1>1. 0 \in K
  OBVIOUS
<1>2. ASSUME NEW n \in 0 .. m - 1, n \in K PROVE n + 1 \in K
  <2>1. n + 1 \in 1 .. m /\ (n + 1) - 1 = n /\ n + 1 \in 0 .. m
    OBVIOUS
  <2>2. F[n] \in T[n]
    BY <1>2
  <2> QED
    BY <2>1, <2>2
<1> HIDE DEF K
<1>3. 0 .. m \subseteq K
  BY <1>1, <1>2, SetInduction
<1> QED
  BY <1>3 DEF K

\* One level of the merge, on top of the merge g of the level below.
MergeOf(g, e, d) ==
  IF d = Missing THEN e
  ELSE IF Lacking(e) THEN d
  ELSE IF IsObject(e) /\ IsObject(d) THEN [object |-> [k \in Field |-> g[e.object[k]][d.object[k]]]]
  ELSE IF IsArray(e) /\ IsArray(d) THEN [array |-> MergeArray(e.array, d.array)]
  ELSE e

Merges(n) == [Slot(n) -> [Slot(n) -> Slot(n)]]

\* One level of the merge stays among the values of its level.
LEMMA MergeOfStays ==
  ASSUME ConfigSeedAssumption, NEW n \in 0 .. Depth, NEW e \in Slot(n), NEW d \in Slot(n),
         NEW g, n \in 1 .. Depth => g \in Merges(n - 1)
  PROVE  /\ MergeOf(g, e, d) \in Slot(n)
         /\ n = 0 => MergeOf(g, e, d) = IF d = Missing THEN e ELSE IF Lacking(e) THEN d ELSE e
<1>1. CASE d = Missing \/ e = Missing
  BY <1>1 DEF MergeOf, Lacking
<1>2. CASE d # Missing /\ e # Missing /\ IsObject(e) /\ IsObject(d)
  <2>1. /\ n \in 1 .. Depth /\ n # 0
        /\ e.object \in [Field -> Slot(n - 1)] /\ d.object \in [Field -> Slot(n - 1)]
    BY <1>2, ShapesOf
  <2> DEFINE f == [k \in Field |-> g[e.object[k]][d.object[k]]]
  <2>2. g \in [Slot(n - 1) -> [Slot(n - 1) -> Slot(n - 1)]]
    BY <2>1 DEF Merges
  <2>3. f \in [Field -> Slot(n - 1)]
    BY <2>1, <2>2
  <2>4. MergeOf(g, e, d) = [object |-> f]
    BY <1>2 DEF MergeOf, Lacking
  <2> HIDE DEF f
  <2> QED
    BY <2>1, <2>3, <2>4, Makes
<1>3. CASE d # Missing /\ e # Missing /\ ~(IsObject(e) /\ IsObject(d)) /\ IsArray(e) /\ IsArray(d)
  <2>1. n \in 1 .. Depth /\ n # 0 /\ e.array \in Seq(Values[n - 1]) /\ d.array \in Seq(Values[n - 1])
    BY <1>3, ShapesOf
  <2>2. MergeArray(e.array, d.array) \in Seq(Values[n - 1])
    BY <2>1, ArrayUnion
  <2>3. MergeOf(g, e, d) = [array |-> MergeArray(e.array, d.array)]
    BY <1>3 DEF MergeOf, Lacking
  <2> QED
    BY <2>1, <2>2, <2>3, Makes
<1>4. CASE /\ d # Missing /\ e # Missing /\ ~(IsObject(e) /\ IsObject(d))
           /\ ~(IsArray(e) /\ IsArray(d))
  BY <1>4 DEF MergeOf, Lacking
<1> QED
  BY <1>1, <1>2, <1>3, <1>4

\* The merge exists at each level, of values of that level, and is made from the one below.
LEMMA MergingUnfolds ==
  ASSUME ConfigSeedAssumption
  PROVE  \A n \in 0 .. Depth :
           /\ Merging[n] \in Merges(n)
           /\ \A e, d \in Slot(n) : Merging[n][e][d] = MergeOf(Merging[n - 1], e, d)
<1> DEFINE Level(g, n) == [e \in Slot(n) |-> [d \in Slot(n) |-> MergeOf(g, e, d)]]
           T == [n \in 0 .. Depth |-> Merges(n)]
           f == [n \in 1 .. Depth |-> [g \in T[n - 1] |-> Level(g, n)]]
           Is(g) == g = [n \in 0 .. Depth |-> Level(g[n - 1], n)]
<1>1. Depth \in Nat
  BY DEF ConfigSeedAssumption
<1>2. ASSUME NEW n \in 0 .. Depth, NEW g, n \in 1 .. Depth => g \in Merges(n - 1)
      PROVE  Level(g, n) \in Merges(n)
  <2>1. \A e, d \in Slot(n) : MergeOf(g, e, d) \in Slot(n)
    BY <1>2, MergeOfStays
  <2> QED
    BY <2>1 DEF Merges
<1>3. \A g, h : Level(g, 0) = Level(h, 0)
  <2>1. \A g : \A e, d \in Slot(0) :
          MergeOf(g, e, d) = IF d = Missing THEN e ELSE IF Lacking(e) THEN d ELSE e
    <3>1. 0 \in 0 .. Depth /\ 0 \notin 1 .. Depth
      BY <1>1
    <3> QED
      BY <3>1, MergeOfStays
  <2> QED
    BY <2>1
<1> DEFINE a == Level(0, 0)
<1>4. a \in T[0]
  <2>1. 0 \in 0 .. Depth /\ 0 \notin 1 .. Depth
    BY <1>1
  <2> HIDE DEF Level
  <2> QED
    BY <1>2, <2>1
<1> HIDE DEF Level
<1>5. \A n \in 1 .. Depth : f[n] \in [T[n - 1] -> T[n]]
  <2> SUFFICES ASSUME NEW n \in 1 .. Depth PROVE f[n] \in [T[n - 1] -> T[n]]
    OBVIOUS
  <2>1. n \in 0 .. Depth /\ n - 1 \in 0 .. Depth
    BY <1>1
  <2>2. T[n - 1] = Merges(n - 1) /\ T[n] = Merges(n)
    BY <2>1
  <2>3. \A g \in Merges(n - 1) : Level(g, n) \in Merges(n)
    BY <1>2, <2>1
  <2>4. f[n] = [g \in T[n - 1] |-> Level(g, n)]
    OBVIOUS
  <2> HIDE DEF T, f
  <2> QED
    BY <2>2, <2>3, <2>4
<1> HIDE DEF a
<1>6. \E g : TypedIteration(g, Depth, T, a, f)
  <2> HIDE DEF T, f
  <2>1. TypedSteps(Depth, T, a, f)
    BY <1>4, <1>5 DEF TypedSteps
  <2> QED
    BY <1>1, <2>1, TypedIterates
<1>7. PICK g : TypedIteration(g, Depth, T, a, f)
  BY <1>6
<1>8. /\ g = [n \in 0 .. Depth |-> g[n]]
      /\ g[0] = a /\ \A n \in 1 .. Depth : g[n] = f[n][g[n - 1]]
      /\ \A n \in 0 .. Depth : g[n] \in T[n]
  <2> HIDE DEF T, f
  <2> QED
    BY <1>7 DEF TypedIteration
<1>9. Is(g)
  <2>1. ASSUME NEW n \in 1 .. Depth PROVE g[n] = Level(g[n - 1], n)
    <3>1. n - 1 \in 0 .. Depth
      BY <1>1
    <3>2. g[n - 1] \in T[n - 1]
      BY <1>8, <3>1
    <3> HIDE DEF T
    <3> QED
      BY <1>8, <3>2
  <2>2. g[0] = Level(g[0 - 1], 0)
    BY <1>3, <1>8 DEF a
  <2>3. \A n \in 0 .. Depth : g[n] = Level(g[n - 1], n)
    <3>1. \A n \in 0 .. Depth : n = 0 \/ n \in 1 .. Depth
      BY <1>1
    <3> QED
      BY <2>1, <2>2, <3>1
  <2> QED
    BY <1>8, <2>3
<1>10. Merging = CHOOSE h : Is(h)
  BY DEF Merging, MergeOf, Level, Slot
<1> DEFINE M == Merging
<1>11. Is(M)
  <2> HIDE DEF Is
  <2> QED
    BY <1>9, <1>10
<1> HIDE DEF M
<1>12. \A n \in 0 .. Depth : M[n] = Level(M[n - 1], n)
  BY <1>11
<1>13. \A n \in 0 .. Depth : M[n] \in T[n]
  <2>1. M[0] \in T[0]
    <3>1. M[0] = Level(M[0 - 1], 0)
      BY <1>1, <1>12
    <3> QED
      BY <1>3, <1>4, <3>1 DEF a
  <2>2. \A n \in 1 .. Depth : M[n - 1] \in T[n - 1] => M[n] \in T[n]
    <3> SUFFICES ASSUME NEW n \in 1 .. Depth, M[n - 1] \in T[n - 1] PROVE M[n] \in T[n]
      OBVIOUS
    <3>1. n \in 0 .. Depth /\ n - 1 \in 0 .. Depth
      BY <1>1
    <3> QED
      BY <1>2, <1>12, <3>1
  <2> HIDE DEF T
  <2> QED
    BY <1>1, <2>1, <2>2, TypedThroughout
<1>14. \A n \in 0 .. Depth : M[n] \in Merges(n)
  BY <1>13
<1>15. \A n \in 0 .. Depth : \A e, d \in Slot(n) : M[n][e][d] = MergeOf(M[n - 1], e, d)
  <2> SUFFICES ASSUME NEW n \in 0 .. Depth, NEW e \in Slot(n), NEW d \in Slot(n)
               PROVE  M[n][e][d] = MergeOf(M[n - 1], e, d)
    OBVIOUS
  <2>1. M[n] = Level(M[n - 1], n)
    BY <1>12
  <2>2. Level(M[n - 1], n)[e][d] = MergeOf(M[n - 1], e, d)
    BY DEF Level
  <2> QED
    BY <2>1, <2>2
<1> QED
  BY <1>14, <1>15 DEF M

\* One level of the decoding, on top of the decoding g of the level below.
DecodeOf(g, v) ==
  IF IsObject(v) THEN [object |-> [k \in Field |-> g[v.object[k]]]]
  ELSE IF IsArray(v) THEN [array |-> [i \in DOMAIN v.array |-> g[v.array[i]]]]
  ELSE IF v = [scalar |-> "wide"] THEN [scalar |-> "rounded"] ELSE v

\* A value becomes one, and nothing stays nothing.
Decodes(n) == {g \in [Slot(n) -> Slot(n)] : g[Missing] = Missing /\ \A v \in Values[n] : g[v] \in Values[n]}

\* One level of decoding stays among the values of its level.
LEMMA DecodeOfStays ==
  ASSUME ConfigSeedAssumption, NEW n \in 0 .. Depth, NEW v \in Slot(n),
         NEW g, n \in 1 .. Depth => g \in Decodes(n - 1)
  PROVE  /\ v = Missing => DecodeOf(g, v) = Missing
         /\ v \in Values[n] => DecodeOf(g, v) \in Values[n]
         /\ n = 0 => DecodeOf(g, v) = IF v = [scalar |-> "wide"] THEN [scalar |-> "rounded"] ELSE v
<1>1. CASE v = Missing
  <2>1. ~IsArray(v) /\ ~IsObject(v) /\ v # [scalar |-> "wide"] /\ v \notin Values[n]
    BY <1>1, Makes DEF Missing, IsArray, IsObject
  <2> QED
    BY <1>1, <2>1 DEF DecodeOf
<1>2. CASE v \in [scalar : Scalar] /\ ~IsArray(v) /\ ~IsObject(v) /\ v # Missing
  <2>1. [scalar |-> "rounded"] \in Values[n] /\ v \in Values[n]
    BY <1>2, Makes DEF ConfigSeedAssumption
  <2> QED
    BY <1>2, <2>1 DEF DecodeOf
<1>3. CASE n \in 1 .. Depth /\ IsArray(v) /\ ~IsObject(v) /\ v # Missing /\ v.array \in Seq(Values[n - 1])
  <2>1. \A w \in Values[n - 1] : g[w] \in Values[n - 1]
    BY <1>3 DEF Decodes
  <2> DEFINE b == [i \in DOMAIN v.array |-> g[v.array[i]]]
  <2>2. b \in Seq(Values[n - 1])
    <3>1. Len(v.array) \in Nat /\ DOMAIN v.array = 1 .. Len(v.array)
          /\ \A i \in 1 .. Len(v.array) : v.array[i] \in Values[n - 1]
      BY <1>3
    <3>2. b \in [1 .. Len(v.array) -> Values[n - 1]]
      BY <2>1, <3>1
    <3> HIDE DEF b
    <3> QED
      BY <3>1, <3>2
  <2>3. DecodeOf(g, v) = [array |-> b]
    BY <1>3 DEF DecodeOf
  <2> HIDE DEF b
  <2>4. n # 0
    BY <1>3 DEF ConfigSeedAssumption
  <2> QED
    BY <1>3, <2>2, <2>3, <2>4, Makes
<1>4. CASE n \in 1 .. Depth /\ IsObject(v) /\ v # Missing /\ v.object \in [Field -> Slot(n - 1)]
  <2>1. g \in [Slot(n - 1) -> Slot(n - 1)]
    BY <1>4 DEF Decodes
  <2> DEFINE b == [k \in Field |-> g[v.object[k]]]
  <2>2. b \in [Field -> Slot(n - 1)]
    BY <1>4, <2>1
  <2>3. DecodeOf(g, v) = [object |-> b]
    BY <1>4 DEF DecodeOf
  <2> HIDE DEF b
  <2>4. n # 0
    BY <1>4 DEF ConfigSeedAssumption
  <2> QED
    BY <1>4, <2>2, <2>3, <2>4, Makes
<1> QED
  BY <1>1, <1>2, <1>3, <1>4, ShapesOf

\* Decoding exists at each level, and is made from the one below.
LEMMA DecodingUnfolds ==
  ASSUME ConfigSeedAssumption
  PROVE  \A n \in 0 .. Depth :
           /\ Decoding[n] \in Decodes(n)
           /\ \A v \in Slot(n) : Decoding[n][v] = DecodeOf(Decoding[n - 1], v)
<1> DEFINE Level(g, n) == [v \in Slot(n) |-> DecodeOf(g, v)]
           T == [n \in 0 .. Depth |-> Decodes(n)]
           f == [n \in 1 .. Depth |-> [g \in T[n - 1] |-> Level(g, n)]]
           Is(g) == g = [n \in 0 .. Depth |-> Level(g[n - 1], n)]
<1>1. Depth \in Nat
  BY DEF ConfigSeedAssumption
<1>2. ASSUME NEW n \in 0 .. Depth, NEW g, n \in 1 .. Depth => g \in Decodes(n - 1)
      PROVE  Level(g, n) \in Decodes(n)
  <2>1. \A v \in Slot(n) : /\ v = Missing => DecodeOf(g, v) = Missing
                           /\ v \in Values[n] => DecodeOf(g, v) \in Values[n]
    BY <1>2, DecodeOfStays
  <2>2. /\ Missing \in Slot(n) /\ Values[n] \subseteq Slot(n)
        /\ \A v \in Slot(n) : v = Missing \/ v \in Values[n]
    BY DEF Slot, OrMissing
  <2>3. \A v \in Slot(n) : DecodeOf(g, v) \in Slot(n)
    BY <2>1, <2>2
  <2> QED
    BY <2>1, <2>2, <2>3 DEF Decodes
<1>3. \A g, h : Level(g, 0) = Level(h, 0)
  <2>1. \A g : \A v \in Slot(0) :
          DecodeOf(g, v) = IF v = [scalar |-> "wide"] THEN [scalar |-> "rounded"] ELSE v
    <3>1. 0 \in 0 .. Depth /\ 0 \notin 1 .. Depth
      BY <1>1
    <3> QED
      BY <3>1, DecodeOfStays
  <2> QED
    BY <2>1
<1> DEFINE a == Level(0, 0)
<1>4. a \in T[0]
  <2>1. 0 \in 0 .. Depth /\ 0 \notin 1 .. Depth
    BY <1>1
  <2> HIDE DEF Level
  <2> QED
    BY <1>2, <2>1
<1> HIDE DEF Level
<1>5. \A n \in 1 .. Depth : f[n] \in [T[n - 1] -> T[n]]
  <2> SUFFICES ASSUME NEW n \in 1 .. Depth PROVE f[n] \in [T[n - 1] -> T[n]]
    OBVIOUS
  <2>1. n \in 0 .. Depth /\ n - 1 \in 0 .. Depth
    BY <1>1
  <2>2. T[n - 1] = Decodes(n - 1) /\ T[n] = Decodes(n)
    BY <2>1
  <2>3. \A g \in Decodes(n - 1) : Level(g, n) \in Decodes(n)
    BY <1>2, <2>1
  <2>4. f[n] = [g \in T[n - 1] |-> Level(g, n)]
    OBVIOUS
  <2> HIDE DEF T, f
  <2> QED
    BY <2>2, <2>3, <2>4
<1> HIDE DEF a
<1>6. \E g : TypedIteration(g, Depth, T, a, f)
  <2> HIDE DEF T, f
  <2>1. TypedSteps(Depth, T, a, f)
    BY <1>4, <1>5 DEF TypedSteps
  <2> QED
    BY <1>1, <2>1, TypedIterates
<1>7. PICK g : TypedIteration(g, Depth, T, a, f)
  BY <1>6
<1>8. /\ g = [n \in 0 .. Depth |-> g[n]]
      /\ g[0] = a /\ \A n \in 1 .. Depth : g[n] = f[n][g[n - 1]]
      /\ \A n \in 0 .. Depth : g[n] \in T[n]
  <2> HIDE DEF T, f
  <2> QED
    BY <1>7 DEF TypedIteration
<1>9. Is(g)
  <2>1. ASSUME NEW n \in 1 .. Depth PROVE g[n] = Level(g[n - 1], n)
    <3>1. n - 1 \in 0 .. Depth
      BY <1>1
    <3>2. g[n - 1] \in T[n - 1]
      BY <1>8, <3>1
    <3> HIDE DEF T
    <3> QED
      BY <1>8, <3>2
  <2>2. g[0] = Level(g[0 - 1], 0)
    BY <1>3, <1>8 DEF a
  <2>3. \A n \in 0 .. Depth : g[n] = Level(g[n - 1], n)
    <3>1. \A n \in 0 .. Depth : n = 0 \/ n \in 1 .. Depth
      BY <1>1
    <3> QED
      BY <2>1, <2>2, <3>1
  <2> QED
    BY <1>8, <2>3
<1>10. Decoding = CHOOSE h : Is(h)
  BY DEF Decoding, DecodeOf, Level, Slot
<1> DEFINE M == Decoding
<1>11. Is(M)
  <2> HIDE DEF Is
  <2> QED
    BY <1>9, <1>10
<1> HIDE DEF M
<1>12. \A n \in 0 .. Depth : M[n] = Level(M[n - 1], n)
  BY <1>11
<1>13. \A n \in 0 .. Depth : M[n] \in T[n]
  <2>1. M[0] \in T[0]
    <3>1. M[0] = Level(M[0 - 1], 0)
      BY <1>1, <1>12
    <3> QED
      BY <1>3, <1>4, <3>1 DEF a
  <2>2. \A n \in 1 .. Depth : M[n - 1] \in T[n - 1] => M[n] \in T[n]
    <3> SUFFICES ASSUME NEW n \in 1 .. Depth, M[n - 1] \in T[n - 1] PROVE M[n] \in T[n]
      OBVIOUS
    <3>1. n \in 0 .. Depth /\ n - 1 \in 0 .. Depth
      BY <1>1
    <3> QED
      BY <1>2, <1>12, <3>1
  <2> HIDE DEF T
  <2> QED
    BY <1>1, <2>1, <2>2, TypedThroughout
<1>14. \A n \in 0 .. Depth : M[n] \in Decodes(n)
  BY <1>13
<1>15. \A n \in 0 .. Depth : \A v \in Slot(n) : M[n][v] = DecodeOf(M[n - 1], v)
  <2> SUFFICES ASSUME NEW n \in 0 .. Depth, NEW v \in Slot(n) PROVE M[n][v] = DecodeOf(M[n - 1], v)
    OBVIOUS
  <2>1. M[n] = Level(M[n - 1], n)
    BY <1>12
  <2>2. Level(M[n - 1], n)[v] = DecodeOf(M[n - 1], v)
    BY DEF Level
  <2> QED
    BY <2>1, <2>2
<1> QED
  BY <1>14, <1>15 DEF M

-----------------------------------------------------------------------------
Pairs(n) == SUBSET (Slot(n) \X Slot(n))

\* One level of Kept, on top of the pairs g of the level below.
KeptOf(g, a, b) ==
  \/ a = Missing \/ a = b
  \/ IsObject(a) /\ IsObject(b) /\ \A k \in Field : <<a.object[k], b.object[k]>> \in g
  \/ IsArray(a) /\ IsArray(b) /\ IsPrefix(a.array, b.array)

\* Kept is, at each level, made from the pairs of the level below.
LEMMA KeptUnfolds ==
  ASSUME ConfigSeedAssumption
  PROVE  \A n \in 0 .. Depth : \A a, b \in Slot(n) : <<a, b>> \in Kept[n] <=> KeptOf(Kept[n - 1], a, b)
<1> DEFINE Level(g, n) == {p \in Slot(n) \X Slot(n) : KeptOf(g, p[1], p[2])}
           T == [n \in 0 .. Depth |-> Pairs(n)]
           f == [n \in 1 .. Depth |-> [g \in T[n - 1] |-> Level(g, n)]]
           Is(g) == g = [n \in 0 .. Depth |-> Level(g[n - 1], n)]
<1>1. Depth \in Nat
  BY DEF ConfigSeedAssumption
<1>2. ASSUME NEW n \in 0 .. Depth, NEW g, n \in 1 .. Depth => g \in Pairs(n - 1)
      PROVE  Level(g, n) \in Pairs(n)
  BY DEF Pairs
<1>3. \A g, h : Level(g, 0) = Level(h, 0)
  <2>1. 0 \in 0 .. Depth /\ 0 \notin 1 .. Depth
    BY <1>1
  <2>2. \A v \in Slot(0) : ~IsObject(v)
    BY <2>1, ShapesOf
  <2>3. \A g, h : \A v, w \in Slot(0) : KeptOf(g, v, w) <=> KeptOf(h, v, w)
    BY <2>2 DEF KeptOf
  <2> SUFFICES ASSUME NEW g, NEW h PROVE Level(g, 0) = Level(h, 0)
    OBVIOUS
  <2>4. \A p \in Slot(0) \X Slot(0) : p[1] \in Slot(0) /\ p[2] \in Slot(0)
    OBVIOUS
  <2>5. \A p \in Slot(0) \X Slot(0) : KeptOf(g, p[1], p[2]) <=> KeptOf(h, p[1], p[2])
    BY <2>3, <2>4
  <2> QED
    BY <2>5
<1> DEFINE base == Level(0, 0)
<1>4. base \in T[0]
  <2>1. 0 \in 0 .. Depth /\ 0 \notin 1 .. Depth
    BY <1>1
  <2> HIDE DEF Level
  <2> QED
    BY <1>2, <2>1
<1> HIDE DEF Level
<1>5. \A n \in 1 .. Depth : f[n] \in [T[n - 1] -> T[n]]
  <2> SUFFICES ASSUME NEW n \in 1 .. Depth PROVE f[n] \in [T[n - 1] -> T[n]]
    OBVIOUS
  <2>1. n \in 0 .. Depth /\ n - 1 \in 0 .. Depth
    BY <1>1
  <2>2. T[n - 1] = Pairs(n - 1) /\ T[n] = Pairs(n)
    BY <2>1
  <2>3. \A g \in Pairs(n - 1) : Level(g, n) \in Pairs(n)
    BY <1>2, <2>1
  <2>4. f[n] = [g \in T[n - 1] |-> Level(g, n)]
    OBVIOUS
  <2> HIDE DEF T, f
  <2> QED
    BY <2>2, <2>3, <2>4
<1> HIDE DEF base
<1>6. \E g : TypedIteration(g, Depth, T, base, f)
  <2> HIDE DEF T, f
  <2>1. TypedSteps(Depth, T, base, f)
    BY <1>4, <1>5 DEF TypedSteps
  <2> QED
    BY <1>1, <2>1, TypedIterates
<1>7. PICK g : TypedIteration(g, Depth, T, base, f)
  BY <1>6
<1>8. /\ g = [n \in 0 .. Depth |-> g[n]]
      /\ g[0] = base /\ \A n \in 1 .. Depth : g[n] = f[n][g[n - 1]]
      /\ \A n \in 0 .. Depth : g[n] \in T[n]
  <2> HIDE DEF T, f
  <2> QED
    BY <1>7 DEF TypedIteration
<1>9. Is(g)
  <2>1. ASSUME NEW n \in 1 .. Depth PROVE g[n] = Level(g[n - 1], n)
    <3>1. n - 1 \in 0 .. Depth
      BY <1>1
    <3>2. g[n - 1] \in T[n - 1]
      BY <1>8, <3>1
    <3> HIDE DEF T
    <3> QED
      BY <1>8, <3>2
  <2>2. g[0] = Level(g[0 - 1], 0)
    BY <1>3, <1>8 DEF base
  <2>3. \A n \in 0 .. Depth : g[n] = Level(g[n - 1], n)
    <3>1. \A n \in 0 .. Depth : n = 0 \/ n \in 1 .. Depth
      BY <1>1
    <3> QED
      BY <2>1, <2>2, <3>1
  <2> QED
    BY <1>8, <2>3
<1>10. Kept = CHOOSE h : Is(h)
  BY DEF Kept, KeptOf, Level, Slot
<1> DEFINE M == Kept
<1>11. Is(M)
  <2> HIDE DEF Is
  <2> QED
    BY <1>9, <1>10
<1> HIDE DEF M
<1>12. \A n \in 0 .. Depth : M[n] = Level(M[n - 1], n)
  BY <1>11
<1>13. \A n \in 0 .. Depth : M[n] \in T[n]
  <2>1. M[0] \in T[0]
    <3>1. M[0] = Level(M[0 - 1], 0)
      BY <1>1, <1>12
    <3> QED
      BY <1>3, <1>4, <3>1 DEF base
  <2>2. \A n \in 1 .. Depth : M[n - 1] \in T[n - 1] => M[n] \in T[n]
    <3> SUFFICES ASSUME NEW n \in 1 .. Depth, M[n - 1] \in T[n - 1] PROVE M[n] \in T[n]
      OBVIOUS
    <3>1. n \in 0 .. Depth /\ n - 1 \in 0 .. Depth
      BY <1>1
    <3> QED
      BY <1>2, <1>12, <3>1
  <2> HIDE DEF T
  <2> QED
    BY <1>1, <2>1, <2>2, TypedThroughout
<1>14. \A n \in 0 .. Depth : M[n] \in Pairs(n)
  BY <1>13
<1>15. \A n \in 0 .. Depth : \A a, b \in Slot(n) : <<a, b>> \in M[n] <=> KeptOf(M[n - 1], a, b)
  <2> SUFFICES ASSUME NEW n \in 0 .. Depth, NEW a \in Slot(n), NEW b \in Slot(n)
               PROVE  <<a, b>> \in M[n] <=> KeptOf(M[n - 1], a, b)
    OBVIOUS
  <2>1. M[n] = Level(M[n - 1], n)
    BY <1>12
  <2>2. <<a, b>> \in Level(M[n - 1], n) <=> KeptOf(M[n - 1], a, b)
    BY DEF Level
  <2> QED
    BY <2>1, <2>2
<1> QED
  BY <1>15 DEF M

\* One level of Filled, on top of the pairs g of the level below.
FilledOf(g, d, b) ==
  \/ d = Missing
  \/ /\ b # Missing
     /\ IsObject(d) /\ IsObject(b) => \A k \in Field : <<d.object[k], b.object[k]>> \in g
     /\ IsArray(d) /\ IsArray(b) => \A i \in DOMAIN d.array : Contains(b.array, d.array[i])

\* Filled is, at each level, made from the pairs of the level below.
LEMMA FilledUnfolds ==
  ASSUME ConfigSeedAssumption
  PROVE  \A n \in 0 .. Depth : \A d, b \in Slot(n) : <<d, b>> \in Filled[n] <=> FilledOf(Filled[n - 1], d, b)
<1> DEFINE Level(g, n) == {p \in Slot(n) \X Slot(n) : FilledOf(g, p[1], p[2])}
           T == [n \in 0 .. Depth |-> Pairs(n)]
           f == [n \in 1 .. Depth |-> [g \in T[n - 1] |-> Level(g, n)]]
           Is(g) == g = [n \in 0 .. Depth |-> Level(g[n - 1], n)]
<1>1. Depth \in Nat
  BY DEF ConfigSeedAssumption
<1>2. ASSUME NEW n \in 0 .. Depth, NEW g, n \in 1 .. Depth => g \in Pairs(n - 1)
      PROVE  Level(g, n) \in Pairs(n)
  BY DEF Pairs
<1>3. \A g, h : Level(g, 0) = Level(h, 0)
  <2>1. 0 \in 0 .. Depth /\ 0 \notin 1 .. Depth
    BY <1>1
  <2>2. \A v \in Slot(0) : ~IsObject(v)
    BY <2>1, ShapesOf
  <2>3. \A g, h : \A v, w \in Slot(0) : FilledOf(g, v, w) <=> FilledOf(h, v, w)
    BY <2>2 DEF FilledOf
  <2> SUFFICES ASSUME NEW g, NEW h PROVE Level(g, 0) = Level(h, 0)
    OBVIOUS
  <2>4. \A p \in Slot(0) \X Slot(0) : p[1] \in Slot(0) /\ p[2] \in Slot(0)
    OBVIOUS
  <2>5. \A p \in Slot(0) \X Slot(0) : FilledOf(g, p[1], p[2]) <=> FilledOf(h, p[1], p[2])
    BY <2>3, <2>4
  <2> QED
    BY <2>5
<1> DEFINE a == Level(0, 0)
<1>4. a \in T[0]
  <2>1. 0 \in 0 .. Depth /\ 0 \notin 1 .. Depth
    BY <1>1
  <2> HIDE DEF Level
  <2> QED
    BY <1>2, <2>1
<1> HIDE DEF Level
<1>5. \A n \in 1 .. Depth : f[n] \in [T[n - 1] -> T[n]]
  <2> SUFFICES ASSUME NEW n \in 1 .. Depth PROVE f[n] \in [T[n - 1] -> T[n]]
    OBVIOUS
  <2>1. n \in 0 .. Depth /\ n - 1 \in 0 .. Depth
    BY <1>1
  <2>2. T[n - 1] = Pairs(n - 1) /\ T[n] = Pairs(n)
    BY <2>1
  <2>3. \A g \in Pairs(n - 1) : Level(g, n) \in Pairs(n)
    BY <1>2, <2>1
  <2>4. f[n] = [g \in T[n - 1] |-> Level(g, n)]
    OBVIOUS
  <2> HIDE DEF T, f
  <2> QED
    BY <2>2, <2>3, <2>4
<1> HIDE DEF a
<1>6. \E g : TypedIteration(g, Depth, T, a, f)
  <2> HIDE DEF T, f
  <2>1. TypedSteps(Depth, T, a, f)
    BY <1>4, <1>5 DEF TypedSteps
  <2> QED
    BY <1>1, <2>1, TypedIterates
<1>7. PICK g : TypedIteration(g, Depth, T, a, f)
  BY <1>6
<1>8. /\ g = [n \in 0 .. Depth |-> g[n]]
      /\ g[0] = a /\ \A n \in 1 .. Depth : g[n] = f[n][g[n - 1]]
      /\ \A n \in 0 .. Depth : g[n] \in T[n]
  <2> HIDE DEF T, f
  <2> QED
    BY <1>7 DEF TypedIteration
<1>9. Is(g)
  <2>1. ASSUME NEW n \in 1 .. Depth PROVE g[n] = Level(g[n - 1], n)
    <3>1. n - 1 \in 0 .. Depth
      BY <1>1
    <3>2. g[n - 1] \in T[n - 1]
      BY <1>8, <3>1
    <3> HIDE DEF T
    <3> QED
      BY <1>8, <3>2
  <2>2. g[0] = Level(g[0 - 1], 0)
    BY <1>3, <1>8 DEF a
  <2>3. \A n \in 0 .. Depth : g[n] = Level(g[n - 1], n)
    <3>1. \A n \in 0 .. Depth : n = 0 \/ n \in 1 .. Depth
      BY <1>1
    <3> QED
      BY <2>1, <2>2, <3>1
  <2> QED
    BY <1>8, <2>3
<1>10. Filled = CHOOSE h : Is(h)
  BY DEF Filled, FilledOf, Level, Slot
<1> DEFINE M == Filled
<1>11. Is(M)
  <2> HIDE DEF Is
  <2> QED
    BY <1>9, <1>10
<1> HIDE DEF M
<1>12. \A n \in 0 .. Depth : M[n] = Level(M[n - 1], n)
  BY <1>11
<1>13. \A n \in 0 .. Depth : M[n] \in T[n]
  <2>1. M[0] \in T[0]
    <3>1. M[0] = Level(M[0 - 1], 0)
      BY <1>1, <1>12
    <3> QED
      BY <1>3, <1>4, <3>1 DEF a
  <2>2. \A n \in 1 .. Depth : M[n - 1] \in T[n - 1] => M[n] \in T[n]
    <3> SUFFICES ASSUME NEW n \in 1 .. Depth, M[n - 1] \in T[n - 1] PROVE M[n] \in T[n]
      OBVIOUS
    <3>1. n \in 0 .. Depth /\ n - 1 \in 0 .. Depth
      BY <1>1
    <3> QED
      BY <1>2, <1>12, <3>1
  <2> HIDE DEF T
  <2> QED
    BY <1>1, <2>1, <2>2, TypedThroughout
<1>14. \A n \in 0 .. Depth : M[n] \in Pairs(n)
  BY <1>13
<1>15. \A n \in 0 .. Depth : \A d, b \in Slot(n) : <<d, b>> \in M[n] <=> FilledOf(M[n - 1], d, b)
  <2> SUFFICES ASSUME NEW n \in 0 .. Depth, NEW d \in Slot(n), NEW b \in Slot(n)
               PROVE  <<d, b>> \in M[n] <=> FilledOf(M[n - 1], d, b)
    OBVIOUS
  <2>1. M[n] = Level(M[n - 1], n)
    BY <1>12
  <2>2. <<d, b>> \in Level(M[n - 1], n) <=> FilledOf(M[n - 1], d, b)
    BY DEF Level
  <2> QED
    BY <2>1, <2>2
<1> QED
  BY <1>15 DEF M

-----------------------------------------------------------------------------
\* Induction over the levels.
LEMMA LevelInduction ==
  ASSUME ConfigSeedAssumption, NEW T,
         \A n \in 0 .. Depth : (n \in 1 .. Depth => n - 1 \in T) => n \in T
  PROVE  \A n \in 0 .. Depth : n \in T
<1>1. Depth \in Nat
  BY DEF ConfigSeedAssumption
<1>2. 0 \in T
  BY <1>1
<1>3. \A n \in 0 .. Depth - 1 : n \in T => n + 1 \in T
  <2> SUFFICES ASSUME NEW n \in 0 .. Depth - 1, n \in T PROVE n + 1 \in T
    OBVIOUS
  <2>1. n + 1 \in 0 .. Depth /\ (n + 1) - 1 = n
    BY <1>1
  <2> QED
    BY <2>1
<1>4. 0 .. Depth \subseteq T
  BY <1>1, <1>2, <1>3, SetInduction
<1> QED
  BY <1>4

\* A field that is missing is neither an array nor an object.
LEMMA MissingHas == ~IsArray(Missing) /\ ~IsObject(Missing)
BY DEF Missing, IsArray, IsObject

\* An object or an array just made has the content it was given.
LEMMA MadeHas ==
  /\ \A f : [object |-> f].object = f /\ IsObject([object |-> f]) /\ ~IsArray([object |-> f]) /\ [object |-> f] # Missing
  /\ \A a : [array |-> a].array = a /\ IsArray([array |-> a]) /\ ~IsObject([array |-> a]) /\ [array |-> a] # Missing
BY DEF Missing, IsArray, IsObject

\* What a merge makes of two values, case by case.
LEMMA MergeType ==
  ASSUME ConfigSeedAssumption, NEW n \in 0 .. Depth, NEW e \in Slot(n), NEW d \in Slot(n)
  PROVE  Merging[n][e][d] \in Slot(n)
<1>1. Merging[n] \in [Slot(n) -> [Slot(n) -> Slot(n)]]
  BY MergingUnfolds DEF Merges
<1> QED
  BY <1>1

\* What a value that is no pair of objects or arrays merges into.
LEMMA MergePlain ==
  ASSUME ConfigSeedAssumption, NEW n \in 0 .. Depth, NEW e \in Slot(n), NEW d \in Slot(n)
  PROVE  /\ d = Missing => Merging[n][e][d] = e
         /\ e = Missing => Merging[n][e][d] = d
         /\ ~(IsObject(e) /\ IsObject(d)) /\ ~(IsArray(e) /\ IsArray(d)) /\ d # Missing /\ e # Missing
              => Merging[n][e][d] = e
<1>1. Merging[n][e][d] = MergeOf(Merging[n - 1], e, d)
  BY MergingUnfolds
<1> QED
  BY <1>1 DEF MergeOf, Lacking

\* Two objects merge field by field.
LEMMA MergeObjects ==
  ASSUME ConfigSeedAssumption, NEW n \in 0 .. Depth, NEW e \in Slot(n), NEW d \in Slot(n),
         IsObject(e), IsObject(d)
  PROVE  /\ n \in 1 .. Depth /\ n - 1 \in 0 .. Depth
         /\ e = [object |-> e.object] /\ e.object \in [Field -> Slot(n - 1)]
         /\ d = [object |-> d.object] /\ d.object \in [Field -> Slot(n - 1)]
         /\ \E f : /\ f \in [Field -> Slot(n - 1)] /\ Merging[n][e][d] = [object |-> f]
                  /\ \A k \in Field : f[k] = Merging[n - 1][e.object[k]][d.object[k]]
<1>1. e # Missing /\ d # Missing
  BY MissingHas
<1>2. /\ n \in 1 .. Depth /\ e = [object |-> e.object] /\ e.object \in [Field -> Slot(n - 1)]
      /\ d = [object |-> d.object] /\ d.object \in [Field -> Slot(n - 1)]
  BY <1>1, ShapesOf
<1>3. n - 1 \in 0 .. Depth
  BY <1>2 DEF ConfigSeedAssumption
<1>4. Merging[n][e][d] = MergeOf(Merging[n - 1], e, d)
  BY MergingUnfolds
<1> DEFINE f == [k \in Field |-> Merging[n - 1][e.object[k]][d.object[k]]]
<1>5. Merging[n][e][d] = [object |-> f]
  BY <1>1, <1>4 DEF MergeOf, Lacking
<1>6. f \in [Field -> Slot(n - 1)]
  BY <1>2, <1>3, MergeType
<1>7. \A k \in Field : f[k] = Merging[n - 1][e.object[k]][d.object[k]]
  OBVIOUS
<1> HIDE DEF f
<1> QED
  BY <1>2, <1>3, <1>5, <1>6, <1>7

\* Two arrays merge into their union.
LEMMA MergeArrays ==
  ASSUME ConfigSeedAssumption, NEW n \in 0 .. Depth, NEW e \in Slot(n), NEW d \in Slot(n),
         IsArray(e), IsArray(d)
  PROVE  /\ n \in 1 .. Depth /\ n - 1 \in 0 .. Depth /\ e = [array |-> e.array] /\ d = [array |-> d.array]
         /\ e.array \in Seq(Values[n - 1]) /\ d.array \in Seq(Values[n - 1])
         /\ Merging[n][e][d] = [array |-> MergeArray(e.array, d.array)]
<1>1. e # Missing /\ d # Missing
  BY MissingHas
<1>2. /\ n \in 1 .. Depth /\ ~IsObject(e) /\ e = [array |-> e.array] /\ d = [array |-> d.array]
      /\ e.array \in Seq(Values[n - 1]) /\ d.array \in Seq(Values[n - 1])
  BY <1>1, ShapesOf
<1>3. n - 1 \in 0 .. Depth
  BY <1>2 DEF ConfigSeedAssumption
<1>4. Merging[n][e][d] = MergeOf(Merging[n - 1], e, d)
  BY MergingUnfolds
<1>5. Merging[n][e][d] = [array |-> MergeArray(e.array, d.array)]
  BY <1>1, <1>2, <1>4 DEF MergeOf, Lacking
<1> QED
  BY <1>2, <1>3, <1>5

\* A value has its own defaults.
LEMMA FilledSelf ==
  ASSUME ConfigSeedAssumption, NEW n \in 0 .. Depth, NEW d \in Slot(n)
  PROVE  <<d, d>> \in Filled[n]
<1> DEFINE T == {m \in 0 .. Depth : \A v \in Slot(m) : <<v, v>> \in Filled[m]}
<1>1. ASSUME NEW m \in 0 .. Depth, m \in 1 .. Depth => m - 1 \in T PROVE m \in T
  <2> SUFFICES ASSUME NEW v \in Slot(m) PROVE <<v, v>> \in Filled[m]
    OBVIOUS
  <2>1. IsObject(v) => \A k \in Field : <<v.object[k], v.object[k]>> \in Filled[m - 1]
    <3> SUFFICES ASSUME IsObject(v), NEW k \in Field PROVE <<v.object[k], v.object[k]>> \in Filled[m - 1]
      OBVIOUS
    <3>1. m \in 1 .. Depth /\ v.object \in [Field -> Slot(m - 1)]
      BY ShapesOf
    <3> QED
      BY <1>1, <3>1
  <2>2. IsArray(v) => \A i \in DOMAIN v.array : Contains(v.array, v.array[i])
    <3> SUFFICES ASSUME IsArray(v), NEW i \in DOMAIN v.array PROVE Contains(v.array, v.array[i])
      OBVIOUS
    <3>1. m \in 1 .. Depth /\ v.array \in Seq(Values[m - 1])
      BY ShapesOf
    <3>2. i \in 1 .. Len(v.array)
      BY <3>1
    <3> QED
      BY <3>2 DEF Contains
  <2>3. FilledOf(Filled[m - 1], v, v)
    BY <2>1, <2>2 DEF FilledOf
  <2> QED
    BY <2>3, FilledUnfolds
<1> HIDE DEF T
<1>2. n \in T
  BY <1>1, LevelInduction
<1> QED
  BY <1>2 DEF T

\* After a merge every default is there.
LEMMA MergeFills ==
  ASSUME ConfigSeedAssumption, NEW n \in 0 .. Depth, NEW e \in Slot(n), NEW d \in Slot(n)
  PROVE  <<d, Merging[n][e][d]>> \in Filled[n]
<1> DEFINE T == {m \in 0 .. Depth : \A v, w \in Slot(m) : <<w, Merging[m][v][w]>> \in Filled[m]}
<1>1. ASSUME NEW m \in 0 .. Depth, m \in 1 .. Depth => m - 1 \in T PROVE m \in T
  <2> SUFFICES ASSUME NEW v \in Slot(m), NEW w \in Slot(m) PROVE <<w, Merging[m][v][w]>> \in Filled[m]
    OBVIOUS
  <2> DEFINE b == Merging[m][v][w]
  <2>1. b \in Slot(m)
    BY MergeType
  <2>2. CASE w = Missing
    BY <2>1, <2>2, FilledUnfolds DEF FilledOf
  <2>3. CASE v = Missing
    BY <2>3, FilledSelf, MergePlain
  <2>4. CASE IsObject(v) /\ IsObject(w)
    <3>1. m \in 1 .. Depth /\ v.object \in [Field -> Slot(m - 1)] /\ w.object \in [Field -> Slot(m - 1)]
      BY <2>4, MergeObjects
    <3>2. PICK f : /\ f \in [Field -> Slot(m - 1)] /\ Merging[m][v][w] = [object |-> f]
                   /\ \A k \in Field : f[k] = Merging[m - 1][v.object[k]][w.object[k]]
      BY <2>4, MergeObjects
    <3>3. \A x, y \in Slot(m - 1) : <<y, Merging[m - 1][x][y]>> \in Filled[m - 1]
      BY <1>1, <3>1
    <3>4. b.object = f /\ ~IsArray(b) /\ b # Missing
      BY <3>2, MadeHas
    <3> HIDE DEF b
    <3>5. \A k \in Field : <<w.object[k], b.object[k]>> \in Filled[m - 1]
      BY <3>2, <3>1, <3>3, <3>4
    <3>6. FilledOf(Filled[m - 1], w, b)
      BY <3>4, <3>5 DEF FilledOf
    <3> QED
      BY <2>1, <3>6, FilledUnfolds DEF b
  <2>5. CASE IsArray(v) /\ IsArray(w)
    <3>1. /\ m \in 1 .. Depth /\ v.array \in Seq(Values[m - 1]) /\ w.array \in Seq(Values[m - 1])
          /\ b = [array |-> MergeArray(v.array, w.array)]
      BY <2>5, MergeArrays
    <3>2. b.array = MergeArray(v.array, w.array) /\ ~IsObject(b) /\ b # Missing
      BY <3>1, MadeHas
    <3> HIDE DEF b
    <3>3. \A i \in DOMAIN w.array : Contains(b.array, w.array[i])
      BY <3>1, <3>2, ArrayUnion
    <3>4. FilledOf(Filled[m - 1], w, b)
      BY <3>2, <3>3 DEF FilledOf
    <3> QED
      BY <2>1, <3>4, FilledUnfolds DEF b
  <2>6. CASE /\ ~(IsObject(v) /\ IsObject(w)) /\ ~(IsArray(v) /\ IsArray(w)) /\ w # Missing /\ v # Missing
    <3>1. b = v
      BY <2>6, MergePlain
    <3>2. FilledOf(Filled[m - 1], w, v)
      BY <2>6 DEF FilledOf
    <3> QED
      BY <3>1, <3>2, FilledUnfolds
  <2> QED
    BY <2>2, <2>3, <2>4, <2>5, <2>6
<1> HIDE DEF T
<1>2. n \in T
  BY <1>1, LevelInduction
<1> QED
  BY <1>2 DEF T

\* A merge that has nothing to add changes nothing.
LEMMA FilledStays ==
  ASSUME ConfigSeedAssumption, NEW n \in 0 .. Depth, NEW b \in Slot(n), NEW d \in Slot(n),
         <<d, b>> \in Filled[n]
  PROVE  Merging[n][b][d] = b
<1> DEFINE T == {m \in 0 .. Depth : \A v, w \in Slot(m) : <<w, v>> \in Filled[m] => Merging[m][v][w] = v}
<1>1. ASSUME NEW m \in 0 .. Depth, m \in 1 .. Depth => m - 1 \in T PROVE m \in T
  <2> SUFFICES ASSUME NEW v \in Slot(m), NEW w \in Slot(m), <<w, v>> \in Filled[m]
               PROVE  Merging[m][v][w] = v
    OBVIOUS
  <2>1. FilledOf(Filled[m - 1], w, v)
    BY FilledUnfolds
  <2>2. CASE w = Missing
    BY <2>2, MergePlain
  <2>3. CASE w # Missing /\ IsObject(v) /\ IsObject(w)
    <3>1. /\ m \in 1 .. Depth /\ v.object \in [Field -> Slot(m - 1)] /\ w.object \in [Field -> Slot(m - 1)]
          /\ v = [object |-> v.object]
      BY <2>3, MergeObjects
    <3>2. PICK f : /\ f \in [Field -> Slot(m - 1)] /\ Merging[m][v][w] = [object |-> f]
                   /\ \A k \in Field : f[k] = Merging[m - 1][v.object[k]][w.object[k]]
      BY <2>3, MergeObjects
    <3>3. \A x, y \in Slot(m - 1) : <<y, x>> \in Filled[m - 1] => Merging[m - 1][x][y] = x
      BY <1>1, <3>1
    <3>4. \A k \in Field : <<w.object[k], v.object[k]>> \in Filled[m - 1]
      BY <2>1, <2>3 DEF FilledOf
    <3>5. ASSUME NEW k \in Field PROVE f[k] = v.object[k]
      <4>1. v.object[k] \in Slot(m - 1) /\ w.object[k] \in Slot(m - 1)
        BY <3>1
      <4>2. Merging[m - 1][v.object[k]][w.object[k]] = v.object[k]
        BY <3>3, <3>4, <4>1
      <4> QED
        BY <3>2, <4>2
    <3>6. f = v.object
      BY <3>1, <3>2, <3>5
    <3> QED
      BY <3>1, <3>2, <3>6
  <2>4. CASE w # Missing /\ IsArray(v) /\ IsArray(w)
    <3>1. /\ v.array \in Seq(Values[m - 1]) /\ w.array \in Seq(Values[m - 1]) /\ v = [array |-> v.array]
          /\ Merging[m][v][w] = [array |-> MergeArray(v.array, w.array)]
      BY <2>4, MergeArrays
    <3>2. \A i \in DOMAIN w.array : Contains(v.array, w.array[i])
      BY <2>1, <2>4 DEF FilledOf
    <3>3. MergeArray(v.array, w.array) = v.array
      BY <3>1, <3>2, ArrayUnion
    <3> QED
      BY <3>1, <3>3
  <2>5. CASE /\ ~(IsObject(v) /\ IsObject(w)) /\ ~(IsArray(v) /\ IsArray(w)) /\ w # Missing /\ v # Missing
    BY <2>5, MergePlain
  <2>6. w # Missing => v # Missing
    BY <2>1 DEF FilledOf
  <2> QED
    BY <2>2, <2>3, <2>4, <2>5, <2>6
<1> HIDE DEF T
<1>2. n \in T
  BY <1>1, LevelInduction
<1> QED
  BY <1>2 DEF T

\* A merge changes and drops nothing of what was there.
LEMMA MergeKeeps ==
  ASSUME ConfigSeedAssumption, NEW n \in 0 .. Depth, NEW e \in Slot(n), NEW d \in Slot(n)
  PROVE  <<e, Merging[n][e][d]>> \in Kept[n]
<1> DEFINE T == {m \in 0 .. Depth : \A v, w \in Slot(m) : <<v, Merging[m][v][w]>> \in Kept[m]}
<1>1. ASSUME NEW m \in 0 .. Depth, m \in 1 .. Depth => m - 1 \in T PROVE m \in T
  <2> SUFFICES ASSUME NEW v \in Slot(m), NEW w \in Slot(m) PROVE <<v, Merging[m][v][w]>> \in Kept[m]
    OBVIOUS
  <2> DEFINE b == Merging[m][v][w]
  <2>1. b \in Slot(m)
    BY MergeType
  <2>2. SUFFICES KeptOf(Kept[m - 1], v, b)
    BY <2>1, KeptUnfolds
  <2>3. CASE v = Missing \/ b = v
    BY <2>3 DEF KeptOf
  <2>4. CASE IsObject(v) /\ IsObject(w)
    <3>1. m \in 1 .. Depth /\ v.object \in [Field -> Slot(m - 1)] /\ w.object \in [Field -> Slot(m - 1)]
      BY <2>4, MergeObjects
    <3>2. PICK f : /\ f \in [Field -> Slot(m - 1)] /\ Merging[m][v][w] = [object |-> f]
                   /\ \A k \in Field : f[k] = Merging[m - 1][v.object[k]][w.object[k]]
      BY <2>4, MergeObjects
    <3>3. \A x, y \in Slot(m - 1) : <<x, Merging[m - 1][x][y]>> \in Kept[m - 1]
      BY <1>1, <3>1
    <3>4. b.object = f /\ IsObject(b)
      BY <3>2, MadeHas
    <3> HIDE DEF b
    <3>5. \A k \in Field : <<v.object[k], b.object[k]>> \in Kept[m - 1]
      BY <3>2, <3>1, <3>3, <3>4
    <3> QED
      BY <2>4, <3>4, <3>5 DEF KeptOf
  <2>5. CASE IsArray(v) /\ IsArray(w)
    <3>1. /\ v.array \in Seq(Values[m - 1]) /\ w.array \in Seq(Values[m - 1])
          /\ b = [array |-> MergeArray(v.array, w.array)]
      BY <2>5, MergeArrays
    <3>2. b.array = MergeArray(v.array, w.array) /\ IsArray(b)
      BY <3>1, MadeHas
    <3> HIDE DEF b
    <3>3. IsPrefix(v.array, b.array)
      BY <3>1, <3>2, ArrayUnion
    <3> QED
      BY <2>5, <3>2, <3>3 DEF KeptOf
  <2>6. b = v \/ v = Missing \/ (IsObject(v) /\ IsObject(w)) \/ (IsArray(v) /\ IsArray(w))
    BY MergePlain
  <2> QED
    BY <2>3, <2>4, <2>5, <2>6
<1> HIDE DEF T
<1>2. n \in T
  BY <1>1, LevelInduction
<1> QED
  BY <1>2 DEF T

-----------------------------------------------------------------------------
\* What becomes of a value that is read, case by case.
LEMMA DecodeType ==
  ASSUME ConfigSeedAssumption, NEW n \in 0 .. Depth
  PROVE  /\ Decoding[n][Missing] = Missing
         /\ \A v \in Values[n] : Decoding[n][v] \in Values[n]
         /\ \A v \in Slot(n) : Decoding[n][v] \in Slot(n)
BY DecodingUnfolds DEF Decodes

\* Of the values that hold no others only a wide number changes.
LEMMA DecodePlain ==
  ASSUME ConfigSeedAssumption, NEW n \in 0 .. Depth, NEW v \in Slot(n), ~IsObject(v), ~IsArray(v)
  PROVE  Decoding[n][v] = IF v = [scalar |-> "wide"] THEN [scalar |-> "rounded"] ELSE v
<1>1. Decoding[n][v] = DecodeOf(Decoding[n - 1], v)
  BY DecodingUnfolds
<1> QED
  BY <1>1 DEF DecodeOf

\* An object is decoded field by field.
LEMMA DecodeObject ==
  ASSUME ConfigSeedAssumption, NEW n \in 0 .. Depth, NEW v \in Slot(n), IsObject(v)
  PROVE  /\ n \in 1 .. Depth /\ n - 1 \in 0 .. Depth
         /\ v = [object |-> v.object] /\ v.object \in [Field -> Slot(n - 1)]
         /\ \E f : /\ f \in [Field -> Slot(n - 1)] /\ Decoding[n][v] = [object |-> f]
                  /\ \A k \in Field : f[k] = Decoding[n - 1][v.object[k]]
<1>1. v # Missing
  BY MissingHas
<1>2. n \in 1 .. Depth /\ v = [object |-> v.object] /\ v.object \in [Field -> Slot(n - 1)]
  BY <1>1, ShapesOf
<1>3. n - 1 \in 0 .. Depth
  BY <1>2 DEF ConfigSeedAssumption
<1>4. Decoding[n][v] = DecodeOf(Decoding[n - 1], v)
  BY DecodingUnfolds
<1> DEFINE f == [k \in Field |-> Decoding[n - 1][v.object[k]]]
<1>5. Decoding[n][v] = [object |-> f]
  BY <1>4 DEF DecodeOf
<1>6. f \in [Field -> Slot(n - 1)]
  BY <1>2, <1>3, DecodeType
<1>7. \A k \in Field : f[k] = Decoding[n - 1][v.object[k]]
  OBVIOUS
<1> HIDE DEF f
<1> QED
  BY <1>2, <1>3, <1>5, <1>6, <1>7

\* An array is decoded element by element.
LEMMA DecodeArray ==
  ASSUME ConfigSeedAssumption, NEW n \in 0 .. Depth, NEW v \in Slot(n), IsArray(v)
  PROVE  /\ n \in 1 .. Depth /\ n - 1 \in 0 .. Depth
         /\ v = [array |-> v.array] /\ v.array \in Seq(Values[n - 1])
         /\ \E b : /\ b \in Seq(Values[n - 1]) /\ Decoding[n][v] = [array |-> b] /\ Len(b) = Len(v.array)
                  /\ \A i \in 1 .. Len(b) : b[i] = Decoding[n - 1][v.array[i]]
<1>1. v # Missing
  BY MissingHas
<1>2. n \in 1 .. Depth /\ ~IsObject(v) /\ v = [array |-> v.array] /\ v.array \in Seq(Values[n - 1])
  BY <1>1, ShapesOf
<1>3. n - 1 \in 0 .. Depth
  BY <1>2 DEF ConfigSeedAssumption
<1>4. Decoding[n][v] = DecodeOf(Decoding[n - 1], v)
  BY DecodingUnfolds
<1> DEFINE l == Len(v.array)
           b == [i \in 1 .. l |-> Decoding[n - 1][v.array[i]]]
<1>5. l \in Nat /\ DOMAIN v.array = 1 .. l /\ \A i \in 1 .. l : v.array[i] \in Values[n - 1]
  BY <1>2
<1>6. Decoding[n][v] = [array |-> b]
  BY <1>2, <1>4, <1>5 DEF DecodeOf
<1> HIDE DEF l
<1>7. b \in [1 .. l -> Values[n - 1]] /\ \A i \in 1 .. l : b[i] = Decoding[n - 1][v.array[i]]
  BY <1>3, <1>5, DecodeType
<1> HIDE DEF b
<1>8. b \in Seq(Values[n - 1]) /\ Len(b) = l
  BY <1>5, <1>7
<1> QED
  BY <1>2, <1>3, <1>6, <1>7, <1>8 DEF l

\* A rounded number is not rounded again.
LEMMA NotWide ==
  /\ [scalar |-> "rounded"] # [scalar |-> "wide"]
  /\ ~IsObject([scalar |-> "rounded"]) /\ ~IsArray([scalar |-> "rounded"])
BY DEF IsObject, IsArray

\* A number is rounded once: what was read is read the same.
LEMMA DecodeTwice ==
  ASSUME ConfigSeedAssumption, NEW n \in 0 .. Depth, NEW v \in Slot(n)
  PROVE  Decoding[n][Decoding[n][v]] = Decoding[n][v]
<1> DEFINE T == {m \in 0 .. Depth : \A w \in Slot(m) : Decoding[m][Decoding[m][w]] = Decoding[m][w]}
<1>1. ASSUME NEW m \in 0 .. Depth, m \in 1 .. Depth => m - 1 \in T PROVE m \in T
  <2> SUFFICES ASSUME NEW w \in Slot(m) PROVE Decoding[m][Decoding[m][w]] = Decoding[m][w]
    OBVIOUS
  <2>1. CASE IsObject(w)
    <3>1. m \in 1 .. Depth /\ m - 1 \in 0 .. Depth /\ w.object \in [Field -> Slot(m - 1)]
      BY <2>1, DecodeObject
    <3>2. PICK f : /\ f \in [Field -> Slot(m - 1)] /\ Decoding[m][w] = [object |-> f]
                   /\ \A k \in Field : f[k] = Decoding[m - 1][w.object[k]]
      BY <2>1, DecodeObject
    <3> DEFINE u == [object |-> f]
    <3>3. u \in Slot(m) /\ IsObject(u) /\ u.object = f
      BY <3>1, <3>2, MadeHas, Makes
    <3> HIDE DEF u
    <3>4. PICK g : /\ g \in [Field -> Slot(m - 1)] /\ Decoding[m][u] = [object |-> g]
                   /\ \A k \in Field : g[k] = Decoding[m - 1][u.object[k]]
      BY <3>3, DecodeObject
    <3>5. ASSUME NEW k \in Field PROVE g[k] = f[k]
      <4>1. w.object[k] \in Slot(m - 1)
        BY <3>1
      <4>2. Decoding[m - 1][Decoding[m - 1][w.object[k]]] = Decoding[m - 1][w.object[k]]
        BY <1>1, <3>1, <4>1
      <4>3. g[k] = Decoding[m - 1][f[k]] /\ f[k] = Decoding[m - 1][w.object[k]]
        BY <3>2, <3>3, <3>4
      <4> QED
        BY <4>2, <4>3
    <3>6. g = f
      BY <3>2, <3>4, <3>5
    <3> QED
      BY <3>2, <3>4, <3>6 DEF u
  <2>2. CASE IsArray(w)
    <3>1. m \in 1 .. Depth /\ m - 1 \in 0 .. Depth /\ w.array \in Seq(Values[m - 1])
      BY <2>2, DecodeArray
    <3>2. PICK f : /\ f \in Seq(Values[m - 1]) /\ Decoding[m][w] = [array |-> f] /\ Len(f) = Len(w.array)
                   /\ \A i \in 1 .. Len(f) : f[i] = Decoding[m - 1][w.array[i]]
      BY <2>2, DecodeArray
    <3> DEFINE u == [array |-> f]
    <3>3. u \in Slot(m) /\ IsArray(u) /\ u.array = f
      BY <3>1, <3>2, MadeHas, Makes
    <3> HIDE DEF u
    <3>4. PICK g : /\ g \in Seq(Values[m - 1]) /\ Decoding[m][u] = [array |-> g] /\ Len(g) = Len(u.array)
                   /\ \A i \in 1 .. Len(g) : g[i] = Decoding[m - 1][u.array[i]]
      BY <3>3, DecodeArray
    <3>5. ASSUME NEW i \in 1 .. Len(f) PROVE g[i] = f[i]
      <4>1. w.array[i] \in Slot(m - 1)
        <5>1. w.array[i] \in Values[m - 1]
          BY <3>1, <3>2
        <5> QED
          BY <3>1, <5>1, Makes
      <4>2. Decoding[m - 1][Decoding[m - 1][w.array[i]]] = Decoding[m - 1][w.array[i]]
        BY <1>1, <3>1, <4>1
      <4>3. g[i] = Decoding[m - 1][f[i]] /\ f[i] = Decoding[m - 1][w.array[i]]
        BY <3>2, <3>3, <3>4
      <4> QED
        BY <4>2, <4>3
    <3>6. g = f
      BY <3>2, <3>3, <3>4, <3>5
    <3> QED
      BY <3>2, <3>4, <3>6 DEF u
  <2>3. CASE ~IsObject(w) /\ ~IsArray(w)
    <3>1. Decoding[m][w] = IF w = [scalar |-> "wide"] THEN [scalar |-> "rounded"] ELSE w
      BY <2>3, DecodePlain
    <3>2. CASE w = [scalar |-> "wide"]
      <4>1. Decoding[m][w] = [scalar |-> "rounded"] /\ [scalar |-> "rounded"] \in Slot(m)
        BY <3>1, <3>2, DecodeType
      <4>2. Decoding[m][[scalar |-> "rounded"]] = [scalar |-> "rounded"]
        BY <4>1, NotWide, DecodePlain
      <4> QED
        BY <4>1, <4>2
    <3>3. CASE w # [scalar |-> "wide"]
      BY <3>1, <3>3
    <3> QED
      BY <3>2, <3>3
  <2> QED
    BY <2>1, <2>2, <2>3
<1> HIDE DEF T
<1>2. n \in T
  BY <1>1, LevelInduction
<1> QED
  BY <1>2 DEF T

\* What is merged of values that were read is read as it is.
LEMMA MergeDecoded ==
  ASSUME ConfigSeedAssumption, NEW n \in 0 .. Depth, NEW e \in Slot(n), NEW d \in Slot(n),
         Decoding[n][e] = e, Decoding[n][d] = d
  PROVE  Decoding[n][Merging[n][e][d]] = Merging[n][e][d]
<1> DEFINE T == {m \in 0 .. Depth : \A v, w \in Slot(m) :
                   Decoding[m][v] = v /\ Decoding[m][w] = w => Decoding[m][Merging[m][v][w]] = Merging[m][v][w]}
<1>1. ASSUME NEW m \in 0 .. Depth, m \in 1 .. Depth => m - 1 \in T PROVE m \in T
  <2> SUFFICES ASSUME NEW v \in Slot(m), NEW w \in Slot(m), Decoding[m][v] = v, Decoding[m][w] = w
               PROVE  Decoding[m][Merging[m][v][w]] = Merging[m][v][w]
    OBVIOUS
  <2>1. CASE IsObject(v) /\ IsObject(w)
    <3>1. /\ m \in 1 .. Depth /\ m - 1 \in 0 .. Depth
          /\ v = [object |-> v.object] /\ v.object \in [Field -> Slot(m - 1)]
          /\ w = [object |-> w.object] /\ w.object \in [Field -> Slot(m - 1)]
      BY <2>1, MergeObjects
    <3>2. PICK f : /\ f \in [Field -> Slot(m - 1)] /\ Merging[m][v][w] = [object |-> f]
                   /\ \A k \in Field : f[k] = Merging[m - 1][v.object[k]][w.object[k]]
      BY <2>1, MergeObjects
    <3>3. ASSUME NEW x \in Slot(m), IsObject(x), Decoding[m][x] = x, NEW k \in Field
          PROVE  Decoding[m - 1][x.object[k]] = x.object[k]
      <4>1. PICK g : /\ g \in [Field -> Slot(m - 1)] /\ Decoding[m][x] = [object |-> g]
                     /\ \A j \in Field : g[j] = Decoding[m - 1][x.object[j]]
        BY <3>3, DecodeObject
      <4>2. x.object = g
        BY <3>3, <4>1, MadeHas
      <4> QED
        BY <4>1, <4>2
    <3> DEFINE u == [object |-> f]
    <3>4. u \in Slot(m) /\ IsObject(u) /\ u.object = f
      BY <3>1, <3>2, MadeHas, Makes
    <3> HIDE DEF u
    <3>5. PICK g : /\ g \in [Field -> Slot(m - 1)] /\ Decoding[m][u] = [object |-> g]
                   /\ \A k \in Field : g[k] = Decoding[m - 1][u.object[k]]
      BY <3>4, DecodeObject
    <3>6. ASSUME NEW k \in Field PROVE g[k] = f[k]
      <4>1. v.object[k] \in Slot(m - 1) /\ w.object[k] \in Slot(m - 1)
        BY <3>1
      <4>2. Decoding[m - 1][v.object[k]] = v.object[k] /\ Decoding[m - 1][w.object[k]] = w.object[k]
        BY <2>1, <3>3
      <4>3. Decoding[m - 1][Merging[m - 1][v.object[k]][w.object[k]]] = Merging[m - 1][v.object[k]][w.object[k]]
        BY <1>1, <3>1, <4>1, <4>2
      <4>4. g[k] = Decoding[m - 1][f[k]] /\ f[k] = Merging[m - 1][v.object[k]][w.object[k]]
        BY <3>2, <3>4, <3>5
      <4> QED
        BY <4>3, <4>4
    <3>7. g = f
      BY <3>2, <3>5, <3>6
    <3> QED
      BY <3>2, <3>5, <3>7 DEF u
  <2>2. CASE IsArray(v) /\ IsArray(w)
    <3>1. /\ m \in 1 .. Depth /\ m - 1 \in 0 .. Depth
          /\ v.array \in Seq(Values[m - 1]) /\ w.array \in Seq(Values[m - 1])
          /\ Merging[m][v][w] = [array |-> MergeArray(v.array, w.array)]
      BY <2>2, MergeArrays
    <3> DEFINE W == {x \in Values[m - 1] : Decoding[m - 1][x] = x}
               f == MergeArray(v.array, w.array)
               u == [array |-> f]
    <3>2. ASSUME NEW x \in Slot(m), IsArray(x), Decoding[m][x] = x PROVE x.array \in Seq(W)
      <4>1. x.array \in Seq(Values[m - 1])
        BY <3>2, DecodeArray
      <4>2. PICK g : /\ g \in Seq(Values[m - 1]) /\ Decoding[m][x] = [array |-> g] /\ Len(g) = Len(x.array)
                     /\ \A i \in 1 .. Len(g) : g[i] = Decoding[m - 1][x.array[i]]
        BY <3>2, DecodeArray
      <4>3. x.array = g
        BY <3>2, <4>2, MadeHas
      <4>4. \A i \in 1 .. Len(g) : g[i] \in W
        BY <4>2, <4>3
      <4> HIDE DEF W
      <4> QED
        BY <4>2, <4>3, <4>4
    <3>3. f \in Seq(W)
      <4>1. v.array \in Seq(W) /\ w.array \in Seq(W)
        BY <2>2, <3>2
      <4> HIDE DEF W
      <4> QED
        BY <4>1, ArrayUnion
    <3>4. f \in Seq(Values[m - 1]) /\ \A i \in 1 .. Len(f) : Decoding[m - 1][f[i]] = f[i]
      <4>1. f \in Seq(Values[m - 1])
        BY <3>1, ArrayUnion
      <4>2. \A i \in 1 .. Len(f) : f[i] \in W
        <5> HIDE DEF W, f
        <5> QED
          BY <3>3
      <4> QED
        BY <4>1, <4>2
    <3> HIDE DEF f
    <3>5. u \in Slot(m) /\ IsArray(u) /\ u.array = f
      BY <3>1, <3>4, MadeHas, Makes
    <3> HIDE DEF u, W
    <3>6. PICK g : /\ g \in Seq(Values[m - 1]) /\ Decoding[m][u] = [array |-> g] /\ Len(g) = Len(u.array)
                   /\ \A i \in 1 .. Len(g) : g[i] = Decoding[m - 1][u.array[i]]
      BY <3>5, DecodeArray
    <3>7. \A i \in 1 .. Len(f) : g[i] = f[i]
      BY <3>4, <3>5, <3>6
    <3>8. g = f
      BY <3>4, <3>5, <3>6, <3>7
    <3> QED
      BY <3>1, <3>6, <3>8 DEF u, f
  <2>3. CASE ~(IsObject(v) /\ IsObject(w)) /\ ~(IsArray(v) /\ IsArray(w))
    <3>1. Merging[m][v][w] = v \/ Merging[m][v][w] = w
      BY <2>3, MergePlain
    <3> QED
      BY <3>1
  <2> QED
    BY <2>1, <2>2, <2>3
<1> HIDE DEF T
<1>2. n \in T
  BY <1>1, LevelInduction
<1> QED
  BY <1>2 DEF T

\* A field is missing after a merge only if neither value had it.
LEMMA MergeMissing ==
  ASSUME ConfigSeedAssumption, NEW n \in 0 .. Depth, NEW e \in Slot(n), NEW d \in Slot(n)
  PROVE  Merging[n][e][d] = Missing <=> e = Missing /\ d = Missing
<1>1. CASE IsObject(e) /\ IsObject(d)
  <2>1. PICK f : /\ f \in [Field -> Slot(n - 1)] /\ Merging[n][e][d] = [object |-> f]
                 /\ \A k \in Field : f[k] = Merging[n - 1][e.object[k]][d.object[k]]
    BY <1>1, MergeObjects
  <2>2. Merging[n][e][d] # Missing /\ e # Missing
    BY <1>1, <2>1, MadeHas, MissingHas
  <2> QED
    BY <2>2
<1>2. CASE IsArray(e) /\ IsArray(d)
  <2>1. Merging[n][e][d] = [array |-> MergeArray(e.array, d.array)]
    BY <1>2, MergeArrays
  <2>2. Merging[n][e][d] # Missing /\ e # Missing
    BY <1>2, <2>1, MadeHas, MissingHas
  <2> QED
    BY <2>2
<1>3. CASE ~(IsObject(e) /\ IsObject(d)) /\ ~(IsArray(e) /\ IsArray(d))
  BY <1>3, MergePlain
<1> QED
  BY <1>1, <1>2, <1>3

\* What krayt reads of a file it can read.
LEMMA ExistingIsRead ==
  ASSUME ConfigSeedAssumption, NEW x \in SeedFile, SeedReadable(x)
  PROVE  Existing(x) \in Slot(Depth) /\ IsObject(Existing(x)) /\ Decode(Existing(x)) = Existing(x)
<1>1. Depth \in 0 .. Depth /\ Depth \in 1 .. Depth /\ Depth - 1 \in 0 .. Depth
  BY DEF ConfigSeedAssumption
<1>2. CASE NoContent(x)
  <2>1. Existing(x) = EmptyObject
    BY <1>2 DEF Existing
  <2> DEFINE none == [k \in Field |-> Missing]
  <2>2. none \in [Field -> Slot(Depth - 1)]
    BY <1>1, Makes
  <2>3. EmptyObject = [object |-> none]
    BY DEF EmptyObject
  <2>4. \A k \in Field : none[k] = Missing
    OBVIOUS
  <2> HIDE DEF none
  <2>5. EmptyObject \in Slot(Depth) /\ IsObject(EmptyObject) /\ EmptyObject.object = none
    BY <1>1, <2>2, <2>3, Makes, MadeHas
  <2>6. PICK f : /\ f \in [Field -> Slot(Depth - 1)] /\ Decoding[Depth][EmptyObject] = [object |-> f]
                 /\ \A k \in Field : f[k] = Decoding[Depth - 1][EmptyObject.object[k]]
    BY <1>1, <2>5, DecodeObject
  <2>7. \A k \in Field : f[k] = none[k]
    BY <1>1, <2>4, <2>5, <2>6, DecodeType
  <2>8. f = none
    BY <2>2, <2>6, <2>7
  <2> QED
    BY <2>1, <2>3, <2>5, <2>6, <2>8 DEF Decode
<1>3. CASE ~NoContent(x)
  <2>1. IsObject(x.value) /\ x.value \in Values[Depth] /\ Existing(x) = Decoding[Depth][x.value]
    BY <1>3 DEF SeedReadable, SeedFile, Existing, Decode
  <2>2. x.value \in Slot(Depth)
    BY <1>1, <2>1, Makes
  <2>3. PICK f : /\ f \in [Field -> Slot(Depth - 1)] /\ Decoding[Depth][x.value] = [object |-> f]
                 /\ \A k \in Field : f[k] = Decoding[Depth - 1][x.value.object[k]]
    BY <1>1, <2>1, <2>2, DecodeObject
  <2>4. IsObject(Existing(x))
    BY <2>1, <2>3, MadeHas
  <2>5. Existing(x) \in Slot(Depth)
    BY <1>1, <2>1, <2>2, DecodeType
  <2>6. Decoding[Depth][Decoding[Depth][x.value]] = Decoding[Depth][x.value]
    BY <1>1, <2>2, DecodeTwice
  <2> QED
    BY <2>1, <2>4, <2>5, <2>6 DEF Decode
<1> QED
  BY <1>2, <1>3

\* What is made of it and the defaults.
LEMMA MergedIsWhole ==
  ASSUME ConfigSeedAssumption, NEW e \in Slot(Depth), NEW d \in Slot(Depth),
         IsObject(e), IsObject(d), Decode(e) = e, Decode(d) = d
  PROVE  /\ IsObject(Merge(e, d)) /\ Merge(e, d) \in Slot(Depth) /\ Decode(Merge(e, d)) = Merge(e, d)
         /\ <<e, Merge(e, d)>> \in Kept[Depth] /\ <<d, Merge(e, d)>> \in Filled[Depth]
         /\ \A k \in Field : Merge(e, d).object[k] = Missing
                             <=> e.object[k] = Missing /\ d.object[k] = Missing
<1> DEFINE b == Merging[Depth][e][d]
<1>1. Depth \in 0 .. Depth
  BY DEF ConfigSeedAssumption
<1>2. Depth - 1 \in 0 .. Depth /\ e.object \in [Field -> Slot(Depth - 1)] /\ d.object \in [Field -> Slot(Depth - 1)]
  BY <1>1, MergeObjects
<1>3. PICK f : /\ f \in [Field -> Slot(Depth - 1)] /\ Merging[Depth][e][d] = [object |-> f]
               /\ \A k \in Field : f[k] = Merging[Depth - 1][e.object[k]][d.object[k]]
  BY <1>1, MergeObjects
<1>4. IsObject(b) /\ b.object = f
  BY <1>3, MadeHas
<1>5. b \in Slot(Depth)
  BY <1>1, MergeType
<1>6. Decoding[Depth][b] = b
  BY <1>1, MergeDecoded DEF Decode
<1>7. <<d, b>> \in Filled[Depth]
  BY <1>1, MergeFills
<1>8. <<e, b>> \in Kept[Depth]
  BY <1>1, MergeKeeps
<1>9. ASSUME NEW k \in Field
      PROVE  b.object[k] = Missing <=> e.object[k] = Missing /\ d.object[k] = Missing
  <2>1. e.object[k] \in Slot(Depth - 1) /\ d.object[k] \in Slot(Depth - 1)
    BY <1>2
  <2>2. f[k] = Merging[Depth - 1][e.object[k]][d.object[k]] /\ b.object[k] = f[k]
    BY <1>3, <1>4
  <2> HIDE DEF b
  <2> QED
    BY <1>2, <2>1, <2>2, MergeMissing
<1>10. Merge(e, d) = b
  BY DEF Merge
<1> HIDE DEF b
<1> QED
  BY <1>4, <1>5, <1>6, <1>7, <1>8, <1>9, <1>10 DEF Decode

\* A merge changes nothing exactly when no default is missing.
LEMMA MergeIdle ==
  ASSUME ConfigSeedAssumption, NEW e \in Slot(Depth), NEW d \in Slot(Depth)
  PROVE  Merge(e, d) = e <=> <<d, e>> \in Filled[Depth]
<1>1. Depth \in 0 .. Depth
  BY DEF ConfigSeedAssumption
<1>2. <<d, Merging[Depth][e][d]>> \in Filled[Depth]
  BY <1>1, MergeFills
<1>3. <<d, e>> \in Filled[Depth] => Merging[Depth][e][d] = e
  BY <1>1, FilledStays
<1> QED
  BY <1>2, <1>3 DEF Merge

\* What seeding leaves, and when it warns.
LEMMA SeedOfInput ==
  ASSUME ConfigSeedAssumption, input \in SeedInput
  PROVE  SeedHolds
<1> DEFINE x == input.file
           d == input.defaults
           w == input.writes
           e == Existing(x)
           b == Merge(e, d)
           new == [state |-> "json", value |-> b]
           done  == ApplyConfigSeed(x, d, w)
           whole == <<d, e>> \in Filled[Depth]
           Holds == /\ done.warned = 1 <=> ~SeedReadable(x) \/ (~w /\ ~whole)
                    /\ ~SeedReadable(x) \/ whole => done.file = x
                    /\ done.file # x => <<e, done.file.value>> \in Kept[Depth]
                    /\ done.warned = 0 =>
                         /\ <<d, Existing(done.file)>> \in Filled[Depth]
                         /\ \A k \in Field : Existing(done.file).object[k] = Missing
                                             <=> e.object[k] = Missing /\ d.object[k] = Missing
<1>1. SUFFICES Holds
  BY DEF SeedHolds
<1>2. x \in SeedFile /\ d \in Values[Depth] /\ IsObject(d) /\ Decode(d) = d /\ w \in BOOLEAN
  BY DEF SeedInput
<1>3. d \in Slot(Depth)
  <2>1. Depth \in 0 .. Depth
    BY DEF ConfigSeedAssumption
  <2> QED
    BY <1>2, <2>1, Makes
<1> HIDE DEF x, d, w
<1>4. CASE ~SeedReadable(x)
  <2>1. done = [file |-> x, warned |-> 1]
    BY <1>4 DEF ApplyConfigSeed
  <2>2. done.file = x /\ done.warned = 1
    BY <2>1
  <2> HIDE DEF done, whole
  <2> QED
    BY <1>4, <2>2
<1>5. CASE SeedReadable(x)
  <2>1. e \in Slot(Depth) /\ IsObject(e) /\ Decode(e) = e
    BY <1>2, <1>5, ExistingIsRead
  <2>2. done = IF b = e THEN [file |-> x, warned |-> 0] ELSE WriteSeedFile(x, b, w)
    BY <1>5 DEF ApplyConfigSeed
  <2>3. Existing(x) = e
    OBVIOUS
  <2> HIDE DEF e
  <2>4. /\ IsObject(b) /\ Decode(b) = b
        /\ <<e, b>> \in Kept[Depth] /\ <<d, b>> \in Filled[Depth]
        /\ \A k \in Field : b.object[k] = Missing <=> e.object[k] = Missing /\ d.object[k] = Missing
    BY <1>2, <1>3, <2>1, MergedIsWhole
  <2>5. b = e <=> whole
    BY <1>3, <2>1, MergeIdle
  <2> HIDE DEF b, done, whole
  <2>6. /\ WriteSeedFile(x, b, TRUE) = [file |-> new, warned |-> 0]
        /\ WriteSeedFile(x, b, FALSE) = [file |-> x, warned |-> 1]
    BY DEF WriteSeedFile
  <2>7. new.state = "json" /\ new.value = b
    OBVIOUS
  <2> HIDE DEF new
  <2>8. Existing(new) = b
    BY <2>4, <2>7 DEF Existing, NoContent
  <2>9. CASE b = e
    <3>1. done = [file |-> x, warned |-> 0]
      BY <2>2, <2>9
    <3>2. done.file = x /\ done.warned = 0
      BY <3>1
    <3>3. Existing(done.file) = b
      BY <2>3, <2>9, <3>2
    <3> QED
      BY <1>5, <2>4, <2>5, <2>9, <3>2, <3>3
  <2>10. CASE b # e /\ w
    <3>1. w = TRUE
      BY <1>2, <2>10
    <3>2. done = [file |-> new, warned |-> 0]
      BY <2>2, <2>6, <2>10, <3>1
    <3>3. done.file = new /\ done.warned = 0
      BY <3>2
    <3>4. Existing(done.file) = b /\ done.file.value = b
      BY <2>7, <2>8, <3>3
    <3> QED
      BY <1>5, <2>4, <2>5, <2>10, <3>3, <3>4
  <2>11. CASE b # e /\ ~w
    <3>1. w = FALSE
      BY <1>2, <2>11
    <3>2. done = [file |-> x, warned |-> 1]
      BY <2>2, <2>6, <2>11, <3>1
    <3>3. done.file = x /\ done.warned = 1
      BY <3>2
    <3> QED
      BY <1>5, <2>5, <2>11, <3>3
  <2> QED
    BY <2>9, <2>10, <2>11
<1> QED
  BY <1>4, <1>5

\* Seeding an agent's first-run configuration fills in what is missing and changes nothing
\* that was read, whatever the file in the image holds (applyConfigSeed, configseed.Merge).
THEOREM SeedsFillIn == ASSUME ConfigSeedAssumption PROVE Given(SeedInput) => []SeedHolds
<1>1. input \in SeedInput => SeedHolds
  BY SeedOfInput
<1>2. input \in SeedInput /\ [FALSE]_input => (input \in SeedInput)'
  OBVIOUS
<1> QED
  BY <1>1, <1>2, PTL DEF Given
=============================================================================
