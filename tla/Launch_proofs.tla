--------------------------- MODULE Launch_proofs ----------------------------
(* Proofs about what is decided before a sandbox is created: RunStart for all  *)
(* command lines and files, HostResources for all sizes, BundleShape for all   *)
(* repositories, HostPolicy for all sets of hosts, entries and policies.       *)
EXTENDS RunStart, HostResources, BundleShape, HostPolicy, FiniteSetTheorems, WellFoundedInduction,
        SequenceTheorems, TLAPS

-----------------------------------------------------------------------------
(* RunStart. *)

\* What a flag leaves open comes from the file.
LEMMA OverlayVal ==
  ASSUME NEW f
  PROVE  /\ Overlay(f).val = IF cmdline[f] # "unset" THEN cmdline[f] ELSE file[f]
         /\ Overlay(f).by = IF cmdline[f] # "unset" THEN "flag" ELSE "file"
<1>1. CASE cmdline[f] # "unset"
  BY <1>1 DEF Overlay
<1>2. CASE cmdline[f] = "unset"
  BY <1>2 DEF Overlay
<1> QED
  BY <1>1, <1>2

\* Nothing is planned before the run starts; the prompt kept for the child is
\* what the command read; only a child of --detach is a child.
StageInv ==
  /\ who # "started" => plan = {}
  /\ who = "command" => spool = "none"
  /\ who = "child" => cmdline.detach
  /\ spool # "none" => spool = stdin
  /\ {stdin, task} \subseteq Prompts \ {"stray"}

LaunchInv == LaunchTypeOK /\ StageInv

\* The three properties, of one plan as it is made.
ByOperator(p) ==
  /\ AutoLoaded =>
       /\ p.policy = {} /\ \A k \in DOMAIN p.scopes : p.scopes[k] = "adapter"
       /\ p.net.val = "full" => p.net.by = "flag"
       /\ p.task.by = "file" => p.task.val \in {"inside", "-"}
       /\ p.secrets.by = "file" => p.secrets.val \in {"unset", "inside"}
  /\ \A f \in {"task", "secrets", "net"} : cmdline[f] # "unset" => p[f].val = cmdline[f]

Prompted(p) ==
  /\ p.prompt # "empty"
  /\ ~stray \/ ~cmdline.detach \/ spool # "none" =>
       p.prompt = IF spool # "none" \/ OnStdin THEN stdin ELSE task

Credited(p) ==
  /\ \A k, j \in DOMAIN p.scopes \cap {"api_key", "token"} :
       file.agent = "claude-code" => k = j
  /\ file.agent = "claude-code" => DOMAIN p.scopes \cap {"api_key", "token"} # {}
  /\ p.secrets.val # "unset" => DOMAIN p.scopes = keys

\* A plan made from an accepted file is the operator's.
LEMMA PlanDecided ==
  ASSUME RunStartAssumption, LaunchInv, Resolves
  PROVE  ByOperator(Plan)
<1> USE DEF Plan
<1>1. file.task \in Paths \cup {"-"} /\ file.secrets \in Paths
  BY DEF RunStartAssumption, LaunchInv, LaunchTypeOK
<1>2. ASSUME AutoLoaded
      PROVE  /\ Plan.policy = {}
             /\ \A k \in DOMAIN Plan.scopes : Plan.scopes[k] = "adapter"
             /\ Plan.net.val = "full" => Plan.net.by = "flag"
  <2>1. file.policy = {} /\ file.inject = {} /\ file.net # "full"
    BY <1>2 DEF Resolves, FileAccepted, AutoLoadable, AutoLoaded, Validated, Refused
  <2>2. Plan.net.val = "full" => Plan.net.by = "flag"
    BY <2>1, OverlayVal
  <2>3. \A k \in DOMAIN Scopes : Scopes[k] = "adapter"
    BY <2>1 DEF Scopes
  <2> QED
    BY <2>1, <2>2, <2>3
<1>3. ASSUME AutoLoaded, NEW f \in {"task", "secrets"}, Plan[f].by = "file"
      PROVE  /\ Plan[f].val = file[f] /\ file[f] \in {"unset", "inside", "-"}
             /\ f = "task" => file[f] # "unset"
  <2>1. Plan[f] = Overlay(f)
    OBVIOUS
  <2>2. cmdline[f] = "unset" /\ Overlay(f).val = file[f]
    BY <1>3, <2>1, OverlayVal
  <2>3. Contained(f) /\ Readable(f) /\ Overlay("task").val # "unset"
    BY <1>3 DEF Resolves, FileAccepted, AutoLoaded
  <2> QED
    BY <1>3, <2>1, <2>2, <2>3 DEF Contained, Readable
<1>4. ASSUME NEW f \in {"task", "secrets", "net"}, cmdline[f] # "unset"
      PROVE  Plan[f].val = cmdline[f]
  <2>1. Plan[f] = Overlay(f)
    OBVIOUS
  <2> QED
    BY <1>4, <2>1, OverlayVal
<1>5. ASSUME AutoLoaded
      PROVE  /\ Plan.task.by = "file" => Plan.task.val \in {"inside", "-"}
             /\ Plan.secrets.by = "file" => Plan.secrets.val \in {"unset", "inside"}
  <2>1. ASSUME Plan.task.by = "file" PROVE Plan.task.val \in {"inside", "-"}
    BY <1>3, <1>5, <2>1
  <2>2. ASSUME Plan.secrets.by = "file" PROVE Plan.secrets.val \in {"unset", "inside"}
    BY <1>1, <1>3, <1>5, <2>2 DEF Paths
  <2> QED
    BY <2>1, <2>2
<1> QED
  BY <1>2, <1>4, <1>5 DEF ByOperator

\* In the command and in a child with a spool, the prompt read is the operator's.
LEMMA PlanPrompted ==
  ASSUME RunStartAssumption, LaunchInv, Resolves, who \in {"command", "child"},
         who = "command" => ~cmdline.detach
  PROVE  Prompted(Plan)
<1>1. Plan.prompt = ReadTaskPrompt
  BY DEF Plan
<1>2. ReadTaskPrompt # "empty"
  BY DEF Resolves
<1>4. stdin # "stray" /\ task # "stray" /\ (who = "command" => spool = "none")
      /\ (spool # "none" => spool = stdin) /\ (who = "child" => cmdline.detach)
  BY DEF LaunchInv, StageInv
<1>5. CASE who = "child" /\ spool # "none"
  <2>1. ReadTaskPrompt = spool
    BY <1>5 DEF ReadTaskPrompt
  <2> QED
    BY <1>1, <1>2, <1>4, <1>5, <2>1 DEF Prompted
<1>6. CASE who = "child" /\ spool = "none" /\ stray
  <2>1. ReadTaskPrompt = "stray"
    BY <1>6 DEF ReadTaskPrompt
  <2> QED
    BY <1>1, <1>2, <1>4, <1>6, <2>1 DEF Prompted
<1>7. CASE ~(who = "child" /\ spool # "none") /\ ~(who = "child" /\ stray) /\ OnStdin
  <2>1. ReadTaskPrompt = IF who = "child" THEN "empty" ELSE stdin
    BY <1>7 DEF ReadTaskPrompt
  <2>2. who = "command" /\ Plan.prompt = stdin
    BY <1>1, <1>2, <2>1
  <2> QED
    BY <1>1, <1>2, <1>4, <1>7, <2>2 DEF Prompted
<1>8. CASE ~(who = "child" /\ spool # "none") /\ ~(who = "child" /\ stray) /\ ~OnStdin
  <2>1. ReadTaskPrompt = task
    BY <1>8 DEF ReadTaskPrompt
  <2>2. spool = "none"
    BY <1>4, <1>8
  <2> QED
    BY <1>1, <1>2, <1>4, <1>8, <2>1, <2>2 DEF Prompted
<1> QED
  BY <1>5, <1>6, <1>7, <1>8

\* Exactly one name in the secrets file is a credential of the agent.
LEMMA PlanCredited ==
  ASSUME RunStartAssumption, LaunchInv, Resolves
  PROVE  Credited(Plan)
<1>1. DOMAIN Plan.scopes = SecretKeys
  BY DEF Resolves, Validated, Plan
<1>2. ASSUME file.agent = "claude-code"
      PROVE  \E k : SecretKeys \cap {"api_key", "token"} = {k}
  <2>1. Cardinality(SecretKeys \cap {"api_key", "token"}) = 1
    BY <1>2 DEF Resolves, ExactlyOne, AuthKeys
  <2>2. IsFiniteSet(SecretKeys \cap {"api_key", "token"})
    <3>1. IsFiniteSet({"api_key", "token"})
      <4>1. IsFiniteSet({"api_key"}) /\ {"api_key"} \cup {"token"} = {"api_key", "token"}
        BY FS_Singleton
      <4> QED
        BY <4>1, FS_AddElement
    <3> QED
      BY <3>1, FS_Intersection
  <2> QED
    BY <2>1, <2>2, FS_Singleton
<1>3. Plan.secrets.val # "unset" => SecretKeys = keys
  BY DEF Plan, SecretKeys
<1> QED
  BY <1>1, <1>2, <1>3 DEF Credited

\* The invariant of the two processes.
LEMMA LaunchInvInit ==
  ASSUME RunStartAssumption, LaunchInit
  PROVE  LaunchInv
<1>1. Cardinality(plan) = 0
  BY FS_EmptySet DEF LaunchInit
<1> QED
  BY <1>1 DEF LaunchInit, LaunchInv, LaunchTypeOK, StageInv, Prompts, Keys

LEMMA LaunchInvStep ==
  ASSUME RunStartAssumption, LaunchInv, [LaunchNext]_launchVars
  PROVE  LaunchInv'
<1> USE DEF LaunchInv, LaunchTypeOK, StageInv
<1>1. CASE Refuse
  <2>1. plan' = {} /\ Cardinality(plan') = 0
    BY <1>1, FS_EmptySet DEF Refuse
  <2> QED
    BY <1>1, <2>1 DEF Refuse
<1>2. CASE Detach
  BY <1>2 DEF Detach, Prompts
<1>3. CASE Start
  <2>1. Cardinality(plan') = 1
    BY <1>3, FS_Singleton DEF Start
  <2> QED
    BY <1>3, <2>1 DEF Start
<1>4. CASE Change
  BY <1>4 DEF Change, Prompts, Keys
<1>5. CASE UNCHANGED launchVars
  BY <1>5 DEF launchVars
<1> QED
  BY <1>1, <1>2, <1>3, <1>4, <1>5 DEF LaunchNext

LEMMA LaunchInvariance ==
  ASSUME RunStartAssumption
  PROVE  LaunchSpec => []LaunchInv
<1>1. LaunchInit => LaunchInv
  BY LaunchInvInit
<1>2. LaunchInv /\ [LaunchNext]_launchVars => LaunchInv'
  BY LaunchInvStep
<1> QED
  BY <1>1, <1>2, PTL DEF LaunchSpec

\* Every reachable state of a start is well typed; one run at most comes of it.
THEOREM LaunchTypeCorrect ==
  ASSUME RunStartAssumption
  PROVE  LaunchSpec => []LaunchTypeOK
<1>1. LaunchInv => LaunchTypeOK
  BY DEF LaunchInv
<1> QED
  BY <1>1, LaunchInvariance, PTL

\* The one plan there may be was made by Start, after which nothing changes.
PlanInv == \A p \in plan : ByOperator(p) /\ Prompted(p) /\ Credited(p)

LEMMA PlanInvStep ==
  ASSUME RunStartAssumption, LaunchInv, PlanInv, [LaunchNext]_launchVars
  PROVE  PlanInv'
<1>1. CASE Start
  <2>1. ByOperator(Plan) /\ Prompted(Plan) /\ Credited(Plan)
    BY <1>1, PlanDecided, PlanPrompted, PlanCredited DEF Start
  <2>2. plan' = {Plan} /\ UNCHANGED <<cmdline, stray, file, stdin, task, keys, spool>>
    BY <1>1 DEF Start
  <2>3. ASSUME NEW p
        PROVE  ByOperator(p)' = ByOperator(p) /\ Prompted(p)' = Prompted(p) /\ Credited(p)' = Credited(p)
    BY <2>2 DEF ByOperator, Prompted, Credited, AutoLoaded, OnStdin, Overlay
  <2> QED
    BY <2>1, <2>2, <2>3 DEF PlanInv
<1>2. CASE Refuse \/ Detach \/ Change
  BY <1>2 DEF Refuse, Detach, Change, LaunchInv, StageInv, PlanInv
<1>3. CASE UNCHANGED launchVars
  BY <1>3 DEF launchVars, PlanInv, ByOperator, Prompted, Credited, AutoLoaded, OnStdin, Overlay
<1> QED
  BY <1>1, <1>2, <1>3 DEF LaunchNext

LEMMA PlanInvariance ==
  ASSUME RunStartAssumption
  PROVE  LaunchSpec => []PlanInv
<1>1. LaunchInit => PlanInv
  BY DEF LaunchInit, PlanInv
<1>2. LaunchInv /\ PlanInv /\ [LaunchNext]_launchVars => PlanInv'
  BY PlanInvStep
<1> QED
  BY <1>1, <1>2, LaunchInvariance, PTL DEF LaunchSpec

\* Whatever krayt.yaml says, and whatever it says when a detached child reads it
\* again, a file that was only found decides nothing that is the operator's.
THEOREM OperatorHasDecided ==
  ASSUME RunStartAssumption
  PROVE  LaunchSpec => []OperatorDecides
<1>1. PlanInv => OperatorDecides
  BY DEF PlanInv, ByOperator, OperatorDecides
<1> QED
  BY <1>1, PlanInvariance, PTL

\* A run starts with the prompt that its operator gave, in the command or, spooled,
\* in its child.  A child without a spool, beside a stray KRAYT_TASK_FILE, is not
\* spoken of: there it does not.
THEOREM PromptIsKept ==
  ASSUME RunStartAssumption
  PROVE  LaunchSpec => []PromptIsTheOperators
<1>1. PlanInv => PromptIsTheOperators
  BY DEF PlanInv, Prompted, PromptIsTheOperators
<1> QED
  BY <1>1, PlanInvariance, PTL

\* A run starts with one credential of its agent, and with a scope for each secret.
THEOREM CredentialIsOne ==
  ASSUME RunStartAssumption
  PROVE  LaunchSpec => []OneCredential
<1>1. PlanInv => OneCredential
  BY DEF PlanInv, Credited, OneCredential
<1> QED
  BY <1>1, PlanInvariance, PTL

-----------------------------------------------------------------------------
(* BundleShape. *)

\* The commits of a source are numbers, the tip of the history among them.
LEMMA SourceCommits ==
  ASSUME BundleShapeAssumption, NEW src \in Source
  PROVE  /\ src.commits \in Nat /\ src.from \in Nat \ {0} /\ src.head \in Heads
         /\ src.commits > 0 => src.from <= src.commits
         /\ src.commits = 0 => src.from .. src.commits = {}
         /\ src.from .. src.commits \subseteq Nat \ {0}
         /\ Tip \notin src.from .. src.commits /\ Tip # src.commits
BY DEF Source, BundleShapeAssumption

\* The guest finds the parent of every commit of a full history, except that
\* of the first commit a shallow source has.
LEMMA HistoryClosed ==
  ASSUME BundleShapeAssumption, NEW src \in Source, src.commits > 0
  PROVE  (\A c \in src.from .. src.commits : ParentOf(c) \subseteq src.from .. src.commits)
           <=> src.from = 1
<1>1. CASE src.from = 1
  <2>1. \A c \in src.from .. src.commits : ParentOf(c) \subseteq src.from .. src.commits
    BY <1>1, SourceCommits DEF ParentOf
  <2> QED
    BY <1>1, <2>1
<1>2. CASE src.from # 1
  <2>1. src.from \in src.from .. src.commits /\ ParentOf(src.from) = {src.from - 1}
    BY <1>2, SourceCommits DEF ParentOf
  <2>2. src.from - 1 \notin src.from .. src.commits
    BY SourceCommits
  <2> QED
    BY <1>2, <2>1, <2>2
<1> QED
  BY <1>1, <1>2

\* What holds of the bundle of one request.
LEMMA BundleOfRequest ==
  ASSUME BundleShapeAssumption, input \in BundleInput
  PROVE  BundleClones
<1> DEFINE src      == input.src
           dirty    == input.dirty
           snapshot == input.depth >= 1
           bundle   == CreateBundle(src, snapshot, dirty)
<1>1. src \in Source /\ dirty \in BOOLEAN /\ snapshot \in BOOLEAN
  BY DEF BundleInput
<1> HIDE DEF src, dirty, snapshot
<1>2. bundle.made <=> ~Stranded(src, snapshot, dirty) /\ (src.commits > 0 \/ dirty)
  BY <1>1, SourceCommits DEF CreateBundle, CurrentBranch, Synthetic, Stranded
<1>3. ASSUME bundle.made
      PROVE  /\ Clones(src, snapshot, bundle) <=> ~CutOff(src, snapshot)
             /\ bundle.bundleSHA \in bundle.objects
             /\ bundle.bundleSHA = bundle.headSHA <=> ~snapshot /\ ~dirty
             /\ bundle.tree = IF dirty THEN "worktree" ELSE src.commits
             /\ bundle.objects \ {Tip} = IF snapshot THEN {} ELSE src.from .. src.commits
  <2>1. /\ bundle.headSHA = src.commits
        /\ bundle.bundleSHA = IF snapshot \/ dirty THEN Tip ELSE src.commits
        /\ bundle.tree = IF dirty THEN "worktree" ELSE src.commits
        /\ bundle.objects =
             IF snapshot THEN {Tip}
             ELSE (IF dirty THEN {Tip} ELSE {}) \cup (src.from .. src.commits)
    BY <1>1, <1>3, SourceCommits DEF CreateBundle, CurrentBranch, Synthetic, TipParents, Cloned
  <2>2. bundle.bundleSHA \in bundle.objects
    BY <1>1, <1>2, <1>3, <2>1, SourceCommits
  <2>3. bundle.bundleSHA = bundle.headSHA <=> ~snapshot /\ ~dirty
    BY <1>1, <2>1, SourceCommits
  <2>4. bundle.objects \ {Tip} = IF snapshot THEN {} ELSE src.from .. src.commits
    BY <1>1, <2>1, SourceCommits
  <2>5. TipParents(src, snapshot) = IF snapshot \/ src.commits = 0 THEN {} ELSE {src.commits}
    BY <1>1, SourceCommits DEF TipParents
  <2>6. CASE snapshot
    BY <2>1, <2>2, <2>3, <2>4, <2>5, <2>6 DEF Clones, CutOff
  <2>7. CASE ~snapshot /\ src.commits = 0
    BY <1>1, <2>1, <2>2, <2>3, <2>4, <2>5, <2>7, SourceCommits DEF Clones, CutOff
  <2>8. CASE ~snapshot /\ src.commits > 0
    <3>1. Clones(src, snapshot, bundle)
            <=> \A c \in src.from .. src.commits : ParentOf(c) \subseteq bundle.objects
      BY <1>1, <2>1, <2>5, <2>8, SourceCommits DEF Clones
    <3>2. \A c \in src.from .. src.commits :
            ParentOf(c) \subseteq bundle.objects <=> ParentOf(c) \subseteq src.from .. src.commits
      BY <1>1, <2>1, <2>8, SourceCommits DEF ParentOf, BundleShapeAssumption
    <3> QED
      BY <1>1, <2>1, <2>2, <2>3, <2>4, <2>8, <3>1, <3>2, HistoryClosed, SourceCommits DEF CutOff
  <2> QED
    BY <1>1, <2>6, <2>7, <2>8, SourceCommits
<1> QED
  BY <1>2, <1>3 DEF BundleClones, src, dirty, snapshot

\* (BundleClones) For every repository, depth and state of the work tree, but for
\* the two requests named there: a bundle is made, and the guest can clone it.
\* (CreateBundle.)
THEOREM BundlesAreCloned ==
  ASSUME BundleShapeAssumption
  PROVE  Given(BundleInput) => []BundleClones
<1>1. input \in BundleInput => BundleClones
  BY BundleOfRequest
<1>2. BundleClones /\ [FALSE]_input => BundleClones'
  BY DEF BundleClones
<1> QED
  BY <1>1, <1>2, PTL DEF Given

-----------------------------------------------------------------------------
(* HostResources. *)

\* Division with remainder.
LEMMA DivMod ==
  ASSUME NEW n \in Nat, NEW d \in Nat \ {0}
  PROVE  /\ n \div d \in Nat /\ n % d \in 0 .. d - 1
         /\ n = (n \div d) * d + (n % d)
OBVIOUS

\* Quotient and remainder of a multiple of d.
LEMMA QuotientUnique ==
  ASSUME NEW d \in Nat \ {0}, NEW a \in Nat, NEW b \in Nat, NEW r \in 0 .. d - 1, a * d = b * d + r
  PROVE  a = b /\ r = 0
<1>1. (a - b) * d = r
  OBVIOUS
<1>2. ASSUME a > b PROVE FALSE
   <2>1. (a - b) * d >= d
      BY <1>2
   <2> QED BY <1>1, <2>1
<1>3. ASSUME a < b PROVE FALSE
   <2>1. (b - a) * d >= d
      BY <1>3
   <2>2. (b - a) * d = 0 - r
      BY <1>1
   <2> QED BY <2>1, <2>2
<1> QED BY <1>1, <1>2, <1>3

\* A number is r times d when its division by d leaves nothing and gives r.
LEMMA WholeQuotient ==
  ASSUME NEW n \in Nat, NEW d \in Nat \ {0}, NEW r \in Nat
  PROVE  r * d = n <=> n % d = 0 /\ n \div d = r
<1> DEFINE q == n \div d
           m == n % d
<1>0. q \in Nat /\ m \in 0 .. d - 1 /\ n = q * d + m
  BY DivMod
<1> HIDE DEF q, m
<1>1. ASSUME r * d = n PROVE m = 0 /\ q = r
  BY <1>0, <1>1, QuotientUnique
<1>2. ASSUME m = 0, q = r PROVE r * d = n
  BY <1>0, <1>2
<1> QED BY <1>0, <1>1, <1>2 DEF q, m

\* Subtraction of unsigned integers does not wrap when it need not.
LEMMA NoWrap ==
  ASSUME NEW w \in Nat \ {0}, NEW a \in 0 .. w - 1, NEW b \in 0 .. w - 1, b <= a
  PROVE  (a + w - b) % w = a - b
OBVIOUS

\* A size in units is the number of them that gives back what was written.
LEMMA WholeUnitsOf ==
  ASSUME HostResourcesAssumption, NEW num \in Nat, NEW den \in Nat \ {0}
  PROVE  WholeUnits(num, den) = {r \in Word : r * den = num}
<1>1. \A r \in Word : r \in Nat
  BY DEF Word, HostResourcesAssumption
<1>2. \A r \in Word : r * den = num <=> num % den = 0 /\ num \div den = r
  BY <1>1, WholeQuotient
<1>3. CASE num % den = 0 /\ num \div den \in Word
  BY <1>2, <1>3 DEF WholeUnits
<1>4. CASE ~(num % den = 0 /\ num \div den \in Word)
  BY <1>2, <1>4 DEF WholeUnits
<1> QED
  BY <1>3, <1>4

LEMMA ParsedMiB ==
  ASSUME HostResourcesAssumption, NEW s \in Size, s.unit # "other"
  PROVE  ParseMiB(s) = {r \in Word : r * Scale = IF s.unit = "GiB" THEN s.n * Scale ELSE s.n}
<1>1. s.n \in Nat /\ Scale \in Nat \ {0} /\ Word \subseteq Nat
  <2>1. s.n \in Nat
    BY DEF Size
  <2>2. Scale \in Nat \ {0} /\ Word \subseteq Nat
    BY DEF HostResourcesAssumption, Word
  <2> QED
    BY <2>1, <2>2
<1>2. CASE s.unit = "GiB"
  <2>1. ParseMiB(s) = {r \in Word : r * 1 = s.n}
    BY <1>1, <1>2, WholeUnitsOf DEF ParseMiB
  <2>2. \A r \in Word : r * 1 = s.n <=> r * Scale = s.n * Scale + 0
    BY <1>1, QuotientUnique
  <2>3. s.n * Scale + 0 = s.n * Scale
    BY <1>1
  <2> QED
    BY <1>2, <2>1, <2>2, <2>3
<1>3. CASE s.unit # "GiB"
  <2>1. s.unit \in {"", "MiB"}
    BY <1>3 DEF Size
  <2>2. ParseMiB(s) = WholeUnits(s.n, Scale)
    BY <2>1 DEF ParseMiB
  <2> QED
    BY <1>1, <1>3, <2>2, WholeUnitsOf
<1> QED
  BY <1>2, <1>3

LEMMA ParsedGiB ==
  ASSUME HostResourcesAssumption, NEW s \in Size, s.unit # "other"
  PROVE  ParseGiB(s) =
           {r \in Word : r * Scale * Scale = IF s.unit = "MiB" THEN s.n ELSE s.n * Scale}
<1>1. s.n \in Nat /\ Scale \in Nat \ {0} /\ Word \subseteq Nat
  <2>1. s.n \in Nat
    BY DEF Size
  <2>2. Scale \in Nat \ {0} /\ Word \subseteq Nat
    BY DEF HostResourcesAssumption, Word
  <2> QED
    BY <2>1, <2>2
<1>2. CASE s.unit = "MiB"
  <2>1. Scale * Scale \in Nat \ {0}
    BY <1>1
  <2>2. ParseGiB(s) = {r \in Word : r * (Scale * Scale) = s.n}
    BY <1>1, <1>2, <2>1, WholeUnitsOf DEF ParseGiB
  <2>3. \A r \in Word : r * (Scale * Scale) = r * Scale * Scale
    BY <1>1
  <2> QED
    BY <1>2, <2>2, <2>3
<1>3. CASE s.unit # "MiB"
  <2>1. s.unit \in {"", "GiB"}
    BY <1>3 DEF Size
  <2>2. ParseGiB(s) = {r \in Word : r * Scale = s.n}
    BY <1>1, <2>1, WholeUnitsOf DEF ParseGiB
  <2>3. \A r \in Word : r * Scale = s.n <=> (r * Scale) * Scale = s.n * Scale + 0
    <3>1. \A r \in Word : r * Scale \in Nat
      BY <1>1
    <3> QED
      BY <1>1, <3>1, QuotientUnique
  <2>4. s.n * Scale + 0 = s.n * Scale
    BY <1>1
  <2> QED
    BY <1>3, <2>2, <2>3, <2>4
<1> QED
  BY <1>2, <1>3

LEMMA EnoughIsEnough ==
  ASSUME HostResourcesAssumption, NEW free \in Word, NEW want \in Word, NEW margin \in Nat
  PROVE  Enough(free, want, margin) <=> want + margin <= free
<1>1. Words \in Nat \ {0} /\ free \in 0 .. Words - 1 /\ want \in 0 .. Words - 1
  BY DEF Word, HostResourcesAssumption
<1>2. CASE want <= free
  <2>1. Minus(free, want) = free - want
    BY <1>1, <1>2, NoWrap DEF Minus
  <2> QED
    BY <1>1, <1>2, <2>1 DEF Enough
<1>3. CASE ~(want <= free)
  BY <1>1, <1>3 DEF Enough
<1> QED
  BY <1>2, <1>3

LEMMA ResourcesOfRequest ==
  ASSUME HostResourcesAssumption, input \in SizesInput
  PROVE  ResourcesHold
<1> DEFINE memory == input.memory
           disk   == input.disk
           mem(r) == r * Scale = IF memory.unit = "GiB" THEN memory.n * Scale ELSE memory.n
           dsk(r) == r * Scale * Scale = IF disk.unit = "MiB" THEN disk.n ELSE disk.n * Scale
           got    == CheckHostResources(memory, disk, input.freeMem, input.freeDisk)
           fits   == {r \in Word \X Word : /\ mem(r[1]) /\ dsk(r[2])
                                           /\ r[1] + MemMargin <= input.freeMem
                                           /\ r[2] + DiskMargin <= input.freeDisk}
<1>1. memory \in Size /\ disk \in Size /\ input.freeMem \in Word /\ input.freeDisk \in Word
  BY DEF SizesInput
<1>2. ASSUME memory.unit # "other", disk.unit # "other" PROVE got = fits
  <2>1. ParseMiB(memory) = {r \in Word : mem(r)} /\ ParseGiB(disk) = {r \in Word : dsk(r)}
    BY <1>1, <1>2, ParsedMiB, ParsedGiB
  <2>2. \A r \in Word : /\ Enough(input.freeMem, r, MemMargin) <=> r + MemMargin <= input.freeMem
                        /\ Enough(input.freeDisk, r, DiskMargin) <=> r + DiskMargin <= input.freeDisk
    BY <1>1, EnoughIsEnough DEF HostResourcesAssumption
  <2> HIDE DEF memory, disk, mem, dsk
  <2> QED
    BY <2>1, <2>2 DEF CheckHostResources
<1> QED
  BY <1>2 DEF ResourcesHold

\* (ResourcesHold) For every width of the unsigned integers, every size asked for
\* and every host: a sandbox gets what was asked for, and the host its margin.
\* (checkHostResources.)
THEOREM ResourcesSuffice ==
  ASSUME HostResourcesAssumption
  PROVE  Given(SizesInput) => []ResourcesHold
<1>1. input \in SizesInput => ResourcesHold
  BY ResourcesOfRequest
<1>2. ResourcesHold /\ [FALSE]_input => ResourcesHold'
  BY DEF ResourcesHold
<1> QED
  BY <1>1, <1>2, PTL DEF Given

-----------------------------------------------------------------------------
(* HostPolicy: suffixes. *)

LEMMA Reversed ==
  ASSUME NEW S, NEW s \in Seq(S)
  PROVE  /\ Reverse(s) \in Seq(S) /\ Len(Reverse(s)) = Len(s)
         /\ \A i \in 1 .. Len(s) : Reverse(s)[i] = s[Len(s) - i + 1]
BY DEF Reverse

LEMMA PrefixOf ==
  ASSUME NEW S, NEW s \in Seq(S), NEW t \in Seq(S)
  PROVE  IsPrefix(s, t) <=> Len(s) <= Len(t) /\ \A i \in 1 .. Len(s) : s[i] = t[i]
<1>1. SubSeq(s, 1, Len(s)) = s
  OBVIOUS
<1>2. CASE Len(s) <= Len(t)
  <2>1. /\ SubSeq(t, 1, Len(s)) \in Seq(S) /\ Len(SubSeq(t, 1, Len(s))) = Len(s)
        /\ \A i \in 1 .. Len(s) : SubSeq(t, 1, Len(s))[i] = t[i]
    BY <1>2
  <2>2. s = SubSeq(t, 1, Len(s)) <=> \A i \in 1 .. Len(s) : s[i] = t[i]
    BY <2>1, SeqEqual
  <2> QED
    BY <1>1, <1>2, <2>2 DEF IsPrefix
<1>3. CASE ~(Len(s) <= Len(t))
  BY <1>3 DEF IsPrefix
<1> QED
  BY <1>2, <1>3

\* A suffix, by its elements.
LEMMA SuffixOf ==
  ASSUME NEW S, NEW s \in Seq(S), NEW t \in Seq(S)
  PROVE  IsSuffix(s, t) <=>
           Len(s) <= Len(t) /\ \A i \in 1 .. Len(s) : s[i] = t[Len(t) - Len(s) + i]
<1>1. IsSuffix(s, t) <=>
        Len(s) <= Len(t) /\ \A i \in 1 .. Len(s) : s[Len(s) - i + 1] = t[Len(t) - i + 1]
  BY Reversed, PrefixOf DEF IsSuffix
<1>2. ASSUME Len(s) <= Len(t), \A i \in 1 .. Len(s) : s[Len(s) - i + 1] = t[Len(t) - i + 1],
             NEW i \in 1 .. Len(s)
      PROVE  s[i] = t[Len(t) - Len(s) + i]
  <2> DEFINE j == Len(s) - i + 1
  <2>1. j \in 1 .. Len(s) /\ Len(s) - j + 1 = i /\ Len(t) - j + 1 = Len(t) - Len(s) + i
    OBVIOUS
  <2> QED
    BY <1>2, <2>1
<1>3. ASSUME Len(s) <= Len(t), \A i \in 1 .. Len(s) : s[i] = t[Len(t) - Len(s) + i],
             NEW i \in 1 .. Len(s)
      PROVE  s[Len(s) - i + 1] = t[Len(t) - i + 1]
  <2> DEFINE j == Len(s) - i + 1
  <2>1. j \in 1 .. Len(s) /\ Len(t) - Len(s) + j = Len(t) - i + 1
    OBVIOUS
  <2> QED
    BY <1>3, <2>1
<1> QED
  BY <1>1, <1>2, <1>3

\* Being a suffix is a partial order, and the suffixes of one sequence are ordered.
LEMMA SuffixOrder ==
  ASSUME NEW S, NEW s \in Seq(S), NEW t \in Seq(S), NEW u \in Seq(S)
  PROVE  /\ IsSuffix(s, s)
         /\ IsSuffix(s, t) /\ IsSuffix(t, u) => IsSuffix(s, u)
         /\ IsSuffix(s, u) /\ IsSuffix(t, u) /\ Len(s) <= Len(t) => IsSuffix(s, t)
         /\ IsSuffix(s, t) => Len(s) <= Len(t)
<1>1. IsSuffix(s, s)
  BY SuffixOf
<1>2. ASSUME IsSuffix(s, t), IsSuffix(t, u) PROVE IsSuffix(s, u)
  <2>1. Len(s) <= Len(t) /\ Len(t) <= Len(u)
    BY <1>2, SuffixOf
  <2>2. ASSUME NEW i \in 1 .. Len(s) PROVE s[i] = u[Len(u) - Len(s) + i]
    <3> DEFINE j == Len(t) - Len(s) + i
    <3>1. j \in 1 .. Len(t) /\ Len(u) - Len(t) + j = Len(u) - Len(s) + i
      BY <2>1
    <3>2. s[i] = t[j]
      BY <1>2, SuffixOf
    <3>3. t[j] = u[Len(u) - Len(t) + j]
      BY <1>2, <3>1, SuffixOf
    <3> QED
      BY <3>1, <3>2, <3>3
  <2> QED
    BY <2>1, <2>2, SuffixOf
<1>3. ASSUME IsSuffix(s, u), IsSuffix(t, u), Len(s) <= Len(t) PROVE IsSuffix(s, t)
  <2>1. Len(t) <= Len(u)
    BY <1>3, SuffixOf
  <2>2. ASSUME NEW i \in 1 .. Len(s) PROVE s[i] = t[Len(t) - Len(s) + i]
    <3> DEFINE j == Len(t) - Len(s) + i
    <3>1. j \in 1 .. Len(t) /\ Len(u) - Len(t) + j = Len(u) - Len(s) + i
      BY <1>3, <2>1
    <3>2. s[i] = u[Len(u) - Len(s) + i]
      BY <1>3, SuffixOf
    <3>3. t[j] = u[Len(u) - Len(t) + j]
      BY <1>3, <3>1, SuffixOf
    <3> QED
      BY <3>1, <3>2, <3>3
  <2> QED
    BY <1>3, <2>2, SuffixOf
<1>4. IsSuffix(s, t) => Len(s) <= Len(t)
  BY SuffixOf
<1> QED
  BY <1>1, <1>2, <1>3, <1>4

\* A name directly under t has t as suffix, and is another name.
LEMMA SuffixUnder ==
  ASSUME NEW S, NEW t \in Seq(S), NEW x \in S
  PROVE  /\ <<x>> \o t \in Seq(S) /\ Len(<<x>> \o t) = Len(t) + 1
         /\ IsSuffix(t, <<x>> \o t) /\ <<x>> \o t # t
<1>1. <<x>> \o t \in Seq(S) /\ Len(<<x>> \o t) = Len(t) + 1
  OBVIOUS
<1>2. \A i \in 1 .. Len(t) : t[i] = (<<x>> \o t)[Len(<<x>> \o t) - Len(t) + i]
  OBVIOUS
<1>3. IsSuffix(t, <<x>> \o t)
  <2> DEFINE u == <<x>> \o t
  <2>1. u \in Seq(S) /\ Len(t) <= Len(u) /\ \A i \in 1 .. Len(t) : t[i] = u[Len(u) - Len(t) + i]
    BY <1>1, <1>2
  <2> HIDE DEF u
  <2>2. IsSuffix(t, u)
    BY <2>1, SuffixOf
  <2> QED
    BY <2>2 DEF u
<1> QED
  BY <1>1, <1>3

-----------------------------------------------------------------------------
(* HostPolicy: entries that are accepted. *)

LEMMA EntryFields ==
  ASSUME HostPolicyAssumption, NEW p \in Entries
  PROVE  /\ p.star \in {"none", "leading", "inner", "bare"} /\ p.body \in {"name", "ip4", "ip6"}
         /\ p.labels \in Seq(Label) /\ p.padded \in BOOLEAN
BY DEF HostPolicyAssumption

\* Folding case and trimming do not touch what is compared.
LEMMA LowerKeeps ==
  ASSUME HostPolicyAssumption, NEW p \in Entries
  PROVE  Lower(p).star = p.star /\ Lower(p).labels = p.labels
<1>1. p \in [star : {"none", "leading", "inner", "bare"}, labels : Seq(Label),
             body : {"name", "ip4", "ip6"}, padded : BOOLEAN, upper : BOOLEAN]
  BY DEF HostPolicyAssumption
<1> QED
  BY <1>1 DEF Lower

\* An accepted entry has no blanks and at most a leading wildcard, over two
\* labels or more.
LEMMA Accepted ==
  ASSUME HostPolicyAssumption, NEW p \in Entries, ValidHostPattern(p)
  PROVE  /\ ~p.padded /\ p.star \in {"none", "leading"}
         /\ p.star = "leading" => p.body = "name" /\ Len(p.labels) >= 2
         /\ p.body = "name" => p.labels # << >>
<1>1. p \in [star : {"none", "leading", "inner", "bare"}, labels : Seq(Label),
             body : {"name", "ip4", "ip6"}, padded : BOOLEAN, upper : BOOLEAN]
  BY DEF HostPolicyAssumption
<1>2. ~p.padded /\ p.star \in {"none", "leading"}
  BY <1>1 DEF ValidHostPattern
<1>3. CASE p.star = "none"
  BY <1>2, <1>3 DEF ValidHostPattern, ValidHostEntry
<1>4. CASE p.star = "leading"
  <2>1. p.body = "name" /\ Len(p.labels) >= 2
    BY <1>4 DEF ValidHostPattern
  <2> QED
    BY <1>1, <1>2, <2>1
<1> QED
  BY <1>2, <1>3, <1>4

\* What an accepted entry names: the names it is a suffix of, or its own.
Names(p, labels) == IF p.star = "leading" THEN IsSuffix(p.labels, labels) ELSE p.labels = labels

LEMMA MatchesNames ==
  ASSUME HostPolicyAssumption, NEW p \in Entries, ValidHostPattern(p), NEW h
  PROVE  MsbMatches(p, h) <=> p.body = "name" /\ Names(p, h.labels)
BY Accepted DEF MsbMatches, Names

LEMMA CoversNames ==
  ASSUME HostPolicyAssumption, NEW a \in Entries, NEW b \in Entries
  PROVE  CoversPattern(a, b) <=>
           (b.star = "leading" => a.star = "leading") /\ Names(a, b.labels)
BY LowerKeeps DEF CoversPattern, HostCovers, Names

\* An accepted name is a host it names itself, and one directly under it is a host.
LEMMA OwnHosts ==
  ASSUME HostPolicyAssumption, NEW p \in Entries, ValidHostPattern(p), p.body = "name"
  PROVE  /\ Host(p.labels) \in Hosts /\ Host(p.labels).labels = p.labels
         /\ MsbMatches(p, Host(p.labels))
         /\ \E x \in Label : Host(<<x>> \o p.labels) \in Hosts
<1>1. Host(p.labels) \in Hosts /\ \E x \in Label : Host(<<x>> \o p.labels) \in Hosts
  BY Accepted DEF HostPolicyAssumption
<1>2. Host(p.labels).labels = p.labels
  BY DEF Host
<1>3. Names(p, p.labels)
  BY EntryFields, SuffixOrder DEF Names
<1> QED
  BY <1>1, <1>2, <1>3, MatchesNames

-----------------------------------------------------------------------------
(* HostPolicy: how accepted entries relate. *)

LEMMA CoversIncludes ==
  ASSUME HostPolicyAssumption, NEW a \in Entries, NEW b \in Entries,
         ValidHostPattern(a), ValidHostPattern(b), a.body = "name", b.body = "name",
         CoversPattern(a, b), NEW h \in Hosts, MsbMatches(b, h)
  PROVE  MsbMatches(a, h)
<1>1. a.labels \in Seq(Label) /\ b.labels \in Seq(Label) /\ h.labels \in Seq(Label)
  BY EntryFields DEF HostPolicyAssumption
<1>2. /\ b.star = "leading" => a.star = "leading"
      /\ Names(a, b.labels) /\ Names(b, h.labels)
  BY CoversNames, MatchesNames
<1>3. Names(a, h.labels)
  BY <1>1, <1>2, SuffixOrder DEF Names
<1> QED
  BY <1>3, MatchesNames

LEMMA InclusionCovers ==
  ASSUME HostPolicyAssumption, NEW a \in Entries, NEW b \in Entries,
         ValidHostPattern(a), ValidHostPattern(b), a.body = "name", b.body = "name",
         \A h \in Hosts : MsbMatches(b, h) => MsbMatches(a, h)
  PROVE  CoversPattern(a, b)
<1>1. a.labels \in Seq(Label) /\ b.labels \in Seq(Label)
  BY EntryFields
<1>2. Names(a, b.labels)
  BY OwnHosts, MatchesNames
<1>3. ASSUME b.star = "leading", a.star # "leading" PROVE FALSE
  <2>1. PICK x \in Label : Host(<<x>> \o b.labels) \in Hosts
    BY OwnHosts
  <2> DEFINE under == Host(<<x>> \o b.labels)
  <2>2. under.labels = <<x>> \o b.labels
    BY DEF Host
  <2>3. Names(b, under.labels)
    BY <1>1, <1>3, <2>2, SuffixUnder DEF Names
  <2>4. Names(a, under.labels)
    BY <2>1, <2>3, MatchesNames
  <2> QED
    BY <1>1, <1>2, <1>3, <2>2, <2>4, SuffixUnder DEF Names
<1> QED
  BY <1>2, <1>3, CoversNames

LEMMA CommonHostOverlaps ==
  ASSUME HostPolicyAssumption, NEW a \in Entries, NEW b \in Entries,
         ValidHostPattern(a), ValidHostPattern(b),
         NEW h \in Hosts, MsbMatches(a, h), MsbMatches(b, h)
  PROVE  PatternsOverlap(a, b)
<1>1. a.labels \in Seq(Label) /\ b.labels \in Seq(Label) /\ h.labels \in Seq(Label)
  BY EntryFields DEF HostPolicyAssumption
<1>2. Names(a, h.labels) /\ Names(b, h.labels)
  BY MatchesNames
<1>3. a.star \in {"none", "leading"} /\ b.star \in {"none", "leading"}
  BY Accepted
<1>4. CASE a.star = "none"
  BY <1>2, <1>4, CoversNames DEF Names, PatternsOverlap
<1>5. CASE b.star = "none"
  BY <1>2, <1>5, CoversNames DEF Names, PatternsOverlap
<1>6. CASE a.star = "leading" /\ b.star = "leading"
  <2>1. IsSuffix(a.labels, h.labels) /\ IsSuffix(b.labels, h.labels)
    BY <1>2, <1>6 DEF Names
  <2>2. Len(a.labels) \in Nat /\ Len(b.labels) \in Nat
    BY <1>1
  <2>3. CASE Len(a.labels) <= Len(b.labels)
    BY <1>1, <1>6, <2>1, <2>3, SuffixOrder, CoversNames DEF Names, PatternsOverlap
  <2>4. CASE Len(b.labels) <= Len(a.labels)
    BY <1>1, <1>6, <2>1, <2>4, SuffixOrder, CoversNames DEF Names, PatternsOverlap
  <2> QED
    BY <2>2, <2>3, <2>4
<1> QED
  BY <1>3, <1>4, <1>5, <1>6

LEMMA OverlapHasHost ==
  ASSUME HostPolicyAssumption, NEW a \in Entries, NEW b \in Entries,
         ValidHostPattern(a), ValidHostPattern(b), a.body = "name", b.body = "name",
         PatternsOverlap(a, b)
  PROVE  \E h \in Hosts : MsbMatches(a, h) /\ MsbMatches(b, h)
<1>1. CASE CoversPattern(a, b)
  BY <1>1, OwnHosts, CoversIncludes
<1>2. CASE CoversPattern(b, a)
  BY <1>2, OwnHosts, CoversIncludes
<1> QED
  BY <1>1, <1>2 DEF PatternsOverlap

\* An accepted entry matches something, and not everything.
LEMMA MatchesSome ==
  ASSUME HostPolicyAssumption, NEW a \in Entries, ValidHostPattern(a), a.body = "name"
  PROVE  \E g, h \in Hosts : MsbMatches(a, g) /\ ~MsbMatches(a, h)
<1>1. a.labels \in Seq(Label) /\ a.star \in {"none", "leading"}
  BY EntryFields, Accepted
<1>2. \E h \in Hosts : ~MsbMatches(a, h)
  <2>1. CASE a.star = "none"
    <3>1. PICK x \in Label : Host(<<x>> \o a.labels) \in Hosts
      BY OwnHosts
    <3>2. Host(<<x>> \o a.labels).labels # a.labels
      BY <1>1, SuffixUnder DEF Host
    <3> QED
      BY <2>1, <3>1, <3>2, MatchesNames DEF Names
  <2>2. CASE a.star = "leading"
    <3>1. PICK x \in Label : Host(<<x>>) \in Hosts
      BY DEF HostPolicyAssumption
    <3>2. Host(<<x>>).labels = <<x>> /\ <<x>> \in Seq(Label) /\ Len(<<x>>) = 1
      BY DEF Host
    <3>3. Len(a.labels) >= 2
      BY <2>2, Accepted
    <3> DEFINE one == <<x>>
    <3> HIDE DEF one
    <3>4. ~IsSuffix(a.labels, one)
      <4>1. one \in Seq(Label) /\ Len(one) = 1
        BY <3>2 DEF one
      <4> QED
        BY <1>1, <3>3, <4>1, SuffixOf
    <3> QED
      BY <2>2, <3>1, <3>2, <3>4, MatchesNames DEF Names, one
  <2> QED
    BY <1>1, <2>1, <2>2
<1> QED
  BY <1>2, OwnHosts

LEMMA RelationsOfEntries ==
  ASSUME HostPolicyAssumption, input \in EntriesInput
  PROVE  RelationsExact
<1>1. input.a \in Entries /\ input.b \in Entries
  BY DEF EntriesInput
<1> QED
  BY <1>1, CoversIncludes, InclusionCovers, CommonHostOverlaps, OverlapHasHost, MatchesSome
     DEF RelationsExact

\* (RelationsExact) For all hosts and entries: covers and overlap are inclusion
\* and intersection of what msb matches.  (coversPattern, patternsOverlap.)
THEOREM RelationsAreExact ==
  ASSUME HostPolicyAssumption
  PROVE  Given(EntriesInput) => []RelationsExact
<1>1. input \in EntriesInput => RelationsExact
  BY RelationsOfEntries
<1>2. RelationsExact /\ [FALSE]_input => RelationsExact'
  BY DEF RelationsExact
<1> QED
  BY <1>1, <1>2, PTL DEF Given

-----------------------------------------------------------------------------
(* HostPolicy: the rules, in order. *)

LEMMA Concatenated ==
  ASSUME NEW S, NEW s \in Seq(S), NEW t \in Seq(S)
  PROVE  /\ s \o t \in Seq(S) /\ Len(s \o t) = Len(s) + Len(t)
         /\ \A i \in 1 .. Len(s) : (s \o t)[i] = s[i]
         /\ \A i \in 1 .. Len(t) : (s \o t)[Len(s) + i] = t[i]
<1>1. s \o t \in Seq(S) /\ Len(s \o t) = Len(s) + Len(t)
  OBVIOUS
<1>2. \A i \in 1 .. Len(s) : (s \o t)[i] = s[i]
  OBVIOUS
<1>3. \A i \in 1 .. Len(t) : (s \o t)[Len(s) + i] = t[i]
  OBVIOUS
<1> QED
  BY <1>1, <1>2, <1>3

\* Rule number 1 lets names resolve, 2 to 7 deny the groups.
Fixed == AllowDNSArgs \o DenyGroupArgs

LEMMA FixedRules ==
  /\ DenyGroups \in Seq(Places \ {"public", "dns"}) /\ Len(DenyGroups) = 6
  /\ Fixed \in Seq([act : {"allow", "deny"}, on : {"group"}, dest : Places]) /\ Len(Fixed) = 7
  /\ Fixed[1] = Group("allow", "dns")
  /\ \A i \in 1 .. 6 : Fixed[i + 1] = Group("deny", DenyGroups[i])
<1> DEFINE R == [act : {"allow", "deny"}, on : {"group"}, dest : Places]
<1>1. /\ DenyGroups \in Seq(Places \ {"public", "dns"}) /\ Len(DenyGroups) = 6
      /\ DOMAIN DenyGroups = 1 .. 6
  BY DEF DenyGroups, Places
<1>2. \A p \in Places : Group("deny", p) \in R /\ Group("allow", p) \in R
  BY DEF Group
<1>3. /\ DenyGroupArgs \in Seq(R) /\ Len(DenyGroupArgs) = 6
      /\ \A i \in 1 .. 6 : DenyGroupArgs[i] = Group("deny", DenyGroups[i])
  <2>1. DenyGroupArgs = [i \in 1 .. 6 |-> Group("deny", DenyGroups[i])]
    BY <1>1 DEF DenyGroupArgs
  <2>2. \A i \in 1 .. 6 : DenyGroups[i] \in Places
    BY <1>1, ElementOfSeq
  <2> HIDE DEF R
  <2> QED
    BY <1>2, <2>1, <2>2
<1>4. AllowDNSArgs = <<Group("allow", "dns")>> /\ Group("allow", "dns") \in R
  BY <1>2 DEF AllowDNSArgs, Places
<1> HIDE DEF R
<1>5. AllowDNSArgs \in Seq(R) /\ Len(AllowDNSArgs) = 1 /\ AllowDNSArgs[1] = Group("allow", "dns")
  BY <1>4
<1>6. /\ Fixed \in Seq(R) /\ Len(Fixed) = 7 /\ Fixed[1] = Group("allow", "dns")
      /\ \A i \in 1 .. 6 : Fixed[i + 1] = DenyGroupArgs[i]
  <2>1. /\ Fixed \in Seq(R) /\ Len(Fixed) = Len(AllowDNSArgs) + Len(DenyGroupArgs)
        /\ \A i \in 1 .. Len(AllowDNSArgs) : Fixed[i] = AllowDNSArgs[i]
        /\ \A i \in 1 .. Len(DenyGroupArgs) : Fixed[Len(AllowDNSArgs) + i] = DenyGroupArgs[i]
    <3>1. AllowDNSArgs \in Seq(R) /\ DenyGroupArgs \in Seq(R)
      BY <1>3, <1>5
    <3> QED
      BY <3>1, Concatenated DEF Fixed
  <2> QED
    BY <1>3, <1>5, <2>1
<1> QED
  BY <1>1, <1>3, <1>6 DEF R

\* A finite set as a sequence: all its elements and nothing else.
LEMMA SetAsSeq ==
  ASSUME NEW S, IsFiniteSet(S)
  PROVE  /\ SetToSeq(S) \in Seq(S)
         /\ \A x \in S : \E i \in 1 .. Len(SetToSeq(S)) : SetToSeq(S)[i] = x
<1> DEFINE n == Cardinality(S)
           q == SetToSeq(S)
<1>1. n \in Nat /\ \E f \in [1 .. n -> S] : IsInjective(f)
  BY FS_CardinalityType DEF ExistsBijection, Bijection, Injection
<1>2. q \in [1 .. n -> S] /\ IsInjective(q)
  BY <1>1 DEF SetToSeq
<1>3. IsFiniteSet(1 .. n) /\ Cardinality(1 .. n) = n
  BY <1>1, FS_Interval
<1>4. q \in Injection(1 .. n, S)
  BY <1>2 DEF Injection
<1> HIDE DEF q
<1>5. q \in Surjection(1 .. n, S)
  BY <1>3, <1>4, FS_Injection
<1>6. q \in Seq(S) /\ Len(q) = n
  BY <1>1, <1>2
<1> QED
  BY <1>5, <1>6 DEF Surjection, q

AllowRule(p) == [act |-> "allow", on |-> "host", dest |-> p]

LEMMA AllowRules ==
  ASSUME HostPolicyAssumption, NEW np \in Policies
  PROVE  LET S == {AllowRule(p) : p \in np.allow}
         IN  /\ SetToSeq(S) \in Seq(S)
             /\ \A p \in np.allow : \E i \in 1 .. Len(SetToSeq(S)) : SetToSeq(S)[i] = AllowRule(p)
<1> DEFINE S == {AllowRule(p) : p \in np.allow}
           f == [p \in np.allow |-> AllowRule(p)]
<1>1. f \in Surjection(np.allow, S)
  BY DEF Surjection
<1>2. IsFiniteSet(S)
  BY <1>1, FS_Surjection DEF HostPolicyAssumption
<1>3. \A p \in np.allow : AllowRule(p) \in S
  OBVIOUS
<1> HIDE DEF S
<1> QED
  BY <1>2, <1>3, SetAsSeq DEF S

\* What msb is given: the fixed rules, and after them the allowed hosts'.
LEMMA RulesOfPolicy ==
  ASSUME HostPolicyAssumption, NEW np \in Policies, np.mode \in {"full", "allowlist"}
  PROVE  LET rules == NetworkArgs(np).rules
         IN  /\ Len(rules) \in Nat /\ Len(rules) >= 7 /\ DOMAIN rules = 1 .. Len(rules)
             /\ \A i \in 1 .. 7 : rules[i] = Fixed[i]
             /\ \A i \in 8 .. Len(rules) : rules[i].act = "allow" /\ rules[i].on = "host"
             /\ np.mode = "full" => Len(rules) = 7
             /\ np.mode = "allowlist" =>
                  \A p \in np.allow : \E i \in 8 .. Len(rules) : rules[i] = AllowRule(p)
<1> DEFINE rules == NetworkArgs(np).rules
<1>1. CASE np.mode = "full"
  <2>1. rules = Fixed
    BY <1>1 DEF NetworkArgs, Fixed
  <2> HIDE DEF rules
  <2>2. /\ Len(rules) = 7 /\ DOMAIN rules = 1 .. Len(rules)
        /\ \A i \in 1 .. 7 : rules[i] = Fixed[i]
    BY <2>1, FixedRules
  <2> QED
    BY <1>1, <2>2 DEF rules
<1>2. CASE np.mode = "allowlist"
  <2> DEFINE S == {AllowRule(p) : p \in np.allow}
             q == SetToSeq(S)
             R == [act : {"allow", "deny"}, on : {"group"}, dest : Places] \cup S
  <2>1. rules = Fixed \o q
    BY <1>2 DEF NetworkArgs, Fixed, AllowRule
  <2>2. q \in Seq(S) /\ \A p \in np.allow : \E i \in 1 .. Len(q) : q[i] = AllowRule(p)
    BY AllowRules
  <2>3. \A r \in S : r.act = "allow" /\ r.on = "host"
    BY DEF AllowRule
  <2>4. Fixed \in Seq(R) /\ Len(Fixed) = 7
    BY FixedRules, SeqMonotonic
  <2> HIDE DEF rules, q, S
  <2>5. q \in Seq(R) /\ Len(q) \in Nat /\ \A i \in 1 .. Len(q) : q[i] \in S
    <3>1. q \in Seq(R)
      BY <2>2, SeqMonotonic
    <3>2. Len(q) \in Nat /\ \A i \in 1 .. Len(q) : q[i] \in S
      BY <2>2, ElementOfSeq, LenProperties
    <3> QED
      BY <3>1, <3>2
  <2> HIDE DEF R
  <2>6. /\ rules \in Seq(R) /\ Len(rules) = Len(Fixed) + Len(q)
        /\ \A i \in 1 .. Len(Fixed) : rules[i] = Fixed[i]
        /\ \A i \in 1 .. Len(q) : rules[Len(Fixed) + i] = q[i]
    <3>1. Fixed \in Seq(R) /\ q \in Seq(R)
      BY <2>4, <2>5
    <3> QED
      BY <2>1, <3>1, Concatenated
  <2>7. /\ Len(rules) = 7 + Len(q)
        /\ \A i \in 1 .. 7 : rules[i] = Fixed[i]
        /\ \A i \in 1 .. Len(q) : rules[7 + i] = q[i]
    BY <2>4, <2>6
  <2>8. \A i \in 8 .. Len(rules) : rules[i] \in S
    <3>1. ASSUME NEW i \in 8 .. Len(rules) PROVE rules[i] \in S
      <4>1. i - 7 \in 1 .. Len(q) /\ 7 + (i - 7) = i
        BY <2>5, <2>7
      <4> QED
        BY <2>5, <2>7, <4>1
    <3> QED
      BY <3>1
  <2>9. ASSUME NEW p \in np.allow PROVE \E i \in 8 .. Len(rules) : rules[i] = AllowRule(p)
    <3>1. PICK i \in 1 .. Len(q) : q[i] = AllowRule(p)
      BY <2>2
    <3>2. 7 + i \in 8 .. Len(rules) /\ rules[7 + i] = AllowRule(p)
      BY <2>5, <2>7, <3>1
    <3> QED
      BY <3>2
  <2>10. DOMAIN rules = 1 .. Len(rules)
    BY <2>6, LenProperties
  <2> QED
    BY <1>2, <2>3, <2>5, <2>7, <2>8, <2>9, <2>10 DEF rules
<1> QED
  BY <1>1, <1>2

-----------------------------------------------------------------------------
(* HostPolicy: what msb makes of the rules. *)

\* A set of numbers that is not empty has a least one.
LEMMA LeastOf ==
  ASSUME NEW S \in SUBSET Nat, S # {}
  PROVE  \E i \in S : \A j \in S : i <= j
<1>1. PICK x \in S : \A y \in S : ~(<<y, x>> \in OpToRel(<, Nat))
  BY NatLessThanWellFounded, WFMin
<1>2. \A y \in S : ~(y < x)
  BY <1>1 DEF OpToRel
<1> QED
  BY <1>2

\* The first rule that names a host decides.
LEMMA FirstRule ==
  ASSUME NEW args, NEW h, DOMAIN args.rules \subseteq Nat,
         \E i \in DOMAIN args.rules : RuleNames(args.rules[i], h)
  PROVE  \E i \in DOMAIN args.rules :
           /\ RuleNames(args.rules[i], h)
           /\ \A j \in DOMAIN args.rules : RuleNames(args.rules[j], h) => i <= j
           /\ Egress(args, h) = args.rules[i].act
<1> DEFINE naming == {i \in DOMAIN args.rules : RuleNames(args.rules[i], h)}
           first  == CHOOSE i \in naming : \A j \in naming : i <= j
<1>1. naming \in SUBSET Nat /\ naming # {}
  OBVIOUS
<1> HIDE DEF naming
<1>2. first \in naming /\ \A j \in naming : first <= j
  BY <1>1, LeastOf
<1>3. Egress(args, h) = args.rules[first].act
  BY <1>1 DEF Egress, naming
<1> HIDE DEF first
<1> QED
  BY <1>2, <1>3 DEF naming

\* The fixed rules name no public host; the first of them names the gateway only.
LEMMA FixedNames ==
  ASSUME NEW h
  PROVE  /\ RuleNames(Fixed[1], h) <=> h.place = "dns"
         /\ \A i \in 1 .. 7 : RuleNames(Fixed[i], h) => h.place # "public"
         /\ h.place \in Range(DenyGroups) =>
              /\ h.place # "dns" /\ \E i \in 2 .. 7 : RuleNames(Fixed[i], h)
         /\ Fixed[1].act = "allow" /\ \A i \in 2 .. 7 : Fixed[i].act = "deny"
<1> DEFINE denied == Places \ {"public", "dns"}
<1>1. \A i \in 1 .. 6 : /\ DenyGroups[i] \in denied
                        /\ Fixed[i + 1] = Group("deny", DenyGroups[i])
  BY FixedRules, ElementOfSeq
<1>2. /\ \A i \in 2 .. 7 : i - 1 \in 1 .. 6 /\ (i - 1) + 1 = i
      /\ \A i \in 1 .. 6 : i + 1 \in 2 .. 7
      /\ \A i \in 1 .. 7 : i = 1 \/ i \in 2 .. 7
  OBVIOUS
<1>3. \A i \in 2 .. 7 : /\ DenyGroups[i - 1] \in denied
                        /\ Fixed[i] = Group("deny", DenyGroups[i - 1])
  BY <1>1, <1>2
<1>4. RuleNames(Fixed[1], h) <=> h.place = "dns"
  BY FixedRules DEF RuleNames, Group
<1>5. \A i \in 2 .. 7 : RuleNames(Fixed[i], h) =>
        h.place = DenyGroups[i - 1] \/ h.place = "dns"
  BY <1>3 DEF RuleNames, Group
<1>6. \A i \in 1 .. 7 : RuleNames(Fixed[i], h) => h.place # "public"
  BY <1>2, <1>3, <1>4, <1>5
<1>7. ASSUME h.place \in Range(DenyGroups)
      PROVE  h.place # "dns" /\ \E i \in 2 .. 7 : RuleNames(Fixed[i], h)
  <2>1. DOMAIN DenyGroups = 1 .. 6
    BY FixedRules, LenProperties
  <2>2. PICK k \in 1 .. 6 : DenyGroups[k] = h.place
    BY <1>7, <2>1 DEF Range
  <2>3. RuleNames(Fixed[k + 1], h)
    BY <1>1, <2>2 DEF RuleNames, Group
  <2> QED
    BY <1>1, <1>2, <2>2, <2>3
<1>8. Fixed[1].act = "allow" /\ \A i \in 2 .. 7 : Fixed[i].act = "deny"
  BY <1>3, FixedRules DEF Group
<1> QED
  BY <1>4, <1>6, <1>7, <1>8

LEMMA NothingOut ==
  ASSUME NEW np, np.mode = "none", NEW h
  PROVE  Egress(NetworkArgs(np), h) = "deny"
<1>1. NetworkArgs(np).rules = << >> /\ NetworkArgs(np).default = "deny"
  BY DEF NetworkArgs
<1>2. DOMAIN NetworkArgs(np).rules = {}
  BY <1>1
<1> QED
  BY <1>1, <1>2 DEF Egress

LEMMA GroupsDenied ==
  ASSUME HostPolicyAssumption, NEW np \in Policies, np.mode \in {"full", "allowlist"},
         NEW h, h.place \in Range(DenyGroups)
  PROVE  Egress(NetworkArgs(np), h) = "deny"
<1> DEFINE args  == NetworkArgs(np)
           rules == args.rules
<1>1. /\ Len(rules) \in Nat /\ Len(rules) >= 7 /\ DOMAIN rules = 1 .. Len(rules)
      /\ \A i \in 1 .. 7 : rules[i] = Fixed[i]
  BY RulesOfPolicy
<1> HIDE DEF args
<1>2. PICK k \in 2 .. 7 : RuleNames(rules[k], h)
  BY <1>1, FixedNames
<1>3. ~RuleNames(rules[1], h)
  BY <1>1, FixedNames
<1>4. DOMAIN rules \subseteq Nat /\ k \in DOMAIN rules /\ 1 \in DOMAIN rules
  BY <1>1
<1>5. PICK i \in DOMAIN rules : /\ RuleNames(rules[i], h)
                                /\ \A j \in DOMAIN rules : RuleNames(rules[j], h) => i <= j
                                /\ Egress(args, h) = rules[i].act
  BY <1>2, <1>4, FirstRule
<1>6. i \in 2 .. 7
  <2>1. i <= k /\ i # 1
    BY <1>2, <1>3, <1>4, <1>5
  <2>2. i \in Nat /\ i >= 1
    BY <1>1
  <2> QED
    BY <2>1, <2>2
<1>7. rules[i].act = "deny"
  BY <1>1, <1>6, FixedNames
<1> QED
  BY <1>5, <1>7 DEF args

LEMMA NamesResolve ==
  ASSUME HostPolicyAssumption, NEW np \in Policies, np.mode \in {"full", "allowlist"},
         NEW h, h.place = "dns"
  PROVE  Egress(NetworkArgs(np), h) = "allow"
<1> DEFINE args  == NetworkArgs(np)
           rules == args.rules
<1>1. /\ Len(rules) \in Nat /\ Len(rules) >= 7 /\ DOMAIN rules = 1 .. Len(rules)
      /\ \A i \in 1 .. 7 : rules[i] = Fixed[i]
  BY RulesOfPolicy
<1> HIDE DEF args
<1>2. RuleNames(rules[1], h)
  BY <1>1, FixedNames
<1>3. DOMAIN rules \subseteq Nat /\ 1 \in DOMAIN rules
  BY <1>1
<1>4. PICK i \in DOMAIN rules : /\ RuleNames(rules[i], h)
                                /\ \A j \in DOMAIN rules : RuleNames(rules[j], h) => i <= j
                                /\ Egress(args, h) = rules[i].act
  BY <1>2, <1>3, FirstRule
<1>5. i = 1
  BY <1>1, <1>2, <1>3, <1>4
<1> QED
  BY <1>1, <1>4, <1>5, FixedNames DEF args

\* A public host an accepted entry of the allowlist names may be connected to.
LEMMA AllowedPasses ==
  ASSUME HostPolicyAssumption, NEW np \in Policies, np.mode = "allowlist",
         NEW e \in np.allow, NEW h \in Public, MsbMatches(e, h)
  PROVE  Egress(NetworkArgs(np), h) = "allow"
<1> DEFINE args  == NetworkArgs(np)
           rules == args.rules
<1>1. /\ Len(rules) \in Nat /\ Len(rules) >= 7 /\ DOMAIN rules = 1 .. Len(rules)
      /\ \A i \in 1 .. 7 : rules[i] = Fixed[i]
      /\ \A i \in 8 .. Len(rules) : rules[i].act = "allow"
      /\ \E i \in 8 .. Len(rules) : rules[i] = AllowRule(e)
  BY RulesOfPolicy
<1> HIDE DEF args
<1>2. PICK k \in 8 .. Len(rules) : rules[k] = AllowRule(e)
  BY <1>1
<1>3. RuleNames(rules[k], h)
  BY <1>2 DEF RuleNames, AllowRule
<1>4. DOMAIN rules \subseteq Nat /\ k \in DOMAIN rules
  BY <1>1
<1>5. PICK i \in DOMAIN rules : /\ RuleNames(rules[i], h)
                                /\ Egress(args, h) = rules[i].act
  BY <1>3, <1>4, FirstRule
<1>6. i \notin 1 .. 7
  BY <1>1, <1>5, FixedNames DEF Public
<1>7. i \in 8 .. Len(rules)
  BY <1>1, <1>6
<1> QED
  BY <1>1, <1>5, <1>7 DEF args

\* Full access lets every public host be connected to.
LEMMA PublicPasses ==
  ASSUME HostPolicyAssumption, NEW np \in Policies, np.mode = "full", NEW h \in Public
  PROVE  Egress(NetworkArgs(np), h) = "allow"
<1> DEFINE args  == NetworkArgs(np)
           rules == args.rules
<1>1. Len(rules) = 7 /\ DOMAIN rules = 1 .. Len(rules) /\ \A i \in 1 .. 7 : rules[i] = Fixed[i]
  BY RulesOfPolicy
<1>2. args.default = "allow"
  BY DEF NetworkArgs
<1> HIDE DEF args
<1>3. \A i \in DOMAIN rules : ~RuleNames(rules[i], h)
  BY <1>1, FixedNames DEF Public
<1>4. {i \in DOMAIN rules : RuleNames(rules[i], h)} = {}
  BY <1>3
<1> QED
  BY <1>2, <1>4 DEF args, Egress

\* An accepted entry that covers an accepted name is a name itself.
LEMMA CoverIsName ==
  ASSUME HostPolicyAssumption, NEW e \in Entries, NEW p \in Entries,
         ValidHostPattern(e), ValidHostPattern(p), p.body = "name", CoversPattern(e, p)
  PROVE  e.body = "name"
<1>1. CASE e.star = "leading"
  BY <1>1, Accepted
<1>2. CASE e.star # "leading"
  <2>1. e.labels = p.labels /\ p.labels # << >>
    BY <1>2, CoversNames, Accepted DEF Names
  <2> QED
    BY <2>1 DEF HostPolicyAssumption
<1> QED
  BY <1>1, <1>2

\* A secret of an accepted policy is substituted at every public host of its scope.
LEMMA ScopeIsServed ==
  ASSUME HostPolicyAssumption, NEW np \in Policies, NEW known,
         ValidateNetworkPolicyForMsb(np, known), np.mode \in {"full", "allowlist"},
         NEW i \in DOMAIN np.secrets, NEW p \in np.secrets[i].hosts,
         NEW h \in Public, MsbMatches(p, h)
  PROVE  Substituted(NetworkArgs(np), h)
<1> DEFINE args == NetworkArgs(np)
<1>1. /\ np.allow \subseteq Entries /\ np.passthrough \subseteq Entries /\ p \in Entries
      /\ h \in Hosts /\ h.place = "public"
  BY DEF HostPolicyAssumption, Public
<1>2. /\ SecretHostOK(np, p)
      /\ \A e \in np.allow \cup np.passthrough : ValidHostPattern(e)
  BY DEF ValidateNetworkPolicyForMsb, ValidateNetworkPolicy
<1>3. ValidHostPattern(p) /\ p.body = "name"
  BY <1>1, <1>2, MatchesNames DEF SecretHostOK
<1>4. args.intercept /\ args.bypass = np.passthrough
  <2>1. np.secrets # << >>
    OBVIOUS
  <2> QED
    BY <2>1 DEF NetworkArgs
<1>5. \A q \in np.passthrough : ~MsbMatches(q, h)
  <2>1. ASSUME NEW q \in np.passthrough, MsbMatches(q, h) PROVE FALSE
    <3>1. PatternsOverlap(q, p)
      BY <1>1, <1>2, <1>3, <2>1, CommonHostOverlaps
    <3> QED
      BY <1>2, <3>1 DEF SecretHostOK, AnyOverlaps
  <2> QED
    BY <2>1
<1>6. Egress(args, h) = "allow"
  <2>1. CASE np.mode = "full"
    BY <2>1, PublicPasses
  <2>2. CASE np.mode = "allowlist"
    <3>1. PICK e \in np.allow : CoversPattern(e, p)
      BY <1>2, <2>2 DEF SecretHostOK, AnyCovers
    <3>2. e \in Entries /\ ValidHostPattern(e) /\ e.body = "name"
      BY <1>1, <1>2, <1>3, <3>1, CoverIsName
    <3>3. MsbMatches(e, h)
      BY <1>1, <1>3, <3>1, <3>2, CoversIncludes
    <3> QED
      BY <2>2, <3>3, AllowedPasses
  <2> QED
    BY <2>1, <2>2
<1> QED
  BY <1>4, <1>5, <1>6 DEF Substituted

LEMMA PolicyOfRun ==
  ASSUME HostPolicyAssumption, NEW CONSTANT known, input \in PolicyInput(known)
  PROVE  PolicyHolds
<1> DEFINE np == input.np
<1>1. np \in Policies
  BY DEF PolicyInput
<1>2. ASSUME NetworkArgs(np).ok PROVE np.mode \in {"none", "full", "allowlist"}
  BY <1>2 DEF NetworkArgs
<1> HIDE DEF np
<1>3. ASSUME ValidateNetworkPolicyForMsb(np, input.keys), NetworkArgs(np).ok
      PROVE  /\ np.mode = "none" => \A h \in Hosts : Egress(NetworkArgs(np), h) = "deny"
             /\ np.mode # "none" =>
                  /\ \A i \in DOMAIN np.secrets : \A p \in np.secrets[i].hosts :
                       \A h \in Public : MsbMatches(p, h) => Substituted(NetworkArgs(np), h)
                  /\ \A h \in Hosts :
                       h.place \in Range(DenyGroups) => Egress(NetworkArgs(np), h) = "deny"
                  /\ \A h \in Hosts : h.place = "dns" => Egress(NetworkArgs(np), h) = "allow"
  BY <1>1, <1>2, <1>3, NothingOut, ScopeIsServed, GroupsDenied, NamesResolve
<1> QED
  BY <1>3 DEF PolicyHolds, np

\* (PolicyHolds) Every policy the checks accept, with any keys in the secrets
\* file, does what it says.  (ValidateNetworkPolicyForMsb, NetworkArgs.)
THEOREM AcceptedPolicyHolds ==
  ASSUME HostPolicyAssumption, NEW CONSTANT known
  PROVE  Given(PolicyInput(known)) => []PolicyHolds
<1>1. input \in PolicyInput(known) => PolicyHolds
  BY PolicyOfRun
<1>2. PolicyHolds /\ [FALSE]_input => PolicyHolds'
  BY DEF PolicyHolds
<1> QED
  BY <1>1, <1>2, PTL DEF Given
=============================================================================
