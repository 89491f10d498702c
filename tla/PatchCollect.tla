---------------------------- MODULE PatchCollect ----------------------------
(* How a patch comes out of a sandbox: krayt-helper setup, the agent's work    *)
(* on /workspace and its .git, and krayt-helper finish followed by the copy    *)
(* out, run by the session's own end and by any `krayt patch` meanwhile.       *)
(* Versions of the work tree stand for its contents.                          *)
EXTENDS Naturals

CONSTANTS
  Supervisor,     \* the krayt process whose session this is
  Visitors,  \* `krayt patch` processes
  MaxVersions   \* bound on the versions of the work tree

PatchCollectAssumption == Supervisor \notin Visitors /\ MaxVersions \in Nat

VARIABLES
  setup,     \* how far krayt-helper setup is
  writable,  \* the agent's user may write in /workspace
  tree,      \* version of the work tree
  git,       \* /workspace/.git: where HEAD is and krayt-baseline, who wrote the rest
  patchgit,  \* who wrote the root-only copy of it
  index,     \* version staged in the root-only copy
  output,    \* /output: changes.patch and commits.bundle
  runDir,    \* the same two in the run directory
  finisher,  \* where each finisher is
  got,       \* what each finisher carries
  since,     \* history: version of the work tree when a finisher began
  mixed,     \* history: finishers that shared the sandbox with another
  gone       \* the sandbox has been removed

collectVars == <<setup, writable, tree, git, patchgit, index, output, runDir, finisher, got, since, mixed, gone>>

Finishers == {Supervisor} \cup Visitors
Busy      == {"readtree", "add", "diff", "write", "bundle", "copy", "move"}

\* The two files of /output: the baseline each is against, and whose configuration
\* was in force for the git that made it.
Baselines == {"none", "ours", "moved"}
Configs   == {"none", "clean", "agent"}
Outputs   == [patch  : [base : Baselines, under : Configs, upto : 0..MaxVersions],
              bundle : [base : Baselines, under : Configs]]
NoPatch   == [base |-> "none", under |-> "none", upto |-> 0]
NoBundle  == [base |-> "none", under |-> "none"]
Nothing   == [patch |-> NoPatch, bundle |-> NoBundle]

CollectTypeOK ==
  /\ setup \in {"none", "ingested", "copied", "ready"}
  /\ writable \in BOOLEAN /\ gone \in BOOLEAN
  /\ tree \in 0..MaxVersions /\ index \in 0..MaxVersions
  /\ git \in [head : {"base", "ahead", "astray"}, tag : {"ours", "moved"},
              config : {"clean", "agent"}]
  /\ patchgit \in Configs
  /\ {output, runDir} \subseteq Outputs
  /\ finisher \in [Finishers -> Busy \cup {"idle", "done", "failed", "unbundled"}]
  /\ since \in [Finishers -> 0..MaxVersions]
  /\ mixed \subseteq Finishers

CollectInit ==
  /\ setup = "none" /\ writable = FALSE /\ gone = FALSE
  /\ tree = 0 /\ index = 0
  /\ git = [head |-> "astray", tag |-> "ours", config |-> "clean"]
  /\ patchgit = "none"
  /\ output = Nothing /\ runDir = Nothing
  /\ finisher = [f \in Finishers |-> "idle"]
  /\ got = [f \in Finishers |-> Nothing]
  /\ since = [f \in Finishers |-> 0]
  /\ mixed = {}

-----------------------------------------------------------------------------
(* krayt-helper setup, as root. *)

\* Ingest: clone the bundle, tag the baseline.
Ingest ==
  /\ setup = "none" /\ setup' = "ingested"
  /\ git' = [git EXCEPT !.head = "base"]
  /\ UNCHANGED <<writable, tree, patchgit, index, output, runDir, finisher, got, since, mixed, gone>>

\* SetupPatchGit: the root-only copy.
CopyGit ==
  /\ setup = "ingested" /\ setup' = "copied"
  /\ patchgit' = git.config
  /\ UNCHANGED <<writable, tree, git, index, output, runDir, finisher, got, since, mixed, gone>>

\* MakeContainerWritable.
Relax ==
  /\ setup = "copied" /\ setup' = "ready"
  /\ writable' = TRUE
  /\ UNCHANGED <<tree, git, patchgit, index, output, runDir, finisher, got, since, mixed, gone>>

-----------------------------------------------------------------------------
(* The sandbox's user, who owns everything in /workspace once it may write. *)

Edit ==
  /\ writable /\ ~gone /\ tree < MaxVersions
  /\ tree' = tree + 1
  /\ UNCHANGED <<setup, writable, git, patchgit, index, output, runDir, finisher, got, since, mixed, gone>>

\* Commits, resets to an earlier commit, an orphan branch, a deleted .git.
MoveHead ==
  /\ writable /\ ~gone
  /\ \E h \in {"base", "ahead", "astray"} : git' = [git EXCEPT !.head = h]
  /\ UNCHANGED <<setup, writable, tree, patchgit, index, output, runDir, finisher, got, since, mixed, gone>>

\* A moved krayt-baseline tag; a configuration or a hook of its own.
Tamper ==
  /\ writable /\ ~gone
  /\ git' \in {[git EXCEPT !.tag = "moved"], [git EXCEPT !.config = "agent"]}
  /\ UNCHANGED <<setup, writable, tree, patchgit, index, output, runDir, finisher, got, since, mixed, gone>>

-----------------------------------------------------------------------------
(* finishAndCollect; every step before the last is in the sandbox. *)

Go(f, from, to) == finisher[f] = from /\ ~gone /\ finisher' = [finisher EXCEPT ![f] = to]

\* The session has ended, or `krayt patch` finds it running or kept.
StartFinish(f) ==
  /\ setup = "ready"
  /\ Go(f, "idle", "readtree")
  /\ since' = [since EXCEPT ![f] = tree]
  /\ LET others == {g \in Finishers \ {f} : finisher[g] \in Busy}
     IN mixed' = mixed \cup (IF others = {} THEN {} ELSE others \cup {f})
  /\ UNCHANGED <<setup, writable, tree, git, patchgit, index, output, runDir, got, gone>>

\* Diff, in one index that all finishers share: the baseline, then the work
\* tree, then what differs.  The baseline is the root-only copy's.
ReadTree(f) ==
  /\ Go(f, "readtree", "add")
  /\ index' = 0
  /\ UNCHANGED <<setup, writable, tree, git, patchgit, output, runDir, got, since, mixed, gone>>

AddAll(f) ==
  /\ Go(f, "add", "diff")
  /\ index' = tree
  /\ UNCHANGED <<setup, writable, tree, git, patchgit, output, runDir, got, since, mixed, gone>>

DiffCached(f) ==
  /\ Go(f, "diff", "write")
  /\ got' = [got EXCEPT ![f].patch = [base |-> "ours", under |-> patchgit, upto |-> index]]
  /\ UNCHANGED <<setup, writable, tree, git, patchgit, index, output, runDir, since, mixed, gone>>

WritePatch_Once(f) ==
  /\ Go(f, "write", "bundle")
  /\ output' = IF output.patch = NoPatch THEN [output EXCEPT !.patch = got[f].patch] ELSE output
  /\ UNCHANGED <<setup, writable, tree, git, patchgit, index, runDir, got, since, mixed, gone>>

WritePatch(f) ==
  /\ Go(f, "write", "bundle")
  /\ output' = [output EXCEPT !.patch = got[f].patch]
  /\ UNCHANGED <<setup, writable, tree, git, patchgit, index, runDir, got, since, mixed, gone>>

Bundle_WorkspaceTag(f) ==
  /\ git.head \in {"base", "ahead"}
  /\ Go(f, "bundle", "copy")
  /\ output' = IF git.head = "base" THEN output
               ELSE [output EXCEPT !.bundle = [base |-> git.tag, under |-> git.config]]
  /\ UNCHANGED <<setup, writable, tree, git, patchgit, index, runDir, got, since, mixed, gone>>

\* BundleCommits: the baseline is the root-only copy's, but HEAD is resolved and
\* the bundle made by git as root on /workspace/.git itself, with the agent's
\* configuration in force but for the knobs that the command line clears.  When
\* HEAD is the baseline there is nothing to do, and an older bundle stays.
Bundle(f) ==
  /\ git.head \in {"base", "ahead"}
  /\ Go(f, "bundle", "copy")
  /\ output' = IF git.head = "base" THEN output
               ELSE [output EXCEPT !.bundle = [base |-> "ours", under |-> git.config]]
  /\ UNCHANGED <<setup, writable, tree, git, patchgit, index, runDir, got, since, mixed, gone>>

\* No HEAD to resolve, no commit in baseline..HEAD, which git refuses to bundle,
\* or a configuration git does not read: finish fails as a whole.
BundleFails(f) ==
  /\ git.head = "astray" \/ git.config = "agent"
  /\ Go(f, "bundle", "unbundled")
  /\ got' = [got EXCEPT ![f] = Nothing]
  /\ UNCHANGED <<setup, writable, tree, git, patchgit, index, output, runDir, since, mixed, gone>>

\* collectOutput stages a copy, and moveTreeContents renames what there is
\* over what the run directory has.
CopyOut(f) ==
  /\ Go(f, "copy", "move")
  /\ got' = [got EXCEPT ![f] = output]
  /\ UNCHANGED <<setup, writable, tree, git, patchgit, index, output, runDir, since, mixed, gone>>

Move(f) ==
  /\ finisher[f] = "move" /\ finisher' = [finisher EXCEPT ![f] = "done"]
  /\ runDir' = [patch |-> got[f].patch, bundle |-> IF got[f].bundle = NoBundle THEN runDir.bundle ELSE got[f].bundle]
  /\ got' = [got EXCEPT ![f] = Nothing]
  /\ UNCHANGED <<setup, writable, tree, git, patchgit, index, output, since, mixed, gone>>

\* Any command may fail; in a sandbox that is gone each one does.
Fail(f) ==
  /\ finisher[f] \in Busy
  /\ finisher' = [finisher EXCEPT ![f] = "failed"]
  /\ got' = [got EXCEPT ![f] = Nothing]
  /\ UNCHANGED <<setup, writable, tree, git, patchgit, index, output, runDir, since, mixed, gone>>

\* The session's owner tears the sandbox down, whoever else is at work in it.
RemoveSandbox ==
  /\ finisher[Supervisor] \in {"done", "failed", "unbundled"} /\ ~gone
  /\ gone' = TRUE
  /\ UNCHANGED <<setup, writable, tree, git, patchgit, index, output, runDir, finisher, got, since, mixed>>

FinisherStep(f) ==
  \/ StartFinish(f) \/ ReadTree(f) \/ AddAll(f) \/ DiffCached(f) \/ WritePatch(f) \/ Bundle(f)
  \/ BundleFails(f) \/ CopyOut(f) \/ Move(f) \/ Fail(f)

CollectNext ==
  \/ Ingest \/ CopyGit \/ Relax \/ Edit \/ MoveHead \/ Tamper \/ RemoveSandbox
  \/ \E f \in Finishers : FinisherStep(f)

CollectSpec == CollectInit /\ [][CollectNext]_collectVars

-----------------------------------------------------------------------------
(* Properties. *)

\* Root does run git on the agent's .git, for the bundle (patch.go 366-379); what
\* the agent writes there reaches no further.  The root-only copy never has it,
\* changes.patch is made under the configuration of that copy alone, and neither
\* file is against a baseline that the agent moved.
GitNotTrusted ==
  /\ patchgit # "agent"
  /\ \A files \in {output, runDir} :
       /\ files.patch.under # "agent" /\ files.patch.base # "moved"
       /\ files.bundle.base # "moved"

\* A collection that shared the sandbox with no other leaves a patch no older
\* than the work tree it began with, however many there were before.
PatchIsCurrent ==
  [][\A f \in Finishers :
       finisher[f] = "move" /\ finisher'[f] = "done" /\ f \notin mixed
         => runDir'.patch.upto >= since[f]]_collectVars

\* Violated.  patch.go says of commits.bundle that a corrupt workspace .git only
\* fails this optional artifact, never changes.patch.
PatchSurvivesGit ==
  \A f \in Finishers :
    finisher[f] = "unbundled" => runDir.patch.base # "none" /\ runDir.patch.upto >= since[f]
=============================================================================
