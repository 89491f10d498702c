---------------------------- MODULE BundleShape -----------------------------
(* The git bundle a sandbox gets the repository in: which commits are in it,   *)
(* and whether the guest can clone it. The commits of the source are 1 .. n,   *)
(* each the parent of the next, HEAD the last one; a shallow source has only   *)
(* those from "from" on; n = 0 is a repository without a commit.                *)
EXTENDS Naturals, FiniteSets, Calculation

CONSTANT Tip  \* the synthetic commit, no commit of the source

BundleShapeAssumption == Tip \notin Nat

\* HEAD is on a branch, at a commit some branch ends at, or elsewhere.
Heads == {"branch", "branch_tip", "detached"}

Source == {s \in [commits : Nat, from : Nat \ {0}, head : Heads] :
             s.from <= IF s.commits = 0 THEN 1 ELSE s.commits}

Sources(n) == [commits : 0 .. n, from : 1 .. n, head : Heads] \cap Source

\* Any repository, asked for with any depth (0: all of it).
BundleInput == [of : {"bundle"}, src : Source, depth : Nat, dirty : BOOLEAN]

ParentOf(c) == IF c = 1 THEN {} ELSE {c - 1}

-----------------------------------------------------------------------------
(* CreateBundle. *)

\* git clone of the source, with its tip alone for a snapshot.
Cloned(src, snapshot) == IF snapshot THEN {src.commits} \ {0} ELSE src.from .. src.commits

\* The branch the clone is on. One made from a HEAD no branch ends at is
\* detached, and rev-parse --abbrev-ref names it "HEAD".
CurrentBranch(src) == IF src.commits > 0 /\ src.head = "detached" THEN "HEAD" ELSE "main"

\* A synthetic commit is made for a snapshot and for uncommitted changes; in a
\* full history it keeps its parent.
Synthetic(snapshot, dirty) == snapshot \/ dirty

TipParents_Kept(src, snapshot) == {src.commits} \ {0}
TipParents(src, snapshot) == IF snapshot THEN {} ELSE {src.commits} \ {0}

\* The bundle, or "none": no commit and nothing uncommitted asked for, or the
\* synthetic commit went to refs/heads/HEAD, which makes "HEAD" ambiguous and
\* git refuse an empty bundle.
CreateBundle(src, snapshot, dirty) ==
  LET head   == src.commits
      parent == TipParents(src, snapshot)
  IN IF \/ head = 0 /\ ~dirty
        \/ Synthetic(snapshot, dirty) /\ CurrentBranch(src) = "HEAD"
     THEN [made |-> FALSE]
     ELSE [made    |-> TRUE,
           headSHA |-> head,
           bundleSHA |-> IF Synthetic(snapshot, dirty) THEN Tip ELSE head,
           tree    |-> IF dirty THEN "worktree" ELSE head,
           objects |-> IF Synthetic(snapshot, dirty)
                       THEN {Tip} \cup IF parent = {} THEN {} ELSE Cloned(src, snapshot)
                       ELSE Cloned(src, snapshot)]

\* git clone in the guest: every commit with its parents. (Nothing carries the
\* clone's own shallow boundary into the bundle, and bundle verify misses it.)
Clones(src, snapshot, bundle) ==
  \A c \in bundle.objects :
    (IF c = Tip THEN TipParents(src, snapshot) ELSE ParentOf(c)) \subseteq bundle.objects

-----------------------------------------------------------------------------
(* Properties. *)

\* The two requests CreateBundle fails (both read in the code and tried with git): a
\* synthetic commit of a HEAD no branch ends at, for which no bundle is made, and the
\* full history of a shallow repository, whose bundle the guest cannot clone.
Stranded(src, snapshot, dirty) == src.commits > 0 /\ src.head = "detached" /\ (snapshot \/ dirty)
CutOff(src, snapshot) == src.commits > 0 /\ src.from > 1 /\ ~snapshot

\* (BundleClones) Every other request for what is there gets a bundle that the guest can
\* clone; and any bundle is of the tree asked for, with all the history the source has or
\* none of it, and its tip is the baseline the run records.  (CreateBundle, Ingest.)
BundleClones ==
  input.of = "bundle" =>
    LET src      == input.src
        dirty    == input.dirty
        snapshot == input.depth >= 1
        bundle   == CreateBundle(src, snapshot, dirty)
    IN /\ src.commits > 0 \/ dirty => Stranded(src, snapshot, dirty) \/ bundle.made
       /\ bundle.made =>
            /\ CutOff(src, snapshot) \/ Clones(src, snapshot, bundle)
            /\ bundle.bundleSHA \in bundle.objects
            /\ bundle.bundleSHA = bundle.headSHA <=> ~snapshot /\ ~dirty
            /\ bundle.tree = IF dirty THEN "worktree" ELSE src.commits
            /\ bundle.objects \ {Tip} = IF snapshot THEN {} ELSE src.from .. src.commits

\* Violated.  patch.go says that CreateBundle writes a self-contained bundle, one the
\* guest can clone with no prerequisites.
SelfContained ==
  input.of = "bundle" =>
    LET src      == input.src
        snapshot == input.depth >= 1
        bundle   == CreateBundle(src, snapshot, input.dirty)
    IN src.commits > 0 \/ input.dirty => bundle.made /\ Clones(src, snapshot, bundle)
=============================================================================
