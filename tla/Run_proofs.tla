----------------------------- MODULE Run_proofs -----------------------------
(* Proofs about a run: its supervision, for every order of its steps and of    *)
(* what goes wrong in them, and the patch it leaves.                          *)
EXTENDS RunLifecycle, PatchCollect, TLAPS

-----------------------------------------------------------------------------
(* RunLifecycle.                                                           *)

Early    == {"begin", "wire", "resolve", "create", "clone", "capture", "copy", "setup"}
Sandless == {"begin", "wire", "resolve", "create"}
Agentful == {"wait", "judge", "finish", "collect"}

(* The inductive invariant, part by part. *)

\* Run has a result from the moment it gives up or has collected, and only then.
ResultInv ==
  /\ step \in {"begin"} \cup Working => result = "none"
  /\ step \in Teardown => result \in Ended
  /\ step = "returned" => result \in Ended
  /\ rec = "done" => step = "returned" /\ result = "done"

\* Nobody edits the repository before the record says running, which comes after
\* both reads of it.
SnapshotInv ==
  /\ step \in Early => rec \in {"absent", "starting"}
  /\ rec \in {"absent", "starting"} => host = 0
  /\ SnapshotIsOfStart

\* A sandbox can exist from create on; the deferred rm is passed before the end.
SandboxInv ==
  /\ step \in Sandless => ~vm
  /\ step \in {"record", "returned"} => ~vm \/ "rm" \in refused

\* What the deferred calls before rm have done.
DiagnosticsInv ==
  /\ step \in {"transcript", "stop", "rm"} => "console" \in out \/ "logs" \in refused
  /\ step \in {"stop", "rm"} /\ Transcripts => "transcript" \in out \/ "transcript" \in refused

\* An agent whose exec was killed, not by msb itself, has a dead context, and with
\* that neither finish nor collect succeeds.
AgentInv ==
  /\ agent = "running" => step = "wait"
  /\ step \in Agentful => agent # "none"
  /\ agent \in {"killed", "lost"} /\ "exec" \notin refused => ctx # "live"

\* What finish diffed is what the agent left, and stays it.
PatchInv ==
  /\ step = "collect" /\ "exec" \notin refused /\ agent \in {"zero", "nonzero"} => patch = ws
  /\ result = "done" /\ "exec" \notin refused =>
       agent \in {"zero", "nonzero"} /\ "patch" \in out /\ patch = ws

LifecycleInv == RunTypeOK /\ ResultInv /\ SnapshotInv /\ SandboxInv /\ DiagnosticsInv /\ AgentInv /\ PatchInv

\* Every action keeps the invariant: the calls that consult the context go on
\* only with a live one (Advance), the deferred calls always.
LEMMA LifecycleStep ==
  ASSUME LifecycleAssumption, LifecycleInv, [RunNext]_runVars
  PROVE  LifecycleInv'
<1> USE DEF LifecycleAssumption, LifecycleInv, RunTypeOK, ResultInv, SnapshotInv, SnapshotIsOfStart, SandboxInv,
            DiagnosticsInv, AgentInv, PatchInv, Unread, Working, Teardown, Ended, Early, Sandless,
            Agentful
<1>1. CASE BeginFails
  BY <1>1 DEF BeginFails
<1>2. CASE Begin
  BY <1>2 DEF Begin
<1>3. CASE Wire
  BY <1>3 DEF Wire, GiveUp
<1>4. CASE Resolve
  BY <1>4 DEF Resolve, Advance
<1>5. CASE Create
  BY <1>5 DEF Create, Advance
<1>6. CASE Clone
  BY <1>6 DEF Clone, Advance
<1>7. CASE Capture
  BY <1>7 DEF Capture, Advance
<1>8. CASE CopyIn
  BY <1>8 DEF CopyIn, Advance
<1>9. CASE Setup
  BY <1>9 DEF Setup, Advance
<1>10. CASE CallFails
  BY <1>10 DEF CallFails, GiveUp, Failure
<1>11. CASE Seed
  BY <1>11 DEF Seed, GiveUp
<1>12. CASE Exec
  BY <1>12 DEF Exec
<1>13. CASE ExecKilled
  BY <1>13 DEF ExecKilled
<1>14. CASE ExecReturns
  BY <1>14 DEF ExecReturns
<1>15. CASE Judge
  BY <1>15 DEF Judge, GiveUp, Failure
<1>16. CASE Finish
  BY <1>16 DEF Finish, Advance
<1>17. CASE Collect
  BY <1>17 DEF Collect, Advance
<1>18. CASE SaveLogs
  <2>1. RunTypeOK'
    BY <1>18 DEF SaveLogs, Deferred
  <2>2. ResultInv'
    BY <1>18 DEF SaveLogs, Deferred
  <2>3. SnapshotInv'
    BY <1>18 DEF SaveLogs, Deferred
  <2>4. SandboxInv'
    BY <1>18 DEF SaveLogs, Deferred
  <2>5. DiagnosticsInv'
    BY <1>18 DEF SaveLogs, Deferred
  <2>6. AgentInv'
    BY <1>18 DEF SaveLogs, Deferred
  <2>7. PatchInv'
    BY <1>18 DEF SaveLogs, Deferred
  <2> QED BY <2>1, <2>2, <2>3, <2>4, <2>5, <2>6, <2>7
<1>19. CASE SaveTranscript
  <2>1. RunTypeOK'
    BY <1>19 DEF SaveTranscript, Deferred
  <2>2. ResultInv'
    BY <1>19 DEF SaveTranscript, Deferred
  <2>3. SnapshotInv'
    BY <1>19 DEF SaveTranscript, Deferred
  <2>4. SandboxInv'
    BY <1>19 DEF SaveTranscript, Deferred
  <2>5. DiagnosticsInv'
    BY <1>19 DEF SaveTranscript, Deferred
  <2>6. AgentInv'
    BY <1>19 DEF SaveTranscript, Deferred
  <2>7. PatchInv'
    BY <1>19 DEF SaveTranscript, Deferred
  <2> QED BY <2>1, <2>2, <2>3, <2>4, <2>5, <2>6, <2>7
<1>20. CASE StopVM
  BY <1>20 DEF StopVM, Deferred
<1>21. CASE RemoveVM
  <2>1. RunTypeOK'
    BY <1>21 DEF RemoveVM, Deferred
  <2>2. ResultInv'
    BY <1>21 DEF RemoveVM, Deferred
  <2>3. SnapshotInv'
    BY <1>21 DEF RemoveVM, Deferred
  <2>4. SandboxInv'
    BY <1>21 DEF RemoveVM, Deferred
  <2>5. DiagnosticsInv'
    BY <1>21 DEF RemoveVM, Deferred
  <2>6. AgentInv'
    BY <1>21 DEF RemoveVM, Deferred
  <2>7. PatchInv'
    BY <1>21 DEF RemoveVM, Deferred
  <2> QED BY <2>1, <2>2, <2>3, <2>4, <2>5, <2>6, <2>7
<1>22. CASE FinalRecord
  BY <1>22 DEF FinalRecord, Deferred
<1>23. CASE ExecDies
  BY <1>23 DEF ExecDies
<1>24. CASE HostEdits
  BY <1>24 DEF HostEdits
<1>25. CASE AgentEdits
  BY <1>25 DEF AgentEdits
<1>26. CASE AgentExits
  BY <1>26 DEF AgentExits
<1>27. CASE Deadline
  BY <1>27 DEF Deadline
<1>28. CASE Interrupt
  BY <1>28 DEF Interrupt
<1>29. CASE UNCHANGED runVars
  BY <1>29 DEF runVars
<1>30. QED
  BY <1>1, <1>2, <1>3, <1>4, <1>5, <1>6, <1>7, <1>8, <1>9, <1>10, <1>11, <1>12,
     <1>13, <1>14, <1>15, <1>16, <1>17, <1>18, <1>19, <1>20, <1>21, <1>22, <1>23, <1>24,
     <1>25, <1>26, <1>27, <1>28, <1>29 DEF RunNext, RunStep

LEMMA LifecycleInvariance ==
  ASSUME LifecycleAssumption
  PROVE  RunSpec => []LifecycleInv
<1>1. ASSUME RunInit PROVE LifecycleInv
  <2> USE <1>1 DEF LifecycleAssumption, RunInit, Unread, Working, Teardown, Ended
  <2>1. RunTypeOK
    <3>1. bundle \in [head : 0..Unread, tree : 0..Unread]
      OBVIOUS
    <3>2. step \in {"begin", "returned"} \cup Working \cup Teardown /\ vm \in BOOLEAN
      OBVIOUS
    <3> QED BY <3>1, <3>2 DEF RunTypeOK
  <2>2. ResultInv /\ SandboxInv /\ DiagnosticsInv /\ AgentInv
    BY DEF ResultInv, SandboxInv, Sandless, DiagnosticsInv, AgentInv, Agentful
  <2>3. SnapshotInv /\ PatchInv
    BY DEF SnapshotInv, SnapshotIsOfStart, Early, PatchInv
  <2> QED BY <2>1, <2>2, <2>3 DEF LifecycleInv
<1>2. LifecycleInv /\ [RunNext]_runVars => LifecycleInv'
  BY LifecycleStep
<1> QED BY <1>1, <1>2, PTL DEF RunSpec

\* TypeOK holds of every reachable state.
THEOREM RunTypeCorrect ==
  ASSUME LifecycleAssumption
  PROVE  RunSpec => []RunTypeOK
<1>1. LifecycleInv => RunTypeOK
  BY DEF LifecycleInv
<1> QED BY LifecycleInvariance, <1>1, PTL

\* Both reads of the repository, its HEAD and its work tree, see what it was when
\* the run began, however late the operator is told to go on (Run, CreateBundle).
THEOREM SnapshotIsTaken ==
  ASSUME LifecycleAssumption
  PROVE  RunSpec => []SnapshotIsOfStart
<1>1. LifecycleInv => SnapshotIsOfStart
  BY DEF LifecycleInv, SnapshotInv
<1> QED BY LifecycleInvariance, <1>1, PTL

\* Whatever fails and whenever the context dies, Run returns without a sandbox
\* unless msb rm failed (Run's deferred calls).
THEOREM SandboxIsRemoved ==
  ASSUME LifecycleAssumption
  PROVE  RunSpec => []NothingLeftBehind
<1>1. LifecycleInv => NothingLeftBehind
  BY DEF LifecycleInv, SandboxInv, NothingLeftBehind
<1> QED BY LifecycleInvariance, <1>1, PTL

\* A run recorded done was left by its agent, and its patch is all of its work
\* (the switch after the exec, finishAndCollect).
THEOREM DoneIsTrue ==
  ASSUME LifecycleAssumption
  PROVE  RunSpec => []DoneIsWhole
<1>1. LifecycleInv => DoneIsWhole
  BY DEF LifecycleInv, ResultInv, PatchInv, DoneIsWhole
<1> QED BY LifecycleInvariance, <1>1, PTL

\* No step takes the sandbox away before the logs and the transcript have been
\* asked for: only RemoveVM takes it away, and a create had none before it.
THEOREM DiagnosticsAreFirst ==
  ASSUME LifecycleAssumption
  PROVE  RunSpec => DiagnosticsFirst
<1>1. ASSUME LifecycleInv, [RunNext]_runVars
      PROVE  [vm /\ ~vm' => /\ "console" \in out \/ "logs" \in refused
                            /\ Transcripts => "transcript" \in out \/ "transcript" \in refused]_runVars
  <2>1. CASE RemoveVM
    BY <1>1, <2>1 DEF LifecycleInv, DiagnosticsInv, RemoveVM, Deferred
  <2>2. CASE CallFails \/ Create
    BY <1>1, <2>2 DEF LifecycleInv, SandboxInv, Sandless, CallFails, Create, Advance
  <2>3. CASE vm' = vm
    BY <2>3
  <2>4. QED
    BY <1>1, <2>1, <2>2, <2>3
    DEF RunNext, RunStep, runVars, BeginFails, Begin, Wire, Resolve, Clone, Capture, CopyIn, Setup, Seed,
        Exec, ExecKilled, ExecReturns, Judge, Finish, Collect, SaveLogs, SaveTranscript, StopVM,
        FinalRecord, ExecDies, HostEdits, AgentEdits, AgentExits, Deadline, Interrupt
<1> QED BY LifecycleInvariance, <1>1, PTL DEF RunSpec, DiagnosticsFirst

-----------------------------------------------------------------------------
(* PatchCollect.                                                           *)

(* The inductive invariant, part by part. *)

\* The agent cannot write before the root-only copy of .git is taken.
SetupInv ==
  /\ writable => setup = "ready"
  /\ setup # "ready" => git.config = "clean"
  /\ patchgit # "agent"

\* A patch is made under the configuration of that copy, a patch and a bundle
\* against its baseline.
Sound(files) ==
  /\ files.patch.under # "agent" /\ files.patch.base # "moved"
  /\ files.bundle.base # "moved"

\* Every file on its way out is sound, wherever it is.
BaseInv ==
  /\ Sound(output) /\ Sound(runDir)
  /\ \A f \in Finishers : Sound(got[f])

GotInv == got \in [Finishers -> Outputs]

CollectInv == CollectTypeOK /\ GotInv /\ SetupInv /\ BaseInv

\* No files at all are sound.
LEMMA NothingSound ==
  ASSUME PatchCollectAssumption
  PROVE  Nothing \in Outputs /\ Sound(Nothing)
BY DEF PatchCollectAssumption, Nothing, NoPatch, NoBundle, Outputs, Baselines, Configs, Sound

\* A finisher's step keeps the invariant.
LEMMA FinishStep ==
  ASSUME PatchCollectAssumption, CollectInv, NEW f \in Finishers, FinisherStep(f)
  PROVE  CollectInv'
<1> USE DEF PatchCollectAssumption, CollectInv, GotInv, SetupInv, BaseInv, Sound, Outputs, Baselines, Configs, NoBundle
<1>1. CASE StartFinish(f)
  BY <1>1 DEF StartFinish, Go, CollectTypeOK, Busy
<1>2. CASE ReadTree(f)
  BY <1>2 DEF ReadTree, Go, CollectTypeOK, Busy
<1>3. CASE AddAll(f)
  BY <1>3 DEF AddAll, Go, CollectTypeOK, Busy
<1>4. CASE DiffCached(f)
  <2> DEFINE new == [got[f] EXCEPT !.patch = [base |-> "ours", under |-> patchgit, upto |-> index]]
  <2>1. new \in Outputs /\ Sound(new)
    <3>1. got[f] \in Outputs /\ Sound(got[f])
      OBVIOUS
    <3>2. patchgit \in Configs /\ patchgit # "agent" /\ index \in 0..MaxVersions
      BY DEF CollectTypeOK
    <3> QED
      BY <3>1, <3>2
  <2>2. got' = [got EXCEPT ![f] = new]
    BY <1>4 DEF DiffCached
  <2> HIDE DEF new
  <2>3. GotInv' /\ \A g \in Finishers : Sound(got[g])'
    BY <2>1, <2>2
  <2> QED
    BY <1>4, <2>3 DEF DiffCached, Go, CollectTypeOK, Busy
<1>5. CASE WritePatch(f)
  BY <1>5 DEF WritePatch, Go, CollectTypeOK, Busy
<1>6. CASE Bundle(f)
  <2>1. output' \in Outputs /\ Sound(output')
    BY <1>6 DEF Bundle, CollectTypeOK
  <2> QED
    BY <1>6, <2>1 DEF Bundle, Go, CollectTypeOK, Busy
<1>7. CASE BundleFails(f)
  BY <1>7, NothingSound DEF BundleFails, Go, CollectTypeOK, Busy
<1>8. CASE CopyOut(f)
  BY <1>8 DEF CopyOut, Go, CollectTypeOK, Busy
<1>9. CASE Move(f)
  BY <1>9, NothingSound DEF Move, CollectTypeOK, Busy
<1>10. CASE Fail(f)
  BY <1>10, NothingSound DEF Fail, CollectTypeOK, Busy
<1> QED
  BY <1>1, <1>2, <1>3, <1>4, <1>5, <1>6, <1>7, <1>8, <1>9, <1>10 DEF FinisherStep

\* Every action keeps the invariant: setup copies .git (CopyGit) before it opens
\* the workspace (Relax), and no finisher reads the workspace's own .git for a
\* patch.
LEMMA CollectStep ==
  ASSUME PatchCollectAssumption, CollectInv, [CollectNext]_collectVars
  PROVE  CollectInv'
<1> USE DEF CollectInv, GotInv, SetupInv, BaseInv, Sound, Outputs, Baselines, Configs, NoBundle
<1>1. CASE Ingest
  BY <1>1 DEF Ingest, CollectTypeOK
<1>2. CASE CopyGit
  BY <1>2 DEF CopyGit, CollectTypeOK
<1>3. CASE Relax
  BY <1>3 DEF Relax, CollectTypeOK
<1>4. CASE Edit
  BY <1>4 DEF Edit, CollectTypeOK, PatchCollectAssumption
<1>5. CASE MoveHead
  BY <1>5 DEF MoveHead, CollectTypeOK
<1>6. CASE Tamper
  BY <1>6 DEF Tamper, CollectTypeOK
<1>7. CASE RemoveSandbox
  BY <1>7 DEF RemoveSandbox, CollectTypeOK
<1>8. ASSUME NEW f \in Finishers, FinisherStep(f) PROVE CollectInv'
  BY <1>8, FinishStep
<1>9. CASE UNCHANGED collectVars
  BY <1>9 DEF collectVars, CollectTypeOK
<1> QED
  BY <1>1, <1>2, <1>3, <1>4, <1>5, <1>6, <1>7, <1>8, <1>9 DEF CollectNext

\* The invariant holds at the start.
LEMMA CollectInitInv ==
  ASSUME PatchCollectAssumption, CollectInit
  PROVE  CollectInv
<1>1. Nothing \in Outputs /\ Sound(Nothing)
  BY NothingSound
<1>2. CollectTypeOK
  <2>1. 0 \in 0..MaxVersions
    BY DEF PatchCollectAssumption
  <2>2. git \in [head : {"base", "ahead", "astray"}, tag : {"ours", "moved"},
                 config : {"clean", "agent"}]
    BY DEF CollectInit
  <2>3. finisher \in [Finishers -> Busy \cup {"idle", "done", "failed", "unbundled"}]
    BY DEF CollectInit
  <2>4. since \in [Finishers -> 0..MaxVersions] /\ mixed \subseteq Finishers
    BY <2>1 DEF CollectInit
  <2> QED
    BY <1>1, <2>1, <2>2, <2>3, <2>4 DEF CollectInit, CollectTypeOK, Configs
<1>3. GotInv /\ BaseInv
  BY <1>1 DEF CollectInit, GotInv, BaseInv
<1>4. SetupInv
  BY DEF CollectInit, SetupInv
<1> QED
  BY <1>2, <1>3, <1>4 DEF CollectInv

\* It holds in every reachable state.
LEMMA CollectInvariance ==
  ASSUME PatchCollectAssumption
  PROVE  CollectSpec => []CollectInv
<1>1. CollectInit => CollectInv
  BY CollectInitInv
<1>2. CollectInv /\ [CollectNext]_collectVars => CollectInv'
  BY CollectStep
<1> QED
  BY <1>1, <1>2, PTL DEF CollectSpec

\* Whatever the agent does to its .git, on which root does run git for the bundle,
\* and however many collections run beside each other: changes.patch is made
\* under the configuration of the root-only copy, and it and commits.bundle are
\* against the baseline of that copy.
THEOREM GitStaysUntrusted ==
  ASSUME PatchCollectAssumption
  PROVE  CollectSpec => []GitNotTrusted
<1>1. CollectInv => GitNotTrusted
  BY DEF CollectInv, SetupInv, BaseInv, Sound, GitNotTrusted
<1> QED
  BY <1>1, CollectInvariance, PTL

-----------------------------------------------------------------------------
(* What a patch that left the sandbox is of. *)

\* Two finishers that are at work at the same time are both known to be mixed;
\* what a finisher that shares with nobody has in hand, first in the index, then
\* as its diff, in /output and as its copy, is no older than its beginning.
AloneInv ==
  \A f, g \in Finishers : f # g /\ finisher[f] \in Busy /\ finisher[g] \in Busy => f \in mixed

SinceInv == \A f \in Finishers : since[f] <= tree

OwnInv ==
  \A f \in Finishers \ mixed :
    /\ finisher[f] = "diff" => since[f] <= index
    /\ finisher[f] \in {"write", "move"} => since[f] <= got[f].patch.upto
    /\ finisher[f] \in {"bundle", "copy"} => since[f] <= output.patch.upto

CurrentInv == CollectInv /\ AloneInv /\ SinceInv /\ OwnInv

\* Nobody at work outside mixed has company.
LEMMA Alone ==
  ASSUME AloneInv, NEW f \in Finishers, NEW g \in Finishers \ mixed,
         finisher[f] \in Busy, finisher[g] \in Busy
  PROVE  f = g
BY DEF AloneInv

\* A finisher's step keeps the invariant: what it overwrites in the sandbox is
\* in nobody else's hands, except those of finishers that are mixed.
LEMMA OwnStep ==
  ASSUME PatchCollectAssumption, CurrentInv, NEW f \in Finishers, FinisherStep(f)
  PROVE  AloneInv' /\ SinceInv' /\ OwnInv'
<1> USE DEF CurrentInv, CollectInv
<1>1. CASE StartFinish(f)
  BY <1>1 DEF StartFinish, Go, CollectTypeOK, PatchCollectAssumption, AloneInv, SinceInv, OwnInv, Busy
<1>2. CASE ReadTree(f)
  BY <1>2, Alone DEF ReadTree, Go, CollectTypeOK, AloneInv, SinceInv, OwnInv, Busy
<1>3. CASE AddAll(f)
  BY <1>3, Alone DEF AddAll, Go, CollectTypeOK, AloneInv, SinceInv, OwnInv, Busy
<1>4. CASE DiffCached(f)
  BY <1>4, Alone DEF DiffCached, Go, CollectTypeOK, GotInv, AloneInv, SinceInv, OwnInv, Busy
<1>5. CASE WritePatch(f)
  BY <1>5, Alone DEF WritePatch, Go, CollectTypeOK, GotInv, AloneInv, SinceInv, OwnInv, Busy
<1>6. CASE Bundle(f)
  BY <1>6, Alone DEF Bundle, Go, CollectTypeOK, GotInv, AloneInv, SinceInv, OwnInv, Busy
<1>7. CASE BundleFails(f)
  BY <1>7 DEF BundleFails, Go, CollectTypeOK, AloneInv, SinceInv, OwnInv, Busy
<1>8. CASE CopyOut(f)
  BY <1>8, Alone DEF CopyOut, Go, CollectTypeOK, GotInv, AloneInv, SinceInv, OwnInv, Busy
<1>9. CASE Move(f)
  BY <1>9 DEF Move, CollectTypeOK, AloneInv, SinceInv, OwnInv, Busy
<1>10. CASE Fail(f)
  BY <1>10 DEF Fail, CollectTypeOK, AloneInv, SinceInv, OwnInv, Busy
<1> QED
  BY <1>1, <1>2, <1>3, <1>4, <1>5, <1>6, <1>7, <1>8, <1>9, <1>10 DEF FinisherStep

\* Every action keeps the invariant; edits only make the work tree newer.
LEMMA CurrentStep ==
  ASSUME PatchCollectAssumption, CurrentInv, [CollectNext]_collectVars
  PROVE  CurrentInv'
<1>1. CollectInv'
  BY CollectStep DEF CurrentInv
<1>2. AloneInv' /\ SinceInv' /\ OwnInv'
  <2> USE DEF CurrentInv, CollectInv, AloneInv, SinceInv, OwnInv
  <2>1. CASE Edit
    BY <2>1 DEF Edit, CollectTypeOK, PatchCollectAssumption
  <2>2. CASE Ingest \/ CopyGit \/ Relax \/ MoveHead \/ Tamper \/ RemoveSandbox
    BY <2>2 DEF Ingest, CopyGit, Relax, MoveHead, Tamper, RemoveSandbox
  <2>3. ASSUME NEW f \in Finishers, FinisherStep(f) PROVE AloneInv' /\ SinceInv' /\ OwnInv'
    BY <2>3, OwnStep
  <2>4. CASE UNCHANGED collectVars
    BY <2>4 DEF collectVars
  <2> QED
    BY <2>1, <2>2, <2>3, <2>4 DEF CollectNext
<1> QED
  BY <1>1, <1>2 DEF CurrentInv

\* A collection that no other one overlapped leaves a patch no older than the
\* work tree it began with: the one index and the one /output that all
\* collections share hand it nobody else's, older, patch.
THEOREM PatchOfOwnWork ==
  ASSUME PatchCollectAssumption
  PROVE  CollectSpec => PatchIsCurrent
<1>1. CollectInit => CurrentInv
  <2> SUFFICES ASSUME CollectInit PROVE CurrentInv
    OBVIOUS
  <2>1. \A f \in Finishers : finisher[f] = "idle" /\ since[f] = 0 /\ tree = 0
    BY DEF CollectInit
  <2>2. AloneInv /\ SinceInv /\ OwnInv
    BY <2>1 DEF AloneInv, SinceInv, OwnInv, Busy
  <2> QED
    BY <2>2, CollectInitInv DEF CurrentInv
<1>2. CurrentInv /\ [CollectNext]_collectVars => CurrentInv'
  BY CurrentStep
<1>3. CurrentInv /\ [CollectNext]_collectVars
        => [\A f \in Finishers :
              finisher[f] = "move" /\ finisher'[f] = "done" /\ f \notin mixed
                => runDir'.patch.upto >= since[f]]_collectVars
  <2> SUFFICES ASSUME CurrentInv, CollectNext, NEW f \in Finishers,
                      finisher[f] = "move", finisher'[f] = "done", f \notin mixed
               PROVE  runDir'.patch.upto >= since[f]
    OBVIOUS
  <2>1. finisher \in [Finishers -> Busy \cup {"idle", "done", "failed", "unbundled"}]
    BY DEF CurrentInv, CollectInv, CollectTypeOK
  <2>2. ~(Ingest \/ CopyGit \/ Relax \/ Edit \/ MoveHead \/ Tamper \/ RemoveSandbox)
    BY DEF Ingest, CopyGit, Relax, Edit, MoveHead, Tamper, RemoveSandbox
  <2>3. PICK g \in Finishers : FinisherStep(g)
    BY <2>2 DEF CollectNext
  <2>4. g = f /\ Move(f)
    BY <2>1, <2>3 DEF FinisherStep, StartFinish, ReadTree, AddAll, DiffCached, WritePatch, Bundle,
                      BundleFails, CopyOut, Move, Fail, Go
  <2>5. runDir'.patch = got[f].patch
    BY <2>4 DEF Move
  <2>6. since[f] <= got[f].patch.upto
    BY DEF CurrentInv, OwnInv
  <2>7. since[f] \in Nat /\ got[f].patch.upto \in Nat
    BY DEF CurrentInv, CollectInv, CollectTypeOK, GotInv, Outputs, PatchCollectAssumption
  <2> QED
    BY <2>5, <2>6, <2>7
<1> QED
  BY <1>1, <1>2, <1>3, PTL DEF CollectSpec, PatchIsCurrent
=============================================================================
