---------------------------- MODULE Host_proofs -----------------------------
(* Proofs about Host: each of its machines behaves, beside the others, as its  *)
(* own specification says, and so everything proved of it alone holds here.    *)
EXTENDS Host, Session_proofs, SlotLimit_proofs, Run_proofs, Commands_proofs, Launch_proofs,
        Artifacts_proofs

\* No step of one machine is a step of another.
LEMMA MachineSteps ==
  ASSUME [Next]_vars
  PROVE  /\ [SessionNext]_sessionVars /\ [SlotNext]_slotVars
         /\ [RunNext]_runVars /\ [CollectNext]_collectVars /\ [UpgradeNext]_upgradeVars
         /\ [KeepNext]_keepVars /\ [FollowNext]_followVars /\ [LaunchNext]_launchVars
         /\ UNCHANGED <<machine, input>>
<1>1. CASE HostSession
  BY <1>1 DEF HostSession, commandVars
<1>2. CASE HostSlots
  BY <1>2 DEF HostSlots, commandVars
<1>3. CASE HostRun
  BY <1>3 DEF HostRun
<1>4. CASE HostCollect
  BY <1>4 DEF HostCollect
<1>5. CASE HostUpgrade
  BY <1>5 DEF HostUpgrade
<1>6. CASE HostKeep
  BY <1>6 DEF HostKeep
<1>7. CASE HostFollow
  BY <1>7 DEF HostFollow
<1>8. CASE HostLaunch
  BY <1>8 DEF HostLaunch
<1>9. CASE UNCHANGED vars
  BY <1>9 DEF vars, commandVars
<1> QED
  BY <1>1, <1>2, <1>3, <1>4, <1>5, <1>6, <1>7, <1>8, <1>9 DEF Next

\* The composition implements each of its parts: no command of krayt disturbs the
\* state of another, and a calculation keeps the input it was given.
THEOREM HostImplementsParts ==
  Spec => /\ SessionSpec /\ SlotSpec
          /\ RunSpec /\ CollectSpec /\ UpgradeSpec /\ KeepSpec /\ FollowSpec /\ LaunchSpec
          /\ Given(Inputs \cup {NoInput})
<1>1. Init => /\ SessionInit /\ SlotInit
              /\ RunInit /\ CollectInit /\ UpgradeInit /\ KeepInit /\ FollowInit /\ LaunchInit
              /\ input \in Inputs \cup {NoInput}
  BY DEF Init
<1>2. [Next]_vars => /\ [SessionNext]_sessionVars /\ [SlotNext]_slotVars
                     /\ [RunNext]_runVars /\ [CollectNext]_collectVars /\ [UpgradeNext]_upgradeVars
                     /\ [KeepNext]_keepVars /\ [FollowNext]_followVars /\ [LaunchNext]_launchVars
                     /\ [FALSE]_input
  BY MachineSteps
<1> QED
  BY <1>1, <1>2, PTL DEF Spec, SessionSpec, SlotSpec, RunSpec, CollectSpec, UpgradeSpec, KeepSpec,
                         FollowSpec, LaunchSpec, Given

\* The machine and its input are those of the start.
LEMMA HostInputs ==
  ASSUME HostAssumption
  PROVE  Spec => [](machine \in Machines /\ WellFormed(input))
<1>1. Init => machine \in Machines /\ WellFormed(input)
  <2>1. WellFormed(NoInput)
    BY DEF WellFormed, NoInput
  <2> QED
    BY <2>1 DEF Init, Machines, HostAssumption
<1>2. machine \in Machines /\ WellFormed(input) /\ [Next]_vars
        => (machine \in Machines /\ WellFormed(input))'
  <2> SUFFICES ASSUME machine \in Machines, WellFormed(input), [Next]_vars
               PROVE  (machine \in Machines /\ WellFormed(input))'
    OBVIOUS
  <2>1. machine' = machine /\ input' = input
    BY MachineSteps
  <2> QED
    BY <2>1 DEF WellFormed
<1> QED
  BY <1>1, <1>2, PTL DEF Spec

\* What the parts' invariants say holds beside the others too.
LEMMA HostInvariance ==
  ASSUME HostAssumption
  PROVE  Spec => [](/\ SessionInv /\ SlotInv
                    /\ LifecycleInv /\ CollectInv /\ UpgradeInv /\ KeepInv /\ FollowInv /\ LaunchInv
                    /\ machine \in Machines /\ WellFormed(input))
<1>1. /\ LifecycleAssumption /\ PatchCollectAssumption /\ UpgradeAssumption
      /\ HousekeepingAssumption /\ FollowLogAssumption /\ RunStartAssumption
  BY DEF HostAssumption
<1>2. RunSpec => []LifecycleInv
  BY <1>1, LifecycleInvariance
<1>3. CollectSpec => []CollectInv
  BY <1>1, CollectInvariance
<1>4. UpgradeSpec => []UpgradeInv
  BY <1>1, UpgradeInvariance
<1>5. KeepSpec => []KeepInv
  BY <1>1, KeepInvariance
<1>6. FollowSpec => []FollowInv
  BY <1>1, FollowInvariance
<1>7. LaunchSpec => []LaunchInv
  BY <1>1, LaunchInvariance
<1> QED
  BY <1>2, <1>3, <1>4, <1>5, <1>6, <1>7, SessionInvariance, SlotInvariance, HostInputs,
     HostImplementsParts, PTL

\* Every reachable state of krayt's commands is well typed.
THEOREM HostTypeCorrect ==
  ASSUME HostAssumption
  PROVE  Spec => []TypeOK
<1>1. LifecycleInv => RunTypeOK
  BY DEF LifecycleInv
<1>2. CollectInv => CollectTypeOK
  BY DEF CollectInv
<1>3. UpgradeInv => UpgradeTypeOK
  BY DEF UpgradeInv
<1>4. KeepInv => KeepTypeOK
  BY DEF KeepInv
<1>5. FollowInv => FollowTypeOK
  BY DEF FollowInv
<1>6. LaunchInv => LaunchTypeOK
  BY DEF LaunchInv
<1>7. SessionInv => SessionTypeOK
  BY DEF SessionInv
<1>8. SlotInv => SlotTypeOK
  BY DEF SlotInv
<1>9. (/\ machine \in Machines /\ WellFormed(input) /\ SessionTypeOK /\ SlotTypeOK
       /\ RunTypeOK /\ CollectTypeOK /\ UpgradeTypeOK /\ KeepTypeOK /\ FollowTypeOK /\ LaunchTypeOK)
      => TypeOK
  BY DEF TypeOK
<1> QED
  BY <1>1, <1>2, <1>3, <1>4, <1>5, <1>6, <1>7, <1>8, <1>9, HostInvariance, PTL

\* What is calculated from an input is right, whatever the input.
CalculationsHold ==
  /\ RelationsExact /\ PolicyHolds /\ BundleClones /\ ResourcesHold
  /\ LintHolds /\ RedactionHolds /\ RestStays /\ SeedHolds

LEMMA CalculationsOfInput ==
  ASSUME HostAssumption, WellFormed(input)
  PROVE  CalculationsHold
<1>1. /\ HostPolicyAssumption /\ BundleShapeAssumption /\ HostResourcesAssumption
      /\ PatchLintAssumption /\ ArtifactsAssumption /\ ConfigSeedAssumption
  BY DEF HostAssumption
<1>2. RelationsExact
  <2>1. CASE input.of = "entries"
    BY <1>1, <2>1, RelationsOfEntries DEF WellFormed
  <2> QED
    BY <2>1 DEF RelationsExact
<1>3. PolicyHolds
  <2>1. CASE input.of = "policy"
    BY <1>1, <2>1, PolicyOfRun DEF WellFormed
  <2> QED
    BY <2>1 DEF PolicyHolds
<1>4. BundleClones
  <2>1. CASE input.of = "bundle"
    BY <1>1, <2>1, BundleOfRequest DEF WellFormed
  <2> QED
    BY <2>1 DEF BundleClones
<1>5. ResourcesHold
  <2>1. CASE input.of = "sizes"
    BY <1>1, <2>1, ResourcesOfRequest DEF WellFormed
  <2> QED
    BY <2>1 DEF ResourcesHold
<1>6. LintHolds
  <2>1. CASE input.of = "patch"
    BY <1>1, <2>1, LintOfPatch DEF WellFormed
  <2> QED
    BY <2>1 DEF LintHolds
<1>7. RedactionHolds
  <2>1. CASE input.of = "text"
    BY <1>1, <2>1, RedactionOfText DEF WellFormed
  <2> QED
    BY <2>1 DEF RedactionHolds
<1>8. RestStays
  <2>1. CASE input.of = "text"
    BY <1>1, <2>1, RestOfText DEF WellFormed
  <2> QED
    BY <2>1 DEF RestStays
<1>9. SeedHolds
  <2>1. CASE input.of = "seed"
    BY <1>1, <2>1, SeedOfInput DEF WellFormed
  <2> QED
    BY <2>1 DEF SeedHolds
<1> QED
  BY <1>2, <1>3, <1>4, <1>5, <1>6, <1>7, <1>8, <1>9 DEF CalculationsHold

\* Of one machine or the other, whichever runs: what a session, the slots, a run, a
\* collection, an upgrade, the runs' records, a follower of a log and a start promise
\* each by themselves, and what krayt calculates, holds in every state of the
\* composition.  Each of these says itself what it leaves out.
THEOREM HostIsSafe ==
  ASSUME HostAssumption
  PROVE  Spec => [](/\ OneInside /\ SandboxReachable /\ NoneStranded /\ Capped
                    /\ SnapshotIsOfStart /\ NothingLeftBehind /\ DoneIsWhole
                    /\ GitNotTrusted /\ KraytIsThere /\ BackupIsWhole /\ OrphansNamed /\ WholeLogShown
                    /\ OperatorDecides /\ PromptIsTheOperators /\ OneCredential
                    /\ CalculationsHold)
<1>1. /\ LifecycleAssumption /\ PatchCollectAssumption /\ UpgradeAssumption
      /\ HousekeepingAssumption /\ FollowLogAssumption /\ RunStartAssumption
  BY DEF HostAssumption
<1>2. RunSpec => []SnapshotIsOfStart /\ []NothingLeftBehind /\ []DoneIsWhole
  BY <1>1, SnapshotIsTaken, SandboxIsRemoved, DoneIsTrue, PTL
<1>3. CollectSpec => []GitNotTrusted
  BY <1>1, GitStaysUntrusted
<1>4. UpgradeSpec => []KraytIsThere /\ []BackupIsWhole
  BY <1>1, KraytStays, BackupStaysWhole, PTL
<1>5. KeepSpec => []OrphansNamed
  BY <1>1, OrphansAreNamed
<1>6. FollowSpec => []WholeLogShown
  BY <1>1, LogIsShown
<1>7. LaunchSpec => []OperatorDecides /\ []PromptIsTheOperators /\ []OneCredential
  BY <1>1, OperatorHasDecided, PromptIsKept, CredentialIsOne, PTL
<1>8. machine \in Machines /\ WellFormed(input) => CalculationsHold
  BY CalculationsOfInput
<1>9. SessionSpec => []OneInside /\ []SandboxReachable /\ []NoneStranded
  BY TerminalExclusive, SandboxFound, RecordsHaveAProcess, PTL
<1>10. SlotSpec => []Capped
  BY CapHolds
<1> QED
  BY <1>2, <1>3, <1>4, <1>5, <1>6, <1>7, <1>8, <1>9, <1>10, HostInputs, HostImplementsParts, PTL

\* Of the composition's steps: no step takes a sandbox away before its logs are
\* asked for, ends a collection with an older patch of another's, or takes away
\* a run that prune must keep; and the slots keep the promise of SlotPool.
THEOREM HostStepsAreSafe ==
  ASSUME HostAssumption
  PROVE  Spec => DiagnosticsFirst /\ PatchIsCurrent /\ RetentionHolds /\ PoolSpec
<1>1. LifecycleAssumption /\ PatchCollectAssumption /\ HousekeepingAssumption
  BY DEF HostAssumption
<1>2. RunSpec => DiagnosticsFirst
  BY <1>1, DiagnosticsAreFirst
<1>3. CollectSpec => PatchIsCurrent
  BY <1>1, PatchOfOwnWork
<1>4. KeepSpec => RetentionHolds
  BY <1>1, RetentionIsKept
<1> QED
  BY <1>2, <1>3, <1>4, PoolRefined, HostImplementsParts
=============================================================================
