-------------------------------- MODULE Host --------------------------------
(* krayt beside the ask_human channel of AskBridge: one of its machines, or one *)
(* calculation, per behaviour, chosen at the start.  Only the chosen machine   *)
(* moves; a calculation has its input as the initial state and no step.        *)
EXTENDS Integers, Sequences, Session, SlotLimit, RunLifecycle, PatchCollect, Upgrade, Housekeeping,
        FollowLog, RunStart, HostPolicy, BundleShape, HostResources, PatchLint, Artifacts, ConfigSeed

CONSTANTS
  KeySets,  \* the sets of names a secrets file may have
  Inputs    \* the inputs of the calculations

VARIABLE machine  \* what runs in this behaviour

Machines == {"session", "slots", "run", "collect", "upgrade", "keep", "follow", "launch",
             "calculation"}

NoInput == [of |-> "none"]

\* An input of a kind is one of those its module is about.
WellFormed(x) ==
  /\ x.of = "entries" => x \in EntriesInput
  /\ x.of = "policy" => x \in PolicyInput(KeySets)
  /\ x.of = "bundle" => x \in BundleInput
  /\ x.of = "sizes" => x \in SizesInput
  /\ x.of = "patch" => x \in PatchInput
  /\ x.of = "text" => x \in TextInput
  /\ x.of = "seed" => x \in SeedInput

HostAssumption ==
  /\ SessionAssumption /\ SlotAssumption
  /\ LifecycleAssumption /\ PatchCollectAssumption /\ UpgradeAssumption
  /\ HousekeepingAssumption /\ FollowLogAssumption /\ RunStartAssumption
  /\ HostPolicyAssumption /\ BundleShapeAssumption /\ HostResourcesAssumption /\ PatchLintAssumption
  /\ ArtifactsAssumption /\ ConfigSeedAssumption
  /\ \A x \in Inputs : WellFormed(x)

commandVars == <<runVars, collectVars, upgradeVars, keepVars, followVars, launchVars>>

vars == <<machine, input, sessionVars, slotVars, commandVars>>

\* What is chosen at the start of a machine that does not run.
Idle == /\ machine # "upgrade" => windows = FALSE
        /\ machine # "keep" => cmd = "doctor"
        /\ \/ machine = "launch"
           \/ /\ cmdline = CHOOSE c \in Commands : TRUE
              /\ file = CHOOSE f \in Files : TRUE
              /\ stray = FALSE /\ stdin = "empty" /\ task = "empty" /\ keys = {}

Init ==
  /\ \/ machine \in Machines \ {"calculation"} /\ input = NoInput
     \/ machine = "calculation" /\ input \in Inputs
  /\ SessionInit /\ SlotInit
  /\ RunInit /\ CollectInit /\ UpgradeInit /\ KeepInit /\ FollowInit
  /\ Idle /\ LaunchInit

HostSession ==
  /\ machine = "session" /\ SessionNext
  /\ UNCHANGED <<machine, input, slotVars, commandVars>>
HostSlots ==
  /\ machine = "slots" /\ SlotNext
  /\ UNCHANGED <<machine, input, sessionVars, commandVars>>
HostRun ==
  /\ machine = "run" /\ RunNext
  /\ UNCHANGED <<machine, input, sessionVars, slotVars,
                 collectVars, upgradeVars, keepVars, followVars, launchVars>>
HostCollect ==
  /\ machine = "collect" /\ CollectNext
  /\ UNCHANGED <<machine, input, sessionVars, slotVars,
                 runVars, upgradeVars, keepVars, followVars, launchVars>>
HostUpgrade ==
  /\ machine = "upgrade" /\ UpgradeNext
  /\ UNCHANGED <<machine, input, sessionVars, slotVars,
                 runVars, collectVars, keepVars, followVars, launchVars>>
HostKeep ==
  /\ machine = "keep" /\ KeepNext
  /\ UNCHANGED <<machine, input, sessionVars, slotVars,
                 runVars, collectVars, upgradeVars, followVars, launchVars>>
HostFollow ==
  /\ machine = "follow" /\ FollowNext
  /\ UNCHANGED <<machine, input, sessionVars, slotVars,
                 runVars, collectVars, upgradeVars, keepVars, launchVars>>
HostLaunch ==
  /\ machine = "launch" /\ LaunchNext
  /\ UNCHANGED <<machine, input, sessionVars, slotVars,
                 runVars, collectVars, upgradeVars, keepVars, followVars>>

Next ==
  \/ HostSession \/ HostSlots \/ HostRun \/ HostCollect \/ HostUpgrade \/ HostKeep \/ HostFollow
  \/ HostLaunch

\* The fairness of Session, SlotLimit, RunLifecycle and FollowLog, each where its machine
\* runs.
Fairness ==
  /\ WF_sessionVars(machine = "session" /\ OwnerGoesOn)
  /\ \A r \in Run : WF_slotVars(machine = "slots" /\ SlotGoesOn(r))
  /\ WF_runVars(machine = "run" /\ RunStep)
  /\ WF_followVars(machine = "follow" /\ Follow)

Spec == Init /\ [][Next]_vars /\ Fairness

-----------------------------------------------------------------------------
(* The properties are those of the modules extended, and this one. *)

\* Every machine's state has its type.
TypeOK ==
  /\ machine \in Machines /\ WellFormed(input)
  /\ SessionTypeOK /\ SlotTypeOK
  /\ RunTypeOK /\ CollectTypeOK /\ UpgradeTypeOK /\ KeepTypeOK /\ FollowTypeOK /\ LaunchTypeOK
=============================================================================
