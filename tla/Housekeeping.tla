---------------------------- MODULE Housekeeping ----------------------------
(* `krayt image prune` and the orphan check of `krayt doctor`: commands that   *)
(* read the records of runs other processes supervise, and msb's own lists,   *)
(* one after the other, while those runs go on.                               *)
EXTENDS FiniteSets

CONSTANTS
  Runs,    \* runs of the repository
  Images,  \* image references
  Image    \* the image of each run

HousekeepingAssumption == Image \in [Runs -> Images]

VARIABLES
  records,  \* state in the record of each run
  alive,    \* runs whose krayt process lives
  vms,      \* runs whose sandbox msb lists
  recent,   \* ended runs that ended within --older-than
  store,    \* images in msb's store
  cmd,      \* the command at work
  stage,    \* where it is
  listed,   \* the images msb listed, those to be removed after the records are read
  owned,    \* doctor: runs whose sandbox is accounted for
  unsure,   \* doctor: runs whose record names a process yet to be looked up
  report,   \* doctor: sandboxes reported as orphans
  was       \* history: records, processes and sandboxes when the command began

keepVars == <<records, alive, vms, recent, store, cmd, stage, listed, owned, unsure, report, was>>
theirVars == <<records, alive, vms, recent>>
cmdVars == <<cmd, stage, listed, owned, unsure, report, was>>

Under   == {"starting", "running", "kept"}
Now     == [rec |-> records, alive |-> alive, vm |-> vms]

KeepTypeOK ==
  /\ records \in [Runs -> {"absent", "ended"} \cup Under]
  /\ alive \subseteq Runs /\ vms \subseteq Runs /\ recent \subseteq Runs
  /\ store \subseteq Images /\ listed \subseteq Images
  /\ cmd \in {"prune", "doctor"}
  /\ stage \in {"idle", "listed", "remove", "sweep", "read", "probed", "done"}
  /\ owned \subseteq Runs /\ unsure \subseteq Runs /\ report \subseteq Runs

KeepInit ==
  /\ records = [r \in Runs |-> "absent"]
  /\ alive = {} /\ vms = {} /\ recent = {} /\ store = {}
  /\ cmd \in {"prune", "doctor"} /\ stage = "idle"
  /\ listed = {} /\ owned = {} /\ unsure = {} /\ report = {}
  /\ was = Now

-----------------------------------------------------------------------------
(* The runs, as far as these commands see them. *)

StartRun(r) ==
  /\ records[r] = "absent"
  /\ records' = [records EXCEPT ![r] = "starting"]
  /\ alive' = alive \cup {r}
  /\ UNCHANGED <<vms, recent, store, cmdVars>>

\* msb create pulls the image it needs.
Boot(r) ==
  /\ r \in alive /\ records[r] = "starting"
  /\ records' = [records EXCEPT ![r] = "running"]
  /\ vms' = vms \cup {r}
  /\ store' = store \cup {Image[r]}
  /\ UNCHANGED <<alive, recent, cmdVars>>

\* A shell session left with --keep: its process ends.
Keep(r) ==
  /\ r \in alive /\ records[r] = "running"
  /\ records' = [records EXCEPT ![r] = "kept"]
  /\ alive' = alive \ {r}
  /\ UNCHANGED <<vms, recent, store, cmdVars>>

\* The sandbox goes before the record says so, unless msb rm failed.
End(r) ==
  /\ r \in alive
  /\ \/ vms' = vms \ {r} /\ records[r] # "kept" /\ UNCHANGED <<records, alive, recent>>
     \/ /\ records' = [records EXCEPT ![r] = "ended"]
        /\ alive' = alive \ {r} /\ recent' = recent \cup {r}
        /\ UNCHANGED vms
  /\ UNCHANGED <<store, cmdVars>>

Crash(r) ==
  /\ r \in alive
  /\ alive' = alive \ {r}
  /\ UNCHANGED <<records, vms, recent, store, cmdVars>>

Age(r) ==
  /\ recent' = recent \ {r}
  /\ UNCHANGED <<records, alive, vms, store, cmdVars>>

-----------------------------------------------------------------------------
(* krayt image prune. *)

Step(command, from, to) == cmd = command /\ stage = from /\ stage' = to

ListImages ==
  /\ Step("prune", "idle", "listed")
  /\ listed' = store /\ was' = Now
  /\ UNCHANGED <<theirVars, store, cmd, owned, unsure, report>>

ProtectedImages_RunningOnly == {Image[r] : r \in {q \in Runs : records[q] = "running"} \cup recent}

\* imageUses and pruneDecide: in use by a run that has not ended, or used lately.
ProtectedImages == {Image[r] : r \in {q \in Runs : records[q] \in Under} \cup recent}

DecidePrune ==
  /\ Step("prune", "listed", "remove")
  /\ listed' = listed \ ProtectedImages
  /\ UNCHANGED <<theirVars, store, cmd, owned, unsure, report, was>>

\* msb rmi without --force refuses an image that a sandbox uses, and the first
\* refusal ends the command.
Rmi ==
  /\ Step("prune", "remove", "remove")
  /\ \E i \in listed :
       /\ \A r \in vms : Image[r] # i
       /\ store' = store \ {i} /\ listed' = listed \ {i}
  /\ UNCHANGED <<theirVars, cmd, owned, unsure, report, was>>

RmiFails ==
  /\ listed # {}
  /\ Step("prune", "remove", "done")
  /\ UNCHANGED <<theirVars, store, cmd, listed, owned, unsure, report, was>>

PruneDone ==
  /\ listed = {}
  /\ Step("prune", "remove", "done")
  /\ UNCHANGED <<theirVars, store, cmd, listed, owned, unsure, report, was>>

-----------------------------------------------------------------------------
(* krayt doctor's orphan check. *)

ReadRecords ==
  /\ Step("doctor", "idle", "read")
  /\ owned' = {r \in Runs : records[r] = "kept"}
  /\ unsure' = {r \in Runs : records[r] \in {"starting", "running"}}
  /\ was' = Now
  /\ UNCHANGED <<theirVars, store, cmd, listed, report>>

ProbeProcesses_All ==
  /\ Step("doctor", "read", "probed")
  /\ owned' = owned \cup unsure
  /\ unsure' = {}
  /\ UNCHANGED <<theirVars, store, cmd, listed, report, was>>

\* processAlive, for the runs that a process should supervise.
ProbeProcesses ==
  /\ Step("doctor", "read", "probed")
  /\ owned' = owned \cup (unsure \cap alive)
  /\ unsure' = unsure \ alive
  /\ UNCHANGED <<theirVars, store, cmd, listed, report, was>>

\* msb ls: every krayt-* sandbox that is not owned.
ListSandboxes ==
  /\ Step("doctor", "probed", "done")
  /\ report' = vms \ owned
  /\ UNCHANGED <<theirVars, store, cmd, listed, owned, unsure, was>>

OneRun(r) == StartRun(r) \/ Boot(r) \/ Keep(r) \/ End(r) \/ Crash(r) \/ Age(r)

KeepNext ==
  \/ \E r \in Runs : OneRun(r)
  \/ ListImages \/ DecidePrune \/ Rmi \/ RmiFails \/ PruneDone
  \/ ReadRecords \/ ProbeProcesses \/ ListSandboxes

KeepSpec == KeepInit /\ [][KeepNext]_keepVars

-----------------------------------------------------------------------------
(* Properties. *)

\* An image that a run used when prune began is not removed by it while that
\* run has not ended or has ended lately, though the images were listed before
\* the records were read and are removed after.
RetentionHolds ==
  [][\A r \in Runs :
       Image[r] \in store \ store' /\ was.rec[r] # "absent"
         => records[r] \notin Under /\ r \notin recent]_keepVars

\* A sandbox whose krayt was gone when doctor began is reported; one whose krayt
\* lived throughout, or that was kept, is not.  What starts meanwhile may be.
OrphansNamed ==
  cmd = "doctor" /\ stage = "done" =>
    \A r \in Runs :
      /\ r \in was.vm \cap vms /\ r \notin was.alive /\ was.rec[r] # "kept" => r \in report
      /\ r \in was.alive \cap alive \/ was.rec[r] = "kept" => r \notin report
=============================================================================
