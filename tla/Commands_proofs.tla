-------------------------- MODULE Commands_proofs ---------------------------
(* Proofs about the commands beside run: self-upgrade, gc, prune and doctor,   *)
(* logs -f and attach.                                                        *)
EXTENDS Upgrade, Housekeeping, FollowLog, TLAPS

-----------------------------------------------------------------------------
(* Upgrade.                                                                *)

ToBackup == {"decide", "download", "extract", "probe", "open", "copy", "backup"}
Verified == {"probe", "open", "copy", "backup", "vacate", "install"}

(* The inductive invariant, part by part. *)

\* Until the renames of installBinary nothing has touched the binary, and what
\* they leave at each step.
NameInv ==
  /\ KraytIsThere
  /\ before \in Versions
  /\ upgrade \in ToBackup \cup {"vacate"} => krayt = before
  /\ upgrade = "install" => krayt = IF windows THEN Absent ELSE before
  /\ upgrade = "install" /\ windows => running = before
  /\ upgrade = "rollback" => krayt = Absent /\ running = before
  /\ upgrade \in {"vacate", "rollback", "stuck"} => windows

\* What is installed was verified and extracted.
FetchedInv ==
  /\ upgrade = "extract" => fetched = "good"
  /\ upgrade \in Verified => fetched = "binary"

\* The backup is copied whole before it takes its name.
BackupInv ==
  /\ BackupIsWhole
  /\ upgrade = "backup" => bakTmp = before

UpgradeInv == UpgradeTypeOK /\ NameInv /\ FetchedInv /\ BackupInv

\* Every action keeps the invariant; the two renames of installBinary on Windows
\* (Vacate, Install) are the ones it is about.
LEMMA UpgradeStep ==
  ASSUME UpgradeAssumption, UpgradeInv, [UpgradeNext]_upgradeVars
  PROVE  UpgradeInv'
<1> USE DEF UpgradeAssumption, UpgradeInv, UpgradeTypeOK, NameInv, FetchedInv, BackupInv, KraytIsThere,
            BackupIsWhole, ToBackup, Verified, Stages, Versions, Absent, Partial, Bad, Proceed
<1>1. CASE BeginUpgrade
  BY <1>1 DEF BeginUpgrade
<1>2. CASE Decline
  BY <1>2 DEF Decline
<1>3. CASE Confirm
  BY <1>3 DEF Confirm
<1>4. CASE Download
  BY <1>4 DEF Download
<1>5. CASE Extract
  BY <1>5 DEF Extract
<1>6. CASE Probe
  BY <1>6 DEF Probe
<1>7. CASE OpenBackup
  BY <1>7 DEF OpenBackup
<1>8. CASE CopyBackup
  BY <1>8 DEF CopyBackup
<1>9. CASE MoveBackup
  BY <1>9 DEF MoveBackup
<1>10. CASE Install
  BY <1>10 DEF Install, Made
<1>11. CASE Vacate
  BY <1>11 DEF Vacate
<1>12. CASE InstallFails
  BY <1>12 DEF InstallFails
<1>13. CASE Rollback
  BY <1>13 DEF Rollback
<1>14. CASE FailUpgrade
  BY <1>14 DEF FailUpgrade
<1>15. CASE Kill
  BY <1>15 DEF Kill
<1>16. CASE UNCHANGED upgradeVars
  BY <1>16 DEF upgradeVars
<1> QED
  BY <1>1, <1>2, <1>3, <1>4, <1>5, <1>6, <1>7, <1>8, <1>9, <1>10, <1>11, <1>12, <1>13, <1>14,
     <1>15, <1>16 DEF UpgradeNext

\* The invariant holds at the start and in every reachable state.
LEMMA UpgradeInvariance ==
  ASSUME UpgradeAssumption
  PROVE  UpgradeSpec => []UpgradeInv
<1>1. UpgradeInit => UpgradeInv
  BY DEF UpgradeAssumption, UpgradeInit, UpgradeInv, UpgradeTypeOK, NameInv, FetchedInv, BackupInv, KraytIsThere,
         BackupIsWhole, ToBackup, Verified, Stages, Versions, Absent, Partial, Bad
<1>2. UpgradeInv /\ [UpgradeNext]_upgradeVars => UpgradeInv'
  BY UpgradeStep
<1> QED
  BY <1>1, <1>2, PTL DEF UpgradeSpec

\* Every state of the upgrade has its type.
THEOREM UpgradeTypeCorrect ==
  ASSUME UpgradeAssumption
  PROVE  UpgradeSpec => []UpgradeTypeOK
<1>1. UpgradeInv => UpgradeTypeOK
  BY DEF UpgradeInv
<1> QED
  BY <1>1, UpgradeInvariance, PTL

\* Through any number of upgrades that fail or are killed anywhere, the binary's
\* name holds a whole, verified krayt, or .running holds the one it held.
THEOREM KraytStays ==
  ASSUME UpgradeAssumption
  PROVE  UpgradeSpec => []KraytIsThere
<1>1. UpgradeInv => KraytIsThere
  BY DEF UpgradeInv, NameInv
<1> QED
  BY <1>1, UpgradeInvariance, PTL

\* The backup is never torn, and a finished upgrade leaves the binary it replaced.
THEOREM BackupStaysWhole ==
  ASSUME UpgradeAssumption
  PROVE  UpgradeSpec => []BackupIsWhole
<1>1. UpgradeInv => BackupIsWhole
  BY DEF UpgradeInv, BackupInv
<1> QED
  BY <1>1, UpgradeInvariance, PTL

-----------------------------------------------------------------------------
(* Housekeeping.                                                           *)

RunStates == {"absent", "ended"} \cup Under

(* The inductive invariant, part by part. *)

\* A record that a process supervises is that of a run under way, and a sandbox
\* has a record.
RunInv ==
  /\ \A r \in alive : records[r] \in {"starting", "running"}
  /\ \A r \in vms : records[r] # "absent"

\* What the command saw at its beginning: records stay, and no process comes back.
WasInv ==
  /\ was \in [rec : [Runs -> RunStates], alive : SUBSET Runs, vm : SUBSET Runs]
  /\ \A r \in was.alive : was.rec[r] \in {"starting", "running"}
  /\ \A r \in was.vm : was.rec[r] # "absent"
  /\ \A r \in Runs : was.rec[r] # "absent" =>
       /\ records[r] # "absent"
       /\ r \notin was.alive => r \notin alive

\* What is to be removed is no longer of use to a run that prune could know of.
PruneInv ==
  cmd = "prune" /\ stage = "remove" =>
    \A r \in Runs : Image[r] \in listed /\ was.rec[r] # "absent" => records[r] = "ended" /\ r \notin recent

\* Doctor knows the runs to be looked up, then those accounted for.
DoctorInv ==
  cmd = "doctor" =>
    /\ stage = "read" => \A r \in Runs :
         /\ r \in owned <=> was.rec[r] = "kept"
         /\ r \in unsure <=> was.rec[r] \in {"starting", "running"}
    /\ stage \in {"probed", "done"} => \A r \in Runs :
         /\ was.rec[r] = "kept" => r \in owned
         /\ r \in was.alive \cap alive => r \in owned
         /\ r \in owned => was.rec[r] = "kept" \/ r \in was.alive
    /\ stage = "done" => \A r \in Runs :
         /\ r \in report => r \notin owned
         /\ r \in was.vm \cap vms /\ r \notin was.alive /\ r \notin owned => r \in report

KeepInv == KeepTypeOK /\ RunInv /\ WasInv /\ PruneInv /\ DoctorInv

\* A step of a run keeps the invariant.
LEMMA RunKeeps ==
  ASSUME HousekeepingAssumption, KeepInv, NEW q \in Runs, OneRun(q)
  PROVE  KeepInv'
<1> USE DEF HousekeepingAssumption, KeepInv, KeepTypeOK, RunInv, WasInv, PruneInv, DoctorInv, RunStates, Under,
            cmdVars
<1>1. CASE StartRun(q)
  BY <1>1 DEF StartRun
<1>2. CASE Boot(q)
  BY <1>2 DEF Boot
<1>3. CASE Keep(q)
  BY <1>3 DEF Keep
<1>4. CASE End(q)
  BY <1>4 DEF End
<1>5. CASE Crash(q)
  BY <1>5 DEF Crash
<1>6. CASE Age(q)
  BY <1>6 DEF Age
<1> QED
  BY <1>1, <1>2, <1>3, <1>4, <1>5, <1>6 DEF OneRun

\* Every action keeps the invariant: a command reads the records before it asks
\* for processes and sandboxes, and what it read of an ended run stays true.
LEMMA Keeps ==
  ASSUME HousekeepingAssumption, KeepInv, [KeepNext]_keepVars
  PROVE  KeepInv'
<1> USE DEF HousekeepingAssumption, KeepInv, KeepTypeOK, RunInv, WasInv, PruneInv, DoctorInv, RunStates, Under,
            theirVars
<1>1. ASSUME NEW q \in Runs, OneRun(q) PROVE KeepInv'
  BY <1>1, RunKeeps
<1>2. CASE ListImages
  BY <1>2 DEF ListImages, Step, Now
<1>3. CASE DecidePrune
  BY <1>3 DEF DecidePrune, Step, ProtectedImages
<1>4. CASE Rmi
  BY <1>4 DEF Rmi, Step
<1>5. CASE RmiFails
  BY <1>5 DEF RmiFails, Step
<1>6. CASE PruneDone
  BY <1>6 DEF PruneDone, Step
<1>7. CASE ReadRecords
  BY <1>7 DEF ReadRecords, Step, Now
<1>8. CASE ProbeProcesses
  BY <1>8 DEF ProbeProcesses, Step
<1>9. CASE ListSandboxes
  BY <1>9 DEF ListSandboxes, Step
<1>10. CASE UNCHANGED keepVars
  BY <1>10 DEF keepVars, cmdVars
<1> QED
  BY <1>1, <1>2, <1>3, <1>4, <1>5, <1>6, <1>7, <1>8, <1>9, <1>10 DEF KeepNext

\* The invariant holds at the start and in every reachable state.
LEMMA KeepInvariance ==
  ASSUME HousekeepingAssumption
  PROVE  KeepSpec => []KeepInv
<1>1. KeepInit => KeepInv
  BY DEF KeepInit, KeepInv, KeepTypeOK, RunInv, WasInv, PruneInv, DoctorInv, RunStates, Under, Now
<1>2. KeepInv /\ [KeepNext]_keepVars => KeepInv'
  BY Keeps
<1> QED
  BY <1>1, <1>2, PTL DEF KeepSpec

\* Doctor names every sandbox whose krayt was gone, and none whose krayt lives,
\* whatever the runs do between its three reads.
THEOREM OrphansAreNamed ==
  ASSUME HousekeepingAssumption
  PROVE  KeepSpec => []OrphansNamed
<1>1. KeepInv => OrphansNamed
  BY DEF KeepInv, KeepTypeOK, WasInv, DoctorInv, OrphansNamed
<1> QED
  BY <1>1, KeepInvariance, PTL

\* Prune removes no image that a run it could know of still needs, or used lately.
THEOREM RetentionIsKept ==
  ASSUME HousekeepingAssumption
  PROVE  KeepSpec => RetentionHolds
<1> DEFINE Removal == \A r \in Runs :
                        Image[r] \in store \ store' /\ was.rec[r] # "absent"
                          => records[r] \notin Under /\ r \notin recent
<1>1. KeepInv /\ [KeepNext]_keepVars => [Removal]_keepVars
  <2> SUFFICES ASSUME KeepInv, KeepNext, NEW r \in Runs, Image[r] \in store \ store', was.rec[r] # "absent"
               PROVE  records[r] \notin Under /\ r \notin recent
    OBVIOUS
  <2>1. store' = store \/ store \subseteq store' \/ Rmi
    BY DEF KeepNext, OneRun, StartRun, Boot, Keep, End, Crash, Age, ListImages, DecidePrune, RmiFails,
           PruneDone, ReadRecords, ProbeProcesses, ListSandboxes
  <2>2. Rmi
    BY <2>1
  <2>3. cmd = "prune" /\ stage = "remove" /\ Image[r] \in listed
    BY <2>2 DEF Rmi, Step
  <2> QED
    BY <2>3 DEF KeepInv, PruneInv, Under
<1> QED
  BY <1>1, KeepInvariance, PTL DEF KeepSpec, RetentionHolds

-----------------------------------------------------------------------------
(* FollowLog.                                                              *)

(* The inductive invariant, part by part. *)

\* Nothing is shown that is not in the log, which is there once it was opened.
ShownInv ==
  /\ followed = "starting" => log = NoLog
  /\ follower # "open" => log # NoLog
  /\ log # NoLog => shown <= log
  /\ log = NoLog => shown = 0

\* At the end of the file all of what was there is shown.
EofInv == follower \in {"check", "grace"} => shown = eof

\* The log of an ended run stays as it is, and the last read comes after the
\* record.
EndInv == follower \in {"grace", "done"} => followed = "ended"

FollowInv == FollowTypeOK /\ ShownInv /\ EofInv /\ EndInv /\ WholeLogShown

\* Every action keeps the invariant: only Write makes the log longer, and not
\* after the record, so the last read sees all that came since the end was met.
LEMMA FollowStep ==
  ASSUME FollowLogAssumption, FollowInv, [FollowNext]_followVars
  PROVE  FollowInv'
<1> USE DEF FollowLogAssumption, FollowInv, FollowTypeOK, ShownInv, EofInv, EndInv, WholeLogShown, NoLog
<1>1. CASE CreateLog
  BY <1>1 DEF CreateLog
<1>2. CASE Write
  BY <1>2 DEF Write
<1>3. CASE AgentEnds
  BY <1>3 DEF AgentEnds
<1>4. CASE Record
  BY <1>4 DEF Record
<1>5. CASE Open
  BY <1>5 DEF Open
<1>6. CASE Read
  BY <1>6 DEF Read, Available
<1>7. CASE Check
  BY <1>7 DEF Check
<1>8. CASE GraceRead
  BY <1>8 DEF GraceRead, Available
<1>9. CASE UNCHANGED followVars
  BY <1>9 DEF followVars
<1> QED
  BY <1>1, <1>2, <1>3, <1>4, <1>5, <1>6, <1>7, <1>8, <1>9 DEF FollowNext, Follow

\* The invariant holds at the start and in every reachable state.
LEMMA FollowInvariance ==
  ASSUME FollowLogAssumption
  PROVE  FollowSpec => []FollowInv
<1>1. FollowInit => FollowInv
  BY DEF FollowLogAssumption, FollowInit, FollowInv, FollowTypeOK, ShownInv, EofInv, EndInv, WholeLogShown, NoLog
<1>2. FollowInv /\ [FollowNext]_followVars => FollowInv'
  BY FollowStep
<1> QED
  BY <1>1, <1>2, PTL DEF FollowSpec

\* However fast the agent writes and however the reads fall, an attach that ends has
\* shown all there was at its last end of file and the next read's worth.
THEOREM LogIsShown ==
  ASSUME FollowLogAssumption
  PROVE  FollowSpec => []WholeLogShown
<1>1. FollowInv => WholeLogShown
  BY DEF FollowInv
<1> QED
  BY <1>1, FollowInvariance, PTL
=============================================================================
