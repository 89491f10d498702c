------------------------------ MODULE Upgrade -------------------------------
(* `krayt upgrade`, again and again, each of which may fail or be killed at    *)
(* any point and leaves its files to the next: the directory of the installed *)
(* binary, step by step.                                                      *)
EXTENDS Naturals

CONSTANT MaxUpgrades  \* bound on the number of upgrades

UpgradeAssumption == MaxUpgrades \in Nat

VARIABLES
  windows,  \* the host moves a running binary aside instead of replacing it
  upgrade,  \* where the upgrade at work is
  count,    \* how many were begun; the last installs version `count'
  krayt,    \* what the binary's own name holds: a version, or no file
  bak,      \* ... its name with .bak
  bakTmp,   \* ... with .bak.tmp
  running,  \* ... with .running
  fetched,  \* the upgrade's own temporary files: none, or what they were made from
  before    \* history: what the name held when the upgrade began

upgradeVars == <<windows, upgrade, count, krayt, bak, bakTmp, running, fetched, before>>

\* What a name holds besides a version of krayt.
Absent   == MaxUpgrades + 1
Partial  == MaxUpgrades + 2
Bad      == MaxUpgrades + 3
Versions == 0..MaxUpgrades
Stages   == {"decide", "download", "extract", "probe", "open", "copy", "backup", "vacate",
             "install", "rollback"}

UpgradeTypeOK ==
  /\ windows \in BOOLEAN
  /\ upgrade \in {"idle", "done", "failed", "stuck", "killed"} \cup Stages
  /\ count \in Versions
  /\ {krayt, running} \subseteq Versions \cup {Absent, Bad}
  /\ {bak, bakTmp} \subseteq Versions \cup {Absent, Partial, Bad}
  /\ fetched \in {"none", "good", "bad", "binary"}
  /\ before \in Versions \cup {Absent, Bad}

UpgradeInit ==
  /\ windows \in BOOLEAN
  /\ upgrade = "idle" /\ count = 0
  /\ krayt = 0 /\ bak = Absent /\ bakTmp = Absent /\ running = Absent
  /\ fetched = "none" /\ before = 0

-----------------------------------------------------------------------------
(* The command. *)

Proceed(from, to) == upgrade = from /\ upgrade' = to

\* Only a krayt that is there can be asked to upgrade itself.
BeginUpgrade ==
  /\ upgrade \in {"idle", "done", "failed", "killed"} /\ count < MaxUpgrades
  /\ krayt # Absent
  /\ upgrade' = "decide" /\ count' = count + 1
  /\ fetched' = "none" /\ before' = krayt
  /\ UNCHANGED <<windows, krayt, bak, bakTmp, running>>

\* --check, the same version, an answer that is not yes: nothing is written.
Decline ==
  /\ Proceed("decide", "failed")
  /\ UNCHANGED <<windows, count, krayt, bak, bakTmp, running, fetched, before>>

Confirm ==
  /\ Proceed("decide", "download")
  /\ UNCHANGED <<windows, count, krayt, bak, bakTmp, running, fetched, before>>

\* DownloadAndVerify: what does not match checksums.txt is removed (Fail).
Download ==
  /\ Proceed("download", "extract")
  /\ fetched' = "good"
  /\ UNCHANGED <<windows, count, krayt, bak, bakTmp, running, before>>

\* ExtractBinary: exactly one regular entry of the right name, or Fail.
Extract ==
  /\ Proceed("extract", "probe")
  /\ fetched' = IF fetched = "good" THEN "binary" ELSE fetched
  /\ UNCHANGED <<windows, count, krayt, bak, bakTmp, running, before>>

\* Apply: the directory can be written to.
Probe ==
  /\ Proceed("probe", "open")
  /\ UNCHANGED <<windows, count, krayt, bak, bakTmp, running, fetched, before>>

\* copyFile: a temporary file beside the backup, and a rename.
OpenBackup ==
  /\ Proceed("open", "copy")
  /\ krayt # Absent
  /\ bakTmp' = Partial
  /\ UNCHANGED <<windows, count, krayt, bak, running, fetched, before>>

CopyBackup_InPlace ==
  /\ Proceed("copy", "backup")
  /\ bakTmp' = krayt /\ bak' = Partial
  /\ UNCHANGED <<windows, count, krayt, running, fetched, before>>

CopyBackup ==
  /\ Proceed("copy", "backup")
  /\ bakTmp' = krayt
  /\ UNCHANGED <<windows, count, krayt, bak, running, fetched, before>>

MoveBackup ==
  /\ Proceed("backup", IF windows THEN "vacate" ELSE "install")
  /\ bak' = bakTmp /\ bakTmp' = Absent
  /\ UNCHANGED <<windows, count, krayt, running, fetched, before>>

Made == IF fetched = "binary" THEN count ELSE Bad

\* installBinary.  Elsewhere than on Windows one rename replaces the binary.
Install ==
  /\ Proceed("install", "done")
  /\ krayt' = Made
  /\ fetched' = "none"
  /\ running' \in IF windows THEN {running, Absent} ELSE {running}
  /\ UNCHANGED <<windows, count, bak, bakTmp, before>>

\* A file left under the name by an earlier upgrade goes first.
Vacate ==
  /\ Proceed("vacate", "install")
  /\ running' = krayt /\ krayt' = Absent
  /\ UNCHANGED <<windows, count, bak, bakTmp, fetched, before>>

InstallFails_NoRollback ==
  /\ windows /\ Proceed("install", "failed")
  /\ fetched' = "none"
  /\ UNCHANGED <<windows, count, krayt, bak, bakTmp, running, before>>

InstallFails ==
  /\ windows /\ Proceed("install", "rollback")
  /\ fetched' = "none"
  /\ UNCHANGED <<windows, count, krayt, bak, bakTmp, running, before>>

\* Which may fail too.
Rollback ==
  /\ \/ /\ Proceed("rollback", "failed")
        /\ krayt' = running /\ running' = Absent
     \/ /\ Proceed("rollback", "stuck")
        /\ UNCHANGED <<krayt, running>>
  /\ UNCHANGED <<windows, count, bak, bakTmp, fetched, before>>

\* Any other step may fail: its temporary files are removed.  A vacating that
\* failed may have removed the file of an earlier upgrade.
FailUpgrade ==
  /\ upgrade \in Stages \ {"decide", "rollback"}
  /\ upgrade = "install" => ~windows
  /\ upgrade' = "failed" /\ fetched' = "none"
  /\ bakTmp' = IF upgrade \in {"copy", "backup"} THEN Absent ELSE bakTmp
  /\ running' \in IF upgrade = "vacate" THEN {running, Absent} ELSE {running}
  /\ UNCHANGED <<windows, count, krayt, bak, before>>

\* The process is killed: every file stays as it is.  (A power cut may lose what no
\* fsync wrote out, of which the code does none, and is not modelled.)
Kill ==
  /\ upgrade \in Stages
  /\ upgrade' = "killed"
  /\ UNCHANGED <<windows, count, krayt, bak, bakTmp, running, fetched, before>>

UpgradeNext ==
  \/ BeginUpgrade \/ Decline \/ Confirm \/ Download \/ Extract \/ Probe \/ OpenBackup
  \/ CopyBackup \/ MoveBackup \/ Install \/ Vacate \/ InstallFails \/ Rollback \/ FailUpgrade \/ Kill

UpgradeSpec == UpgradeInit /\ [][UpgradeNext]_upgradeVars

-----------------------------------------------------------------------------
(* Properties. *)

\* Whatever fails or is killed, and whenever: the name holds a whole binary that
\* was installed or verified.  On Windows it may hold none while an upgrade is
\* between its two renames, was killed there or could not undo the first, and
\* then the old binary is under .running.
KraytIsThere ==
  \/ krayt \in Versions
  \/ windows /\ krayt = Absent /\ upgrade \in {"install", "rollback", "stuck", "killed"} /\ running = before

\* The backup is never torn, and after an upgrade it is the binary replaced.
BackupIsWhole ==
  /\ bak \in Versions \cup {Absent}
  /\ upgrade \in {"vacate", "install", "done"} => bak = before
=============================================================================
