------------------------------- MODULE Session -------------------------------
(***************************************************************************)
(* The krayt processes around one run directory: the process that runs      *)
(* `krayt shell` (or, without --keep, `krayt run`, whose record and teardown *)
(* are the same), `krayt shell --attach`, `krayt stop` and `krayt rm`.       *)
(* There is no daemon: they share the run's meta.json, its attach lock, and  *)
(* the sandbox msb keeps for the run.  A step is what one process does       *)
(* between two points where another can act: a read or a write of meta.json, *)
(* a lock operation, one msb command.                                        *)
(***************************************************************************)
EXTENDS Naturals, FiniteSets

CONSTANTS
  Owner,       \* the process of Shell or Run
  Attach,      \* `krayt shell --attach` processes
  Stop,        \* `krayt stop` processes
  Rm,          \* `krayt rm` processes
  KeepGiven,   \* whether --keep was given
  MaxCrashes   \* how many of the supervising processes may be killed

ASSUME SessionAssumption ==
  /\ KeepGiven \in BOOLEAN
  /\ MaxCrashes \in Nat
  /\ Owner \notin Attach \cup Stop \cup Rm
  /\ Attach \cap Stop = {} /\ Attach \cap Rm = {} /\ Stop \cap Rm = {}
  /\ "none" \notin {Owner} \cup Attach

VARIABLES
  meta,     \* the record in meta.json, or NoRecord
  sandbox,  \* the sandbox, as msb has it
  creating, \* an `msb create` is at work
  late,     \* history: a create outlived its krayt and left a sandbox
  forced,   \* history: `krayt rm --force` of an unfinished run
  lockGone, \* history: `krayt rm` deleted the attach lock under its holder
  lock,     \* who holds the attach lock of the run directory
  pc,       \* where each process is
  reg,      \* the record each process has read and will write back
  signalled,\* the supervising processes whose context is cancelled
  crashes   \* how many supervising processes were killed so far

sessionVars == <<meta, sandbox, creating, late, forced, lockGone, lock, pc, reg, signalled, crashes>>

None     == "none"
Terminal == {"done", "failed"}
Super    == {Owner} \cup Attach
Proc     == Super \cup Stop \cup Rm
States   == {"starting", "running", "kept"} \cup Terminal
\* Nobody supervises a kept session.
MetaRecord == {r \in [state : States, pid : Super \cup {None}] :
                 r.state = "kept" => r.pid = None}
NoRecord == [state |-> "absent", pid |-> None]

EndStages == {"exited", "killed"}
\* A process that is neither gone nor yet to come (supervisorAlive).
Live(p) == p \in Super /\ pc[p] \notin EndStages
\* At work in the sandbox, and writing to the run directory.
Inside(p) == pc[p] \in {"claimed", "tty", "collect", "probe", "final"}

Goto(p, stage) == pc' = [pc EXCEPT ![p] = stage]
Hold(p, state, pid) == reg' = [reg EXCEPT ![p] = [state |-> state, pid |-> pid]]

SessionTypeOK ==
  /\ meta \in MetaRecord \cup {NoRecord}
  /\ sandbox \in {"absent", "up", "down"}
  /\ creating \in BOOLEAN /\ late \in BOOLEAN /\ forced \in BOOLEAN
  /\ lockGone \in BOOLEAN
  /\ lock \in Attach \cup {None}
  /\ pc \in [Proc -> {"idle", "create", "creating", "setup", "tty", "collect", "stop",
                      "remove", "probe", "locked", "claimed", "final", "unlock", "signal",
                      "list", "delete"} \cup EndStages]
  /\ reg \in [Proc -> MetaRecord \cup {NoRecord}]
  /\ signalled \in SUBSET Super
  /\ crashes \in 0..MaxCrashes

SessionInit ==
  /\ meta = NoRecord
  /\ sandbox = "absent"
  /\ creating = FALSE
  /\ late = FALSE
  /\ forced = FALSE
  /\ lockGone = FALSE
  /\ lock = None
  /\ pc = [p \in Proc |-> "idle"]
  /\ reg = [p \in Proc |-> NoRecord]
  /\ signalled = {}
  /\ crashes = 0

-----------------------------------------------------------------------------
(* Shell.  What it will record is settled in `reg` before it gets there.     *)

\* The run directory and the first record, before the sandbox.
BeginSession ==
  /\ pc[Owner] = "idle"
  /\ meta' = [state |-> "starting", pid |-> Owner]
  /\ Goto(Owner, "create")
  /\ UNCHANGED <<sandbox, creating, late, forced, lockGone, lock, reg, signalled, crashes>>

\* Any step up to the end of the session may fail, and does once the context is gone.
Abandon ==
  /\ pc[Owner] \in {"create", "setup", "collect"}
  /\ Hold(Owner, "failed", Owner)
  /\ Goto(Owner, "stop")
  /\ UNCHANGED <<meta, sandbox, creating, late, forced, lockGone, lock, signalled, crashes>>

StartCreate ==
  /\ pc[Owner] = "create"
  /\ creating' = TRUE
  /\ Goto(Owner, "creating")
  /\ UNCHANGED <<meta, sandbox, late, forced, lockGone, lock, reg, signalled, crashes>>

\* msb create returns; one that failed may have left something behind.
CreateReturns ==
  /\ pc[Owner] = "creating"
  /\ creating' = FALSE
  /\ \/ /\ sandbox' = "up"
        /\ Goto(Owner, "setup")
        /\ UNCHANGED reg
     \/ /\ sandbox' \in {"absent", "up"}
        /\ Hold(Owner, "failed", Owner)
        /\ Goto(Owner, "stop")
  /\ UNCHANGED <<meta, late, forced, lockGone, lock, signalled, crashes>>

\* The msb of a krayt that was killed goes on without it.
OrphanedCreateReturns ==
  /\ creating /\ pc[Owner] = "killed"
  /\ creating' = FALSE
  /\ sandbox' \in {"absent", "up"}
  /\ late' = (late \/ sandbox' = "up")
  /\ UNCHANGED <<meta, forced, lockGone, lock, pc, reg, signalled, crashes>>

\* Copy-in and helper setup went through: `running`, then the terminal.
SetupDone ==
  /\ pc[Owner] = "setup"
  /\ Owner \notin signalled
  /\ sandbox = "up"
  /\ meta' = [state |-> "running", pid |-> Owner]
  /\ Goto(Owner, "tty")
  /\ UNCHANGED <<sandbox, creating, late, forced, lockGone, lock, reg, signalled, crashes>>

\* The human leaves, or the shell dies with its sandbox or its krayt's context.
LeaveTTY(p) ==
  /\ pc[p] = "tty"
  /\ Goto(p, "collect")
  /\ UNCHANGED <<meta, sandbox, creating, late, forced, lockGone, lock, reg, signalled, crashes>>

\* Faulty variant of OwnerCollects: --keep alone decides about the teardown.
OwnerCollects_KeepAnyway ==
  /\ pc[Owner] = "collect"
  /\ Hold(Owner, IF sandbox = "up" /\ Owner \notin signalled THEN (IF KeepGiven THEN "kept" ELSE "done")
                 ELSE "failed", IF KeepGiven THEN None ELSE Owner)
  /\ Goto(Owner, IF KeepGiven THEN "final" ELSE "stop")
  /\ UNCHANGED <<meta, sandbox, creating, late, forced, lockGone, lock, signalled, crashes>>

\* finishAndCollect went through: a clean exit, which --keep lets the sandbox survive.
OwnerCollects ==
  /\ pc[Owner] = "collect"
  /\ Owner \notin signalled
  /\ sandbox = "up"
  /\ IF KeepGiven THEN Hold(Owner, "kept", None) /\ Goto(Owner, "final")
             ELSE Hold(Owner, "done", Owner) /\ Goto(Owner, "stop")
  /\ UNCHANGED <<meta, sandbox, creating, late, forced, lockGone, lock, signalled, crashes>>

\* The teardown: msb stop, then msb rm; their errors are ignored.
OwnerStops ==
  /\ pc[Owner] = "stop"
  /\ sandbox' = IF sandbox = "up" THEN "down" ELSE sandbox
  /\ Goto(Owner, "remove")
  /\ UNCHANGED <<meta, creating, late, forced, lockGone, lock, reg, signalled, crashes>>

OwnerRemoves ==
  /\ pc[Owner] = "remove"
  /\ sandbox' = "absent"
  /\ Goto(Owner, "final")
  /\ UNCHANGED <<meta, creating, late, forced, lockGone, lock, reg, signalled, crashes>>

\* The last deferred call: the final record, then the process ends.
OwnerRecords ==
  /\ pc[Owner] = "final"
  /\ meta' = reg[Owner]
  /\ Goto(Owner, "exited")
  /\ UNCHANGED <<sandbox, creating, late, forced, lockGone, lock, reg, signalled, crashes>>

OwnerStep ==
  \/ BeginSession \/ Abandon \/ StartCreate \/ CreateReturns \/ SetupDone \/ OwnerCollects
  \/ OwnerStops \/ OwnerRemoves \/ OwnerRecords

-----------------------------------------------------------------------------
(* AttachShell.                                                              *)

\* Faulty variant of TakeLock: without lockAttach.
TakeLock_Unlocked(p) ==
  /\ pc[p] = "idle"
  /\ meta # NoRecord
  /\ Goto(p, "locked")
  /\ UNCHANGED <<meta, sandbox, creating, late, forced, lockGone, lock, reg, signalled, crashes>>

\* lockAttach, once there is a record; it does not wait.
TakeLock(p) ==
  /\ pc[p] = "idle"
  /\ meta # NoRecord
  /\ IF lock = None
       THEN lock' = p /\ Goto(p, "locked")
       ELSE Goto(p, "exited") /\ UNCHANGED lock
  /\ UNCHANGED <<meta, sandbox, creating, late, forced, lockGone, reg, signalled, crashes>>

\* Under the lock: only a kept session is attached to, if the secrets load as well.
CheckKept(p) ==
  /\ pc[p] = "locked"
  /\ \/ meta.state = "kept" /\ Goto(p, "claimed")
     \/ Goto(p, "unlock")
  /\ UNCHANGED <<meta, sandbox, creating, late, forced, lockGone, lock, reg, signalled, crashes>>

\* The session is this process's now.
Claim(p) ==
  /\ pc[p] = "claimed"
  /\ meta' = [state |-> "running", pid |-> p]
  /\ Goto(p, "tty")
  /\ UNCHANGED <<sandbox, creating, late, forced, lockGone, lock, reg, signalled, crashes>>

\* finishAndCollect, once the human has left.
AttachCollects(p) ==
  /\ pc[p] = "collect"
  /\ \/ /\ sandbox = "up" /\ p \notin signalled
        /\ Hold(p, "kept", None)
        /\ Goto(p, "final")
     \/ Goto(p, "probe") /\ UNCHANGED reg
  /\ UNCHANGED <<meta, sandbox, creating, late, forced, lockGone, lock, signalled, crashes>>

\* Faulty variant of ProbeSandbox: a failed attach is a failed run.
ProbeSandbox_Failed(p) ==
  /\ pc[p] = "probe"
  /\ Hold(p, "failed", None)
  /\ Goto(p, "final")
  /\ UNCHANGED <<meta, sandbox, creating, late, forced, lockGone, lock, signalled, crashes>>

\* After a failed attach: sandboxExists says whether the session can be handed back; it
\* says yes when msb cannot be asked.
ProbeSandbox(p) ==
  /\ pc[p] = "probe"
  /\ \/ Hold(p, "kept", None)
     \/ sandbox = "absent" /\ Hold(p, "failed", None)
  /\ Goto(p, "final")
  /\ UNCHANGED <<meta, sandbox, creating, late, forced, lockGone, lock, signalled, crashes>>

\* Faulty variant of AttachRecords: a failed attach leaves the record alone.
AttachRecords_CleanOnly(p) ==
  /\ pc[p] = "final"
  /\ meta' = IF sandbox = "up" THEN reg[p] ELSE meta
  /\ Goto(p, "unlock")
  /\ UNCHANGED <<sandbox, creating, late, forced, lockGone, lock, reg, signalled, crashes>>

\* The deferred record; the sandbox is left alone on every path.
AttachRecords(p) ==
  /\ pc[p] = "final"
  /\ meta' = reg[p]
  /\ Goto(p, "unlock")
  /\ UNCHANGED <<sandbox, creating, late, forced, lockGone, lock, reg, signalled, crashes>>

Unlock(p) ==
  /\ pc[p] = "unlock"
  /\ lock' = IF lock = p THEN None ELSE lock
  /\ Goto(p, "exited")
  /\ UNCHANGED <<meta, sandbox, creating, late, forced, lockGone, reg, signalled, crashes>>

AttachStep(p) ==
  \/ TakeLock(p) \/ CheckKept(p) \/ Claim(p) \/ AttachCollects(p) \/ ProbeSandbox(p)
  \/ AttachRecords(p) \/ Unlock(p)

-----------------------------------------------------------------------------
(* krayt stop.                                                               *)

\* It reads the record, once: a kept session is stopped by name, a finished run refused.
StopReads(s) ==
  /\ pc[s] = "idle"
  /\ meta # NoRecord
  /\ reg' = [reg EXCEPT ![s] = meta]
  /\ Goto(s, CASE meta.state = "kept" -> "stop"
               [] meta.state \in Terminal -> "exited"
               [] OTHER -> "signal")
  /\ UNCHANGED <<meta, sandbox, creating, late, forced, lockGone, lock, signalled, crashes>>

\* A supervisor that is alive is signalled and left to tear down.
StopSignals(s) ==
  /\ pc[s] = "signal"
  /\ IF Live(reg[s].pid)
       THEN signalled' = signalled \cup {reg[s].pid} /\ Goto(s, "exited")
       ELSE Goto(s, "list") /\ UNCHANGED signalled
  /\ UNCHANGED <<meta, sandbox, creating, late, forced, lockGone, lock, reg, crashes>>

\* stopOrphanedRun asks msb whether there is a sandbox at all.
StopLists(s) ==
  /\ pc[s] = "list"
  /\ Goto(s, IF sandbox = "absent" THEN "final" ELSE "stop")
  /\ UNCHANGED <<meta, sandbox, creating, late, forced, lockGone, lock, reg, signalled, crashes>>

\* msb stop; krayt stop gives up when it fails, as it does without a sandbox.
StopStops(s) ==
  /\ pc[s] = "stop"
  /\ \/ sandbox # "absent" /\ sandbox' = "down" /\ Goto(s, "remove")
     \/ sandbox # "up" /\ UNCHANGED sandbox /\ Goto(s, "exited")
  /\ UNCHANGED <<meta, creating, late, forced, lockGone, lock, reg, signalled, crashes>>

\* msb rm --force.
StopRemoves(s) ==
  /\ pc[s] = "remove"
  /\ \/ sandbox' = "absent" /\ Goto(s, "final")
     \/ sandbox = "absent" /\ UNCHANGED sandbox /\ Goto(s, "exited")
  /\ UNCHANGED <<meta, creating, late, forced, lockGone, lock, reg, signalled, crashes>>

\* The record it has read is written back: `done` for a kept session, `failed` for a
\* run without a process.
StopRecords(s) ==
  /\ pc[s] = "final"
  /\ meta' = IF reg[s].state = "kept" THEN [reg[s] EXCEPT !.state = "done"]
             ELSE [state |-> "failed", pid |-> None]
  /\ Goto(s, "exited")
  /\ UNCHANGED <<sandbox, creating, late, forced, lockGone, lock, reg, signalled, crashes>>

StopStep(s) ==
  \/ StopReads(s) \/ StopSignals(s) \/ StopLists(s) \/ StopStops(s) \/ StopRemoves(s)
  \/ StopRecords(s)

-----------------------------------------------------------------------------
(* krayt rm, and what may happen to a supervising process.                   *)

\* krayt rm: a run that is not finished takes --force.
RmReads(r) ==
  /\ pc[r] = "idle"
  /\ meta # NoRecord
  /\ \/ /\ meta.state \in Terminal
        /\ Goto(r, "delete") /\ UNCHANGED forced
     \/ /\ meta.state \notin Terminal
        /\ \/ Goto(r, "delete") /\ forced' = TRUE
           \/ Goto(r, "exited") /\ UNCHANGED forced
  /\ UNCHANGED <<meta, sandbox, creating, late, lockGone, lock, reg, signalled, crashes>>

\* The run directory goes, and the lock file with it: whoever holds it keeps a lock on a
\* file nobody else can open.
RmDeletes(r) ==
  /\ pc[r] = "delete"
  /\ meta' = NoRecord
  /\ lockGone' = (lockGone \/ lock # None)
  /\ lock' = None
  /\ Goto(r, "exited")
  /\ UNCHANGED <<sandbox, creating, late, forced, reg, signalled, crashes>>

\* Ctrl-C or a closed terminal.
InterruptSession(p) ==
  /\ Live(p) /\ pc[p] # "idle"
  /\ p \notin signalled
  /\ signalled' = signalled \cup {p}
  /\ UNCHANGED <<meta, sandbox, creating, late, forced, lockGone, lock, pc, reg, crashes>>

\* kill -9, or a crash: nothing deferred runs, and the operating system drops the lock.
KillSession(p) ==
  /\ Live(p) /\ pc[p] # "idle"
  /\ crashes < MaxCrashes
  /\ crashes' = crashes + 1
  /\ lock' = IF lock = p THEN None ELSE lock
  /\ Goto(p, "killed")
  /\ UNCHANGED <<meta, sandbox, creating, late, forced, lockGone, reg, signalled>>

\* Nothing is left to do.
Quiet ==
  /\ \A p \in Proc : pc[p] \in EndStages \/ (p # Owner /\ pc[p] = "idle")
  /\ ~creating
  /\ UNCHANGED sessionVars

SessionNext ==
  \/ OwnerStep \/ OrphanedCreateReturns \/ Quiet
  \/ \E p \in Super : LeaveTTY(p) \/ InterruptSession(p) \/ KillSession(p)
  \/ \E p \in Attach : AttachStep(p)
  \/ \E s \in Stop : StopStep(s)
  \/ \E r \in Rm : RmReads(r) \/ RmDeletes(r)

\* The session's own process goes on, msb commands return, and the shell of a krayt
\* whose context is gone ends.  Nothing makes a human leave, or start another command.
OwnerGoesOn == OwnerStep \/ (Owner \in signalled /\ LeaveTTY(Owner))

SessionFairness == WF_sessionVars(OwnerGoesOn)

SessionSpec     == SessionInit /\ [][SessionNext]_sessionVars
SessionFairSpec == SessionSpec /\ SessionFairness
-----------------------------------------------------------------------------
(* Properties.                                                               *)

\* Two terminals are never in the same session: the claim of AttachShell is exclusive
\* across processes, also when a holder is killed, the session handed back, or stopped
\* by somebody else meanwhile.  krayt rm deletes the lock with the run directory: the
\* claim is good as long as that does not happen to a holder.
OneInside == ~lockGone => \A p, q \in Super : Inside(p) /\ Inside(q) => p = q

\* A sandbox that is there can be found by krayt stop: its record says neither that the
\* run is finished nor nothing at all.  Only a create that outlived its krayt, and
\* `rm --force`, leave one behind.
SandboxReachable ==
  sandbox # "absent" /\ ~late /\ ~forced => meta.state \in {"starting", "running", "kept"}

\* No stranded record: a run that reads as live has a process that is alive or was
\* killed, never one that came to its end; so krayt stop and --attach always have a way.
NoneStranded == meta.state \in {"starting", "running"} => pc[meta.pid] # "exited"

\* A session whose context is cancelled before it was left (Ctrl-C, a closed terminal,
\* krayt stop) tears its sandbox down, --keep or not, unless its krayt is killed.
SignalTearsDown ==
  Owner \in signalled /\ pc[Owner] \notin EndStages \cup {"final"}
    ~> pc[Owner] = "killed" \/ (pc[Owner] = "exited" /\ sandbox = "absent")

\* manage.go, stopKeptShell: "a `kept` record with no matching sandbox is itself a bug
\* this command must not leave behind".
KeptHasSandbox ==
  (meta.state = "kept" /\ \A p \in Proc : pc[p] \in EndStages \cup {"idle"}) => sandbox # "absent"

\* manage.go, stopOrphanedRun: it "cleans up a non-terminal run whose supervising krayt
\* process died without tearing its sandbox down"; the record of a run that finished as
\* it should is not its to change.
ResultStands == [][meta.state = "done" => meta'.state # "failed"]_sessionVars
=============================================================================
