---------------------------- MODULE RunLifecycle ----------------------------
(* One `krayt run`, from the capture of the repository to the final record:  *)
(* orchestrator.Run with the msb commands it issues.  A step is one command,  *)
(* between which the deadline, Ctrl-C, the agent and the operator may act.    *)
(* The questions an agent asks while it runs are AskBridge's.                 *)
EXTENDS Naturals

CONSTANTS
  MaxEdits,     \* bound on the versions of the repository and of the workspace
  Transcripts,  \* whether the agent's transcript was asked for
  Deadlines     \* whether the run has a wall-clock timeout

LifecycleAssumption ==
  MaxEdits \in Nat /\ Transcripts \in BOOLEAN /\ Deadlines \in BOOLEAN

VARIABLES
  step,     \* where Run is
  ctx,      \* its context: live, past the deadline, or cancelled
  host,     \* version of the operator's repository
  bundle,   \* the versions the clone and the capture of the work tree saw
  vm,       \* the sandbox is there
  ws,       \* version of /workspace
  agent,    \* the agent's process, as its msb exec reports it
  rec,      \* the state in meta.json
  result,   \* what Run returns
  out,      \* what the run directory has
  patch,    \* version of the workspace in changes.patch
  refused   \* history: calls that msb itself failed

runVars == <<step, ctx, host, bundle, vm, ws, agent, rec, result, out, patch, refused>>

Unread   == MaxEdits + 1
Teardown == {"logs", "transcript", "stop", "rm", "record"}
Working  == {"wire", "resolve", "create", "clone", "capture", "copy", "setup", "seed",
             "exec", "wait", "judge", "finish", "collect"}
Ended    == {"done", "failed", "timed_out"}

RunTypeOK ==
  /\ step \in {"begin", "returned"} \cup Working \cup Teardown
  /\ ctx \in {"live", "deadline", "cancelled"}
  /\ host \in 0..MaxEdits /\ ws \in 0..MaxEdits
  /\ bundle \in [head : 0..Unread, tree : 0..Unread]
  /\ vm \in BOOLEAN
  /\ agent \in {"none", "running", "zero", "nonzero", "killed", "lost"}
  /\ rec \in {"absent", "starting", "running"} \cup Ended
  /\ result \in {"none"} \cup Ended
  /\ out \subseteq {"console", "transcript", "patch"}
  /\ patch \in 0..Unread
  /\ refused \subseteq {"exec", "logs", "transcript", "rm"}

RunInit ==
  /\ step = "begin" /\ ctx = "live" /\ host = 0
  /\ bundle = [head |-> Unread, tree |-> Unread]
  /\ vm = FALSE /\ ws = 0 /\ agent = "none"
  /\ rec = "absent" /\ result = "none" /\ out = {} /\ patch = Unread /\ refused = {}

-----------------------------------------------------------------------------
(* The world around the run. *)

\* The operator changes the repository once meta.json says that it is safe.
HostEdits ==
  /\ rec \notin {"absent", "starting"}
  /\ host < MaxEdits
  /\ host' = host + 1
  /\ UNCHANGED <<step, ctx, bundle, vm, ws, agent, rec, result, out, patch, refused>>

\* Also when only the host's end of its exec is dead.  (What a process that the
\* agent leaves behind goes on writing after the agent's exit is not modelled.)
AgentEdits ==
  /\ agent \in {"running", "killed", "lost"} /\ vm
  /\ ws < MaxEdits
  /\ ws' = ws + 1
  /\ UNCHANGED <<step, ctx, host, bundle, vm, agent, rec, result, out, patch, refused>>

AgentExits ==
  /\ agent = "running"
  /\ agent' \in {"zero", "nonzero"}
  /\ UNCHANGED <<step, ctx, host, bundle, vm, ws, rec, result, out, patch, refused>>

\* context.WithTimeout, and Ctrl-C through the CLI.
Deadline ==
  /\ ctx = "live" /\ Deadlines /\ step # "returned"
  /\ ctx' = "deadline"
  /\ UNCHANGED <<step, host, bundle, vm, ws, agent, rec, result, out, patch, refused>>

Interrupt ==
  /\ ctx = "live" /\ step # "returned"
  /\ ctx' = "cancelled"
  /\ UNCHANGED <<step, host, bundle, vm, ws, agent, rec, result, out, patch, refused>>

-----------------------------------------------------------------------------
(* Run. *)

\* isWallClockTimeout and earlyTimeoutResult, or an error.
Failure == IF ctx = "deadline" THEN "timed_out" ELSE "failed"

\* A call bound to the context succeeds only while that is live.
Advance_Detached(from, to) == step = from /\ step' = to
Advance(from, to) == step = from /\ ctx = "live" /\ step' = to

GiveUp(as) == result' = as /\ step' = "logs"

\* Before the first record nothing is torn down and nothing recorded.
BeginFails ==
  /\ step = "begin"
  /\ result' = "failed" /\ step' = "returned"
  /\ UNCHANGED <<ctx, host, bundle, vm, ws, agent, rec, out, patch, refused>>

Begin ==
  /\ step = "begin"
  /\ rec' = "starting" /\ step' = "wire"
  /\ UNCHANGED <<ctx, host, bundle, vm, ws, agent, result, out, patch, refused>>

\* Network rules, secrets, the question channel: no context is consulted.
Wire ==
  /\ step = "wire"
  /\ \/ step' = "resolve" /\ UNCHANGED result
     \/ GiveUp("failed")
  /\ UNCHANGED <<ctx, host, bundle, vm, ws, agent, rec, out, patch, refused>>

\* resolveSandboxUser: a root or missing USER is refused.
Resolve ==
  /\ Advance("resolve", "create")
  /\ UNCHANGED <<ctx, host, bundle, vm, ws, agent, rec, result, out, patch, refused>>

Create_RunningEarly ==
  /\ Advance("create", "clone")
  /\ vm' = TRUE /\ rec' = "running"
  /\ UNCHANGED <<ctx, host, bundle, ws, agent, result, out, patch, refused>>

Create ==
  /\ Advance("create", "clone")
  /\ vm' = TRUE
  /\ UNCHANGED <<ctx, host, bundle, ws, agent, rec, result, out, patch, refused>>

\* CreateBundle: the clone of HEAD, then the work tree under a temporary index.
Clone ==
  /\ Advance("clone", "capture")
  /\ bundle' = [bundle EXCEPT !.head = host]
  /\ UNCHANGED <<ctx, host, vm, ws, agent, rec, result, out, patch, refused>>

Capture ==
  /\ Advance("capture", "copy")
  /\ bundle' = [bundle EXCEPT !.tree = host]
  /\ UNCHANGED <<ctx, host, vm, ws, agent, rec, result, out, patch, refused>>

CopyIn ==
  /\ Advance("copy", "setup")
  /\ UNCHANGED <<ctx, host, bundle, vm, ws, agent, rec, result, out, patch, refused>>

\* krayt-helper setup, and only then `running`.
Setup ==
  /\ Advance("setup", "seed")
  /\ rec' = "running"
  /\ UNCHANGED <<ctx, host, bundle, vm, ws, agent, result, out, patch, refused>>

CallFails_CreateUntorn ==
  /\ step \in {"resolve", "create", "clone", "capture", "copy", "setup", "finish", "collect"}
  /\ vm' \in IF step = "create" THEN BOOLEAN ELSE {vm}
  /\ result' = Failure
  /\ step' = IF step = "create" THEN "record" ELSE "logs"
  /\ UNCHANGED <<ctx, host, bundle, ws, agent, rec, out, patch, refused>>

\* A failed create may have left a sandbox; the other calls change nothing.
CallFails ==
  /\ step \in {"resolve", "create", "clone", "capture", "copy", "setup", "finish", "collect"}
  /\ vm' \in IF step = "create" THEN BOOLEAN ELSE {vm}
  /\ GiveUp(Failure)
  /\ UNCHANGED <<ctx, host, bundle, ws, agent, rec, out, patch, refused>>

\* applyConfigSeeds and trustWorkspaceForGit never fail the run; the log may.
Seed ==
  /\ step = "seed"
  /\ \/ step' = "exec" /\ UNCHANGED result
     \/ GiveUp("failed")
  /\ UNCHANGED <<ctx, host, bundle, vm, ws, agent, rec, out, patch, refused>>

\* Sandbox.Exec: with a dead context nothing is started.
Exec ==
  /\ step = "exec"
  /\ agent' = IF ctx = "live" THEN "running" ELSE "lost"
  /\ step' = "wait"
  /\ UNCHANGED <<ctx, host, bundle, vm, ws, rec, result, out, patch, refused>>

ExecKilled_CancelOnly ==
  /\ step = "wait" /\ agent = "running" /\ ctx = "cancelled"
  /\ agent' \in {"killed", "lost"}
  /\ UNCHANGED <<step, ctx, host, bundle, vm, ws, rec, result, out, patch, refused>>

\* The context kills msb exec: a nonzero exit if output was seen, else ErrMsbFailed.
ExecKilled ==
  /\ step = "wait" /\ agent = "running" /\ ctx # "live"
  /\ agent' \in {"killed", "lost"}
  /\ UNCHANGED <<step, ctx, host, bundle, vm, ws, rec, result, out, patch, refused>>

\* msb exec fails by itself, which looks the same.
ExecDies ==
  /\ step = "wait" /\ agent = "running"
  /\ agent' \in {"killed", "lost"}
  /\ refused' = refused \cup {"exec"}
  /\ UNCHANGED <<step, ctx, host, bundle, vm, ws, rec, result, out, patch>>

ExecReturns ==
  /\ step = "wait" /\ agent # "running"
  /\ step' = "judge"
  /\ UNCHANGED <<ctx, host, bundle, vm, ws, agent, rec, result, out, patch, refused>>

\* The switch after the exec.
Judge ==
  /\ step = "judge"
  /\ CASE agent = "lost" -> GiveUp(Failure)
       [] agent \notin {"zero", "lost"} /\ ctx = "deadline" -> GiveUp("timed_out")
       [] OTHER -> step' = "finish" /\ UNCHANGED result
  /\ UNCHANGED <<ctx, host, bundle, vm, ws, agent, rec, out, patch, refused>>

\* finishAndCollect: the helper's diff, then the copy into the run directory.
Finish ==
  /\ Advance("finish", "collect")
  /\ patch' = ws
  /\ UNCHANGED <<ctx, host, bundle, vm, ws, agent, rec, result, out, refused>>

Collect ==
  /\ Advance("collect", "logs")
  /\ out' = out \cup {"patch"}
  /\ result' = "done"
  /\ UNCHANGED <<ctx, host, bundle, vm, ws, agent, rec, patch, refused>>

-----------------------------------------------------------------------------
(* The deferred calls: each has a context of its own. *)

Deferred(call, next) == step = call /\ step' = next

SaveLogs ==
  /\ Deferred("logs", "transcript")
  /\ \/ out' = out \cup {"console"} /\ UNCHANGED refused
     \/ refused' = refused \cup {"logs"} /\ UNCHANGED out
  /\ UNCHANGED <<ctx, host, bundle, vm, ws, agent, rec, result, patch>>

SaveTranscript_RunContext ==
  /\ Deferred("transcript", "stop")
  /\ \/ /\ Transcripts /\ vm /\ ctx = "live"
        /\ out' = out \cup {"transcript"} /\ UNCHANGED refused
     \/ ~(Transcripts /\ ctx = "live") /\ UNCHANGED <<out, refused>>
  /\ UNCHANGED <<ctx, host, bundle, vm, ws, agent, rec, result, patch>>

\* captureTranscript, before the sandbox goes.
SaveTranscript ==
  /\ Deferred("transcript", "stop")
  /\ \/ /\ Transcripts /\ vm
        /\ out' = out \cup {"transcript"} /\ UNCHANGED refused
     \/ refused' = refused \cup {"transcript"} /\ UNCHANGED out
     \/ ~Transcripts /\ UNCHANGED <<out, refused>>
  /\ UNCHANGED <<ctx, host, bundle, vm, ws, agent, rec, result, patch>>

\* A stop that fails is ignored: rm --force follows.
StopVM ==
  /\ Deferred("stop", "rm")
  /\ UNCHANGED <<ctx, host, bundle, vm, ws, agent, rec, result, out, patch, refused>>

RemoveVM ==
  /\ Deferred("rm", "record")
  /\ \/ vm' = FALSE /\ UNCHANGED refused
     \/ refused' = refused \cup {"rm"} /\ UNCHANGED vm
  /\ UNCHANGED <<ctx, host, bundle, ws, agent, rec, result, out, patch>>

FinalRecord ==
  /\ Deferred("record", "returned")
  /\ rec' = result
  /\ UNCHANGED <<ctx, host, bundle, vm, ws, agent, result, out, patch, refused>>

RunStep ==
  \/ BeginFails \/ Begin \/ Wire \/ Resolve \/ Create \/ Clone \/ Capture \/ CopyIn
  \/ Setup \/ CallFails \/ Seed \/ Exec \/ ExecKilled \/ ExecReturns \/ Judge \/ Finish
  \/ Collect \/ SaveLogs \/ SaveTranscript \/ StopVM \/ RemoveVM \/ FinalRecord

RunNext ==
  RunStep \/ ExecDies \/ HostEdits \/ AgentEdits \/ AgentExits \/ Deadline \/ Interrupt

RunSpec == RunInit /\ [][RunNext]_runVars

\* Run goes on; neither the agent nor msb's failures are owed anything.
RunFairness == WF_runVars(RunStep)
FairSpec == RunSpec /\ RunFairness

-----------------------------------------------------------------------------
(* Properties. *)

\* The sandbox holds the repository as it was when the run began, its HEAD and
\* its work tree alike, although the operator may go on once `running` shows.
SnapshotIsOfStart ==
  /\ bundle.head \in {0, Unread}
  /\ bundle.tree \in {0, Unread}

\* When Run returns, whatever failed or was cancelled, the sandbox is gone,
\* unless msb rm itself failed.
NothingLeftBehind == step = "returned" => ~vm \/ "rm" \in refused

\* The system log and the transcript have been asked for by the time the
\* sandbox goes, also on a run whose context is dead, and were saved unless msb
\* refused them.
DiagnosticsFirst ==
  [][vm /\ ~vm' => /\ "console" \in out \/ "logs" \in refused
                   /\ Transcripts => "transcript" \in out \/ "transcript" \in refused]_runVars

\* A run recorded `done` is one whose agent ended by itself and whose
\* changes.patch holds all that it did, never one that was killed; krayt cannot
\* tell an msb exec that failed after some output from an agent that exited.
DoneIsWhole ==
  rec = "done" /\ "exec" \notin refused =>
    /\ agent \in {"zero", "nonzero"}
    /\ "patch" \in out /\ patch = ws

\* A deadline or Ctrl-C, at any point, makes Run come to its end.
EndedRunReturns == <>[](ctx # "live" => step = "returned")

\* Violated.  orchestrator.go says that an agent which finished 0 just under
\* the wire stays a success and keeps its collected output.
SuccessStands == rec = "timed_out" => agent # "zero"
=============================================================================
