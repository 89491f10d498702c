# A TLA+ verification of krayt

krayt runs a coding agent, or a human's shell, in a microsandbox (`msb`) sandbox on a
captured copy of a git repository, and brings a patch back. There is no daemon. One
`krayt run` or `krayt shell` process supervises each sandbox; everything else
(`krayt answer`, `stop`, `shell --attach`, `rm`, `attach`, `doctor`, ...) is a process of its
own that meets the supervisor only through files under `.krayt/`, a socket, a signal, and
`msb`. What is hard to test is what happens between these processes, and between the
goroutines of the supervisor. That is what is modelled here.

Paths are relative to `src/internal/` unless they start with `cmd/`.

## 1. The system

| component | state it keeps | operations | what makes it correct |
|---|---|---|---|
| ask_human channel (`askbridge/`, `orchestrator/questions.go`, `runctl.go`) | pending questions with a one-place channel each; question files | Ask, Answer, Serve, the control socket, question timers | one reply per question, given by somebody or the sentinel; bounded; nobody blocks for ever |
| run supervision (`orchestrator/orchestrator.go`) | the run record, its contexts, the abort latch, the counter of outstanding questions | create, copy in, set up, exec, classify, collect, tear down, record | the recorded result is what happened; the sandbox goes; `running` and `waiting` mean what they say |
| shell sessions (`orchestrator/shell.go`) | the record, the attach lock, the kept sandbox | Shell, AttachShell, PatchLiveShell | one terminal at a time; a kept session can be entered and destroyed |
| run records (`orchestrator/state.go`) | `meta.json` per run | writeRecord, ReadRecord, List, FollowLog | a reader sees a whole record; a log follower sees the whole log and ends |
| management commands (`cli/manage.go`, `proc_*.go`) | none | stop, rm, patch, attach, ls | they act on what is there, not on what was read before |
| concurrency limit (`orchestrator/climit*.go`, `manager.go`) | one lock file per slot | AcquireSlot, release | never more runs than the limit; a waiting run is served |
| answering (`cli/answer.go`, `questions.go`) | none | choose a question, deliver, record | the question that is answered is the one meant |
| orphan check and host checks (`cli/doctor*.go`, `sandbox/doctor.go`) | none | read records, look up processes, list sandboxes, report | every orphan is reported, no live sandbox is |
| sandbox driver (`sandbox/msb.go`) | none (msb keeps it) | create, exec, copy, logs, stop, rm, ls | cancellation kills what runs; teardown runs all the same |
| guest helper (`cmd/krayt-helper`) and patch (`patch/`) | the root-only git directory, the workspace | setup, finish, lint | the copy is taken before the workspace is writable |
| network policy (`task/network.go`, `netpolicy_msb.go`) | none | host patterns, rules, flags | a host is allowed exactly when the policy says so |
| task configuration (`task/config.go`, `spec.go`) | none | precedence of flags, `krayt.yaml`, defaults | the documented precedence |
| secrets (`secrets/`) | none | load, redact, scan | no value survives redaction |
| first-run configuration (`configseed/`) | files in the guest | merge | nothing the human has is lost |
| agent adapters (`adapter/`) | none | tables | - |
| self-upgrade (`selfupdate/`, `cli/upgrade.go`) | the binary, its backup | verify, back up, install, roll back | some krayt is always installed |
| images (`cli/image*.go`) | msb's store | ls, rm, prune | no image in use is removed |
| host resources (`cli/resources*.go`) | none | compare free and wanted | no wrap-around |
| ask client (`cmd/krayt-ask`, `askclient/`) | none | one connection, one question | a lost channel reads as "no answer" |
| re-execution, socket directories, reports, notifications, completion | none of their own | - | - |

How they meet: the agent's `krayt-ask` connects to the bridge of its run; the bridge calls
back into `Run` (push, OnResolved); `krayt answer` connects to the run's control socket;
`krayt stop` signals the process named in `meta.json`, or acts on the sandbox by name; an
attach takes the session over through `meta.json` and the attach lock; all runs of one
`.krayt` share the slot files.

The hard behaviours are listed with their lines under `hazards` in `PROJECT.json`.

## 2. The modules

### AskChannel (abstract)

What the channel promises: a question is refused at once or kept open, answers may be
offered while it is open (and, by a caller that had found it before, just after), and it is
closed once, with an answer that was offered or with the sentinel. At most `MaxPending`
questions are open.

### AskBridge

`askbridge.Bridge` together with the closures `orchestrator.Run` wires around it. Threads:
a handler goroutine per ask_human call (`askpc`), a caller of `Bridge.Answer` per operator's
answer and per question timer (`callpc`), and `Run` (`runpc`). A step is what a thread does
between two points at which another can be scheduled: one section under a mutex, one atomic
counter operation, one channel operation. So `Bridge.Answer` is `Lookup` (under `b.mu`) and
`Send` (the non-blocking send after the unlock), and OnResolved is `Resolve` (the counter)
and `FlipRunning` (the record).

| variable | in the code |
|---|---|
| `pending`, `chan` | `Bridge.pending` and the channel of each entry |
| `told` | what `Ask` returned: an answer's kind, or the sentinel |
| `outstanding`, `state` | `outstandingQuestions`, `rec.State` as last written |
| `qfile` | `questions/<id>.json`: absent, asked, answered by a human or a timeout |
| `aborted`, `LatchHeld` | `abortLatch.aborted`; its mutex, held by a handler from `begin` on |
| `streamDone`, `ctx`, `closed` | `cancelStream`, the run's context, `bridgeCancel` with the listeners |
| `exit`, `outcome` | how the exec came back, and what `Run` made of it |
| `freed` | history: the executing agent was released by a timeout |

The time a timer waits is not modelled: an armed timer may go off at any time. A call and its
question have one identity, since a connection carries one exchange and ids are not reused.
What an answer says is reduced to who gave it. Answers arrive at most once per operator; a
retry is another operator.

### Session

The processes around one run directory. `Owner` runs `Shell` (without `Keep`, its record and
teardown are those of `Run`); `Attach`, `Stop` and `Rm` are processes of the commands. A
step is one read or write of `meta.json`, one lock operation, or one `msb` command. `reg` is
the record a process has read or will write; `signalled` are the processes whose context is
cancelled (a signal of `krayt stop`, Ctrl-C, a closed terminal). The attach lock is a lock on
a file in the run directory: a crash drops it, and `krayt rm` deletes the file, so a holder's
lock is lost on everybody else (`lock' = None`).

Assumptions about msb, which is outside the repository: `msb stop` fails for a sandbox that
does not exist, `msb rm --force` removes one that does, `msb ls` lists stopped sandboxes as
well, and an `msb create` whose krayt was killed goes on and may succeed later. `late` records
that this happened. `forced` records a `krayt rm --force` of an unfinished run, `lockGone` that
`krayt rm`, forced or not, deleted the lock file while an attach held it.

Simplifications: `timed_out` is `failed` here (all three commands treat them alike); a record
is written in one step (see the hazard on `meta.json.tmp`); process ids are not reused; on
Windows `krayt stop` kills without a signal, which is `KillSession`; only supervising processes
crash; copy-in and setup are one step.

### SlotPool (abstract)

What the limit promises, with no slot files in it: a run without a limit goes to work at once; any
other asks, and goes to work when there is room for one more under its limit and under every larger
one (`Room`), or gives up; at its end, or when it is killed, its place is free.

### SlotLimit

`AcquireSlot`, one run per element of `Run`, each with the limit its process was given (`0`
is unbounded; the code treats a negative limit the same). `i` is the slot file a scan tries
next, `fd` the file whose lock a run holds. Release and crash both drop the lock, since it
belongs to the descriptor. `Phase` maps a state to the pool's: scans and waits are asking. A kept
session holds no slot: its process has released it.

### RunLifecycle

`orchestrator.Run` from the capture of the repository to its return: one step per `msb` command,
between which the deadline may pass, Ctrl-C may come, and the operator and the agent may edit.
`ctx` is the run's context; a call that consults it succeeds only while it is live (`Advance`),
and any call may fail (`CallFails`). The deferred calls (`SaveLogs`, `SaveTranscript`, `StopVM`,
`RemoveVM`, `FinalRecord`) have contexts of their own and always run. A version number stands for
the contents of the repository (`host`) and of the workspace (`ws`): `bundle` says which version
the two reads of `CreateBundle` saw, `patch` which one the patch is of. `refused` records what msb
itself failed to do, since krayt promises nothing about that. The questions of a run are
AskBridge's; here an abort is one of the ways to fail.

### PatchCollect

`krayt-helper setup` and any number of `finish` + copy-out, by the session's own process
(`Supervisor`) and by `krayt patch` processes (`Visitors`), against an agent that owns `/workspace`
and its `.git`: it edits, moves HEAD anywhere, moves the tag, leaves configuration and hooks.
`patchgit` is the root-only copy that `Diff` works with. `BundleCommits` takes the baseline from that
copy, but resolves HEAD and makes the bundle as root on `/workspace/.git` itself (`Bundle`), with
the agent's configuration in force except for the knobs that the command line clears; it may also
fail on it (`BundleFails`). So each artifact carries, besides its baseline, whose configuration was
in force for the git that made it (`under`). Two comments of the source disagree about this:
`patch/patch.go:301` says that Diff and BundleCommits run git against the root-only directory,
"never trusting the writable workspace `.git`"; lines 355-359 say that HEAD and the objects come
from there. The model follows the code and the second.

`output` and `runDir` are `/output` in the guest and the run directory. All finishers share one git
index (`index`), as in the code; a collection that overlapped another is in `mixed`. A finish after
HEAD went back to the baseline leaves an older `commits.bundle` where it was, although
`patch/patch.go:351` says that nothing is reported then: the host takes the file's existence for
its report.

### Upgrade

The files around the installed binary: its own name, `.bak`, `.bak.tmp`, `.running`, and the
temporary files of the upgrade at work. Any step may fail, and the process may be killed between
any two (a power cut, which could also lose what was written and not yet synced, is not modelled:
the code never syncs); the next upgrade starts from what is left, up to `MaxUpgrades` times. On Windows the
running binary is moved aside first. Two upgrades at the same time are not modelled: they would
share `.bak.tmp`.

### Housekeeping

`krayt image prune` and `krayt doctor`'s orphan check, each of which reads records, processes and
msb's lists one after the other while the runs of the repository go on. `was` keeps what there
was when the command began; the properties are about that.

### FollowLog

`krayt attach` reading `agent.log` and the record, which the run's process writes. The run may end
before it has a log, and may write any amount between the follower's last end of file and the record.

### RunStart

`krayt run` up to `Manager.Run`, and its detached child: the same command line again, an
inherited environment, and files that may have changed in between. A command line or a file is a
record of the fields that decide anything; `here` says that the repository is ".", the default of
`--repo`. It matters for `task: -` in a `krayt.yaml` that was only found: `containedRepoPath` joins it
with the repository, and with "." the result is "-" again, which `readTaskPrompt` takes for standard
input; in another directory it is a file of that name. `token` stands for the second of the two credentials an
adapter takes. `plan` is what the run is started with.

### HostPolicy, PatchLint, BundleShape, HostResources, Artifacts

Calculations: host entries, their relations, the checks of a policy and the rules msb is given,
with msb's matching as the reference; the lint of a patch; which commits a bundle has and whether
a guest can clone it; sizes as written and the margin in unsigned arithmetic; redaction, the cut of a
transcript and the scan of a patch for secrets. A host is a sequence
of labels; a line of a patch is what the lint looks at in it. A text is a sequence of characters, in
which a marker counts as one that is in no secret: a value that is a part of the word `[REDACTED]`
is not modelled. The values are kept longest first; those of one length come out of a Go map, in any
order, and `NewRedactor` is the set of the orders there may be. A size's number is an integer over
`Scale`: `wholeUnits` (`task/config.go:181`) computes in float64, and the rounding is left out.
`--skip-resource-check`, which skips the calculation (`cli/run.go:377`), is left out too.

Each extends Calculation, whose one variable `input` holds what is calculated from, chosen at
the start out of *every* input there is (`EntriesInput`, `PolicyInput`, `PatchInput`, ...: sequences
of any length, any natural number). Its property is an invariant of the specification
`Given(inputs)`, which has no step. So the theorems are about all inputs and TLC is given a few.

### ConfigSeed

The merge of first-run configuration, and the replacement of the file in the guest. Objects and
arrays nest, and the code recurses into them. Here `Values[n]` are the JSON values nested no deeper
than n, an object being a function from field names to values or `Missing`, and each recursive
function of the code is one indexed by that level (`Merging[n]`, `Decoding[n]`), as are the two
relations the property is about (`Kept[n]`, `Filled[n]`). The constant `Depth` ends the levels; it
is any number but 0, and the theorem is for all of them. A file that is empty or only white space is
`blank`: like a missing one it reads as an object without fields, and is replaced. Seeding happens
once, when the sandbox is set up; an attach does not seed.

### Host and MCHost

Host composes all but AskBridge and the two abstract modules: it extends the machines (sessions and
slots included) and the calculations, whose names are therefore distinct (`SessionInit`,
`CollectNext`, `SlotSpec`, ...). `machine` says which of them a behaviour is about, and only that one
moves; a calculation has its input as initial state and no step. The machines share no state, so one
run checks each of them as a run of its own would. MCHost gives the constants their values. Where a
part is also checked by itself, its inputs are in a module of its own that MCHost extends
(MCBundleShape, MCConfigSeed, MCRunStart). A state in which the chosen command has ended, or a
calculation was made, has no successor: hence `CHECK_DEADLOCK FALSE` in `Host.cfg`, where also an
agent, an operator or a run need never act.

## 3. The runs

| run | instance | shows |
|---|---|---|
| `ask` | 2 questions for 1 place, 1 operator, timers under `abort`, a deadline, Ctrl-C | `ChannelSpec`: the bridge implements AskChannel; `AbortNeverDone`, `PendingBounded`, `QuestionsResolve`, `AbortEndsRun`, `TypeOK` |
| `ask_abort_answered` | 1 question, 1 operator, a timer | violated: a delivered answer is followed by an abort |
| `ask_waiting` | 2 questions, 1 operator | violated: `running` while a question is outstanding |
| `session_kept` | 1 attach, 1 stop, no crash | violated: `kept` without a sandbox |
| `session_result` | 1 stop, no `--keep`, no crash | violated: `done` becomes `failed` |
| `host` | Session: 2 attaches, 1 stop, 1 rm, `--keep`, 1 kill -9 | `OneInside`, `SandboxReachable`, `NoneStranded`, `SignalTearsDown` |
| | SlotLimit: limits 0, 1, 2, 2, 2 | `PoolSpec`: the slot files implement SlotPool; `Capped`, `Served` |
| | RunLifecycle: 2 edits on either side, a transcript, a deadline | `SnapshotIsOfStart`, `NothingLeftBehind`, `DiagnosticsFirst`, `DoneIsWhole`, `EndedRunReturns` |
| | PatchCollect: the owner and one `krayt patch`, 1 edit | `GitNotTrusted`, `PatchIsCurrent` |
| | Upgrade: 3 upgrades, either system | `KraytIsThere`, `BackupIsWhole` |
| | Housekeeping: 2 runs of 1 image | `RetentionHolds`, `OrphansNamed` |
| | FollowLog: a log of 5, reads of 2 | `WholeLogShown`, `AttachEnds` |
| | RunStart: 25 or so files, the flags that decide anything, a stray variable or none | `OperatorDecides`, `PromptIsTheOperators`, `OneCredential` |
| | the calculations, over the inputs in MCHost; `TypeOK` of all | `RelationsExact`, `PolicyHolds`, `RedactionHolds`, `RestStays`, `LintHolds`, `SeedHolds`, `BundleClones`, `ResourcesHold` |
| `under_the_wire` | RunLifecycle | violated: exit 0 recorded as `timed_out` |
| `patch_git` | PatchCollect | violated: no `changes.patch` because the bundle failed |
| `attach` | FollowLog | violated: an attach that waits for ever, or leaves before the log is drained |
| `seed` | ConfigSeed, fields of 2 and 3 levels | violated: an integer of more than 53 bits is overwritten |
| `bundle` | BundleShape, up to 3 commits | violated: no bundle, or one that cannot be cloned |
| `prompt` | RunStart | violated: a stray `KRAYT_TASK_FILE` beats `--task` |

The bounds. Every race of AskBridge is between two callers and one question, or between the
last answer and one new question, so two questions and one operator (with the two timers that
makes up to three callers of `Answer`) reach them; a bound of one place for two calls exercises
refusal, and in `ask_waiting` a bound of two the counter. In Session a claim needs two rivals, each theft of a
record one stop, and one crash can hit any stage of any supervising process. In SlotLimit three
runs contend for two slots while one that wants to be alone contends for the first of them, and
a run without limit passes by. In `host` two edits separate the two reads of a bundle
and a patch from what came after it; two finishers make one that overlaps another and one that
follows it; three upgrades make one after a kill after a success; a log of two and a half reads
has an end that the grace read reaches and one that it does not. Two runs of one image make one
that has ended and one that has not. Labels, texts, patches and sizes are as short as lets the
relations differ: three labels for a wildcard over a wildcard, seven characters for a text that is
cut on both sides, four lines for a mode that belongs to an earlier file, four bits for a
subtraction that wraps, three levels of a configuration for an array in an object in an object.

`CHECK_DEADLOCK` is on in the runs of AskBridge and in the two runs of Session alone: `Ended` and
`Quiet` are the states in which nothing is left to do.

Every property of a passing run has a mutant, a faulty variant of an action kept beside it
(`LatchHeld_Late`, `TakeLock_Unlocked`, ...), that the run detects.

### Fairness

`AskBridge`: goroutines that can run do, an armed timer goes off, a killed exec returns, `Run` goes
on to its end. Nothing makes an agent ask or exit, an operator answer, the deadline pass, or anybody
cancel. It is one weak fairness condition for all of these steps together (`Progress`): as long as
one of the threads can go on, one does. That asks for less than the fairness of every thread, and is
enough because no thread runs for ever: each takes finitely many steps, so if some can always go on,
all of them come to their ends. `Session`: the session's own process and its msb
commands go on, and the shell of a cancelled krayt ends (`exec.CommandContext` kills it). No
human has to leave, no second command has to come. `SlotLimit`: scans and polls go on, a run
that is at work ends. `RunLifecycle`: `Run` goes from call to call, and an exec whose context is
dead is killed (`exec.CommandContext`); an agent need not end. `FollowLog`: the follower polls; its
run need not end. `Upgrade`, `PatchCollect`, `Housekeeping` and `RunStart` have safety properties
only. Two runs of the same process are scheduled by the Go runtime, processes
by the operating system: weak fairness is what both give. No strong fairness is used; among
the slots none is needed because each run asks once, so a polling run is overtaken only finitely
often. With an endless supply of new runs a polling waiter can starve, which the code does not
rule out.

The liveness properties speak of what cannot be undone, a run that has ended or a question that has
been resolved. `AbortEndsRun`, `QuestionsResolve`, `Served`, `EndedRunReturns` and `AttachEnds` are
therefore written `<>[](...)`: whatever was left to do is done in the end, and stays so. For conditions
that are never withdrawn this says the same as `P ~> Q`, and TLC decides it much faster.
`SignalTearsDown` and `FollowedToTheEnd` are `~>`.

## 4. What the violations say

They are behaviours of the code that contradict a sentence of the repository; `findings` in
`PROJECT.json` quotes it.

* `NoAbortAfterAnswer`. The timer looks the channel up; the human's answer goes in; `Ask` takes
  it out, so the one-place channel is empty again; the timer's send succeeds. The question is
  recorded as timed out, and under `abort` the run fails although its agent was answered.
* `WaitingWhileOutstanding`. The counter reaches zero; a new question is counted and recorded
  as `waiting`; only then does the first answer write `running`.
* `KeptHasSandbox`. `krayt stop` of a kept session ignores the attach lock. The attach it
  deprives of its sandbox hands the session back as `kept` after stop has written `done`.
* `ResultStands`. `krayt stop` reads `running`, the run finishes and exits, stop finds the
  process gone and writes its old copy of the record back as `failed`.

* `SuccessStands`. The agent exits 0; the deadline passes while `finish` or the copy out is at
  work; they run in the same context, fail, and the run is recorded as `timed_out` without its
  patch.
* `PatchSurvivesGit`. The agent resets HEAD behind the baseline, or leaves none; `changes.patch`
  is written, `BundleCommits` fails, and `krayt-helper finish` with it, so nothing is copied out.

* `FollowedToTheEnd`. A run ends before it has a log: `waitOpen` never looks at the record, and the
  attach waits until it is interrupted. Or the agent writes more than one read's worth after the
  follower's last end of file: the one grace read takes 32 KiB of it, and the rest is not shown.
* `NothingOverwritten`. The file has an integer of more than 53 bits in a field that no default
  touches. Another default is missing, so the file is written back, with the number as a float64 has
  it.
* `SelfContained`. A HEAD that no branch ends at has a synthetic commit, which goes to
  `refs/heads/HEAD`, and `bundle create` refuses the ambiguous name. The full history of a shallow
  repository makes a bundle that passes `bundle verify` in the clone, and that the guest cannot
  clone. Both were tried with git.
* `PromptNotHijacked`. `krayt run --detach --task FILE` in a shell that has `KRAYT_TASK_FILE` set. The
  prompt is not spooled, since it does not come from standard input, so the child's environment has
  the stray variable, and as a child it believes it.

One disagreement is described here and not kept as a run. The comment on `Terminal`
(`orchestrator/state.go:132`) says that a terminal state "reports whether the run has finished". A
handler of the bridge that was accepted before the channel closed is not joined by `Run`, and in
AskBridge `FlipWaiting` and `FlipRunning` may follow `FinalRecord` while the process lives: the
record of a finished run then says `waiting` or `running` again.

A property of a passing run that would be false because of one of these violations says what holds
beside it: `BundleClones` speaks of every other request, `SeedHolds` of what was read from the file,
`WholeLogShown` and `AttachEnds` of a run with a log and of one read's worth at its end,
`PromptIsTheOperators` of every other start. Three more leave out a case about which the repository
promises nothing: fragments of values that overlap (`RestStays`), or that a cut inside a long line
halves (`RedactionHolds`), and collections that overlap (`PatchIsCurrent`).

`rm --force` of an unfinished run is the operator's decision to lose track of it. It may leave
a sandbox without a record, and, since the lock file goes with the directory, lets two
attaches in when the owner writes `kept` into a new directory. Without `--force` the lock is
lost as well if a `krayt stop` has written `done` under an attach that is still inside
(`KeptHasSandbox` describes how). `OneInside` excepts what follows the deletion of a held lock
(`lockGone`), `SandboxReachable` a forced removal. `SandboxReachable` also excepts a create
that outlives its krayt: nothing reaps that sandbox, and `krayt doctor` reports it.

## 5. What is proved

TLAPS proves the following for every value of the constants that satisfies the modules'
assumptions (`AskBridgeAssumption`: finitely many calls, calls and operators distinct, a
positive bound; `SessionAssumption`: the processes of different commands are different ones;
`SlotAssumption`: limits are natural numbers).

`AskBridge_proofs`:
* `TypeCorrect`, `Invariance`: `TypeOK` and the inductive invariant `IInv`.
* `AbortSafety`: `AbortNeverDone`. The property is not inductive: that an agent was released by
  a timeout says nothing about the result by itself. `IInv` adds the chain that makes it so: a
  question answered by its timer has its handler past the send; a handler past the send and not
  at its end holds the latch; one at its end has set `aborted` under the abort policy; and a
  result other than `failed` or undecided was classified with no handler in flight and
  `aborted` false. `LatchHeld_Late`, a latch that is taken later, breaks the second link.
* `Bounded`: `PendingBounded`, from the fact that registered questions are exactly those of
  handlers between registration and the deferred delete.
* `Refinement`: `Spec => Channel!Spec` under the mapping `Phase`, `Offered`, `Reply`. Only six
  kinds of step are visible in AskChannel; all others are stutters.

`Session_proofs`, for any number of attaches, stops, removals and crashes, with and without
`--keep`:
* `SessionTypeCorrect`, `SessionInvariance`: `SessionTypeOK` and the inductive invariant `IInv`. None of the three
  properties below is inductive. One lemma per part of `IInv` lists the steps that touch the
  part, and the steps that do not in a last case.
* `TerminalExclusive`: `OneInside`. Two attaches inside would both hold the lock (`LockHeld`). The
  owner never takes it: that owner and attach exclude each other rests on `OwnerFirst`, by which
  no session is kept before its owner's last step.
* `RecordsHaveAProcess`: `NoneStranded`, from `Named`: the process a live record names still has a
  record to write.
* `SandboxFound`: `SandboxReachable`, from `EndIsGone`: whoever records an end, or removes a
  record without `--force`, knows that the owner has ended and the sandbox is gone. For
  `krayt stop` that is something it read a while ago; `StopSees` says why it still holds.

`SlotLimit_proofs`:
* `SlotTypeCorrect`: in particular no scan runs past its limit.
* `CapHolds`: `Capped`. The code counts nothing, so the invariant has nothing to count either:
  it says that slots are exclusive and that every run at work under a limit has one. The cap
  then follows from the injection of the runs at work into their slot numbers.
* `PoolRefined`: `SlotSpec => Pool!Spec` under `Phase`. The code looks at one file at a time, and when it
  locks one, files it has passed may be free or taken again. That there is room nevertheless is read
  off the state after the step (`RoomToEnter`): the run is at work there, and the cap still holds.

The machines and calculations of Host have their assumptions as definitions
(`LifecycleAssumption`, `HostPolicyAssumption`, ...), which each theorem assumes. `HostAssumption`
is all of them, and MCHost asserts it of its constants, so that TLC evaluates them.

`Run_proofs`, of RunLifecycle, for any number of edits, with and without a deadline or a
transcript; the inductive invariant is `LifecycleInv`:
* `RunTypeCorrect`: `RunTypeOK`.
* `SnapshotIsTaken`: `SnapshotIsOfStart`, from `SnapshotInv`: nobody edits before the record says
  `running`, and no step up to setup writes that.
* `SandboxIsRemoved`: `NothingLeftBehind`, from `SandboxInv`: every way out of `create` and of what
  follows it passes the deferred `rm`.
* `DoneIsTrue`: `DoneIsWhole`. `AgentInv` is the step that makes it so: an agent whose exec was
  killed has a dead context, and with that neither `finish` nor `collect` succeeds; `PatchInv`
  then keeps the patch equal to the workspace, which nobody edits any more.
* `DiagnosticsAreFirst`: `DiagnosticsFirst`, an action property, from `DiagnosticsInv`.

of PatchCollect, for any set of `krayt patch` processes; `CollectInv`, and `CurrentInv` above it:
* `GitStaysUntrusted`: `GitNotTrusted`, from the order of setup (`SetupInv`) and from what every
  artifact on its way is made with (`BaseInv`, by `Sound`): a patch under the root-only copy's
  configuration, patch and bundle against its baseline. That root runs git on the agent's `.git` for
  the bundle is part of the model, and what the theorem bounds is how far that reaches.
* `PatchOfOwnWork`: `PatchIsCurrent`, an action property. All collections share one git index and
  one `/output`, so what a collection finds there may be another's. `AloneInv`: two collections
  that are under way are both `mixed`. Hence whatever one that is not mixed finds there was put
  there by itself since it began (`SinceInv`, `OwnInv`).

`Commands_proofs`, of Upgrade, for any number of upgrades on either system (`UpgradeInv`):
* `UpgradeTypeCorrect`, `KraytStays`, `BackupStaysWhole`: `UpgradeTypeOK`, `KraytIsThere`,
  `BackupIsWhole`.
  `NameInv` says what the two renames leave at each step, `FetchedInv` that only what was verified
  is installed, `BackupInv` that the backup is whole before it takes its name.

of Housekeeping, for any runs and images (`KeepInv`):
* `OrphansAreNamed`: `OrphansNamed`; `RetentionIsKept`: `RetentionHolds`, an action property. Both
  rest on `WasInv`: a record does not go, and a process that is gone does not come back, so what a
  command has read of an ended run stays true while it goes on.

of FollowLog, for any length of the log and any size of a read (`FollowInv`):
* `LogIsShown`: `WholeLogShown`, from the order of the end of the file, the record and the last
  read (`EofInv`, `EndInv`).

`Launch_proofs`, of RunStart, for any command lines and any contents of `krayt.yaml`
(`LaunchInv`, `PlanInv`):
* `LaunchTypeCorrect`: `LaunchTypeOK`, with at most one run started.
* `OperatorHasDecided`, `PromptIsKept`, `CredentialIsOne`: `OperatorDecides`, `PromptIsTheOperators`,
  `OneCredential`, the second of every start but a detached child without a spool beside a stray
  file. Files change after the run has started, but the plan does not: each property is
  shown of the plan at the step that makes it, from what is known of spool and stage (`StageInv`).

of BundleShape, for repositories of any size and any depth, and of HostResources, for any word
size, unit and margins:
* `BundlesAreCloned`: `BundleClones`, of every request but the two that `SelfContained` is refuted by.
  `HistoryClosed`: what a full clone has is closed under parents
  exactly when the repository is not shallow.
* `ResourcesSuffice`: `ResourcesHold`. `NoWrap` is the guarded subtraction; `WholeUnitsOf` says that
  a remainder of zero and a quotient in range are the same as one word that, multiplied back, is
  the size asked for.

of HostPolicy, for any hosts, entries and policies as `HostPolicyAssumption` has them (entries over
labels, each with its own hosts; finitely many in an allowlist):
* `RelationsAreExact`: `RelationsExact`. Both directions: `CoversIncludes` and `InclusionCovers`,
  `CommonHostOverlaps` and `OverlapHasHost`; that two wildcards overlap only if one suffix is a
  suffix of the other is `SuffixOrder`.
* `AcceptedPolicyHolds`: `PolicyHolds`. `RulesOfPolicy` says which rules there are and in which order,
  `FirstRule` that the first one that names a host decides; `ScopeIsServed` that an accepted scope
  is never bypassed.

`Artifacts_proofs`, of PatchLint, for every patch:
* `LintIsExact`: `LintHolds`. `ScanInv` relates the state of the scan after n lines to what the first
  n lines say (the file that the last readable diff line opened; exactly the findings due so far,
  none twice); `ScanStep` takes one line, and `SetInduction` all of them. The induction is over the
  number of lines, and its hypothesis is a set of numbers, not a predicate: the prover cannot
  instantiate a theorem about a predicate, but the least number outside a set it can reason about.

of Artifacts, for every finite set of secrets, every text and every size of the cut:
* `SecretsAreGone`: `RedactionHolds`. Taking one value out leaves none of it (`ReplaceValueLeaves`):
  a word in what is written holds no marker, so it is a word of the text, at a place where no
  occurrence began (`EndIsRead`, `WordsOfText`). Hence no value brings another one back, and after
  the last none is there. For the cut: a text that ends with a line break is closed, since no value
  goes beyond its end, and what follows a closed text makes no difference to what becomes of it
  (`SkipInside`, `RedactSplits`); so the redaction of a long text that is cut at lines is that of its
  three parts, each redacted by itself.
* `NothingElseIsLost`: `RestStays`. The passes move the characters, so the text between two passes is
  described cell by cell (`StandsFor`): each cell stands for an interval of the original, the
  intervals follow each other without a gap, an ordinary cell for the one character it shows, and a
  marker for one whole occurrence of a value removed so far. A pass keeps that (`StandsForStep`): it
  replaces runs of ordinary cells, which are occurrences in the original too (`OccurrenceInText`);
  the marker itself is in no value (`MarkerStays`); and an occurrence of the next value lies inside
  one that is gone or is still there whole (`OccurrenceIsLeft`, `OccurrenceGoes`), because values are
  taken longest first and none overlaps another's end. After the last pass the markers stand for the
  outermost occurrences and the other cells for what no value covers, so the place of each is its
  rank (`RankOfRising`).

of ConfigSeed, for any fields, scalars and depth:
* `SeedsFillIn`: `SeedHolds`. The functions and relations are defined level by level; that such a
  function exists at all, with values of its own level, is `TypedIterates`, from which the unfolding
  of each follows (`MergingUnfolds`, `DecodingUnfolds`, `KeptUnfolds`, `FilledUnfolds`). Each lemma
  about them is then an induction over the levels (`LevelInduction`), by the case of two objects, of
  two arrays and of anything else: a merge keeps what was there (`MergeKeeps`) and has every default
  (`MergeFills`); what has every default already is not changed by merging them (`FilledStays`), so
  such a file stays as it is; what was decoded once is decoded to itself (`DecodeTwice`), and
  so is what is merged of such values (`MergeDecoded`), so writing the file and reading it back loses
  nothing. For arrays the induction is over the defaults (`ArrayUnion`). `SeedOfInput` goes through
  the states of the file and the failures.

`Host_proofs`, of the composition:
* `HostImplementsParts`: `Spec` implies the specification of every part. Everything above then holds
  beside the other machines, and is put together in
* `HostTypeCorrect`, `HostIsSafe`, `HostStepsAreSafe`: the type invariant, the safety
  invariants, the three action properties and the refinement of the slots that the run `host` checks,
  for any inputs.

Proof attempts corrected the model in a few places. The redactor had been one order of the values,
that of a sort, where the code has any that is longest first. The others are of wording and not of
behaviour: arms of a `CASE` that overlapped (the judgement of an exec, where the prompt comes from,
msb's matching), where TLC takes the first and TLA+ leaves the choice open, and a conjunction in
`OperatorDecides` that its layout had put under the wrong hypothesis.

Only model-checked are the liveness properties (`QuestionsResolve`, `AbortEndsRun`, `Served`,
`SignalTearsDown`, `EndedRunReturns`, `AttachEnds`): fairness and ENABLED are out of the prover's
reach. Every invariant and every action property of a passing run is proved.

## 6. Not modelled, and why

* **The shared name `meta.json.tmp`** (`orchestrator/state.go:176`): a record is written in one
  step. Splitting the write would multiply Session's states by the half-written files of each
  process.
* **Which question an unnamed `krayt answer` takes**, and the summary of questions in the final
  record: one sort by file stamps, and one read.
* **The final `msb image prune`**, `msb` and `git` in general: outside the repository. What krayt
  relies on is an action of the module that uses it.
* **Two upgrades at a time**, and a process id that is used again.
* **Power cuts**: a crash is the end of a process, after which every write it made is there.
* **Processes an agent leaves behind**: in RunLifecycle nobody writes in the workspace once the
  agent's exec is over. In PatchCollect edits go on through every collection.
* **Parsing**: `krayt.yaml`, secrets files, `msb`'s output, checksums and archives. What the parsed
  value decides is modelled; how it is spelled is not. A name in the network policy that is an
  address is accepted or refused as such; msb's resolution of names is not modelled.
* **Applying a patch on the host** (`cli/apply.go`): one git command on the operator's own tree.
* **Host checks** of `krayt doctor` besides the orphan check, **re-execution**, **socket
  directories**, **adapters' tables**, **reports**, **notifications**, **completion**: they keep no
  state, and format or probe.

Still to be done, in this order:

1. The run directory as a register with an owner, an abstract specification that Session would
   implement; with it the writing of a record in two steps.
2. A composition of RunLifecycle and AskBridge: questions during the exec, one deadline for both.
3. The lifecycle of a shell session step by step, as RunLifecycle has it for a run.
