------------------------------ MODULE AskBridge ------------------------------
(***************************************************************************)
(* The ask_human channel of one run: askbridge.Bridge, and the closures     *)
(* orchestrator.Run wires around it (push, OnResolved, answerFunc, the      *)
(* per-question timeout, the abort latch, the final record).                *)
(*                                                                          *)
(* Threads: one handler goroutine per ask_human call (`askpc`), one caller  *)
(* of Bridge.Answer per operator answer and per question timer (`callpc`),  *)
(* and the goroutine of Run itself (`runpc`).  A step is what one thread    *)
(* does between two points where another can be scheduled: a section under  *)
(* Bridge.mu or recMu, one atomic counter operation, one channel operation. *)
(* An ask_human call and the question it asks share one identity, since a   *)
(* connection carries one exchange (askbridge.go, Serve) and the ids the    *)
(* Bridge hands out (seq) are never reused.                                 *)
(***************************************************************************)
EXTENDS Integers, FiniteSets

CONSTANTS
  Ask,             \* the ask_human calls the sandbox may make
  Human,           \* the answers operators may send (`krayt answer`, Manager.Answer)
  MaxPending,      \* askbridge.maxPendingQuestions
  QuestionTimeout, \* whether spec.Questions.Timeout > 0
  AbortPolicy,     \* whether spec.Questions.OnTimeout is `abort`
  WallClock        \* whether spec.Resources.Timeout > 0

ASSUME AskBridgeAssumption ==
  /\ IsFiniteSet(Ask)
  /\ Ask \cap Human = {}
  /\ MaxPending \in Nat \ {0}
  /\ QuestionTimeout \in BOOLEAN
  /\ AbortPolicy \in BOOLEAN
  /\ WallClock \in BOOLEAN

VARIABLES
  askpc,       \* where each handleConn/Ask goroutine is
  pending,     \* Bridge.pending: the registered questions
  chan,        \* the one-place channel of each question
  told,        \* what Ask got for its caller
  callpc,      \* where each caller of Bridge.Answer is
  target,      \* the question each operator answers
  outstanding, \* Run's outstandingQuestions counter
  state,       \* rec.State, as last written to meta.json
  qfile,       \* questions/<id>.json of each question
  aborted,     \* abortLatch.aborted
  streamDone,  \* cancelStream was called
  ctx,         \* the run's context
  closed,      \* bridgeCancel was called and the listeners were closed
  runpc,       \* where Run is
  exit,        \* how the agent's exec came back, while Run classifies it
  outcome,     \* the result Run has decided on
  freed        \* history: the executing agent was released by a timeout

askvars  == <<askpc, pending, chan, told>>
callvars == <<callpc, target>>
recvars  == <<outstanding, state, qfile>>
runvars  == <<aborted, streamDone, ctx, closed, runpc, exit, outcome, freed>>
vars     == <<askvars, callvars, recvars, runvars>>

None == "none"

\* A question's timer calls Bridge.Answer as well; the caller is the question itself.
Caller    == Human \cup Ask
Source(c) == IF c \in Ask THEN "timeout" ELSE "human"

Terminal == {"done", "failed", "timed_out"}

AskStages == {"idle", "accepted", "record", "count", "flip", "arm", "blocked",
              "leaving", "returned"}

\* The stages of a caller whose Bridge.Answer returned true, in order, and the
\* stages in which a timer's handler is in flight.
Delivered == {"resolve", "flip", "record", "decide", "reported", "over"}
InHandler == {"lookup", "send", "resolve", "flip", "record", "decide"}
CallStages == {"idle", "armed", "refused"} \cup InHandler \cup Delivered

Alive == runpc # "exited"

\* bridgeCtx: cancelled with the run's context, or by bridgeCancel.
BridgeDone == closed \/ ctx # "live"
\* streamCtx: cancelled with the run's context, or by cancelStream.
AgentKilled == streamDone \/ ctx # "live"

\* Faulty variants of LatchHeld: the latch taken only once the answer was sent
\* and recorded; and not given back when the question was answered already.
LatchHeld_Late   == \E a \in Ask : callpc[a] = "decide"
LatchHeld_Leaked == \E a \in Ask : callpc[a] \in InHandler \cup {"refused"}

\* abortLatch.mu: held by a timer's handler from begin to its return.
LatchHeld == \E a \in Ask : callpc[a] \in InHandler

TypeOK ==
  /\ askpc \in [Ask -> AskStages]
  /\ pending \in SUBSET Ask
  /\ chan \in [Ask -> {None, "human", "timeout"}]
  /\ told \in [Ask -> {"nothing", None, "human", "timeout"}]
  /\ callpc \in [Caller -> CallStages]
  /\ target \in [Caller -> Ask \cup {None}]
  /\ outstanding \in Int
  /\ state \in {"starting", "running", "waiting"} \cup Terminal
  /\ qfile \in [Ask -> {None, "asked", "human", "timeout"}]
  /\ aborted \in BOOLEAN
  /\ streamDone \in BOOLEAN
  /\ ctx \in {"live", "deadline", "cancelled"}
  /\ closed \in BOOLEAN
  /\ runpc \in {"setup", "agent", "classify", "collect", "closing", "final",
                "returned", "exited"}
  /\ exit \in {None, "zero", "nonzero", "error"}
  /\ outcome \in {None} \cup Terminal
  /\ freed \in BOOLEAN

Init ==
  /\ askpc = [a \in Ask |-> "idle"]
  /\ pending = {}
  /\ chan = [a \in Ask |-> None]
  /\ told = [a \in Ask |-> "nothing"]
  /\ callpc = [c \in Caller |-> "idle"]
  /\ target = [c \in Caller |-> IF c \in Ask THEN c ELSE None]
  /\ outstanding = 0
  /\ state = "starting"
  /\ qfile = [a \in Ask |-> None]
  /\ aborted = FALSE
  /\ streamDone = FALSE
  /\ ctx = "live"
  /\ closed = FALSE
  /\ runpc = "setup"
  /\ exit = None
  /\ outcome = None
  /\ freed = FALSE

-----------------------------------------------------------------------------
(* An ask_human call: handleConn, Bridge.Ask, and the push closure of Run.  *)

AskGoto(a, stage) == askpc' = [askpc EXCEPT ![a] = stage]

\* Serve accepts a connection of the sandbox: the agent, or a process it left
\* behind, while the sandbox exists.
Accept(a) ==
  /\ askpc[a] = "idle"
  /\ runpc \in {"agent", "classify", "collect", "closing"}
  /\ ~BridgeDone
  /\ AskGoto(a, "accepted")
  /\ UNCHANGED <<pending, chan, told, callvars, recvars, runvars>>

\* Ask at the bound: the no-answer sentinel at once.
Refuse(a) ==
  /\ Alive
  /\ askpc[a] = "accepted"
  /\ Cardinality(pending) >= MaxPending
  /\ told' = [told EXCEPT ![a] = None]
  /\ AskGoto(a, "returned")
  /\ UNCHANGED <<pending, chan, callvars, recvars, runvars>>

\* Faulty variant of Register: off by one at the bound.
Register_OffByOne(a) ==
  /\ Alive
  /\ askpc[a] = "accepted"
  /\ Cardinality(pending) <= MaxPending
  /\ pending' = pending \cup {a}
  /\ AskGoto(a, "record")
  /\ UNCHANGED <<chan, told, callvars, recvars, runvars>>

\* Ask below the bound: the question is registered under Bridge.mu.
Register(a) ==
  /\ Alive
  /\ askpc[a] = "accepted"
  /\ Cardinality(pending) < MaxPending
  /\ pending' = pending \cup {a}
  /\ AskGoto(a, "record")
  /\ UNCHANGED <<chan, told, callvars, recvars, runvars>>

\* push: writeQuestionRecord; an error makes Ask give up without an answer.
WriteQuestion(a) ==
  /\ Alive
  /\ askpc[a] = "record"
  /\ \/ /\ qfile' = [qfile EXCEPT ![a] = "asked"]
        /\ AskGoto(a, "count")
        /\ UNCHANGED told
     \/ /\ told' = [told EXCEPT ![a] = None]
        /\ AskGoto(a, "leaving")
        /\ UNCHANGED qfile
  /\ UNCHANGED <<pending, chan, callvars, outstanding, state, runvars>>

\* push: outstandingQuestions.Add(1).
CountQuestion(a) ==
  /\ Alive
  /\ askpc[a] = "count"
  /\ outstanding' = outstanding + 1
  /\ AskGoto(a, "flip")
  /\ UNCHANGED <<pending, chan, told, callvars, state, qfile, runvars>>

\* push: setState(StateWaiting), under recMu.
FlipWaiting(a) ==
  /\ Alive
  /\ askpc[a] = "flip"
  /\ state' = "waiting"
  /\ AskGoto(a, "arm")
  /\ UNCHANGED <<pending, chan, told, callvars, outstanding, qfile, runvars>>

\* Faulty variant of ArmTimer: the abort policy gets no timer.
ArmTimer_ContinueOnly(a) ==
  /\ Alive
  /\ askpc[a] = "arm"
  /\ callpc' = IF QuestionTimeout /\ ~AbortPolicy THEN [callpc EXCEPT ![a] = "armed"]
               ELSE callpc
  /\ AskGoto(a, "blocked")
  /\ UNCHANGED <<pending, chan, told, target, recvars, runvars>>

\* push: armQuestionTimeout when there is a timeout; Ask then blocks in its select.
ArmTimer(a) ==
  /\ Alive
  /\ askpc[a] = "arm"
  /\ callpc' = IF QuestionTimeout THEN [callpc EXCEPT ![a] = "armed"] ELSE callpc
  /\ AskGoto(a, "blocked")
  /\ UNCHANGED <<pending, chan, told, target, recvars, runvars>>

\* Ask's select takes the answer out of the channel.
Receive(a) ==
  /\ Alive
  /\ askpc[a] = "blocked"
  /\ chan[a] # None
  /\ told' = [told EXCEPT ![a] = chan[a]]
  /\ chan' = [chan EXCEPT ![a] = None]
  /\ AskGoto(a, "leaving")
  /\ UNCHANGED <<pending, callvars, recvars, runvars>>

\* Faulty variant of GiveUp: the zero answer passed on as if someone had given it.
GiveUp_AsAnswer(a) ==
  /\ Alive
  /\ askpc[a] = "blocked"
  /\ BridgeDone
  /\ told' = [told EXCEPT ![a] = "human"]
  /\ AskGoto(a, "leaving")
  /\ UNCHANGED <<pending, chan, callvars, recvars, runvars>>

\* Ask's select sees bridgeCtx done; it may, even when an answer is there as well.
GiveUp(a) ==
  /\ Alive
  /\ askpc[a] = "blocked"
  /\ BridgeDone
  /\ told' = [told EXCEPT ![a] = None]
  /\ AskGoto(a, "leaving")
  /\ UNCHANGED <<pending, chan, callvars, recvars, runvars>>

\* Ask's deferred delete; handleConn then writes the reply to the sandbox.
Leave(a) ==
  /\ Alive
  /\ askpc[a] = "leaving"
  /\ pending' = pending \ {a}
  /\ freed' = (freed \/ (told[a] = "timeout" /\ runpc = "agent"))
  /\ AskGoto(a, "returned")
  /\ UNCHANGED <<chan, told, callvars, recvars, aborted, streamDone, ctx, closed,
                 runpc, exit, outcome>>

AskStep(a) ==
  \/ Refuse(a) \/ Register(a) \/ WriteQuestion(a) \/ CountQuestion(a)
  \/ FlipWaiting(a) \/ ArmTimer(a) \/ Receive(a) \/ GiveUp(a) \/ Leave(a)

-----------------------------------------------------------------------------
(* A caller of Bridge.Answer: answerFunc for an operator, the AfterFunc of   *)
(* armQuestionTimeout for a timer.                                           *)

CallGoto(c, stage) == callpc' = [callpc EXCEPT ![c] = stage]

\* An operator's answer to question a reaches the control socket.
Submit(h, a) ==
  /\ Alive
  /\ callpc[h] = "idle"
  /\ ~closed
  /\ target' = [target EXCEPT ![h] = a]
  /\ CallGoto(h, "lookup")
  /\ UNCHANGED <<askvars, recvars, runvars>>

\* The timer of question a goes off; its handler takes the abort latch.
FireTimer(a) ==
  /\ Alive
  /\ callpc[a] = "armed"
  /\ ~LatchHeld
  /\ CallGoto(a, "lookup")
  /\ UNCHANGED <<askvars, target, recvars, runvars>>

\* Answer looks the question's channel up under Bridge.mu, and reports false
\* when it is not pending.  The lock is released before the channel is used.
Lookup(c) ==
  /\ Alive
  /\ callpc[c] = "lookup"
  /\ CallGoto(c, IF target[c] \in pending THEN "send" ELSE "refused")
  /\ UNCHANGED <<askvars, target, recvars, runvars>>

\* Answer's non-blocking send: false when the channel holds an answer already.
Send(c) ==
  /\ Alive
  /\ callpc[c] = "send"
  /\ IF chan[target[c]] = None
       THEN /\ chan' = [chan EXCEPT ![target[c]] = Source(c)]
            /\ CallGoto(c, "resolve")
       ELSE /\ CallGoto(c, "refused")
            /\ UNCHANGED chan
  /\ UNCHANGED <<askpc, pending, told, target, recvars, runvars>>

\* OnResolved: outstandingQuestions.Add(-1); at zero or below the run resumes.
Resolve(c) ==
  /\ Alive
  /\ callpc[c] = "resolve"
  /\ outstanding' = outstanding - 1
  /\ CallGoto(c, IF outstanding - 1 <= 0 THEN "flip" ELSE "record")
  /\ UNCHANGED <<askvars, target, state, qfile, runvars>>

\* OnResolved: setState(StateRunning), under recMu.
FlipRunning(c) ==
  /\ Alive
  /\ callpc[c] = "flip"
  /\ state' = "running"
  /\ CallGoto(c, "record")
  /\ UNCHANGED <<askvars, target, outstanding, qfile, runvars>>

\* RecordAnswer: a no-op for a question that was never persisted.
Recorded(c) ==
  qfile' = IF qfile[target[c]] = None THEN qfile
           ELSE [qfile EXCEPT ![target[c]] = Source(c)]

\* answerFunc and the timer record the answer that was delivered.
Record(c) ==
  /\ Alive
  /\ callpc[c] = "record"
  /\ Recorded(c)
  /\ CallGoto(c, IF c \in Ask THEN "decide" ELSE "reported")
  /\ UNCHANGED <<askvars, target, outstanding, state, runvars>>

\* The timer's last step: under `abort`, set the latch and cancel the exec.
Decide(a) ==
  /\ Alive
  /\ callpc[a] = "decide"
  /\ aborted' = (aborted \/ AbortPolicy)
  /\ streamDone' = (streamDone \/ AbortPolicy)
  /\ CallGoto(a, "over")
  /\ UNCHANGED <<askvars, target, recvars, ctx, closed, runpc, exit, outcome, freed>>

\* `krayt answer` records the answer once more, in its own process.
ReportAnswer(h) ==
  /\ callpc[h] = "reported"
  /\ Recorded(h)
  /\ CallGoto(h, "over")
  /\ UNCHANGED <<askvars, target, outstanding, state, runvars>>

CallStep(c) ==
  Lookup(c) \/ Send(c) \/ Resolve(c) \/ FlipRunning(c) \/ Record(c)

-----------------------------------------------------------------------------
(* The run itself, from the moment the channel is served.                    *)

\* Create, copy-in and helper setup went through: the record reads `running`.
SetupDone ==
  /\ runpc = "setup"
  /\ ctx = "live"
  /\ state' = "running"
  /\ runpc' = "agent"
  /\ UNCHANGED <<askvars, callvars, outstanding, qfile, aborted, streamDone, ctx,
                 closed, exit, outcome, freed>>

\* isWallClockTimeout on an error of a step: the clock is asked as well, since the
\* context may lag behind the deadline or have been cancelled before it.
FailureResults ==
  IF ctx = "deadline" THEN {"timed_out"}
  ELSE {"failed"} \cup (IF WallClock THEN {"timed_out"} ELSE {})

\* Faulty variant of SetupFails: the result is not decided.
SetupFails_Undecided ==
  /\ runpc = "setup"
  /\ runpc' = "closing"
  /\ UNCHANGED <<askvars, callvars, recvars, aborted, streamDone, ctx, closed, exit,
                 outcome, freed>>

\* One of them failed: a wall-clock timeout is told from an error.
SetupFails ==
  /\ runpc = "setup"
  /\ outcome' \in FailureResults
  /\ runpc' = "closing"
  /\ UNCHANGED <<askvars, callvars, recvars, aborted, streamDone, ctx, closed, exit,
                 freed>>

\* The agent's log cannot be created: the run fails once it reads `running` already.
LogFails ==
  /\ runpc = "agent"
  /\ outcome' = "failed"
  /\ runpc' = "closing"
  /\ UNCHANGED <<askvars, callvars, recvars, aborted, streamDone, ctx, closed, exit,
                 freed>>

\* The run's own deadline passes.
Deadline ==
  /\ WallClock
  /\ ctx = "live"
  /\ runpc \notin {"returned", "exited"}
  /\ ctx' = "deadline"
  /\ UNCHANGED <<askvars, callvars, recvars, aborted, streamDone, closed, runpc, exit,
                 outcome, freed>>

\* Ctrl-C, `krayt stop`, Manager.Stop.
Cancel ==
  /\ ctx = "live"
  /\ runpc \notin {"returned", "exited"}
  /\ ctx' = "cancelled"
  /\ UNCHANGED <<askvars, callvars, recvars, aborted, streamDone, closed, runpc, exit,
                 outcome, freed>>

\* The agent's exec returns: the agent exits on its own, or it was killed (and
\* may have been quick enough to exit cleanly all the same).
AgentExits ==
  /\ runpc = "agent"
  /\ exit' \in {"zero", "nonzero", "error"}
  /\ runpc' = "classify"
  /\ UNCHANGED <<askvars, callvars, recvars, aborted, streamDone, ctx, closed, outcome,
                 freed>>

\* The switch after the exec.  aborted.fired() waits for a handler in flight.
Classify ==
  /\ runpc = "classify"
  /\ ~LatchHeld
  /\ \/ /\ aborted
        /\ outcome' = "failed"
        /\ runpc' = "closing"
     \/ /\ ~aborted
        /\ ctx = "deadline" /\ exit # "zero"
        /\ outcome' = "timed_out"
        /\ runpc' = "closing"
     \/ /\ ~aborted
        /\ ctx # "deadline" /\ exit = "error"
        /\ outcome' \in FailureResults
        /\ runpc' = "closing"
     \/ /\ ~aborted
        /\ IF ctx = "deadline" THEN exit = "zero" ELSE exit # "error"
        /\ outcome' = None
        /\ runpc' = "collect"
  /\ exit' = None
  /\ UNCHANGED <<askvars, callvars, recvars, aborted, streamDone, ctx, closed, freed>>

\* finishAndCollect: it cannot succeed once the context is gone.
Collect ==
  /\ runpc = "collect"
  /\ \/ ctx = "live" /\ outcome' = "done"
     \/ outcome' \in FailureResults
  /\ runpc' = "closing"
  /\ UNCHANGED <<askvars, callvars, recvars, aborted, streamDone, ctx, closed, exit,
                 freed>>

\* The deferred calls before the teardown: stopCtl, bridgeCancel, lis.Close, cancelStream.
CloseChannel ==
  /\ runpc = "closing"
  /\ closed' = TRUE
  /\ streamDone' = TRUE
  /\ runpc' = "final"
  /\ UNCHANGED <<askvars, callvars, recvars, aborted, ctx, exit, outcome, freed>>

\* The last deferred call: the final record.  Handler goroutines are not joined.
FinalRecord ==
  /\ runpc = "final"
  /\ state' = outcome
  /\ runpc' = "returned"
  /\ UNCHANGED <<askvars, callvars, outstanding, qfile, aborted, streamDone, ctx,
                 closed, exit, outcome, freed>>

\* The krayt process ends, and with it every goroutine that is still there.
ProcessExit ==
  /\ runpc = "returned"
  /\ runpc' = "exited"
  /\ UNCHANGED <<askvars, callvars, recvars, aborted, streamDone, ctx, closed, exit,
                 outcome, freed>>

\* Nothing is left to happen once the process is gone.
Ended ==
  /\ runpc = "exited"
  /\ UNCHANGED vars

RunStep ==
  \/ SetupDone \/ SetupFails \/ LogFails \/ Deadline \/ Cancel \/ AgentExits \/ Classify
  \/ Collect \/ CloseChannel \/ FinalRecord \/ ProcessExit \/ Ended

-----------------------------------------------------------------------------
Next ==
  \/ \E a \in Ask : Accept(a) \/ AskStep(a) \/ FireTimer(a) \/ Decide(a)
  \/ \E c \in Caller : CallStep(c)
  \/ \E h \in Human : ReportAnswer(h) \/ \E a \in Ask : Submit(h, a)
  \/ RunStep

\* What goes on by itself: goroutines that can run, timers that are armed, and Run
\* once its exec is over or killed.  Nothing makes a sandbox ask, an operator answer,
\* an agent exit of its own accord, a deadline pass, or anyone cancel the run.
Progress ==
  \/ \E a \in Ask : AskStep(a) \/ FireTimer(a) \/ Decide(a)
  \/ \E c \in Caller : CallStep(c)
  \/ SetupDone \/ SetupFails \/ (AgentKilled /\ AgentExits)
  \/ Classify \/ Collect \/ CloseChannel \/ FinalRecord \/ ProcessExit

\* As long as one of these threads can take a step, one of them does.  No thread runs
\* for ever, so this gives each of them its turn.
Fairness == WF_vars(Progress)

Spec     == Init /\ [][Next]_vars
FairSpec == Spec /\ Fairness
-----------------------------------------------------------------------------
(* Properties.                                                               *)

\* Bridge.Answer returned true for this caller.
Won(c) == callpc[c] \in Delivered

\* A handler goroutine of either kind is between two steps.
InFlight ==
  \/ \E a \in Ask : askpc[a] \in {"record", "count", "flip", "arm", "leaving"}
  \/ \E c \in Caller : callpc[c] \in InHandler

\* The sandbox can never have more than maxPendingQuestions questions registered,
\* however its connections interleave (askbridge.go, Ask).
PendingBounded == Cardinality(pending) <= MaxPending

\* An agent that went on after being released by a question timeout under `abort`
\* is never recorded as done, however fast it exits: the switch after the exec
\* cannot overlook a timer's handler in flight (abortLatch).
AbortNeverDone == AbortPolicy /\ freed => outcome # "done"

\* A delivered answer of an operator is never turned into an abort of the run: by
\* the comment on armQuestionTimeout, the timer finds the question answered.
NoAbortAfterAnswer ==
  \A a \in Ask : AbortPolicy /\ told[a] = "human" => callpc[a] \notin {"decide", "over"}

\* state.go: "`waiting` is set while an agent question is outstanding".
WaitingWhileOutstanding ==
  (/\ runpc = "agent"
   /\ ~InFlight
   /\ \A c \in Caller : Won(c) => qfile[target[c]] # None
   /\ \E a \in Ask : askpc[a] = "blocked" /\ chan[a] = None)
  => state = "waiting"

\* No question with a time limit stays open: its ask_human call comes back, or the
\* run's process goes away, even if nobody answers and no deadline passes
\* (armQuestionTimeout).
QuestionsResolve ==
  <>[](\A a \in Ask : askpc[a] \in {"blocked", "leaving"} => runpc = "exited")

\* A timeout under `abort` that finds the agent executing ends the run, with no
\* deadline to help, and as failed if it released the agent: the exec is killed and no
\* lock is left held.
AbortEndsRun ==
  <>[](aborted => runpc = "exited" /\ (freed => outcome = "failed"))

\* What an observer of the channel sees: the phase of each question, the kinds of
\* answer Bridge.Answer accepted for it, and what its ask_human call came back with.
Phase == [a \in Ask |-> IF askpc[a] \in {"idle", "accepted"} THEN "unasked"
                        ELSE IF askpc[a] = "returned" THEN "closed" ELSE "open"]
Offered == [a \in Ask |-> {Source(c) : c \in {d \in Caller : Won(d) /\ target[d] = a}}]
Reply == [a \in Ask |-> IF askpc[a] = "returned" THEN told[a] ELSE "nothing"]

Channel == INSTANCE AskChannel WITH phase <- Phase, offered <- Offered, reply <- Reply

\* The threads together keep the promise of AskChannel: a question is answered at most
\* once, with an answer someone gave, and the bound on open questions is never passed.
ChannelSpec == Channel!Spec
=============================================================================
