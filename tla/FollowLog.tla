----------------------------- MODULE FollowLog ------------------------------
(* `krayt attach` on an agent's run: FollowLog reads agent.log and the record  *)
(* while another process writes both.                                         *)
EXTENDS Naturals

CONSTANTS
  MaxLog,  \* bound on the length of the log
  Chunk    \* how much one read takes at most (32 KiB in the code)

FollowLogAssumption == MaxLog \in Nat /\ Chunk \in Nat \ {0}

VARIABLES
  log,       \* what agent.log has, or NoLog while it is not there
  followed,  \* the run: before its log, under way, its agent gone, recorded as ended
  follower,  \* where the follower is
  shown,     \* how much it has printed
  eof        \* history: how much there was when it last met the end

followVars == <<log, followed, follower, shown, eof>>

NoLog == MaxLog + 1

FollowTypeOK ==
  /\ log \in 0..NoLog
  /\ followed \in {"starting", "running", "closing", "ended"}
  /\ follower \in {"open", "read", "check", "grace", "done"}
  /\ shown \in 0..MaxLog /\ eof \in 0..MaxLog

FollowInit == log = NoLog /\ followed = "starting" /\ follower = "open" /\ shown = 0 /\ eof = 0

-----------------------------------------------------------------------------
(* The run's own process. *)

CreateLog ==
  /\ followed = "starting"
  /\ followed' = "running" /\ log' = 0
  /\ UNCHANGED <<follower, shown, eof>>

Write ==
  /\ followed = "running" /\ log < MaxLog
  /\ log' = log + 1
  /\ UNCHANGED <<followed, follower, shown, eof>>

AgentEnds ==
  /\ followed = "running" /\ followed' = "closing"
  /\ UNCHANGED <<log, follower, shown, eof>>

\* Also a run that ended before there was a log.
Record ==
  /\ followed \in {"starting", "closing"} /\ followed' = "ended"
  /\ UNCHANGED <<log, follower, shown, eof>>

-----------------------------------------------------------------------------
(* The follower.  Between two looks at an unfinished run it waits for a poll. *)

Available_Chunk == Chunk
Available == IF log - shown > Chunk THEN Chunk ELSE log - shown

\* waitOpen: tried again for as long as there is no file.
Open ==
  /\ follower = "open" /\ log # NoLog
  /\ follower' = "read"
  /\ UNCHANGED <<log, followed, shown, eof>>

Read ==
  /\ follower = "read"
  /\ IF Available > 0
       THEN shown' = shown + Available /\ UNCHANGED <<follower, eof>>
       ELSE follower' = "check" /\ eof' = log /\ UNCHANGED shown
  /\ UNCHANGED <<log, followed>>

Check_Running ==
  /\ follower = "check"
  /\ follower' = IF followed = "running" \/ shown = 0 THEN "read" ELSE "grace"
  /\ UNCHANGED <<log, followed, shown, eof>>

\* ReadRecord at the end of what there is: is it a terminal one?
Check ==
  /\ follower = "check"
  /\ follower' = IF followed = "ended" THEN "grace" ELSE "read"
  /\ UNCHANGED <<log, followed, shown, eof>>

GraceRead_None ==
  /\ follower = "grace" /\ follower' = "done"
  /\ UNCHANGED <<log, followed, shown, eof>>

\* One more read for what came before the record.
GraceRead ==
  /\ follower = "grace" /\ follower' = "done"
  /\ shown' = shown + Available
  /\ UNCHANGED <<log, followed, eof>>

Follow == Open \/ Read \/ Check \/ GraceRead

FollowNext == CreateLog \/ Write \/ AgentEnds \/ Record \/ Follow

FollowSpec == FollowInit /\ [][FollowNext]_followVars

\* The follower polls; its Ctrl-C is left out.
FollowFairness == WF_followVars(Follow)

FollowFairSpec == FollowSpec /\ FollowFairness

-----------------------------------------------------------------------------
(* Properties. *)

\* When attach ends by itself it has printed all there was when it last met the end of
\* the file, and one read's worth at most of what was written after that: the whole log,
\* unless FollowedToTheEnd fails.
WholeLogShown ==
  follower = "done" => shown = IF log - eof > Chunk THEN eof + Chunk ELSE log

\* attach does not outlast a run that has a log.
AttachEnds == <>[](followed = "ended" /\ log # NoLog => follower = "done")

\* Violated.  state.go says that the log is followed "until the run reaches a terminal
\* state (log then drained)", manage.go "until it finishes".
FollowedToTheEnd == followed = "ended" ~> follower = "done" /\ shown = log
=============================================================================
