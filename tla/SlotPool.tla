------------------------------ MODULE SlotPool ------------------------------
(***************************************************************************)
(* What the concurrency limit promises the runs of one .krayt, without slot  *)
(* files, scans and polls: a run that was given no limit goes to work at     *)
(* once; any other asks, once, and then either goes to work when there is    *)
(* room for one more under its limit and under every larger one, or gives    *)
(* up.  The limit is nobody's in particular: runs are started with different *)
(* ones, and a small one binds only those that were given no more.           *)
(***************************************************************************)
EXTENDS Integers, FiniteSets

CONSTANTS
  Run,     \* the runs that ask
  Limit    \* the limit each was given; 0 means unbounded

VARIABLE phase   \* "idle", "asking", "inside" (at work) or "exited"

\* The runs at work that were given a limit of at most l.
AtWork(l) == {r \in Run : phase[r] = "inside" /\ Limit[r] \in 1..l}

\* One more run with the limit of r may go to work.
Room(r) ==
  \A l \in {Limit[s] : s \in Run} : Limit[r] \in 1..l => Cardinality(AtWork(l)) < l

Init == phase = [r \in Run |-> "idle"]

Move(r, from, to) ==
  /\ phase[r] = from
  /\ phase' = [phase EXCEPT ![r] = to]

AskForRoom(r) == Limit[r] # 0 /\ Move(r, "idle", "asking")

Enter(r) == Move(r, IF Limit[r] = 0 THEN "idle" ELSE "asking", "inside") /\ Room(r)

GiveUp(r) == Move(r, "asking", "exited")

\* At its end, or because it was killed: its place is free at once.
Depart(r) == Move(r, "inside", "exited")

Next == \E r \in Run : AskForRoom(r) \/ Enter(r) \/ GiveUp(r) \/ Depart(r)

Spec == Init /\ [][Next]_phase
=============================================================================
