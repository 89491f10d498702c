------------------------------ MODULE SlotLimit ------------------------------
(***************************************************************************)
(* AcquireSlot: the concurrency limit of one .krayt, shared by every         *)
(* `krayt run` and `krayt shell` under it.  There is no counter: slot-0 ..   *)
(* slot-(limit-1) are files, a run holds one of them by an advisory lock the *)
(* operating system drops with the process, and a run that finds them all    *)
(* held scans them again, from the start, until its context ends.            *)
(***************************************************************************)
EXTENDS Integers, FiniteSets

CONSTANTS
  Run,     \* the runs (a process, or a goroutine of one) that ask for a slot
  Limit    \* the --max-concurrency each was given; 0 means unbounded

ASSUME SlotAssumption == Limit \in [Run -> Nat]

VARIABLES
  slotpc,    \* where each run is
  i,     \* the slot file it tries next
  fd     \* the slot file it holds the lock of, or NoSlot

slotVars == <<slotpc, i, fd>>

NoSlot == -1

SlotTypeOK ==
  /\ slotpc \in [Run -> {"idle", "scan", "wait", "inside", "exited"}]
  /\ i \in [Run -> Nat]
  /\ fd \in [Run -> Int]
  /\ \A r \in Run : /\ slotpc[r] = "idle" => i[r] = 0
                    /\ slotpc[r] = "scan" => i[r] < Limit[r]
                    /\ slotpc[r] = "wait" => Limit[r] > 0
                    /\ fd[r] # NoSlot => slotpc[r] = "inside" /\ fd[r] \in 0..(Limit[r] - 1)

SlotInit ==
  /\ slotpc = [r \in Run |-> "idle"]
  /\ i = [r \in Run |-> 0]
  /\ fd = [r \in Run |-> NoSlot]

GoSlot(r, stage) == slotpc' = [slotpc EXCEPT ![r] = stage]

Free(slot) == \A r \in Run : fd[r] # slot

-----------------------------------------------------------------------------
\* limit <= 0 is no limit.
AskForSlot(r) ==
  /\ slotpc[r] = "idle"
  /\ GoSlot(r, IF Limit[r] = 0 THEN "inside" ELSE "scan")
  /\ UNCHANGED <<i, fd>>

\* Faulty variant of TryLock: the scan runs over slot-0 .. slot-limit.
TryLock_OneMore(r) ==
  /\ slotpc[r] = "scan"
  /\ IF Free(i[r])
       THEN fd' = [fd EXCEPT ![r] = i[r]] /\ GoSlot(r, "inside") /\ UNCHANGED i
       ELSE /\ i' = [i EXCEPT ![r] = @ + 1]
            /\ IF i[r] = Limit[r] THEN GoSlot(r, "wait") ELSE UNCHANGED slotpc
            /\ UNCHANGED fd

\* Faulty variant of TryLock: a slot is looked at, and locked whoever holds it.
TryLock_Blind(r) ==
  /\ slotpc[r] = "scan"
  /\ fd' = [fd EXCEPT ![r] = i[r]]
  /\ GoSlot(r, "inside")
  /\ UNCHANGED i

\* tryLockSlot: the lock of a free slot is taken, a held slot is passed over.
TryLock(r) ==
  /\ slotpc[r] = "scan"
  /\ IF Free(i[r])
       THEN fd' = [fd EXCEPT ![r] = i[r]] /\ GoSlot(r, "inside") /\ UNCHANGED i
       ELSE /\ i' = [i EXCEPT ![r] = @ + 1]
            /\ IF i[r] + 1 = Limit[r] THEN GoSlot(r, "wait") ELSE UNCHANGED slotpc
            /\ UNCHANGED fd

\* The file cannot be opened, or locks are not supported: the run fails at once.
LockError(r) ==
  /\ slotpc[r] = "scan"
  /\ GoSlot(r, "exited")
  /\ UNCHANGED <<i, fd>>

\* slotPoll has passed.
Poll(r) ==
  /\ slotpc[r] = "wait"
  /\ i' = [i EXCEPT ![r] = 0]
  /\ GoSlot(r, "scan")
  /\ UNCHANGED fd

\* The context ends; it is looked at only between two scans.
Cancel(r) ==
  /\ slotpc[r] = "wait"
  /\ GoSlot(r, "exited")
  /\ UNCHANGED <<i, fd>>

\* The deferred release.
Release(r) ==
  /\ slotpc[r] = "inside"
  /\ fd' = [fd EXCEPT ![r] = NoSlot]
  /\ GoSlot(r, "exited")
  /\ UNCHANGED i

\* Faulty variant of KillRun: a slot is a mark in a file, which a crash leaves there.
KillRun_MarkStays(r) ==
  /\ slotpc[r] \in {"scan", "wait", "inside"}
  /\ GoSlot(r, "exited")
  /\ UNCHANGED <<i, fd>>

\* The process is killed; its descriptors close, and the lock goes with them.
KillRun(r) ==
  /\ slotpc[r] \in {"scan", "wait", "inside"}
  /\ fd' = [fd EXCEPT ![r] = NoSlot]
  /\ GoSlot(r, "exited")
  /\ UNCHANGED i

\* Every run that was started has ended.
Over == (\A r \in Run : slotpc[r] \in {"idle", "exited"}) /\ UNCHANGED slotVars

SlotStep(r) ==
  \/ AskForSlot(r) \/ TryLock(r) \/ LockError(r) \/ Poll(r) \/ Cancel(r) \/ Release(r)
  \/ KillRun(r)

SlotNext == Over \/ \E r \in Run : SlotStep(r)

\* A scan and the poll timer go on, and a run comes to its end (a wall clock bounds an
\* agent's, a human leaves a shell).  Nobody has to start, to give up, or to crash.
SlotGoesOn(r) == TryLock(r) \/ Poll(r) \/ Release(r)

SlotFairness == \A r \in Run : WF_slotVars(SlotGoesOn(r))

SlotSpec     == SlotInit /\ [][SlotNext]_slotVars
SlotFairSpec == SlotSpec /\ SlotFairness
-----------------------------------------------------------------------------
\* The runs that hold a slot and were given a limit of at most l.
Bounded(l) == {r \in Run : slotpc[r] = "inside" /\ Limit[r] \in 1..l}

\* The cap holds across processes: of the runs started with a limit of at most l no more
\* than l are ever at work together, also when others were given larger limits, scan at
\* the same time, or are killed.
Capped == \A l \in {Limit[r] : r \in Run} : Cardinality(Bounded(l)) <= l

\* A run that scans the slots or waits for the next scan is asking, for the pool.
Phase == [r \in Run |-> IF slotpc[r] \in {"scan", "wait"} THEN "asking" ELSE slotpc[r]]

Pool == INSTANCE SlotPool WITH phase <- Phase

\* Scans, locks and polls together keep the promise of SlotPool: a run asks once, goes to
\* work only when there is room under its limit and every larger one, also when slots
\* come free and are taken behind its scan, and makes its room again whatever ends it.
PoolSpec == Pool!Spec

\* No slot leaks, and none is overlooked: no run asks for ever, it gets a slot or gives
\* up, however many of the others are killed with a slot in their hands.
Served == <>[](\A r \in Run : slotpc[r] \notin {"scan", "wait"})
=============================================================================
