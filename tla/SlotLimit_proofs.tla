-------------------------- MODULE SlotLimit_proofs ---------------------------
(***************************************************************************)
(* The cap of SlotLimit, for every set of runs and every limit of each.      *)
(* Capped counts runs, and the code counts nothing: that it holds rests on   *)
(* the locks, which make the slot numbers of the runs at work pairwise       *)
(* different.  Those of the runs with a limit of at most l lie in 0..(l-1),  *)
(* so there are at most l of them.                                           *)
(***************************************************************************)
EXTENDS SlotLimit, FiniteSetTheorems, TLAPS

\* A slot file is locked by one run, and a run at work under a limit has one.
Exclusive == \A r, s \in Run : fd[r] # NoSlot /\ fd[r] = fd[s] => r = s
Holding   == \A r \in Run : slotpc[r] = "inside" /\ Limit[r] # 0 => fd[r] # NoSlot

SlotInv == SlotTypeOK /\ Exclusive /\ Holding

\* No run has anything at the start.
LEMMA SlotInitInv == SlotInit => SlotInv
BY SlotAssumption DEF SlotInit, SlotInv, SlotTypeOK, Exclusive, Holding, NoSlot

\* Every step of every run keeps the slots apart.
LEMMA StepInv ==
  ASSUME SlotInv, NEW r \in Run, SlotStep(r)
  PROVE  SlotInv'
<1> USE SlotAssumption DEF SlotInv, GoSlot, NoSlot
<1>1. CASE AskForSlot(r)
  <2>1. slotpc[r] = "idle" /\ fd[r] = NoSlot /\ Limit[r] \in Nat
    BY <1>1 DEF AskForSlot, SlotTypeOK
  <2>2. Exclusive' /\ i' = i /\ fd' = fd
    BY <1>1 DEF AskForSlot, Exclusive
  <2>3. CASE Limit[r] = 0
    BY <1>1, <2>1, <2>2, <2>3 DEF AskForSlot, SlotTypeOK, Holding
  <2>4. CASE Limit[r] # 0
    BY <1>1, <2>1, <2>2, <2>4 DEF AskForSlot, SlotTypeOK, Holding
  <2> QED BY <2>3, <2>4
<1>2. CASE TryLock(r)
  <2>1. slotpc[r] = "scan" /\ i[r] \in 0..(Limit[r] - 1) /\ fd[r] = NoSlot /\ Limit[r] \in Nat
    BY <1>2 DEF TryLock, SlotTypeOK
  <2>2. CASE Free(i[r])
    <3>1. fd' = [fd EXCEPT ![r] = i[r]] /\ slotpc' = [slotpc EXCEPT ![r] = "inside"] /\ i' = i
      BY <1>2, <2>2 DEF TryLock
    <3>2. SlotTypeOK'
      BY <2>1, <3>1 DEF SlotTypeOK
    <3>3. Exclusive'
      BY <2>1, <2>2, <3>1 DEF SlotTypeOK, Exclusive, Free
    <3>4. Holding'
      BY <2>1, <3>1 DEF SlotTypeOK, Holding
    <3> QED BY <3>2, <3>3, <3>4
  <2>3. CASE ~Free(i[r])
    <3>1. fd' = fd /\ i' = [i EXCEPT ![r] = @ + 1]
          /\ IF i[r] + 1 = Limit[r] THEN slotpc' = [slotpc EXCEPT ![r] = "wait"] ELSE slotpc' = slotpc
      BY <1>2, <2>3 DEF TryLock
    <3>2. SlotTypeOK'
      <4>1. CASE i[r] + 1 = Limit[r]
        BY <2>1, <3>1, <4>1 DEF SlotTypeOK
      <4>2. CASE i[r] + 1 # Limit[r]
        BY <2>1, <3>1, <4>2 DEF SlotTypeOK
      <4> QED BY <4>1, <4>2
    <3>3. Exclusive' /\ Holding'
      BY <2>1, <3>1 DEF SlotTypeOK, Exclusive, Holding
    <3> QED BY <3>2, <3>3
  <2> QED BY <2>2, <2>3
<1>3. CASE LockError(r)
  BY <1>3 DEF LockError, SlotTypeOK, Exclusive, Holding
<1>4. CASE Poll(r)
  BY <1>4 DEF Poll, SlotTypeOK, Exclusive, Holding
<1>5. CASE Cancel(r)
  BY <1>5 DEF Cancel, SlotTypeOK, Exclusive, Holding
<1>6. CASE Release(r)
  BY <1>6 DEF Release, SlotTypeOK, Exclusive, Holding
<1>7. CASE KillRun(r)
  BY <1>7 DEF KillRun, SlotTypeOK, Exclusive, Holding
<1> QED BY <1>1, <1>2, <1>3, <1>4, <1>5, <1>6, <1>7 DEF SlotStep

\* The inductive invariant holds of every reachable state.
THEOREM SlotInvariance == SlotSpec => []SlotInv
<1>1. SlotInv /\ [SlotNext]_slotVars => SlotInv'
  <2> SUFFICES ASSUME SlotInv, [SlotNext]_slotVars PROVE SlotInv'
    OBVIOUS
  <2>1. CASE UNCHANGED slotVars
    BY <2>1 DEF slotVars, SlotInv, SlotTypeOK, Exclusive, Holding
  <2>2. ASSUME NEW r \in Run, SlotStep(r) PROVE SlotInv'
    BY <2>2, StepInv
  <2>3. CASE Over
    BY <2>1, <2>3 DEF Over
  <2> QED BY <2>1, <2>2, <2>3 DEF SlotNext
<1> QED BY SlotInitInv, <1>1, PTL DEF SlotSpec

\* SlotTypeOK holds of every reachable state.
THEOREM SlotTypeCorrect == SlotSpec => []SlotTypeOK
<1>1. SlotInv => SlotTypeOK
  BY DEF SlotInv
<1> QED BY SlotInvariance, <1>1, PTL

\* The runs at work with a limit of at most l hold different slots below l.
LEMMA SlotsApart ==
  ASSUME SlotInv, NEW l \in Nat
  PROVE  [r \in Bounded(l) |-> fd[r]] \in Injection(Bounded(l), 0..(l - 1))
<1> DEFINE slot == [r \in Bounded(l) |-> fd[r]]
<1>1. ASSUME NEW r \in Bounded(l) PROVE r \in Run /\ fd[r] # NoSlot /\ fd[r] \in 0..(l - 1)
  BY <1>1, SlotAssumption DEF Bounded, SlotInv, SlotTypeOK, Holding, NoSlot
<1>2. slot \in [Bounded(l) -> 0..(l - 1)]
  BY <1>1
<1>3. \A r, s \in Bounded(l) : slot[r] = slot[s] => r = s
  BY <1>1 DEF SlotInv, Exclusive
<1> QED BY <1>2, <1>3 DEF Injection, IsInjective

\* The cap holds in every state of the invariant ...
LEMMA CapFromSlots == SlotInv => Capped
<1> SUFFICES ASSUME SlotInv, NEW l \in {Limit[r] : r \in Run}
            PROVE  Cardinality(Bounded(l)) <= l
  BY DEF Capped
<1>1. l \in Nat
  BY SlotAssumption
<1>2. IsFiniteSet(0..(l - 1)) /\ Cardinality(0..(l - 1)) = l
  BY <1>1, FS_Interval
<1>3. Cardinality(Bounded(l)) <= Cardinality(0..(l - 1))
  BY <1>1, <1>2, SlotsApart, FS_Injection
<1> QED BY <1>2, <1>3

\* ... and so always: runs started with a limit of at most l are never more than l at
\* work, whatever limits the others have and whoever is killed (AcquireSlot).
THEOREM CapHolds == SlotSpec => []Capped
BY SlotInvariance, CapFromSlots, PTL
-----------------------------------------------------------------------------
(* SlotLimit implements SlotPool.  What the code looks at is one slot file at a time;     *)
(* that there is room when a lock is taken follows from the cap after the step.           *)

\* In every state of the invariant the runs at work under a limit can be counted.
LEMMA BoundedIsFinite ==
  ASSUME SlotInv, NEW l \in Nat
  PROVE  IsFiniteSet(Bounded(l))
<1>1. IsFiniteSet(0..(l - 1))
  BY FS_Interval
<1> QED BY <1>1, SlotsApart, FS_Injection

\* The runs at work for the pool are those that hold their slot.
LEMMA AtWorkIsBounded ==
  ASSUME NEW l \in Nat
  PROVE  Pool!AtWork(l) = Bounded(l)
BY DEF Pool!AtWork, Bounded, Phase

\* A run that goes to work had room: with it there are at most l, so there were fewer.
LEMMA RoomToEnter ==
  ASSUME SlotInv, SlotInv', NEW r \in Run, slotpc[r] # "inside", slotpc' = [slotpc EXCEPT ![r] = "inside"]
  PROVE  Pool!Room(r)
<1> SUFFICES ASSUME NEW l \in {Limit[s] : s \in Run}, Limit[r] \in 1..l
             PROVE  Cardinality(Bounded(l)) < l
  <2>1. ASSUME NEW l \in {Limit[s] : s \in Run} PROVE Pool!AtWork(l) = Bounded(l)
    BY AtWorkIsBounded, SlotAssumption
  <2> QED BY <2>1 DEF Pool!Room, Pool!Cardinality, Cardinality
<1>1. l \in Nat
  BY SlotAssumption
<1>2. Capped'
  <2>1. SlotInv' => Capped'
    BY CapFromSlots, PTL
  <2> QED BY <2>1
<1>3. r \notin Bounded(l) /\ Bounded(l)' = Bounded(l) \cup {r}
  BY DEF Bounded, SlotInv, SlotTypeOK
<1>4. Cardinality(Bounded(l) \cup {r}) = Cardinality(Bounded(l)) + 1
  BY <1>1, <1>3, BoundedIsFinite, FS_AddElement
<1>5. Cardinality(Bounded(l) \cup {r}) <= l
  BY <1>2, <1>3 DEF Capped
<1>6. Cardinality(Bounded(l)) \in Nat
  BY <1>1, BoundedIsFinite, FS_CardinalityType
<1> QED BY <1>1, <1>4, <1>5, <1>6

\* No run has asked at the start.
LEMMA InitRefines == SlotInit => Pool!Init
BY DEF SlotInit, Pool!Init, Phase

\* A step of a run asks, enters, gives up or departs, or is not seen.
LEMMA StepRefines ==
  ASSUME SlotInv, SlotInv', NEW r \in Run, SlotStep(r)
  PROVE  Pool!Next \/ UNCHANGED Phase
<1> USE DEF SlotInv, SlotTypeOK, GoSlot, Phase, Pool!Move
<1>1. CASE AskForSlot(r)
  <2>1. CASE Limit[r] = 0
    <3>1. Pool!Room(r)
      BY <1>1, <2>1, RoomToEnter DEF AskForSlot
    <3>2. Pool!Enter(r)
      BY <1>1, <2>1, <3>1 DEF AskForSlot, Pool!Enter
    <3> QED BY <3>2 DEF Pool!Next
  <2>2. CASE Limit[r] # 0
    <3>1. Pool!AskForRoom(r)
      BY <1>1, <2>2 DEF AskForSlot, Pool!AskForRoom
    <3> QED BY <3>1 DEF Pool!Next
  <2> QED BY <2>1, <2>2
<1>2. CASE TryLock(r) /\ Free(i[r])
  <2>1. Pool!Room(r)
    BY <1>2, RoomToEnter DEF TryLock
  <2>2. Limit[r] # 0
    BY <1>2, SlotAssumption DEF TryLock
  <2>3. Pool!Enter(r)
    BY <1>2, <2>1, <2>2 DEF TryLock, Pool!Enter
  <2> QED BY <2>3 DEF Pool!Next
<1>3. CASE TryLock(r) /\ ~Free(i[r])
  BY <1>3 DEF TryLock
<1>4. CASE Poll(r)
  BY <1>4 DEF Poll
<1>5. CASE LockError(r) \/ Cancel(r) \/ (KillRun(r) /\ slotpc[r] # "inside")
  <2>1. Pool!GiveUp(r)
    BY <1>5 DEF LockError, Cancel, KillRun, Pool!GiveUp
  <2> QED BY <2>1 DEF Pool!Next
<1>6. CASE Release(r) \/ (KillRun(r) /\ slotpc[r] = "inside")
  <2>1. Pool!Depart(r)
    BY <1>6 DEF Release, KillRun, Pool!Depart
  <2> QED BY <2>1 DEF Pool!Next
<1> QED BY <1>1, <1>2, <1>3, <1>4, <1>5, <1>6 DEF SlotStep

\* Every step is a step of the pool, or is not seen there.
LEMMA NextRefines == SlotInv /\ SlotInv' /\ [SlotNext]_slotVars => [Pool!Next]_Phase
<1> SUFFICES ASSUME SlotInv, SlotInv', [SlotNext]_slotVars
             PROVE  Pool!Next \/ UNCHANGED Phase
  OBVIOUS
<1>1. CASE UNCHANGED slotVars
  BY <1>1 DEF slotVars, Phase
<1>2. CASE Over
  BY <1>1, <1>2 DEF Over
<1>3. ASSUME NEW r \in Run, SlotStep(r) PROVE Pool!Next \/ UNCHANGED Phase
  BY <1>3, StepRefines
<1> QED BY <1>1, <1>2, <1>3 DEF SlotNext

\* The scans, locks and polls of any set of processes implement the pool: a run goes to
\* work only when there is room, and gives its room back (AcquireSlot).
THEOREM PoolRefined == SlotSpec => PoolSpec
BY InitRefines, NextRefines, SlotInvariance, PTL DEF SlotSpec, PoolSpec, Pool!Spec
=============================================================================
