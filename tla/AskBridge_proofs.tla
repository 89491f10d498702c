-------------------------- MODULE AskBridge_proofs --------------------------
(***************************************************************************)
(* Proofs about AskBridge, for any number of ask_human calls, operators and *)
(* pending questions.                                                       *)
(***************************************************************************)
EXTENDS AskBridge, FiniteSetTheorems, TLAPS

-----------------------------------------------------------------------------
(* Type correctness.                                                         *)

\* A step of an ask_human call keeps the types of all variables.
LEMMA AskStepType ==
  ASSUME TypeOK, NEW a \in Ask, Accept(a) \/ AskStep(a)
  PROVE  TypeOK'
<1> USE DEF AskStages, None, askvars, callvars, recvars, runvars, AskGoto
<1>1. CASE Accept(a)         BY <1>1 DEF TypeOK, Accept
<1>2. CASE Refuse(a)         BY <1>2 DEF TypeOK, Refuse
<1>3. CASE Register(a)       BY <1>3 DEF TypeOK, Register
<1>4. CASE WriteQuestion(a)  BY <1>4 DEF TypeOK, WriteQuestion
<1>5. CASE CountQuestion(a)  BY <1>5 DEF TypeOK, CountQuestion
<1>6. CASE FlipWaiting(a)    BY <1>6 DEF TypeOK, FlipWaiting
<1>7. CASE ArmTimer(a)       BY <1>7 DEF TypeOK, ArmTimer, Caller, CallStages, InHandler
<1>8. CASE Receive(a)        BY <1>8 DEF TypeOK, Receive
<1>9. CASE GiveUp(a)         BY <1>9 DEF TypeOK, GiveUp
<1>10. CASE Leave(a)         BY <1>10 DEF TypeOK, Leave
<1> QED BY <1>1, <1>2, <1>3, <1>4, <1>5, <1>6, <1>7, <1>8, <1>9, <1>10 DEF AskStep

\* A caller of Bridge.Answer that is past its first step has a question to answer.
TargetInv ==
  /\ \A a \in Ask : target[a] = a
  /\ \A h \in Human : callpc[h] # "idle" => target[h] \in Ask

\* All steps of one caller of Bridge.Answer, an operator or a timer.
CallerStep(c) ==
  \/ CallStep(c)
  \/ c \in Human /\ (ReportAnswer(c) \/ \E a \in Ask : Submit(c, a))
  \/ c \in Ask /\ (FireTimer(c) \/ Decide(c))

\* A step of a caller of Bridge.Answer keeps the types of all variables.
LEMMA CallStepType ==
  ASSUME TypeOK, TargetInv, NEW c \in Caller, CallerStep(c)
  PROVE  TypeOK'
<1> USE DEF None, askvars, callvars, recvars, runvars, CallGoto, CallStages, InHandler,
            Delivered, Caller
<1>1. CASE Lookup(c)       BY <1>1 DEF TypeOK, Lookup
<1>2. CASE Send(c)         BY <1>2 DEF TypeOK, Send, Source
<1>3. CASE Resolve(c)      BY <1>3 DEF TypeOK, Resolve
<1>4. CASE FlipRunning(c)  BY <1>4 DEF TypeOK, FlipRunning
<1>. Recorded(c) =>
      qfile' \in [Ask -> {None, "asked", "human", "timeout"}]
      BY DEF TypeOK, Recorded, Source
<1>5. CASE Record(c)
      <2>1. callpc' \in [Caller -> CallStages]  BY <1>5 DEF TypeOK, Record
      <2> QED  BY <1>5, <2>1 DEF TypeOK, Record
<1>6. CASE c \in Human /\ ReportAnswer(c)
      <2>1. callpc' \in [Caller -> CallStages]  BY <1>6 DEF TypeOK, ReportAnswer
      <2> QED  BY <1>6, <2>1 DEF TypeOK, ReportAnswer
<1>7. CASE c \in Human /\ \E a \in Ask : Submit(c, a)
      BY <1>7 DEF TypeOK, Submit
<1>8. CASE c \in Ask /\ FireTimer(c)  BY <1>8 DEF TypeOK, FireTimer
<1>9. CASE c \in Ask /\ Decide(c)
      BY <1>9, AskBridgeAssumption DEF TypeOK, Decide
<1> QED BY <1>1, <1>2, <1>3, <1>4, <1>5, <1>6, <1>7, <1>8, <1>9
        DEF CallStep, CallerStep

\* A step of Run keeps the types of all variables.
LEMMA RunStepType ==
  ASSUME TypeOK, RunStep, outcome \in Terminal \/ runpc # "final"
  PROVE  TypeOK'
<1> USE DEF None, askvars, callvars, recvars, runvars, Terminal, FailureResults
<1>1. CASE SetupDone     BY <1>1 DEF TypeOK, SetupDone
<1>2. CASE SetupFails    BY <1>2 DEF TypeOK, SetupFails
<1>3. CASE Deadline      BY <1>3 DEF TypeOK, Deadline
<1>4. CASE Cancel        BY <1>4 DEF TypeOK, Cancel
<1>5. CASE AgentExits    BY <1>5 DEF TypeOK, AgentExits
<1>6. CASE Classify      BY <1>6 DEF TypeOK, Classify
<1>7. CASE Collect       BY <1>7 DEF TypeOK, Collect
<1>8. CASE CloseChannel  BY <1>8 DEF TypeOK, CloseChannel
<1>9. CASE FinalRecord   BY <1>9 DEF TypeOK, FinalRecord
<1>10. CASE ProcessExit  BY <1>10 DEF TypeOK, ProcessExit
<1>11. CASE Ended        BY <1>11 DEF TypeOK, Ended, vars
<1>12. CASE LogFails     BY <1>12 DEF TypeOK, LogFails
<1> QED BY <1>1, <1>2, <1>3, <1>4, <1>5, <1>6, <1>7, <1>8, <1>9, <1>10, <1>11, <1>12
        DEF RunStep

-----------------------------------------------------------------------------
(* The inductive invariant.                                                  *)

Registered == {"record", "count", "flip", "arm", "blocked", "leaving"}

\* The map of pending questions holds exactly the calls between registering and leaving.
PendingInv == pending = {a \in Ask : askpc[a] \in Registered}

\* What an ask_human call was told is known from the moment it stops waiting.
ToldInv == \A a \in Ask : told[a] # "nothing" <=> askpc[a] \in {"leaving", "returned"}

\* A timer starts when push arms it; an operator has no timer's stages.
StageInv ==
  /\ \A a \in Ask : askpc[a] \notin {"blocked", "leaving", "returned"} => callpc[a] = "idle"
  /\ \A h \in Human : callpc[h] \notin {"armed", "decide"}

\* A caller that got past its lookup deals with a question that was registered.
LookupInv ==
  \A c \in Caller : callpc[c] \in Delivered \cup {"send"} =>
    askpc[target[c]] \notin {"idle", "accepted"}

\* Every answer in a channel, and every answer told, was delivered by some caller.
Gave(a, kind) == \E c \in Caller : Won(c) /\ target[c] = a /\ Source(c) = kind

OfferInv ==
  \A a \in Ask :
    /\ chan[a] # None => Gave(a, chan[a])
    /\ told[a] \in {"human", "timeout"} => Gave(a, told[a])

\* A timeout that reached a question has its handler in flight until the run is aborted.
LatchInv ==
  \A a \in Ask :
    AbortPolicy /\ (chan[a] = "timeout" \/ told[a] = "timeout") =>
      aborted \/ callpc[a] \in {"resolve", "flip", "record", "decide"}

\* Only a timeout frees the executing agent; past the switch, no such run is collected.
OutcomeInv ==
  /\ runpc \in {"setup", "agent", "classify", "collect"} => outcome = None
  /\ runpc \in {"closing", "final", "returned", "exited"} => outcome \in Terminal
  /\ freed => \E a \in Ask : told[a] = "timeout"
  /\ AbortPolicy /\ freed => runpc # "collect" /\ outcome # "done"

\* Where the threads are, and the bookkeeping that goes with it.
ControlInv == TargetInv /\ PendingInv /\ ToldInv /\ StageInv /\ LookupInv

IInv == TypeOK /\ ControlInv /\ OfferInv /\ LatchInv /\ OutcomeInv

\* The invariant holds initially.
LEMMA InitInv == Init => IInv
<1> SUFFICES ASSUME Init PROVE IInv  OBVIOUS
<1> USE DEF Init, None, Caller
<1>1. TypeOK
      <2>1. /\ callpc \in [Caller -> CallStages]
            /\ target \in [Caller -> Ask \cup {None}]
            BY DEF CallStages
      <2>2. /\ askpc \in [Ask -> AskStages]
            /\ told \in [Ask -> {"nothing", None, "human", "timeout"}]
            /\ chan \in [Ask -> {None, "human", "timeout"}]
            /\ qfile \in [Ask -> {None, "asked", "human", "timeout"}]
            /\ pending \in SUBSET Ask
            BY DEF AskStages
      <2>3. /\ aborted \in BOOLEAN /\ streamDone \in BOOLEAN
            /\ closed \in BOOLEAN /\ freed \in BOOLEAN
            BY Zenon
      <2>4. outstanding \in Int
            OBVIOUS
      <2> QED  BY <2>1, <2>2, <2>3, <2>4, Zenon DEF TypeOK
<1>2. TargetInv /\ PendingInv /\ ToldInv
      BY AskBridgeAssumption DEF TargetInv, PendingInv, ToldInv, Registered
<1>3. StageInv /\ LookupInv
      BY DEF StageInv, LookupInv, Delivered
<1>4. OfferInv /\ LatchInv /\ OutcomeInv
      BY AskBridgeAssumption DEF OfferInv, LatchInv, OutcomeInv, Terminal
<1> QED BY <1>1, <1>2, <1>3, <1>4 DEF IInv, ControlInv

\* A step of an ask_human call keeps the bookkeeping of the threads.
LEMMA AskStepControl ==
  ASSUME IInv, NEW a \in Ask, Accept(a) \/ AskStep(a)
  PROVE  ControlInv'
<1> USE DEF AskStages, None, askvars, callvars, recvars, runvars, AskGoto, Registered,
            IInv, ControlInv, TypeOK, TargetInv, PendingInv, ToldInv, StageInv, LookupInv,
            Caller, Delivered
<1>1. CASE Accept(a)         BY <1>1, AskBridgeAssumption DEF Accept
<1>2. CASE Refuse(a)         BY <1>2, AskBridgeAssumption DEF Refuse
<1>3. CASE Register(a)       BY <1>3, AskBridgeAssumption DEF Register
<1>4. CASE WriteQuestion(a)  BY <1>4, AskBridgeAssumption DEF WriteQuestion
<1>5. CASE CountQuestion(a)  BY <1>5, AskBridgeAssumption DEF CountQuestion
<1>6. CASE FlipWaiting(a)    BY <1>6, AskBridgeAssumption DEF FlipWaiting
<1>7. CASE ArmTimer(a)       BY <1>7, AskBridgeAssumption DEF ArmTimer
<1>8. CASE Receive(a)        BY <1>8, AskBridgeAssumption DEF Receive
<1>9. CASE GiveUp(a)         BY <1>9, AskBridgeAssumption DEF GiveUp
<1>10. CASE Leave(a)         BY <1>10, AskBridgeAssumption DEF Leave
<1> QED BY <1>1, <1>2, <1>3, <1>4, <1>5, <1>6, <1>7, <1>8, <1>9, <1>10 DEF AskStep

\* An answer given is never taken back by a step of an ask_human call, and a call is
\* told only what is in its channel.
LEMMA AskStepOffer ==
  ASSUME IInv, NEW a \in Ask, Accept(a) \/ AskStep(a)
  PROVE  OfferInv' /\ LatchInv'
<1> USE DEF AskStages, None, askvars, callvars, recvars, runvars, AskGoto,
            IInv, ControlInv, TypeOK, OfferInv, LatchInv, Gave, Won, Caller, Delivered, StageInv
<1>1. CASE Accept(a)         BY <1>1 DEF Accept
<1>2. CASE Refuse(a)         BY <1>2 DEF Refuse
<1>3. CASE Register(a)       BY <1>3 DEF Register
<1>4. CASE WriteQuestion(a)  BY <1>4 DEF WriteQuestion
<1>5. CASE CountQuestion(a)  BY <1>5 DEF CountQuestion
<1>6. CASE FlipWaiting(a)    BY <1>6 DEF FlipWaiting
<1>7. CASE ArmTimer(a)       BY <1>7 DEF ArmTimer
<1>8. CASE Receive(a)        BY <1>8 DEF Receive
<1>9. CASE GiveUp(a)         BY <1>9 DEF GiveUp
<1>10. CASE Leave(a)         BY <1>10 DEF Leave
<1> QED BY <1>1, <1>2, <1>3, <1>4, <1>5, <1>6, <1>7, <1>8, <1>9, <1>10 DEF AskStep

\* A step of a caller of Bridge.Answer keeps the bookkeeping of the threads.
LEMMA CallStepControl ==
  ASSUME IInv, NEW c \in Caller, CallerStep(c)
  PROVE  ControlInv'
<1> USE AskBridgeAssumption
    DEF None, askvars, callvars, recvars, runvars, CallGoto, IInv, ControlInv, TypeOK,
        TargetInv, PendingInv, ToldInv, StageInv, LookupInv, Registered, Caller, Delivered
<1>1. CASE Lookup(c)       BY <1>1 DEF Lookup
<1>2. CASE Send(c)         BY <1>2 DEF Send
<1>3. CASE Resolve(c)      BY <1>3 DEF Resolve
<1>4. CASE FlipRunning(c)  BY <1>4 DEF FlipRunning
<1>5. CASE Record(c)       BY <1>5 DEF Record
<1>6. CASE c \in Human /\ ReportAnswer(c)  BY <1>6 DEF ReportAnswer
<1>7. CASE c \in Human /\ \E a \in Ask : Submit(c, a)  BY <1>7 DEF Submit
<1>8. CASE c \in Ask /\ FireTimer(c)  BY <1>8 DEF FireTimer
<1>9. CASE c \in Ask /\ Decide(c)     BY <1>9 DEF Decide
<1> QED BY <1>1, <1>2, <1>3, <1>4, <1>5, <1>6, <1>7, <1>8, <1>9
        DEF CallStep, CallerStep

\* What a caller of Bridge.Answer delivered stays delivered.
LEMMA CallStepKeepsWon ==
  ASSUME IInv, NEW c \in Caller, CallerStep(c), NEW d \in Caller, Won(d)
  PROVE  Won(d)' /\ target'[d] = target[d]
<1> USE DEF Won, Delivered, callvars, CallGoto, IInv, TypeOK, Caller
<1>1. CASE Lookup(c)       BY <1>1 DEF Lookup
<1>2. CASE Send(c)         BY <1>2 DEF Send
<1>3. CASE Resolve(c)      BY <1>3 DEF Resolve
<1>4. CASE FlipRunning(c)  BY <1>4 DEF FlipRunning
<1>5. CASE Record(c)       BY <1>5 DEF Record
<1>6. CASE c \in Human /\ ReportAnswer(c)  BY <1>6 DEF ReportAnswer
<1>7. CASE c \in Human /\ \E a \in Ask : Submit(c, a)  BY <1>7 DEF Submit
<1>8. CASE c \in Ask /\ FireTimer(c)  BY <1>8 DEF FireTimer
<1>9. CASE c \in Ask /\ Decide(c)     BY <1>9 DEF Decide
<1> QED BY <1>1, <1>2, <1>3, <1>4, <1>5, <1>6, <1>7, <1>8, <1>9
        DEF CallStep, CallerStep

\* Only a caller of Bridge.Answer puts an answer in a channel, and a timer that does
\* has its handler in flight.
LEMMA CallStepOffer ==
  ASSUME IInv, NEW c \in Caller, CallerStep(c)
  PROVE  OfferInv' /\ LatchInv'
<1>1. \A a, kind : Gave(a, kind) => Gave(a, kind)'
      BY CallStepKeepsWon DEF Gave, Source
<1> USE AskBridgeAssumption
    DEF None, askvars, callvars, recvars, runvars, CallGoto, IInv, ControlInv, TypeOK,
        OfferInv, LatchInv, TargetInv, Caller
<1>2. CASE Send(c)
      <2>1. CASE chan[target[c]] # None  BY <1>1, <1>2, <2>1 DEF Send
      <2>2. CASE chan[target[c]] = None
            <3>1. target[c] \in Ask  BY <1>2 DEF Send
            <3>2. Gave(target[c], Source(c))'
                  BY <1>2, <2>2 DEF Send, Gave, Won, Delivered, Source
            <3> QED BY <1>1, <1>2, <2>2, <3>1, <3>2 DEF Send, Source
      <2> QED BY <2>1, <2>2
<1>3. CASE Lookup(c)       BY <1>1, <1>3 DEF Lookup
<1>4. CASE Resolve(c)      BY <1>1, <1>4 DEF Resolve
<1>5. CASE FlipRunning(c)  BY <1>1, <1>5 DEF FlipRunning
<1>6. CASE Record(c)       BY <1>1, <1>6 DEF Record
<1>7. CASE c \in Human /\ ReportAnswer(c)  BY <1>1, <1>7 DEF ReportAnswer
<1>8. CASE c \in Human /\ \E a \in Ask : Submit(c, a)  BY <1>1, <1>8 DEF Submit
<1>9. CASE c \in Ask /\ FireTimer(c)  BY <1>1, <1>9 DEF FireTimer
<1>10. CASE c \in Ask /\ Decide(c)    BY <1>1, <1>10 DEF Decide
<1> QED BY <1>2, <1>3, <1>4, <1>5, <1>6, <1>7, <1>8, <1>9, <1>10
        DEF CallStep, CallerStep

\* Run touches neither the channel nor the threads that use it.
LEMMA RunStepKeeps ==
  ASSUME IInv, RunStep
  PROVE  ControlInv' /\ OfferInv' /\ LatchInv'
<1>1. UNCHANGED <<askvars, callvars, aborted>>
      BY DEF RunStep, SetupDone, SetupFails, LogFails, Deadline, Cancel, AgentExits, Classify,
             Collect, CloseChannel, FinalRecord, ProcessExit, Ended, vars, askvars,
             callvars, runvars
<1> QED BY <1>1 DEF IInv, ControlInv, TargetInv, PendingInv, ToldInv, StageInv, LookupInv,
            OfferInv, LatchInv, Gave, Won, askvars, callvars

\* An executing agent is released by a timeout only where Ask leaves with one.
LEMMA AskStepOutcome ==
  ASSUME IInv, NEW a \in Ask, Accept(a) \/ AskStep(a)
  PROVE  OutcomeInv'
<1> USE DEF None, Terminal, recvars, runvars, AskGoto, IInv, ControlInv, TypeOK, ToldInv, OutcomeInv
<1>1. CASE Accept(a)         BY <1>1 DEF Accept, askvars
<1>2. CASE Refuse(a)         BY <1>2 DEF Refuse
<1>3. CASE Register(a)       BY <1>3 DEF Register
<1>4. CASE WriteQuestion(a)  BY <1>4 DEF WriteQuestion
<1>5. CASE CountQuestion(a)  BY <1>5 DEF CountQuestion
<1>6. CASE FlipWaiting(a)    BY <1>6 DEF FlipWaiting
<1>7. CASE ArmTimer(a)       BY <1>7 DEF ArmTimer
<1>8. CASE Receive(a)        BY <1>8 DEF Receive
<1>9. CASE GiveUp(a)         BY <1>9 DEF GiveUp
<1>10. CASE Leave(a)         BY <1>10 DEF Leave
<1> QED BY <1>1, <1>2, <1>3, <1>4, <1>5, <1>6, <1>7, <1>8, <1>9, <1>10 DEF AskStep

\* A caller of Bridge.Answer neither releases the agent nor decides on the result.
LEMMA CallStepOutcome ==
  ASSUME IInv, NEW c \in Caller, CallerStep(c)
  PROVE  OutcomeInv'
<1>1. UNCHANGED <<told, runpc, outcome, freed>>
      BY DEF CallerStep, CallStep, Lookup, Send, Resolve, FlipRunning, Record,
             ReportAnswer, Submit, FireTimer, Decide, askvars, recvars, runvars
<1> QED BY <1>1 DEF IInv, OutcomeInv

\* The switch after the exec sees the abort of every run that a timeout released: the
\* latch is free there, so LatchInv leaves no other case.
LEMMA RunStepOutcome ==
  ASSUME IInv, RunStep
  PROVE  OutcomeInv'
<1> USE DEF None, Terminal, FailureResults, askvars, callvars, recvars, IInv, TypeOK,
        OutcomeInv
<1>1. CASE SetupDone     BY <1>1 DEF SetupDone
<1>2. CASE SetupFails    BY <1>2 DEF SetupFails
<1>3. CASE Deadline      BY <1>3 DEF Deadline
<1>4. CASE Cancel        BY <1>4 DEF Cancel
<1>5. CASE AgentExits    BY <1>5 DEF AgentExits
<1>6. CASE Classify
      <2>1. AbortPolicy /\ freed => aborted
            BY <1>6 DEF Classify, LatchHeld, LatchInv, InHandler
      <2> QED BY <1>6, <2>1 DEF Classify
<1>7. CASE Collect       BY <1>7 DEF Collect
<1>8. CASE CloseChannel  BY <1>8 DEF CloseChannel
<1>9. CASE FinalRecord   BY <1>9 DEF FinalRecord
<1>10. CASE ProcessExit  BY <1>10 DEF ProcessExit
<1>11. CASE Ended        BY <1>11 DEF Ended, vars, runvars
<1>12. CASE LogFails     BY <1>12 DEF LogFails
<1> QED BY <1>1, <1>2, <1>3, <1>4, <1>5, <1>6, <1>7, <1>8, <1>9, <1>10, <1>11, <1>12
        DEF RunStep

\* Every step is a step of an ask_human call, of a caller of Bridge.Answer, or of Run.
LEMMA NextCases ==
  Next => \/ \E a \in Ask : Accept(a) \/ AskStep(a)
          \/ \E c \in Caller : CallerStep(c)
          \/ RunStep
BY DEF Next, CallerStep, Caller

\* IInv is inductive.
LEMMA NextInv == IInv /\ [Next]_vars => IInv'
<1> SUFFICES ASSUME IInv, [Next]_vars PROVE IInv'  OBVIOUS
<1>1. CASE \E a \in Ask : Accept(a) \/ AskStep(a)
      BY <1>1, AskStepType, AskStepControl, AskStepOffer, AskStepOutcome DEF IInv
<1>2. CASE \E c \in Caller : CallerStep(c)
      BY <1>2, CallStepType, CallStepControl, CallStepOffer, CallStepOutcome
      DEF IInv, ControlInv
<1>3. CASE RunStep
      <2>1. outcome \in Terminal \/ runpc # "final"  BY DEF IInv, OutcomeInv
      <2> QED BY <1>3, <2>1, RunStepType, RunStepKeeps, RunStepOutcome DEF IInv
<1>4. CASE UNCHANGED vars
      BY <1>4 DEF IInv, TypeOK, ControlInv, TargetInv, PendingInv, ToldInv, StageInv,
         LookupInv, OfferInv, LatchInv, OutcomeInv, Gave, Won, vars, askvars, callvars,
         recvars, runvars
<1> QED BY <1>1, <1>2, <1>3, <1>4, NextCases

\* The inductive invariant holds throughout every run.
THEOREM Invariance == Spec => []IInv
BY InitInv, NextInv, PTL DEF Spec

\* Every variable keeps its type: in particular Run never writes a final record
\* without having decided on a result.
THEOREM TypeCorrect == Spec => []TypeOK
<1>1. IInv => TypeOK  BY DEF IInv
<1> QED BY <1>1, Invariance, PTL

\* Under `abort`, a run whose agent was released by a question timeout is never
\* recorded as done, whatever the number of questions, timers and operators.
THEOREM AbortSafety == Spec => []AbortNeverDone
<1>1. IInv => AbortNeverDone  BY DEF IInv, OutcomeInv, AbortNeverDone
<1> QED BY <1>1, Invariance, PTL

-----------------------------------------------------------------------------
(* The bound on pending questions.                                           *)

\* The set of pending questions is finite, and within the bound.
BoundInv == IsFiniteSet(pending) /\ PendingBounded

\* The map of questions is empty at first.
LEMMA InitBound == Init => BoundInv
BY FS_EmptySet, AskBridgeAssumption DEF Init, BoundInv, PendingBounded

\* Register is the only step that adds a question, and it adds one, below the bound.
LEMMA NextBound == IInv /\ BoundInv /\ [Next]_vars => BoundInv'
<1> SUFFICES ASSUME IInv, BoundInv, [Next]_vars PROVE BoundInv'  OBVIOUS
<1>0. Cardinality(pending) \in Nat
      BY FS_CardinalityType DEF BoundInv
<1>1. CASE \E a \in Ask : Register(a)
      <2>1. PICK a \in Ask : Register(a)  BY <1>1
      <2>2. /\ IsFiniteSet(pending \cup {a})
            /\ \/ Cardinality(pending \cup {a}) = Cardinality(pending)
               \/ Cardinality(pending \cup {a}) = Cardinality(pending) + 1
            BY FS_AddElement DEF BoundInv
      <2> QED BY <1>0, <2>1, <2>2, AskBridgeAssumption DEF Register, BoundInv, PendingBounded
<1>2. CASE \E a \in Ask : Leave(a)
      <2>1. PICK a \in Ask : pending' = pending \ {a}  BY <1>2 DEF Leave
      <2>2. IsFiniteSet(pending') /\ Cardinality(pending') <= Cardinality(pending)
            BY <2>1, FS_Subset DEF BoundInv
      <2>3. Cardinality(pending') \in Nat
            BY <2>2, FS_CardinalityType
      <2> QED BY <1>0, <2>2, <2>3, AskBridgeAssumption DEF BoundInv, PendingBounded
<1>3. CASE UNCHANGED pending
      BY <1>3 DEF BoundInv, PendingBounded
<1>4. ASSUME NEW a \in Ask, Accept(a) \/ AskStep(a)
      PROVE  Register(a) \/ Leave(a) \/ UNCHANGED pending
      BY <1>4 DEF AskStep, Accept, Refuse, WriteQuestion, CountQuestion, FlipWaiting,
         ArmTimer, Receive, GiveUp
<1>5. ASSUME NEW c \in Caller, CallerStep(c)
      PROVE  UNCHANGED pending
      BY <1>5 DEF CallerStep, CallStep, Lookup, Send, Resolve, FlipRunning, Record,
         ReportAnswer, Submit, FireTimer, Decide, askvars
<1>6. CASE RunStep
      BY <1>3, <1>6 DEF RunStep, SetupDone, SetupFails, LogFails, Deadline, Cancel, AgentExits,
         Classify, Collect, CloseChannel, FinalRecord, ProcessExit, Ended, vars, askvars
<1>7. CASE UNCHANGED vars
      BY <1>3, <1>7 DEF vars, askvars
<1> QED BY <1>1, <1>2, <1>3, <1>4, <1>5, <1>6, <1>7, NextCases

\* The sandbox never holds more than maxPendingQuestions questions in the host.
THEOREM Bounded == Spec => []PendingBounded
<1>1. BoundInv => PendingBounded  BY DEF BoundInv
<1> QED BY <1>1, InitBound, NextBound, Invariance, PTL DEF Spec
-----------------------------------------------------------------------------
(* AskBridge implements AskChannel.                                          *)

\* The initial states map to the initial state of the abstract channel.
LEMMA InitRefines == Init => Channel!Init
BY AskBridgeAssumption
   DEF Init, Channel!Init, Phase, Offered, Reply, Won, Delivered, Caller

\* As long as the same answers stand delivered, the offered answers do not change.
LEMMA OfferedSame ==
  ASSUME \A c \in Caller : /\ Won(c)' <=> Won(c)
                           /\ Won(c) => target'[c] = target[c]
  PROVE  UNCHANGED Offered
<1>1. \A a : {c \in Caller : Won(c) /\ target[c] = a}'
             = {c \in Caller : Won(c) /\ target[c] = a}
      OBVIOUS
<1> QED BY <1>1 DEF Offered, Source

\* The questions the Bridge holds are the open questions of the abstract channel.
LEMMA OpenIsPending == IInv => Channel!Open = pending
<1> SUFFICES ASSUME IInv PROVE Channel!Open = pending  OBVIOUS
<1>1. ASSUME NEW a \in Ask
      PROVE  Phase[a] = "open" <=> askpc[a] \notin {"idle", "accepted", "returned"}
      BY DEF Phase
<1> QED BY <1>1 DEF IInv, TypeOK, AskStages, ControlInv, Channel!Open, PendingInv, Registered

\* A step of an ask_human call opens, refuses or closes its question, or is not seen.
LEMMA AskStepRefines ==
  ASSUME IInv, BoundInv, NEW a \in Ask, Accept(a) \/ AskStep(a)
  PROVE  Channel!Next \/ UNCHANGED <<Phase, Offered, Reply>>
<1>0. Channel!Cardinality(Channel!Open) = Cardinality(pending)
      BY OpenIsPending DEF Channel!Cardinality, Cardinality
<1> USE DEF IInv, ControlInv, TypeOK, AskGoto, AskStages, callvars
<1>1. UNCHANGED Offered
      <2>1. \A c \in Caller : Won(c)' <=> Won(c)
            BY DEF AskStep, Accept, Refuse, Register, WriteQuestion, CountQuestion,
               FlipWaiting, ArmTimer, Receive, GiveUp, Leave, Won, Delivered, StageInv
      <2>2. UNCHANGED target
            BY DEF AskStep, Accept, Refuse, Register, WriteQuestion, CountQuestion,
               FlipWaiting, ArmTimer, Receive, GiveUp, Leave
      <2> QED BY <2>1, <2>2, OfferedSame
<1>2. Cardinality(pending) \in Nat /\ Cardinality(pending) <= MaxPending
      BY FS_CardinalityType DEF BoundInv, PendingBounded
<1>3. CASE Register(a)
      <2>1. Phase[a] = "unasked" /\ Phase' = [Phase EXCEPT ![a] = "open"]
            BY <1>3 DEF Register, Phase
      <2>2. Reply' = Reply
            BY <1>3 DEF Register, Reply
      <2>3. Channel!OpenQuestion(a)
            BY <1>0, <1>1, <1>3, <2>1, <2>2 DEF Channel!OpenQuestion, Register
      <2> QED BY <2>3 DEF Channel!Next
<1>4. CASE Refuse(a)
      <2>1. Phase[a] = "unasked" /\ Phase' = [Phase EXCEPT ![a] = "closed"]
            BY <1>4 DEF Refuse, Phase
      <2>2. Reply' = [Reply EXCEPT ![a] = Channel!NoAnswer]
            BY <1>4 DEF Refuse, Reply, Channel!NoAnswer, None
      <2>3. Cardinality(pending) = MaxPending
            BY <1>2, <1>4, AskBridgeAssumption DEF Refuse
      <2>4. Channel!RefuseQuestion(a)
            BY <1>0, <1>1, <2>1, <2>2, <2>3 DEF Channel!RefuseQuestion
      <2> QED BY <2>4 DEF Channel!Next
<1>5. CASE Leave(a)
      <2>1. Phase[a] = "open" /\ Phase' = [Phase EXCEPT ![a] = "closed"]
            BY <1>5 DEF Leave, Phase
      <2>2. Reply' = [Reply EXCEPT ![a] = told[a]]
            BY <1>5 DEF Leave, Reply
      <2>3. told[a] \in {None, "human", "timeout"}
            BY <1>5 DEF Leave, ToldInv
      <2>4. told[a] \in Offered[a] \cup {Channel!NoAnswer}
            BY <2>3 DEF OfferInv, Gave, Offered, Channel!NoAnswer, None
      <2>5. Channel!CloseQuestion(a)
            BY <1>1, <2>1, <2>2, <2>4 DEF Channel!CloseQuestion
      <2> QED BY <2>5 DEF Channel!Next
<1>6. CASE \/ Accept(a) \/ WriteQuestion(a) \/ CountQuestion(a) \/ FlipWaiting(a)
           \/ ArmTimer(a) \/ Receive(a) \/ GiveUp(a)
      <2>1. UNCHANGED Phase
            BY <1>6 DEF Accept, WriteQuestion, CountQuestion, FlipWaiting, ArmTimer,
               Receive, GiveUp, Phase
      <2>2. UNCHANGED Reply
            BY <1>6 DEF Accept, WriteQuestion, CountQuestion, FlipWaiting, ArmTimer,
               Receive, GiveUp, Reply
      <2> QED BY <1>1, <2>1, <2>2
<1> QED BY <1>3, <1>4, <1>5, <1>6 DEF AskStep

\* A send that Bridge.Answer reports as successful offers an answer; nothing else that a
\* caller does is seen.
LEMMA CallStepRefines ==
  ASSUME IInv, NEW c \in Caller, CallerStep(c)
  PROVE  Channel!Next \/ UNCHANGED <<Phase, Offered, Reply>>
<1> USE DEF IInv, ControlInv, TypeOK, CallGoto, callvars
<1>1. UNCHANGED <<Phase, Reply>>
      BY DEF CallerStep, CallStep, Lookup, Send, Resolve, FlipRunning, Record,
         ReportAnswer, Submit, FireTimer, Decide, askvars, Phase, Reply
<1>2. CASE Send(c) /\ chan[target[c]] = None
      <2>1. target[c] \in Ask
            BY <1>2, AskBridgeAssumption DEF Send, TargetInv, Caller
      <2>2. /\ ~Won(c) /\ Won(c)' /\ UNCHANGED target
            /\ \A d \in Caller : d # c => (Won(d)' <=> Won(d))
            BY <1>2 DEF Send, Won, Delivered
      <2>3. ASSUME NEW a \in Ask
            PROVE  Offered'[a] = IF a = target[c] THEN Offered[a] \cup {Source(c)}
                                 ELSE Offered[a]
            <3>1. {d \in Caller : Won(d) /\ target[d] = a}'
                  = IF a = target[c]
                    THEN {d \in Caller : Won(d) /\ target[d] = a} \cup {c}
                    ELSE {d \in Caller : Won(d) /\ target[d] = a}
                  BY <2>2
            <3> QED BY <3>1 DEF Offered, Source
      <2>4. Offered' = [Offered EXCEPT ![target[c]] = @ \cup {Source(c)}]
            BY <2>1, <2>3 DEF Offered
      <2>5. Phase[target[c]] # "unasked"
            BY <1>2, <2>1 DEF Send, Phase, LookupInv
      <2>6. Channel!Offer(target[c], Source(c))
            BY <1>1, <2>4, <2>5 DEF Channel!Offer
      <2>7. Source(c) \in Channel!Kinds
            BY DEF Source, Channel!Kinds
      <2> QED BY <2>1, <2>6, <2>7 DEF Channel!Next
<1>3. CASE ~(Send(c) /\ chan[target[c]] = None)
      <2>1. \A d \in Caller : /\ Won(d)' <=> Won(d)
                              /\ Won(d) => target'[d] = target[d]
            BY <1>3 DEF CallerStep, CallStep, Lookup, Send, Resolve, FlipRunning, Record,
               ReportAnswer, Submit, FireTimer, Decide, Won, Delivered, Caller
      <2> QED BY <1>1, <2>1, OfferedSame
<1> QED BY <1>2, <1>3

\* Run is not seen on the channel.
LEMMA RunStepRefines ==
  ASSUME RunStep
  PROVE  UNCHANGED <<Phase, Offered, Reply>>
<1>1. UNCHANGED <<askvars, callvars>>
      BY DEF RunStep, SetupDone, SetupFails, LogFails, Deadline, Cancel, AgentExits, Classify,
             Collect, CloseChannel, FinalRecord, ProcessExit, Ended, vars
<1> QED BY <1>1, OfferedSame DEF Phase, Reply, Won, askvars, callvars

\* Every step is a step of the abstract channel, or is not seen there.
LEMMA NextRefines == IInv /\ BoundInv /\ [Next]_vars => [Channel!Next]_Channel!vars
<1> SUFFICES ASSUME IInv, BoundInv, [Next]_vars
             PROVE  Channel!Next \/ UNCHANGED <<Phase, Offered, Reply>>
    BY DEF Channel!vars
<1>1. CASE UNCHANGED vars
      BY <1>1, OfferedSame DEF Phase, Reply, Won, vars, askvars, callvars
<1> QED BY <1>1, NextCases, AskStepRefines, CallStepRefines, RunStepRefines

\* The threads of a run together implement the abstract channel: a question is answered
\* at most once, with an answer someone gave, and within the bound.
THEOREM Refinement == Spec => ChannelSpec
<1>1. Spec => []BoundInv
      BY InitBound, NextBound, Invariance, PTL DEF Spec
<1> QED BY <1>1, InitRefines, NextRefines, Invariance, PTL DEF Spec, ChannelSpec, Channel!Spec
=============================================================================
