---------------------------- MODULE Session_proofs ----------------------------
(***************************************************************************)
(* Theorems about Session, for any number of attaches, stops, rms and        *)
(* crashes.  The three safety properties rest on different parts of one       *)
(* inductive invariant: OneInside on the lock and on the order of owner and   *)
(* attaches, NoneStranded on what each record says of the process it names,   *)
(* SandboxReachable on who may have recorded an end, and what had gone by     *)
(* then.                                                                     *)
(***************************************************************************)
EXTENDS Session, TLAPS

\* From the lock to its release, an attach is its holder.
Locked == {"locked", "claimed", "tty", "collect", "probe", "final", "unlock"}
LockHeld == ~lockGone => \A p \in Attach : pc[p] \in Locked => lock = p

\* No attach comes in, and no session is kept, before the owner has ended.
OwnerFirst ==
  pc[Owner] \notin EndStages =>
    /\ meta.state # "kept"
    /\ meta.pid \notin Attach
    /\ \A p \in Attach : ~Inside(p)

\* A live record names a process that has begun and has a record yet to write.
Named ==
  meta.state \in {"starting", "running"} =>
    /\ meta.pid \in Super
    /\ pc[meta.pid] \notin {"idle", "locked", "unlock", "exited"}

\* What a process is about to record is an end, or a hand-over.
Decided ==
  /\ pc[Owner] \in {"stop", "remove"} => reg[Owner].state \in Terminal
  /\ pc[Owner] = "final" => reg[Owner].state \in Terminal \cup {"kept"}
  /\ \A p \in Attach : pc[p] = "final" =>
       reg[p].state \in {"kept", "failed"} /\ reg[p].pid = None

\* The session is over and its sandbox with it, but for a create that outlived krayt.
Gone == pc[Owner] \in EndStages /\ (sandbox = "absent" \/ late)

\* What a stop found when it read the record.
StopSees ==
  \A s \in Stop :
    /\ pc[s] = "signal" =>
         reg[s].pid \in Super /\ (reg[s].pid \in Attach => pc[Owner] \in EndStages)
    /\ pc[s] \in {"list", "stop", "remove"} => pc[Owner] \in EndStages
    /\ pc[s] = "final" => Gone

\* There is no sandbox before there is one, nor after its owner has recorded an end.
OwnerVM ==
  /\ pc[Owner] \in {"idle", "create", "creating"} => sandbox = "absent"
  /\ pc[Owner] = "final" /\ reg[Owner].state \in Terminal => sandbox = "absent"

\* Unless a removal was forced, an end is recorded, and a record removed, only when the
\* sandbox is gone.
EndIsGone ==
  ~forced =>
    /\ meta.state \in Terminal => Gone
    /\ meta.state = "absent" => pc[Owner] = "idle" \/ Gone
    /\ \A r \in Rm : pc[r] = "delete" => Gone
    /\ \A p \in Attach : pc[p] = "final" /\ reg[p].state = "failed" => Gone

SessionInv ==
  /\ SessionTypeOK
  /\ LockHeld
  /\ OwnerFirst
  /\ Named
  /\ Decided
  /\ StopSees
  /\ OwnerVM
  /\ EndIsGone

\* Types are kept.  Of the two outcomes of a step that has two, each is taken apart.
LEMMA TypeStep ==
  ASSUME SessionTypeOK, [SessionNext]_sessionVars
  PROVE  SessionTypeOK'
<1> USE SessionAssumption DEF SessionTypeOK, Goto, Hold, Proc, Super, MetaRecord, NoRecord, States,
                              Terminal, EndStages, None
<1>1. CASE CreateReturns
  <2>1. CASE sandbox' = "up" /\ Goto(Owner, "setup") /\ UNCHANGED reg
    BY <1>1, <2>1 DEF CreateReturns
  <2>2. CASE sandbox' \in {"absent", "up"} /\ Hold(Owner, "failed", Owner) /\ Goto(Owner, "stop")
    BY <1>1, <2>2 DEF CreateReturns
  <2> QED BY <1>1, <2>1, <2>2 DEF CreateReturns
<1>2. CASE OrphanedCreateReturns
  <2>1. creating' \in BOOLEAN /\ late' \in BOOLEAN
    BY <1>2, Zenon DEF OrphanedCreateReturns
  <2> QED BY <1>2, <2>1 DEF OrphanedCreateReturns
<1>3. CASE \E s \in Stop : StopReads(s)
  BY <1>3 DEF StopReads
<1>4. CASE \E s \in Stop : StopSignals(s)
  <2> PICK s \in Stop : StopSignals(s)
    BY <1>4
  <2>1. CASE Live(reg[s].pid)
    BY <2>1 DEF StopSignals, Live
  <2>2. CASE ~Live(reg[s].pid)
    BY <2>2 DEF StopSignals
  <2> QED BY <2>1, <2>2
<1>5. CASE \E p \in Super : KillSession(p)
  BY <1>5 DEF KillSession
<1>6. CASE \E r \in Rm : RmReads(r)
  <2> PICK r \in Rm : RmReads(r)
    BY <1>6
  <2>1. CASE Goto(r, "delete") /\ UNCHANGED forced
    BY <2>1 DEF RmReads
  <2>2. CASE Goto(r, "delete") /\ forced' = TRUE
    BY <2>2 DEF RmReads
  <2>3. CASE Goto(r, "exited") /\ UNCHANGED forced
    BY <2>3 DEF RmReads
  <2> QED BY <2>1, <2>2, <2>3 DEF RmReads
<1>7. CASE \E r \in Rm : RmDeletes(r)
  <2>1. lockGone' \in BOOLEAN
    BY <1>7, Zenon DEF RmDeletes
  <2> QED BY <1>7, <2>1 DEF RmDeletes
<1>8. CASE OwnerCollects
  BY <1>8 DEF OwnerCollects
<1>9. CASE StartCreate
  <2>1. creating' \in BOOLEAN
    BY <1>9, Zenon DEF StartCreate
  <2> QED BY <1>9, <2>1 DEF StartCreate
<1>10. CASE BeginSession \/ Abandon \/ SetupDone \/ OwnerStops \/ OwnerRemoves \/ OwnerRecords
  BY <1>10 DEF BeginSession, Abandon, SetupDone, OwnerStops, OwnerRemoves, OwnerRecords
<1>11. CASE
       \/ \E p \in Attach : TakeLock(p) \/ CheckKept(p) \/ Claim(p) \/ AttachCollects(p)
            \/ ProbeSandbox(p) \/ AttachRecords(p) \/ Unlock(p)
       \/ \E p \in Super : LeaveTTY(p) \/ InterruptSession(p)
  BY <1>11 DEF TakeLock, CheckKept, Claim, AttachCollects, ProbeSandbox, AttachRecords, Unlock,
               LeaveTTY, InterruptSession
<1>12. CASE \E s \in Stop : StopLists(s) \/ StopStops(s) \/ StopRemoves(s) \/ StopRecords(s)
  BY <1>12 DEF StopLists, StopStops, StopRemoves, StopRecords
<1>13. CASE
       \/ Quiet
       \/ UNCHANGED sessionVars
  BY <1>13 DEF Quiet, sessionVars
<1> QED BY <1>1, <1>2, <1>3, <1>4, <1>5, <1>6, <1>7, <1>8, <1>9, <1>10, <1>11, <1>12,
           <1>13
        DEF SessionNext, OwnerStep, AttachStep, StopStep

\* A lock is taken from nobody else, and dropped only by its holder, at its end, or with
\* the file.
LEMMA LockStep ==
  ASSUME SessionTypeOK, LockHeld, [SessionNext]_sessionVars
  PROVE  LockHeld'
<1> USE SessionAssumption DEF SessionTypeOK, LockHeld, Locked, Goto, Proc, Super, EndStages, None
<1>1. CASE \E p \in Attach : TakeLock(p)
  BY <1>1 DEF TakeLock
<1>2. CASE \E p \in Attach : Unlock(p)
  BY <1>2 DEF Unlock
<1>3. CASE \E p \in Super : KillSession(p)
  BY <1>3 DEF KillSession
<1>4. CASE \E r \in Rm : RmDeletes(r)
  BY <1>4 DEF RmDeletes
<1>5. CASE
       \/ \E p \in Attach : CheckKept(p) \/ Claim(p) \/ AttachCollects(p) \/ ProbeSandbox(p)
            \/ AttachRecords(p)
       \/ \E p \in Super : LeaveTTY(p)
  BY <1>5 DEF CheckKept, Claim, AttachCollects, ProbeSandbox, AttachRecords, LeaveTTY
<1>6. CASE
       \/ BeginSession \/ Abandon \/ StartCreate \/ CreateReturns \/ SetupDone \/ OwnerCollects
       \/ OwnerStops \/ OwnerRemoves \/ OwnerRecords \/ OrphanedCreateReturns \/ Quiet
       \/ \E p \in Super : InterruptSession(p)
       \/ \E s \in Stop : StopReads(s) \/ StopSignals(s) \/ StopLists(s) \/ StopStops(s)
            \/ StopRemoves(s) \/ StopRecords(s)
       \/ \E r \in Rm : RmReads(r)
       \/ UNCHANGED sessionVars
  BY <1>6 DEF BeginSession, Abandon, StartCreate, CreateReturns, SetupDone, OwnerCollects,
              OwnerStops, OwnerRemoves, OwnerRecords, OrphanedCreateReturns, Quiet,
              InterruptSession, StopReads, StopSignals, StopLists, StopStops, StopRemoves,
              StopRecords, RmReads, sessionVars
<1> QED BY <1>1, <1>2, <1>3, <1>4, <1>5, <1>6
        DEF SessionNext, OwnerStep, AttachStep, StopStep

\* A session is kept only by its owner's last step; an attach comes in only to a kept one.
LEMMA FirstStep ==
  ASSUME SessionTypeOK, OwnerFirst, [SessionNext]_sessionVars
  PROVE  OwnerFirst'
<1> USE SessionAssumption DEF SessionTypeOK, OwnerFirst, Inside, Goto, Hold, Proc, Super,
                              MetaRecord, NoRecord, Terminal, EndStages, None
<1>1. CASE OwnerRecords
  BY <1>1 DEF OwnerRecords
<1>2. CASE \E p \in Attach : CheckKept(p)
  BY <1>2 DEF CheckKept
<1>3. CASE
       \/ \E p \in Attach : Claim(p) \/ AttachCollects(p) \/ ProbeSandbox(p)
            \/ AttachRecords(p)
       \/ \E p \in Super : LeaveTTY(p)
  BY <1>3 DEF Claim, AttachCollects, ProbeSandbox, AttachRecords, LeaveTTY
<1>4. CASE \E s \in Stop : StopRecords(s)
  BY <1>4 DEF StopRecords
<1>5. CASE
       \/ BeginSession \/ Abandon \/ StartCreate \/ CreateReturns \/ SetupDone \/ OwnerCollects
       \/ OwnerStops \/ OwnerRemoves \/ OrphanedCreateReturns \/ Quiet
       \/ \E p \in Super : InterruptSession(p) \/ KillSession(p)
       \/ \E p \in Attach : TakeLock(p) \/ Unlock(p)
       \/ \E s \in Stop : StopReads(s) \/ StopSignals(s) \/ StopLists(s) \/ StopStops(s)
            \/ StopRemoves(s)
       \/ \E r \in Rm : RmReads(r) \/ RmDeletes(r)
       \/ UNCHANGED sessionVars
  BY <1>5 DEF BeginSession, Abandon, StartCreate, CreateReturns, SetupDone, OwnerCollects,
              OwnerStops, OwnerRemoves, OrphanedCreateReturns, Quiet, InterruptSession, KillSession,
              TakeLock, Unlock, StopReads, StopSignals, StopLists, StopStops,
              StopRemoves, RmReads, RmDeletes, sessionVars
<1> QED BY <1>1, <1>2, <1>3, <1>4, <1>5
        DEF SessionNext, OwnerStep, AttachStep, StopStep

\* Whoever writes a live record goes on to write another one before it ends.
LEMMA NamedStep ==
  ASSUME SessionTypeOK, Named, Decided, [SessionNext]_sessionVars
  PROVE  Named'
<1> USE SessionAssumption DEF SessionTypeOK, Named, Decided, Goto, Proc, Super, MetaRecord,
                              NoRecord, Terminal, EndStages, None
<1>1. CASE BeginSession \/ SetupDone
  BY <1>1 DEF BeginSession, SetupDone
<1>2. CASE
       \/ OwnerRecords
       \/ \E p \in Attach : AttachRecords(p)
  BY <1>2 DEF OwnerRecords, AttachRecords
<1>3. CASE \E p \in Attach : Claim(p)
  BY <1>3 DEF Claim
<1>4. CASE \E p \in Attach : TakeLock(p) \/ CheckKept(p) \/ Unlock(p)
  BY <1>4 DEF TakeLock, CheckKept, Unlock
<1>5. CASE
       \/ \E s \in Stop : StopRecords(s)
       \/ \E r \in Rm : RmDeletes(r)
  BY <1>5 DEF StopRecords, RmDeletes
<1>6. CASE
       \/ Abandon \/ StartCreate \/ CreateReturns \/ OwnerCollects \/ OwnerStops \/ OwnerRemoves
       \/ OrphanedCreateReturns \/ Quiet
       \/ \E p \in Super : LeaveTTY(p) \/ InterruptSession(p) \/ KillSession(p)
       \/ \E p \in Attach : AttachCollects(p) \/ ProbeSandbox(p)
       \/ \E s \in Stop : StopReads(s) \/ StopSignals(s) \/ StopLists(s) \/ StopStops(s)
            \/ StopRemoves(s)
       \/ \E r \in Rm : RmReads(r)
       \/ UNCHANGED sessionVars
  BY <1>6 DEF Abandon, StartCreate, CreateReturns, OwnerCollects, OwnerStops,
              OwnerRemoves, OrphanedCreateReturns, Quiet, LeaveTTY, InterruptSession, KillSession,
              AttachCollects, ProbeSandbox, StopReads, StopSignals, StopLists, StopStops,
              StopRemoves, RmReads, sessionVars
<1> QED BY <1>1, <1>2, <1>3, <1>4, <1>5, <1>6
        DEF SessionNext, OwnerStep, AttachStep, StopStep

\* The record to be written is settled on the way to where it is written.
LEMMA DecidedStep ==
  ASSUME SessionTypeOK, Decided, [SessionNext]_sessionVars
  PROVE  Decided'
<1> USE SessionAssumption DEF SessionTypeOK, Decided, Goto, Hold, Proc, Super, MetaRecord,
                              Terminal, EndStages, None
<1>1. CASE Abandon \/ CreateReturns \/ OwnerCollects \/ OwnerStops \/ OwnerRemoves
  BY <1>1 DEF Abandon, CreateReturns, OwnerCollects, OwnerStops, OwnerRemoves
<1>2. CASE \E p \in Attach : AttachCollects(p) \/ ProbeSandbox(p)
  BY <1>2 DEF AttachCollects, ProbeSandbox
<1>3. CASE
       \/ BeginSession \/ StartCreate \/ SetupDone \/ OwnerRecords \/ OrphanedCreateReturns \/ Quiet
       \/ \E p \in Super : LeaveTTY(p) \/ InterruptSession(p) \/ KillSession(p)
       \/ \E p \in Attach : TakeLock(p) \/ CheckKept(p) \/ Claim(p) \/ AttachRecords(p)
            \/ Unlock(p)
       \/ \E s \in Stop : StopReads(s) \/ StopSignals(s) \/ StopLists(s) \/ StopStops(s)
            \/ StopRemoves(s) \/ StopRecords(s)
       \/ \E r \in Rm : RmReads(r) \/ RmDeletes(r)
       \/ UNCHANGED sessionVars
  BY <1>3 DEF BeginSession, StartCreate, SetupDone, OwnerRecords, OrphanedCreateReturns, Quiet,
              LeaveTTY, InterruptSession, KillSession, TakeLock, CheckKept, Claim, AttachRecords,
              Unlock, StopReads, StopSignals, StopLists, StopStops, StopRemoves,
              StopRecords, RmReads, RmDeletes, sessionVars
<1> QED BY <1>1, <1>2, <1>3
        DEF SessionNext, OwnerStep, AttachStep, StopStep

\* What a stop has found goes on to hold: the owner's end is final, and a sandbox that is
\* gone comes back only by a late create.
LEMMA SeesStep ==
  ASSUME SessionTypeOK, Named, OwnerFirst, StopSees, [SessionNext]_sessionVars
  PROVE  StopSees'
<1> USE SessionAssumption DEF SessionTypeOK, Named, OwnerFirst, StopSees, Gone, Live, Goto,
                              Hold, Proc, Super, MetaRecord, NoRecord, Terminal, States,
                              EndStages, None
<1>1. CASE \E s \in Stop : StopReads(s)
  BY <1>1 DEF StopReads
<1>2. CASE \E s \in Stop : StopSignals(s)
  BY <1>2 DEF StopSignals
<1>3. CASE \E s \in Stop : StopLists(s)
  BY <1>3 DEF StopLists
<1>4. CASE \E s \in Stop : StopStops(s)
  BY <1>4 DEF StopStops
<1>5. CASE \E s \in Stop : StopRemoves(s)
  BY <1>5 DEF StopRemoves
<1>6. CASE \E s \in Stop : StopRecords(s)
  BY <1>6 DEF StopRecords
<1>7. CASE OrphanedCreateReturns
  BY <1>7 DEF OrphanedCreateReturns
<1>8. CASE CreateReturns
  BY <1>8 DEF CreateReturns
<1>9. CASE
       \/ BeginSession \/ Abandon \/ StartCreate \/ SetupDone \/ OwnerCollects \/ OwnerStops
       \/ OwnerRemoves \/ OwnerRecords \/ Quiet
       \/ \E p \in Super : LeaveTTY(p) \/ InterruptSession(p) \/ KillSession(p)
       \/ \E p \in Attach : TakeLock(p) \/ CheckKept(p) \/ Claim(p) \/ AttachCollects(p)
            \/ ProbeSandbox(p) \/ AttachRecords(p) \/ Unlock(p)
       \/ \E r \in Rm : RmReads(r) \/ RmDeletes(r)
       \/ UNCHANGED sessionVars
  BY <1>9 DEF BeginSession, Abandon, StartCreate, SetupDone, OwnerCollects, OwnerStops,
              OwnerRemoves, OwnerRecords, Quiet, LeaveTTY, InterruptSession, KillSession, TakeLock,
              CheckKept, Claim, AttachCollects, ProbeSandbox, AttachRecords, Unlock, RmReads,
              RmDeletes, sessionVars
<1> QED BY <1>1, <1>2, <1>3, <1>4, <1>5, <1>6, <1>7, <1>8, <1>9
        DEF SessionNext, OwnerStep, AttachStep, StopStep

\* No sandbox comes about but by a create that returns.
LEMMA VMStep ==
  ASSUME SessionTypeOK, OwnerVM, Decided, [SessionNext]_sessionVars
  PROVE  OwnerVM'
<1> USE SessionAssumption DEF SessionTypeOK, OwnerVM, Decided, Goto, Hold, Proc, Super, MetaRecord,
                              Terminal, EndStages, None
<1>1. CASE CreateReturns
  BY <1>1 DEF CreateReturns
<1>2. CASE OwnerCollects
  BY <1>2 DEF OwnerCollects
<1>3. CASE OwnerStops \/ OwnerRemoves
  BY <1>3 DEF OwnerStops, OwnerRemoves
<1>4. CASE OrphanedCreateReturns
  BY <1>4 DEF OrphanedCreateReturns
<1>5. CASE \E s \in Stop : StopStops(s) \/ StopRemoves(s)
  BY <1>5 DEF StopStops, StopRemoves
<1>6. CASE
       \/ BeginSession \/ Abandon \/ StartCreate \/ SetupDone \/ OwnerRecords \/ Quiet
       \/ \E p \in Super : LeaveTTY(p) \/ InterruptSession(p) \/ KillSession(p)
       \/ \E p \in Attach : TakeLock(p) \/ CheckKept(p) \/ Claim(p) \/ AttachCollects(p)
            \/ ProbeSandbox(p) \/ AttachRecords(p) \/ Unlock(p)
       \/ \E s \in Stop : StopReads(s) \/ StopSignals(s) \/ StopLists(s)
            \/ StopRecords(s)
       \/ \E r \in Rm : RmReads(r) \/ RmDeletes(r)
       \/ UNCHANGED sessionVars
  BY <1>6 DEF BeginSession, Abandon, StartCreate, SetupDone, OwnerRecords, Quiet, LeaveTTY,
              InterruptSession, KillSession, TakeLock, CheckKept, Claim, AttachCollects, ProbeSandbox,
              AttachRecords, Unlock, StopReads, StopSignals, StopLists, StopRecords,
              RmReads, RmDeletes, sessionVars
<1> QED BY <1>1, <1>2, <1>3, <1>4, <1>5, <1>6
        DEF SessionNext, OwnerStep, AttachStep, StopStep

\* An end is recorded by the owner after its teardown, by an attach that has seen the
\* sandbox gone, or by a stop that has removed it or missed it.
LEMMA EndStep ==
  ASSUME SessionInv, [SessionNext]_sessionVars
  PROVE  EndIsGone'
<1> USE SessionAssumption DEF SessionInv, SessionTypeOK, OwnerFirst, Decided, StopSees, OwnerVM,
                              EndIsGone, Gone, Inside, Goto, Hold, Proc, Super, MetaRecord,
                              NoRecord, Terminal, States, EndStages, None
<1>1. CASE OwnerRecords
  BY <1>1 DEF OwnerRecords
<1>2. CASE \E p \in Attach : AttachRecords(p)
  BY <1>2 DEF AttachRecords
<1>3. CASE \E s \in Stop : StopRecords(s)
  BY <1>3 DEF StopRecords
<1>4. CASE \E p \in Attach : AttachCollects(p) \/ ProbeSandbox(p)
  BY <1>4 DEF AttachCollects, ProbeSandbox
<1>5. CASE \E r \in Rm : RmReads(r) \/ RmDeletes(r)
  BY <1>5 DEF RmReads, RmDeletes
<1>6. CASE CreateReturns \/ OrphanedCreateReturns
  BY <1>6 DEF CreateReturns, OrphanedCreateReturns
<1>7. CASE
       \/ BeginSession \/ Abandon \/ StartCreate \/ SetupDone \/ OwnerCollects \/ OwnerStops
       \/ OwnerRemoves \/ Quiet
       \/ \E p \in Super : LeaveTTY(p) \/ InterruptSession(p) \/ KillSession(p)
       \/ \E p \in Attach : TakeLock(p) \/ CheckKept(p) \/ Claim(p) \/ Unlock(p)
       \/ \E s \in Stop : StopReads(s) \/ StopSignals(s) \/ StopLists(s) \/ StopStops(s)
            \/ StopRemoves(s)
       \/ UNCHANGED sessionVars
  BY <1>7 DEF BeginSession, Abandon, StartCreate, SetupDone, OwnerCollects, OwnerStops,
              OwnerRemoves, Quiet, LeaveTTY, InterruptSession, KillSession, TakeLock, CheckKept,
              Claim, Unlock, StopReads, StopSignals, StopLists, StopStops, StopRemoves,
              sessionVars
<1> QED BY <1>1, <1>2, <1>3, <1>4, <1>5, <1>6, <1>7
        DEF SessionNext, OwnerStep, AttachStep, StopStep

\* There is no process but the owner about to begin, and no record.
LEMMA SessionInitInv == SessionInit => SessionInv
<1> SUFFICES ASSUME SessionInit PROVE SessionInv
  OBVIOUS
<1> USE SessionAssumption DEF SessionInit, NoRecord, Terminal, EndStages, None
<1>1. SessionTypeOK
  <2>1. creating \in BOOLEAN /\ late \in BOOLEAN /\ forced \in BOOLEAN /\ lockGone \in BOOLEAN
    BY Zenon
  <2> QED BY <2>1 DEF SessionTypeOK, Proc, Super
<1>2. LockHeld /\ OwnerFirst
  BY DEF LockHeld, Locked, OwnerFirst, Inside, Proc, Super
<1>3. Named /\ Decided /\ StopSees
  BY DEF Named, Decided, StopSees, Gone, Proc, Super
<1>4. OwnerVM /\ EndIsGone
  BY DEF OwnerVM, EndIsGone, Gone, Proc, Super
<1> QED BY <1>1, <1>2, <1>3, <1>4 DEF SessionInv

\* The inductive invariant holds of every reachable state.
THEOREM SessionInvariance == SessionSpec => []SessionInv
<1>1. SessionInv /\ [SessionNext]_sessionVars => SessionInv'
  BY TypeStep, LockStep, FirstStep, NamedStep, DecidedStep, SeesStep, VMStep, EndStep
     DEF SessionInv
<1> QED BY SessionInitInv, <1>1, PTL DEF SessionSpec

\* The types of Session's variables; in particular a kept record names no process.
THEOREM SessionTypeCorrect == SessionSpec => []SessionTypeOK
<1>1. SessionInv => SessionTypeOK
  BY DEF SessionInv
<1> QED BY SessionInvariance, <1>1, PTL

\* One terminal at a time, as long as no lock file is deleted under its holder.  An owner
\* inside keeps all attaches out; two attaches inside would both hold the lock.
THEOREM TerminalExclusive == SessionSpec => []OneInside
<1>1. SessionInv => OneInside
  <2> SUFFICES ASSUME SessionInv, ~lockGone, NEW p \in Super, NEW q \in Super,
                      Inside(p), Inside(q)
               PROVE  p = q
    BY DEF OneInside
  <2>1. CASE p \in Attach /\ q \in Attach
    BY <2>1 DEF SessionInv, LockHeld, Locked, Inside
  <2>2. CASE p = Owner \/ q = Owner
    <3>1. pc[Owner] \notin EndStages
      BY <2>2 DEF Inside, EndStages
    <3> QED BY <2>2, <3>1 DEF SessionInv, OwnerFirst, Super
  <2> QED BY <2>1, <2>2 DEF Super
<1> QED BY SessionInvariance, <1>1, PTL

\* A record that reads as live names a process that can be signalled or was killed.
THEOREM RecordsHaveAProcess == SessionSpec => []NoneStranded
<1>1. SessionInv => NoneStranded
  BY DEF SessionInv, Named, NoneStranded
<1> QED BY SessionInvariance, <1>1, PTL

\* A sandbox that is there can be found by krayt stop, unless a create outlived its krayt
\* or a removal was forced.
THEOREM SandboxFound == SessionSpec => []SandboxReachable
<1>1. SessionInv => SandboxReachable
  <2> SUFFICES ASSUME SessionInv, sandbox # "absent", ~late, ~forced
               PROVE  meta.state \in {"starting", "running", "kept"}
    BY DEF SandboxReachable
  <2>1. ~Gone /\ pc[Owner] # "idle"
    BY DEF SessionInv, Gone, OwnerVM
  <2>2. meta.state \notin Terminal \cup {"absent"}
    BY <2>1 DEF SessionInv, EndIsGone
  <2> QED BY <2>2 DEF SessionInv, SessionTypeOK, MetaRecord, NoRecord, States
<1> QED BY SessionInvariance, <1>1, PTL
=============================================================================
