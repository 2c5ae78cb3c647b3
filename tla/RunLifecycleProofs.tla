------------------------- MODULE RunLifecycleProofs -------------------------
(***************************************************************************)
(* Proofs about RunLifecycle, for any sets of runs, requests and fires,    *)
(* any thresholds and any bounds.                                          *)
(***************************************************************************)
EXTENDS RunLifecycle, TLAPS

-----------------------------------------------------------------------------
(* Type correctness.                                                       *)

\* Sets that the proofs keep closed.
LEMMA StatesAreStates ==
  /\ Working \subseteq Phases
  /\ {"idle", "launch", "closing", "done", "dead"} \subseteq Phases
  /\ Terminal \subseteq Statuses
  /\ {"none", "running"} \subseteq Statuses
BY DEF Working, Phases, Terminal, Statuses

\* Moving a thread from one phase to another keeps the threads' types.
LEMMA StepType ==
  ASSUME TypeOK, NEW r \in Runs, NEW from, NEW to \in Phases, Step(r, from, to)
  PROVE  /\ phase' \in [Runs -> Phases]
         /\ owner' \in [Runs -> Processes \cup {"nobody"}]
BY DEF TypeOK, Step

\* Finish writes a verdict to a set of rows.
LEMMA FinishType ==
  ASSUME TypeOK, NEW R, NEW s \in Statuses, Finish(R, s)
  PROVE  status' \in [Runs -> Statuses]
BY DEF TypeOK, Finish

\* The lease is refreshed or removed, the stop request made or removed.
LEMMA LeaseType ==
  ASSUME TypeOK
  PROVE  /\ \A r \in Runs : RecordHeartbeat(r) =>
              leased' \subseteq Runs /\ leaseAge' \in [Runs -> Ages]
         /\ \A R \in SUBSET Runs : ClearLease(R) =>
              leased' \subseteq Runs /\ leaseAge' \in [Runs -> Ages]
BY TimeAssumption DEF TypeOK, RecordHeartbeat, ClearLease, Ages

LEMMA AskedType ==
  ASSUME TypeOK
  PROVE  /\ \A R \in SUBSET Runs : ClearAsked(R) =>
              asked' \subseteq Runs /\ askedAge' \in [Runs -> AskedAges]
         /\ \A r \in Runs : ClearStopRequest(r) =>
              /\ marker' \in Runs \cup {NoRun}
              /\ asked' \subseteq Runs /\ askedAge' \in [Runs -> AskedAges]
         /\ \A r \in Runs : RequestStop(r) =>
              /\ marker' \in Runs \cup {NoRun}
              /\ asked' \subseteq Runs /\ askedAge' \in [Runs -> AskedAges]
BY TimeAssumption DEF TypeOK, ClearAsked, ClearStopRequest, RequestStop, AskedAges

\* An age grows by one at most, and never past one more than its threshold.
LEMMA OlderType ==
  ASSUME NEW threshold \in Nat, NEW present,
         NEW age \in [Runs -> 0..(threshold + 1)]
  PROVE  Older(present, age, threshold) \in [Runs -> 0..(threshold + 1)]
BY DEF Older

LEMMA TypeInit == Init => TypeOK
BY TimeAssumption, BoundAssumption
DEF Init, TypeOK, Statuses, Ages, AskedAges, Phases, Processes, Pcs, Ops

LEMMA ThreadType ==
  ASSUME TypeOK, NEW r \in Runs, Thread(r)
  PROVE  TypeOK'
<1> USE StatesAreStates DEF TypeOK, vars, db, threads, slots, bounds
<1>1. CASE CliRun(r)
  BY <1>1 DEF CliRun, Processes
<1>2. CASE NoActiveCriteria(r)
  BY <1>2, StepType DEF NoActiveCriteria
<1>3. CASE StartRun(r)
  <2>1. status' \in [Runs -> Statuses] /\ startAge' \in [Runs -> Ages]
    BY <1>3, TimeAssumption DEF StartRun, Ages
  <2>2. leased' \subseteq Runs /\ leaseAge' \in [Runs -> Ages]
    BY <1>3, LeaseType DEF StartRun
  <2>3. phase' \in [Runs -> Phases] /\ owner' \in [Runs -> Processes \cup {"nobody"}]
    BY <1>3, StepType DEF StartRun, Working
  <2> QED BY <1>3, <2>1, <2>2, <2>3 DEF StartRun
<1>4. CASE StartHeartbeat(r)
  BY <1>4, StepType DEF StartHeartbeat, Working
<1>5. CASE SetupFails(r)
  BY <1>5, StepType DEF SetupFails
<1>6. CASE Beat(r)
  BY <1>6, LeaseType DEF Beat
<1>7. CASE GateStops(r)
  BY <1>7, StepType DEF GateStops, Working
<1>8. CASE GatePasses(r)
  BY <1>8, StepType DEF GatePasses, Working
<1>9. CASE Raise(r)
  BY <1>9, StepType DEF Raise, Working
<1>10. CASE FinalizeReads(r)
  BY <1>10, StepType DEF FinalizeReads, FinishIfRunning, Working
<1>11. CASE FinalizeCommits(r)
  BY <1>11, StepType, FinishType DEF FinalizeCommits, Working, Statuses
<1>12. CASE WrapUp(r)
  BY <1>12, StepType, LeaseType, AskedType DEF WrapUp
<1>13. CASE HaltReads(r)
  BY <1>13, StepType DEF HaltReads, Working
<1>14. CASE HaltCommits(r)
  BY <1>14, StepType, FinishType, LeaseType, AskedType DEF HaltCommits, Statuses
<1>15. CASE AbortReads(r)
  BY <1>15, StepType DEF AbortReads, Working
<1>16. CASE AbortCommits(r)
  BY <1>16, StepType, FinishType, LeaseType DEF AbortCommits, Statuses
<1>17. CASE HandlerFails(r)
  BY <1>17, StepType DEF HandlerFails
<1>18. CASE StopHeartbeat(r)
  BY <1>18, StepType DEF StopHeartbeat
<1> QED
  BY <1>1, <1>2, <1>3, <1>4, <1>5, <1>6, <1>7, <1>8, <1>9, <1>10, <1>11, <1>12,
     <1>13, <1>14, <1>15, <1>16, <1>17, <1>18
  DEF Thread

\* A request that ends leaves its slot empty.
LEMMA IdleType ==
  ASSUME TypeOK, NEW g \in Slots, Idle(g)
  PROVE  /\ pc' \in [Slots -> Pcs] /\ op' \in [Slots -> Ops]
         /\ seen' \in [Slots -> SUBSET Runs]
         /\ victims' \in [Slots -> SUBSET Runs]
         /\ drop' \in [Slots -> BOOLEAN]
BY DEF TypeOK, Idle, Goto, Pcs, Ops

LEMMA FlagType ==
  ASSUME NEW S, NEW f \in [S -> BOOLEAN], NEW x \in S, NEW b \in BOOLEAN
  PROVE  [f EXCEPT ![x] = b] \in [S -> BOOLEAN]
OBVIOUS

LEMMA SlotType ==
  ASSUME TypeOK, NEW g \in Slots, Slot(g)
  PROVE  TypeOK'
<1> USE StatesAreStates DEF TypeOK, vars, db, threads, slots, bounds
<1>1. ASSUME NEW o \in Callers, Open(g, o) PROVE TypeOK'
  BY <1>1, CallerAssumption DEF Open, MayOpen, Goto, Pcs, Ops, RunningRows
<1>2. ASSUME NEW r \in Runs, StopReads(g, r) PROVE TypeOK'
  BY <1>2, BoundAssumption DEF StopReads, Goto, Pcs, Ops
<1>3. CASE JudgeLease(g)
  BY <1>3 DEF JudgeLease, Goto, Pcs
<1>4. CASE FailStale(g)
  BY <1>4, FinishType, LeaseType DEF FailStale, Goto, Pcs, Statuses
<1>5. CASE SelectRunning(g)
  BY <1>5 DEF SelectRunning, Goto, Pcs, RunningRows
<1>6. CASE JudgeGrace(g)
  <2>1. /\ pc' \in [Slots -> Pcs] /\ seen' \in [Slots -> SUBSET Runs]
        /\ victims' \in [Slots -> SUBSET Runs]
    BY <1>6 DEF JudgeGrace, Goto, Pcs
  <2>2. drop' \in [Slots -> BOOLEAN]
    <3> DEFINE named == marker \in {r \in seen[g] : GraceExpired(r)}
    <3>1. drop' = [drop EXCEPT ![g] = named]
      BY <1>6, Zenon DEF JudgeGrace
    <3>2. named \in BOOLEAN
      OBVIOUS
    <3> HIDE DEF named
    <3> QED BY <3>1, <3>2, FlagType, Zenon
  <2> QED BY <1>6, <2>1, <2>2 DEF JudgeGrace
<1>7. CASE StopExpired(g)
  <2>1. status' \in [Runs -> Statuses] /\ leased' \subseteq Runs
        /\ leaseAge' \in [Runs -> Ages]
    BY <1>7, FinishType, LeaseType DEF StopExpired, Statuses
  <2>2. /\ marker' \in Runs \cup {NoRun} /\ asked' \subseteq Runs
        /\ askedAge' \in [Runs -> AskedAges]
    BY <1>7, AskedType DEF StopExpired
  <2>3. /\ pc' \in [Slots -> Pcs] /\ victims' \in [Slots -> SUBSET Runs]
        /\ drop' \in [Slots -> BOOLEAN]
    BY <1>7 DEF StopExpired, Goto, Pcs
  <2> QED BY <1>7, <2>1, <2>2, <2>3 DEF StopExpired
<1>8. CASE Answer(g)
  BY <1>8, IdleType DEF Answer
<1>9. CASE MarkStop(g)
  BY <1>9, IdleType, AskedType DEF MarkStop
<1>10. CASE EndStale(g)
  BY <1>10, IdleType, FinishType, LeaseType, AskedType DEF EndStale, Statuses
<1>11. ASSUME NEW r \in Runs, Launch(g, r) PROVE TypeOK'
  BY <1>11, IdleType DEF Launch, Processes
<1>12. ASSUME NEW r \in Runs, RecordSkipped(g, r) PROVE TypeOK'
  BY <1>12, IdleType DEF RecordSkipped, Statuses
<1> QED
  BY <1>1, <1>2, <1>3, <1>4, <1>5, <1>6, <1>7, <1>8, <1>9, <1>10, <1>11, <1>12
  DEF Slot, Serve

LEMMA CrashType ==
  ASSUME TypeOK, NEW p \in Processes, Crash(p)
  PROVE  TypeOK'
<1>1. drop' \in [Slots -> BOOLEAN]
  <2> SUFFICES ASSUME NEW g \in Slots
               PROVE  (IF g \in SlotsOf(p) THEN FALSE ELSE drop[g]) \in BOOLEAN
    BY Zenon DEF Crash
  <2>1. drop[g] \in BOOLEAN
    BY DEF TypeOK
  <2> QED BY <2>1, Zenon
<1>2. /\ pc' \in [Slots -> Pcs] /\ op' \in [Slots -> Ops]
      /\ seen' \in [Slots -> SUBSET Runs] /\ victims' \in [Slots -> SUBSET Runs]
  BY DEF TypeOK, Crash, Pcs, Ops
<1>3. phase' \in [Runs -> Phases] /\ crashes' \in 0..MaxCrashes
  BY StatesAreStates, BoundAssumption DEF TypeOK, Crash
<1> QED BY <1>1, <1>2, <1>3 DEF TypeOK, Crash, db

LEMMA TickType ==
  ASSUME TypeOK, Tick
  PROVE  TypeOK'
<1>1. startAge' \in [Runs -> Ages] /\ leaseAge' \in [Runs -> Ages]
  BY OlderType, TimeAssumption DEF TypeOK, Tick, Ages
<1>2. askedAge' \in [Runs -> AskedAges]
  BY OlderType, TimeAssumption DEF TypeOK, Tick, AskedAges
<1> QED BY <1>1, <1>2 DEF TypeOK, Tick, threads, slots, bounds

\* Every variable keeps its type: in particular the recorded ages never pass
\* one more than the threshold they are compared with.
THEOREM TypeCorrect == Spec => []TypeOK
<1>1. Init => TypeOK
  BY TypeInit
<1>2. TypeOK /\ [Next]_vars => TypeOK'
  <2> SUFFICES ASSUME TypeOK, [Next]_vars PROVE TypeOK'
    OBVIOUS
  <2>1. CASE UNCHANGED vars
    BY <2>1 DEF TypeOK, vars, db, threads, slots, bounds
  <2> QED BY <2>1, ThreadType, SlotType, CrashType, TickType DEF Next
<1> QED BY <1>1, <1>2, PTL DEF Spec

-----------------------------------------------------------------------------
(* The parts of the inductive invariant, each with the parts it rests on.  *)

\* A row and every reference to it appear only after its thread or the
\* scheduler's skip has created it.
LEMMA UnstartedStep ==
  ASSUME TypeOK, Unstarted, Next
  PROVE  Unstarted'
<1> USE NoRunAssumption, TimeAssumption
    DEF TypeOK, Unstarted, Working,
        vars, db, threads, slots, bounds, Step, Goto
<1>1. ASSUME NEW q \in Runs, Thread(q) PROVE Unstarted'
  <2>1. CASE NoActiveCriteria(q) \/ StartHeartbeat(q) \/ SetupFails(q) \/ CliRun(q)
           \/ GatePasses(q) \/ Raise(q) \/ FinalizeReads(q) \/ HaltReads(q)
           \/ AbortReads(q) \/ HandlerFails(q) \/ StopHeartbeat(q)
    BY <2>1
    DEF NoActiveCriteria, StartHeartbeat, SetupFails, CliRun, GatePasses, Raise,
         FinalizeReads, FinishIfRunning, HaltReads, AbortReads, HandlerFails,
         StopHeartbeat
  <2>2. CASE GateStops(q)
    BY <2>2 DEF GateStops
  <2>3. CASE StartRun(q) \/ Beat(q)
    BY <2>3 DEF StartRun, Beat, Beating, RecordHeartbeat
  <2>4. CASE FinalizeCommits(q)
    BY <2>4 DEF FinalizeCommits, Finish
  <2>5. CASE WrapUp(q)
    BY <2>5 DEF WrapUp, ClearLease, ClearStopRequest, ClearAsked
  <2>6. CASE HaltCommits(q)
    BY <2>6
    DEF HaltCommits, Finish, ClearLease, ClearStopRequest, ClearAsked
  <2>7. CASE AbortCommits(q)
    BY <2>7 DEF AbortCommits, Finish, ClearLease
  <2> QED BY <1>1, <2>1, <2>2, <2>3, <2>4, <2>5, <2>6, <2>7 DEF Thread
<1>2. ASSUME NEW g \in Slots, Slot(g) PROVE Unstarted'
  <2>1. CASE JudgeLease(g)
    BY <2>1 DEF JudgeLease
  <2>2. CASE JudgeGrace(g) \/ SelectRunning(g)
    BY <2>2 DEF JudgeGrace, SelectRunning, RunningRows
  <2>3. CASE FailStale(g)
    BY <2>3 DEF FailStale, Finish, ClearLease
  <2>4. CASE StopExpired(g)
    BY <2>4 DEF StopExpired, Finish, ClearLease, ClearAsked
  <2>5. CASE EndStale(g)
    BY <2>5
    DEF EndStale, Finish, ClearLease, ClearStopRequest, ClearAsked, Idle
  <2>6. CASE MarkStop(g) \/ Answer(g)
    BY <2>6 DEF MarkStop, RequestStop, Answer, Idle
  <2>7. ASSUME NEW o \in Callers, Open(g, o) PROVE Unstarted'
    BY <2>7 DEF Open, RunningRows
  <2>8. ASSUME NEW q \in Runs, StopReads(g, q) PROVE Unstarted'
    BY <2>8 DEF StopReads
  <2>9. ASSUME NEW q \in Runs, Launch(g, q) \/ RecordSkipped(g, q) PROVE Unstarted'
    BY <2>9 DEF Launch, RecordSkipped, Idle
  <2> QED BY <1>2, <2>1, <2>2, <2>3, <2>4, <2>5, <2>6, <2>7, <2>8, <2>9
    DEF Slot, Serve
<1>3. CASE Tick
  BY <1>3 DEF Tick
<1>4. ASSUME NEW p \in Processes, Crash(p) PROVE Unstarted'
  BY <1>4 DEF Crash
<1> QED BY <1>1, <1>2, <1>3, <1>4 DEF Next

\* Each way into the cleanup phases leads past a verdict, its own or one it
\* found.
LEMMA VerdictBeforeCleanupStep ==
  ASSUME TypeOK, VerdictBeforeCleanup, Next
  PROVE  VerdictBeforeCleanup'
<1> USE NoRunAssumption, TimeAssumption
    DEF TypeOK, VerdictBeforeCleanup, Working,
        vars, db, threads, slots, bounds, Step, Goto
<1>1. ASSUME NEW q \in Runs, Thread(q) PROVE VerdictBeforeCleanup'
  <2>1. CASE NoActiveCriteria(q) \/ StartHeartbeat(q) \/ SetupFails(q) \/ CliRun(q)
           \/ GatePasses(q) \/ Raise(q) \/ FinalizeReads(q) \/ HaltReads(q)
           \/ AbortReads(q) \/ HandlerFails(q) \/ StopHeartbeat(q)
    BY <2>1
    DEF NoActiveCriteria, StartHeartbeat, SetupFails, CliRun, GatePasses, Raise,
         FinalizeReads, FinishIfRunning, HaltReads, AbortReads, HandlerFails,
         StopHeartbeat
  <2>2. CASE GateStops(q)
    BY <2>2 DEF GateStops
  <2>3. CASE StartRun(q) \/ Beat(q)
    BY <2>3 DEF StartRun, Beat, Beating, RecordHeartbeat
  <2>4. CASE FinalizeCommits(q)
    BY <2>4 DEF FinalizeCommits, Finish
  <2>5. CASE WrapUp(q)
    BY <2>5 DEF WrapUp, ClearLease, ClearStopRequest, ClearAsked
  <2>6. CASE HaltCommits(q)
    BY <2>6
    DEF HaltCommits, Finish, ClearLease, ClearStopRequest, ClearAsked
  <2>7. CASE AbortCommits(q)
    BY <2>7 DEF AbortCommits, Finish, ClearLease
  <2> QED BY <1>1, <2>1, <2>2, <2>3, <2>4, <2>5, <2>6, <2>7 DEF Thread
<1>2. ASSUME NEW g \in Slots, Slot(g) PROVE VerdictBeforeCleanup'
  <2>1. CASE JudgeLease(g)
    BY <2>1 DEF JudgeLease
  <2>2. CASE JudgeGrace(g) \/ SelectRunning(g)
    BY <2>2 DEF JudgeGrace, SelectRunning, RunningRows
  <2>3. CASE FailStale(g)
    BY <2>3 DEF FailStale, Finish, ClearLease
  <2>4. CASE StopExpired(g)
    BY <2>4 DEF StopExpired, Finish, ClearLease, ClearAsked
  <2>5. CASE EndStale(g)
    BY <2>5
    DEF EndStale, Finish, ClearLease, ClearStopRequest, ClearAsked, Idle
  <2>6. CASE MarkStop(g) \/ Answer(g)
    BY <2>6 DEF MarkStop, RequestStop, Answer, Idle
  <2>7. ASSUME NEW o \in Callers, Open(g, o) PROVE VerdictBeforeCleanup'
    BY <2>7 DEF Open, RunningRows
  <2>8. ASSUME NEW q \in Runs, StopReads(g, q) PROVE VerdictBeforeCleanup'
    BY <2>8 DEF StopReads
  <2>9. ASSUME NEW q \in Runs, Launch(g, q) \/ RecordSkipped(g, q) PROVE VerdictBeforeCleanup'
    BY <2>9 DEF Launch, RecordSkipped, Idle
  <2> QED BY <1>2, <2>1, <2>2, <2>3, <2>4, <2>5, <2>6, <2>7, <2>8, <2>9
    DEF Slot, Serve
<1>3. CASE Tick
  BY <1>3 DEF Tick
<1>4. ASSUME NEW p \in Processes, Crash(p) PROVE VerdictBeforeCleanup'
  BY <1>4 DEF Crash
<1> QED BY <1>1, <1>2, <1>3, <1>4 DEF Next

\* A marker that names a running run was set together with its requested-at
\* row, and that row outlives it until the run has a verdict.
LEMMA StopsAreAskedStep ==
  ASSUME TypeOK, Unstarted, VerdictBeforeCleanup, StopsAreAsked, Next
  PROVE  StopsAreAsked'
<1> USE NoRunAssumption, TimeAssumption
    DEF TypeOK, Unstarted, VerdictBeforeCleanup, StopsAreAsked, Working,
        vars, db, threads, slots, bounds, Step, Goto
<1>1. ASSUME NEW q \in Runs, Thread(q) PROVE StopsAreAsked'
  <2>1. CASE NoActiveCriteria(q) \/ StartHeartbeat(q) \/ SetupFails(q) \/ CliRun(q)
           \/ GatePasses(q) \/ Raise(q) \/ FinalizeReads(q) \/ HaltReads(q)
           \/ AbortReads(q) \/ HandlerFails(q) \/ StopHeartbeat(q)
    BY <2>1
    DEF NoActiveCriteria, StartHeartbeat, SetupFails, CliRun, GatePasses, Raise,
         FinalizeReads, FinishIfRunning, HaltReads, AbortReads, HandlerFails,
         StopHeartbeat
  <2>2. CASE GateStops(q)
    BY <2>2 DEF GateStops, MustStop, IsStopRequested
  <2>3. CASE StartRun(q) \/ Beat(q)
    BY <2>3 DEF StartRun, Beat, Beating, RecordHeartbeat
  <2>4. CASE FinalizeCommits(q)
    BY <2>4 DEF FinalizeCommits, Finish
  <2>5. CASE WrapUp(q)
    BY <2>5 DEF WrapUp, ClearLease, ClearStopRequest, ClearAsked
  <2>6. CASE HaltCommits(q)
    BY <2>6
    DEF HaltCommits, Finish, ClearLease, ClearStopRequest, ClearAsked
  <2>7. CASE AbortCommits(q)
    BY <2>7 DEF AbortCommits, Finish, ClearLease
  <2> QED BY <1>1, <2>1, <2>2, <2>3, <2>4, <2>5, <2>6, <2>7 DEF Thread
<1>2. ASSUME NEW g \in Slots, Slot(g) PROVE StopsAreAsked'
  <2>1. CASE JudgeLease(g)
    BY <2>1 DEF JudgeLease
  <2>2. CASE JudgeGrace(g) \/ SelectRunning(g)
    BY <2>2 DEF JudgeGrace, GraceExpired, SelectRunning, RunningRows
  <2>3. CASE FailStale(g)
    BY <2>3 DEF FailStale, Finish, ClearLease
  <2>4. CASE StopExpired(g)
    BY <2>4 DEF StopExpired, Finish, ClearLease, ClearAsked
  <2>5. CASE EndStale(g)
    BY <2>5
    DEF EndStale, Finish, ClearLease, ClearStopRequest, ClearAsked, Idle
  <2>6. CASE MarkStop(g) \/ Answer(g)
    BY <2>6 DEF MarkStop, RequestStop, Answer, Idle
  <2>7. ASSUME NEW o \in Callers, Open(g, o) PROVE StopsAreAsked'
    BY <2>7 DEF Open, RunningRows
  <2>8. ASSUME NEW q \in Runs, StopReads(g, q) PROVE StopsAreAsked'
    BY <2>8 DEF StopReads
  <2>9. ASSUME NEW q \in Runs, Launch(g, q) \/ RecordSkipped(g, q) PROVE StopsAreAsked'
    BY <2>9 DEF Launch, RecordSkipped, Idle
  <2> QED BY <1>2, <2>1, <2>2, <2>3, <2>4, <2>5, <2>6, <2>7, <2>8, <2>9
    DEF Slot, Serve
<1>3. CASE Tick
  BY <1>3 DEF Tick
<1>4. ASSUME NEW p \in Processes, Crash(p) PROVE StopsAreAsked'
  BY <1>4 DEF Crash
<1> QED BY <1>1, <1>2, <1>3, <1>4 DEF Next

\* Whatever deletes the lease of a row also gives that row a verdict, or runs
\* in a thread that has stopped working.
LEMMA WorkingHasLeaseStep ==
  ASSUME TypeOK, WorkingHasLease, Next
  PROVE  WorkingHasLease'
<1> USE NoRunAssumption, TimeAssumption
    DEF TypeOK, WorkingHasLease, Working,
        vars, db, threads, slots, bounds, Step, Goto
<1>1. ASSUME NEW q \in Runs, Thread(q) PROVE WorkingHasLease'
  <2>1. CASE NoActiveCriteria(q) \/ StartHeartbeat(q) \/ SetupFails(q) \/ CliRun(q)
           \/ GatePasses(q) \/ Raise(q) \/ FinalizeReads(q) \/ HaltReads(q)
           \/ AbortReads(q) \/ HandlerFails(q) \/ StopHeartbeat(q)
    BY <2>1
    DEF NoActiveCriteria, StartHeartbeat, SetupFails, CliRun, GatePasses, Raise,
         FinalizeReads, FinishIfRunning, HaltReads, AbortReads, HandlerFails,
         StopHeartbeat
  <2>2. CASE GateStops(q)
    BY <2>2 DEF GateStops
  <2>3. CASE StartRun(q) \/ Beat(q)
    BY <2>3 DEF StartRun, Beat, Beating, RecordHeartbeat
  <2>4. CASE FinalizeCommits(q)
    BY <2>4 DEF FinalizeCommits, Finish
  <2>5. CASE WrapUp(q)
    BY <2>5 DEF WrapUp, ClearLease, ClearStopRequest, ClearAsked
  <2>6. CASE HaltCommits(q)
    BY <2>6
    DEF HaltCommits, Finish, ClearLease, ClearStopRequest, ClearAsked
  <2>7. CASE AbortCommits(q)
    BY <2>7 DEF AbortCommits, Finish, ClearLease
  <2> QED BY <1>1, <2>1, <2>2, <2>3, <2>4, <2>5, <2>6, <2>7 DEF Thread
<1>2. ASSUME NEW g \in Slots, Slot(g) PROVE WorkingHasLease'
  <2>1. CASE JudgeLease(g)
    BY <2>1 DEF JudgeLease
  <2>2. CASE JudgeGrace(g) \/ SelectRunning(g)
    BY <2>2 DEF JudgeGrace, SelectRunning, RunningRows
  <2>3. CASE FailStale(g)
    BY <2>3 DEF FailStale, Finish, ClearLease
  <2>4. CASE StopExpired(g)
    BY <2>4 DEF StopExpired, Finish, ClearLease, ClearAsked
  <2>5. CASE EndStale(g)
    BY <2>5
    DEF EndStale, Finish, ClearLease, ClearStopRequest, ClearAsked, Idle
  <2>6. CASE MarkStop(g) \/ Answer(g)
    BY <2>6 DEF MarkStop, RequestStop, Answer, Idle
  <2>7. ASSUME NEW o \in Callers, Open(g, o) PROVE WorkingHasLease'
    BY <2>7 DEF Open, RunningRows
  <2>8. ASSUME NEW q \in Runs, StopReads(g, q) PROVE WorkingHasLease'
    BY <2>8 DEF StopReads
  <2>9. ASSUME NEW q \in Runs, Launch(g, q) \/ RecordSkipped(g, q) PROVE WorkingHasLease'
    BY <2>9 DEF Launch, RecordSkipped, Idle
  <2> QED BY <1>2, <2>1, <2>2, <2>3, <2>4, <2>5, <2>6, <2>7, <2>8, <2>9
    DEF Slot, Serve
<1>3. CASE Tick
  <2> SUFFICES ASSUME NEW r \in Runs, status[r] = "running", phase[r] \in Working
               PROVE  r \in leased /\ leaseAge'[r] <= BeatLimit
    BY <1>3 DEF Tick
  <2>1. r \in leased /\ leaseAge[r] < BeatLimit
    BY <1>3 DEF Tick, Timely
  <2>2. leaseAge'[r] <= leaseAge[r] + 1
    BY <1>3 DEF Tick, Older, Ages
  <2>3. leaseAge[r] \in Nat /\ leaseAge'[r] \in Nat
    BY <1>3, TickType DEF Ages
  <2> QED BY <2>1, <2>2, <2>3
<1>4. ASSUME NEW p \in Processes, Crash(p) PROVE WorkingHasLease'
  BY <1>4 DEF Crash
<1> QED BY <1>1, <1>2, <1>3, <1>4 DEF Next

\* A lease that is refreshed in time is never judged stale.
LEMMA WorkingNotCondemnedStep ==
  ASSUME TypeOK, Unstarted, WorkingHasLease, WorkingNotCondemned, Next, BeatLimit <= StaleAfter
  PROVE  WorkingNotCondemned'
<1> USE NoRunAssumption, TimeAssumption
    DEF TypeOK, Unstarted, WorkingHasLease, WorkingNotCondemned, Working,
        vars, db, threads, slots, bounds, Step, Goto
<1>1. ASSUME NEW q \in Runs, Thread(q) PROVE WorkingNotCondemned'
  <2>1. CASE NoActiveCriteria(q) \/ StartHeartbeat(q) \/ SetupFails(q) \/ CliRun(q)
           \/ GatePasses(q) \/ Raise(q) \/ FinalizeReads(q) \/ HaltReads(q)
           \/ AbortReads(q) \/ HandlerFails(q) \/ StopHeartbeat(q)
    BY <2>1
    DEF NoActiveCriteria, StartHeartbeat, SetupFails, CliRun, GatePasses, Raise,
         FinalizeReads, FinishIfRunning, HaltReads, AbortReads, HandlerFails,
         StopHeartbeat
  <2>2. CASE GateStops(q)
    BY <2>2 DEF GateStops
  <2>3. CASE StartRun(q) \/ Beat(q)
    BY <2>3 DEF StartRun, Beat, Beating, RecordHeartbeat
  <2>4. CASE FinalizeCommits(q)
    BY <2>4 DEF FinalizeCommits, Finish
  <2>5. CASE WrapUp(q)
    BY <2>5 DEF WrapUp, ClearLease, ClearStopRequest, ClearAsked
  <2>6. CASE HaltCommits(q)
    BY <2>6
    DEF HaltCommits, Finish, ClearLease, ClearStopRequest, ClearAsked
  <2>7. CASE AbortCommits(q)
    BY <2>7 DEF AbortCommits, Finish, ClearLease
  <2> QED BY <1>1, <2>1, <2>2, <2>3, <2>4, <2>5, <2>6, <2>7 DEF Thread
<1>2. ASSUME NEW g \in Slots, Slot(g) PROVE WorkingNotCondemned'
  <2>1. CASE JudgeLease(g)
    BY <2>1 DEF JudgeLease, IsLive, LastSeenAge, Ages
  <2>2. CASE JudgeGrace(g) \/ SelectRunning(g)
    BY <2>2 DEF JudgeGrace, SelectRunning, RunningRows
  <2>3. CASE FailStale(g)
    BY <2>3 DEF FailStale, Finish, ClearLease
  <2>4. CASE StopExpired(g)
    BY <2>4 DEF StopExpired, Finish, ClearLease, ClearAsked
  <2>5. CASE EndStale(g)
    BY <2>5
    DEF EndStale, Finish, ClearLease, ClearStopRequest, ClearAsked, Idle
  <2>6. CASE MarkStop(g) \/ Answer(g)
    BY <2>6 DEF MarkStop, RequestStop, Answer, Idle
  <2>7. ASSUME NEW o \in Callers, Open(g, o) PROVE WorkingNotCondemned'
    BY <2>7 DEF Open, RunningRows
  <2>8. ASSUME NEW q \in Runs, StopReads(g, q) PROVE WorkingNotCondemned'
    BY <2>8 DEF StopReads
  <2>9. ASSUME NEW q \in Runs, Launch(g, q) \/ RecordSkipped(g, q) PROVE WorkingNotCondemned'
    BY <2>9 DEF Launch, RecordSkipped, Idle
  <2> QED BY <1>2, <2>1, <2>2, <2>3, <2>4, <2>5, <2>6, <2>7, <2>8, <2>9
    DEF Slot, Serve
<1>3. CASE Tick
  BY <1>3 DEF Tick
<1>4. ASSUME NEW p \in Processes, Crash(p) PROVE WorkingNotCondemned'
  BY <1>4 DEF Crash
<1> QED BY <1>1, <1>2, <1>3, <1>4 DEF Next

\* A request drops the rows it read when it has judged them, and the rows it
\* condemned when it has settled them.
LEMMA SlotsTidyStep ==
  ASSUME TypeOK, SlotsTidy, Next
  PROVE  SlotsTidy'
<1> USE DEF TypeOK, SlotsTidy, vars, db, threads, slots, bounds, Step, Goto, Idle
<1>1. ASSUME NEW q \in Runs, Thread(q) PROVE UNCHANGED slots
  BY <1>1 DEF Thread, CliRun, NoActiveCriteria, StartRun, StartHeartbeat,
    SetupFails, Beat, GateStops, GatePasses, Raise, FinalizeReads,
    FinalizeCommits, WrapUp, HaltReads, HaltCommits, AbortReads, AbortCommits,
    HandlerFails, StopHeartbeat
<1>2. ASSUME NEW g \in Slots, Slot(g) PROVE SlotsTidy'
  BY <1>2 DEF Slot, Serve, Open, StopReads, JudgeLease, FailStale, SelectRunning,
    JudgeGrace, StopExpired, Answer, MarkStop, EndStale, Launch, RecordSkipped
<1>3. CASE Tick
  BY <1>3 DEF Tick
<1>4. ASSUME NEW p \in Processes, Crash(p) PROVE SlotsTidy'
  BY <1>4 DEF Crash
<1> QED BY <1>1, <1>2, <1>3, <1>4 DEF Next

LEMMA LifecycleInit == Init => LifecycleInv
BY NoRunAssumption, TimeAssumption
DEF Init, LifecycleInv, Unstarted, SlotsTidy, VerdictBeforeCleanup, StopsAreAsked,
    WorkingHasLease, WorkingNotCondemned, Working

\* What is known of the rows, the marker and the requested-at rows in every
\* reachable state, whatever the thresholds and however late the beats.
THEOREM StopInvariant ==
  Spec => [](Unstarted /\ SlotsTidy /\ VerdictBeforeCleanup /\ StopsAreAsked)
<1>1. Init => Unstarted /\ SlotsTidy /\ VerdictBeforeCleanup /\ StopsAreAsked
  BY LifecycleInit DEF LifecycleInv
<1>2. /\ TypeOK /\ Unstarted /\ SlotsTidy /\ VerdictBeforeCleanup
      /\ StopsAreAsked /\ [Next]_vars
      => (Unstarted /\ SlotsTidy /\ VerdictBeforeCleanup /\ StopsAreAsked)'
  <2>1. CASE Next
    BY <2>1, UnstartedStep, SlotsTidyStep, VerdictBeforeCleanupStep, StopsAreAskedStep
  <2>2. CASE UNCHANGED vars
    BY <2>2 DEF Unstarted, SlotsTidy, VerdictBeforeCleanup, StopsAreAsked,
                vars, db, threads, slots
  <2> QED BY <2>1, <2>2
<1> QED BY <1>1, <1>2, TypeCorrect, PTL DEF Spec

\* With beats that land in time, the whole inductive invariant: a working run
\* has a fresh lease and is never among the rows a sweep has condemned.
THEOREM LifecycleInvariant == BeatLimit <= StaleAfter /\ Spec => []LifecycleInv
<1> SUFFICES ASSUME BeatLimit <= StaleAfter PROVE Spec => []LifecycleInv
  OBVIOUS
<1>1. Init => LifecycleInv
  BY LifecycleInit
<1>2. TypeOK /\ LifecycleInv /\ [Next]_vars => LifecycleInv'
  <2> SUFFICES ASSUME TypeOK, LifecycleInv, [Next]_vars PROVE LifecycleInv'
    OBVIOUS
  <2>1. CASE Next
    BY <2>1, UnstartedStep, SlotsTidyStep, VerdictBeforeCleanupStep,
       StopsAreAskedStep, WorkingHasLeaseStep, WorkingNotCondemnedStep
    DEF LifecycleInv
  <2>2. CASE UNCHANGED vars
    BY <2>2
    DEF LifecycleInv, Unstarted, SlotsTidy, VerdictBeforeCleanup,
        StopsAreAsked, WorkingHasLease, WorkingNotCondemned, vars, db, threads, slots
  <2> QED BY <2>1, <2>2
<1> QED BY <1>1, <1>2, TypeCorrect, PTL DEF Spec

-----------------------------------------------------------------------------
(* The safety properties.                                                  *)

\* The only writers of a status, and the status each writes.
LEMMA StatusWriters ==
  ASSUME TypeOK, [Next]_vars, NEW r \in Runs, status'[r] # status[r]
  PROVE  \/ phase[r] = "launch" /\ status'[r] = "running"
         \/ phase[r] = "idle" /\ status'[r] = "skipped"
         \/ phase[r] = "finish" /\ status'[r] = "completed"
         \/ phase[r] = "halting" /\ status'[r] = "stopped"
         \/ phase[r] = "aborting" /\ status'[r] = "failed"
         \/ \E g \in Slots :
              /\ r \in victims[g]
              /\ \/ pc[g] = "failStale" /\ status'[r] = "interrupted"
                 \/ pc[g] \in {"stopExpired", "endStale"} /\ status'[r] = "stopped"
<1> USE DEF TypeOK, vars, db, threads, slots, bounds, Step, Finish
<1>1. ASSUME NEW q \in Runs, Thread(q), status' # status PROVE
        \/ /\ phase[q] = "launch"
           /\ status' = [status EXCEPT ![q] = "running"]
        \/ phase[q] = "finish" /\ Finish({q}, "completed")
        \/ phase[q] = "halting" /\ Finish({q}, "stopped")
        \/ phase[q] = "aborting" /\ Finish({q}, "failed")
  BY <1>1 DEF Thread, CliRun, NoActiveCriteria, StartRun, StartHeartbeat,
    SetupFails, Beat, GateStops, GatePasses, Raise, FinalizeReads,
    FinalizeCommits, WrapUp, HaltReads, HaltCommits, AbortReads, AbortCommits,
    HandlerFails, StopHeartbeat
<1>2. ASSUME NEW g \in Slots, Slot(g), status' # status PROVE
        \/ pc[g] = "failStale" /\ Finish(victims[g], "interrupted")
        \/ pc[g] = "stopExpired" /\ Finish(victims[g], "stopped")
        \/ pc[g] = "endStale" /\ \E q \in victims[g] : Finish({q}, "stopped")
        \/ \E q \in Runs : /\ phase[q] = "idle"
                           /\ status' = [status EXCEPT ![q] = "skipped"]
  BY <1>2 DEF Slot, Serve, Open, StopReads, JudgeLease, FailStale, SelectRunning,
    JudgeGrace, StopExpired, Answer, MarkStop, EndStale, Launch, RecordSkipped
<1>3. status' = status \/ (\E q \in Runs : Thread(q)) \/ (\E g \in Slots : Slot(g))
  BY DEF Next, Tick, Crash
<1> QED BY <1>1, <1>2, <1>3

\* The run's beats land within the threshold, so no sweep ever writes it off
\* while its thread works, in whatever order the two proceed.
THEOREM NeverFalselyKilled == BeatLimit <= StaleAfter /\ Spec => NoFalseKill
<1> SUFFICES ASSUME BeatLimit <= StaleAfter PROVE Spec => NoFalseKill
  OBVIOUS
<1>1. TypeOK /\ LifecycleInv /\ [Next]_vars =>
        [\A r \in Runs : status[r] = "running" /\ status'[r] = "interrupted"
                           => phase[r] \notin Working]_vars
  <2> SUFFICES ASSUME TypeOK, LifecycleInv, [Next]_vars, NEW r \in Runs,
                      status[r] = "running", status'[r] = "interrupted"
               PROVE  phase[r] \notin Working
    OBVIOUS
  <2>1. PICK g \in Slots : r \in victims[g] /\ pc[g] = "failStale"
    BY StatusWriters
  <2> QED BY <2>1 DEF LifecycleInv, WorkingNotCondemned
<1> QED BY <1>1, TypeCorrect, LifecycleInvariant, PTL DEF Spec, NoFalseKill

\* A run is stopped only on behalf of a stop request that named it.
THEOREM StoppedOnlyOnRequest == Spec => OnlyUserStops
<1>1. TypeOK /\ Unstarted /\ VerdictBeforeCleanup /\ StopsAreAsked /\ [Next]_vars =>
        [\A r \in Runs : status[r] = "running" /\ status'[r] = "stopped"
            => \/ r \in asked
               \/ \E g \in Slots : pc[g] = "endStale" /\ r \in victims[g]]_vars
  <2> SUFFICES ASSUME TypeOK, StopsAreAsked, [Next]_vars, NEW r \in Runs,
                      status[r] = "running", status'[r] = "stopped"
               PROVE  \/ r \in asked
                      \/ \E g \in Slots : pc[g] = "endStale" /\ r \in victims[g]
    OBVIOUS
  <2>1. \/ phase[r] = "halting"
        \/ \E g \in Slots : /\ r \in victims[g]
                            /\ pc[g] \in {"stopExpired", "endStale"}
    BY StatusWriters
  <2> QED BY <2>1 DEF StopsAreAsked
<1> QED BY <1>1, TypeCorrect, StopInvariant, PTL DEF Spec, OnlyUserStops

\* The only ways a requested-at row goes away.
LEMMA AskedRemovers ==
  ASSUME TypeOK, [Next]_vars, NEW r \in Runs, r \in asked, r \notin asked'
  PROVE  \/ phase[r] = "wrapup"
         \/ status'[r] # "running"
<1> USE DEF TypeOK, vars, db, threads, slots, bounds, Step, Finish,
            ClearStopRequest, ClearAsked, RequestStop
<1>1. ASSUME NEW q \in Runs, Thread(q) PROVE
        \/ asked' = asked
        \/ asked' = asked \ {q} /\ (phase[q] = "wrapup" \/ status'[q] # "running")
  BY <1>1 DEF Thread, CliRun, NoActiveCriteria, StartRun, StartHeartbeat,
    SetupFails, Beat, GateStops, GatePasses, Raise, FinalizeReads,
    FinalizeCommits, WrapUp, HaltReads, HaltCommits, AbortReads, AbortCommits,
    HandlerFails, StopHeartbeat
<1>2. ASSUME NEW g \in Slots, Slot(g) PROVE
        \A q \in asked \ asked' : status'[q] # "running"
  BY <1>2 DEF Slot, Serve, Open, StopReads, JudgeLease, FailStale, SelectRunning,
    JudgeGrace, StopExpired, Answer, MarkStop, EndStale, Launch, RecordSkipped
<1>3. asked' = asked \/ (\E q \in Runs : Thread(q)) \/ (\E g \in Slots : Slot(g))
  BY DEF Next, Tick, Crash
<1> QED BY <1>1, <1>2, <1>3

\* An acknowledged stop stays on record until the run has its verdict.
THEOREM StopStaysOnRecord == Spec => StopNotLost
<1>1. TypeOK /\ Unstarted /\ VerdictBeforeCleanup /\ StopsAreAsked /\ [Next]_vars =>
        [\A r \in Runs : r \in asked /\ status[r] = "running" /\ status'[r] = "running"
                           => r \in asked']_vars
  BY AskedRemovers DEF VerdictBeforeCleanup
<1> QED BY <1>1, TypeCorrect, StopInvariant, PTL DEF Spec, StopNotLost
=============================================================================
