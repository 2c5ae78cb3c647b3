-------------------------- MODULE RunRowRefinement --------------------------
(***************************************************************************)
(* RunLifecycle implements RunRow: each step of a run's thread, a request, *)
(* a fire or the environment creates a row, looks at rows, settles rows    *)
(* that were looked at, or gives some of them up.                          *)
(***************************************************************************)
EXTENDS RunLifecycleProofs

Writers == Runs \cup Slots

\* The rows a writer holds are its own: no slot is a run.
LEMMA HoldsOf ==
  /\ \A r \in Runs : /\ Holds(r) = IF phase[r] \in {"finish", "halting", "aborting"}
                                   THEN {r} ELSE {}
                     /\ Holds(r)' = IF phase'[r] \in {"finish", "halting", "aborting"}
                                    THEN {r} ELSE {}
  /\ \A g \in Slots : /\ Holds(g) = seen[g] \cup victims[g]
                      /\ Holds(g)' = seen'[g] \cup victims'[g]
BY SlotAssumption DEF Holds, Slots

\* The four shapes a step can have.
LEMMA ForgetIsRow ==
  ASSUME TypeOK', status' = status,
         \A w \in Writers : Holds(w)' \subseteq Holds(w)
  PROVE  Row!Next
<1>1. \A w \in Writers : Holds(w)' \subseteq Runs
  BY HoldsOf DEF TypeOK, Writers
<1> QED BY <1>1 DEF Row!Next, Row!Forget, Writers

LEMMA ObserveIsRow ==
  ASSUME NEW w \in Writers, NEW R \in SUBSET RunningRows,
         status' = status, Holds(w)' = R,
         \A v \in Writers \ {w} : Holds(v)' = Holds(v)
  PROVE  Row!Next
<1>1. Row!Observe(w, R)
  BY DEF Row!Observe, Row!Running, RunningRows, Writers
<1> QED BY <1>1 DEF Row!Next, Row!Running, RunningRows, Writers

LEMMA SettleIsRow ==
  ASSUME NEW w \in Writers, NEW R \in SUBSET Holds(w),
         NEW s \in {"completed", "failed", "interrupted", "stopped"},
         Finish(R, s), Holds(w)' = {},
         \A v \in Writers \ {w} : Holds(v)' = Holds(v)
  PROVE  Row!Next
<1>1. Row!Settle(w, R, s)
  BY DEF Row!Settle, Finish, Writers
<1> QED BY <1>1 DEF Row!Next, Row!Verdicts, Writers

LEMMA CreateIsRow ==
  ASSUME NEW r \in Runs, NEW s \in {"running", "skipped"},
         status[r] = "none", status' = [status EXCEPT ![r] = s],
         \A v \in Writers : Holds(v)' = Holds(v)
  PROVE  Row!Next
<1>1. Row!Create(r) \/ Row!Skip(r)
  BY DEF Row!Create, Row!Skip, Writers
<1> QED BY <1>1 DEF Row!Next

\* A thread holds its row between reading it and settling it.
LEMMA ThreadImplements ==
  ASSUME TypeOK, TypeOK', Unstarted, NEW r \in Runs, Thread(r)
  PROVE  Row!Next
<1> USE DEF TypeOK, Writers, vars, db, threads, slots, bounds, Step
<1>1. UNCHANGED slots /\ \A q \in Runs \ {r} : phase'[q] = phase[q]
  BY DEF Thread, CliRun, NoActiveCriteria, StartRun, StartHeartbeat,
    SetupFails, Beat, GateStops, GatePasses, Raise, FinalizeReads,
    FinishIfRunning, FinalizeCommits, WrapUp, HaltReads, HaltCommits, AbortReads,
    AbortCommits, HandlerFails, StopHeartbeat
<1>2. \A w \in Writers \ {r} : Holds(w)' = Holds(w)
  BY <1>1, HoldsOf
<1>3. CASE StartRun(r)
  <2>1. Holds(r)' = Holds(r)
    BY <1>3, HoldsOf DEF StartRun
  <2>2. status[r] = "none" /\ status' = [status EXCEPT ![r] = "running"]
    BY <1>3 DEF StartRun, Unstarted
  <2> QED BY <1>2, <2>1, <2>2, CreateIsRow
<1>4. ASSUME status[r] = "running", status' = status, Holds(r)' = {r} PROVE Row!Next
  BY <1>2, <1>4, ObserveIsRow DEF RunningRows
<1>5. CASE FinalizeReads(r) \/ HaltReads(r) \/ AbortReads(r)
  <2>1. status' = status /\ Holds(r) = {}
    BY <1>5, HoldsOf DEF FinalizeReads, FinishIfRunning, HaltReads, AbortReads
  <2>2. Holds(r)' = {} \/ (Holds(r)' = {r} /\ status[r] = "running")
    BY <1>5, HoldsOf DEF FinalizeReads, FinishIfRunning, HaltReads, AbortReads
  <2> QED BY <1>2, <1>4, <2>1, <2>2, ForgetIsRow
<1>6. CASE \E s \in {"completed", "failed", "stopped"} :
             /\ phase[r] \in {"finish", "halting", "aborting"}
             /\ phase'[r] \in {"wrapup", "closing"}
             /\ Finish({r}, s)
  <2>1. Holds(r) = {r} /\ Holds(r)' = {}
    BY <1>6, HoldsOf
  <2> QED BY <1>2, <1>6, <2>1, SettleIsRow
<1>7. ASSUME status' = status,
             phase'[r] \in {"finish", "halting", "aborting"} => phase'[r] = phase[r]
      PROVE  Row!Next
  <2>1. Holds(r)' \subseteq Holds(r)
    BY <1>7, HoldsOf
  <2> QED BY <1>2, <1>7, <2>1, ForgetIsRow
<1>8. CASE FinalizeCommits(r) \/ HaltCommits(r) \/ AbortCommits(r)
  BY <1>6, <1>7, <1>8 DEF FinalizeCommits, HaltCommits, AbortCommits
<1>9. CASE CliRun(r) \/ NoActiveCriteria(r) \/ StartHeartbeat(r) \/ SetupFails(r)
           \/ Beat(r) \/ GateStops(r) \/ GatePasses(r) \/ Raise(r) \/ WrapUp(r)
           \/ HandlerFails(r) \/ StopHeartbeat(r)
  BY <1>7, <1>9 DEF CliRun, NoActiveCriteria, StartHeartbeat, SetupFails, Beat,
    GateStops, GatePasses, Raise, WrapUp, HandlerFails, StopHeartbeat
<1> QED BY <1>3, <1>5, <1>8, <1>9 DEF Thread

\* A request holds the rows it selected until it has judged them, and those it
\* condemned until it has settled them.
LEMMA SlotImplements ==
  ASSUME TypeOK, TypeOK', Unstarted, SlotsTidy, NEW g \in Slots, Slot(g)
  PROVE  Row!Next
<1> USE DEF TypeOK, Writers, vars, db, threads, slots, bounds, Goto, Idle
<1>1. \A h \in Slots \ {g} : seen'[h] = seen[h] /\ victims'[h] = victims[h]
  BY DEF Slot, Serve, Open, StopReads, JudgeLease, FailStale, SelectRunning,
    JudgeGrace, StopExpired, Answer, MarkStop, EndStale, Launch, RecordSkipped
<1>2. \A q \in Runs : Holds(q)' = Holds(q)
  <2>1. phase' = phase \/ \E q \in Runs : /\ phase[q] = "idle"
                                          /\ phase'[q] \in {"launch", "done"}
                                          /\ \A p \in Runs \ {q} : phase'[p] = phase[p]
    BY DEF Slot, Serve, Open, StopReads, JudgeLease, FailStale, SelectRunning,
      JudgeGrace, StopExpired, Answer, MarkStop, EndStale, Launch, RecordSkipped
  <2> QED BY <2>1, HoldsOf
<1>3. g \in Writers /\ \A w \in Writers \ {g} : Holds(w)' = Holds(w)
  BY <1>1, <1>2, HoldsOf
<1>4. ASSUME status' = status, seen'[g] \cup victims'[g] \subseteq seen[g] \cup victims[g]
      PROVE  Row!Next
  <2>1. Holds(g)' \subseteq Holds(g)
    BY <1>4, HoldsOf
  <2>2. \A w \in Writers : Holds(w)' \subseteq Holds(w)
    BY <1>3, <2>1
  <2> QED BY <1>4, <2>2, ForgetIsRow
<1>5. ASSUME status' = status, seen'[g] \cup victims'[g] \subseteq RunningRows
      PROVE  Row!Next
  BY <1>3, <1>5, HoldsOf, ObserveIsRow
<1>6. ASSUME NEW R \in SUBSET victims[g], NEW s \in {"interrupted", "stopped"},
             Finish(R, s), seen'[g] \cup victims'[g] = {}
      PROVE  Row!Next
  <2>1. R \in SUBSET Holds(g) /\ Holds(g)' = {}
    BY <1>6, HoldsOf
  <2>2. s \in {"completed", "failed", "interrupted", "stopped"}
    BY <1>6
  <2>3. Finish(R, s)
    BY <1>6
  <2> QED BY <1>3, <2>1, <2>2, <2>3, SettleIsRow, Zenon
<1>7. ASSUME NEW o \in Callers, Open(g, o) PROVE Row!Next
  BY <1>5, <1>7 DEF Open, SlotsTidy
<1>8. ASSUME NEW r \in Runs, StopReads(g, r) PROVE Row!Next
  BY <1>5, <1>8 DEF StopReads, SlotsTidy, RunningRows
<1>9. CASE SelectRunning(g)
  BY <1>5, <1>9 DEF SelectRunning, SlotsTidy
<1>10. CASE JudgeLease(g) \/ JudgeGrace(g)
  BY <1>4, <1>10 DEF JudgeLease, JudgeGrace
<1>11. CASE FailStale(g)
  BY <1>6, <1>11 DEF FailStale, SlotsTidy
<1>12. CASE StopExpired(g)
  BY <1>6, <1>12 DEF StopExpired, SlotsTidy
<1>13. CASE EndStale(g)
  BY <1>6, <1>13 DEF EndStale
<1>14. CASE Answer(g) \/ MarkStop(g)
  BY <1>4, <1>14 DEF Answer, MarkStop
<1>15. ASSUME NEW r \in Runs, Launch(g, r) PROVE Row!Next
  BY <1>4, <1>15 DEF Launch
<1>16. ASSUME NEW r \in Runs, RecordSkipped(g, r) PROVE Row!Next
  <2>1. Holds(g) = {} /\ Holds(g)' = {}
    BY <1>16, HoldsOf DEF RecordSkipped, SlotsTidy
  <2>2. status[r] = "none" /\ status' = [status EXCEPT ![r] = "skipped"]
    BY <1>16 DEF RecordSkipped, Unstarted
  <2> QED BY <1>3, <2>1, <2>2, CreateIsRow
<1> QED
  BY <1>7, <1>8, <1>9, <1>10, <1>11, <1>12, <1>13, <1>14, <1>15, <1>16
  DEF Slot, Serve

\* Time changes nothing that a reader of the table sees, and a crash only
\* makes writers forget.
LEMMA EnvironmentImplements ==
  ASSUME TypeOK, TypeOK', Tick \/ \E p \in Processes : Crash(p)
  PROVE  Row!Next
<1> USE DEF TypeOK, Writers, vars, db, threads, slots, bounds
<1>1. status' = status
  BY DEF Tick, Crash
<1>2. \A w \in Writers : Holds(w)' \subseteq Holds(w)
  <2>1. CASE Tick
    BY <2>1, HoldsOf DEF Tick
  <2>2. ASSUME NEW p \in Processes, Crash(p)
        PROVE  \A w \in Writers : Holds(w)' \subseteq Holds(w)
    BY <2>2, HoldsOf DEF Crash
  <2> QED BY <2>1, <2>2
<1> QED BY <1>1, <1>2, ForgetIsRow

\* The rows of the runs table keep the promise of RunRow, whatever the
\* interleaving of threads, requests and fires, and whatever crashes.
THEOREM RowsRefine == Spec => RowsImplementRunRow
<1>1. Init => Row!Init
  BY HoldsOf DEF Init, Row!Init
<1>2. /\ TypeOK /\ TypeOK' /\ Unstarted /\ SlotsTidy
      /\ [Next]_vars
      => [Row!Next]_(Row!vars)
  <2> SUFFICES ASSUME TypeOK, TypeOK', Unstarted, SlotsTidy, [Next]_vars
               PROVE  [Row!Next]_(Row!vars)
    OBVIOUS
  <2>1. CASE UNCHANGED vars
    BY <2>1 DEF vars, db, threads, slots, Row!vars, Holds
  <2> QED BY <2>1, ThreadImplements, SlotImplements, EnvironmentImplements DEF Next
<1> QED
  BY <1>1, <1>2, TypeCorrect, StopInvariant, PTL
  DEF Spec, RowsImplementRunRow, Row!Spec
=============================================================================
