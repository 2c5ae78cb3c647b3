----------------------------- MODULE RunLifecycle -----------------------------
(***************************************************************************)
(* The life of discovery runs: the rows of the runs table, their leases,   *)
(* the stop marker and its timestamps (all rows of the settings table),    *)
(* the threads that execute run_discovery, their heartbeats, and the API   *)
(* requests and scheduler fires that sweep, start and stop runs.           *)
(*                                                                         *)
(* Every actor works through a database session of its own, and no actor   *)
(* holds a lock between reading a row and committing a change to it.  So   *)
(* an operation is split where it reads: what it read is kept in its own   *)
(* variables, and its commit is a later action.                            *)
(*                                                                         *)
(* Time is kept as ages.  One tick stands for one unit in which the        *)
(* thresholds are measured; an age stops growing one past its threshold.   *)
(***************************************************************************)
EXTENDS Naturals, FiniteSets

CONSTANTS Runs,        \* run ids; their number bounds the runs started
          NoRun,       \* "no run", for an absent stop marker
          Requests,    \* concurrent requests the API process can be serving
          Fires,       \* the fires of the scheduler's job: one slot, as
                       \* max_instances=1 (or none, for a model without it)
          Callers,     \* who calls: of "list", "trigger", "fire" and "cli"
          StaleAfter,  \* run_stale_after_seconds, in ticks
          Grace,       \* run_stop_grace_seconds, in ticks
          BeatLimit,   \* ticks that may pass between two beats that land
          MaxStops,    \* bound: stop requests made
          MaxCrashes   \* bound: process crashes

ASSUME NoRunAssumption == NoRun \notin Runs
ASSUME SlotAssumption == /\ Requests \cap Fires = {}
                         /\ Runs \cap (Requests \cup Fires) = {}
ASSUME CallerAssumption == Callers \subseteq {"list", "trigger", "fire", "cli"}
ASSUME TimeAssumption == StaleAfter \in Nat /\ Grace \in Nat /\ BeatLimit \in Nat
ASSUME BoundAssumption == MaxStops \in Nat /\ MaxCrashes \in Nat

VARIABLES
  status,    \* runs.status with the kind of error_summary, "none" = no row
  startAge,  \* age of runs.started_at
  leased,    \* runs that have a run_lease:<id> setting ...
  leaseAge,  \* ... and its age
  marker,    \* the run_stop_request setting: the one run asked to stop
  asked,     \* runs that have a run_stop_requested_at:<id> setting ...
  askedAge,  \* ... and its age
  phase,     \* where the thread executing run_discovery is
  owner,     \* the process that thread lives in
  pc,        \* where an API request or a scheduler fire is
  op,        \* what that request is for
  seen,      \* the RUNNING rows its last SELECT loaded into its session
  victims,   \* the rows it has decided to finalize
  drop,      \* whether it saw the stop marker name one of its victims
  stops, crashes

db == <<status, startAge, leased, leaseAge, marker, asked, askedAge>>
threads == <<phase, owner>>
slots == <<pc, op, seen, victims, drop>>
bounds == <<stops, crashes>>
vars == <<db, threads, slots, bounds>>

Slots == Requests \cup Fires
\* Ages are told apart up to one past the threshold they are compared with.
Ages == 0..(StaleAfter + 1)
AskedAges == 0..(Grace + 1)

\* "completed" stands for the verdicts of finalize_run (run_status: SUCCESS,
\* PARTIAL, CAPPED, or FAILED when every employer failed), "failed" for the
\* abort handler's FAILED, "interrupted" for the stale sweep's FAILED.
Statuses == {"none", "running", "completed", "failed", "interrupted",
             "stopped", "skipped"}
Terminal == Statuses \ {"none", "running"}
Processes == {"api", "scheduler", "cli"}

\* The phases in which run_discovery has a row and has not returned yet.
Working == {"setup", "graph", "gated", "finish", "wrapup",
            "halt", "halting", "abort", "aborting"}
Phases == {"idle", "launch", "closing", "done", "dead"} \cup Working
\* The phases in which the heartbeat thread is running; "closing" lasts until
\* a beat that is under way has landed.
Beating == (Working \ {"setup"}) \cup {"closing"}

Pcs == {"idle", "judgeLease", "failStale", "select", "judgeGrace",
        "stopExpired", "decide", "markStop", "endStale"}
Ops == {"none", "list", "trigger", "fire", "stop"}

TypeOK ==
  /\ status \in [Runs -> Statuses]
  /\ startAge \in [Runs -> Ages]
  /\ leased \subseteq Runs
  /\ leaseAge \in [Runs -> Ages]
  /\ marker \in Runs \cup {NoRun}
  /\ asked \subseteq Runs
  /\ askedAge \in [Runs -> AskedAges]
  /\ phase \in [Runs -> Phases]
  /\ owner \in [Runs -> Processes \cup {"nobody"}]
  /\ pc \in [Slots -> Pcs]
  /\ op \in [Slots -> Ops]
  /\ seen \in [Slots -> SUBSET Runs]
  /\ victims \in [Slots -> SUBSET Runs]
  /\ drop \in [Slots -> BOOLEAN]
  /\ stops \in 0..MaxStops
  /\ crashes \in 0..MaxCrashes

Init ==
  /\ status = [r \in Runs |-> "none"]
  /\ startAge = [r \in Runs |-> 0]
  /\ leased = {}
  /\ leaseAge = [r \in Runs |-> 0]
  /\ marker = NoRun
  /\ asked = {}
  /\ askedAge = [r \in Runs |-> 0]
  /\ phase = [r \in Runs |-> "idle"]
  /\ owner = [r \in Runs |-> "nobody"]
  /\ pc = [g \in Slots |-> "idle"]
  /\ op = [g \in Slots |-> "none"]
  /\ seen = [g \in Slots |-> {}]
  /\ victims = [g \in Slots |-> {}]
  /\ drop = [g \in Slots |-> FALSE]
  /\ stops = 0
  /\ crashes = 0

-----------------------------------------------------------------------------
(* What the code reads.                                                    *)

RunningRows == {r \in Runs : status[r] = "running"}

\* lease_timestamp: the lease, or started_at when the lease row is gone.
LastSeenAge(r) == IF r \in leased THEN leaseAge[r] ELSE startAge[r]

\* run_is_live on a row already loaded as RUNNING: an age equal to the
\* threshold is still live.  (The two forms before it are wrong on purpose,
\* here and wherever a definition has such a form before it: substituted for
\* it, they show which property notices.  Next uses none of them.)
JudgedByStart(r) == startAge[r] <= StaleAfter
JudgedByLeaseOnly(r) == r \in leased
IsLive(r) == LastSeenAge(r) <= StaleAfter

\* is_stop_requested: the marker names exactly this run.
AnyStopRequested(r) == marker # NoRun
IsStopRequested(r) == marker = r

\* _raise_if_stop_requested_or_finished raises: it reads the row and then, in a
\* session of its own, the marker.
MustStop(r) == status[r] # "running" \/ IsStopRequested(r)

\* The grace sweep's test of one row loaded as RUNNING.
GraceExpiredMarked(r) == r \in asked /\ askedAge[r] > Grace /\ marker = r
GraceExpired(r) == r \in asked /\ askedAge[r] > Grace

-----------------------------------------------------------------------------
(* What the code writes.                                                   *)

\* _apply_finish, flushed: an UPDATE by primary key, whatever the row holds.
Finish(R, s) == status' = [r \in Runs |-> IF r \in R THEN s ELSE status[r]]

\* record_run_heartbeat: an upsert of the lease.
BeatAhead(r) == /\ leased' = leased \cup {r}
                /\ leaseAge' = [leaseAge EXCEPT ![r] = StaleAfter + 2]
RecordHeartbeat(r) == /\ leased' = leased \cup {r}
                      /\ leaseAge' = [leaseAge EXCEPT ![r] = 0]

\* clear_run_lease.
ClearLease(R) == /\ leased' = leased \ R
                 /\ leaseAge' = [r \in Runs |-> IF r \in R THEN 0 ELSE leaseAge[r]]

\* The requested-at rows of R are deleted.
ClearAsked(R) == /\ asked' = asked \ R
                 /\ askedAge' = [r \in Runs |-> IF r \in R THEN 0 ELSE askedAge[r]]

\* clear_stop_request(session, run_id): the marker goes whichever run it
\* names, and the requested-at row of run_id.
ClearAllStops(r) == /\ marker' = NoRun
                    /\ ClearAsked(Runs)
ClearStopRequest(r) == /\ marker' = NoRun
                       /\ ClearAsked({r})

\* request_stop: both rows are upserted; a second request for the same run
\* starts its grace period again.
RequestStop(r) == /\ marker' = r
                  /\ asked' = asked \cup {r}
                  /\ askedAge' = [askedAge EXCEPT ![r] = 0]

-----------------------------------------------------------------------------
(* The thread that executes run_discovery.                                 *)

Step(r, from, to) == /\ phase[r] = from
                     /\ phase' = [phase EXCEPT ![r] = to]
                     /\ UNCHANGED owner

\* A run id is free, beyond those that requests in flight may need.
Room == Cardinality({g \in Slots : op[g] \in {"trigger", "fire"}})
          < Cardinality({r \in Runs : phase[r] = "idle"})

\* cmd_run: `huntloop run` enters run_discovery with no sweep and no
\* overlap check.
CliRun(r) ==
  /\ "cli" \in Callers
  /\ phase[r] = "idle"
  /\ Room
  /\ phase' = [phase EXCEPT ![r] = "launch"]
  /\ owner' = [owner EXCEPT ![r] = "cli"]
  /\ UNCHANGED <<db, slots, bounds>>

\* No active criteria: the run ends before it has a row.
NoActiveCriteria(r) ==
  /\ Step(r, "launch", "done")
  /\ UNCHANGED <<db, slots, bounds>>

\* The row and its lease are committed together.
StartRun(r) ==
  /\ Step(r, "launch", "setup")
  /\ status' = [status EXCEPT ![r] = "running"]
  /\ startAge' = [startAge EXCEPT ![r] = 0]
  /\ RecordHeartbeat(r)
  /\ UNCHANGED <<marker, asked, askedAge, slots, bounds>>

\* The clients are built and the heartbeat thread starts.
StartHeartbeat(r) ==
  /\ Step(r, "setup", "graph")
  /\ UNCHANGED <<db, slots, bounds>>

\* A client cannot be built: the exception leaves run_discovery before its
\* try block, so nothing writes a verdict and no heartbeat ever runs.
SetupFails(r) ==
  /\ Step(r, "setup", "dead")
  /\ UNCHANGED <<db, slots, bounds>>

\* The heartbeat thread refreshes the lease, whatever the row says.
Beat(r) ==
  /\ phase[r] \in Beating
  /\ RecordHeartbeat(r)
  /\ UNCHANGED <<status, startAge, marker, asked, askedAge, threads, slots, bounds>>

\* A boundary of process_employer, or finalize_run's own gate, raises
\* RunStoppedByUser, which escapes the graph.
GateStops(r) ==
  /\ MustStop(r)
  /\ Step(r, "graph", "halt")
  /\ UNCHANGED <<db, slots, bounds>>

\* The last employer is done and finalize_run's gate lets the run through: no
\* marker names it.  The row was RUNNING when the gate read it, a moment
\* before; a sweep can have ended it since and deleted the marker.
GatePasses(r) ==
  /\ ~IsStopRequested(r)
  /\ Step(r, "graph", "gated")
  /\ UNCHANGED <<db, slots, bounds>>

\* Any other exception inside run_discovery's try block.
Raise(r) ==
  /\ phase[r] \in {"graph", "gated", "finish", "wrapup"}
  /\ Step(r, phase[r], "abort")
  /\ UNCHANGED <<db, slots, bounds>>

\* finish_if_running's read: it goes on to write only if the row is RUNNING.
FinishUnchecked(r, from, go, skip) == Step(r, from, go)
FinishIfRunning(r, from, go, skip) ==
  Step(r, from, IF status[r] = "running" THEN go ELSE skip)

\* finalize_run reads the row again and then commits its verdict.
FinalizeReads(r) ==
  /\ FinishIfRunning(r, "gated", "finish", "wrapup")
  /\ UNCHANGED <<db, slots, bounds>>

FinalizeCommits(r) ==
  /\ Step(r, "finish", "wrapup")
  /\ Finish({r}, "completed")
  /\ UNCHANGED <<startAge, leased, leaseAge, marker, asked, askedAge, slots, bounds>>

\* The summary is built and the proposals are generated; then
\* _clear_run_artifacts removes the lease and the stop request.
WrapUp(r) ==
  /\ Step(r, "wrapup", "closing")
  /\ ClearLease({r})
  /\ ClearStopRequest(r)
  /\ UNCHANGED <<status, startAge, slots, bounds>>

\* The RunStoppedByUser handler.
HaltReads(r) ==
  /\ status[r] = "running"
  /\ Step(r, "halt", "halting")
  /\ UNCHANGED <<db, slots, bounds>>

HaltCommits(r) ==
  /\ \/ /\ Step(r, "halting", "closing")
        /\ Finish({r}, "stopped")
     \/ /\ status[r] # "running"          \* already terminal: clean up only
        /\ Step(r, "halt", "closing")
        /\ UNCHANGED status
  /\ ClearStopRequest(r)
  /\ ClearLease({r})
  /\ UNCHANGED <<startAge, slots, bounds>>

\* The handler of every other exception; it leaves the stop request alone.
AbortReads(r) ==
  /\ status[r] = "running"
  /\ Step(r, "abort", "aborting")
  /\ UNCHANGED <<db, slots, bounds>>

AbortCommits(r) ==
  /\ \/ /\ Step(r, "aborting", "closing")
        /\ Finish({r}, "failed")
     \/ /\ status[r] # "running"
        /\ Step(r, "abort", "closing")
        /\ UNCHANGED status
  /\ ClearLease({r})
  /\ UNCHANGED <<startAge, marker, asked, askedAge, slots, bounds>>

\* A handler's own commit fails: the exception leaves run_discovery, the
\* finally block stops the heartbeat, the row keeps what it has.
HandlerFails(r) ==
  /\ phase[r] \in {"halt", "halting", "abort", "aborting"}
  /\ Step(r, phase[r], "dead")
  /\ UNCHANGED <<db, slots, bounds>>

\* The finally block: heartbeat.stop().
StopHeartbeat(r) ==
  /\ Step(r, "closing", "done")
  /\ UNCHANGED <<db, slots, bounds>>

-----------------------------------------------------------------------------
(* API requests and scheduler fires.  list_runs, trigger_run and           *)
(* execute_scheduled_run all begin with reconcile_stale_runs and           *)
(* finalize_grace_expired_stops on one session.                            *)

Goto(g, to) == pc' = [pc EXCEPT ![g] = to]

Idle(g) == /\ Goto(g, "idle")
           /\ op' = [op EXCEPT ![g] = "none"]
           /\ seen' = [seen EXCEPT ![g] = {}]
           /\ victims' = [victims EXCEPT ![g] = {}]
           /\ drop' = [drop EXCEPT ![g] = FALSE]

\* The scheduler's job does not re-enter itself: it is busy until its run
\* returns.
SchedulerBusy == \E r \in Runs : /\ owner[r] = "scheduler"
                                 /\ phase[r] \notin {"done", "dead"}

MayOpen(g, o) == \/ g \in Requests /\ o = "list"
                 \/ g \in Requests /\ o = "trigger" /\ Room
                 \/ g \in Fires /\ o = "fire" /\ Room /\ ~SchedulerBusy

\* reconcile_stale_runs: SELECT the RUNNING rows.
Open(g, o) ==
  /\ pc[g] = "idle"
  /\ MayOpen(g, o)
  /\ Goto(g, "judgeLease")
  /\ op' = [op EXCEPT ![g] = o]
  /\ seen' = [seen EXCEPT ![g] = RunningRows]
  /\ UNCHANGED <<victims, drop, db, threads, bounds>>

\* Then each row's lease is read; the row itself is not read again.  The
\* code reads the leases one by one; as the judgement of a row depends on
\* nothing but its own lease, one moment stands for all of them.
JudgeLease(g) ==
  LET stale == {r \in seen[g] : ~IsLive(r)} IN
  /\ pc[g] = "judgeLease"
  /\ Goto(g, IF stale = {} THEN "select" ELSE "failStale")
  /\ victims' = [victims EXCEPT ![g] = stale]
  /\ seen' = [seen EXCEPT ![g] = {}]
  /\ UNCHANGED <<op, drop, db, threads, bounds>>

\* finalize_stale_run for each, and the commit.  finish_if_running finds
\* the row in the session's identity map as the SELECT loaded it, so its
\* check never fails here.
FailStale(g) ==
  /\ pc[g] = "failStale"
  /\ Finish(victims[g], "interrupted")
  /\ ClearLease(victims[g])
  /\ Goto(g, "select")
  /\ victims' = [victims EXCEPT ![g] = {}]
  /\ UNCHANGED <<op, seen, drop, startAge, marker, asked, askedAge, threads, bounds>>

\* finalize_grace_expired_stops: SELECT the RUNNING rows again.
SelectRunning(g) ==
  /\ pc[g] = "select"
  /\ Goto(g, "judgeGrace")
  /\ seen' = [seen EXCEPT ![g] = RunningRows]
  /\ UNCHANGED <<op, victims, drop, db, threads, bounds>>

\* Each row's requested-at is read, and whether the marker names it.
JudgeGrace(g) ==
  LET expired == {r \in seen[g] : GraceExpired(r)} IN
  /\ pc[g] = "judgeGrace"
  /\ Goto(g, IF expired = {} THEN "decide" ELSE "stopExpired")
  /\ victims' = [victims EXCEPT ![g] = expired]
  /\ drop' = [drop EXCEPT ![g] = marker \in expired]
  /\ seen' = [seen EXCEPT ![g] = {}]
  /\ UNCHANGED <<op, db, threads, bounds>>

\* The rows are finalized STOPPED and their settings deleted, in one commit.
\* A marker that named a victim when it was read is deleted by its key.
StopExpired(g) ==
  /\ pc[g] = "stopExpired"
  /\ Finish(victims[g], "stopped")
  /\ ClearLease(victims[g])
  /\ ClearAsked(victims[g])
  /\ marker' = IF drop[g] THEN NoRun ELSE marker
  /\ Goto(g, "decide")
  /\ victims' = [victims EXCEPT ![g] = {}]
  /\ drop' = [drop EXCEPT ![g] = FALSE]
  /\ UNCHANGED <<op, seen, startAge, threads, bounds>>

\* list_runs answers; trigger_run answers 409 when find_run_in_progress
\* finds a row.
Answer(g) ==
  /\ pc[g] = "decide"
  /\ op[g] = "list" \/ (op[g] = "trigger" /\ RunningRows # {})
  /\ Idle(g)
  /\ UNCHANGED <<db, threads, bounds>>

\* No row is RUNNING: trigger_run starts a background thread, and the
\* scheduler's job calls run_discovery itself.  Neither has a row yet.
Launch(g, r) ==
  /\ pc[g] = "decide"
  /\ op[g] \in {"trigger", "fire"}
  /\ RunningRows = {}
  /\ phase[r] = "idle"
  /\ phase' = [phase EXCEPT ![r] = "launch"]
  /\ owner' = [owner EXCEPT ![r] = IF g \in Fires THEN "scheduler" ELSE "api"]
  /\ Idle(g)
  /\ UNCHANGED <<db, bounds>>

\* record_skipped_run: the row is started and finished in one commit.
RecordSkipped(g, r) ==
  /\ pc[g] = "decide"
  /\ op[g] = "fire"
  /\ RunningRows # {}
  /\ phase[r] = "idle"
  /\ phase' = [phase EXCEPT ![r] = "done"]
  /\ status' = [status EXCEPT ![r] = "skipped"]
  /\ Idle(g)
  /\ UNCHANGED <<startAge, leased, leaseAge, marker, asked, askedAge, owner, bounds>>

\* stop_run reads the row and judges it.  A missing or terminal row is
\* answered 404 or 409 and changes nothing.
StopReads(g, r) ==
  /\ g \in Requests
  /\ pc[g] = "idle"
  /\ stops < MaxStops
  /\ status[r] = "running"
  /\ Goto(g, IF IsLive(r) THEN "markStop" ELSE "endStale")
  /\ op' = [op EXCEPT ![g] = "stop"]
  /\ victims' = [victims EXCEPT ![g] = {r}]
  /\ stops' = stops + 1
  /\ UNCHANGED <<seen, drop, db, threads, crashes>>

\* A live run is asked to stop.
MarkStop(g) ==
  /\ pc[g] = "markStop"
  /\ \E r \in victims[g] : RequestStop(r)
  /\ Idle(g)
  /\ UNCHANGED <<status, startAge, leased, leaseAge, threads, bounds>>

\* A stale one is finalized at once, from the row as it was loaded.
EndStale(g) ==
  /\ pc[g] = "endStale"
  /\ \E r \in victims[g] : /\ Finish({r}, "stopped")
                           /\ ClearLease({r})
                           /\ ClearStopRequest(r)
  /\ Idle(g)
  /\ UNCHANGED <<startAge, threads, bounds>>

-----------------------------------------------------------------------------
(* The environment: time and crashes.                                      *)

\* The rows whose ages a later decision can read: RUNNING now, or loaded as
\* RUNNING by a request in flight.  The ages of the others are forgotten.
Watched == RunningRows \cup UNION {seen[g] : g \in Slots}

Older(present, age, threshold) ==
  LET ageing == present \cap Watched IN
  [r \in Runs |-> IF r \notin ageing THEN 0
                  ELSE IF age[r] <= threshold THEN age[r] + 1 ELSE age[r]]

\* Time passes.  A run that is working has a beat land (in "setup", the
\* lease of the row itself) at most BeatLimit ticks ago.
Timely(r) == phase[r] \in Working => r \in leased /\ leaseAge[r] < BeatLimit

Tick ==
  /\ UNCHANGED <<status, leased, marker, asked, threads, slots, bounds>>
  /\ \A r \in Runs : Timely(r)
  /\ startAge' = Older({r \in Runs : status[r] # "none"}, startAge, StaleAfter)
  /\ leaseAge' = Older(leased, leaseAge, StaleAfter)
  /\ askedAge' = Older(asked, askedAge, Grace)

SlotsOf(p) == CASE p = "api" -> Requests
                [] p = "scheduler" -> Fires
                [] p = "cli" -> {}

\* A process dies: its run threads and their heartbeats, and the requests
\* it was serving, vanish; what they had not committed is lost.
Crash(p) ==
  /\ crashes < MaxCrashes
  /\ crashes' = crashes + 1
  /\ phase' = [r \in Runs |-> IF owner[r] = p /\ phase[r] # "done"
                              THEN "dead" ELSE phase[r]]
  /\ pc' = [g \in Slots |-> IF g \in SlotsOf(p) THEN "idle" ELSE pc[g]]
  /\ op' = [g \in Slots |-> IF g \in SlotsOf(p) THEN "none" ELSE op[g]]
  /\ seen' = [g \in Slots |-> IF g \in SlotsOf(p) THEN {} ELSE seen[g]]
  /\ victims' = [g \in Slots |-> IF g \in SlotsOf(p) THEN {} ELSE victims[g]]
  /\ drop' = [g \in Slots |-> IF g \in SlotsOf(p) THEN FALSE ELSE drop[g]]
  /\ UNCHANGED <<db, owner, stops>>

-----------------------------------------------------------------------------
Thread(r) ==
  \/ CliRun(r) \/ NoActiveCriteria(r) \/ StartRun(r)
  \/ StartHeartbeat(r) \/ SetupFails(r) \/ Beat(r)
  \/ GateStops(r) \/ GatePasses(r) \/ Raise(r)
  \/ FinalizeReads(r) \/ FinalizeCommits(r) \/ WrapUp(r)
  \/ HaltReads(r) \/ HaltCommits(r)
  \/ AbortReads(r) \/ AbortCommits(r) \/ HandlerFails(r) \/ StopHeartbeat(r)

\* The steps a request takes once it is open.
Serve(g) ==
  \/ JudgeLease(g) \/ FailStale(g) \/ SelectRunning(g)
  \/ JudgeGrace(g) \/ StopExpired(g) \/ Answer(g)
  \/ MarkStop(g) \/ EndStale(g)
  \/ \E r \in Runs : Launch(g, r) \/ RecordSkipped(g, r)

Slot(g) == \/ \E o \in Callers : Open(g, o)
           \/ \E r \in Runs : StopReads(g, r)
           \/ Serve(g)

Next == \/ \E r \in Runs : Thread(r)
        \/ \E g \in Slots : Slot(g)
        \/ \E p \in Processes : Crash(p)
        \/ Tick

Spec == Init /\ [][Next]_vars

-----------------------------------------------------------------------------
(* Properties.                                                             *)

\* A run whose beats land within the threshold is never written off: no
\* sweep turns the RUNNING row of a working run into "interrupted", however
\* its SELECT, its reading of the lease and its commit interleave with the
\* run's own progress (db/run_liveness.py, HEARTBEAT_INTERVAL_SECONDS: "never
\* falsely kill a live run").  It is stated for BeatLimit <= StaleAfter.
NoFalseKill ==
  [][\A r \in Runs : status[r] = "running" /\ status'[r] = "interrupted"
                       => phase[r] \notin Working]_vars

\* An acknowledged stop is never forgotten while the run goes on, although
\* the one stop marker may be overwritten by a stop of another run or
\* deleted when another run ends: the requested-at row, which the grace
\* sweep reads, stays until the run has a verdict.
StopNotLost ==
  [][\A r \in Runs : r \in asked /\ status[r] = "running" /\ status'[r] = "running"
                       => r \in asked']_vars

\* A run goes from RUNNING to STOPPED only if somebody asked to stop this
\* very run: it has a requested-at row, or a stop request found it stale.
\* A stop meant for another run never stops it.
OnlyUserStops ==
  [][\A r \in Runs : status[r] = "running" /\ status'[r] = "stopped"
                       => \/ r \in asked
                          \/ \E g \in Slots : pc[g] = "endStale" /\ r \in victims[g]]_vars

\* The writers of a row are the run's own thread and the requests; each
\* holds what it saw RUNNING.
Holds(w) == IF w \in Runs
            THEN IF phase[w] \in {"finish", "halting", "aborting"} THEN {w} ELSE {}
            ELSE seen[w] \cup victims[w]

Row == INSTANCE RunRow WITH Writers <- Runs \cup Slots,
                            row <- status,
                            obs <- [w \in Runs \cup Slots |-> Holds(w)]

\* The detailed rows implement the abstract ones: created once, never
\* RUNNING again after a verdict, and given a verdict only by a writer that
\* saw them RUNNING and has not settled since.
RowsImplementRunRow == Row!Spec

\* finish_if_running's docstring and the comments at its call sites: once a
\* row is terminal, nothing overwrites it.
TerminalIsFinal ==
  [][\A r \in Runs : status[r] \in Terminal => status'[r] = status[r]]_vars

\* trigger_run's docstring: a manual trigger and a scheduled fire cannot
\* both run.
ManualAndScheduledExclude ==
  ~ \E r, q \in Runs : /\ status[r] = "running" /\ owner[r] = "api"
                       /\ status[q] = "running" /\ owner[q] = "scheduler"

-----------------------------------------------------------------------------
(* The inductive invariant behind the safety properties.                   *)

\* A run that has not started has no row, and nothing knows its id.
Unstarted ==
  \A r \in Runs :
    /\ phase[r] \in {"idle", "launch"} => status[r] = "none"
    /\ status[r] = "none" => /\ marker # r
                             /\ r \notin asked
                             /\ \A g \in Slots : r \notin seen[g] \cup victims[g]

\* A request carries rows only between the steps that need them.
SlotsTidy ==
  \A g \in Slots :
    /\ pc[g] \notin {"judgeLease", "judgeGrace"} => seen[g] = {}
    /\ pc[g] \in {"idle", "judgeLease", "select", "judgeGrace", "decide"}
         => victims[g] = {}

\* A thread that cleans up after its graph leaves a verdict behind it.
VerdictBeforeCleanup ==
  \A r \in Runs : phase[r] \in {"wrapup", "closing"} => status[r] # "running"

\* Whatever is about to stop a run rests on a requested-at row of that run.
StopsAreAsked ==
  \A r \in Runs : status[r] = "running" =>
    /\ marker = r => r \in asked
    /\ phase[r] \in {"halt", "halting"} => r \in asked
    /\ \A g \in Slots : pc[g] = "stopExpired" /\ r \in victims[g] => r \in asked

\* A working run has a fresh lease, and no sweep has judged it stale.
WorkingHasLease ==
  \A r \in Runs : status[r] = "running" /\ phase[r] \in Working =>
    /\ r \in leased
    /\ leaseAge[r] <= BeatLimit

WorkingNotCondemned ==
  \A r \in Runs, g \in Slots :
    status[r] = "running" /\ pc[g] = "failStale" /\ r \in victims[g]
      => phase[r] \notin Working

\* Together: what one step needs to know for the safety properties to hold
\* of it.
LifecycleInv ==
  /\ Unstarted
  /\ SlotsTidy
  /\ VerdictBeforeCleanup
  /\ StopsAreAsked
  /\ WorkingHasLease
  /\ WorkingNotCondemned

-----------------------------------------------------------------------------
(* Liveness.  Nothing is assumed of a run's thread once its graph is       *)
(* running: it may be stuck in one employer for ever, with its heartbeat   *)
(* alive.  Requests that are open are served, the Runs page keeps polling  *)
(* (or, which does the same sweeps, the scheduler keeps firing), clients   *)
(* are built or fail, heartbeats beat, time passes.                        *)

Alive(r) == Beat(r) \/ StartHeartbeat(r) \/ SetupFails(r)

Fairness ==
  /\ WF_vars(Tick)
  /\ \A r \in Runs : WF_vars(Alive(r))
  /\ \A g \in Requests : WF_vars(Serve(g) \/ Open(g, "list"))
  /\ \A g \in Fires : WF_vars(Serve(g))

FairSpec == Spec /\ Fairness

\* Every stop that was acknowledged ends the run, even when its thread never
\* reaches another boundary and even when the marker is lost: again and
\* again there is a moment when no run that was asked to stop is RUNNING.
StopHonoured == []<>(asked \cap RunningRows = {})

\* A row whose thread is gone does not stay RUNNING, so it does not hold the
\* overlap guard for ever: the stale sweep is the reaper of which
\* docs/operations/scheduling.md:120 says that there is none.
OrphanReaped == []<>(\A r \in RunningRows : phase[r] # "dead")

=============================================================================
