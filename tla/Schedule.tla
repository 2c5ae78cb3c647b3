------------------------------ MODULE Schedule ------------------------------
(***************************************************************************)
(* The daily job: a schedule saved in the settings, the daemon that builds *)
(* the scheduler from it and follows it, and the fires.                    *)
(*                                                                         *)
(* A schedule is two rows, run_at and timezone, and stands for the ticks   *)
(* it falls on.  APScheduler, its job store and its cron trigger are       *)
(* external; what matters of them is how the code uses them: the job in    *)
(* the store outlives the daemon, a job that is added gets the next        *)
(* occurrence after now, and a job that is due is first submitted and then *)
(* written back with its next time.  A computed time lies strictly after   *)
(* the tick it is computed in.  What a fire does with its run is           *)
(* RunLifecycle's.                                                         *)
(***************************************************************************)
EXTENDS Integers

CONSTANTS RunAts, Zones,  \* values of the two rows
          Fires,          \* <<run_at, timezone>> -> the ticks it falls on
          Day,            \* ticks of 24 hours
          Skew,           \* CATCHUP_SKEW
          None,
          Horizon,        \* bound: the last tick
          MaxSaves,       \* bound: saved schedules
          MaxCrashes      \* bound: ends of the daemon, and failed writes of the job

Schedules == RunAts \X Zones
Never == Horizon + Day
Jobs == [trigger : Schedules, next : Nat]
Triggers == {"scheduled", "catch_up"}
Runs == [trigger : Schedules, due : Nat, label : Triggers \cup {None}]
Steps == [next : Nat, dropped : BOOLEAN]
Plans(n) == [trigger : Schedules, next : Nat, at : 0..n]

ASSUME ScheduleAssumption ==
  /\ Day \in Nat \ {0} /\ Skew \in 0..Day - 1 /\ Horizon \in Nat
  /\ MaxSaves \in Nat /\ MaxCrashes \in Nat
  /\ Fires \in [Schedules -> SUBSET (0..Horizon)]

\* None is none of the values a variable may have instead.
ASSUME NoneAssumption ==
  /\ None \notin RunAts /\ None \notin Schedules /\ None \notin Runs /\ None \notin Steps
  /\ None \notin [trigger : Schedules, next : Nat \cup {None}]

VARIABLES
  now,
  rows,    \* the committed settings
  job,     \* the job store: a trigger and its next_run_time, or None
  daemon,  \* "down", "built" (the scheduler is not started), "up", or "failed"
           \* (start() has raised, and the process waits for the fire's run)
  pending, \* a built daemon's: the job yet to be added, or None
  read,    \* the run_at that a reader of both rows has read, or None
  wanted,  \* the schedule a poll is about to store, when due, and when that
           \* was computed, or None
  waking,  \* a job that is submitted: the time it is to be written back with,
           \* and whether its fire was dropped, or None
  fire,    \* the thread of the job: its trigger, occurrence and label, or None
  firedAt, \* history: the tick of the last fire
  lost,    \* history: the time in the store was computed before the last fire
  saves, crashes

process == <<daemon, pending>>
counts == <<saves, crashes>>
vars == <<now, rows, job, process, read, wanted, waking, fire, firedAt, lost, counts>>

Readers == {"boot", "watcher", "fire"}
Waking == waking # None
Dropped == Waking /\ waking.dropped

TypeOK ==
  /\ now \in 0..Horizon /\ rows \in Schedules /\ daemon \in {"down", "built", "up", "failed"}
  /\ job = None \/ (job \in Jobs /\ job.next \in Fires[job.trigger] \cup {Never})
  /\ pending = None \/ /\ pending \in [trigger : Schedules, next : Nat \cup {None}]
                       /\ pending.next \in Fires[pending.trigger] \cup {Never, None}
  /\ read \in [Readers -> RunAts \cup {None}]
  /\ wanted = None \/ (wanted \in Plans(now) /\ wanted.next \in Fires[wanted.trigger] \cup {Never})
  /\ waking = None \/ (waking \in Steps /\ waking.next \in Fires[job.trigger] \cup {Never})
  /\ fire = None \/ (fire \in Runs /\ fire.due \in Fires[fire.trigger] /\ fire.due <= now)
  /\ firedAt \in -1..now /\ lost \in BOOLEAN

Init ==
  /\ now = 0 /\ rows \in Schedules /\ job = None /\ daemon = "down" /\ pending = None
  /\ read = [r \in Readers |-> None] /\ wanted = None /\ waking = None /\ fire = None
  /\ firedAt = -1 /\ lost = FALSE /\ saves = 0 /\ crashes = 0

----------------------------------------------------------------------------
(* The cron trigger of a schedule.                                         *)

Earliest(T) == IF T = {} THEN Never ELSE CHOOSE t \in T : \A u \in T : t <= u
Latest(T) == CHOOSE t \in T : \A u \in T : u <= t

\* get_next_fire_time, whose bound is inclusive.
NextFire(s, from) == Earliest({t \in Fires[s] : t >= from})

\* Mutant: without the microsecond.
ClassifyExactly(s) ==
  LET previous == NextFire(s, now - Day)
  IN IF previous <= now /\ now - previous > Skew THEN "catch_up" ELSE "scheduled"

\* classify_trigger: the first occurrence after now - 1 day (the microsecond).
Classify(s) ==
  LET previous == NextFire(s, now - Day + 1)
  IN IF previous <= now /\ now - previous > Skew THEN "catch_up" ELSE "scheduled"

----------------------------------------------------------------------------
(* load_effective_config selects one row after the other.                  *)

ReadRunAt(r) == read' = [read EXCEPT ![r] = rows[1]]
ReadDone(r) == read' = [read EXCEPT ![r] = None]
Effective(r) == <<read[r], rows[2]>>

\* update_schedule: both rows in one transaction.
Save(s) ==
  /\ saves < MaxSaves /\ s # rows
  /\ rows' = s /\ saves' = saves + 1
  /\ UNCHANGED <<now, job, process, read, wanted, waking, fire, firedAt, lost, crashes>>

----------------------------------------------------------------------------
(* The daemon.                                                             *)

\* cmd_scheduler_start
Boot ==
  /\ daemon = "down" /\ read["boot"] = None /\ ReadRunAt("boot")
  /\ UNCHANGED <<now, rows, job, process, wanted, waking, fire, firedAt, lost, counts>>

\* Mutant: add_job is not guarded.
BuildUnguarded ==
  /\ daemon = "down" /\ read["boot"] # None
  /\ job' = None /\ pending' = [trigger |-> Effective("boot"), next |-> None]
  /\ daemon' = "built" /\ ReadDone("boot")
  /\ UNCHANGED <<now, rows, wanted, waking, fire, firedAt, lost, counts>>

\* build_scheduler.  A job of the schedule it reads stays, with the time it is
\* due at; one of another schedule is removed; the new one is only pending.
Build ==
  /\ daemon = "down" /\ read["boot"] # None
  /\ IF job # None /\ job.trigger = Effective("boot")
     THEN pending' = None /\ UNCHANGED job
     ELSE pending' = [trigger |-> Effective("boot"), next |-> None] /\ job' = None
  /\ daemon' = "built" /\ ReadDone("boot")
  /\ UNCHANGED <<now, rows, wanted, waking, fire, firedAt, lost, counts>>

Added(s) == [trigger |-> s, next |-> NextFire(s, now + 1)]

\* scheduler.start() adds what is pending, with its time if it has one.
Start ==
  /\ daemon = "built"
  /\ daemon' = "up" /\ pending' = None
  /\ IF pending = None THEN UNCHANGED <<job, lost>>
     ELSE /\ job' = IF pending.next = None THEN Added(pending.trigger) ELSE pending
          /\ lost' = FALSE
  /\ UNCHANGED <<now, rows, read, wanted, waking, fire, firedAt, counts>>

\* The daemon is no more, nor are its threads; the job store stays.
Gone ==
  /\ daemon' = "down" /\ pending' = None /\ wanted' = None /\ waking' = None /\ fire' = None
  /\ read' = [r \in Readers |-> None]
  /\ UNCHANGED <<now, rows, job, firedAt, saves>>

\* It ends in any state, and with a job submitted and not yet written back.
Crash ==
  /\ crashes < MaxCrashes /\ (daemon # "down" \/ read["boot"] # None) /\ Gone
  /\ crashes' = crashes + 1 /\ lost' = (lost \/ (Waking /\ ~waking.dropped))

\* After an exception of start() it waits for the run that goes on, and ends.
Exit == daemon = "failed" /\ fire = None /\ Gone /\ UNCHANGED <<lost, crashes>>

\* watch_settings_and_reschedule, every poll_seconds: read, then compare.  It
\* is started before the scheduler; until that is up, get_job and
\* reschedule_job see the pending job only.  A poll that fails is as good as
\* none.
Poll ==
  /\ daemon \in {"built", "up"} /\ read["watcher"] = None /\ wanted = None
  /\ ReadRunAt("watcher")
  /\ UNCHANGED <<now, rows, job, process, wanted, waking, fire, firedAt, lost, counts>>

Current == IF daemon = "built" THEN pending ELSE job

\* Mutant: the fingerprint leaves out the timezone.
CompareFields ==
  /\ read["watcher"] # None
  /\ wanted' = IF Current # None /\ Current.trigger[1] # read["watcher"]
               THEN [trigger |-> Effective("watcher"), at |-> now,
                     next |-> NextFire(Effective("watcher"), now + 1)]
               ELSE None
  /\ ReadDone("watcher")
  /\ UNCHANGED <<now, rows, job, process, waking, fire, firedAt, lost, counts>>

\* The fingerprints are compared, and reschedule_job computes the time the new
\* trigger is due at, ...
Compare ==
  /\ read["watcher"] # None
  /\ wanted' = IF Current # None /\ Current.trigger # Effective("watcher")
               THEN [trigger |-> Effective("watcher"), at |-> now,
                     next |-> NextFire(Effective("watcher"), now + 1)]
               ELSE None
  /\ ReadDone("watcher")
  /\ UNCHANGED <<now, rows, job, process, waking, fire, firedAt, lost, counts>>

\* Mutant: the trigger is replaced, the time it is due at stays.
RescheduleKeepsTime ==
  /\ wanted # None /\ ~Waking /\ daemon # "built"
  /\ job' = [job EXCEPT !.trigger = wanted.trigger] /\ wanted' = None
  /\ UNCHANGED <<now, rows, process, read, waking, fire, firedAt, lost, counts>>

\* ... and then stores both, under the lock that a wake holds, however long it
\* waits for it.
Reschedule ==
  /\ wanted # None /\ ~Waking /\ wanted' = None
  /\ LET new == [trigger |-> wanted.trigger, next |-> wanted.next]
     IN IF daemon = "built" THEN pending' = new /\ UNCHANGED <<job, lost>>
        ELSE job' = new /\ lost' = (wanted.at < firedAt) /\ UNCHANGED pending
  /\ UNCHANGED <<now, rows, daemon, read, waking, fire, firedAt, counts>>

----------------------------------------------------------------------------
(* A fire.                                                                 *)

\* Mutant: coalesce is off, and the missed occurrences fire one by one.
SubmitEach ==
  /\ daemon = "up" /\ ~Waking /\ job # None /\ job.next <= now
  /\ waking' = [next |-> NextFire(job.trigger, job.next + 1), dropped |-> fire # None]
  /\ IF fire = None
     THEN /\ fire' = [trigger |-> job.trigger, due |-> job.next, label |-> None]
          /\ firedAt' = now
     ELSE UNCHANGED <<fire, firedAt>>
  /\ UNCHANGED <<now, rows, job, process, read, wanted, lost, counts>>

\* The scheduler wakes however late: misfire_grace_time is None.  Coalesced,
\* the missed occurrences are one fire, for the latest of them; with
\* max_instances 1 it is dropped while the last fire's run goes on.
Submit ==
  /\ daemon = "up" /\ ~Waking /\ job # None /\ job.next <= now
  /\ waking' = [next |-> NextFire(job.trigger, now + 1), dropped |-> fire # None]
  /\ IF fire = None
     THEN /\ fire' = [trigger |-> job.trigger, label |-> None,
                      due |-> Latest({t \in Fires[job.trigger] : t <= now})]
          /\ firedAt' = now
     ELSE UNCHANGED <<fire, firedAt>>
  /\ UNCHANGED <<now, rows, job, process, read, wanted, lost, counts>>

\* update_job: a write of its own, after the job was submitted.
StoreNext ==
  /\ Waking /\ waking' = None
  /\ job' = [job EXCEPT !.next = waking.next] /\ lost' = FALSE
  /\ UNCHANGED <<now, rows, process, read, wanted, fire, firedAt, counts>>

\* It fails (a branch of a run has SQLite's write lock): the exception ends
\* start(), and the watcher takes up no other poll.
StoreFails ==
  /\ Waking /\ crashes < MaxCrashes
  /\ waking' = None /\ daemon' = "failed" /\ crashes' = crashes + 1
  /\ lost' = (lost \/ ~waking.dropped)
  /\ UNCHANGED <<now, rows, job, pending, read, wanted, fire, firedAt, saves>>

\* run_scheduled_discovery reads the settings again.
ReadForFire ==
  /\ fire # None /\ fire.label = None /\ read["fire"] = None /\ ReadRunAt("fire")
  /\ UNCHANGED <<now, rows, job, process, wanted, waking, fire, firedAt, lost, counts>>

ClassifyFire ==
  /\ fire # None /\ read["fire"] # None
  /\ fire' = [fire EXCEPT !.label = Classify(Effective("fire"))] /\ ReadDone("fire")
  /\ UNCHANGED <<now, rows, job, process, wanted, waking, firedAt, lost, counts>>

\* Its run has ended, or was skipped.
FireEnds ==
  /\ fire # None /\ fire.label # None /\ fire' = None
  /\ UNCHANGED <<now, rows, job, process, read, wanted, waking, firedAt, lost, counts>>

----------------------------------------------------------------------------
\* The daemon and the machine may sleep through any number of ticks.
Tick ==
  /\ now < Horizon /\ now' = now + 1
  /\ UNCHANGED <<rows, job, process, read, wanted, waking, fire, firedAt, lost, counts>>

Next ==
  \/ (\E s \in Schedules : Save(s)) \/ Boot \/ Build \/ Start \/ Crash \/ Exit
  \/ Poll \/ Compare \/ Reschedule \/ Submit \/ StoreNext \/ StoreFails
  \/ ReadForFire \/ ClassifyFire \/ FireEnds \/ Tick

\* The container is restarted, threads go on, the watcher polls again and
\* again; nothing is assumed of time, of the user or of how long a run takes.
Fairness ==
  /\ WF_vars(Boot) /\ WF_vars(Build) /\ WF_vars(Start) /\ WF_vars(Exit)
  /\ WF_vars(Poll) /\ WF_vars(Compare) /\ WF_vars(Reschedule)
  /\ WF_vars(Submit) /\ WF_vars(StoreNext)
  /\ WF_vars(ReadForFire) /\ WF_vars(ClassifyFire)

Spec == Init /\ [][Next]_vars /\ Fairness

----------------------------------------------------------------------------
(* Properties.                                                             *)

Overdue == job # None /\ job.next <= now

\* build.py:59-104, jobs.py and APScheduler's store together: there is one job,
\* in the store or pending, and a schedule is stored only over another one.
OneJob ==
  /\ pending # None => daemon = "built" /\ job = None
  /\ daemon # "down" => job # None \/ pending # None
  /\ daemon = "down" => read["watcher"] = None /\ wanted = None
  /\ wanted # None => /\ Current # None /\ Current.trigger # wanted.trigger
                      /\ wanted.next > wanted.at

\* A run goes on only while its daemon is there, and the job is written back
\* only after its occurrence was fired, or dropped for the run before it.
FiresWhileUp ==
  /\ fire # None => daemon \in {"up", "failed"}
  /\ Waking => /\ daemon = "up" /\ job.next <= now
               /\ ~waking.dropped => firedAt >= job.next

\* A job is due after every fire there was, unless its time is yet to be
\* written, could not be, or was computed before the fire.
DueAfterFires ==
  /\ job # None /\ ~lost /\ (Waking => waking.dropped) => job.next > firedAt
  /\ Waking => waking.next > firedAt
  /\ pending # None /\ pending.next # None => pending.next > firedAt
  /\ daemon = "built" /\ wanted # None => wanted.at >= firedAt

\* Types included, no step of the daemon, of the watcher or of a fire breaks
\* any of them.
ScheduleInv == TypeOK /\ OneJob /\ FiresWhileUp /\ DueAfterFires

\* build.py:66, RUN-04: an occurrence that has passed is not lost while its
\* schedule stands, over any downtime, restart, poll or failed write: the job
\* stays due until it was fired, or met a run that was still going on.  Only a
\* schedule that is read differently forfeits it.
OccurrenceKept ==
  [][Overdue /\ job' # job =>
       \/ firedAt >= job.next
       \/ Dropped
       \/ read["boot"] # None /\ job.trigger # Effective("boot")
       \/ wanted # None /\ job.trigger # wanted.trigger]_vars

\* build.py:116, "N missed fires collapse to exactly ONE": the occurrence of a
\* fire comes after the fire before it, whatever schedules were saved and
\* whatever failed in between.  The exceptions are the code's: when the write
\* after the fire before fails or is cut off, or when a poll stores a time it
\* computed before that fire, the occurrence is fired again.
CatchUpOnce ==
  [][fire = None /\ fire' # None /\ ~lost => fire'.due > firedAt]_vars

\* A day on which the clocks change is shorter or longer than 24 hours.
Regular(s) == \A t \in Fires[s] : NextFire(s, t + 1) \in {t + Day, Never}

\* jobs.py:47, "SCHEDULED for an on-time fire, CATCH_UP for a post-downtime
\* one": told from the clock alone, the label agrees with the occurrence the
\* scheduler fired for, if the settings still name the schedule that fired,
\* if less than a day has passed, and if its days have 24 hours: after the
\* night of 23 hours an on-time fire is labelled CATCH_UP.
Labelled == fire # None /\ fire' # None /\ fire'.label # fire.label
LabelTruthful ==
  [][Labelled /\ Effective("fire") = fire.trigger /\ Regular(fire.trigger)
       /\ now - fire.due < Day =>
       (fire'.label = "catch_up" <=> now - fire.due > Skew)]_vars

\* build.py:138, D-15, and the daemon's restarts: however saves, torn reads
\* and restarts interleave, the job ends up with the saved schedule.
SettingFollowed == <>[](daemon = "up" => job # None /\ job.trigger = rows)
=============================================================================
