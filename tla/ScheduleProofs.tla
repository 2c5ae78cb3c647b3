--------------------------- MODULE ScheduleProofs ---------------------------
(***************************************************************************)
(* Proofs about Schedule, for any schedules and any ticks they fall on.    *)
(***************************************************************************)
EXTENDS Schedule, SetLemmas

-----------------------------------------------------------------------------
(* Occurrences.                                                            *)

LEMMA Occurrences ==
  ASSUME NEW s \in Schedules
  PROVE  /\ Fires[s] \in SUBSET Nat /\ \A t \in Fires[s] : t <= Horizon
         /\ Horizon \in Nat /\ Never \in Nat /\ Never > Horizon
BY ScheduleAssumption DEF Never

\* The next occurrence from a tick on is one of the schedule, or never.
LEMMA NextFireIs ==
  ASSUME NEW s \in Schedules, NEW from \in Int
  PROVE  \/ /\ NextFire(s, from) = Never
            /\ \A t \in Fires[s] : t < from
         \/ /\ NextFire(s, from) \in Fires[s] /\ NextFire(s, from) >= from
            /\ \A t \in Fires[s] : t >= from => NextFire(s, from) <= t
<1> DEFINE T == {t \in Fires[s] : t >= from}
<1>1. T \in SUBSET Nat
  BY Occurrences
<1>2. CASE T = {}
  BY <1>1, <1>2, Occurrences DEF NextFire, Earliest
<1>3. CASE T # {}
  <2>1. \E m \in T : \A n \in T : m <= n
    BY <1>1, <1>3, NatLeast
  <2>2. Earliest(T) \in T /\ \A n \in T : Earliest(T) <= n
    BY <1>3, <2>1 DEF Earliest
  <2> QED BY <2>2 DEF NextFire
<1> QED BY <1>2, <1>3

\* What is added now falls due later.
LEMMA NextFireAfter ==
  ASSUME NEW s \in Schedules, NEW n \in 0..Horizon
  PROVE  /\ NextFire(s, n + 1) \in Fires[s] \cup {Never}
         /\ NextFire(s, n + 1) \in Nat /\ NextFire(s, n + 1) > n
BY NextFireIs, Occurrences

\* The occurrence a late wake stands for is the last one that has passed.
LEMMA LatestIs ==
  ASSUME NEW s \in Schedules, NEW n \in 0..Horizon, NEW d \in Fires[s], d <= n
  PROVE  LET l == Latest({t \in Fires[s] : t <= n})
         IN  l \in Fires[s] /\ l \in Nat /\ l <= n /\ d <= l
<1> DEFINE T == {t \in Fires[s] : t <= n}
<1>1. T \in SUBSET Nat /\ d \in T /\ n \in Nat /\ \A t \in T : t <= n
  BY Occurrences
<1>2. \E m \in T : \A k \in T : k <= m
  BY <1>1, NatGreatest
<1>3. Latest(T) \in T /\ \A k \in T : k <= Latest(T)
  BY <1>2 DEF Latest
<1> QED BY <1>1, <1>3

-----------------------------------------------------------------------------
(* The inductive invariant.                                                *)

LEMMA ScheduleInit == Init => ScheduleInv
<1> SUFFICES ASSUME Init PROVE ScheduleInv
  OBVIOUS
<1>1. TypeOK
  <2>1. now \in 0..Horizon /\ firedAt \in -1..now /\ read \in [Readers -> RunAts \cup {None}]
    BY ScheduleAssumption DEF Init
  <2> QED BY <2>1 DEF Init, TypeOK
<1>2. OneJob
  BY DEF Init, OneJob, Readers
<1>3. FiresWhileUp /\ DueAfterFires
  BY DEF Init, FiresWhileUp, DueAfterFires, Waking
<1> QED BY <1>1, <1>2, <1>3 DEF ScheduleInv

LEMMA EffectiveIs ==
  ASSUME TypeOK, NEW r \in Readers, read[r] # None
  PROVE  Effective(r) \in Schedules
BY DEF TypeOK, Effective, Schedules

\* A job that is added now is due after every fire so far.
LEMMA AddedIs ==
  ASSUME TypeOK, NEW s \in Schedules
  PROVE  /\ Added(s) \in Jobs /\ Added(s) # None
         /\ Added(s).trigger = s /\ Added(s).next \in Fires[s] \cup {Never}
         /\ Added(s).next > now
BY NextFireAfter, NoneAssumption DEF TypeOK, Added, Jobs

\* What a job that is due is written back with, and the occurrence it fires for.
LEMMA DueIs ==
  ASSUME TypeOK, job # None, job.next <= now
  PROVE  /\ job.trigger \in Schedules /\ job.next \in Fires[job.trigger] /\ job.next \in Nat
         /\ NextFire(job.trigger, now + 1) \in Fires[job.trigger] \cup {Never}
         /\ NextFire(job.trigger, now + 1) \in Nat /\ NextFire(job.trigger, now + 1) > now
         /\ LET l == Latest({t \in Fires[job.trigger] : t <= now})
            IN  l \in Fires[job.trigger] /\ l \in Nat /\ l <= now /\ job.next <= l
<1>1. /\ job.trigger \in Schedules /\ job.next \in Fires[job.trigger] /\ job.next \in Nat
      /\ now \in 0..Horizon
  BY Occurrences DEF TypeOK, Jobs
<1> QED BY <1>1, NextFireAfter, LatestIs

\* What an action leaves alone.
Store == <<job, daemon, pending, wanted, waking, lost>>

LEMMA Untouched ==
  ASSUME ScheduleInv, TypeOK', UNCHANGED Store, firedAt' = firedAt,
         fire' = None \/ fire # None, now' >= now,
         daemon = "down" => read'["watcher"] = read["watcher"]
  PROVE  ScheduleInv'
<1> USE DEF ScheduleInv, Store
<1>1. OneJob'
  BY DEF OneJob, Current
<1>2. FiresWhileUp'
  <2>1. Waking => job.next \in Nat /\ now \in Nat /\ now' \in Nat
    BY ScheduleAssumption DEF TypeOK, OneJob, FiresWhileUp, Jobs
  <2> QED BY <2>1 DEF FiresWhileUp, Waking
<1>3. DueAfterFires'
  BY DEF DueAfterFires, Waking
<1> QED BY <1>1, <1>2, <1>3

LEMMA BuildStep == ASSUME ScheduleInv, Build PROVE ScheduleInv'
<1> USE DEF ScheduleInv
<1>1. Effective("boot") \in Schedules
  BY EffectiveIs DEF Build, Readers
<1>2. ~Waking /\ fire = None /\ wanted = None
  BY DEF Build, OneJob, FiresWhileUp
<1>3. [trigger |-> Effective("boot"), next |-> None] \in [trigger : Schedules, next : Nat \cup {None}]
  BY <1>1
<1>4. CASE pending' = None /\ job' = job /\ job # None
  <2>1. TypeOK'
    BY <1>4 DEF Build, ReadDone, TypeOK, Readers
  <2> QED
    BY <1>2, <1>4, <2>1 DEF Build, OneJob, FiresWhileUp, DueAfterFires, Waking
<1>5. CASE pending' = [trigger |-> Effective("boot"), next |-> None] /\ job' = None
  <2>1. TypeOK'
    BY <1>2, <1>3, <1>5 DEF Build, ReadDone, TypeOK, Readers, Waking
  <2>2. pending'.next = None
    BY <1>5
  <2>3. OneJob'
    BY <1>2, <1>3, <1>5, NoneAssumption DEF Build, ReadDone, OneJob, Readers
  <2> QED BY <1>2, <1>5, <2>1, <2>2, <2>3 DEF Build, FiresWhileUp, DueAfterFires, Waking
<1> QED BY <1>4, <1>5 DEF Build

LEMMA StartStep == ASSUME ScheduleInv, Start PROVE ScheduleInv'
<1> USE DEF ScheduleInv
<1>1. ~Waking /\ fire = None
  BY DEF Start, FiresWhileUp
<1>2. CASE pending = None
  <2>1. UNCHANGED <<job, lost, wanted, waking, fire, firedAt, now>> /\ pending' = None /\ daemon' = "up"
    BY <1>2 DEF Start
  <2>2. TypeOK'
    BY <2>1 DEF Start, TypeOK
  <2>3. OneJob'
    BY <1>2, <2>1 DEF Start, OneJob, Current
  <2>4. FiresWhileUp' /\ DueAfterFires'
    BY <1>1, <1>2, <2>1 DEF Start, FiresWhileUp, DueAfterFires, Waking
  <2> QED BY <2>2, <2>3, <2>4
<1>3. CASE pending # None
  <2> DEFINE new == IF pending.next = None THEN Added(pending.trigger) ELSE pending
  <2>1. /\ job' = new /\ lost' = FALSE /\ pending' = None /\ daemon' = "up"
        /\ UNCHANGED <<wanted, waking, fire, firedAt, now>>
    BY <1>3 DEF Start
  <2>2. pending.trigger \in Schedules
    BY <1>3 DEF TypeOK
  <2>3. /\ new \in Jobs /\ new # None /\ new.trigger = pending.trigger
        /\ new.next \in Fires[new.trigger] \cup {Never} /\ new.next > firedAt
    <3>1. CASE pending.next = None
      BY <2>2, <3>1, AddedIs DEF TypeOK, Jobs
    <3>2. CASE pending.next # None
      BY <1>3, <3>2 DEF TypeOK, Jobs, DueAfterFires
    <3> QED BY <3>1, <3>2
  <2>4. TypeOK'
    BY <1>1, <2>1, <2>3 DEF Start, TypeOK, Waking
  <2>5. OneJob'
    BY <1>3, <2>1, <2>3 DEF Start, OneJob, Current
  <2>6. FiresWhileUp' /\ DueAfterFires'
    BY <1>1, <2>1, <2>3 DEF FiresWhileUp, DueAfterFires, Waking
  <2> QED BY <2>4, <2>5, <2>6
<1> QED BY <1>2, <1>3

\* The end of the daemon in any state, if what was submitted is not forgotten.
LEMMA GoneStep ==
  ASSUME ScheduleInv, Gone, lost' \in BOOLEAN,
         lost' = (lost \/ (Waking /\ ~waking.dropped))
  PROVE  ScheduleInv'
<1> USE DEF ScheduleInv
<1>1. TypeOK'
  BY DEF Gone, TypeOK, Readers
<1>2. OneJob'
  BY DEF Gone, OneJob, Readers
<1>3. FiresWhileUp' /\ DueAfterFires'
  BY DEF Gone, FiresWhileUp, DueAfterFires, Waking
<1> QED BY <1>1, <1>2, <1>3

LEMMA CompareStep == ASSUME ScheduleInv, Compare PROVE ScheduleInv'
<1> USE DEF ScheduleInv
<1> DEFINE s == Effective("watcher")
<1>1. s \in Schedules /\ now \in 0..Horizon
  BY EffectiveIs DEF Compare, Readers, TypeOK
<1>2. NextFire(s, now + 1) \in Fires[s] \cup {Never} /\ NextFire(s, now + 1) \in Nat
      /\ NextFire(s, now + 1) > now
  BY <1>1, NextFireAfter
<1>3. CASE wanted' = None
  <2>1. TypeOK'
    BY <1>3 DEF Compare, ReadDone, TypeOK, Readers, process, counts
  <2> QED BY <1>3, <2>1
             DEF Compare, ReadDone, OneJob, FiresWhileUp, DueAfterFires, Waking, process, counts
<1>4. CASE /\ Current # None /\ Current.trigger # s
           /\ wanted' = [trigger |-> s, at |-> now, next |-> NextFire(s, now + 1)]
  <2>1. TypeOK'
    BY <1>1, <1>2, <1>4 DEF Compare, ReadDone, TypeOK, Readers, Plans, process, counts
  <2>2. daemon # "down"
    BY DEF Compare, OneJob
  <2>3. OneJob'
    BY <1>1, <1>2, <1>4, <2>2 DEF Compare, OneJob, Current, process
  <2>4. firedAt \in Int /\ firedAt <= now
    BY DEF TypeOK
  <2>5. FiresWhileUp' /\ DueAfterFires'
    BY <1>1, <1>4, <2>4 DEF Compare, FiresWhileUp, DueAfterFires, Waking, process
  <2> QED BY <2>1, <2>3, <2>5
<1> QED BY <1>3, <1>4 DEF Compare

LEMMA RescheduleStep == ASSUME ScheduleInv, Reschedule PROVE ScheduleInv'
<1> USE DEF ScheduleInv
<1> DEFINE new == [trigger |-> wanted.trigger, next |-> wanted.next]
<1>1. /\ wanted # None /\ wanted.next \in Nat /\ wanted.at \in Nat /\ wanted.next > wanted.at
      /\ wanted.at <= now /\ firedAt \in Int /\ now \in Nat
      /\ wanted.trigger \in Schedules /\ wanted.next \in Fires[wanted.trigger] \cup {Never}
      /\ Current # None /\ daemon # "down"
  BY ScheduleAssumption DEF Reschedule, TypeOK, OneJob, Plans
<1>2. /\ new \in Jobs /\ new # None
      /\ new \in [trigger : Schedules, next : Nat \cup {None}]
  BY <1>1, NoneAssumption DEF Jobs
<1>3. CASE daemon = "built"
  <2>1. pending' = new /\ UNCHANGED <<job, lost>> /\ wanted' = None
    BY <1>3 DEF Reschedule
  <2>2. TypeOK'
    BY <1>1, <1>2, <2>1 DEF Reschedule, TypeOK
  <2>3. firedAt <= wanted.at
    BY <1>1, <1>3 DEF DueAfterFires
  <2> QED BY <1>1, <1>2, <1>3, <2>1, <2>2, <2>3
             DEF Reschedule, OneJob, FiresWhileUp, DueAfterFires, Waking, Current
<1>4. CASE daemon # "built"
  <2>1. /\ job' = new /\ lost' = (wanted.at < firedAt) /\ UNCHANGED pending /\ wanted' = None
    BY <1>4 DEF Reschedule
  <2>2. TypeOK'
    BY <1>1, <1>2, <2>1 DEF Reschedule, TypeOK, Waking
  <2>3. OneJob'
    BY <1>1, <1>2, <1>4, <2>1 DEF Reschedule, OneJob, Current
  <2>4. /\ waking = None /\ waking' = None /\ UNCHANGED <<fire, daemon, firedAt>>
        /\ job'.next = wanted.next /\ pending = None
    BY <1>4, <2>1 DEF Reschedule, Waking, OneJob
  <2>5. FiresWhileUp'
    BY <2>4 DEF FiresWhileUp, Waking
  <2>6. ~lost' => job'.next > firedAt
    <3> DEFINE Late == wanted.at < firedAt
    <3>1. lost' = Late
      BY <2>1
    <3>2. ~Late => job'.next > firedAt
      BY <1>1, <2>4
    <3> HIDE DEF Late
    <3> QED BY <3>1, <3>2, Zenon
  <2>7. DueAfterFires'
    BY <1>4, <2>1, <2>4, <2>6 DEF DueAfterFires, Waking
  <2> QED BY <2>2, <2>3, <2>5, <2>7
<1> QED BY <1>3, <1>4

LEMMA SubmitStep == ASSUME ScheduleInv, Submit PROVE ScheduleInv'
<1> USE DEF ScheduleInv
<1> DEFINE next == NextFire(job.trigger, now + 1)
           due == Latest({t \in Fires[job.trigger] : t <= now})
           new == [trigger |-> job.trigger, label |-> None, due |-> due]
<1>1. /\ job # None /\ job.next <= now /\ daemon = "up" /\ pending = None /\ now \in Nat
      /\ UNCHANGED <<now, job, daemon, pending, read, wanted, lost>>
  BY ScheduleAssumption DEF Submit, OneJob, TypeOK, process
<1>2. /\ job.trigger \in Schedules /\ next \in Nat /\ next > now
      /\ next \in Fires[job.trigger] \cup {Never}
      /\ due \in Fires[job.trigger] /\ due \in Nat /\ due <= now /\ job.next \in Nat
  BY <1>1, DueIs
<1>3. CASE fire = None
  <2>1. waking' = [next |-> next, dropped |-> FALSE] /\ fire' = new /\ firedAt' = now
    BY <1>3 DEF Submit
  <2>2. /\ waking' \in Steps /\ waking' # None /\ waking'.next = next /\ waking'.dropped = FALSE
        /\ waking'.next \in Fires[job.trigger] \cup {Never}
    <3>1. [next |-> next, dropped |-> FALSE] \in Steps
      BY <1>2 DEF Steps
    <3> QED BY <1>2, <2>1, <3>1, NoneAssumption
  <2>3. fire' \in Runs /\ fire'.due = due /\ fire'.trigger = job.trigger
    BY <1>2, <2>1 DEF Runs
  <2>4. TypeOK'
    BY <1>1, <1>2, <2>1, <2>2, <2>3 DEF Submit, TypeOK
  <2>5. OneJob'
    BY <1>1 DEF OneJob, Current
  <2>6. FiresWhileUp'
    BY <1>1, <1>2, <2>1, <2>2 DEF FiresWhileUp, Waking
  <2>7. DueAfterFires'
    BY <1>1, <1>2, <2>1, <2>2 DEF DueAfterFires, Waking
  <2> QED BY <2>4, <2>5, <2>6, <2>7
<1>4. CASE fire # None
  <2>1. waking' = [next |-> next, dropped |-> TRUE] /\ UNCHANGED <<fire, firedAt>> /\ ~Waking
    BY <1>4 DEF Submit
  <2>2. /\ waking' \in Steps /\ waking' # None /\ waking'.next = next /\ waking'.dropped = TRUE
        /\ waking'.next \in Fires[job.trigger] \cup {Never}
    <3>1. [next |-> next, dropped |-> TRUE] \in Steps
      BY <1>2 DEF Steps
    <3> QED BY <1>2, <2>1, <3>1, NoneAssumption
  <2>3. TypeOK'
    BY <1>1, <2>1, <2>2 DEF Submit, TypeOK
  <2>4. OneJob'
    BY <1>1 DEF OneJob, Current
  <2>5. FiresWhileUp'
    BY <1>1, <2>1, <2>2 DEF FiresWhileUp, Waking
  <2>6. firedAt <= now /\ firedAt \in Int
    BY <1>1 DEF TypeOK
  <2>7. DueAfterFires'
    BY <1>1, <1>2, <2>1, <2>2, <2>6 DEF DueAfterFires, Waking
  <2> QED BY <2>3, <2>4, <2>5, <2>7
<1> QED BY <1>3, <1>4

LEMMA StoreNextStep == ASSUME ScheduleInv, StoreNext PROVE ScheduleInv'
<1> USE DEF ScheduleInv
<1>1. /\ job # None /\ job \in Jobs /\ daemon = "up" /\ pending = None /\ waking \in Steps
      /\ Waking /\ job' = [job EXCEPT !.next = waking.next] /\ lost' = FALSE /\ waking' = None
      /\ UNCHANGED <<now, rows, daemon, pending, read, wanted, fire, firedAt>>
  BY DEF StoreNext, FiresWhileUp, OneJob, TypeOK, process, Waking
<1>2. job' \in Jobs /\ job'.next = waking.next /\ job'.trigger = job.trigger /\ job' # None
  BY <1>1, NoneAssumption DEF Jobs, Steps
<1>3. waking.next \in Fires[job.trigger] \cup {Never} /\ waking.next > firedAt
  BY <1>1 DEF TypeOK, DueAfterFires, Waking
<1>4. TypeOK'
  BY <1>1, <1>2, <1>3 DEF TypeOK, Waking
<1>5. OneJob'
  BY <1>1, <1>2 DEF OneJob, Current
<1>6. FiresWhileUp' /\ DueAfterFires'
  BY <1>1, <1>2, <1>3 DEF FiresWhileUp, DueAfterFires, Waking
<1> QED BY <1>4, <1>5, <1>6

LEMMA StoreFailsStep == ASSUME ScheduleInv, StoreFails PROVE ScheduleInv'
<1> USE DEF ScheduleInv
<1>1. TypeOK'
  BY DEF StoreFails, TypeOK, Waking, Steps
<1>2. OneJob' /\ FiresWhileUp'
  BY DEF StoreFails, OneJob, FiresWhileUp, Waking, Current
<1>3. DueAfterFires'
  BY DEF StoreFails, DueAfterFires, FiresWhileUp, Waking, TypeOK, Steps
<1> QED BY <1>1, <1>2, <1>3

LEMMA ScheduleStep ==
  ASSUME ScheduleInv, Next
  PROVE  ScheduleInv'
<1>1. CASE \E s \in Schedules : Save(s)
  <2>1. TypeOK'
    BY <1>1 DEF Save, ScheduleInv, TypeOK, process
  <2> QED BY <1>1, <2>1, Untouched, ScheduleAssumption
             DEF Save, Store, process, ScheduleInv, TypeOK
<1>2. CASE Boot \/ Poll \/ ReadForFire
  <2>1. TypeOK'
    BY <1>2 DEF Boot, Poll, ReadForFire, ReadRunAt, ScheduleInv, TypeOK, Readers, Schedules, process
  <2> QED BY <1>2, <2>1, Untouched, ScheduleAssumption
             DEF Boot, Poll, ReadForFire, ReadRunAt, Store, process, ScheduleInv, TypeOK, Readers
<1>3. CASE Build
  BY <1>3, BuildStep
<1>4. CASE Start
  BY <1>4, StartStep
<1>5. CASE Crash
  BY <1>5, GoneStep DEF Crash, ScheduleInv, TypeOK, Waking, Steps
<1>6. CASE Exit
  <2>1. ~Waking
    BY <1>6 DEF Exit, ScheduleInv, FiresWhileUp
  <2> QED BY <1>6, <2>1, GoneStep DEF Exit, ScheduleInv, TypeOK
<1>7. CASE Compare
  BY <1>7, CompareStep
<1>8. CASE Reschedule
  BY <1>8, RescheduleStep
<1>9. CASE Submit
  BY <1>9, SubmitStep
<1>10. CASE StoreNext
  BY <1>10, StoreNextStep
<1>11. CASE StoreFails
  BY <1>11, StoreFailsStep
<1>12. CASE ClassifyFire
  <2>1. Classify(Effective("fire")) \in Triggers
    BY DEF Classify, Triggers
  <2>2. TypeOK'
    BY <1>12, <2>1 DEF ClassifyFire, ReadDone, ScheduleInv, TypeOK, Readers, Runs, process
  <2> QED BY <1>12, <2>2, Untouched, ScheduleAssumption
             DEF ClassifyFire, ReadDone, Store, process, ScheduleInv, TypeOK, Readers
<1>13. CASE FireEnds
  <2>1. TypeOK'
    BY <1>13 DEF FireEnds, ScheduleInv, TypeOK, process
  <2> QED BY <1>13, <2>1, Untouched, ScheduleAssumption
             DEF FireEnds, Store, process, ScheduleInv, TypeOK
<1>14. CASE Tick
  <2>1. now \in 0..Horizon /\ now' = now + 1 /\ now' \in 0..Horizon
    BY <1>14, ScheduleAssumption DEF Tick, ScheduleInv, TypeOK
  <2>2. now' >= now /\ 0..now \subseteq 0..now' /\ -1..now \subseteq -1..now'
    BY <2>1
  <2>3. TypeOK'
    <3>1. wanted' = None \/ (/\ wanted' \in Plans(now')
                            /\ wanted'.next \in Fires[wanted'.trigger] \cup {Never})
      <4>1. Plans(now) \subseteq Plans(now')
        BY <2>2 DEF Plans
      <4> QED BY <1>14, <4>1 DEF Tick, ScheduleInv, TypeOK
    <3>2. fire' = None \/ (fire' \in Runs /\ fire'.due \in Fires[fire'.trigger] /\ fire'.due <= now')
      BY <1>14, <2>1, Occurrences DEF Tick, ScheduleInv, TypeOK, Runs
    <3> QED BY <1>14, <2>1, <2>2, <3>1, <3>2 DEF Tick, ScheduleInv, TypeOK, process
  <2> QED BY <1>14, <2>2, <2>3, Untouched DEF Tick, Store, process
<1> QED BY <1>1, <1>2, <1>3, <1>4, <1>5, <1>6, <1>7, <1>8, <1>9, <1>10, <1>11, <1>12, <1>13,
           <1>14 DEF Next

\* However saves, polls, restarts, failed writes and fires interleave, there is
\* one job, and it is due after every fire there was, unless its time was
\* computed before that fire and is still in the store.
THEOREM ScheduleInvariant == Spec => []ScheduleInv
<1>1. ScheduleInv /\ UNCHANGED vars => ScheduleInv'
  BY DEF ScheduleInv, TypeOK, OneJob, FiresWhileUp, DueAfterFires, Waking, Current, vars,
    process, counts
<1> QED BY <1>1, ScheduleInit, ScheduleStep, PTL DEF Spec

-----------------------------------------------------------------------------
(* Occurrences that are kept, once.                                        *)

LEMMA KeptStep ==
  ASSUME ScheduleInv, Overdue, job' # job, Next
  PROVE  \/ firedAt >= job.next
         \/ Dropped
         \/ read["boot"] # None /\ job.trigger # Effective("boot")
         \/ wanted # None /\ job.trigger # wanted.trigger
<1> USE DEF ScheduleInv, Overdue
<1>1. CASE Build
  BY <1>1 DEF Build
<1>2. CASE Start
  BY <1>2 DEF Start, OneJob
<1>3. CASE Reschedule
  BY <1>3 DEF Reschedule, OneJob, Current
<1>4. CASE StoreNext
  BY <1>4 DEF StoreNext, FiresWhileUp, Dropped
<1> QED
  BY <1>1, <1>2, <1>3, <1>4
     DEF Next, Save, Boot, Crash, Exit, Gone, Poll, Compare, Submit, StoreFails, ReadForFire,
         ClassifyFire, FireEnds, Tick

\* No occurrence is lost to a restart, a poll or a write that fails, for any
\* schedules: it is fired or dropped for the run before it, or the schedule is
\* read differently.
THEOREM OccurrenceIsKept == Spec => OccurrenceKept
<1>1. ScheduleInv /\ [Next]_vars =>
        [Overdue /\ job' # job =>
           \/ firedAt >= job.next
           \/ Dropped
           \/ read["boot"] # None /\ job.trigger # Effective("boot")
           \/ wanted # None /\ job.trigger # wanted.trigger]_vars
  BY KeptStep DEF vars
<1> QED BY <1>1, ScheduleInvariant, PTL DEF Spec, OccurrenceKept

LEMMA OnceStep ==
  ASSUME ScheduleInv, Next, fire = None, fire' # None, ~lost
  PROVE  fire'.due > firedAt
<1>1. Submit
  BY DEF Next, Save, Boot, Build, Start, Crash, Exit, Gone, Poll, Compare, Reschedule, StoreNext,
    StoreFails, ReadForFire, ClassifyFire, FireEnds, Tick
<1> DEFINE due == Latest({t \in Fires[job.trigger] : t <= now})
<1>2. job.next <= due /\ due \in Nat /\ job.next \in Nat
  BY <1>1, DueIs DEF Submit, ScheduleInv
<1>3. fire'.due = due
  BY <1>1 DEF Submit
<1>4. job.next > firedAt /\ firedAt \in Int
  BY <1>1 DEF Submit, ScheduleInv, DueAfterFires, TypeOK
<1> QED BY <1>2, <1>3, <1>4

\* Any number of missed occurrences is caught up by one fire, and only an
\* occurrence whose fire was not written back is fired again.
THEOREM CaughtUpOnce == Spec => CatchUpOnce
<1>1. ScheduleInv /\ [Next]_vars =>
        [fire = None /\ fire' # None /\ ~lost => fire'.due > firedAt]_vars
  BY OnceStep DEF vars
<1> QED BY <1>1, ScheduleInvariant, PTL DEF Spec, CatchUpOnce

-----------------------------------------------------------------------------
(* The label of a fire.                                                    *)

\* On days of 24 hours the occurrence that classify_trigger finds is the one
\* the fire stands for, if it is less than a day ago.
LEMMA PreviousIsDue ==
  ASSUME NEW s \in Schedules, Regular(s), NEW d \in Fires[s], NEW n \in 0..Horizon,
         d <= n, n - d < Day
  PROVE  NextFire(s, n - Day + 1) = d
<1> DEFINE p == NextFire(s, n - Day + 1)
<1> USE ScheduleAssumption
<1>1. d \in Nat /\ d >= n - Day + 1 /\ Day \in Nat /\ n \in Nat
  BY Occurrences
<1>2. p \in Fires[s] /\ p \in Nat /\ p >= n - Day + 1 /\ p <= d
  BY <1>1, NextFireIs, Occurrences
<1>3. CASE p < d
  <2>1. NextFire(s, p + 1) <= d /\ NextFire(s, p + 1) # Never
    BY <1>1, <1>2, <1>3, NextFireIs, Occurrences
  <2>2. NextFire(s, p + 1) = p + Day
    BY <1>2, <2>1 DEF Regular
  <2> QED BY <1>1, <1>2, <2>1, <2>2
<1> QED BY <1>1, <1>2, <1>3

LEMMA LabelStep ==
  ASSUME ScheduleInv, Next, Labelled, Effective("fire") = fire.trigger,
         Regular(fire.trigger), now - fire.due < Day
  PROVE  fire'.label = "catch_up" <=> now - fire.due > Skew
<1>1. ClassifyFire
  BY DEF Labelled, Next, Save, Boot, Build, Start, Crash, Exit, Gone, Poll, Compare, Reschedule,
    Submit, StoreNext, StoreFails, ReadForFire, ClassifyFire, FireEnds, Tick
<1>2. fire'.label = Classify(fire.trigger)
  BY <1>1 DEF ClassifyFire, Labelled, ScheduleInv, TypeOK
<1>3. /\ fire.trigger \in Schedules /\ fire.due \in Fires[fire.trigger]
      /\ now \in 0..Horizon /\ fire.due <= now
  BY DEF Labelled, ScheduleInv, TypeOK, Runs
<1>4. NextFire(fire.trigger, now - Day + 1) = fire.due
  BY <1>3, PreviousIsDue
<1> QED BY <1>2, <1>3, <1>4 DEF Classify

\* For every regular schedule, any skew and any length of the day, the label
\* that the clock gives a fire agrees with the occurrence it stands for.
THEOREM LabelIsTruthful == Spec => LabelTruthful
<1>1. ScheduleInv /\ [Next]_vars =>
        [Labelled /\ Effective("fire") = fire.trigger /\ Regular(fire.trigger)
           /\ now - fire.due < Day =>
           (fire'.label = "catch_up" <=> now - fire.due > Skew)]_vars
  BY LabelStep DEF vars
<1> QED BY <1>1, ScheduleInvariant, PTL DEF Spec, LabelTruthful
=============================================================================
