--------------------------- MODULE PipelineBranch ---------------------------
(***************************************************************************)
(* What a run writes: the branches of process_employer with their database *)
(* sessions, over consecutive runs.  A branch loads its company, fetches,  *)
(* records the fetch, scores, writes its jobs and commits.                 *)
(*                                                                         *)
(* On SQLite one session at a time may write.  record_fetch_outcome        *)
(* flushes before the model calls, so a branch has the write lock from     *)
(* there to its commit; whoever else wants to write waits, for 5 seconds   *)
(* at most.  On PostgreSQL nobody waits: no two of these sessions write    *)
(* the same row.  The model has both.                                      *)
(*                                                                         *)
(* A posting is as good as its dedup key, and what it is worth is chosen.  *)
(* Of a careers site the first page is as good as its edition; which       *)
(* postings are read from the pages behind it is chosen.  The calls and    *)
(* their price are SpendCap's, how a row gets ended from outside is        *)
(* RunLifecycle's.                                                         *)
(***************************************************************************)
EXTENDS Naturals, FiniteSets

CONSTANTS Employers,    \* the enabled companies
          Crawled,      \* those of them without an ATS, whose page is crawled
          Posts,        \* employer -> the dedup keys of what it may be found to post
          Tiers,        \* filter_tier_reached: how far scoring got with a posting
          Backends,     \* of "sqlite" and "postgresql"
          Free,         \* nobody has the write lock
          Slots,        \* max_employer_concurrency
          Attempts,     \* max_attempts of the RetryPolicy
          MaxRuns,      \* bound: consecutive runs
          MaxEvents     \* bound: steps of others: stops, sweeps, saved criteria,
                        \* reviewed jobs, edited pages

ASSUME EmployersAssumption ==
  /\ IsFiniteSet(Employers) /\ Crawled \subseteq Employers /\ Free \notin Employers
  /\ DOMAIN Posts = Employers
  /\ \A e, f \in Employers : e # f => Posts[e] \cap Posts[f] = {}
ASSUME BoundsAssumption ==
  /\ Slots \in Nat \ {0} /\ Attempts \in Nat \ {0} /\ MaxRuns \in Nat /\ MaxEvents \in Nat
  /\ {"deterministic", "full"} \subseteq Tiers /\ Backends \subseteq {"sqlite", "postgresql"}

VARIABLES
  backend,  \* the database
  run,      \* the newest run: its row, its stamp, its graph
  lock,     \* SQLite's write lock
  version,  \* of the active criteria
  edition,  \* of the first page of each careers site
  hash,     \* companies.ats_config["crawl"]: the edition last crawled, or 0
  jobs,     \* the rows of jobs
  events,   \* how often others have taken a step
  at,       \* where each branch is
  local,    \* what its session and its result hold
  held,     \* history: the postings that the cap held back of their last batch
  missed,   \* history: those whose last write failed by itself
  crawled   \* history: the postings that were read by the crawl whose hash is stored

branch == <<at, local>>
ghosts == <<held, missed, crawled>>
vars == <<backend, run, lock, version, edition, hash, jobs, events, branch, ghosts>>

Listings == UNION {Posts[e] : e \in Employers}
Waiting == {"queued", "done", "errored", "gone"}
Active == {e \in Employers : at[e] \notin Waiting}

NoResults == [l \in {} |-> "full"]
Blank == [save |-> 0, used |-> 0, got |-> {}, results |-> NoResults,
          capped |-> FALSE, answered |-> FALSE, tries |-> 1]

Row == [status : {"new", "applied"}, tier : Tiers, run : Nat, stamp : Nat, scored : Nat]
Scores == UNION {[batch -> Tiers] : batch \in SUBSET Listings}
Local(e) == [save : 0..events + 1, used : 0..version, got : SUBSET Posts[e], results : Scores,
             capped : BOOLEAN, answered : BOOLEAN, tries : 1..Attempts]
Verdicts == {"success", "capped", "partial", "failed", "stopped"}
Run == [n : 0..MaxRuns, row : {"none", "running"} \cup Verdicts, stamp : 0..version,
        stop : BOOLEAN, capped : BOOLEAN, aborted : {"no", "stop", "error"}, over : BOOLEAN]
Stages == Waiting \cup {"again", "fetched", "recorded", "scored", "writing", "failing"}

TypeOK ==
  /\ backend \in Backends /\ lock \in Employers \cup {Free}
  /\ events \in 0..MaxEvents /\ version \in 1..events + 1
  /\ edition \in [Employers -> 1..events + 1] /\ hash \in [Employers -> 0..events + 1]
  /\ run \in Run
  /\ DOMAIN jobs \subseteq Listings /\ held \subseteq Listings /\ missed \subseteq Listings
  /\ \A l \in DOMAIN jobs : jobs[l] \in Row
  /\ crawled \in [Employers -> SUBSET Listings]
  /\ at \in [Employers -> Stages]
  /\ DOMAIN local = Employers
  /\ \A e \in Employers : /\ local[e] \in Local(e)
                          /\ DOMAIN local[e].results \subseteq local[e].got

Init ==
  /\ backend \in Backends /\ lock = Free /\ version = 1
  /\ run = [n |-> 0, row |-> "none", stamp |-> 0, stop |-> FALSE, capped |-> FALSE,
            aborted |-> "no", over |-> TRUE]
  /\ edition = [e \in Employers |-> 1] /\ hash = [e \in Employers |-> 0]
  /\ jobs = [l \in {} |-> 0] /\ events = 0
  /\ at = [e \in Employers |-> "queued"] /\ local = [e \in Employers |-> Blank]
  /\ held = {} /\ missed = {} /\ crawled = [e \in Employers |-> {}]

----------------------------------------------------------------------------
(* Steps of one branch.                                                    *)

\* Whether a session that writes is let through.
MayWrite(e) == backend = "postgresql" \/ lock \in {Free, e}

\* _raise_if_stop_requested_or_finished
Gate == run.row = "running" /\ ~run.stop

Move(e, stage) == at' = [at EXCEPT ![e] = stage]
Hold(e, value) == local' = [local EXCEPT ![e] = value]
Release(e) == lock' = IF lock = e THEN Free ELSE lock
NoWrite == UNCHANGED <<backend, version, edition, hash, jobs, events, ghosts>>

\* fan_out_to_employers, under max_concurrency, or an attempt after the first;
\* an aborted graph starts no branch it has queued.
Begins(e) ==
  \/ ~run.over /\ run.aborted = "no" /\ at[e] = "queued" /\ Cardinality(Active) < Slots
  \/ at[e] = "again"

\* RunStoppedByUser at a gate: the session closes, the graph aborts.  A stop
\* is never retried.
StopBranch(e) ==
  /\ (Begins(e) \/ at[e] \in {"fetched", "recorded", "scored"}) /\ ~Gate
  /\ Move(e, "gone") /\ Release(e) /\ Hold(e, Blank)
  /\ run' = [run EXCEPT !.aborted = IF @ = "no" THEN "stop" ELSE @]
  /\ NoWrite

\* Any other exception of the try block: rollback.
Fail(e) ==
  /\ Move(e, "failing") /\ Release(e) /\ Hold(e, [Blank EXCEPT !.tries = local[e].tries])
  /\ NoWrite /\ UNCHANGED run

\* session.get(Company) and _fetch_for_employer: the fetch answers or not; got
\* are the postings read, without duplicates (_dedupe_within_batch).  A crawl
\* that finds its first page as it was crawled last is skipped.  Any other
\* reads what it can: the links behind that page up to a number of pages, those
\* whose fetch fails passed over, and of these so many extracted, those whose
\* extraction fails passed over.
Fetch(e) ==
  /\ Begins(e) /\ Gate
  /\ Move(e, "fetched")
  /\ LET fresh == [Blank EXCEPT !.tries = local[e].tries]
     IN \/ Hold(e, fresh)
        \/ IF e \in Crawled /\ hash[e] = edition[e]
           THEN Hold(e, [fresh EXCEPT !.answered = TRUE])
           ELSE \E got \in IF e \in Crawled THEN SUBSET Posts[e] ELSE {Posts[e]} :
                  Hold(e, [fresh EXCEPT !.answered = TRUE, !.got = got,
                                        !.save = IF e \in Crawled THEN edition[e] ELSE 0])
  /\ NoWrite /\ UNCHANGED <<run, lock>>

\* An adapter, or the model client in the extraction, raises.
FetchFails(e) == Begins(e) /\ Gate /\ Fail(e)

\* save_crawl_hash, when it is committed.
SaveHash(e) ==
  IF local[e].save = 0 THEN UNCHANGED <<hash, crawled>>
  ELSE /\ hash' = [hash EXCEPT ![e] = local[e].save]
       /\ crawled' = [crawled EXCEPT ![e] = local[e].got]

\* Mutant: the counter is not flushed, so nothing takes the lock.
RecordUnlocked(e) ==
  /\ at[e] = "fetched" /\ Gate /\ MayWrite(e)
  /\ Move(e, "recorded") /\ Hold(e, [local[e] EXCEPT !.used = version])
  /\ NoWrite /\ UNCHANGED <<run, lock>>

\* Mutant: the hash is saved in a session of its own.
RecordHash(e) ==
  /\ at[e] = "fetched" /\ Gate /\ MayWrite(e)
  /\ lock' = IF backend = "sqlite" THEN e ELSE lock
  /\ Move(e, "recorded") /\ Hold(e, [local[e] EXCEPT !.used = version])
  /\ SaveHash(e)
  /\ UNCHANGED <<backend, version, edition, jobs, events, held, missed, run>>

\* save_crawl_hash, the gate, record_fetch_outcome with its flush, and the
\* criteria read again.  Nothing of it is committed.
Record(e) ==
  /\ at[e] = "fetched" /\ Gate /\ MayWrite(e)
  /\ lock' = IF backend = "sqlite" THEN e ELSE lock
  /\ Move(e, "recorded") /\ Hold(e, [local[e] EXCEPT !.used = version])
  /\ NoWrite /\ UNCHANGED run

\* OperationalError: the lock was not free within the busy timeout.
RecordTimesOut(e) == at[e] = "fetched" /\ ~MayWrite(e) /\ Fail(e)

\* _score_batch with score_listing: each posting is dropped by a filter or by
\* triage, is scored, or is kept without a score (an unusable answer).  Once
\* the cap is met, only what no call is needed for goes through, and the rest
\* of the batch is held back.
Score(e) ==
  /\ at[e] = "recorded" /\ Gate
  /\ \E batch \in SUBSET local[e].got : \E results \in [batch -> Tiers] :
       /\ run.capped => \A l \in batch : results[l] = "deterministic"
       /\ Hold(e, [local[e] EXCEPT !.results = results, !.capped = batch # local[e].got])
       /\ run' = [run EXCEPT !.capped = @ \/ batch # local[e].got]
  /\ Move(e, "scored")
  /\ NoWrite /\ UNCHANGED lock

\* The provider cannot be reached, or no criteria are active.
ScoreFails(e) == at[e] = "recorded" /\ Fail(e)

\* The gate before the write of jobs.
LastGate(e) ==
  /\ at[e] = "scored" /\ Gate
  /\ Move(e, "writing")
  /\ NoWrite /\ UNCHANGED <<run, lock, local>>

\* Mutant: the upsert leaves the tier of a row that is there alone.
UpsertKeepingTier(e, l) ==
  IF l \in DOMAIN jobs THEN [jobs[l] EXCEPT !.run = run.n]
  ELSE [status |-> "new", tier |-> local[e].results[l], run |-> run.n, stamp |-> 0, scored |-> 0]

\* JobRepository.upsert_discovered names every column that discovery owns:
\* neither the status nor the score is among them.
UpsertDiscovered(e, l) ==
  IF l \in DOMAIN jobs
  THEN [jobs[l] EXCEPT !.tier = local[e].results[l], !.run = run.n]
  ELSE [status |-> "new", tier |-> local[e].results[l], run |-> run.n, stamp |-> 0, scored |-> 0]

\* Mutant: the stamp is the version that is active at the write.
MarkScoredNow(row) == [row EXCEPT !.stamp = version, !.scored = run.n]

\* JobRepository.mark_scored
MarkScored(row) == [row EXCEPT !.stamp = run.stamp, !.scored = run.n]

WriteListing(e, l) ==
  IF local[e].results[l] = "full" THEN MarkScored(UpsertDiscovered(e, l))
  ELSE UpsertDiscovered(e, l)

\* The branch ends as it should, as far as it can tell.
Ends(e) ==
  /\ Move(e, "done") /\ Release(e)
  /\ Hold(e, [Blank EXCEPT !.capped = local[e].capped, !.answered = local[e].answered])
  /\ held' = (held \ DOMAIN local[e].results) \cup (local[e].got \ DOMAIN local[e].results)
  /\ UNCHANGED <<backend, version, edition, events, run>>

\* write_batch, which isolates a listing that fails, and the commit: the hash
\* and the counter become visible with the jobs.
Commit(e) ==
  /\ at[e] = "writing" /\ Ends(e) /\ SaveHash(e)
  /\ \E bad \in SUBSET DOMAIN local[e].results :
       LET written == DOMAIN local[e].results \ bad
       IN /\ jobs' = [l \in DOMAIN jobs \cup written |->
                        IF l \in written THEN WriteListing(e, l) ELSE jobs[l]]
          /\ missed' = (missed \ written) \cup bad

\* On PostgreSQL a statement that fails aborts the transaction: the listings
\* after it are refused, each in its own try, and the commit is a rollback that
\* raises nothing.
CommitsNothing(e) ==
  /\ at[e] = "writing" /\ Ends(e)
  /\ backend = "postgresql" /\ local[e].results # NoResults
  /\ missed' = missed \cup DOMAIN local[e].results
  /\ UNCHANGED <<jobs, hash, crawled>>

\* A flush or the commit fails.
WriteFails(e) == at[e] = "writing" /\ Fail(e)

\* _record_run_error, in a session of its own, after the rollback.
RecordError(e) ==
  /\ at[e] = "failing" /\ MayWrite(e)
  /\ Move(e, "errored") /\ Hold(e, Blank)
  /\ NoWrite /\ UNCHANGED <<run, lock>>

\* Mutant: one attempt too many.
RecordErrorOnceMore(e) ==
  /\ at[e] = "failing" /\ ~MayWrite(e)
  /\ IF local[e].tries <= Attempts
     THEN /\ Move(e, "again") /\ Hold(e, [local[e] EXCEPT !.tries = @ + 1]) /\ UNCHANGED run
     ELSE /\ Move(e, "gone") /\ Hold(e, Blank)
          /\ run' = [run EXCEPT !.aborted = IF @ = "no" THEN "error" ELSE @]
  /\ NoWrite /\ UNCHANGED lock

\* It is outside the try: what it raises escapes the node, and the RetryPolicy
\* starts the branch again, or gives up and the graph aborts.
RecordErrorTimesOut(e) ==
  /\ at[e] = "failing" /\ ~MayWrite(e)
  /\ IF local[e].tries < Attempts
     THEN /\ Move(e, "again") /\ Hold(e, [local[e] EXCEPT !.tries = @ + 1]) /\ UNCHANGED run
     ELSE /\ Move(e, "gone") /\ Hold(e, Blank)
          /\ run' = [run EXCEPT !.aborted = IF @ = "no" THEN "error" ELSE @]
  /\ NoWrite /\ UNCHANGED lock

----------------------------------------------------------------------------
(* The run around its branches.                                            *)

StartRun ==
  /\ run.over /\ run.n < MaxRuns
  /\ run' = [n |-> run.n + 1, row |-> "running", stamp |-> version, stop |-> FALSE,
             capped |-> FALSE, aborted |-> "no", over |-> FALSE]
  /\ at' = [e \in Employers |-> "queued"] /\ local' = [e \in Employers |-> Blank]
  /\ NoWrite /\ UNCHANGED lock

\* Mutant: a branch that the cap stopped counts as complete.
RunStatusUncapped ==
  LET errors == {e \in Employers : at[e] = "errored"}
  IN IF errors = Employers /\ Employers # {} THEN "failed"
     ELSE IF errors # {} THEN "partial" ELSE "success"

\* run_status
RunStatus ==
  LET errors == {e \in Employers : at[e] = "errored"}
  IN IF errors = Employers /\ Employers # {} THEN "failed"
     ELSE IF errors # {} THEN "partial"
     ELSE IF \E e \in Employers : at[e] = "done" /\ local[e].capped THEN "capped" ELSE "success"

\* finish_if_running
Finish(status) ==
  run' = [run EXCEPT !.row = IF @ = "running" THEN status ELSE @, !.over = TRUE, !.stop = FALSE]

\* finalize_run joins the branches; its gate may still find a stop.
FinalizeRun ==
  /\ ~run.over /\ \A e \in Employers : at[e] \in {"done", "errored"}
  /\ Finish(IF Gate THEN RunStatus ELSE "stopped")
  /\ NoWrite /\ UNCHANGED <<lock, branch>>

\* Mutant: only a stop is caught.
AbortIfStopped ==
  /\ ~run.over /\ run.aborted = "stop" /\ Active = {}
  /\ Finish(IF run.aborted = "stop" THEN "stopped" ELSE "failed")
  /\ NoWrite /\ UNCHANGED <<lock, branch>>

\* An exception out of the graph.  The executor waits for the branches that
\* are running, then run_discovery's handler ends the row.
AbortRun ==
  /\ ~run.over /\ run.aborted # "no" /\ Active = {}
  /\ Finish(IF run.aborted = "stop" THEN "stopped" ELSE "failed")
  /\ NoWrite /\ UNCHANGED <<lock, branch>>

----------------------------------------------------------------------------
(* Sessions of others: one statement and its commit each.                  *)

Elsewhere == backend = "postgresql" \/ lock = Free
Others == events < MaxEvents /\ events' = events + 1 /\ UNCHANGED <<backend, lock, branch, ghosts>>

\* request_stop, and a sweep that ends the row (and removes the request).
AskStop ==
  /\ run.row = "running" /\ ~run.stop /\ Elsewhere
  /\ run' = [run EXCEPT !.stop = TRUE]
  /\ Others /\ UNCHANGED <<version, edition, hash, jobs>>

SweepEndsRow ==
  /\ run.row = "running" /\ Elsewhere
  /\ run' = [run EXCEPT !.row = IF run.stop THEN "stopped" ELSE "failed", !.stop = FALSE]
  /\ Others /\ UNCHANGED <<version, edition, hash, jobs>>

SaveCriteria ==
  /\ Elsewhere
  /\ version' = version + 1
  /\ Others /\ UNCHANGED <<run, edition, hash, jobs>>

\* update_status
Review(l) ==
  /\ l \in DOMAIN jobs /\ jobs[l].status = "new" /\ Elsewhere
  /\ jobs' = [jobs EXCEPT ![l].status = "applied"]
  /\ Others /\ UNCHANGED <<run, version, edition, hash>>

\* The employer edits the first page of its site.
EditPage(e) ==
  /\ edition' = [edition EXCEPT ![e] = @ + 1]
  /\ Others /\ UNCHANGED <<run, version, hash, jobs>>

----------------------------------------------------------------------------
Branch(e) ==
  \/ StopBranch(e) \/ Fetch(e) \/ FetchFails(e)
  \/ Record(e) \/ RecordTimesOut(e) \/ Score(e) \/ ScoreFails(e) \/ LastGate(e)
  \/ Commit(e) \/ CommitsNothing(e) \/ WriteFails(e) \/ RecordError(e) \/ RecordErrorTimesOut(e)

World == AskStop \/ SweepEndsRow \/ SaveCriteria \/ (\E l \in Listings : Review(l))
         \/ (\E e \in Crawled : EditPage(e))

Next == StartRun \/ FinalizeRun \/ AbortRun \/ World \/ (\E e \in Employers : Branch(e))

\* Fetches and model calls have timeouts, so every branch goes on; the graph
\* joins.  Nothing is assumed of anybody else, or of the start of a run.
Fairness == WF_vars(FinalizeRun) /\ WF_vars(AbortRun) /\ \A e \in Employers : WF_vars(Branch(e))

Spec == Init /\ [][Next]_vars /\ Fairness

----------------------------------------------------------------------------
(* Properties.                                                             *)

\* What the steps of nodes.py preserve between them.  A branch that has
\* recorded its fetch has SQLite's lock to its commit, so the row it writes for
\* is running and the criteria it scored with stay active; a graph that is
\* over has no branch under way, and one that succeeded only branches that are
\* done.
WriterHasLock ==
  backend = "sqlite" =>
    \A e \in Employers : at[e] \in {"recorded", "scored", "writing"} =>
      /\ lock = e /\ local[e].used = version
      /\ at[e] = "writing" => run.row = "running"

OverIsIdle ==
  /\ run.over => Active = {}
  /\ run.n = 0 => run.over
  /\ run.row = "success" => run.over /\ \A e \in Employers : at[e] = "done" /\ ~local[e].capped

\* A row of jobs is scored by the run it names or by an older one; a branch
\* writes each of its rows once in a run, so those of an earlier run are older.
RowsOfRuns ==
  \A l \in DOMAIN jobs :
    /\ jobs[l].tier = "full" <=> jobs[l].scored = jobs[l].run
    /\ jobs[l].scored <= jobs[l].run /\ jobs[l].run <= run.n
    /\ jobs[l].stamp <= run.stamp
    /\ \A e \in Employers : l \in Posts[e] /\ at[e] # "done" => jobs[l].run < run.n

\* What a branch holds: everything an ATS has posted, scored, unless the cap
\* has held some of it back; and criteria no older than the run's stamp.
Fetched(e) == at[e] \in {"fetched", "recorded", "scored", "writing"}
HeldByBranch ==
  \A e \in Employers :
    /\ at[e] \in {"recorded", "scored", "writing"} => run.stamp <= local[e].used
    /\ at[e] \in {"scored", "writing"} =>
         local[e].capped = (DOMAIN local[e].results # local[e].got)
    /\ e \notin Crawled =>
         /\ local[e].save = 0
         /\ Fetched(e) /\ local[e].answered => local[e].got = Posts[e]
         /\ at[e] = "done" /\ local[e].answered /\ ~local[e].capped => held \cap Posts[e] = {}

PipelineInv == TypeOK /\ WriterHasLock /\ OverIsIdle /\ RowsOfRuns /\ HeldByBranch

\* nodes.py:231, "a run whose stop was requested (or was grace-finalized)
\* must never write jobs after the stop": between the last gate and the
\* commit a row can be ended, but on SQLite nobody gets to commit that while
\* the branch has the write lock, so jobs are written into running rows only;
\* on PostgreSQL at most by the branches that had passed their last gate.
NothingAfterVerdict ==
  [][\A e \in Employers : at[e] = "writing" /\ at'[e] = "done" /\ backend = "sqlite" =>
       run.row = "running"]_vars

\* careers.py and nodes.py: the hash of a page is stored with the jobs that the
\* crawl found, or not at all: of what was read behind a page that is from then
\* on skipped, only what the cap held back or what could not be written is
\* missing, whichever step of the branch, and of its retries, fails.  (What the
\* crawl did not read is hidden too: the hash is the first page's alone.)
SkipKeepsRead ==
  \A e \in Crawled : hash[e] # 0 => crawled[e] \subseteq DOMAIN jobs \cup held \cup missed

\* What the cap held back is picked up by the next run that ends in SUCCESS,
\* for each employer whose site answered in it (and may fail to be written) ...
PickedUp(e) ==
  run.row = "success" /\ local[e].answered => held \cap Posts[e] = {}

\* ... for those with an ATS, whose every fetch brings every posting again,
HeldBackFetchedAgain == \A e \in Employers \ Crawled : PickedUp(e)

\* ... and, as spend_cap.py:29-31 and docs/operations/scheduling.md:110 have
\* it ("the next run picks them up naturally", "nothing is lost"), for all.
HeldBackPickedUp == \A e \in Employers : PickedUp(e)

\* repository.py, upsert_discovered and mark_scored: discovering a listing
\* again changes neither the status the user gave it nor takes its score
\* away, and its tier says whether its score is of the run its row names.
\* (The last holds because both columns are in the list that an upsert writes,
\* where the comment at repository.py:20-25 says they are not.)
RowsKept ==
  [][\A l \in DOMAIN jobs :
       /\ l \in DOMAIN jobs' /\ jobs'[l].stamp >= jobs[l].stamp
       /\ branch' # branch => jobs'[l].status = jobs[l].status
       /\ jobs'[l].tier = "full" <=> jobs'[l].scored = jobs'[l].run]_vars

\* nodes.py:204: a branch reads the criteria again, so the version stamped on
\* its scores can be older than the one that produced them, which models.py:211
\* has it be; it is never newer, and on SQLite what a branch commits was scored
\* with the criteria that are active then.
StampNotAhead ==
  [][\A e \in Employers : at[e] = "writing" /\ at'[e] = "done" =>
       \A l \in Posts[e] \cap DOMAIN jobs' :
         jobs'[l].scored = run.n => /\ jobs'[l].stamp <= local[e].used
                                    /\ backend = "sqlite" => local[e].used = version]_vars

\* staleness.py:43: branches wait for a lock that is held across model calls,
\* give up, are retried and abort the graph; whatever happens, the row of a
\* run that was started does not stay RUNNING.
RunsEnd == run.row = "running" ~> run.row # "running"
=============================================================================
