------------------------------ MODULE Registry ------------------------------
(***************************************************************************)
(* The row of an employer and those who write it: the API, the probes it   *)
(* starts on daemon threads, the command line's, and the branches of runs, *)
(* which crawl an employer without a board and save the hash of its page.  *)
(*                                                                         *)
(* Everybody reads the row, waits for something (a thread, a slot, a page, *)
(* the name server, the database's lock) and then commits; the rows that   *)
(* are read are the rows of that instant.  Of ats_config only the          *)
(* "resolution" key is kept; what a skip of a crawl may rest on is         *)
(* PipelineBranch's.                                                       *)
(***************************************************************************)
EXTENDS Integers, Sequences, FiniteSets, SequencesExt

CONSTANTS Companies, Urls, None,
          Boards,
          Platform, Slug, \* board -> ats and ats_identifier
          Order,        \* the boards in the order of their slugs
          Guesses,      \* company -> the boards that guess_slugs names
          Sites,        \* what there may be: the boards a page names, as it is
                        \* served and rendered, and those that answer a probe
          Threads,      \* bound: requests for a probe, and probes, at a time
          Slots,        \* max_employer_concurrency
          MaxProbes,    \* _MAX_PROBES
          MaxResolves, MaxEdits, MaxRuns, MaxCrashes  \* bounds

ASSUME OrderAssumption ==
  /\ Order \in Seq(Boards) /\ \A b \in Boards : \E i \in DOMAIN Order : Order[i] = b
  /\ \A i, j \in DOMAIN Order : Order[i] = Order[j] => i = j
ASSUME RegistryAssumption ==
  /\ IsFiniteSet(Threads) /\ Platform \in [Boards -> STRING] /\ Slug \in [Boards -> STRING]
  /\ Guesses \in [Companies -> SUBSET Boards]
  /\ Sites \subseteq [page : SUBSET Boards, rendered : SUBSET Boards, alive : SUBSET Boards]
  /\ None \notin Boards \cup Urls /\ Slots \in Nat \ {0} /\ MaxProbes \in Nat
  /\ \A b \in Boards : Platform[b] # None /\ Slug[b] # None

VARIABLES
  site,     \* of each company
  row,      \* companies
  thread,   \* requests for a probe, and the probes they start
  taken,    \* slots of the semaphore
  branch,   \* the block of its company that a crawling branch has read, or None
  edit,     \* a board being entered by hand, or None
  clock,    \* the last instant something was stamped with
  last,     \* history: the board of the outcome committed last, or None
  torn,     \* history: a board entered by hand was compared with a row that had
            \* another one by the time it was committed
  stranded, \* history: what left the employer shown as resolving, see Leave
  budget

history == <<last, torn, stranded>>
vars == <<site, row, thread, taken, branch, edit, clock, history, budget>>

Sources == {"static_html", "rendered_html", "name_guess", "manual"}
NoBlock == [state |-> "none", at |-> 0, via |-> None, reached |-> FALSE]

\* "at" is started_at of a marker: nobody compares finished_at.
Blocks(now) == [state : {"none", "resolving", "resolved", "error"}, at : 0..now,
                via : Sources \cup {None}, reached : BOOLEAN]
Ats == {Platform[b] : b \in Boards} \cup {None}
Identifiers == {Slug[b] : b \in Boards} \cup {None}
Rows(now) == [ats : Ats, slug : Identifiers, url : Urls \cup {None}, resolvedAt : 0..now,
              enabled : BOOLEAN, res : Blocks(now)]
Phases == {"marking", "started", "queued", "probing", "found", "failing"}
Work(now) == [at : Phases, c : Companies, url : Urls \cup {None}, api : BOOLEAN,
              board : Boards \cup {None}, stamp : 0..now, res : Blocks(now)]
Idle == [at |-> "idle"]
Edits(now) == [ats : Ats, slug : Identifiers, board : Boards, stamp : 0..now]

TypeOK ==
  /\ clock \in Nat /\ taken \in 0..Slots /\ site \in [Companies -> Sites]
  /\ row \in [Companies -> Rows(clock)] /\ thread \in [Threads -> {Idle} \cup Work(clock)]
  /\ branch \in [Companies -> {None} \cup Blocks(clock)]
  /\ edit \in [Companies -> {None} \cup Edits(clock)]
  /\ last \in [Companies -> Boards \cup {None}]
  /\ torn \in [Companies -> BOOLEAN] /\ stranded \in [Companies -> BOOLEAN]

Init ==
  /\ site \in [Companies -> Sites]
  /\ row \in [Companies -> {[ats |-> None, slug |-> None, url |-> u, resolvedAt |-> 0,
                             enabled |-> TRUE, res |-> NoBlock] : u \in Urls \cup {None}}]
  /\ thread = [t \in Threads |-> Idle] /\ taken = 0 /\ clock = 0
  /\ branch = [c \in Companies |-> None] /\ edit = [c \in Companies |-> None]
  /\ last = [c \in Companies |-> None]
  /\ torn = [c \in Companies |-> FALSE] /\ stranded = [c \in Companies |-> FALSE]
  /\ budget = [resolves |-> MaxResolves, edits |-> MaxEdits, runs |-> MaxRuns,
               crashes |-> MaxCrashes]

Spend(what) == budget[what] > 0 /\ budget' = [budget EXCEPT ![what] = @ - 1]

----------------------------------------------------------------------------
(* resolve_employer.                                                       *)

\* The loop of _probe_candidates: b is passed over if it is none of the
\* candidates, after MaxProbes, and on a platform that has verified one.
ProbeNext(acc, candidates, alive, b) ==
  IF \/ b \notin candidates \/ acc.probes >= MaxProbes
     \/ \E v \in acc.verified : Platform[v] = Platform[b]
  THEN acc
  ELSE [probes |-> acc.probes + 1, verified |-> acc.verified \cup ({b} \cap alive)]

Sweep(acc, candidates, alive) ==
  FoldLeft(LAMBDA a, b : ProbeNext(a, candidates, alive, b), acc, Order)

Unprobed == [probes |-> 0, verified |-> {}]

\* Mutant: sorted by slug alone.
VerifiedBySlug(page, guesses, alive) == Sweep(Unprobed, page \cup guesses, alive).verified

\* _probe_candidates: sorted by source, then slug; the first of equal pairs
\* stays.
Verified(page, guesses, alive) ==
  Sweep(Sweep(Unprobed, page, alive), guesses \ page, alive).verified

\* _best_source
BestSource(b, page, rendered) ==
  IF b \in page THEN "static_html" ELSE IF b \in rendered THEN "rendered_html" ELSE "name_guess"

\* _fetch_with_fallback and the sweep of what it returns, perhaps nothing.
Fetched(s, reached) == IF reached THEN s.page ELSE {}

\* The page as it was fetched, or nothing; the guesses always; the rendered
\* page only if nothing was verified.  One verified board is the result.
Outcome(c, s, reached, renders) ==
  LET page == Fetched(s, reached)
      rendered == IF renders THEN s.rendered ELSE {}
      first == Verified(page, Guesses[c], s.alive)
      verified == IF first # {} THEN first ELSE Verified(rendered, {}, s.alive)
  IN IF Cardinality(verified) # 1 THEN [board |-> None, via |-> None]
     ELSE LET winner == CHOOSE b \in verified : TRUE
          IN [board |-> winner, via |-> BestSource(winner, page, rendered)]

\* The same as a table, which TLC computes once.
OutcomeTable ==
  [c \in Companies |-> [s \in Sites |->
    [reached \in BOOLEAN |-> [renders \in BOOLEAN |-> Outcome(c, s, reached, renders)]]]]

----------------------------------------------------------------------------
(* Probes.                                                                 *)

\* The values of ats_config["resolution"]: mark_resolving,
\* mark_resolution_error, build_manual_resolution_config, build_ats_config.
ResolvingMarker(at) == [NoBlock EXCEPT !.state = "resolving", !.at = at]
ErrorBlock == [NoBlock EXCEPT !.state = "error"]
ManualBlock == [NoBlock EXCEPT !.state = "resolved", !.via = "manual"]
ProbeBlock(outcome, reached) ==
  IF outcome.board = None THEN ErrorBlock
  ELSE [state |-> "resolved", at |-> 0, via |-> outcome.via, reached |-> reached]

NewWork(c, at) == [at |-> at, c |-> c, url |-> None, api |-> TRUE, board |-> None,
                   stamp |-> 0, res |-> NoBlock]

\* A thread that ends without a word leaves the marker, if there is one.
Leave(c) == stranded' = [stranded EXCEPT ![c] = @ \/ row[c].res.state = "resolving"]

\* The block is written over.
Overwrite(c, block) ==
  /\ row' = [row EXCEPT ![c] = [@ EXCEPT !.res = block]]
  /\ stranded' = [stranded EXCEPT ![c] = FALSE]

\* resolve_company, and resolve_batch for each id: the row is read and the
\* marker made, ...
MarkResolving(c, t) ==
  /\ row[c].enabled /\ thread[t] = Idle /\ Spend("resolves")
  /\ clock' = clock + 1
  /\ thread' = [thread EXCEPT ![t] = [NewWork(c, "marking") EXCEPT !.stamp = clock']]
  /\ UNCHANGED <<site, row, taken, branch, edit, history>>

\* ... then it is committed, and a thread is started; ...
MarkCommits(t) ==
  /\ thread[t].at = "marking"
  /\ Overwrite(thread[t].c, ResolvingMarker(thread[t].stamp))
  /\ thread' = [thread EXCEPT ![t] = NewWork(thread[t].c, "started")]
  /\ UNCHANGED <<site, taken, branch, edit, clock, last, torn, budget>>

\* ... or the database is locked, and the request fails.
MarkFails(t) ==
  /\ thread[t].at = "marking" /\ thread' = [thread EXCEPT ![t] = Idle]
  /\ UNCHANGED <<site, row, taken, branch, edit, clock, history, budget>>

\* The thread opens a session of its own and reads the row, ...
ReadsCompany(t) ==
  /\ thread[t].at = "started"
  /\ thread' = [thread EXCEPT ![t] = [@ EXCEPT !.at = "queued", !.url = row[thread[t].c].url]]
  /\ UNCHANGED <<site, row, taken, branch, edit, clock, history, budget>>

\* ... outside the try block whose handler records an error: if there is no
\* connection to be had (each of the threads that wait for a slot keeps one),
\* the thread ends here.
DiesEarly(t) ==
  /\ thread[t].at = "started"
  /\ thread' = [thread EXCEPT ![t] = Idle] /\ Leave(thread[t].c)
  /\ UNCHANGED <<site, row, taken, branch, edit, clock, last, torn, budget>>

\* The company command: no marker and no semaphore, and a URL from its
\* argument or from the row.  For a name that is there, enabled is not among
\* the columns of the upsert.
CliResolve(c, t, url) ==
  /\ thread[t] = Idle /\ Spend("resolves")
  /\ thread' = [thread EXCEPT
       ![t] = [NewWork(c, "probing") EXCEPT !.url = url, !.api = FALSE]]
  /\ UNCHANGED <<site, row, taken, branch, edit, clock, history>>

\* _probe_semaphore
Acquire(t) ==
  /\ thread[t].at = "queued" /\ taken < Slots
  /\ thread' = [thread EXCEPT ![t] = [@ EXCEPT !.at = "probing"]] /\ taken' = taken + 1
  /\ UNCHANGED <<site, row, branch, edit, clock, history, budget>>

\* Mutant: the command gives back a slot it never took.
ReleaseAlways(t) == taken' = taken - 1

\* The end of the with block.
Release(t) == taken' = IF thread[t].api THEN taken - 1 ELSE taken

\* resolve_employer returns, with the page reached or not and the renderer
\* there or not; persist_resolution makes the stamp, and waits for the lock.
FindsResult(t) ==
  /\ thread[t].at = "probing"
  /\ \E reached, renders \in IF thread[t].url = None THEN {FALSE} ELSE BOOLEAN :
       LET outcome == OutcomeTable[thread[t].c][site[thread[t].c]][reached][renders]
           resolved == outcome.board # None
       IN /\ clock' = IF resolved THEN clock + 1 ELSE clock
          /\ thread' = [thread EXCEPT ![t] = [@ EXCEPT
               !.at = "found", !.board = outcome.board, !.res = ProbeBlock(outcome, reached),
               !.stamp = IF resolved THEN clock' ELSE 0]]
  /\ UNCHANGED <<site, row, taken, branch, edit, history, budget>>

\* The upsert of persist_resolution, which writes every column: no board and no
\* stamp if the probe found none or could not decide, and careers_url as it
\* was read.
Persist(t) ==
  /\ thread[t].at = "found"
  /\ LET c == thread[t].c
         board == thread[t].board
     IN /\ row' = [row EXCEPT ![c] = [@ EXCEPT
             !.ats = IF board # None THEN Platform[board] ELSE None,
             !.slug = IF board # None THEN Slug[board] ELSE None,
             !.url = thread[t].url, !.resolvedAt = thread[t].stamp, !.res = thread[t].res]]
        /\ last' = [last EXCEPT ![c] = board] /\ torn' = [torn EXCEPT ![c] = FALSE]
        /\ stranded' = [stranded EXCEPT ![c] = FALSE]
  /\ thread' = [thread EXCEPT ![t] = Idle] /\ Release(t)
  /\ UNCHANGED <<site, branch, edit, clock, budget>>

\* Mutant: an exception ends the thread, as if the handler were not there.
RaiseUnhandled(t) ==
  /\ thread[t].at \in {"probing", "found"}
  /\ thread' = [thread EXCEPT ![t] = Idle] /\ Release(t)
  /\ UNCHANGED <<site, row, branch, edit, clock, history, budget>>

\* An exception, the commit's included: rollback.  The slot is given back
\* before the handler runs; the command just ends.
Raise(t) ==
  /\ thread[t].at \in {"probing", "found"}
  /\ thread' = [thread EXCEPT ![t] = IF @.api THEN NewWork(@.c, "failing") ELSE Idle]
  /\ Release(t)
  /\ UNCHANGED <<site, row, branch, edit, clock, history, budget>>

\* mark_resolution_error, which leaves the other columns alone.
ErrorCommits(t) ==
  /\ thread[t].at = "failing" /\ Overwrite(thread[t].c, ErrorBlock)
  /\ thread' = [thread EXCEPT ![t] = Idle]
  /\ UNCHANGED <<site, taken, branch, edit, clock, last, torn, budget>>

\* The handler's own commit fails too (a branch has SQLite's write lock for as
\* long as its model calls take), which ends the thread.
ErrorFails(t) ==
  /\ thread[t].at = "failing"
  /\ thread' = [thread EXCEPT ![t] = Idle] /\ Leave(thread[t].c)
  /\ UNCHANGED <<site, row, taken, branch, edit, clock, last, torn, budget>>

\* The API process ends: its threads are daemons, and its requests are gone.
\* (Without a thread there is nothing to lose that EditFails does not lose.)
Crash ==
  /\ Spend("crashes")
  /\ LET dead == {t \in Threads : thread[t].at # "idle" /\ thread[t].api}
     IN /\ dead # {}
        /\ thread' = [t \in Threads |-> IF t \in dead THEN Idle ELSE thread[t]]
        /\ stranded' = [c \in Companies |->
             \/ stranded[c]
             \/ row[c].res.state = "resolving" /\ \E t \in dead : thread[t].c = c]
  /\ taken' = 0 /\ edit' = [c \in Companies |-> None]
  /\ UNCHANGED <<site, row, branch, clock, last, torn>>

----------------------------------------------------------------------------
(* The user, through the API.                                              *)

\* patch_company: the toggle, and a URL by itself, which add_company and
\* add_batch write too, for a name that is there already: None blanks it.  A
\* request that writes one column may be taken to read the row when it commits.
Toggle(c) ==
  /\ Spend("edits") /\ row' = [row EXCEPT ![c] = [@ EXCEPT !.enabled = ~row[c].enabled]]
  /\ UNCHANGED <<site, thread, taken, branch, edit, clock, history>>

EditUrl(c, url) ==
  /\ url # row[c].url /\ Spend("edits") /\ row' = [row EXCEPT ![c] = [@ EXCEPT !.url = url]]
  /\ UNCHANGED <<site, thread, taken, branch, edit, clock, history>>

\* A board entered by hand: the row is read (and the URL that comes with it
\* looked up), ...
ReadToEdit(c, b) ==
  /\ edit[c] = None /\ Spend("edits")
  /\ edit' = [edit EXCEPT ![c] = [ats |-> row[c].ats, slug |-> row[c].slug, board |-> b, stamp |-> 0]]
  /\ UNCHANGED <<site, row, thread, taken, branch, clock, history>>

\* ... then the resolution is stamped, ...
StampEdit(c) ==
  /\ edit[c] # None /\ edit[c].stamp = 0 /\ clock' = clock + 1
  /\ edit' = [edit EXCEPT ![c] = [@ EXCEPT !.stamp = clock']]
  /\ UNCHANGED <<site, row, thread, taken, branch, history, budget>>

\* ... and committed, a column only if it is not what was read: the ORM's.
CommitBoard(c) ==
  /\ edit[c] # None /\ edit[c].stamp # 0
  /\ LET e == edit[c]
         sameAts == Platform[e.board] = e.ats
         sameSlug == Slug[e.board] = e.slug
     IN /\ row' = [row EXCEPT ![c] = [@ EXCEPT
             !.ats = IF sameAts THEN row[c].ats ELSE Platform[e.board],
             !.slug = IF sameSlug THEN row[c].slug ELSE Slug[e.board],
             !.resolvedAt = e.stamp, !.res = ManualBlock]]
        /\ last' = [last EXCEPT ![c] = e.board]
        /\ torn' = [torn EXCEPT ![c] = \/ sameAts /\ row[c].ats # e.ats
                                       \/ sameSlug /\ row[c].slug # e.slug]
        /\ stranded' = [stranded EXCEPT ![c] = FALSE]
  /\ edit' = [edit EXCEPT ![c] = None]
  /\ UNCHANGED <<site, thread, taken, branch, clock, budget>>

\* The URL is refused, or the database is locked.
EditFails(c) ==
  /\ edit[c] # None /\ edit' = [edit EXCEPT ![c] = None]
  /\ UNCHANGED <<site, row, thread, taken, branch, clock, history, budget>>

----------------------------------------------------------------------------
(* Branches of a run.                                                      *)

\* An enabled employer with a page and no board is crawled.
StartCrawl(c) ==
  /\ row[c].enabled /\ None \in {row[c].ats, row[c].slug} /\ row[c].url # None
  /\ branch[c] = None /\ Spend("runs")
  /\ branch' = [branch EXCEPT ![c] = row[c].res]
  /\ UNCHANGED <<site, row, thread, taken, edit, clock, history>>

\* save_crawl_hash merges its key into the ats_config it read, not into the
\* row's: a marker comes back that way, and is believed if the stamp of the row
\* is older.
SaveCrawlHash(c) ==
  /\ branch[c] # None
  /\ row' = [row EXCEPT ![c] = [@ EXCEPT !.res = branch[c]]]
  /\ stranded' = [stranded EXCEPT
       ![c] = \/ @
              \/ /\ branch[c] # row[c].res /\ branch[c].state = "resolving"
                 /\ branch[c].at > row[c].resolvedAt]
  /\ branch' = [branch EXCEPT ![c] = None]
  /\ UNCHANGED <<site, thread, taken, edit, clock, last, torn, budget>>

\* The page is the one that was crawled last, could not be fetched, or the
\* branch failed: nothing of ats_config is written.
EndCrawl(c) ==
  /\ branch[c] # None /\ branch' = [branch EXCEPT ![c] = None]
  /\ UNCHANGED <<site, row, thread, taken, edit, clock, history, budget>>

----------------------------------------------------------------------------
\* A request and a probe take a place that is free; which one makes no
\* difference.
Free == {t \in Threads : thread[t] = Idle}
Place == IF Free = {} THEN {} ELSE {CHOOSE t \in Free : TRUE}

Works(t) == \/ ReadsCompany(t) \/ DiesEarly(t) \/ Acquire(t) \/ FindsResult(t)
            \/ Persist(t) \/ Raise(t) \/ ErrorCommits(t) \/ ErrorFails(t)

Next ==
  \/ \E c \in Companies, t \in Place :
       MarkResolving(c, t) \/ \E u \in Urls \cup {None} : CliResolve(c, t, u)
  \/ \E t \in Threads : MarkCommits(t) \/ MarkFails(t) \/ Works(t)
  \/ \E c \in Companies : \/ Toggle(c) \/ (\E u \in Urls \cup {None} : EditUrl(c, u))
                          \/ (\E b \in Boards : ReadToEdit(c, b))
                          \/ StampEdit(c) \/ CommitBoard(c) \/ EditFails(c)
                          \/ StartCrawl(c) \/ SaveCrawlHash(c) \/ EndCrawl(c)
  \/ Crash

\* A thread that is started goes on: every fetch of a probe has a timeout, so
\* has every wait for a connection or a lock, and a slot that is freed goes to
\* one of the threads that wait for it.
Fairness == \A t \in Threads : WF_vars(Works(t))

Spec == Init /\ [][Next]_vars /\ Fairness

----------------------------------------------------------------------------
(* Properties.                                                             *)

\* Mutant: the marker is believed whenever it is there.
ResolutionStateOfMarker(c) ==
  IF row[c].res.state = "resolving" THEN "resolving"
  ELSE IF row[c].resolvedAt # 0 THEN "resolved"
  ELSE IF row[c].res # NoBlock THEN "error" ELSE "added"

\* What the API shows: _resolution_state.
ResolutionState(c) ==
  IF row[c].res.state = "resolving" /\ row[c].res.at > row[c].resolvedAt THEN "resolving"
  ELSE IF row[c].resolvedAt # 0 THEN "resolved"
  ELSE IF row[c].res # NoBlock THEN "error" ELSE "added"

\* background.py:75, GAP-13, "every path must be terminal": an employer that
\* is shown as resolving stops being so, whatever its probe runs into and
\* whoever waits for a slot with it.  Four things the code does not cover
\* leave the marker for good: the end of the process, a thread that gets no
\* connection for its first read, a handler whose own commit fails, and a
\* branch that read the marker and writes it back after it was removed.
ResolvingEnds ==
  \A c \in Companies :
    ResolutionState(c) = "resolving" ~> (ResolutionState(c) # "resolving" \/ stranded[c])

\* The slots taken are those of the API's probes that are under way, whatever
\* became of the ones before them.
Probing == {t \in Threads : thread[t].at \in {"probing", "found"} /\ thread[t].api}
SlotsCounted ==
  /\ taken = Cardinality(Probing)
  /\ \A t \in Threads : thread[t].at \notin {"idle", "probing", "found"} => thread[t].api

\* What a block may say of the site it was made from.
GuessIsLast(c, block) ==
  block.state = "resolved" /\ block.reached /\ site[c].page \cap site[c].alive # {} =>
    /\ block.via # "name_guess"
    /\ Cardinality(site[c].page) <= MaxProbes => block.via = "static_html"

\* A result that is not yet committed has a stamp if it has a board.
FoundHonest(w) ==
  GuessIsLast(w.c, w.res) /\ w.res.state # "resolving" /\ (w.stamp = 0 <=> w.board = None)

\* And so it is of those that probes will commit, and in the copies that
\* branches will write back.
BlocksHonest ==
  /\ \A c \in Companies : /\ GuessIsLast(c, row[c].res)
                          /\ branch[c] # None => GuessIsLast(c, branch[c])
  /\ \A t \in Threads : thread[t].at = "found" => FoundHonest(thread[t])

RegistryInv == TypeOK /\ SlotsCounted /\ BlocksHonest

\* A probe of the API is under way, and will write over the marker.
Busy(w) == w.at \in Phases \ {"marking"} /\ w.api
Resolving(c) == \E t \in Threads : Busy(thread[t]) /\ thread[t].c = c

\* What the row says of the outcome that was committed last.
OutcomeShown(c) ==
  /\ last[c] = None => row[c].ats = None /\ row[c].slug = None /\ row[c].resolvedAt = 0
  /\ last[c] # None =>
       /\ row[c].resolvedAt # 0
       /\ torn[c] \/ (row[c].ats = Platform[last[c]] /\ row[c].slug = Slug[last[c]])

\* companies.py:173, "a stale marker can therefore never mask a newer
\* resolved", and 336, "sets resolved_at so the employer becomes
\* watchable/Resolved immediately": whoever else reads, stamps and commits
\* around it, the outcome committed last, of a probe or by hand, is what the
\* row says, and resolving is shown only while a probe is under way.  The
\* exceptions are the code's: a marker that was left (see ResolvingEnds), which
\* may be one that was stamped after and committed before the outcome it then
\* masks, and a board entered by hand while the columns it leaves as they were
\* changed.
StateHonest ==
  \A c \in Companies :
    /\ OutcomeShown(c)
    /\ ResolutionState(c) = "resolving" => stranded[c] \/ Resolving(c)

\* resolve.py:118-137, strong sources first: when the page was read and a
\* board it names is alive, an employer is never resolved by a guess of its
\* name, however the probes are capped, ordered and cut short; and if no more
\* boards are named than are probed, it is the page that resolves it.
PageOutranksGuess == \A c \in Companies : GuessIsLast(c, row[c].res)
=============================================================================
