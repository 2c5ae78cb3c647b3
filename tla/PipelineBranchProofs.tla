------------------------ MODULE PipelineBranchProofs ------------------------
(***************************************************************************)
(* Proofs about PipelineBranch, for any employers, postings and number of  *)
(* runs, any limit of the executor and both databases.                     *)
(***************************************************************************)
EXTENDS PipelineBranch, Integers, TLAPS

LEMMA PostsAreListings ==
  /\ \A e \in Employers : Posts[e] \subseteq Listings
  /\ \A l \in Listings : \E e \in Employers : l \in Posts[e]
  /\ \A e, f \in Employers : e # f => Posts[e] \cap Posts[f] = {}
BY EmployersAssumption DEF Listings

LEMMA ScoresAre ==
  /\ \A x \in Scores : DOMAIN x \subseteq Listings /\ \A l \in DOMAIN x : x[l] \in Tiers
  /\ \A batch \in SUBSET Listings : [batch -> Tiers] \subseteq Scores
  /\ NoResults \in Scores /\ DOMAIN NoResults = {}
<1>1. \A batch \in SUBSET Listings : [batch -> Tiers] \subseteq Scores
  BY DEF Scores
<1>2. NoResults \in [{} -> Tiers] /\ DOMAIN NoResults = {}
  BY DEF NoResults
<1>3. \A x \in Scores : DOMAIN x \subseteq Listings /\ \A l \in DOMAIN x : x[l] \in Tiers
  BY DEF Scores
<1> QED BY <1>1, <1>2, <1>3

LEMMA BlankIs ==
  ASSUME TypeOK, NEW e \in Employers
  PROVE  /\ Blank \in Local(e) /\ DOMAIN Blank.results = {}
         /\ \A t \in 1..Attempts : /\ [Blank EXCEPT !.tries = t] \in Local(e)
                                   /\ DOMAIN [Blank EXCEPT !.tries = t].results = {}
<1>1. Blank = [save |-> 0, used |-> 0, got |-> {}, results |-> NoResults,
               capped |-> FALSE, answered |-> FALSE, tries |-> 1]
  BY DEF Blank
<1>2. events \in Nat /\ version \in Nat /\ 1 \in 1..Attempts
  BY BoundsAssumption DEF TypeOK
<1>3. Blank \in Local(e) /\ DOMAIN Blank.results = {}
  BY <1>1, <1>2, ScoresAre DEF Local
<1>4. ASSUME NEW t \in 1..Attempts
      PROVE  [Blank EXCEPT !.tries = t] \in Local(e) /\ DOMAIN [Blank EXCEPT !.tries = t].results = {}
  <2>1. [Blank EXCEPT !.tries = t].results = Blank.results
    BY <1>3 DEF Local
  <2> QED BY <1>3, <2>1 DEF Local
<1> QED BY <1>3, <1>4

-----------------------------------------------------------------------------
(* Type correctness.                                                       *)

LEMMA TypeInit == Init => TypeOK
<1> SUFFICES ASSUME Init PROVE TypeOK
  OBVIOUS
<1>1. version \in Nat /\ events = 0 /\ MaxEvents \in Nat /\ MaxRuns \in Nat
  BY BoundsAssumption DEF Init
<1>2. \A e \in Employers : Blank \in Local(e) /\ DOMAIN Blank.results \subseteq Blank.got
  BY <1>1, ScoresAre, BoundsAssumption DEF Init, Blank, Local
<1> QED BY <1>1, <1>2 DEF Init, TypeOK, Waiting, Stages, Run, Row

\* A step of a branch that touches nothing but its place, its session and what
\* the run remembers of it.
LEMMA BranchTypes ==
  ASSUME TypeOK, NEW e \in Employers, NEW stage \in Stages, NEW v \in Local(e),
         DOMAIN v.results \subseteq v.got,
         Move(e, stage), Hold(e, v), NoWrite, lock' \in Employers \cup {Free}, run' \in Run
  PROVE  TypeOK'
BY DEF TypeOK, Move, Hold, NoWrite, ghosts, Local, Row, Run

LEMMA FetchTypes ==
  ASSUME TypeOK, NEW e \in Employers, Fetch(e)
  PROVE  TypeOK'
<1> DEFINE fresh == [Blank EXCEPT !.tries = local[e].tries]
<1>1. local[e].tries \in 1..Attempts
  BY DEF TypeOK, Local
<1>2. fresh \in Local(e) /\ DOMAIN fresh.results = {}
  BY <1>1, BlankIs
<1> HIDE DEF fresh
<1>3. ASSUME NEW a \in BOOLEAN, NEW got \in SUBSET Posts[e], NEW save \in {0, edition[e]}
      PROVE  LET v == [fresh EXCEPT !.answered = a, !.got = got, !.save = save]
             IN  v \in Local(e) /\ DOMAIN v.results = {}
  <2> DEFINE v == [fresh EXCEPT !.answered = a, !.got = got, !.save = save]
  <2>1. save \in 0..events + 1
    BY DEF TypeOK
  <2>2. v \in Local(e)
    BY <1>2, <2>1 DEF Local
  <2>3. v.results = fresh.results
    BY <1>2 DEF Local
  <2> QED BY <1>2, <2>2, <2>3
<1>4. PICK v : v \in Local(e) /\ DOMAIN v.results = {} /\ Hold(e, v)
  <2>1. CASE Hold(e, fresh)
    BY <1>2, <2>1 DEF Hold, fresh
  <2>2. CASE e \in Crawled /\ hash[e] = edition[e] /\ Hold(e, [fresh EXCEPT !.answered = TRUE])
    BY <1>2, <2>2 DEF Local, Hold
  <2>3. ASSUME NEW got \in IF e \in Crawled THEN SUBSET Posts[e] ELSE {Posts[e]},
               Hold(e, [fresh EXCEPT !.answered = TRUE, !.got = got,
                                     !.save = IF e \in Crawled THEN edition[e] ELSE 0])
        PROVE  \E v : v \in Local(e) /\ DOMAIN v.results = {} /\ Hold(e, v)
    <3>1. got \in SUBSET Posts[e]
      OBVIOUS
    <3> QED BY <1>3, <2>3, <3>1
  <2> QED BY <2>1, <2>2, <2>3 DEF Fetch, fresh
<1> QED BY <1>4, BranchTypes DEF Fetch, Stages, TypeOK

\* What a branch that ends leaves behind, whatever it has written.
LEMMA EndsTypes ==
  ASSUME TypeOK, NEW e \in Employers, Ends(e),
         DOMAIN jobs' \subseteq Listings, \A l \in DOMAIN jobs' : jobs'[l] \in Row,
         missed' \subseteq Listings, SaveHash(e) \/ UNCHANGED <<hash, crawled>>
  PROVE  TypeOK'
<1> DEFINE res == local[e].results
           v == [Blank EXCEPT !.capped = local[e].capped, !.answered = local[e].answered]
<1>1. /\ local[e].got \subseteq Listings /\ local[e].save \in 0..events + 1
      /\ local[e].capped \in BOOLEAN /\ local[e].answered \in BOOLEAN
  BY PostsAreListings DEF TypeOK, Local
<1>2. v \in Local(e) /\ DOMAIN v.results = {}
  <2>1. v \in Local(e)
    BY <1>1, BlankIs DEF Local
  <2>2. v.results = Blank.results
    BY BlankIs DEF Local
  <2> QED BY <2>1, <2>2, BlankIs
<1> HIDE DEF v, res
<1>3. /\ local' = [local EXCEPT ![e] = v] /\ at' = [at EXCEPT ![e] = "done"]
      /\ lock' \in {Free, lock} /\ UNCHANGED <<backend, version, edition, events, run>>
      /\ held' = (held \ DOMAIN res) \cup (local[e].got \ DOMAIN res)
  BY DEF Ends, Move, Release, Hold, v, res
<1>4. hash' \in [Employers -> 0..events + 1] /\ crawled' \in [Employers -> SUBSET Listings]
  BY <1>1 DEF SaveHash, TypeOK
<1>5. at' \in [Employers -> Stages] /\ held' \subseteq Listings
  BY <1>1, <1>3 DEF TypeOK, Stages, Waiting
<1>6. /\ DOMAIN local' = Employers
      /\ \A f \in Employers : local'[f] \in Local(f) /\ DOMAIN local'[f].results \subseteq local'[f].got
  BY <1>2, <1>3 DEF TypeOK
<1> QED BY <1>3, <1>4, <1>5, <1>6 DEF TypeOK, Local, Run

LEMMA CommitTypes ==
  ASSUME TypeOK, NEW e \in Employers, Commit(e) \/ CommitsNothing(e)
  PROVE  TypeOK'
<1> DEFINE res == local[e].results
<1>1. DOMAIN res \subseteq Listings /\ \A l \in DOMAIN res : res[l] \in Tiers
  BY ScoresAre DEF TypeOK, Local
<1>2. \A l \in DOMAIN res : WriteListing(e, l) \in Row
  <2> TAKE l \in DOMAIN res
  <2>1. run.n \in Nat /\ run.stamp \in Nat /\ 0 \in Nat
    BY DEF TypeOK, Run
  <2>2. UpsertDiscovered(e, l) \in Row
    BY <1>1, <2>1 DEF UpsertDiscovered, TypeOK, Row
  <2> QED BY <2>1, <2>2 DEF WriteListing, MarkScored, Row
<1>3. CASE Commit(e)
  <2>1. PICK bad \in SUBSET DOMAIN res :
          /\ jobs' = [l \in DOMAIN jobs \cup (DOMAIN res \ bad) |->
                        IF l \in DOMAIN res \ bad THEN WriteListing(e, l) ELSE jobs[l]]
          /\ missed' = (missed \ (DOMAIN res \ bad)) \cup bad
    BY <1>3 DEF Commit
  <2>2. DOMAIN jobs' \subseteq Listings /\ missed' \subseteq Listings
    BY <1>1, <2>1 DEF TypeOK
  <2>3. \A l \in DOMAIN jobs' : jobs'[l] \in Row
    BY <1>2, <2>1 DEF TypeOK
  <2>4. Ends(e) /\ SaveHash(e)
    BY <1>3 DEF Commit
  <2> QED BY <2>2, <2>3, <2>4, EndsTypes
<1>4. CASE CommitsNothing(e)
  <2>1. /\ Ends(e) /\ jobs' = jobs /\ UNCHANGED <<hash, crawled>>
        /\ missed' = missed \cup DOMAIN res
    BY <1>4 DEF CommitsNothing
  <2>2. missed' \subseteq Listings
    BY <1>1, <2>1 DEF TypeOK
  <2>3. DOMAIN jobs' \subseteq Listings /\ \A l \in DOMAIN jobs' : jobs'[l] \in Row
    BY <2>1 DEF TypeOK
  <2> QED BY <2>1, <2>2, <2>3, EndsTypes
<1> QED BY <1>3, <1>4

LEMMA BranchStepTypes ==
  ASSUME TypeOK, NEW e \in Employers, Branch(e)
  PROVE  TypeOK'
<1> USE DEF Stages, Waiting, Verdicts
<1>1. /\ local[e].tries \in 1..Attempts /\ local[e].got \subseteq Listings
      /\ local[e] \in Local(e) /\ DOMAIN local[e].results \subseteq local[e].got
      /\ run \in Run /\ version \in Nat
  BY PostsAreListings DEF TypeOK, Local
<1>2. Blank \in Local(e) /\ DOMAIN Blank.results = {}
  BY BlankIs
<1>3. ASSUME Fail(e), lock' \in Employers \cup {Free} PROVE TypeOK'
  <2> DEFINE v == [Blank EXCEPT !.tries = local[e].tries]
  <2>1. v \in Local(e) /\ DOMAIN v.results = {}
    BY <1>1, BlankIs
  <2> QED BY <1>1, <1>3, <2>1, BranchTypes DEF Fail
<1>4. Release(e) => lock' \in Employers \cup {Free}
  BY DEF Release, TypeOK
<1>5. CASE StopBranch(e)
  <2>1. run' \in Run
    BY <1>1, <1>5 DEF StopBranch, Run
  <2> QED BY <1>2, <1>4, <1>5, <2>1, BranchTypes DEF StopBranch
<1>6. CASE Fetch(e)
  BY <1>6, FetchTypes
<1>7. CASE FetchFails(e) \/ RecordTimesOut(e) \/ ScoreFails(e) \/ WriteFails(e)
  BY <1>3, <1>4, <1>7 DEF FetchFails, RecordTimesOut, ScoreFails, WriteFails, Fail
<1>8. CASE Record(e)
  <2> DEFINE v == [local[e] EXCEPT !.used = version]
  <2>1. v \in Local(e) /\ v.results = local[e].results /\ v.got = local[e].got
    BY <1>1 DEF Local
  <2>2. lock' \in Employers \cup {Free}
    BY <1>8 DEF Record, TypeOK
  <2> QED BY <1>1, <1>8, <2>1, <2>2, BranchTypes DEF Record
<1>9. CASE Score(e)
  <2>0. PICK batch \in SUBSET local[e].got : \E results \in [batch -> Tiers] :
          /\ Hold(e, [local[e] EXCEPT !.results = results, !.capped = batch # local[e].got])
          /\ run' = [run EXCEPT !.capped = @ \/ batch # local[e].got]
    BY <1>9 DEF Score
  <2>1. PICK results \in [batch -> Tiers] :
          /\ Hold(e, [local[e] EXCEPT !.results = results, !.capped = batch # local[e].got])
          /\ run' = [run EXCEPT !.capped = @ \/ batch # local[e].got]
    BY <2>0
  <2> DEFINE v == [local[e] EXCEPT !.results = results, !.capped = batch # local[e].got]
  <2>2. results \in Scores
    BY <1>1, ScoresAre
  <2>3. v \in Local(e) /\ v.results = results /\ v.got = local[e].got
    BY <1>1, <2>2 DEF Local
  <2>4. DOMAIN results = batch
    OBVIOUS
  <2>5. run' \in Run
    BY <1>1, <2>1 DEF Run
  <2>6. lock' \in Employers \cup {Free}
    BY <1>9 DEF Score, TypeOK
  <2> HIDE DEF v
  <2>7. Hold(e, v)
    BY <2>1 DEF v
  <2> QED BY <1>9, <2>3, <2>4, <2>5, <2>6, <2>7, BranchTypes DEF Score
<1>10. CASE LastGate(e)
  BY <1>10 DEF LastGate, Move, NoWrite, ghosts, TypeOK, Local, Run, Row
<1>11. CASE Commit(e) \/ CommitsNothing(e)
  BY <1>11, CommitTypes
<1>12. CASE RecordError(e)
  <2>1. lock' \in Employers \cup {Free}
    BY <1>12 DEF RecordError, TypeOK
  <2> QED BY <1>1, <1>2, <1>12, <2>1, BranchTypes DEF RecordError
<1>13. CASE RecordErrorTimesOut(e)
  <2>1. lock' \in Employers \cup {Free}
    BY <1>13 DEF RecordErrorTimesOut, TypeOK
  <2>2. CASE local[e].tries < Attempts
    <3> DEFINE v == [local[e] EXCEPT !.tries = @ + 1]
    <3>1. local[e].tries + 1 \in 1..Attempts
      BY <1>1, <2>2, BoundsAssumption
    <3>2. v \in Local(e) /\ v.results = local[e].results /\ v.got = local[e].got
      BY <1>1, <3>1 DEF Local
    <3> QED BY <1>1, <1>13, <2>1, <2>2, <3>2, BranchTypes DEF RecordErrorTimesOut
  <2>3. CASE ~(local[e].tries < Attempts)
    <3>1. run' \in Run
      BY <1>1, <1>13, <2>3 DEF RecordErrorTimesOut, Run
    <3> QED BY <1>2, <1>13, <2>1, <2>3, <3>1, BranchTypes DEF RecordErrorTimesOut
  <2> QED BY <2>2, <2>3
<1> QED BY <1>5, <1>6, <1>7, <1>8, <1>9, <1>10, <1>11, <1>12, <1>13 DEF Branch

LEMMA RunStepTypes ==
  ASSUME TypeOK, StartRun \/ FinalizeRun \/ AbortRun
  PROVE  TypeOK'
<1> USE DEF Stages, Waiting, Verdicts, NoWrite, ghosts, branch
<1>1. run \in Run /\ version \in Nat /\ MaxRuns \in Nat
  BY BoundsAssumption DEF TypeOK
<1>2. CASE StartRun
  <2>1. run' \in Run
    BY <1>1, <1>2 DEF StartRun, Run
  <2>2. at' \in [Employers -> Stages]
    BY <1>2 DEF StartRun
  <2>3. \A e \in Employers : Blank \in Local(e) /\ DOMAIN Blank.results \subseteq Blank.got
    BY BlankIs
  <2> QED BY <1>2, <2>1, <2>2, <2>3 DEF StartRun, TypeOK, Local, Row, Run
<1>3. ASSUME NEW status \in Verdicts, Finish(status) PROVE run' \in Run
  BY <1>1, <1>3 DEF Finish, Run
<1>4. CASE FinalizeRun
  <2>1. RunStatus \in Verdicts
    BY DEF RunStatus
  <2>2. run' \in Run
    BY <1>3, <1>4, <2>1 DEF FinalizeRun
  <2> QED BY <1>4, <2>2 DEF FinalizeRun, TypeOK, Local, Row, Run
<1>5. CASE AbortRun
  <2>1. run' \in Run
    BY <1>3, <1>5 DEF AbortRun
  <2> QED BY <1>5, <2>1 DEF AbortRun, TypeOK, Local, Row, Run
<1> QED BY <1>2, <1>4, <1>5

LEMMA WorldTypes ==
  ASSUME TypeOK, World
  PROVE  TypeOK'
<1> USE DEF Others, ghosts, branch, Verdicts
<1>1. /\ run \in Run /\ version \in Nat /\ MaxEvents \in Nat /\ events \in Nat
      /\ events < MaxEvents /\ events' = events + 1 /\ version' \in {version, version + 1}
  BY BoundsAssumption DEF TypeOK, World, AskStop, SweepEndsRow, SaveCriteria, Review, EditPage
<1>2. run' \in Run' /\ backend' = backend /\ lock' = lock /\ UNCHANGED ghosts
  <2>1. backend' = backend /\ lock' = lock /\ UNCHANGED ghosts
    BY DEF World, AskStop, SweepEndsRow, SaveCriteria, Review, EditPage
  <2>2. run' = run \/ AskStop \/ SweepEndsRow
    BY DEF World, SaveCriteria, Review, EditPage
  <2>3. run' \in Run
    BY <1>1, <2>2 DEF AskStop, SweepEndsRow, Run
  <2> QED BY <1>1, <2>1, <2>3 DEF Run
<1>3. edition' \in [Employers -> 1..events' + 1] /\ hash' \in [Employers -> 0..events' + 1]
  BY <1>1 DEF World, AskStop, SweepEndsRow, SaveCriteria, Review, EditPage, TypeOK
<1>4. DOMAIN jobs' \subseteq Listings /\ \A l \in DOMAIN jobs' : jobs'[l] \in Row
  BY DEF World, AskStop, SweepEndsRow, SaveCriteria, Review, EditPage, TypeOK, Row
<1>5. at' = at /\ local' = local
  BY DEF World, AskStop, SweepEndsRow, SaveCriteria, Review, EditPage
<1>6. \A e \in Employers : local[e] \in Local(e)'
  BY <1>1, <1>5 DEF TypeOK, Local
<1> QED BY <1>1, <1>2, <1>3, <1>4, <1>5, <1>6 DEF TypeOK

-----------------------------------------------------------------------------
(* What a step of one branch leaves alone.                                 *)

LEMMA BranchFrame ==
  ASSUME TypeOK, NEW e \in Employers, Branch(e)
  PROVE  /\ \A f \in Employers : f # e => at'[f] = at[f] /\ local'[f] = local[f]
         /\ UNCHANGED <<backend, version, edition, events>>
         /\ /\ run'.n = run.n /\ run'.row = run.row /\ run'.stamp = run.stamp
            /\ run'.over = run.over
         /\ Commit(e) \/ CommitsNothing(e) \/ UNCHANGED <<jobs, hash, ghosts>>
<1> USE DEF Branch, StopBranch, Fetch, FetchFails, Record, RecordTimesOut, Score, ScoreFails,
        LastGate, Commit, CommitsNothing, Ends, SaveHash, WriteFails, RecordError,
        RecordErrorTimesOut, Fail
<1>1. \E stage \in Stages : Move(e, stage)
  BY DEF Stages, Waiting
<1>2. local' = local \/ \E v : Hold(e, v)
  OBVIOUS
<1>3. \A f \in Employers : f # e => at'[f] = at[f] /\ local'[f] = local[f]
  BY <1>1, <1>2 DEF Move, Hold, TypeOK
<1>4. UNCHANGED <<backend, version, edition, events>>
  BY DEF NoWrite
<1>5. /\ run'.n = run.n /\ run'.row = run.row /\ run'.stamp = run.stamp
      /\ run'.over = run.over
  BY DEF TypeOK, Run
<1>6. Commit(e) \/ CommitsNothing(e) \/ UNCHANGED <<jobs, hash, ghosts>>
  BY DEF NoWrite, ghosts
<1> QED BY <1>3, <1>4, <1>5, <1>6

-----------------------------------------------------------------------------
(* The write lock.                                                         *)

LEMMA LockStep ==
  ASSUME TypeOK, TypeOK', WriterHasLock, OverIsIdle, Next
  PROVE  WriterHasLock'
<1> SUFFICES ASSUME backend' = "sqlite", NEW f \in Employers,
                    at'[f] \in {"recorded", "scored", "writing"}
             PROVE  /\ lock' = f /\ local'[f].used = version'
                    /\ at'[f] = "writing" => run'.row = "running"
  BY DEF WriterHasLock
<1> USE EmployersAssumption DEF WriterHasLock, Move, Hold, NoWrite, ghosts, branch, Waiting
<1>0. backend = "sqlite"
  BY DEF Next, StartRun, FinalizeRun, AbortRun, World, AskStop, SweepEndsRow, SaveCriteria,
    Review, EditPage, Others, Branch, StopBranch, Fetch, FetchFails, Record, RecordTimesOut,
    Score, ScoreFails, LastGate, Commit, CommitsNothing, Ends, SaveHash, WriteFails, RecordError,
    RecordErrorTimesOut, Fail
<1>1. CASE StartRun
  BY <1>1 DEF StartRun
<1>2. CASE FinalizeRun
  BY <1>2 DEF FinalizeRun
<1>3. CASE AbortRun
  <2>1. f \notin Active
    BY <1>3 DEF AbortRun
  <2> QED BY <1>3, <2>1 DEF AbortRun, Active
<1>4. CASE World
  BY <1>0, <1>4 DEF World, AskStop, SweepEndsRow, SaveCriteria, Review, EditPage, Others, Elsewhere,
    TypeOK, Run
<1>5. ASSUME NEW e \in Employers, Branch(e)
      PROVE  /\ lock' = f /\ local'[f].used = version'
             /\ at'[f] = "writing" => run'.row = "running"
  <2>1. run'.row = run.row /\ version' = version
    BY <1>5, BranchFrame
  <2>2. CASE f # e
    <3>1. at'[f] = at[f] /\ local'[f] = local[f]
      BY <1>5, <2>2, BranchFrame
    <3>3. lock = f
      BY <1>0, <3>1
    <3>2. lock' = lock
      BY <1>0, <1>5, <2>2, <3>3 DEF Branch, StopBranch, Fetch, FetchFails, Record, RecordTimesOut,
        Score, ScoreFails, LastGate, Commit, CommitsNothing, Ends, SaveHash, WriteFails, RecordError,
        RecordErrorTimesOut, Fail,
        Release, MayWrite
    <3> QED BY <1>0, <2>1, <3>1, <3>2, <3>3
  <2>3. CASE f = e
    <3>1. CASE Record(e)
      BY <1>0, <2>1, <2>3, <3>1 DEF Record, TypeOK, Local
    <3>2. CASE Score(e)
      BY <1>0, <2>1, <2>3, <3>2 DEF Score, TypeOK, Local
    <3>3. CASE LastGate(e)
      BY <1>0, <2>1, <2>3, <3>3 DEF LastGate, Gate, TypeOK
    <3>4. Record(e) \/ Score(e) \/ LastGate(e)
      BY <1>5, <2>3 DEF Branch, StopBranch, Fetch, FetchFails, RecordTimesOut, ScoreFails, Commit,
        CommitsNothing, Ends, SaveHash, WriteFails, RecordError, RecordErrorTimesOut, Fail, TypeOK
    <3> QED BY <3>1, <3>2, <3>3, <3>4
  <2> QED BY <2>2, <2>3
<1> QED BY <1>1, <1>2, <1>3, <1>4, <1>5 DEF Next

-----------------------------------------------------------------------------
(* A graph that is over.                                                   *)

LEMMA OverStep ==
  ASSUME TypeOK, TypeOK', OverIsIdle, Next
  PROVE  OverIsIdle'
<1> USE DEF OverIsIdle, Active, Waiting, branch, NoWrite, ghosts
<1>1. CASE StartRun
  BY <1>1 DEF StartRun, TypeOK, Run
<1>2. CASE FinalizeRun
  <2>1. run'.row = "success" => RunStatus = "success" \/ run.row = "success"
    BY <1>2 DEF FinalizeRun, Finish, TypeOK, Run
  <2>2. RunStatus = "success" => \A e \in Employers : at[e] = "done" /\ ~local[e].capped
    BY <1>2 DEF RunStatus, FinalizeRun
  <2> QED BY <1>2, <2>1, <2>2 DEF FinalizeRun, Finish, TypeOK, Run
<1>3. CASE AbortRun
  BY <1>3 DEF AbortRun, Finish, TypeOK, Run
<1>4. CASE World
  BY <1>4 DEF World, AskStop, SweepEndsRow, SaveCriteria, Review, EditPage, Others, TypeOK, Run
<1>5. ASSUME NEW e \in Employers, Branch(e) PROVE OverIsIdle'
  <2>1. run'.over = run.over /\ run'.row = run.row /\ run'.n = run.n
    BY <1>5, BranchFrame
  <2>2. at[e] \in Waiting => ~run.over
    BY <1>5 DEF Branch, StopBranch, Fetch, FetchFails, Record, RecordTimesOut, Score, ScoreFails,
      LastGate, Commit, CommitsNothing, Ends, SaveHash, WriteFails, RecordError,
      RecordErrorTimesOut, Begins
  <2> QED BY <2>1, <2>2
<1> QED BY <1>1, <1>2, <1>3, <1>4, <1>5 DEF Next

-----------------------------------------------------------------------------
(* The rows of jobs.                                                       *)

\* What the upsert and the stamp make of a posting of a branch that has not
\* committed in this run.
LEMMA WrittenRow ==
  ASSUME TypeOK, RowsOfRuns, OverIsIdle, NEW e \in Employers, at[e] = "writing",
         NEW l \in DOMAIN local[e].results
  PROVE  LET row == WriteListing(e, l)
         IN  /\ row \in Row /\ row.run = run.n
             /\ row.tier = "full" <=> row.scored = row.run
             /\ row.scored <= row.run /\ row.stamp <= run.stamp
             /\ row.scored = run.n => row.stamp = run.stamp
             /\ l \in DOMAIN jobs => row.status = jobs[l].status /\ row.stamp >= jobs[l].stamp
<1> DEFINE up == UpsertDiscovered(e, l)
           row == WriteListing(e, l)
<1>1. /\ local[e].results[l] \in Tiers /\ l \in Posts[e] /\ run.n \in Nat /\ run.stamp \in Nat
      /\ local[e] \in Local(e) /\ "full" \in Tiers
  BY ScoresAre, BoundsAssumption DEF TypeOK, Local, Run
<1>2. run.n # 0
  BY <1>1 DEF OverIsIdle, Active, Waiting
<1>3. l \in DOMAIN jobs => /\ jobs[l] \in Row /\ jobs[l].run < run.n
                          /\ jobs[l].scored <= jobs[l].run /\ jobs[l].stamp <= run.stamp
  BY <1>1 DEF RowsOfRuns, TypeOK
<1>4. /\ up \in Row /\ up.run = run.n /\ up.tier = local[e].results[l]
      /\ up.scored < run.n /\ up.stamp <= run.stamp
      /\ l \in DOMAIN jobs => up.status = jobs[l].status /\ up.stamp = jobs[l].stamp
  <2>1. CASE l \in DOMAIN jobs
    <3>1. up = [jobs[l] EXCEPT !.tier = local[e].results[l], !.run = run.n]
      BY <2>1 DEF UpsertDiscovered
    <3>2. up \in Row
      BY <1>1, <1>3, <2>1, <3>1 DEF Row
    <3>3. /\ up.run = run.n /\ up.tier = local[e].results[l] /\ up.scored = jobs[l].scored
          /\ up.stamp = jobs[l].stamp /\ up.status = jobs[l].status
      BY <1>1, <1>3, <2>1, <3>1 DEF Row
    <3>4. jobs[l].scored < run.n
      BY <1>1, <1>3, <2>1 DEF Row
    <3> QED BY <1>3, <2>1, <3>2, <3>3, <3>4
  <2>2. CASE l \notin DOMAIN jobs
    BY <1>1, <1>2, <2>2 DEF UpsertDiscovered, Row
  <2> QED BY <2>1, <2>2
<1> HIDE DEF up
<1>5. CASE local[e].results[l] = "full"
  <2>1. row = [up EXCEPT !.stamp = run.stamp, !.scored = run.n]
    BY <1>5 DEF WriteListing, MarkScored, up
  <2>2. row \in Row
    BY <1>1, <1>4, <2>1 DEF Row
  <2>3. /\ row.run = up.run /\ row.tier = "full" /\ row.status = up.status
        /\ row.scored = run.n /\ row.stamp = run.stamp
    BY <1>1, <1>4, <1>5, <2>1 DEF Row
  <2>4. l \in DOMAIN jobs => run.stamp >= jobs[l].stamp
    BY <1>1, <1>3 DEF Row
  <2>5. run.n <= run.n /\ run.stamp <= run.stamp
    BY <1>1
  <2> HIDE DEF row
  <2>6. /\ row \in Row /\ row.run = run.n
        /\ row.tier = "full" <=> row.scored = row.run
        /\ row.scored <= row.run /\ row.stamp <= run.stamp
        /\ row.scored = run.n => row.stamp = run.stamp
        /\ l \in DOMAIN jobs => row.status = jobs[l].status /\ row.stamp >= jobs[l].stamp
    BY <1>4, <2>2, <2>3, <2>4, <2>5
  <2> QED BY <2>6 DEF row
<1>6. CASE local[e].results[l] # "full"
  <2>1. row = up
    BY <1>6 DEF WriteListing, up
  <2>2. up.scored <= up.run /\ up.scored # up.run /\ up.scored # run.n
    BY <1>1, <1>4 DEF Row
  <2>3. l \in DOMAIN jobs => up.stamp >= jobs[l].stamp
    BY <1>3, <1>4 DEF Row
  <2> QED BY <1>4, <1>6, <2>1, <2>2, <2>3
<1> QED BY <1>5, <1>6

LEMMA CommitWrites ==
  ASSUME TypeOK, NEW e \in Employers, Commit(e)
  PROVE  \E written \in SUBSET DOMAIN local[e].results :
           jobs' = [l \in DOMAIN jobs \cup written |->
                      IF l \in written THEN WriteListing(e, l) ELSE jobs[l]]
BY DEF Commit

LEMMA RowsStep ==
  ASSUME TypeOK, TypeOK', RowsOfRuns, OverIsIdle, Next
  PROVE  RowsOfRuns'
<1> USE DEF NoWrite, ghosts, branch
<1>0. run \in Run /\ version \in Nat /\ \A l \in DOMAIN jobs : jobs[l] \in Row
  BY DEF TypeOK
<1>1. CASE StartRun
  <2>1. run'.n = run.n + 1 /\ run'.stamp = version /\ jobs' = jobs
    BY <1>1 DEF StartRun
  <2>2. run.n \in Nat /\ run.stamp \in Nat /\ run.stamp <= version
    BY <1>0 DEF Run
  <2> SUFFICES ASSUME NEW l \in DOMAIN jobs
               PROVE  /\ jobs[l].tier = "full" <=> jobs[l].scored = jobs[l].run
                      /\ jobs[l].scored <= jobs[l].run /\ jobs[l].run < run.n + 1
                      /\ jobs[l].stamp <= version
    BY <1>0, <2>1, <2>2 DEF RowsOfRuns, Row
  <2>3. jobs[l].run \in Nat /\ jobs[l].stamp \in Nat
    BY <1>0 DEF Row
  <2> QED BY <1>0, <2>2, <2>3 DEF RowsOfRuns
<1>2. CASE FinalizeRun \/ AbortRun
  <2>1. run'.n = run.n /\ run'.stamp = run.stamp /\ jobs' = jobs /\ at' = at
    BY <1>0, <1>2 DEF FinalizeRun, AbortRun, Finish, Run
  <2> QED BY <2>1 DEF RowsOfRuns
<1>3. CASE World
  <2>1. run'.n = run.n /\ run'.stamp = run.stamp /\ at' = at
    BY <1>0, <1>3 DEF World, AskStop, SweepEndsRow, SaveCriteria, Review, EditPage, Others, Run
  <2>2. /\ DOMAIN jobs' = DOMAIN jobs
        /\ \A l \in DOMAIN jobs : /\ jobs'[l].tier = jobs[l].tier /\ jobs'[l].run = jobs[l].run
                                  /\ jobs'[l].stamp = jobs[l].stamp
                                  /\ jobs'[l].scored = jobs[l].scored
    BY <1>0, <1>3 DEF World, AskStop, SweepEndsRow, SaveCriteria, Review, EditPage, Others, Row
  <2> SUFFICES ASSUME NEW l \in DOMAIN jobs
               PROVE  /\ jobs'[l].tier = "full" <=> jobs'[l].scored = jobs'[l].run
                      /\ jobs'[l].scored <= jobs'[l].run /\ jobs'[l].run <= run'.n
                      /\ jobs'[l].stamp <= run'.stamp
                      /\ \A e \in Employers : l \in Posts[e] /\ at'[e] # "done" => jobs'[l].run < run'.n
    BY <2>2 DEF RowsOfRuns
  <2> QED BY <2>1, <2>2 DEF RowsOfRuns
<1>4. ASSUME NEW e \in Employers, Branch(e), ~Commit(e) PROVE RowsOfRuns'
  <2>1. run'.n = run.n /\ run'.stamp = run.stamp /\ jobs' = jobs
    BY <1>4, BranchFrame DEF CommitsNothing
  <2>2. at[e] # "done"
    BY <1>4 DEF Branch, StopBranch, Fetch, FetchFails, Record, RecordTimesOut, Score, ScoreFails,
      LastGate, CommitsNothing, Ends, WriteFails, RecordError, RecordErrorTimesOut, Begins
  <2>3. \A f \in Employers : at'[f] # "done" => at[f] # "done"
    BY <1>4, <2>2, BranchFrame
  <2> QED BY <2>1, <2>3 DEF RowsOfRuns
<1>5. ASSUME NEW e \in Employers, Commit(e) PROVE RowsOfRuns'
  <2>1. at[e] = "writing" /\ at'[e] = "done" /\ run' = run
    BY <1>5 DEF Commit, Ends, Move, TypeOK
  <2>2. PICK written \in SUBSET DOMAIN local[e].results :
          jobs' = [l \in DOMAIN jobs \cup written |->
                     IF l \in written THEN WriteListing(e, l) ELSE jobs[l]]
    BY <1>5, CommitWrites
  <2>3. \A f \in Employers : at'[f] # "done" => f # e /\ at[f] # "done"
    <3>1. Branch(e)
      BY <1>5 DEF Branch
    <3> QED BY <2>1, <3>1, BranchFrame
  <2>4. written \subseteq Posts[e]
    BY DEF TypeOK, Local
  <2>5. ASSUME NEW l \in written
        PROVE  /\ jobs'[l].tier = "full" <=> jobs'[l].scored = jobs'[l].run
               /\ jobs'[l].scored <= jobs'[l].run /\ jobs'[l].run <= run.n
               /\ jobs'[l].stamp <= run.stamp
    <3>1. jobs'[l] = WriteListing(e, l) /\ run.n \in Nat
      BY <1>0, <2>2 DEF Run
    <3> QED BY <2>1, <3>1, WrittenRow
  <2>6. \A l \in written : \A f \in Employers : l \in Posts[f] => f = e
    BY <2>4, PostsAreListings
  <2> QED BY <2>1, <2>2, <2>3, <2>5, <2>6 DEF RowsOfRuns
<1> QED BY <1>1, <1>2, <1>3, <1>4, <1>5 DEF Next

-----------------------------------------------------------------------------
(* What a branch holds.                                                    *)

\* HeldByBranch of one employer.
Holds(e) ==
  /\ at[e] \in {"recorded", "scored", "writing"} => run.stamp <= local[e].used
  /\ at[e] \in {"scored", "writing"} =>
       local[e].capped = (DOMAIN local[e].results # local[e].got)
  /\ e \notin Crawled =>
       /\ local[e].save = 0
       /\ Fetched(e) /\ local[e].answered => local[e].got = Posts[e]
       /\ at[e] = "done" /\ local[e].answered /\ ~local[e].capped => held \cap Posts[e] = {}

LEMMA BlankFields ==
  ASSUME NEW t
  PROVE  /\ Blank.save = 0 /\ Blank.answered = FALSE
         /\ [Blank EXCEPT !.tries = t].save = 0 /\ [Blank EXCEPT !.tries = t].answered = FALSE
BY DEF Blank

LEMMA FetchHolds ==
  ASSUME TypeOK, NEW e \in Employers, Fetch(e)
  PROVE  Holds(e)'
<1> DEFINE fresh == [Blank EXCEPT !.tries = local[e].tries]
<1>1. at'[e] = "fetched"
  BY DEF Fetch, Move, TypeOK
<1>2. ASSUME e \notin Crawled
      PROVE  local'[e].save = 0 /\ (local'[e].answered => local'[e].got = Posts[e])
  <2>1. fresh.save = 0 /\ fresh.answered = FALSE /\ fresh \in Local(e)
    <3>1. local[e].tries \in 1..Attempts
      BY DEF TypeOK, Local
    <3> QED BY <3>1, BlankFields, BlankIs
  <2>2. \/ Hold(e, fresh)
        \/ Hold(e, [fresh EXCEPT !.answered = TRUE, !.got = Posts[e], !.save = 0])
    BY <1>2 DEF Fetch
  <2> HIDE DEF fresh
  <2>3. \/ local'[e] = fresh
        \/ local'[e] = [fresh EXCEPT !.answered = TRUE, !.got = Posts[e], !.save = 0]
    BY <2>2 DEF Hold, TypeOK
  <2> QED BY <2>1, <2>3 DEF Local
<1> QED BY <1>1, <1>2 DEF Holds

LEMMA ScoreHolds ==
  ASSUME TypeOK, NEW e \in Employers, Holds(e), Score(e)
  PROVE  Holds(e)'
<1>1. PICK batch \in SUBSET local[e].got : \E results \in [batch -> Tiers] :
        Hold(e, [local[e] EXCEPT !.results = results, !.capped = batch # local[e].got])
  BY DEF Score
<1>2. PICK results \in [batch -> Tiers] :
        Hold(e, [local[e] EXCEPT !.results = results, !.capped = batch # local[e].got])
  BY <1>1
<1>3. local[e] \in Local(e)
  BY DEF TypeOK
<1>4. /\ local'[e].results = results /\ local'[e].capped = (batch # local[e].got)
      /\ local'[e].got = local[e].got /\ local'[e].used = local[e].used
      /\ local'[e].save = local[e].save /\ local'[e].answered = local[e].answered
  BY <1>2, <1>3 DEF Hold, TypeOK, Local
<1>5. at[e] = "recorded" /\ at'[e] = "scored" /\ run'.stamp = run.stamp /\ held' = held
  BY DEF Score, Move, NoWrite, ghosts, TypeOK, Run
<1> QED BY <1>4, <1>5 DEF Holds, Fetched

LEMMA EndsHolds ==
  ASSUME TypeOK, NEW e \in Employers, Holds(e), at[e] = "writing", Ends(e)
  PROVE  Holds(e)'
<1> DEFINE v == [Blank EXCEPT !.capped = local[e].capped, !.answered = local[e].answered]
<1>1. local'[e] = v /\ at[e] = "writing" /\ at'[e] = "done"
  BY DEF Ends, Move, Hold, TypeOK
<1>2. v.capped = local[e].capped /\ v.answered = local[e].answered /\ v.save = 0
  BY DEF Blank
<1>3. held' = (held \ DOMAIN local[e].results) \cup (local[e].got \ DOMAIN local[e].results)
  BY DEF Ends
<1> QED BY <1>1, <1>2, <1>3 DEF Holds, Fetched

LEMMA HeldStep ==
  ASSUME TypeOK, TypeOK', HeldByBranch, Next
  PROVE  HeldByBranch'
<1> USE DEF NoWrite, ghosts, branch
<1>0. \A e \in Employers : Holds(e)
  BY DEF HeldByBranch, Holds
<1> SUFFICES ASSUME NEW f \in Employers PROVE Holds(f)'
  BY DEF HeldByBranch, Holds, Fetched
<1>1. CASE StartRun
  BY <1>1, BlankFields DEF StartRun, Holds, Fetched
<1>2. CASE FinalizeRun \/ AbortRun \/ World
  <2>1. run'.stamp = run.stamp /\ at' = at /\ local' = local /\ held' = held
    BY <1>2 DEF FinalizeRun, AbortRun, Finish, World, AskStop, SweepEndsRow, SaveCriteria,
      Review, EditPage, Others, TypeOK, Run
  <2> QED BY <1>0, <2>1 DEF Holds, Fetched
<1>3. ASSUME NEW e \in Employers, Branch(e) PROVE Holds(f)'
  <2>1. CASE f # e
    <3>1. at'[f] = at[f] /\ local'[f] = local[f] /\ run'.stamp = run.stamp
      BY <1>3, <2>1, BranchFrame
    <3>2. held' \cap Posts[f] \subseteq held
      <4>1. CASE Ends(e)
        <5>1. local[e].got \subseteq Posts[e]
          BY DEF TypeOK, Local
        <5> QED BY <2>1, <4>1, <5>1, PostsAreListings DEF Ends
      <4> QED BY <1>3, <4>1, BranchFrame DEF Commit, CommitsNothing
    <3> QED BY <1>0, <3>1, <3>2 DEF Holds, Fetched
  <2>2. CASE f = e
    <3>1. CASE Fetch(e)
      BY <2>2, <3>1, FetchHolds
    <3>2. CASE Score(e)
      BY <1>0, <2>2, <3>2, ScoreHolds
    <3>3. CASE Commit(e) \/ CommitsNothing(e)
      BY <1>0, <2>2, <3>3, EndsHolds DEF Commit, CommitsNothing
    <3>4. CASE Record(e)
      <4>1. /\ local'[e].used = version /\ local'[e].got = local[e].got
            /\ local'[e].save = local[e].save /\ local'[e].answered = local[e].answered
        BY <3>4 DEF Record, Hold, TypeOK, Local
      <4>2. at[e] = "fetched" /\ at'[e] = "recorded" /\ run'.stamp = run.stamp
        BY <3>4 DEF Record, Move, TypeOK
      <4>3. run.stamp <= version
        BY DEF TypeOK, Run
      <4> QED BY <1>0, <2>2, <4>1, <4>2, <4>3 DEF Holds, Fetched
    <3>5. CASE LastGate(e)
      <4>1. at[e] = "scored" /\ at'[e] = "writing" /\ local' = local /\ run' = run
        BY <3>5 DEF LastGate, Move, TypeOK
      <4> QED BY <1>0, <2>2, <4>1 DEF Holds, Fetched
    <3>6. CASE StopBranch(e) \/ RecordError(e) \/ RecordErrorTimesOut(e)
               \/ FetchFails(e) \/ RecordTimesOut(e) \/ ScoreFails(e) \/ WriteFails(e)
      <4>1. at'[e] \in {"gone", "errored", "again", "failing"}
        BY <3>6 DEF StopBranch, RecordError, RecordErrorTimesOut, FetchFails, RecordTimesOut,
          ScoreFails, WriteFails, Fail, Move, TypeOK
      <4>2. local'[e].save \in {0, local[e].save}
        <5>1. PICK v : /\ Hold(e, v)
                       /\ \/ v = Blank \/ v = [Blank EXCEPT !.tries = local[e].tries]
                          \/ v = [local[e] EXCEPT !.tries = @ + 1]
          BY <3>6 DEF StopBranch, RecordError, RecordErrorTimesOut, FetchFails,
            RecordTimesOut, ScoreFails, WriteFails, Fail
        <5>2. local'[e] = v /\ local[e] \in Local(e)
          BY <5>1 DEF Hold, TypeOK
        <5>3. v.save \in {0, local[e].save}
          BY <5>1, <5>2, BlankFields DEF Local
        <5> QED BY <5>2, <5>3
      <4> QED BY <1>0, <2>2, <4>1, <4>2 DEF Holds, Fetched
    <3> QED BY <1>3, <3>1, <3>2, <3>3, <3>4, <3>5, <3>6 DEF Branch
  <2> QED BY <2>1, <2>2
<1> QED BY <1>1, <1>2, <1>3 DEF Next

-----------------------------------------------------------------------------
(* The theorems.                                                           *)

\* What the steps of nodes.py preserve between them (PipelineInv) holds in
\* every state: TypeOK and WriterHasLock are what the next four rest on.
THEOREM PipelineInvariant == Spec => []PipelineInv
<1>1. Init => PipelineInv
  <2>1. Init => WriterHasLock /\ OverIsIdle
    BY DEF Init, WriterHasLock, OverIsIdle, Active, Waiting
  <2>2. Init => RowsOfRuns
    BY DEF Init, RowsOfRuns
  <2>3. Init => HeldByBranch
    BY BlankFields DEF Init, HeldByBranch, Fetched
  <2> QED BY <2>1, <2>2, <2>3, TypeInit DEF PipelineInv
<1>2. PipelineInv /\ [Next]_vars => PipelineInv'
  <2> SUFFICES ASSUME PipelineInv, [Next]_vars PROVE PipelineInv'
    OBVIOUS
  <2>1. CASE Next
    <3>1. TypeOK'
      BY <2>1, BranchStepTypes, RunStepTypes, WorldTypes DEF PipelineInv, Next
    <3> QED BY <2>1, <3>1, LockStep, OverStep, RowsStep, HeldStep DEF PipelineInv
  <2>2. CASE UNCHANGED vars
    <3> USE <2>2 DEF vars, branch, ghosts
    <3>1. TypeOK'
      BY DEF PipelineInv, TypeOK, Local, Run
    <3>2. WriterHasLock' /\ OverIsIdle'
      BY DEF PipelineInv, WriterHasLock, OverIsIdle, Active
    <3>3. RowsOfRuns'
      BY DEF PipelineInv, RowsOfRuns
    <3>4. HeldByBranch'
      BY DEF PipelineInv, HeldByBranch, Fetched
    <3> QED BY <3>1, <3>2, <3>3, <3>4 DEF PipelineInv
  <2> QED BY <2>1, <2>2
<1> QED BY <1>1, <1>2, PTL DEF Spec

\* On SQLite a branch commits its jobs only while its run's row is running,
\* although the gate was a transaction earlier: WriterHasLock.
THEOREM NothingWrittenAfterVerdict == Spec => NothingAfterVerdict
<1>1. PipelineInv => [\A e \in Employers : at[e] = "writing" /\ at'[e] = "done" /\ backend = "sqlite" =>
                        run.row = "running"]_vars
  BY DEF PipelineInv, WriterHasLock
<1> QED BY <1>1, PipelineInvariant, PTL DEF NothingAfterVerdict

\* The union of what is stored, held back and lost only grows, and a commit
\* that stores the hash of a page adds to it all that was read behind it.
LEMMA SkipStep ==
  ASSUME TypeOK, SkipKeepsRead, Next
  PROVE  SkipKeepsRead'
<1> USE DEF SkipKeepsRead
<1>1. CASE StartRun \/ FinalizeRun \/ AbortRun \/ World
  <2>1. hash' = hash /\ UNCHANGED ghosts /\ DOMAIN jobs' = DOMAIN jobs
    BY <1>1 DEF StartRun, FinalizeRun, AbortRun, World, AskStop, SweepEndsRow, SaveCriteria,
      Review, EditPage, Others, NoWrite
  <2> QED BY <2>1 DEF ghosts
<1>2. ASSUME NEW f \in Employers, Branch(f), ~Commit(f) PROVE SkipKeepsRead'
  <2>1. /\ UNCHANGED <<jobs, hash, crawled>>
        /\ held \cup missed \subseteq DOMAIN jobs \cup held' \cup missed'
    BY <1>2, BranchFrame DEF CommitsNothing, Ends, ghosts
  <2> QED BY <2>1
<1>3. ASSUME NEW f \in Employers, Commit(f) PROVE SkipKeepsRead'
  <2> DEFINE scored == DOMAIN local[f].results
  <2>1. PICK bad \in SUBSET scored :
          /\ DOMAIN jobs' = DOMAIN jobs \cup (scored \ bad)
          /\ missed' = (missed \ (scored \ bad)) \cup bad
    BY <1>3 DEF Commit
  <2>2. held' = (held \ scored) \cup (local[f].got \ scored)
    BY <1>3 DEF Commit, Ends
  <2>3. /\ \A e \in Employers : e # f => hash'[e] = hash[e] /\ crawled'[e] = crawled[e]
        /\ \/ hash'[f] = hash[f] /\ crawled'[f] = crawled[f]
           \/ crawled'[f] = local[f].got
    BY <1>3 DEF Commit, SaveHash, TypeOK
  <2> HIDE DEF scored
  <2>4. DOMAIN jobs \cup held \cup missed \subseteq DOMAIN jobs' \cup held' \cup missed'
    BY <2>1, <2>2
  <2>5. local[f].got \subseteq DOMAIN jobs' \cup held' \cup missed'
    BY <2>1, <2>2
  <2> QED BY <2>3, <2>4, <2>5, EmployersAssumption
<1> QED BY <1>1, <1>2, <1>3 DEF Next

\* The hash under which a page is skipped never hides a posting that the crawl
\* had read, unless the cap held it back or its own write went wrong: the hash
\* is stored with the jobs or not at all.
THEOREM SkipKeepsWhatWasRead == Spec => []SkipKeepsRead
<1>1. Init => SkipKeepsRead
  BY EmployersAssumption DEF Init, SkipKeepsRead
<1>2. PipelineInv /\ SkipKeepsRead /\ [Next]_vars => SkipKeepsRead'
  <2>1. UNCHANGED vars /\ SkipKeepsRead => SkipKeepsRead'
    BY DEF vars, ghosts, SkipKeepsRead
  <2> QED BY <2>1, SkipStep DEF PipelineInv
<1> QED BY <1>1, <1>2, PipelineInvariant, PTL DEF Spec

\* What the cap held back of an employer with an ATS is fetched again: after a
\* run that succeeded, none of what such an employer posts is held back.
THEOREM AtsHeldBackIsFetchedAgain == Spec => []HeldBackFetchedAgain
<1>1. PipelineInv => HeldBackFetchedAgain
  BY DEF PipelineInv, OverIsIdle, HeldByBranch, HeldBackFetchedAgain, PickedUp
<1> QED BY <1>1, PipelineInvariant, PTL

\* A listing that is discovered again keeps its status and its score.
THEOREM RowsAreKept == Spec => RowsKept
<1>1. PipelineInv /\ PipelineInv' /\ [Next]_vars =>
        [\A l \in DOMAIN jobs :
           /\ l \in DOMAIN jobs' /\ jobs'[l].stamp >= jobs[l].stamp
           /\ branch' # branch => jobs'[l].status = jobs[l].status
           /\ jobs'[l].tier = "full" <=> jobs'[l].scored = jobs'[l].run]_vars
  <2> SUFFICES ASSUME PipelineInv, PipelineInv', Next, NEW l \in DOMAIN jobs
               PROVE  /\ l \in DOMAIN jobs' /\ jobs'[l].stamp >= jobs[l].stamp
                      /\ branch' # branch => jobs'[l].status = jobs[l].status
                      /\ jobs'[l].tier = "full" <=> jobs'[l].scored = jobs'[l].run
    OBVIOUS
  <2>1. jobs[l] \in Row /\ jobs[l].stamp >= jobs[l].stamp
    BY DEF PipelineInv, TypeOK, Row
  <2>2. l \in DOMAIN jobs' => (jobs'[l].tier = "full" <=> jobs'[l].scored = jobs'[l].run)
    BY DEF PipelineInv, RowsOfRuns
  <2>3. CASE UNCHANGED jobs
    BY <2>1, <2>2, <2>3
  <2>4. CASE World
    <3>1. branch' = branch
      BY <2>4 DEF World, AskStop, SweepEndsRow, SaveCriteria, Review, EditPage, Others
    <3>2. l \in DOMAIN jobs' /\ jobs'[l].stamp = jobs[l].stamp
      BY <2>1, <2>4 DEF World, AskStop, SweepEndsRow, SaveCriteria, Review, EditPage, Row
    <3> QED BY <2>1, <2>2, <3>1, <3>2
  <2>5. ASSUME NEW e \in Employers, Commit(e)
        PROVE  l \in DOMAIN jobs' /\ jobs'[l].stamp >= jobs[l].stamp /\ jobs'[l].status = jobs[l].status
    <3>1. PICK written \in SUBSET DOMAIN local[e].results :
            jobs' = [k \in DOMAIN jobs \cup written |->
                       IF k \in written THEN WriteListing(e, k) ELSE jobs[k]]
      BY <2>5, CommitWrites DEF PipelineInv
    <3>2. CASE l \in written
      <4>1. at[e] = "writing" /\ jobs'[l] = WriteListing(e, l)
        BY <2>5, <3>1, <3>2 DEF Commit
      <4> QED BY <3>1, <3>2, <4>1, WrittenRow DEF PipelineInv
    <3> QED BY <2>1, <3>1, <3>2
  <2> QED BY <2>2, <2>3, <2>4, <2>5, BranchFrame
        DEF PipelineInv, Next, StartRun, FinalizeRun, AbortRun, NoWrite, CommitsNothing
<1> QED BY <1>1, PipelineInvariant, PTL DEF Spec, RowsKept

\* The version stamped on a score is never newer than the criteria it was
\* scored with, and on SQLite those are still active at the commit.
THEOREM StampIsNotAhead == Spec => StampNotAhead
<1>1. PipelineInv /\ [Next]_vars =>
        [\A e \in Employers : at[e] = "writing" /\ at'[e] = "done" =>
           \A l \in Posts[e] \cap DOMAIN jobs' :
             jobs'[l].scored = run.n => /\ jobs'[l].stamp <= local[e].used
                                        /\ backend = "sqlite" => local[e].used = version]_vars
  <2> SUFFICES ASSUME PipelineInv, Next, NEW e \in Employers, at[e] = "writing", at'[e] = "done",
                      NEW l \in Posts[e] \cap DOMAIN jobs', jobs'[l].scored = run.n
               PROVE  /\ jobs'[l].stamp <= local[e].used
                      /\ backend = "sqlite" => local[e].used = version
    OBVIOUS
  <2>1. Commit(e) \/ CommitsNothing(e)
    <3>1. ASSUME NEW f \in Employers, Branch(f) PROVE Commit(e) \/ CommitsNothing(e)
      <4>1. f = e
        BY <3>1, BranchFrame DEF PipelineInv
      <4> QED BY <3>1, <4>1 DEF Branch, StopBranch, Begins, Fetch, FetchFails, Record, RecordTimesOut,
                Score, ScoreFails, LastGate, WriteFails, RecordError, RecordErrorTimesOut, Fail, Move,
                PipelineInv, TypeOK
    <3> QED BY <3>1 DEF Next, StartRun, FinalizeRun, AbortRun, World, AskStop, SweepEndsRow,
              SaveCriteria, Review, EditPage, Others, branch
  <2>2. PICK written \in SUBSET DOMAIN local[e].results :
          \A k \in DOMAIN jobs' : IF k \in written THEN jobs'[k] = WriteListing(e, k)
                                  ELSE k \in DOMAIN jobs /\ jobs'[k] = jobs[k]
    <3>1. CASE Commit(e)
      <4>1. PICK written \in SUBSET DOMAIN local[e].results :
              jobs' = [k \in DOMAIN jobs \cup written |->
                         IF k \in written THEN WriteListing(e, k) ELSE jobs[k]]
        BY <3>1, CommitWrites DEF PipelineInv
      <4> WITNESS written \in SUBSET DOMAIN local[e].results
      <4> QED BY <4>1
    <3>2. CASE CommitsNothing(e)
      <4>1. jobs' = jobs
        BY <3>2 DEF CommitsNothing
      <4> WITNESS {} \in SUBSET DOMAIN local[e].results
      <4> QED BY <4>1
    <3> QED BY <2>1, <3>1, <3>2
  <2>3. l \in written
    <3>1. l \notin written => l \in DOMAIN jobs /\ jobs[l].scored = run.n
      BY <2>2
    <3>2. l \in DOMAIN jobs => /\ jobs[l].scored <= jobs[l].run /\ jobs[l].run < run.n
                              /\ jobs[l] \in Row /\ run.n \in Nat
      BY DEF PipelineInv, RowsOfRuns, TypeOK, Run
    <3> QED BY <3>1, <3>2 DEF Row
  <2>4. jobs'[l].stamp = run.stamp
    <3>1. jobs'[l] = WriteListing(e, l)
      BY <2>2, <2>3
    <3> QED BY <2>3, <3>1, WrittenRow DEF PipelineInv
  <2> QED BY <2>4 DEF PipelineInv, HeldByBranch, WriterHasLock
<1> QED BY <1>1, PipelineInvariant, PTL DEF Spec, StampNotAhead
=============================================================================
