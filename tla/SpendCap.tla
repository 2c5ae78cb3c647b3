------------------------------ MODULE SpendCap ------------------------------
(***************************************************************************)
(* The spend cap of one run: the SpendTracker that every employer branch   *)
(* of the graph shares, and the branches as far as they pay for model      *)
(* calls.  A branch checks the cap before a triage or a scoring call,      *)
(* issues the call, and records its usage when it returns; other branches  *)
(* check, call and record in between.                                      *)
(*                                                                         *)
(* Money is counted in units.  A call of a model without a price costs 0,  *)
(* and the token counters, which the same lock guards, are left out.       *)
(***************************************************************************)
EXTENDS Integers, FiniteSets, FiniteSetsExt

CONSTANTS Employers,    \* the enabled employers, one branch each
          Nobody,       \* the lock is free
          Concurrency,  \* max_employer_concurrency
          Cap,          \* run_spend_cap_usd; NoCap when it is not set
          NoCap,
          MaxCost,      \* the most one model call can cost
          MaxListings,  \* bound: listings an employer has after dedup
          MaxAttempts   \* the RetryPolicy's max_attempts of a branch

ASSUME EmployersAssumption == IsFiniteSet(Employers) /\ Nobody \notin Employers
ASSUME ConcurrencyAssumption == Concurrency \in Nat \ {0}
ASSUME CapAssumption == NoCap \notin Int /\ Cap \in Nat \cup {NoCap}
ASSUME CostAssumption == MaxCost \in Nat /\ MaxListings \in Nat
ASSUME AttemptsAssumption == MaxAttempts \in Nat \ {0}

VARIABLES
  spent,    \* SpendTracker._spent_usd
  lock,     \* who holds SpendTracker._lock to record
  read,     \* what that thread read of _spent_usd
  at,       \* where the branch is
  stage,    \* the model call it is at: triage or scoring
  todo,     \* the listings it has not appended to its batch
  bill,     \* the usage of the answer it is about to record
  part,     \* the usage of the listing in hand (score_listing's usage)
  counted,  \* the usage of the listings in its batch (_score_batch's sums),
            \* with what its earlier attempts had used
  capped,   \* EmployerResult.capped
  tries,    \* the attempts of the branch
  missed    \* the provider has charged for a call the tracker never sees

tracker == <<spent, lock, read>>
branch == <<at, stage, todo, bill, part, counted, capped, tries>>
vars == <<tracker, branch, missed>>

Costs == 0..MaxCost
Places == {"queued", "fetch", "gate", "kept", "call", "bill", "write", "over"}

TypeOK ==
  /\ spent \in Nat
  /\ lock \in Employers \cup {Nobody}
  /\ read \in Nat
  /\ at \in [Employers -> Places]
  /\ stage \in [Employers -> {"triage", "score"}]
  /\ todo \in [Employers -> 0..MaxListings]
  /\ bill \in [Employers -> Costs]
  /\ part \in [Employers -> Nat]
  /\ counted \in [Employers -> Nat]
  /\ capped \in [Employers -> BOOLEAN]
  /\ tries \in [Employers -> 1..MaxAttempts]
  /\ missed \in BOOLEAN

Init ==
  /\ spent = 0 /\ lock = Nobody /\ read = 0 /\ missed = FALSE
  /\ at = [e \in Employers |-> "queued"]
  /\ stage = [e \in Employers |-> "triage"]
  /\ todo \in [Employers -> 0..MaxListings]
  /\ bill = [e \in Employers |-> 0]
  /\ part = [e \in Employers |-> 0]
  /\ counted = [e \in Employers |-> 0]
  /\ capped = [e \in Employers |-> FALSE]
  /\ tries = [e \in Employers |-> 1]

-----------------------------------------------------------------------------
(* SpendTracker.                                                           *)

\* check and record both hold the lock while they look at the total.  (Here
\* and below, a form of a definition that stands before it is wrong on
\* purpose: substituted for it, it shows which property notices.)
LockUnneeded == TRUE
LockFree == lock = Nobody

\* check raises: the total has met the cap.
CapMetLate == Cap # NoCap /\ spent > Cap
CapMet == Cap # NoCap /\ spent >= Cap

\* self._spent_usd += cost: the read and the write, with the lock between
\* them and every other thread that checks or records.
RecordReads(e) ==
  /\ at[e] = "bill"
  /\ LockFree
  /\ lock' = e
  /\ read' = spent
  /\ at' = [at EXCEPT ![e] = "write"]
  /\ UNCHANGED <<spent, stage, todo, bill, part, counted, capped, tries, missed>>

HoldOn == lock' = lock
Release == lock' = Nobody

-----------------------------------------------------------------------------
(* A branch: process_employer, _score_batch and score_listing.             *)

Active == {e \in Employers : at[e] \notin {"queued", "over"}}
\* The branches whose next recording the cap has already let through.
InFlight == {e \in Employers : at[e] \in {"call", "bill", "write"}}

\* The executor runs at most Concurrency branches at a time.
Start(e) ==
  /\ at[e] = "queued"
  /\ Cardinality(Active) < Concurrency
  /\ at' = [at EXCEPT ![e] = "fetch"]
  /\ UNCHANGED <<tracker, stage, todo, bill, part, counted, capped, tries, missed>>

\* An ATS employer costs nothing to fetch.  The extraction calls of a crawled
\* one are charged without a check and are never recorded.
Fetch(e) ==
  /\ at[e] = "fetch"
  /\ at' = [at EXCEPT ![e] = "gate"]
  /\ \E c \in Costs : missed' = (missed \/ c > 0)
  /\ UNCHANGED <<tracker, stage, todo, bill, part, counted, capped, tries>>

\* The branch ends: no listing is left; a stop is pending between two
\* listings; or any step of it but a call failed.  (A stop, and a branch out
\* of attempts, abort the graph: its queued branches never start.  The model
\* lets them start, which only adds calls.)
EndBranch(e) ==
  /\ at[e] \in {"fetch", "gate"}
  /\ at' = [at EXCEPT ![e] = "over"]
  /\ UNCHANGED <<tracker, stage, todo, bill, part, counted, capped, tries, missed>>

\* The listing in hand joins the batch with the usage u.
Append(e, u) ==
  /\ at' = [at EXCEPT ![e] = "gate"]
  /\ stage' = [stage EXCEPT ![e] = "triage"]
  /\ todo' = [todo EXCEPT ![e] = @ - 1]
  /\ part' = [part EXCEPT ![e] = 0]
  /\ counted' = [counted EXCEPT ![e] = @ + u]

\* The listing in hand goes on to scoring with the usage u.
Keep(e, u) ==
  /\ at' = [at EXCEPT ![e] = "kept"]
  /\ part' = [part EXCEPT ![e] = u]
  /\ UNCHANGED <<stage, todo, counted>>

\* The deterministic filters drop the next listing, or --no-score is set.
FilterOnly(e) ==
  /\ at[e] = "gate"
  /\ todo[e] > 0
  /\ Append(e, 0)
  /\ UNCHANGED <<tracker, bill, capped, tries, missed>>

\* The cap is checked immediately before each of the two calls.
WantsPastTheEnd(e, s) == \/ at[e] = "gate" /\ s = "triage"
                         \/ at[e] = "kept" /\ s = "score"
Wants(e, s) == \/ at[e] = "gate" /\ todo[e] > 0 /\ s = "triage"
               \/ at[e] = "kept" /\ s = "score"

Ask(e, s) ==
  /\ Wants(e, s)
  /\ Cap = NoCap \/ LockFree
  /\ ~CapMet
  /\ at' = [at EXCEPT ![e] = "call"]
  /\ stage' = [stage EXCEPT ![e] = s]
  /\ UNCHANGED <<tracker, todo, bill, part, counted, capped, tries, missed>>

\* SpendCapReached: the listing in hand and those behind it are held back,
\* and what the batch has is written.
Trip(e, s) ==
  /\ Wants(e, s)
  /\ LockFree
  /\ CapMet
  /\ at' = [at EXCEPT ![e] = "gate"]
  /\ todo' = [todo EXCEPT ![e] = 0]
  /\ capped' = [capped EXCEPT ![e] = TRUE]
  /\ UNCHANGED <<tracker, stage, bill, part, counted, tries, missed>>

\* The model answers, and the answer fits its schema.
Answer(e, c) ==
  /\ at[e] = "call"
  /\ at' = [at EXCEPT ![e] = "bill"]
  /\ bill' = [bill EXCEPT ![e] = c]
  /\ UNCHANGED <<tracker, stage, todo, part, counted, capped, tries, missed>>

\* The model answers with something else: it is charged, but the exception
\* carries no usage, so there is nothing to record.  Triage keeps the
\* listing; scoring appends it with its error.
Unusable(e, c) ==
  /\ at[e] = "call"
  /\ missed' = (missed \/ c > 0)
  /\ \/ stage[e] = "triage" /\ Keep(e, part[e])
     \/ stage[e] = "score" /\ Append(e, part[e])
  /\ UNCHANGED <<tracker, bill, capped, tries>>

\* The provider cannot be reached: triage keeps the listing, but any other
\* exception of the scoring call fails the employer and loses its batch.
Unreachable(e) ==
  /\ at[e] = "call"
  /\ \/ stage[e] = "triage" /\ Keep(e, part[e])
     \/ /\ stage[e] = "score"
        /\ at' = [at EXCEPT ![e] = "over"]
        /\ UNCHANGED <<stage, todo, part, counted>>
  /\ UNCHANGED <<tracker, bill, capped, tries, missed>>

\* The branch fails, and so does recording its error (_record_run_error has a
\* session of its own and no handler): the exception escapes the node, and the
\* graph's RetryPolicy runs the branch again from its start.
Retry(e) ==
  /\ at[e] \in {"fetch", "gate"} \/ (at[e] = "call" /\ stage[e] = "score")
  /\ tries[e] < MaxAttempts
  /\ tries' = [tries EXCEPT ![e] = @ + 1]
  /\ at' = [at EXCEPT ![e] = "fetch"]
  /\ stage' = [stage EXCEPT ![e] = "triage"]
  /\ \E n \in 0..MaxListings : todo' = [todo EXCEPT ![e] = n]
  /\ part' = [part EXCEPT ![e] = 0]
  /\ counted' = [counted EXCEPT ![e] = @ + part[e]]
  /\ capped' = [capped EXCEPT ![e] = FALSE]
  /\ UNCHANGED <<tracker, bill, missed>>

\* The usage is recorded; then triage drops or keeps the listing, and a
\* scored listing joins the batch.
RecordWrites(e) ==
  /\ at[e] = "write"
  /\ spent' = read + bill[e]
  /\ read' = 0
  /\ bill' = [bill EXCEPT ![e] = 0]
  /\ Release
  /\ \/ Append(e, part[e] + bill[e])
     \/ stage[e] = "triage" /\ Keep(e, part[e] + bill[e])
  /\ UNCHANGED <<capped, tries, missed>>

Step(e) ==
  \/ Start(e) \/ Fetch(e) \/ EndBranch(e) \/ FilterOnly(e)
  \/ \E s \in {"triage", "score"} : Ask(e, s) \/ Trip(e, s)
  \/ \E c \in Costs : Answer(e, c) \/ Unusable(e, c)
  \/ Unreachable(e) \/ Retry(e) \/ RecordReads(e) \/ RecordWrites(e)

\* The graph joins when every branch is over.
Finished == /\ \A e \in Employers : at[e] = "over"
            /\ UNCHANGED vars

Next == (\E e \in Employers : Step(e)) \/ Finished

Spec == Init /\ [][Next]_vars

-----------------------------------------------------------------------------
(* Properties.                                                             *)

Sum(f) == MapThenSumSet(LAMBDA e : f[e], Employers)

\* The recorded spend stays below the cap plus one call for each branch that
\* may run: every call that is in flight when the cap trips was let through
\* by a check, and there is at most one to a branch.
OvershootBounded ==
  Cap # NoCap => spent <= (IF Cap = 0 THEN 0 ELSE Cap - 1 + Concurrency * MaxCost)

\* Behind it: a branch that works on a listing has one; the lock is held by
\* the one branch that is recording, and what that branch has read is still
\* the total; the executor keeps to its limit; the cap leaves room for every
\* call that is in flight; a branch that has been refused a call was refused
\* it because the cap is met; the usage of a listing in hand is in the batch,
\* or lost with its attempt, before the next one is taken.
ListingInHand ==
  \A e \in Employers : at[e] \in {"kept", "call", "bill", "write"} => todo[e] > 0

RecordingIsLocked ==
  /\ \A e \in Employers : at[e] = "write" <=> lock = e
  /\ lock # Nobody => read = spent

ConcurrencyKept == Cardinality(Active) <= Concurrency

RoomForCalls ==
  Cap # NoCap =>
    IF Cap = 0 THEN spent = 0 /\ InFlight = {}
    ELSE spent + Cardinality(InFlight) * MaxCost <= Cap - 1 + Concurrency * MaxCost

RefusedMeansMet == \A e \in Employers : capped[e] => CapMet

NextIsFresh ==
  \A e \in Employers :
    at[e] \in {"queued", "fetch"} \/ (at[e] = "gate" /\ todo[e] > 0) => part[e] = 0

SpendInv == /\ ListingInHand /\ RecordingIsLocked /\ ConcurrencyKept /\ RoomForCalls
            /\ RefusedMeansMet /\ NextIsFresh

\* No recording is lost or counted twice: the run's total is what the batches
\* of the branches add up to, with the usage of listings that are in hand or
\* were held back.  finalize_run relies on it when it prefers the tracker to
\* the sums of the results.
LedgerExact == spent = Sum(counted) + Sum(part)

\* The cap stays tripped: once one branch has been refused a call, no branch
\* issues another, although each of them checks for itself.
CapIsSticky ==
  [][(\E e \in Employers : capped[e]) =>
       \A e \in Employers : at'[e] = "call" => at[e] = "call"]_vars

\* spend_cap.py: "Overshoot by at most one in-flight call is possible", stated
\* for the recorded spend.
OneCallOvershoot == Cap # NoCap /\ Cap > 0 => spent <= Cap - 1 + MaxCost

\* spend_cap.py: the cap is "enforced before each model call", and finalize_run
\* takes the tracker to record "each call's usage the instant that call
\* returns": nothing is charged that the tracker never sees.
EveryCallRecorded == ~missed

\* Nothing waits for ever: no branch is left behind the lock or behind the
\* concurrency limit, so the graph joins.
Fairness == \A e \in Employers : WF_vars(Step(e))
FairSpec == Spec /\ Fairness

AllBranchesEnd == <>(\A e \in Employers : at[e] = "over")
=============================================================================
