--------------------------- MODULE SpendCapProofs ---------------------------
(***************************************************************************)
(* Proofs about SpendCap, for any number of employers, any concurrency,    *)
(* any cap and any cost of a call.                                         *)
(***************************************************************************)
EXTENDS SpendCap, SetLemmas

-----------------------------------------------------------------------------
(* Counting branches.                                                      *)

LEMMA BranchSetsFinite ==
  /\ IsFiniteSet(Active) /\ Cardinality(Active) \in Nat
  /\ IsFiniteSet(InFlight) /\ Cardinality(InFlight) \in Nat
BY EmployersAssumption, FS_Subset, FS_CardinalityType DEF Active, InFlight

\* A call that is in flight belongs to a branch that is active.
LEMMA InFlightIsActive ==
  ASSUME NEW e \in Active, e \notin InFlight
  PROVE  Cardinality(InFlight \cup {e}) <= Cardinality(Active)
<1>1. InFlight \cup {e} \subseteq Active
  BY DEF InFlight, Active
<1> QED BY <1>1, BranchSetsFinite, FS_Subset

\* Products of a count and the cost of a call.
LEMMA MoreCalls ==
  ASSUME NEW n \in Nat, NEW m \in Nat, n <= m
  PROVE  n * MaxCost <= m * MaxCost
<1>1. PICK d \in Nat : m = n + d
  <2>1. m - n \in Nat
    OBVIOUS
  <2> QED BY <2>1
<1>2. m * MaxCost = n * MaxCost + d * MaxCost
  BY <1>1, CostAssumption
<1>3. d * MaxCost \in Nat /\ n * MaxCost \in Nat
  BY CostAssumption
<1> QED BY <1>2, <1>3

LEMMA OneCallLess ==
  ASSUME NEW n \in Nat, n > 0
  PROVE  n * MaxCost = (n - 1) * MaxCost + MaxCost
BY CostAssumption

-----------------------------------------------------------------------------
(* Type correctness.                                                       *)

\* A branch counts its listings down only while it has one in hand.
LEMMA TypeInit == Init => TypeOK /\ ListingInHand
<1> SUFFICES ASSUME Init PROVE TypeOK /\ ListingInHand
  OBVIOUS
<1>1. 0 \in Costs /\ 1 \in 1..MaxAttempts
  BY CostAssumption, AttemptsAssumption DEF Costs
<1>2. missed \in BOOLEAN
  BY Zenon DEF Init
<1> QED BY <1>1, <1>2 DEF Init, TypeOK, ListingInHand, Places

LEMMA TypeStep ==
  ASSUME TypeOK, ListingInHand, NEW e \in Employers, Step(e)
  PROVE  TypeOK' /\ ListingInHand'
<1> USE CostAssumption
    DEF TypeOK, ListingInHand, Places, Costs, tracker, Append, Keep
<1>1. CASE Start(e) \/ Fetch(e) \/ EndBranch(e)
  BY <1>1 DEF Start, Fetch, EndBranch
<1>2. CASE FilterOnly(e)
  BY <1>2 DEF FilterOnly
<1>3. ASSUME NEW s \in {"triage", "score"}, Ask(e, s) \/ Trip(e, s)
      PROVE  TypeOK' /\ ListingInHand'
  <2>1. CASE Ask(e, s)
    BY <2>1 DEF Ask, Wants
  <2>2. CASE Trip(e, s)
    <3>1. TypeOK'
      BY <2>2 DEF Trip
    <3>2. ListingInHand'
      BY <2>2 DEF Trip
    <3> QED BY <3>1, <3>2
  <2> QED BY <1>3, <2>1, <2>2
<1>4. ASSUME NEW c \in Costs, Answer(e, c) PROVE TypeOK' /\ ListingInHand'
  BY <1>4 DEF Answer
<1>5. ASSUME NEW c \in Costs, Unusable(e, c) PROVE TypeOK' /\ ListingInHand'
  BY <1>5 DEF Unusable
<1>6. CASE Unreachable(e)
  BY <1>6 DEF Unreachable
<1>7. CASE RecordReads(e)
  BY <1>7 DEF RecordReads
<1>8. CASE RecordWrites(e)
  BY <1>8 DEF RecordWrites, Release
<1>9. CASE Retry(e)
  BY <1>9, AttemptsAssumption DEF Retry
<1> QED BY <1>1, <1>2, <1>3, <1>4, <1>5, <1>6, <1>7, <1>8, <1>9 DEF Step

\* Every variable keeps its type: no branch counts its listings below zero.
THEOREM SpendTypes == Spec => [](TypeOK /\ ListingInHand)
<1>1. TypeOK /\ ListingInHand /\ [Next]_vars => (TypeOK /\ ListingInHand)'
  <2> SUFFICES ASSUME TypeOK, ListingInHand, [Next]_vars
               PROVE  TypeOK' /\ ListingInHand'
    OBVIOUS
  <2>1. CASE UNCHANGED vars
    BY <2>1 DEF TypeOK, ListingInHand, vars, tracker, branch
  <2> QED BY <2>1, TypeStep DEF Next, Finished
<1> QED BY <1>1, TypeInit, PTL DEF Spec

-----------------------------------------------------------------------------
(* The lock.                                                               *)

LEMMA LockStep ==
  ASSUME TypeOK, RecordingIsLocked, NEW e \in Employers, Step(e)
  PROVE  RecordingIsLocked'
<1> USE EmployersAssumption DEF TypeOK, RecordingIsLocked, tracker, Append, Keep
<1>1. ASSUME UNCHANGED tracker, at[e] # "write", at'[e] # "write",
             \A d \in Employers \ {e} : at'[d] = at[d]
      PROVE  RecordingIsLocked'
  BY <1>1
<1>2. CASE Start(e) \/ Fetch(e) \/ EndBranch(e) \/ FilterOnly(e) \/ Unreachable(e)
           \/ Retry(e)
  BY <1>1, <1>2 DEF Start, Fetch, EndBranch, FilterOnly, Unreachable, Retry
<1>3. ASSUME NEW s \in {"triage", "score"}, Ask(e, s) \/ Trip(e, s)
      PROVE  RecordingIsLocked'
  BY <1>1, <1>3 DEF Ask, Trip, Wants
<1>4. ASSUME NEW c \in Costs, Answer(e, c) \/ Unusable(e, c) PROVE RecordingIsLocked'
  BY <1>1, <1>4 DEF Answer, Unusable
<1>5. CASE RecordReads(e)
  BY <1>5 DEF RecordReads, LockFree
<1>6. CASE RecordWrites(e)
  BY <1>6 DEF RecordWrites, Release
<1> QED BY <1>2, <1>3, <1>4, <1>5, <1>6 DEF Step

-----------------------------------------------------------------------------
(* The executor's limit.                                                   *)

LEMMA ConcurrencyStep ==
  ASSUME TypeOK, ConcurrencyKept, NEW e \in Employers, Step(e)
  PROVE  ConcurrencyKept'
<1> USE DEF TypeOK, Append, Keep
<1>1. CASE Start(e)
  <2>1. Active' = Active \cup {e}
    BY <1>1 DEF Start, Active
  <2>2. Cardinality(Active \cup {e}) = Cardinality(Active) + 1
    <3>1. IsFiniteSet(Active) /\ e \notin Active
      BY <1>1, BranchSetsFinite DEF Start, Active
    <3> QED BY <3>1, FS_AddElement
  <2>3. Cardinality(Active) + 1 <= Concurrency
    BY <1>1, BranchSetsFinite, ConcurrencyAssumption DEF Start
  <2> QED BY <2>1, <2>2, <2>3 DEF ConcurrencyKept
<1>2. ASSUME Active' \subseteq Active PROVE ConcurrencyKept'
  <2>1. Cardinality(Active') <= Cardinality(Active) /\ Cardinality(Active') \in Nat
    BY <1>2, BranchSetsFinite, FS_Subset, FS_CardinalityType
  <2> QED BY <2>1, BranchSetsFinite, ConcurrencyAssumption DEF ConcurrencyKept
<1>3. ASSUME at[e] # "queued", at[e] # "over" PROVE ConcurrencyKept'
  <2>1. Active' \subseteq Active
    <3>1. \A d \in Employers \ {e} : at'[d] = at[d]
      BY DEF Step, Start, Fetch, EndBranch, FilterOnly, Unreachable, Retry, Ask, Trip,
        Answer, Unusable, RecordReads, RecordWrites
    <3> QED BY <1>3, <3>1 DEF Active
  <2> QED BY <1>2, <2>1
<1>4. Start(e) \/ (at[e] # "queued" /\ at[e] # "over")
  BY DEF Step, Fetch, EndBranch, FilterOnly, Unreachable, Retry, Ask, Trip, Wants,
    Answer, Unusable, RecordReads, RecordWrites
<1> QED BY <1>1, <1>3, <1>4

-----------------------------------------------------------------------------
(* The cap.                                                                *)

LEMMA RoomStep ==
  ASSUME TypeOK, TypeOK', RecordingIsLocked, ConcurrencyKept, RoomForCalls,
         NEW e \in Employers, Step(e)
  PROVE  RoomForCalls'
<1> USE CapAssumption, CostAssumption, ConcurrencyAssumption, BranchSetsFinite
<1> DEFINE n == Cardinality(InFlight)
<1>1. ASSUME spent' = spent, InFlight' \subseteq InFlight PROVE RoomForCalls'
  <2>1. Cardinality(InFlight') <= n /\ Cardinality(InFlight') \in Nat
    BY <1>1, FS_Subset, FS_CardinalityType
  <2>2. Cardinality(InFlight') * MaxCost <= n * MaxCost
    BY <2>1, MoreCalls
  <2> QED BY <1>1, <2>1, <2>2 DEF RoomForCalls, TypeOK
<1>2. ASSUME NEW s \in {"triage", "score"}, Ask(e, s) PROVE RoomForCalls'
  <2> SUFFICES ASSUME Cap # NoCap PROVE RoomForCalls'
    BY DEF RoomForCalls
  <2>1. InFlight' = InFlight \cup {e} /\ e \notin InFlight /\ e \in Active
    BY <1>2 DEF Ask, Wants, InFlight, Active, TypeOK
  <2>2. spent' = spent /\ spent < Cap
    BY <1>2 DEF Ask, CapMet, tracker, TypeOK
  <2>3. Cardinality(InFlight') = n + 1
    BY <2>1, FS_AddElement
  <2>4. n + 1 <= Concurrency
    BY <2>1, <2>3, InFlightIsActive DEF ConcurrencyKept
  <2>5. (n + 1) * MaxCost <= Concurrency * MaxCost
    BY <2>4, MoreCalls
  <2> QED BY <2>2, <2>3, <2>5 DEF RoomForCalls, TypeOK
<1>3. CASE RecordWrites(e)
  <2> SUFFICES ASSUME Cap # NoCap PROVE RoomForCalls'
    BY DEF RoomForCalls
  <2>1. InFlight' = InFlight \ {e} /\ e \in InFlight
    BY <1>3 DEF RecordWrites, InFlight, TypeOK, Append, Keep
  <2>2. Cardinality(InFlight') = n - 1 /\ n > 0
    <3>1. IsFiniteSet(InFlight \ {e}) /\ Cardinality(InFlight \ {e}) = n - 1
      BY <2>1, FS_RemoveElement
    <3>2. Cardinality(InFlight \ {e}) \in Nat
      BY <3>1, FS_CardinalityType
    <3> QED BY <2>1, <3>1, <3>2
  <2>3. spent' = spent + bill[e] /\ bill[e] <= MaxCost
    BY <1>3, EmployersAssumption DEF RecordWrites, RecordingIsLocked, TypeOK, Costs
  <2>4. n * MaxCost = (n - 1) * MaxCost + MaxCost
    BY <2>2, OneCallLess
  <2>5. Cap # 0
    BY <2>1 DEF RoomForCalls
  <2> QED BY <2>2, <2>3, <2>4, <2>5 DEF RoomForCalls, TypeOK, Costs
<1>4. CASE RecordReads(e) \/ Start(e) \/ Fetch(e) \/ EndBranch(e) \/ FilterOnly(e)
           \/ Unreachable(e) \/ Retry(e)
  BY <1>1, <1>4 DEF RecordReads, Start, Fetch, EndBranch, FilterOnly, Unreachable, Retry,
    tracker, InFlight, TypeOK, Append, Keep
<1>5. ASSUME NEW s \in {"triage", "score"}, Trip(e, s) PROVE RoomForCalls'
  BY <1>1, <1>5 DEF Trip, Wants, tracker, InFlight, TypeOK
<1>6. ASSUME NEW c \in Costs, Answer(e, c) \/ Unusable(e, c) PROVE RoomForCalls'
  BY <1>1, <1>6 DEF Answer, Unusable, tracker, InFlight, TypeOK, Append, Keep
<1> QED BY <1>2, <1>3, <1>4, <1>5, <1>6 DEF Step

-----------------------------------------------------------------------------
(* A refusal, and the listing in hand.                                     *)

\* The total never shrinks, so a cap that is met stays met.
LEMMA SpentGrows ==
  ASSUME TypeOK, RecordingIsLocked, NEW e \in Employers, Step(e)
  PROVE  spent' >= spent /\ (CapMet => CapMet')
<1>1. spent' \in {spent, spent + bill[e]}
  BY EmployersAssumption DEF Step, Start, Fetch, EndBranch, FilterOnly, Unreachable, Retry, Ask, Trip, Answer,
    Unusable, RecordReads, RecordWrites, RecordingIsLocked, tracker, TypeOK
<1>2. spent \in Nat /\ bill[e] \in Nat
  BY CostAssumption DEF TypeOK, Costs
<1> QED BY <1>1, <1>2, CapAssumption DEF CapMet

LEMMA RefusedStep ==
  ASSUME TypeOK, RecordingIsLocked, RefusedMeansMet, NEW e \in Employers, Step(e)
  PROVE  RefusedMeansMet'
<1>1. \A d \in Employers : capped'[d] => capped[d] \/ CapMet
  BY DEF Step, Start, Fetch, EndBranch, FilterOnly, Unreachable, Retry, Ask, Trip, Answer,
    Unusable, RecordReads, RecordWrites, TypeOK
<1> QED BY <1>1, SpentGrows DEF RefusedMeansMet

LEMMA FreshStep ==
  ASSUME TypeOK, NextIsFresh, NEW e \in Employers, Step(e)
  PROVE  NextIsFresh'
<1> USE DEF TypeOK, NextIsFresh, Append, Keep
<1>1. CASE Start(e) \/ Fetch(e) \/ EndBranch(e) \/ FilterOnly(e) \/ Unreachable(e) \/ Retry(e)
  BY <1>1 DEF Start, Fetch, EndBranch, FilterOnly, Unreachable, Retry
<1>2. ASSUME NEW s \in {"triage", "score"}, Ask(e, s) \/ Trip(e, s) PROVE NextIsFresh'
  BY <1>2 DEF Ask, Trip
<1>3. ASSUME NEW c \in Costs, Answer(e, c) \/ Unusable(e, c) PROVE NextIsFresh'
  BY <1>3 DEF Answer, Unusable
<1>4. CASE RecordReads(e) \/ RecordWrites(e)
  BY <1>4 DEF RecordReads, RecordWrites
<1> QED BY <1>1, <1>2, <1>3, <1>4 DEF Step

\* In every reachable state the lock does its work and the cap leaves room for
\* every call that is in flight.
THEOREM SpendInvariant == Spec => []SpendInv
<1>1. Init => SpendInv
  <2> SUFFICES ASSUME Init PROVE SpendInv
    OBVIOUS
  <2>1. Active = {} /\ InFlight = {} /\ Cardinality({}) = 0
    BY FS_EmptySet DEF Init, Active, InFlight
  <2>2. RecordingIsLocked
    BY EmployersAssumption DEF Init, RecordingIsLocked
  <2>3. ConcurrencyKept
    BY <2>1, ConcurrencyAssumption DEF ConcurrencyKept
  <2>4. Concurrency * MaxCost \in Nat
    BY ConcurrencyAssumption, CostAssumption
  <2>5. RoomForCalls
    BY <2>1, <2>4, CapAssumption, CostAssumption DEF Init, RoomForCalls
  <2>6. RefusedMeansMet /\ NextIsFresh
    BY DEF Init, RefusedMeansMet, NextIsFresh
  <2> QED BY <2>2, <2>3, <2>5, <2>6, TypeInit DEF SpendInv
<1>2. TypeOK /\ TypeOK' /\ SpendInv /\ [Next]_vars => SpendInv'
  <2> SUFFICES ASSUME TypeOK, TypeOK', SpendInv, [Next]_vars PROVE SpendInv'
    OBVIOUS
  <2>1. CASE UNCHANGED vars
    BY <2>1 DEF SpendInv, ListingInHand, RecordingIsLocked, ConcurrencyKept,
      RoomForCalls, RefusedMeansMet, CapMet, NextIsFresh, Active, InFlight, vars, tracker, branch
  <2>2. ASSUME NEW e \in Employers, Step(e) PROVE SpendInv'
    BY <2>2, TypeStep, LockStep, ConcurrencyStep, RoomStep, RefusedStep, FreshStep DEF SpendInv
  <2> QED BY <2>1, <2>2 DEF Next, Finished
<1> QED BY <1>1, <1>2, SpendTypes, PTL DEF Spec

\* Whatever the number of employers, the recorded spend overshoots the cap by
\* less than one call for each branch the executor may run.
THEOREM OvershootIsBounded == Spec => []OvershootBounded
<1>1. TypeOK /\ SpendInv => OvershootBounded
  <2> SUFFICES ASSUME TypeOK, RoomForCalls, Cap # NoCap, Cap # 0
               PROVE  spent <= Cap - 1 + Concurrency * MaxCost
    BY CapAssumption DEF SpendInv, OvershootBounded, RoomForCalls, TypeOK
  <2>1. Cardinality(InFlight) * MaxCost \in Nat /\ Concurrency * MaxCost \in Nat
    BY BranchSetsFinite, CostAssumption, ConcurrencyAssumption
  <2> QED BY <2>1, CapAssumption DEF RoomForCalls, TypeOK
<1> QED BY <1>1, SpendTypes, SpendInvariant, PTL

\* Once a branch has been refused a call, no branch issues another.
THEOREM CapStaysTripped == Spec => CapIsSticky
<1>1. TypeOK /\ SpendInv /\ [Next]_vars =>
        [(\E e \in Employers : capped[e]) =>
           \A e \in Employers : at'[e] = "call" => at[e] = "call"]_vars
  <2> SUFFICES ASSUME TypeOK, SpendInv, Next, NEW d \in Employers, capped[d],
                      NEW e \in Employers, at'[e] = "call"
               PROVE  at[e] = "call"
    OBVIOUS
  <2>1. CapMet
    BY DEF SpendInv, RefusedMeansMet
  <2>2. ASSUME NEW f \in Employers, Step(f) PROVE at[e] = "call"
    BY <2>1, <2>2 DEF Step, Start, Fetch, EndBranch, FilterOnly, Unreachable, Retry, Ask, Trip,
      Answer, Unusable, RecordReads, RecordWrites, Append, Keep, TypeOK
  <2> QED BY <2>2 DEF Next, Finished, vars, branch
<1> QED BY <1>1, SpendTypes, SpendInvariant, PTL DEF Spec, CapIsSticky

-----------------------------------------------------------------------------
(* The ledger.                                                             *)

LEMMA SumIsIter ==
  ASSUME NEW f
  PROVE  Sum(f) = SumIter(f, Employers)[Employers]
BY DEF Sum, MapThenSumSet, MapThenFoldSet, SumIter, Pick

\* Costs of the branches may be summed, and the sum follows a change of one.
LEMMA SumStep ==
  ASSUME NEW f \in [Employers -> Nat], NEW g \in [Employers -> Nat], NEW e \in Employers,
         \A d \in Employers \ {e} : g[d] = f[d]
  PROVE  Sum(f) \in Int /\ Sum(g) = Sum(f) + (g[e] - f[e])
<1>1. f \in [Employers -> Int] /\ g \in [Employers -> Int]
  OBVIOUS
<1> QED BY <1>1, SumChange, SumIsIter, EmployersAssumption

\* A step of a branch moves usage from the listing in hand to the batch, or
\* adds to the two of them what it adds to the total.
LEMMA BranchLedger ==
  ASSUME TypeOK, TypeOK', ListingInHand, RecordingIsLocked, NextIsFresh,
         NEW e \in Employers, Step(e)
  PROVE  /\ \A d \in Employers \ {e} : counted'[d] = counted[d] /\ part'[d] = part[d]
         /\ spent' - spent = (counted'[e] - counted[e]) + (part'[e] - part[e])
<1> USE CostAssumption DEF TypeOK, tracker, Append, Keep
<1>0. spent \in Nat /\ counted[e] \in Nat /\ part[e] \in Nat /\ bill[e] \in Nat
  BY DEF Costs
<1>1. CASE UNCHANGED <<spent, counted, part>>
  BY <1>0, <1>1
<1>2. CASE FilterOnly(e)
  <2>1. part[e] = 0
    BY <1>2 DEF FilterOnly, NextIsFresh
  <2> QED BY <1>0, <1>2, <2>1 DEF FilterOnly
<1>3. ASSUME NEW c \in Costs, Unusable(e, c)
      PROVE  /\ \A d \in Employers \ {e} : counted'[d] = counted[d] /\ part'[d] = part[d]
             /\ spent' - spent = (counted'[e] - counted[e]) + (part'[e] - part[e])
  BY <1>0, <1>3 DEF Unusable
<1>4. CASE Unreachable(e)
  BY <1>0, <1>4 DEF Unreachable
<1>5. CASE Retry(e)
  BY <1>0, <1>5 DEF Retry
<1>6. CASE RecordWrites(e)
  <2>1. read = spent
    BY <1>6, EmployersAssumption DEF RecordWrites, RecordingIsLocked
  <2>2. spent' = spent + bill[e]
    BY <1>6, <2>1 DEF RecordWrites
  <2>3. CASE Append(e, part[e] + bill[e])
    BY <1>0, <2>2, <2>3
  <2>4. CASE Keep(e, part[e] + bill[e])
    BY <1>0, <2>2, <2>4
  <2> QED BY <1>6, <2>3, <2>4 DEF RecordWrites
<1> QED BY <1>1, <1>2, <1>3, <1>4, <1>5, <1>6 DEF Step, Start, Fetch, EndBranch, Ask, Trip, Answer,
      RecordReads

LEMMA LedgerNext == LedgerExact' <=> spent' = Sum(counted') + Sum(part')
<1>1. LedgerExact' <=> spent' = Sum(counted)' + Sum(part)'
  BY DEF LedgerExact
<1>2. Sum(counted)' = Sum(counted') /\ Sum(part)' = Sum(part')
  BY DEF Sum, MapThenSumSet, MapThenFoldSet
<1> QED BY <1>1, <1>2

\* No recording is lost or counted twice, by however many branches.
THEOREM LedgerIsExact == Spec => []LedgerExact
<1>1. Init => LedgerExact
  <2> SUFFICES ASSUME Init PROVE LedgerExact
    OBVIOUS
  <2>1. counted = [e \in Employers |-> 0] /\ part = [e \in Employers |-> 0]
    BY DEF Init
  <2>2. Sum([e \in Employers |-> 0]) = 0
    BY SumOfZeros, SumIsIter, EmployersAssumption
  <2> QED BY <2>1, <2>2 DEF Init, LedgerExact
<1>2. TypeOK /\ TypeOK' /\ SpendInv /\ LedgerExact /\ [Next]_vars => LedgerExact'
  <2> SUFFICES ASSUME TypeOK, TypeOK', SpendInv, LedgerExact, [Next]_vars PROVE LedgerExact'
    OBVIOUS
  <2>1. CASE UNCHANGED vars
    <3>1. spent' = Sum(counted') + Sum(part')
      BY <2>1 DEF LedgerExact, vars, tracker, branch
    <3> QED BY <3>1, LedgerNext
  <2>2. ASSUME NEW e \in Employers, Step(e) PROVE LedgerExact'
    <3>1. /\ \A d \in Employers \ {e} : counted'[d] = counted[d] /\ part'[d] = part[d]
          /\ spent' - spent = (counted'[e] - counted[e]) + (part'[e] - part[e])
      BY <2>2, BranchLedger DEF SpendInv
    <3>2. /\ counted \in [Employers -> Nat] /\ counted' \in [Employers -> Nat]
          /\ part \in [Employers -> Nat] /\ part' \in [Employers -> Nat]
          /\ spent \in Nat /\ spent' \in Nat
      BY DEF TypeOK
    <3>3. Sum(counted) \in Int /\ Sum(counted') = Sum(counted) + (counted'[e] - counted[e])
      BY <3>1, <3>2, SumStep
    <3>4. Sum(part) \in Int /\ Sum(part') = Sum(part) + (part'[e] - part[e])
      BY <3>1, <3>2, SumStep
    <3>5. spent' = Sum(counted') + Sum(part')
      BY <3>1, <3>2, <3>3, <3>4 DEF LedgerExact
    <3> QED BY <3>5, LedgerNext
  <2> QED BY <2>1, <2>2 DEF Next, Finished
<1> QED BY <1>1, <1>2, SpendTypes, SpendInvariant, PTL DEF Spec
=============================================================================
