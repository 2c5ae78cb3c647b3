------------------------- MODULE CriteriaLoopProofs -------------------------
(***************************************************************************)
(* Proofs about CriteriaLoop, for any sessions and overlapping passes, any *)
(* listings and histories to start from, and any thresholds and edits.     *)
(***************************************************************************)
EXTENDS CriteriaLoop, SetLemmas

-----------------------------------------------------------------------------
(* What detection returns: at most one candidate for each field.           *)

Distinct(D, fields, J) ==
  /\ IsFiniteSet(D) /\ \A x \in D : IsCandidate(x, J) /\ x.field \in fields
  /\ \A x, y \in D : x.field = y.field => x = y

LEMMA NoneOrOne ==
  ASSUME NEW field \in PERMITTED_EDIT_FIELDS, NEW direction \in {"tighten", "increase"},
         NEW c, NEW value, NEW J, NEW seen \in SUBSET J, NEW D,
         D = {} \/ D = {Candidate(field, direction, c, value, seen)}
  PROVE  Distinct(D, {field}, J)
<1> DEFINE x == Candidate(field, direction, c, value, seen)
<1>1. IsCandidate(x, J) /\ x.field = field
  BY DEF Candidate, IsCandidate
<1>2. IsFiniteSet({}) /\ IsFiniteSet({x})
  BY FS_EmptySet, FS_Singleton
<1> HIDE DEF x
<1> QED BY <1>1, <1>2 DEF Distinct, x

LEMMA Joined ==
  ASSUME NEW A, NEW B, NEW F, NEW G, NEW J,
         Distinct(A, F, J), Distinct(B, G, J), F \cap G = {}
  PROVE  Distinct(A \cup B, F \cup G, J)
<1>1. IsFiniteSet(A \cup B)
  BY FS_Union DEF Distinct
<1> QED BY <1>1 DEF Distinct

LEMMA TrackAIs ==
  ASSUME NEW J, NEW fast \in SUBSET J, NEW l, NEW c
  PROVE  Distinct(TrackA(fast, l, c), {"dimension_weights"}, J)
<1> DEFINE suspect == [j \in fast |-> AttributeDimension(l[j].dims)]
           attributable == {j \in fast : suspect[j] # Unset}
           Share(d) == Cardinality({j \in attributable : suspect[j] = d})
           modal == CHOOSE d \in DOMAIN c.dimension_weights :
                      \A e \in DOMAIN c.dimension_weights : Share(e) <= Share(d)
           more == [c.dimension_weights EXCEPT ![modal] = @ + 1]
           seen == {j \in attributable : suspect[j] = modal}
<1>1. seen \in SUBSET J
  OBVIOUS
<1>2. \/ TrackA(fast, l, c) = {}
      \/ TrackA(fast, l, c) = {Candidate("dimension_weights", "increase", c, more, seen)}
  BY DEF TrackA
<1> HIDE DEF seen, more
<1> QED BY <1>1, <1>2, NoneOrOne DEF PERMITTED_EDIT_FIELDS

LEMMA CeilingIs ==
  ASSUME NEW J, NEW seen \in SUBSET J, NEW c
  PROVE  Distinct(LowerCeiling(seen, c), {"seniority_max"}, J)
<1>1. \/ LowerCeiling(seen, c) = {}
      \/ LowerCeiling(seen, c) = {Candidate("seniority_max", "tighten", c, c.seniority_max - 1, seen)}
  BY DEF LowerCeiling
<1> QED BY <1>1, NoneOrOne DEF PERMITTED_EDIT_FIELDS

LEMMA BottomIs ==
  ASSUME NEW J, NEW seen \in SUBSET J, NEW c
  PROVE  Distinct(RaiseBottom(seen, c), {"seniority_min"}, J)
<1>1. \/ RaiseBottom(seen, c) = {}
      \/ RaiseBottom(seen, c) = {Candidate("seniority_min", "tighten", c, c.seniority_min + 1, seen)}
  BY DEF RaiseBottom
<1> QED BY <1>1, NoneOrOne DEF PERMITTED_EDIT_FIELDS

LEMMA FloorIs ==
  ASSUME NEW J, NEW seen \in SUBSET J, NEW l, NEW c
  PROVE  Distinct(RaiseFloor(seen, l, c), {"compensation_floor"}, J)
<1> DEFINE floor == c.compensation_floor
           priced == {j \in seen : l[j].comp.min # Unset}
           comparable == IF \A j \in priced : l[j].comp.unit = floor.unit THEN priced ELSE {}
           amount == Median(comparable, [j \in comparable |-> l[j].comp.min])
           value == [amount |-> amount, unit |-> floor.unit]
<1>1. \/ RaiseFloor(seen, l, c) = {}
      \/ RaiseFloor(seen, l, c) = {Candidate("compensation_floor", "tighten", c, value, seen)}
  BY DEF RaiseFloor
<1> HIDE DEF value
<1> QED BY <1>1, NoneOrOne DEF PERMITTED_EDIT_FIELDS

LEMMA AgeIs ==
  ASSUME NEW J, NEW seen \in SUBSET J, NEW c
  PROVE  Distinct(ShortenAge(seen, c), {"posting_age_days"}, J)
<1> DEFINE days == Max({AgeFloor, (c.posting_age_days * 2) \div 3})
<1>1. \/ ShortenAge(seen, c) = {}
      \/ ShortenAge(seen, c) = {Candidate("posting_age_days", "tighten", c, days, seen)}
  BY DEF ShortenAge
<1> HIDE DEF days
<1> QED BY <1>1, NoneOrOne DEF PERMITTED_EDIT_FIELDS

LEMMA TrackBIs ==
  ASSUME NEW J, NEW fast \in SUBSET J, NEW l, NEW marks, NEW c
  PROVE  Distinct(TrackB(fast, l, marks, c),
                  {"seniority_max", "seniority_min", "compensation_floor", "posting_age_days"}, J)
<1> DEFINE Flagged(f) == {j \in fast : f \in marks[j]}
           A == LowerCeiling(Flagged("stretch_role"), c)
           B == RaiseBottom(Flagged("step_down"), c)
           C == RaiseFloor(Flagged("comp_below_floor"), l, c)
           D == ShortenAge(Flagged("posting_stale"), c)
<1>1. \A f : Flagged(f) \in SUBSET J
  OBVIOUS
<1>2. TrackB(fast, l, marks, c) = A \cup B \cup C \cup D
  BY DEF TrackB
<1> HIDE DEF Flagged
<1>3. /\ Distinct(A, {"seniority_max"}, J) /\ Distinct(B, {"seniority_min"}, J)
      /\ Distinct(C, {"compensation_floor"}, J) /\ Distinct(D, {"posting_age_days"}, J)
  BY <1>1, CeilingIs, BottomIs, FloorIs, AgeIs
<1> HIDE DEF A, B, C, D
<1>4. Distinct(A \cup B, {"seniority_max"} \cup {"seniority_min"}, J)
  BY <1>3, Joined
<1>5. Distinct(A \cup B \cup C,
               {"seniority_max"} \cup {"seniority_min"} \cup {"compensation_floor"}, J)
  BY <1>3, <1>4, Joined
<1>6. Distinct(A \cup B \cup C \cup D,
        {"seniority_max"} \cup {"seniority_min"} \cup {"compensation_floor"} \cup {"posting_age_days"}, J)
  BY <1>3, <1>5, Joined
<1> QED BY <1>2, <1>6

LEMMA TrackCIs ==
  ASSUME NEW J, NEW fast \in SUBSET J, NEW progressed, NEW l, NEW c
  PROVE  Distinct(TrackC(fast, progressed, l, c),
                  {"exclusions.title_keywords", "exclusions.employers"}, J)
<1> DEFINE Words(S) == UNION {l[j].words : j \in S}
           Titles(w) == {l[j].title : j \in {k \in fast : w \in l[k].words}}
           Of(e) == {j \in fast : l[j].company = e}
           Naming(w) == {j \in fast : w \in l[j].words}
           words == {w \in Words(fast) \ (Words(progressed) \cup c.exclusions.title_keywords) :
                       Cardinality(Titles(w)) >= MinObservations["exclusions.title_keywords"]}
           employers == {e \in {l[j].company : j \in fast}
                              \ ({l[j].company : j \in progressed} \cup c.exclusions.employers) :
                           Cardinality(Of(e)) >= MinObservations["exclusions.employers"]}
           word == CHOOSE t \in words : \A u \in words : Cardinality(Titles(u)) <= Cardinality(Titles(t))
           employer == CHOOSE t \in employers : \A u \in employers : Cardinality(Of(u)) <= Cardinality(Of(t))
           W == IF words = {} THEN {}
                ELSE {Candidate("exclusions.title_keywords", "tighten", c,
                                ResolveField(c, "exclusions.title_keywords") \cup {word}, Naming(word))}
           E == IF employers = {} THEN {}
                ELSE {Candidate("exclusions.employers", "tighten", c,
                                ResolveField(c, "exclusions.employers") \cup {employer}, Of(employer))}
<1>1. TrackC(fast, progressed, l, c) = W \cup E
  BY Zenon DEF TrackC, Exclude
<1>2. Naming(word) \in SUBSET J /\ Of(employer) \in SUBSET J
  OBVIOUS
<1> HIDE DEF words, employers, word, employer, Naming, Of
<1>3. Distinct(W, {"exclusions.title_keywords"}, J)
  BY <1>2, NoneOrOne DEF PERMITTED_EDIT_FIELDS
<1>4. Distinct(E, {"exclusions.employers"}, J)
  BY <1>2, NoneOrOne DEF PERMITTED_EDIT_FIELDS
<1> HIDE DEF W, E
<1>5. Distinct(W \cup E, {"exclusions.title_keywords"} \cup {"exclusions.employers"}, J)
  BY <1>3, <1>4, Joined
<1> QED BY <1>1, <1>5

\* One candidate at most for each field, whatever the listings and their
\* signals are.
LEMMA DetectIs ==
  ASSUME NEW J, NEW signal, DOMAIN signal \in SUBSET J, NEW l, NEW marks, NEW c
  PROVE  Distinct(DetectCandidates(signal, l, marks, c), PERMITTED_EDIT_FIELDS, J)
<1> DEFINE fast == {j \in DOMAIN signal : signal[j] = "fast_reject"}
           progressed == {j \in DOMAIN signal : signal[j] = "progressed"}
           A == TrackA(fast, l, c)
           B == TrackB(fast, l, marks, c)
           C == TrackC(fast, progressed, l, c)
           F == {"seniority_max", "seniority_min", "compensation_floor", "posting_age_days"}
           G == {"exclusions.title_keywords", "exclusions.employers"}
<1>1. fast \in SUBSET J /\ DetectCandidates(signal, l, marks, c) = A \cup B \cup C
  BY DEF DetectCandidates
<1> HIDE DEF fast, progressed
<1>2. Distinct(A, {"dimension_weights"}, J) /\ Distinct(B, F, J) /\ Distinct(C, G, J)
  BY <1>1, TrackAIs, TrackBIs, TrackCIs
<1> HIDE DEF A, B, C
<1>3. Distinct(A \cup B, {"dimension_weights"} \cup F, J)
  BY <1>2, Joined
<1>4. Distinct(A \cup B \cup C, {"dimension_weights"} \cup F \cup G, J)
  BY <1>2, <1>3, Joined
<1>5. {"dimension_weights"} \cup F \cup G \in SUBSET PERMITTED_EDIT_FIELDS
  BY DEF PERMITTED_EDIT_FIELDS
<1> HIDE DEF F, G
<1> QED BY <1>1, <1>4, <1>5 DEF Distinct

-----------------------------------------------------------------------------
(* What detection makes of the criteria.                                   *)

\* The values, and what is below one of them or not above it.
Values(S, f) == {f[x] : x \in S}
Below(S, f, v) == {x \in S : f[x] < v}
UpTo(S, f, v) == {x \in S : f[x] <= v}
OfRank(S, f, k, v) == Cardinality(Below(S, f, v)) < k /\ Cardinality(UpTo(S, f, v)) >= k

\* Of a finite set of values there is one of each rank.
LEMMA RankExists ==
  ASSUME NEW S, IsFiniteSet(S), NEW f \in [S -> Int], NEW k \in Nat \ {0}, k <= Cardinality(S)
  PROVE  \E v \in Values(S, f) : OfRank(S, f, k, v)
<1> DEFINE V == {f[x] : x \in S}
           Low(v) == {x \in S : f[x] < v}
           Up(v) == {x \in S : f[x] <= v}
           T == {v \in V : Cardinality(Up(v)) >= k}
<1>1. IsFiniteSet(V) /\ V \in SUBSET Int /\ V # {}
  <2>1. f \in Surjection(S, V)
    BY DEF Surjection
  <2>2. S # {}
    BY FS_EmptySet
  <2>3. IsFiniteSet(V)
    <3> HIDE DEF V
    <3> QED BY <2>1, FS_Surjection
  <2> QED BY <2>2, <2>3
<1>2. \A v : /\ IsFiniteSet(Low(v)) /\ Cardinality(Low(v)) \in Nat
             /\ IsFiniteSet(Up(v)) /\ Cardinality(Up(v)) \in Nat
  <2>1. \A v : Low(v) \subseteq S /\ Up(v) \subseteq S
    OBVIOUS
  <2> HIDE DEF Low, Up
  <2> QED BY <2>1, FS_Subset, FS_CardinalityType
<1>3. T # {}
  <2>1. PICK g \in V : \A v \in V : v <= g
    <3> HIDE DEF V
    <3> QED BY <1>1, IntExtremes
  <2>2. Up(g) = S
    BY <2>1
  <2>3. Cardinality(S) \in Nat
    BY FS_CardinalityType
  <2> HIDE DEF Up, V
  <2> QED BY <2>1, <2>2, <2>3
<1>4. IsFiniteSet(T) /\ T \in SUBSET Int
  <2> HIDE DEF V
  <2> QED BY <1>1, FS_Subset
<1>5. PICK v \in T : \A u \in T : v <= u
  <2> HIDE DEF T
  <2> QED BY <1>3, <1>4, IntExtremes
<1>6. ASSUME Cardinality(Low(v)) >= k PROVE FALSE
  <2> DEFINE W == {f[x] : x \in Low(v)}
  <2>1. Low(v) # {}
    <3> HIDE DEF Low
    <3> QED BY <1>6, FS_EmptySet
  <2>2. W \in SUBSET V /\ W # {}
    BY <2>1
  <2>3. PICK u \in W : \A w \in W : w <= u
    <3>1. IsFiniteSet(W) /\ W \in SUBSET Int
      <4> HIDE DEF V, W
      <4> QED BY <1>1, <2>2, FS_Subset
    <3> HIDE DEF W
    <3> QED BY <2>2, <3>1, IntExtremes
  <2>4. u < v /\ u \in V /\ u \in Int /\ v \in Int
    BY <1>4, <1>5
  <2>5. Up(u) = Low(v)
    BY <2>3, <2>4
  <2>6. u \in T
    <3> HIDE DEF Low, Up, V
    <3> QED BY <1>6, <2>4, <2>5
  <2> QED BY <1>5, <2>4, <2>6
<1>7. Cardinality(Low(v)) < k
  <2> HIDE DEF Low, Up, V
  <2> QED BY <1>2, <1>6
<1> QED BY <1>5, <1>7 DEF OfRank, Below, UpTo, Values

\* _median: a number, and not above all of the values.
LEMMA MedianIs ==
  ASSUME NEW S, IsFiniteSet(S), Cardinality(S) >= 2, NEW f \in [S -> Int]
  PROVE  Median(S, f) \in Int /\ \E x \in S : Median(S, f) <= f[x]
<1> DEFINE V == Values(S, f)
           Ranked(k) == CHOOSE v \in V : OfRank(S, f, k, v)
           n == Cardinality(S)
<1>1. n \in Nat
  BY FS_CardinalityType
<1>2. Median(S, f) = IF n % 2 = 1 THEN Ranked((n + 1) \div 2)
                     ELSE (Ranked(n \div 2) + Ranked(n \div 2 + 1)) \div 2
  BY DEF Median, Values, OfRank, Below, UpTo
<1>3. ASSUME NEW k \in Nat \ {0}, k <= n PROVE Ranked(k) \in V
  BY <1>3, RankExists
<1>4. \A v \in V : v \in Int /\ \E x \in S : f[x] = v
  BY DEF Values
<1> HIDE DEF V, Ranked, n
<1>5. CASE n % 2 = 1
  <2>1. (n + 1) \div 2 \in Nat \ {0} /\ (n + 1) \div 2 <= n
    BY <1>1, <1>5 DEF n
  <2> QED BY <1>2, <1>3, <1>4, <1>5, <2>1
<1>6. CASE n % 2 # 1
  <2>1. n \div 2 \in Nat \ {0} /\ n \div 2 <= n /\ n \div 2 + 1 <= n /\ n \div 2 + 1 \in Nat \ {0}
    BY <1>1, <1>6 DEF n
  <2>2. PICK a \in V, b \in V : a = Ranked(n \div 2) /\ b = Ranked(n \div 2 + 1)
    BY <1>3, <2>1
  <2>3. Median(S, f) = (a + b) \div 2
    BY <1>2, <1>6, <2>2
  <2>4. a \in Int /\ b \in Int
    BY <1>4, <2>2
  <2>5. (a + b) \div 2 \in Int /\ ((a + b) \div 2 <= a \/ (a + b) \div 2 <= b)
    BY <2>4
  <2> QED BY <1>4, <2>3, <2>5
<1> QED BY <1>5, <1>6

\* A track's only candidate has the current value of its field.
LEMMA CurrentIs ==
  ASSUME NEW field, NEW direction, NEW c, NEW value, NEW seen, NEW x \in {Candidate(field, direction, c, value, seen)}
  PROVE  x.field = field /\ x.proposed_value = value /\ x.current_value = ResolveField(c, x.field)
BY DEF Candidate

LEMMA CeilingDerives ==
  ASSUME NEW c, NEW seen, NEW x \in LowerCeiling(seen, c)
  PROVE  Derived(x, c) /\ x.field = "seniority_max"
BY CurrentIs DEF LowerCeiling, Derived

LEMMA BottomDerives ==
  ASSUME NEW c, CriteriaPayload(c), NEW seen, NEW x \in RaiseBottom(seen, c)
  PROVE  Derived(x, c) /\ x.field = "seniority_min"
<1>1. /\ x.field = "seniority_min" /\ x.proposed_value = c.seniority_min + 1
      /\ x.current_value = ResolveField(c, x.field)
      /\ c.seniority_min # 0 /\ c.seniority_min < Rungs
      /\ c.seniority_max = 0 \/ c.seniority_min + 1 <= c.seniority_max
  BY CurrentIs DEF RaiseBottom
<1>2. c.seniority_min \in 0..Rungs
  BY DEF CriteriaPayload
<1>3. c.seniority_min \in 1..(Rungs - 1)
  BY <1>1, <1>2, RungsAssumption
<1> QED BY <1>1, <1>3 DEF Derived

LEMMA AgeDerives ==
  ASSUME NEW c, CriteriaPayload(c), NEW seen, NEW x \in ShortenAge(seen, c)
  PROVE  Derived(x, c) /\ x.field = "posting_age_days"
<1> DEFINE third == (c.posting_age_days * 2) \div 3
           days == Max({AgeFloor, third})
<1>1. /\ x.field = "posting_age_days" /\ x.proposed_value = days
      /\ x.current_value = ResolveField(c, x.field) /\ days < c.posting_age_days
  BY CurrentIs DEF ShortenAge
<1>2. AgeFloor \in Nat \ {0} /\ third \in Int
  BY AgeFloorAssumption DEF CriteriaPayload
<1>3. days \in {AgeFloor, third} /\ days >= AgeFloor
  <2> HIDE DEF third
  <2>1. \E m \in {AgeFloor, third} : \A n \in {AgeFloor, third} : m >= n
    BY <1>2
  <2> QED BY <1>2, <2>1 DEF Max
<1> HIDE DEF third, days
<1>4. days \in Nat \ {0}
  BY <1>2, <1>3
<1> QED BY <1>1, <1>4 DEF Derived

\* The median of what listings pay that were below the floor.
LEMMA FloorDerives ==
  ASSUME NEW c, CriteriaPayload(c), NEW l, NEW seen, IsFiniteSet(seen), \A j \in seen : IsListing(l[j]),
         NEW x \in RaiseFloor(seen, l, c)
  PROVE  /\ Derived(x, c) /\ x.field = "compensation_floor"
         /\ \E j \in seen : l[j].comp.min \in Int /\ x.proposed_value.amount <= l[j].comp.min
<1> DEFINE floor == c.compensation_floor
           priced == {j \in seen : l[j].comp.min # Unset}
           comparable == IF \A j \in priced : l[j].comp.unit = floor.unit THEN priced ELSE {}
           f == [j \in comparable |-> l[j].comp.min]
           amount == Median(comparable, f)
           value == [amount |-> amount, unit |-> floor.unit]
<1>1. /\ x \in {Candidate("compensation_floor", "tighten", c, value, seen)}
      /\ floor.amount # Unset /\ Cardinality(comparable) >= 2 /\ amount > floor.amount
  BY DEF RaiseFloor
<1>2. comparable \subseteq seen /\ f \in [comparable -> Int]
  <2>1. \A j \in priced : l[j].comp.min \in Int
    BY DEF IsListing
  <2> QED BY <2>1
<1>3. IsFiniteSet(comparable)
  BY <1>2, FS_Subset
<1>4. amount \in Int /\ \E j \in comparable : amount <= f[j]
  <2> HIDE DEF comparable, f
  <2> QED BY <1>1, <1>2, <1>3, MedianIs
<1>5. \E j \in seen : l[j].comp.min \in Int /\ amount <= l[j].comp.min
  <2>1. PICK j \in comparable : amount <= f[j]
    BY <1>4
  <2>2. j \in seen /\ f[j] = l[j].comp.min /\ f[j] \in Int
    BY <1>2, <2>1
  <2> QED BY <2>1, <2>2
<1> HIDE DEF comparable, f, amount
<1>6. /\ x.field = "compensation_floor" /\ x.proposed_value = value
      /\ x.current_value = ResolveField(c, x.field)
  BY <1>1, CurrentIs
<1>7. value \in [amount : Int, unit : {floor.unit}] /\ value.amount = amount
  BY <1>4
<1> QED BY <1>1, <1>5, <1>6, <1>7 DEF Derived

LEMMA TrackADerives ==
  ASSUME NEW c, CriteriaPayload(c), NEW l, NEW fast, IsFiniteSet(fast), NEW x \in TrackA(fast, l, c)
  PROVE  Derived(x, c) /\ x.field = "dimension_weights"
<1> DEFINE w == c.dimension_weights
           suspect == [j \in fast |-> AttributeDimension(l[j].dims)]
           attributable == {j \in fast : suspect[j] # Unset}
           Share(d) == Cardinality({j \in attributable : suspect[j] = d})
           modal == CHOOSE d \in DOMAIN w : \A e \in DOMAIN w : Share(e) <= Share(d)
           more == [w EXCEPT ![modal] = @ + 1]
           seen == {j \in attributable : suspect[j] = modal}
<1>1. /\ x \in {Candidate("dimension_weights", "increase", c, more, seen)}
      /\ DimensionWeights(more)
  BY DEF TrackA
<1>2. w \in [DOMAIN w -> Nat] /\ DOMAIN w # {}
  BY DEF CriteriaPayload, DimensionWeights
<1>3. \A d \in DOMAIN w : Share(d) \in Nat /\ Share(d) <= Cardinality(fast)
  <2>1. \A d \in DOMAIN w : {j \in attributable : suspect[j] = d} \subseteq fast
    OBVIOUS
  <2> HIDE DEF attributable, suspect
  <2> QED BY <2>1, FS_Subset, FS_CardinalityType
<1>4. modal \in DOMAIN w
  <2> HIDE DEF Share
  <2> DEFINE shares == {Share(d) : d \in DOMAIN w}
  <2>1. shares \in SUBSET Nat /\ shares # {} /\ \A n \in shares : n <= Cardinality(fast)
    BY <1>2, <1>3
  <2>2. Cardinality(fast) \in Nat
    BY FS_CardinalityType
  <2>3. PICK m \in shares : \A n \in shares : n <= m
    <3> HIDE DEF shares
    <3> QED BY <2>1, <2>2, NatGreatest
  <2>4. PICK d \in DOMAIN w : m = Share(d)
    BY <2>3
  <2>5. \A e \in DOMAIN w : Share(e) <= Share(d)
    BY <2>3, <2>4
  <2> QED BY <2>5
<1> HIDE DEF modal, seen
<1>5. more # w
  <2>1. more[modal] = w[modal] + 1 /\ w[modal] \in Nat
    BY <1>2, <1>4
  <2> QED BY <2>1
<1> HIDE DEF more
<1>6. /\ x.field = "dimension_weights" /\ x.proposed_value = more
      /\ x.current_value = ResolveField(c, x.field)
  BY <1>1, CurrentIs
<1>7. ResolveField(c, "dimension_weights") = w
  BY DEF ResolveField
<1> QED BY <1>1, <1>5, <1>6, <1>7 DEF Derived

\* A list gains one term that is not in it.
LEMMA TermDerives ==
  ASSUME NEW c, NEW field \in {"exclusions.title_keywords", "exclusions.employers"},
         NEW term, term \notin ResolveField(c, field), NEW seen,
         NEW x \in {Candidate(field, "tighten", c, ResolveField(c, field) \cup {term}, seen)}
  PROVE  Derived(x, c) /\ x.field = field
<1>1. /\ x.field = field /\ x.proposed_value = ResolveField(c, field) \cup {term}
      /\ x.current_value = ResolveField(c, field)
  BY CurrentIs
<1>2. term \in x.proposed_value \ x.current_value
  BY <1>1
<1> QED BY <1>1, <1>2 DEF Derived

\* What has a bounded weight has a heaviest.
LEMMA Heaviest ==
  ASSUME NEW T, T # {}, NEW b \in Nat, NEW g \in [T -> Nat], \A t \in T : g[t] <= b
  PROVE  \E t \in T : \A u \in T : g[u] <= g[t]
<1> DEFINE W == {g[t] : t \in T}
<1>1. W \in SUBSET Nat /\ W # {} /\ \A n \in W : n <= b
  OBVIOUS
<1>2. PICK m \in W : \A n \in W : n <= m
  <2> HIDE DEF W
  <2> QED BY <1>1, NatGreatest
<1> QED BY <1>2

LEMMA TrackCDerives ==
  ASSUME NEW c, NEW l, NEW fast, IsFiniteSet(fast), NEW progressed,
         NEW x \in TrackC(fast, progressed, l, c)
  PROVE  Derived(x, c) /\ x.field \in {"exclusions.title_keywords", "exclusions.employers"}
<1> DEFINE Words(S) == UNION {l[j].words : j \in S}
           Titles(w) == {l[j].title : j \in {k \in fast : w \in l[k].words}}
           Of(e) == {j \in fast : l[j].company = e}
           Naming(w) == {j \in fast : w \in l[j].words}
           words == {w \in Words(fast) \ (Words(progressed) \cup c.exclusions.title_keywords) :
                       Cardinality(Titles(w)) >= MinObservations["exclusions.title_keywords"]}
           employers == {e \in {l[j].company : j \in fast}
                              \ ({l[j].company : j \in progressed} \cup c.exclusions.employers) :
                           Cardinality(Of(e)) >= MinObservations["exclusions.employers"]}
           word == CHOOSE t \in words : \A u \in words : Cardinality(Titles(u)) <= Cardinality(Titles(t))
           employer == CHOOSE t \in employers : \A u \in employers : Cardinality(Of(u)) <= Cardinality(Of(t))
           W == IF words = {} THEN {}
                ELSE {Candidate("exclusions.title_keywords", "tighten", c,
                                ResolveField(c, "exclusions.title_keywords") \cup {word}, Naming(word))}
           E == IF employers = {} THEN {}
                ELSE {Candidate("exclusions.employers", "tighten", c,
                                ResolveField(c, "exclusions.employers") \cup {employer}, Of(employer))}
<1>1. TrackC(fast, progressed, l, c) = W \cup E
  BY Zenon DEF TrackC, Exclude
<1>2. /\ ResolveField(c, "exclusions.title_keywords") = c.exclusions.title_keywords
      /\ ResolveField(c, "exclusions.employers") = c.exclusions.employers
  BY DEF ResolveField
<1>3. /\ \A t \in words : t \notin ResolveField(c, "exclusions.title_keywords")
      /\ \A t \in employers : t \notin ResolveField(c, "exclusions.employers")
  BY <1>2
<1>4. Cardinality(fast) \in Nat
  BY FS_CardinalityType
<1>5. \A e : Cardinality(Of(e)) \in Nat /\ Cardinality(Of(e)) <= Cardinality(fast)
  <2>1. \A e : Of(e) \subseteq fast
    OBVIOUS
  <2> HIDE DEF Of
  <2> QED BY <2>1, FS_Subset, FS_CardinalityType
<1>6. ASSUME NEW w PROVE Cardinality(Titles(w)) \in Nat /\ Cardinality(Titles(w)) <= Cardinality(fast)
  <2> DEFINE N == Naming(w)
             f == [j \in N |-> l[j].title]
  <2>1. IsFiniteSet(N) /\ Cardinality(N) \in Nat /\ Cardinality(N) <= Cardinality(fast)
    <3>1. N \subseteq fast
      OBVIOUS
    <3> HIDE DEF N
    <3> QED BY <3>1, FS_Subset, FS_CardinalityType
  <2>2. f \in Surjection(N, Titles(w))
    BY DEF Surjection
  <2> HIDE DEF N, f, Titles
  <2>3. IsFiniteSet(Titles(w)) /\ Cardinality(Titles(w)) <= Cardinality(N)
    BY <2>1, <2>2, FS_Surjection
  <2>4. Cardinality(Titles(w)) \in Nat
    BY <2>3, FS_CardinalityType
  <2> QED BY <1>4, <2>1, <2>3, <2>4
<1> HIDE DEF words, employers, Titles, Of, Naming
<1>7. words # {} => word \in words
  <2> DEFINE g == [t \in words |-> Cardinality(Titles(t))]
  <2>1. g \in [words -> Nat] /\ \A t \in words : g[t] <= Cardinality(fast) /\ g[t] = Cardinality(Titles(t))
    BY <1>6
  <2> HIDE DEF g
  <2>2. words # {} => \E t \in words : \A u \in words : g[u] <= g[t]
    BY <1>4, <2>1, Heaviest
  <2> QED BY <2>1, <2>2
<1>8. employers # {} => employer \in employers
  <2> DEFINE g == [t \in employers |-> Cardinality(Of(t))]
  <2>1. g \in [employers -> Nat] /\ \A t \in employers : g[t] <= Cardinality(fast) /\ g[t] = Cardinality(Of(t))
    BY <1>5
  <2> HIDE DEF g
  <2>2. employers # {} => \E t \in employers : \A u \in employers : g[u] <= g[t]
    BY <1>4, <2>1, Heaviest
  <2> QED BY <2>1, <2>2
<1> HIDE DEF word, employer
<1>9. CASE x \in W
  <2>1. word \notin ResolveField(c, "exclusions.title_keywords")
    BY <1>3, <1>7, <1>9
  <2>2. x \in {Candidate("exclusions.title_keywords", "tighten", c,
                         ResolveField(c, "exclusions.title_keywords") \cup {word}, Naming(word))}
    BY <1>9
  <2> HIDE DEF W
  <2> QED BY <2>1, <2>2, TermDerives
<1>10. CASE x \in E
  <2>1. employer \notin ResolveField(c, "exclusions.employers")
    BY <1>3, <1>8, <1>10
  <2>2. x \in {Candidate("exclusions.employers", "tighten", c,
                         ResolveField(c, "exclusions.employers") \cup {employer}, Of(employer))}
    BY <1>10
  <2> HIDE DEF E
  <2> QED BY <2>1, <2>2, TermDerives
<1> QED BY <1>1, <1>9, <1>10

\* Whatever track it is of, a candidate is made of the criteria; and one that
\* raises the floor asks for no more than some listing pays that was below a
\* floor.
LEMMA DetectDerives ==
  ASSUME NEW c, CriteriaPayload(c), NEW signal, IsFiniteSet(DOMAIN signal), NEW l,
         \A j \in DOMAIN signal : IsListing(l[j]), NEW marks,
         NEW x \in DetectCandidates(signal, l, marks, c)
  PROVE  /\ Derived(x, c)
         /\ x.field = "compensation_floor" =>
              \E j \in DOMAIN signal :
                /\ "comp_below_floor" \in marks[j] /\ l[j].comp.min \in Int
                /\ x.proposed_value.amount \in Int /\ x.proposed_value.amount <= l[j].comp.min
<1> DEFINE fast == {j \in DOMAIN signal : signal[j] = "fast_reject"}
           progressed == {j \in DOMAIN signal : signal[j] = "progressed"}
           Flagged(f) == {j \in fast : f \in marks[j]}
<1>1. IsFiniteSet(fast) /\ IsFiniteSet(Flagged("comp_below_floor"))
  <2>1. fast \subseteq DOMAIN signal /\ Flagged("comp_below_floor") \subseteq DOMAIN signal
    OBVIOUS
  <2> HIDE DEF fast, Flagged
  <2> QED BY <2>1, FS_Subset
<1>2. \A j \in Flagged("comp_below_floor") :
        j \in DOMAIN signal /\ "comp_below_floor" \in marks[j] /\ IsListing(l[j])
  OBVIOUS
<1>3. \/ x \in TrackA(fast, l, c) \/ x \in TrackC(fast, progressed, l, c)
      \/ x \in LowerCeiling(Flagged("stretch_role"), c) \/ x \in RaiseBottom(Flagged("step_down"), c)
      \/ x \in RaiseFloor(Flagged("comp_below_floor"), l, c)
      \/ x \in ShortenAge(Flagged("posting_stale"), c)
  BY DEF DetectCandidates, TrackB
<1> HIDE DEF fast, progressed, Flagged
<1>4. CASE x \in TrackA(fast, l, c)
  BY <1>1, <1>4, TrackADerives
<1>5. CASE x \in TrackC(fast, progressed, l, c)
  BY <1>1, <1>5, TrackCDerives
<1>6. CASE x \in LowerCeiling(Flagged("stretch_role"), c)
  BY <1>6, CeilingDerives
<1>7. CASE x \in RaiseBottom(Flagged("step_down"), c)
  BY <1>7, BottomDerives
<1>8. CASE x \in RaiseFloor(Flagged("comp_below_floor"), l, c)
  <2>1. /\ Derived(x, c) /\ x.field = "compensation_floor"
        /\ \E j \in Flagged("comp_below_floor") :
             l[j].comp.min \in Int /\ x.proposed_value.amount <= l[j].comp.min
    BY <1>1, <1>2, <1>8, FloorDerives
  <2>2. x.proposed_value.amount \in Int
    BY <2>1 DEF Derived
  <2> QED BY <1>2, <2>1, <2>2
<1>9. CASE x \in ShortenAge(Flagged("posting_stale"), c)
  BY <1>9, AgeDerives
<1> QED BY <1>3, <1>4, <1>5, <1>6, <1>7, <1>8, <1>9

-----------------------------------------------------------------------------
(* What a derived change does to the criteria and to the listings.         *)

Stretch(l, c) == l.rung # 0 /\ c.seniority_max # 0 /\ l.rung > c.seniority_max
StepDown(l, c) == ~Stretch(l, c) /\ l.rung # 0 /\ c.seniority_min # 0 /\ l.rung < c.seniority_min
Underpaid(l, c) == CompareToFloor(l.comp, c.compensation_floor) = "below"
Stale(l, c) == l.age = Undated \/ l.age + 0 > c.posting_age_days

LEMMA FlagsAre ==
  ASSUME NEW l, NEW c
  PROVE  /\ "stretch_role" \in ComputeFlags(l, c, 0) <=> Stretch(l, c)
         /\ "step_down" \in ComputeFlags(l, c, 0) <=> StepDown(l, c)
         /\ "comp_below_floor" \in ComputeFlags(l, c, 0) <=> Underpaid(l, c)
         /\ "posting_stale" \in ComputeFlags(l, c, 0) <=> Stale(l, c)
         /\ ComputeFlags(l, c, 0) \subseteq {"stretch_role", "step_down", "comp_below_floor", "posting_stale"}
BY DEF ComputeFlags, Stretch, StepDown, Underpaid, Stale

\* d is c but for one field.
SameBut(field, c, d) ==
  /\ d.locations = c.locations
  /\ field # "seniority_min" => d.seniority_min = c.seniority_min
  /\ field # "seniority_max" => d.seniority_max = c.seniority_max
  /\ field # "posting_age_days" => d.posting_age_days = c.posting_age_days
  /\ field # "compensation_floor" => d.compensation_floor = c.compensation_floor

LEMMA MaxSet ==
  ASSUME NEW c, CriteriaPayload(c), NEW v \in 0..Rungs,
         c.seniority_min # 0 /\ v # 0 => c.seniority_min <= v
  PROVE  LET d == [c EXCEPT !.seniority_max = v]
         IN  CriteriaPayload(d) /\ d.seniority_max = v /\ SameBut("seniority_max", c, d)
<1> DEFINE d == [c EXCEPT !.seniority_max = v]
<1>1. d.seniority_max = v /\ SameBut("seniority_max", c, d)
  BY DEF CriteriaPayload, SameBut
<1>2. CriteriaPayload(d)
  BY DEF CriteriaPayload
<1> QED BY <1>1, <1>2

LEMMA MinSet ==
  ASSUME NEW c, CriteriaPayload(c), NEW v \in 0..Rungs,
         v # 0 /\ c.seniority_max # 0 => v <= c.seniority_max
  PROVE  LET d == [c EXCEPT !.seniority_min = v]
         IN  CriteriaPayload(d) /\ d.seniority_min = v /\ SameBut("seniority_min", c, d)
<1> DEFINE d == [c EXCEPT !.seniority_min = v]
<1>1. d.seniority_min = v /\ SameBut("seniority_min", c, d)
  BY DEF CriteriaPayload, SameBut
<1>2. CriteriaPayload(d)
  BY DEF CriteriaPayload
<1> QED BY <1>1, <1>2

LEMMA FloorSet ==
  ASSUME NEW c, CriteriaPayload(c), NEW v \in [amount : Int, unit : {c.compensation_floor.unit}]
  PROVE  LET d == [c EXCEPT !.compensation_floor = v]
         IN  CriteriaPayload(d) /\ d.compensation_floor = v /\ SameBut("compensation_floor", c, d)
<1> DEFINE d == [c EXCEPT !.compensation_floor = v]
<1>1. d.compensation_floor = v /\ SameBut("compensation_floor", c, d)
  BY DEF CriteriaPayload, SameBut
<1>2. CriteriaPayload(d)
  BY DEF CriteriaPayload
<1> QED BY <1>1, <1>2

LEMMA AgeSet ==
  ASSUME NEW c, CriteriaPayload(c), NEW v \in Nat \ {0}
  PROVE  LET d == [c EXCEPT !.posting_age_days = v]
         IN  CriteriaPayload(d) /\ d.posting_age_days = v /\ SameBut("posting_age_days", c, d)
<1> DEFINE d == [c EXCEPT !.posting_age_days = v]
<1>1. d.posting_age_days = v /\ SameBut("posting_age_days", c, d)
  BY DEF CriteriaPayload, SameBut
<1>2. CriteriaPayload(d)
  BY DEF CriteriaPayload
<1> QED BY <1>1, <1>2

LEMMA WeightsSet ==
  ASSUME NEW c, CriteriaPayload(c), NEW v, DimensionWeights(v)
  PROVE  LET d == [c EXCEPT !.dimension_weights = v]
         IN  CriteriaPayload(d) /\ d.dimension_weights = v /\ SameBut("dimension_weights", c, d)
<1> DEFINE d == [c EXCEPT !.dimension_weights = v]
<1>1. d.dimension_weights = v /\ SameBut("dimension_weights", c, d)
  BY DEF CriteriaPayload, SameBut
<1>2. CriteriaPayload(d)
  BY DEF CriteriaPayload
<1> QED BY <1>1, <1>2

LEMMA ExclusionsSet ==
  ASSUME NEW c, CriteriaPayload(c), NEW v,
         v \in [title_keywords : {v.title_keywords}, employers : {v.employers}],
         IsFiniteSet(v.title_keywords), IsFiniteSet(v.employers)
  PROVE  LET d == [c EXCEPT !.exclusions = v]
         IN  CriteriaPayload(d) /\ d.exclusions = v /\ SameBut("exclusions", c, d)
<1> DEFINE d == [c EXCEPT !.exclusions = v]
<1>1. d.exclusions = v /\ SameBut("exclusions", c, d)
  BY DEF CriteriaPayload, SameBut
<1>2. CriteriaPayload(d)
  BY DEF CriteriaPayload
<1> QED BY <1>1, <1>2

\* A change that a track derives is one field's, and valid.
LEMMA LeafIs ==
  ASSUME NEW c, CriteriaPayload(c), NEW x, Derived(x, c)
  PROVE  LET d == SetLeaf(c, x.field, x.proposed_value)
         IN  /\ CriteriaPayload(d) /\ d # c /\ SameBut(x.field, c, d)
             /\ x.field \in {"seniority_min", "seniority_max", "posting_age_days", "compensation_floor"}
                  => d[x.field] = x.proposed_value
<1>1. x.current_value = ResolveField(c, x.field)
  BY DEF Derived
<1>2. PICK v : v = x.proposed_value
  OBVIOUS
<1> DEFINE d == SetLeaf(c, x.field, v)
<1>3. CASE /\ x.field = "seniority_max" /\ c.seniority_max > 1 /\ v = c.seniority_max - 1
           /\ c.seniority_min = 0 \/ c.seniority_min <= v
  <2>1. d = [c EXCEPT !.seniority_max = v]
    BY <1>3 DEF SetLeaf
  <2>2. v \in 0..Rungs /\ v # c.seniority_max
    BY <1>3, RungsAssumption DEF CriteriaPayload
  <2>3. CriteriaPayload(d) /\ d.seniority_max = v /\ SameBut("seniority_max", c, d)
    BY <1>3, <2>1, <2>2, MaxSet
  <2> HIDE DEF d
  <2>4. d # c /\ d[x.field] = v
    BY <1>3, <2>2, <2>3
  <2> QED BY <1>2, <1>3, <2>3, <2>4 DEF d
<1>4. CASE /\ x.field = "seniority_min" /\ c.seniority_min \in 1..(Rungs - 1) /\ v = c.seniority_min + 1
           /\ c.seniority_max = 0 \/ v <= c.seniority_max
  <2>1. d = [c EXCEPT !.seniority_min = v]
    BY <1>4 DEF SetLeaf
  <2>2. v \in 0..Rungs /\ v # c.seniority_min
    BY <1>4, RungsAssumption DEF CriteriaPayload
  <2>3. CriteriaPayload(d) /\ d.seniority_min = v /\ SameBut("seniority_min", c, d)
    BY <1>4, <2>1, <2>2, MinSet
  <2> HIDE DEF d
  <2>4. d # c /\ d[x.field] = v
    BY <1>4, <2>2, <2>3
  <2> QED BY <1>2, <1>4, <2>3, <2>4 DEF d
<1>5. CASE /\ x.field = "compensation_floor" /\ c.compensation_floor.amount # Unset
           /\ v \in [amount : Int, unit : {c.compensation_floor.unit}]
           /\ v.amount > c.compensation_floor.amount
  <2>1. d = [c EXCEPT !.compensation_floor = v]
    BY <1>5 DEF SetLeaf
  <2>2. v # c.compensation_floor
    <3>1. c.compensation_floor.amount \in Int /\ v.amount \in Int
      BY <1>5 DEF CriteriaPayload
    <3> QED BY <1>5, <3>1
  <2> HIDE DEF d
  <2>3. CriteriaPayload(d) /\ d.compensation_floor = v /\ SameBut("compensation_floor", c, d)
    <3>1. v \in [amount : Int, unit : {c.compensation_floor.unit}]
      BY <1>5
    <3> QED BY <2>1, <3>1, FloorSet
  <2>4. d # c /\ d[x.field] = v
    BY <1>5, <2>2, <2>3
  <2> QED BY <1>2, <1>5, <2>3, <2>4 DEF d
<1>6. CASE x.field = "posting_age_days" /\ v \in Nat \ {0} /\ v < c.posting_age_days
  <2>1. d = [c EXCEPT !.posting_age_days = v]
    BY <1>6 DEF SetLeaf
  <2> HIDE DEF d
  <2>2. CriteriaPayload(d) /\ d.posting_age_days = v /\ SameBut("posting_age_days", c, d)
    <3>1. v \in Nat \ {0}
      BY <1>6
    <3> QED BY <2>1, <3>1, AgeSet
  <2>3. d # c /\ d[x.field] = v
    BY <1>6, <2>2
  <2> QED BY <1>2, <1>6, <2>2, <2>3 DEF d
<1>7. CASE x.field \in {"exclusions.title_keywords", "exclusions.employers"}
           /\ \E term \in v \ x.current_value : v = x.current_value \cup {term}
  <2> DEFINE e == IF x.field = "exclusions.title_keywords"
                  THEN [c.exclusions EXCEPT !.title_keywords = v]
                  ELSE [c.exclusions EXCEPT !.employers = v]
  <2>1. PICK term : term \in v \ x.current_value /\ v = x.current_value \cup {term}
    BY <1>7
  <2>2. x.current_value = IF x.field = "exclusions.title_keywords"
                          THEN c.exclusions.title_keywords ELSE c.exclusions.employers
    BY <1>1, <1>7 DEF ResolveField
  <2>3. /\ c.exclusions \in [title_keywords : {c.exclusions.title_keywords},
                            employers : {c.exclusions.employers}]
        /\ IsFiniteSet(c.exclusions.title_keywords) /\ IsFiniteSet(c.exclusions.employers)
    BY DEF CriteriaPayload
  <2>4. IsFiniteSet(v) /\ v # x.current_value
    BY <2>1, <2>2, <2>3, FS_AddElement
  <2>5. d = [c EXCEPT !.exclusions = e]
    BY <1>7 DEF SetLeaf
  <2>6. /\ e \in [title_keywords : {e.title_keywords}, employers : {e.employers}]
        /\ IsFiniteSet(e.title_keywords) /\ IsFiniteSet(e.employers) /\ e # c.exclusions
    <3>1. CASE x.field = "exclusions.title_keywords"
      BY <2>2, <2>3, <2>4, <3>1
    <3>2. CASE x.field = "exclusions.employers"
      BY <2>2, <2>3, <2>4, <3>2
    <3> QED BY <1>7, <3>1, <3>2
  <2> HIDE DEF e
  <2>7. CriteriaPayload(d) /\ d.exclusions = e /\ SameBut("exclusions", c, d)
    BY <2>5, <2>6, ExclusionsSet
  <2> HIDE DEF d
  <2>8. d # c /\ SameBut(x.field, c, d)
    BY <1>7, <2>6, <2>7 DEF SameBut
  <2> QED BY <1>2, <1>7, <2>7, <2>8 DEF d
<1>8. CASE x.field = "dimension_weights" /\ v # x.current_value /\ DimensionWeights(v)
  <2>1. d = [c EXCEPT !.dimension_weights = v]
    BY <1>8 DEF SetLeaf
  <2>2. v # c.dimension_weights
    BY <1>1, <1>8 DEF ResolveField
  <2>3. CriteriaPayload(d) /\ d.dimension_weights = v /\ SameBut("dimension_weights", c, d)
    BY <1>8, <2>1, WeightsSet
  <2> HIDE DEF d
  <2>4. d # c
    BY <2>2, <2>3
  <2> QED BY <1>2, <1>8, <2>3, <2>4 DEF d
<1> QED BY <1>2, <1>3, <1>4, <1>5, <1>6, <1>7, <1>8 DEF Derived

\* A derived change lets no listing off: what was too old is, and what was
\* flagged is.
LEMMA DerivedTightens ==
  ASSUME NEW c, CriteriaPayload(c), NEW x, Derived(x, c), NEW l, IsListing(l)
  PROVE  LET d == SetLeaf(c, x.field, x.proposed_value)
         IN  /\ TooOld(l.age, c.posting_age_days) => TooOld(l.age, d.posting_age_days)
             /\ Stretch(l, c) => Stretch(l, d)
             /\ StepDown(l, c) => StepDown(l, d)
             /\ Underpaid(l, c) => Underpaid(l, d)
             /\ Stale(l, c) => Stale(l, d)
<1> DEFINE v == x.proposed_value
<1>1. PICK d : d = SetLeaf(c, x.field, v)
  OBVIOUS
<1>2. /\ SameBut(x.field, c, d)
      /\ x.field \in {"seniority_min", "seniority_max", "posting_age_days", "compensation_floor"}
           => d[x.field] = v
  BY <1>1, LeafIs
<1>3. /\ c.seniority_min \in 0..Rungs /\ c.seniority_max \in 0..Rungs
      /\ c.posting_age_days \in Nat /\ c.compensation_floor.amount \in {Unset} \cup Int
      /\ l.rung \in 0..Rungs /\ l.age \in {Undated} \cup Nat /\ l.comp.min \in {Unset} \cup Int
  BY DEF CriteriaPayload, IsListing
<1>4. ASSUME x.field # "posting_age_days"
      PROVE  /\ TooOld(l.age, c.posting_age_days) => TooOld(l.age, d.posting_age_days)
             /\ Stale(l, c) => Stale(l, d)
  BY <1>2, <1>4 DEF SameBut, Stale
<1>5. ASSUME x.field # "compensation_floor"
      PROVE  Underpaid(l, c) => Underpaid(l, d)
  BY <1>2, <1>5 DEF SameBut, Underpaid
<1>6. ASSUME x.field \notin {"seniority_min", "seniority_max"}
      PROVE  /\ Stretch(l, c) => Stretch(l, d)
             /\ StepDown(l, c) => StepDown(l, d)
  BY <1>2, <1>6 DEF SameBut, Stretch, StepDown
<1>7. CASE x.field = "posting_age_days" /\ v \in Nat /\ v < c.posting_age_days
  <2>1. d.posting_age_days = v
    BY <1>2, <1>7
  <2>2. TooOld(l.age, c.posting_age_days) => TooOld(l.age, v)
    BY <1>3, <1>7, AgeFloorAssumption DEF TooOld
  <2>3. Stale(l, c) => Stale(l, d)
    BY <1>3, <1>7, <2>1, AgeFloorAssumption DEF Stale
  <2> QED BY <1>1, <1>5, <1>6, <1>7, <2>1, <2>2, <2>3
<1>8. CASE /\ x.field = "compensation_floor" /\ c.compensation_floor.amount # Unset
           /\ v \in [amount : Int, unit : {c.compensation_floor.unit}]
           /\ v.amount > c.compensation_floor.amount
  <2>1. d.compensation_floor = v
    BY <1>2, <1>8
  <2>2. PICK a : a = v.amount /\ a \in Int /\ a > c.compensation_floor.amount /\ v.unit = c.compensation_floor.unit
    BY <1>8
  <2>3. Underpaid(l, c) => Underpaid(l, d)
    <3> HIDE DEF v
    <3> QED BY <1>3, <1>8, <2>1, <2>2, UnsetAssumption DEF Underpaid, CompareToFloor
  <2> QED BY <1>1, <1>4, <1>6, <1>8, <2>3
<1>9. CASE /\ x.field = "seniority_max" /\ c.seniority_max > 1 /\ v = c.seniority_max - 1
           /\ c.seniority_min = 0 \/ c.seniority_min <= v
  <2>1. d.seniority_max = v /\ d.seniority_min = c.seniority_min
    BY <1>2, <1>9 DEF SameBut
  <2>2. Stretch(l, c) => Stretch(l, d)
    BY <1>3, <1>9, <2>1 DEF Stretch
  <2>3. StepDown(l, c) => StepDown(l, d)
    BY <1>3, <1>9, <2>1 DEF Stretch, StepDown
  <2> QED BY <1>1, <1>4, <1>5, <1>9, <2>2, <2>3
<1>10. CASE /\ x.field = "seniority_min" /\ c.seniority_min \in 1..(Rungs - 1) /\ v = c.seniority_min + 1
            /\ c.seniority_max = 0 \/ v <= c.seniority_max
  <2>1. d.seniority_min = v /\ d.seniority_max = c.seniority_max
    BY <1>2, <1>10 DEF SameBut
  <2>2. Stretch(l, c) <=> Stretch(l, d)
    BY <2>1 DEF Stretch
  <2>3. StepDown(l, c) => StepDown(l, d)
    BY <1>3, <1>10, <2>1, <2>2, RungsAssumption DEF StepDown
  <2> QED BY <1>1, <1>4, <1>5, <1>10, <2>2, <2>3
<1>11. CASE x.field \in {"exclusions.title_keywords", "exclusions.employers", "dimension_weights"}
  BY <1>1, <1>4, <1>5, <1>6, <1>11
<1> QED BY <1>7, <1>8, <1>9, <1>10, <1>11 DEF Derived

\* What the scorer newly raises, apart from the stale mark.
LEMMA NewlyRaised ==
  ASSUME NEW l, NEW c, NEW d
  PROVE  (ComputeFlags(l, d, 0) \ {"posting_stale"}) \ (ComputeFlags(l, c, 0) \ {"posting_stale"}) # {}
           <=> \/ Stretch(l, d) /\ ~Stretch(l, c)
               \/ StepDown(l, d) /\ ~StepDown(l, c)
               \/ Underpaid(l, d) /\ ~Underpaid(l, c)
<1> DEFINE C == ComputeFlags(l, c, 0)
           D == ComputeFlags(l, d, 0)
<1>1. /\ C \subseteq {"stretch_role", "step_down", "comp_below_floor", "posting_stale"}
      /\ D \subseteq {"stretch_role", "step_down", "comp_below_floor", "posting_stale"}
      /\ "stretch_role" \in C <=> Stretch(l, c)
      /\ "stretch_role" \in D <=> Stretch(l, d)
      /\ "step_down" \in C <=> StepDown(l, c)
      /\ "step_down" \in D <=> StepDown(l, d)
      /\ "comp_below_floor" \in C <=> Underpaid(l, c)
      /\ "comp_below_floor" \in D <=> Underpaid(l, d)
  BY FlagsAre
<1> HIDE DEF C, D
<1>2. (D \ {"posting_stale"}) \ (C \ {"posting_stale"}) # {} <=>
        \/ "stretch_role" \in D \ C \/ "step_down" \in D \ C \/ "comp_below_floor" \in D \ C
  BY <1>1
<1> QED BY <1>1, <1>2 DEF C, D

\* The predictor's verdicts change exactly where the scorer's flags do.
LEMMA VerdictIs ==
  ASSUME NEW c, CriteriaPayload(c), NEW x, Derived(x, c), NEW l, IsListing(l),
         x.field \in {"seniority_min", "seniority_max", "compensation_floor"}
  PROVE  LET d == SetLeaf(c, x.field, x.proposed_value)
         IN  FlagVerdict(l, x.field, x.current_value) = "clear"
               /\ FlagVerdict(l, x.field, x.proposed_value) = "raised"
             <=> (ComputeFlags(l, d, 0) \ {"posting_stale"}) \ (ComputeFlags(l, c, 0) \ {"posting_stale"}) # {}
<1> DEFINE v == x.proposed_value
           u == x.current_value
<1>1. PICK d : d = SetLeaf(c, x.field, v)
  OBVIOUS
<1> DEFINE Changes == FlagVerdict(l, x.field, u) = "clear" /\ FlagVerdict(l, x.field, v) = "raised"
           New == \/ Stretch(l, d) /\ ~Stretch(l, c)
                  \/ StepDown(l, d) /\ ~StepDown(l, c)
                  \/ Underpaid(l, d) /\ ~Underpaid(l, c)
<1>2. SameBut(x.field, c, d) /\ d[x.field] = v
  BY <1>1, LeafIs
<1>3. /\ c.seniority_min \in 0..Rungs /\ c.seniority_max \in 0..Rungs
      /\ c.compensation_floor.amount \in {Unset} \cup Int
      /\ l.rung \in 0..Rungs /\ l.comp.min \in {Unset} \cup Int
  BY DEF CriteriaPayload, IsListing
<1>4. u = ResolveField(c, x.field)
  BY DEF Derived
<1>5. Changes <=> New
  <2>1. CASE /\ x.field = "seniority_max" /\ c.seniority_max > 1 /\ v = c.seniority_max - 1
             /\ c.seniority_min = 0 \/ c.seniority_min <= v
    <3>1. /\ u = c.seniority_max /\ d.seniority_max = v /\ d.seniority_min = c.seniority_min
          /\ d.compensation_floor = c.compensation_floor
      BY <1>2, <1>4, <2>1 DEF SameBut, ResolveField
    <3>2. Underpaid(l, d) <=> Underpaid(l, c)
      BY <3>1 DEF Underpaid
    <3>3. StepDown(l, d) => StepDown(l, c)
      BY <1>3, <2>1, <3>1 DEF StepDown, Stretch
    <3>4. New <=> Stretch(l, d) /\ ~Stretch(l, c)
      BY <3>2, <3>3
    <3>5. Changes <=> /\ l.rung # 0 /\ ~(c.seniority_max # 0 /\ l.rung > c.seniority_max)
                      /\ v # 0 /\ l.rung > v
      BY <2>1, <3>1 DEF FlagVerdict
    <3>6. Stretch(l, d) <=> l.rung # 0 /\ v # 0 /\ l.rung > v
      BY <3>1 DEF Stretch
    <3>7. Stretch(l, c) <=> l.rung # 0 /\ c.seniority_max # 0 /\ l.rung > c.seniority_max
      BY DEF Stretch
    <3> HIDE DEF Changes, New
    <3> QED BY <3>4, <3>5, <3>6, <3>7
  <2>2. CASE /\ x.field = "seniority_min" /\ c.seniority_min \in 1..(Rungs - 1) /\ v = c.seniority_min + 1
             /\ c.seniority_max = 0 \/ v <= c.seniority_max
    <3>1. /\ u = c.seniority_min /\ d.seniority_min = v /\ d.seniority_max = c.seniority_max
          /\ d.compensation_floor = c.compensation_floor
      BY <1>2, <1>4, <2>2 DEF SameBut, ResolveField
    <3>2. Underpaid(l, d) <=> Underpaid(l, c)
      BY <3>1 DEF Underpaid
    <3>3. Stretch(l, d) <=> Stretch(l, c)
      BY <3>1 DEF Stretch
    <3>4. New <=> StepDown(l, d) /\ ~StepDown(l, c)
      BY <3>2, <3>3
    <3>5. Changes <=> /\ l.rung # 0 /\ ~(c.seniority_min # 0 /\ l.rung < c.seniority_min)
                      /\ v # 0 /\ l.rung < v
      BY <2>2, <3>1 DEF FlagVerdict
    <3>6. c.seniority_min \in Nat \ {0} /\ v \in Nat \ {0} /\ v = c.seniority_min + 1
      BY <2>2, RungsAssumption
    <3>7. l.rung < v => ~Stretch(l, c)
      BY <1>3, <2>2, <3>6 DEF Stretch
    <3>8. StepDown(l, d) <=> ~Stretch(l, c) /\ l.rung # 0 /\ v # 0 /\ l.rung < v
      BY <3>1, <3>3 DEF StepDown
    <3>9. StepDown(l, c) <=> ~Stretch(l, c) /\ l.rung # 0 /\ c.seniority_min # 0 /\ l.rung < c.seniority_min
      BY DEF StepDown
    <3> HIDE DEF Changes, New
    <3> QED BY <3>4, <3>5, <3>7, <3>8, <3>9
  <2>3. CASE /\ x.field = "compensation_floor" /\ c.compensation_floor.amount # Unset
             /\ v \in [amount : Int, unit : {c.compensation_floor.unit}]
             /\ v.amount > c.compensation_floor.amount
    <3>1. /\ u = c.compensation_floor /\ d.compensation_floor = v
          /\ d.seniority_min = c.seniority_min /\ d.seniority_max = c.seniority_max
      BY <1>2, <1>4, <2>3 DEF SameBut, ResolveField
    <3>2. (Stretch(l, d) <=> Stretch(l, c)) /\ (StepDown(l, d) <=> StepDown(l, c))
      BY <3>1 DEF Stretch, StepDown
    <3>3. New <=> Underpaid(l, d) /\ ~Underpaid(l, c)
      BY <3>2
    <3>4. Changes <=> CompareToFloor(l.comp, u) = "above" /\ CompareToFloor(l.comp, v) = "below"
      BY <2>3 DEF FlagVerdict
    <3>5. v.unit = u.unit /\ u.amount # Unset
      BY <2>3, <3>1
    <3>6. CompareToFloor(l.comp, v) = "below" => CompareToFloor(l.comp, u) \in {"above", "below"}
      <4> HIDE DEF u, v
      <4> QED BY <3>5 DEF CompareToFloor
    <3>7. /\ Underpaid(l, d) <=> CompareToFloor(l.comp, v) = "below"
          /\ Underpaid(l, c) <=> CompareToFloor(l.comp, u) = "below"
      BY <3>1 DEF Underpaid
    <3> HIDE DEF Changes, New, u, v
    <3> QED BY <3>3, <3>4, <3>6, <3>7
  <2> QED BY <2>1, <2>2, <2>3 DEF Derived
<1>6. New <=> (ComputeFlags(l, d, 0) \ {"posting_stale"}) \ (ComputeFlags(l, c, 0) \ {"posting_stale"}) # {}
  BY NewlyRaised
<1> HIDE DEF New
<1> QED BY <1>1, <1>5, <1>6

\* A shorter age is the only change that drops listings, and it drops those
\* that it makes too old.
LEMMA DroppedIs ==
  ASSUME NEW c, CriteriaPayload(c), NEW x, Derived(x, c), NEW l, x.field = "posting_age_days",
         PassesFilters(l, c), ~PassesFilters(l, SetLeaf(c, x.field, x.proposed_value))
  PROVE  ~TooOld(l.age, x.current_value) /\ TooOld(l.age, x.proposed_value)
<1>1. PICK d : d = SetLeaf(c, x.field, x.proposed_value)
  OBVIOUS
<1>2. d.locations = c.locations /\ d.posting_age_days = x.proposed_value
  BY <1>1, LeafIs DEF SameBut
<1>3. x.current_value = c.posting_age_days
  BY DEF Derived, ResolveField
<1> QED BY <1>1, <1>2, <1>3 DEF PassesFilters

LEMMA DerivedNarrows ==
  ASSUME world \in DOMAIN Worlds, NEW c, CriteriaPayload(c), NEW x, Derived(x, c)
  PROVE  /\ ResolveField(c, x.field) = x.current_value
         /\ Narrows(x, c, SetLeaf(c, x.field, x.proposed_value))
<1>1. PICK d : d = SetLeaf(c, x.field, x.proposed_value)
  OBVIOUS
<1>2. CriteriaPayload(d) /\ c # d
  BY <1>1, LeafIs
<1>3. ASSUME NEW j \in Jobs
      PROVE  /\ TooOld(listing[j].age, c.posting_age_days) => TooOld(listing[j].age, d.posting_age_days)
             /\ ComputeFlags(listing[j], c, 0) \subseteq ComputeFlags(listing[j], d, 0)
  <2>1. PICK l : l = listing[j]
    OBVIOUS
  <2>2. IsListing(l)
    BY <2>1, LoopAssumption DEF Jobs, listing
  <2>3. /\ TooOld(l.age, c.posting_age_days) => TooOld(l.age, d.posting_age_days)
        /\ Stretch(l, c) => Stretch(l, d)
        /\ StepDown(l, c) => StepDown(l, d)
        /\ Underpaid(l, c) => Underpaid(l, d)
        /\ Stale(l, c) => Stale(l, d)
    BY <1>1, <2>2, DerivedTightens
  <2>4. ComputeFlags(l, c, 0) \subseteq ComputeFlags(l, d, 0)
    BY <2>3, FlagsAre
  <2> QED BY <2>1, <2>3, <2>4
<1>4. ASSUME x.field \in {"exclusions.title_keywords", "exclusions.employers"}
      PROVE  /\ x.current_value \subseteq x.proposed_value
             /\ Cardinality(x.proposed_value) = Cardinality(x.current_value) + 1
  <2>1. PICK term \in x.proposed_value \ x.current_value :
          x.proposed_value = x.current_value \cup {term}
    BY <1>4 DEF Derived
  <2>2. IsFiniteSet(x.current_value)
    BY <1>4 DEF Derived, ResolveField, CriteriaPayload
  <2> QED BY <2>1, <2>2, FS_AddElement
<1>5. ResolveField(c, x.field) = x.current_value
  BY DEF Derived
<1> QED BY <1>1, <1>2, <1>3, <1>4, <1>5 DEF Narrows

\* What is predicted for a derived change is what the filters and the scorer
\* will do.
LEMMA PredictedIs ==
  ASSUME world \in DOMAIN Worlds, NEW c, CriteriaPayload(c), NEW x, Derived(x, c),
         NEW live \in SUBSET Jobs, NEW y, y.field = x.field, y.current_value = x.current_value,
         y.proposed_value = x.proposed_value, x.effect = PredictEffect(live, listing, y)
  PROVE  EffectHonest(x, c, live)
<1> DEFINE d == SetLeaf(c, x.field, x.proposed_value)
           Raised(e, j) == ComputeFlags(listing[j], e, 0) \ {"posting_stale"}
<1>1. \A j \in live : IsListing(listing[j])
  BY LoopAssumption DEF Jobs, listing
<1>2. CASE x.field = "posting_age_days"
  <2>1. x.effect.added = {j \in live : /\ ~TooOld(listing[j].age, x.current_value)
                                       /\ TooOld(listing[j].age, x.proposed_value)}
    BY <1>2 DEF PredictEffect, PredictFilterChange
  <2>2. \A j \in live : PassesFilters(listing[j], c) /\ ~PassesFilters(listing[j], d) =>
          ~TooOld(listing[j].age, x.current_value) /\ TooOld(listing[j].age, x.proposed_value)
    BY <1>2, DroppedIs
  <2>3. {j \in live : PassesFilters(listing[j], c) /\ ~PassesFilters(listing[j], d)} \subseteq x.effect.added
    BY <2>1, <2>2
  <2> QED BY <1>2, <2>3 DEF EffectHonest
<1>3. CASE x.field \in {"seniority_min", "seniority_max", "compensation_floor"}
  <2>1. x.effect.added = {j \in live : /\ FlagVerdict(listing[j], x.field, x.current_value) = "clear"
                                       /\ FlagVerdict(listing[j], x.field, x.proposed_value) = "raised"}
    BY <1>3 DEF PredictEffect, PredictFlagChange
  <2>2. \A j \in live :
          FlagVerdict(listing[j], x.field, x.current_value) = "clear"
            /\ FlagVerdict(listing[j], x.field, x.proposed_value) = "raised"
          <=> Raised(d, j) \ Raised(c, j) # {}
    BY <1>1, <1>3, VerdictIs
  <2>3. x.effect.added = {j \in live : Raised(d, j) \ Raised(c, j) # {}}
    <3> HIDE DEF d, Raised
    <3> QED BY <2>1, <2>2
  <2> QED BY <1>3, <2>3 DEF EffectHonest
<1>4. CASE x.field \notin {"posting_age_days", "seniority_min", "seniority_max", "compensation_floor"}
  BY <1>4 DEF EffectHonest
<1> QED BY <1>2, <1>3, <1>4

-----------------------------------------------------------------------------
(* The two tables.                                                         *)

\* What no step takes away from a row of either table.
VersionsStay ==
  /\ Cardinality(criteria) <= Cardinality(criteria')
  /\ \A r \in criteria : \E q \in criteria' :
       q.version = r.version /\ q.payload = r.payload /\ q.source = r.source
SameProposal(x, y) ==
  /\ x.field = y.field /\ x.direction = y.direction /\ x.current_value = y.current_value
  /\ x.proposed_value = y.proposed_value /\ x.count = y.count /\ x.effect = y.effect
  /\ x.run = y.run
ProposalsStay ==
  \A i \in DOMAIN proposals :
    /\ i \in DOMAIN proposals' /\ SameProposal(proposals'[i], proposals[i])
    /\ proposals[i].status # "pending" => proposals'[i].status # "pending"
    /\ proposals[i].result # 0 => proposals'[i].result # 0

Criteria == /\ criteria # {} /\ IsFiniteSet(criteria) /\ \A r \in criteria : IsVersion(r)
            /\ NewestIsActive /\ PayloadsValid
Proposals == proposals \in Seq(Range(proposals)) /\ \A i \in DOMAIN proposals : IsProposal(proposals[i])

LEMMA SeqIs ==
  ASSUME NEW f, f \in Seq(Range(f))
  PROVE  Len(f) \in Nat /\ DOMAIN f = 1..Len(f) /\ f = [i \in 1..Len(f) |-> f[i]]
OBVIOUS

LEMMA IsSeq ==
  ASSUME NEW n \in Nat, NEW f, f = [i \in 1..n |-> f[i]]
  PROVE  f \in Seq(Range(f)) /\ Len(f) = n /\ DOMAIN f = 1..n
<1>1. f \in [1..n -> Range(f)]
  BY DEF Range
<1> HIDE DEF Range
<1> QED BY <1>1

LEMMA TablesUnchanged ==
  ASSUME Criteria, Proposals, UNCHANGED <<criteria, proposals>>
  PROVE  VersionsStay /\ ProposalsStay /\ Criteria' /\ Proposals'
<1>1. Cardinality(criteria) \in Nat
  BY FS_CardinalityType DEF Criteria
<1> QED BY <1>1 DEF VersionsStay, ProposalsStay, SameProposal, Criteria, Proposals, NewestIsActive,
            PayloadsValid

\* The versions are as many as their numbers, so that each has its own.
LEMMA OneRowEach ==
  ASSUME Criteria
  PROVE  /\ Cardinality(criteria) \in Nat
         /\ \A r, q \in criteria : r.version = q.version => r = q
<1> DEFINE n == Cardinality(criteria)
           f == [r \in criteria |-> r.version]
<1>1. n \in Nat /\ IsFiniteSet(criteria)
  BY FS_CardinalityType DEF Criteria
<1>2. f \in Surjection(criteria, 1..n)
  BY DEF Criteria, NewestIsActive, Surjection
<1>3. Cardinality(1..n) = n
  BY <1>1, FS_Interval
<1>4. f \in Injection(criteria, 1..n)
  BY <1>1, <1>2, <1>3, FS_SurjSameCardinalityImpliesInj
<1> QED BY <1>1, <1>4 DEF Injection, IsInjective

\* A version whose number is not taken follows the newest; f switches a row
\* off.
LEMMA VersionAdded ==
  ASSUME Criteria, NEW row, IsVersion(row), row.active = TRUE, CriteriaPayload(row.payload),
         row.version \in 1..(Cardinality(criteria) + 1), \A r \in criteria : r.version # row.version,
         NEW f \in [criteria -> criteria'],
         \A r \in criteria : /\ IsVersion(f[r]) /\ f[r].version = r.version /\ f[r].active = FALSE
                             /\ f[r].payload = r.payload /\ f[r].source = r.source,
         criteria' = {f[r] : r \in criteria} \cup {row}
  PROVE  /\ Criteria' /\ VersionsStay /\ row.version = Cardinality(criteria) + 1
         /\ Cardinality(criteria') = Cardinality(criteria) + 1
         /\ \A r \in criteria : r.version < row.version
<1> DEFINE n == Cardinality(criteria)
           old == {f[r] : r \in criteria}
<1>1. n \in Nat /\ \A r, q \in criteria : r.version = q.version => r = q
  BY OneRowEach
<1>2. {r.version : r \in criteria} = 1..n
  BY DEF Criteria, NewestIsActive
<1> HIDE DEF n
<1>4. row.version = n + 1 /\ \A r \in criteria : r.version \in 1..n
  BY <1>1, <1>2 DEF n
<1>5. IsFiniteSet(old) /\ Cardinality(old) = n
  <2>1. f \in Surjection(criteria, old)
    BY DEF Surjection
  <2>2. f \in Injection(criteria, old)
    BY <1>1, <2>1 DEF Surjection, Injection, IsInjective
  <2>3. IsFiniteSet(criteria)
    BY DEF Criteria
  <2> QED BY <2>1, <2>2, <2>3, FS_Surjection DEF n
<1>6. row \notin old /\ criteria' = old \cup {row}
  OBVIOUS
<1>7. IsFiniteSet(criteria') /\ Cardinality(criteria') = n + 1
  <2> HIDE DEF old
  <2> QED BY <1>1, <1>5, <1>6, FS_AddElement
<1>10. {r.version : r \in criteria'} = 1..(n + 1)
  <2>1. \A v \in 1..n : \E q \in criteria' : q.version = v
    <3>1. \A v \in 1..n : \E r \in criteria : r.version = v
      BY <1>2
    <3> QED BY <3>1
  <2>2. \A q \in criteria' : q.version \in 1..(n + 1)
    BY <1>1, <1>4
  <2>3. \A v \in 1..(n + 1) : v \in 1..n \/ v = n + 1
    BY <1>1
  <2>4. row \in criteria'
    OBVIOUS
  <2> QED BY <1>4, <2>1, <2>2, <2>3, <2>4
<1>11. \A q \in criteria' : /\ IsVersion(q) /\ CriteriaPayload(q.payload)
                            /\ q.active <=> q.version = n + 1
  <2>1. \A r \in criteria : f[r].version # n + 1
    BY <1>1, <1>4
  <2>2. \A r \in criteria : CriteriaPayload(f[r].payload)
    BY DEF Criteria, PayloadsValid
  <2> QED BY <1>4, <2>1, <2>2
<1>12. Criteria'
  BY <1>7, <1>10, <1>11 DEF Criteria, NewestIsActive, PayloadsValid
<1>13. VersionsStay
  <2>1. Cardinality(criteria) <= Cardinality(criteria')
    BY <1>1, <1>7 DEF n
  <2> QED BY <2>1 DEF VersionsStay
<1>14. \A r \in criteria : r.version < row.version
  BY <1>1, <1>4
<1> QED BY <1>4, <1>7, <1>12, <1>13, <1>14 DEF n

\* The version that a proposal has resulted in stays, and what it was made of.
LEMMA AppliedStays ==
  ASSUME VersionsStay, NEW x, NEW y, Applied(x, criteria), x.field = y.field,
         x.proposed_value = y.proposed_value, x.result = y.result, y.status # "accepted" \/ x.status = "accepted"
  PROVE  Applied(y, criteria')
BY DEF VersionsStay, Applied

\* A decision stamps one proposal.
LEMMA Stamped ==
  ASSUME Proposals, NEW id, NEW x, id \in DOMAIN proposals => IsProposal(x) /\ SameProposal(x, proposals[id]),
         proposals' = [i \in DOMAIN proposals |-> IF i = id THEN x ELSE proposals[i]]
  PROVE  Proposals' /\ DOMAIN proposals' = DOMAIN proposals /\ Len(proposals') = Len(proposals)
<1>1. Len(proposals) \in Nat /\ DOMAIN proposals = 1..Len(proposals)
  BY SeqIs DEF Proposals
<1>2. proposals' = [i \in 1..Len(proposals) |-> proposals'[i]]
  BY <1>1
<1>3. /\ proposals' \in Seq(Range(proposals')) /\ Len(proposals') = Len(proposals)
      /\ DOMAIN proposals' = DOMAIN proposals
  BY <1>1, <1>2, IsSeq
<1>4. \A i \in DOMAIN proposals : IsProposal(proposals'[i])
  BY DEF Proposals
<1>5. (Range(proposals))' = Range(proposals')
  BY DEF Range
<1> QED BY <1>3, <1>4, <1>5 DEF Proposals

LEMMA SwitchedOff ==
  ASSUME NEW r, IsVersion(r)
  PROVE  LET q == [r EXCEPT !.active = FALSE]
         IN  /\ IsVersion(q) /\ q.version = r.version /\ q.active = FALSE
             /\ q.payload = r.payload /\ q.source = r.source
BY DEF IsVersion

LEMMA VersionTables ==
  ASSUME Criteria, Proposals, AcceptedMeansApplied, NEW s \in Sessions, SessionKept(s), CommitVersion(s)
  PROVE  /\ Criteria' /\ Proposals' /\ AcceptedMeansApplied' /\ VersionsStay /\ ProposalsStay
         /\ DOMAIN proposals' = DOMAIN proposals /\ Len(proposals') = Len(proposals)
         /\ \A i \in DOMAIN proposals :
              \/ proposals'[i] = proposals[i]
              \/ proposals'[i].status = "accepted" /\ proposals'[i].result # 0
<1>0. ASSUME UNCHANGED <<criteria, proposals>>
      PROVE  /\ Criteria' /\ Proposals' /\ AcceptedMeansApplied' /\ VersionsStay /\ ProposalsStay
             /\ DOMAIN proposals' = DOMAIN proposals /\ Len(proposals') = Len(proposals)
             /\ \A i \in DOMAIN proposals : proposals'[i] = proposals[i]
  BY <1>0, TablesUnchanged DEF AcceptedMeansApplied, Applied
<1>1. CASE Taken(s)
  BY <1>0, <1>1 DEF CommitVersion
<1>2. CASE ~Taken(s)
  <2> DEFINE x == session[s]
             row == NewRow(s)
             f == [r \in criteria |-> [r EXCEPT !.active = FALSE]]
             stamped == [proposals[x.id] EXCEPT !.status = "accepted", !.result = x.version]
  <2>1. /\ CriteriaPayload(x.payload) /\ x.id \in {0} \cup DOMAIN proposals
        /\ x.id # 0 => \E q \in criteria :
             x.payload = SetLeaf(q.payload, proposals[x.id].field, proposals[x.id].proposed_value)
        /\ x.version \in 1..(Cardinality(criteria) + 1)
    BY DEF SessionKept, CommitVersion
  <2>2. Cardinality(criteria) \in Nat /\ x.version \in Nat \ {0}
    BY <2>1, OneRowEach
  <2>3. /\ row.version = x.version /\ row.active = TRUE /\ row.payload = x.payload
        /\ x.id # 0 => row.source = "proposal_accepted"
        /\ IsVersion(row)
    BY <2>2 DEF NewRow, IsVersion
  <2>4. \A r \in criteria : r.version # row.version
    BY <1>2, <2>3 DEF Taken
  <2>5. \A r \in criteria : /\ IsVersion(f[r]) /\ f[r].version = r.version /\ f[r].active = FALSE
                            /\ f[r].payload = r.payload /\ f[r].source = r.source
    BY SwitchedOff DEF Criteria
  <2>6. criteria' = {f[r] : r \in criteria} \cup {row}
    <3>1. criteria' = {[r EXCEPT !.active = FALSE] : r \in criteria} \cup {row}
      BY <1>2 DEF CommitVersion
    <3>2. {[r EXCEPT !.active = FALSE] : r \in criteria} = {f[r] : r \in criteria}
      OBVIOUS
    <3> QED BY <3>1, <3>2
  <2>7. f \in [criteria -> criteria']
    BY <2>6
  <2>8. proposals' = [i \in DOMAIN proposals |-> IF i = x.id THEN stamped ELSE proposals[i]]
    BY <1>2 DEF CommitVersion
  <2> HIDE DEF f
  <2>9. Criteria' /\ VersionsStay /\ \A r \in criteria : r.version < row.version
    <3>1. CriteriaPayload(row.payload) /\ row.version \in 1..(Cardinality(criteria) + 1)
      BY <2>1, <2>3
    <3>2. IsVersion(row) /\ row.active = TRUE
      BY <2>3
    <3> HIDE DEF row
    <3> QED BY <3>1, <3>2, <2>4, <2>5, <2>6, <2>7, VersionAdded
  <2>10. ASSUME x.id \in DOMAIN proposals
         PROVE  /\ IsProposal(stamped) /\ SameProposal(stamped, proposals[x.id])
                /\ stamped.status = "accepted" /\ stamped.result = x.version
    <3>1. IsProposal(proposals[x.id]) /\ x.version \in Nat
      BY <2>2, <2>10 DEF Proposals
    <3> DEFINE y == proposals[x.id]
               n == x.version
    <3>2. stamped = [y EXCEPT !.status = "accepted", !.result = n] /\ IsProposal(y) /\ n \in Nat
      BY <3>1
    <3> HIDE DEF y, n, stamped
    <3>3. IsProposal(stamped) /\ SameProposal(stamped, y) /\ stamped.status = "accepted" /\ stamped.result = n
      BY <3>2 DEF IsProposal, SameProposal
    <3> QED BY <3>3 DEF y, n
  <2> HIDE DEF stamped, row
  <2>11. Proposals' /\ DOMAIN proposals' = DOMAIN proposals /\ Len(proposals') = Len(proposals)
    BY <2>8, <2>10, Stamped
  <2>12. ProposalsStay
    BY <2>2, <2>8, <2>10, <2>11 DEF ProposalsStay, SameProposal
  <2>13. DOMAIN proposals = 1..Len(proposals)
    BY SeqIs DEF Proposals
  <2>14. row \in criteria'
    BY <2>6
  <2>15. ASSUME NEW i \in DOMAIN proposals PROVE Applied(proposals'[i], criteria')
    <3>1. CASE i = x.id
      <4>1. PICK q \in criteria :
              x.payload = SetLeaf(q.payload, proposals[x.id].field, proposals[x.id].proposed_value)
        BY <2>1, <2>13, <3>1
      <4>2. PICK p \in criteria' : p.version = q.version /\ p.payload = q.payload
        BY <2>9 DEF VersionsStay
      <4>3. /\ proposals'[i] = stamped /\ i # 0 /\ stamped.field = proposals[x.id].field
            /\ stamped.proposed_value = proposals[x.id].proposed_value
        BY <2>8, <2>10, <2>13, <3>1 DEF SameProposal
      <4>4. p.version < row.version
        BY <2>9, <4>2
      <4> QED BY <2>2, <2>3, <2>10, <2>14, <3>1, <4>1, <4>2, <4>3, <4>4 DEF Applied
    <3>2. CASE i # x.id
      <4>1. proposals'[i] = proposals[i] /\ Applied(proposals[i], criteria)
        BY <2>8, <3>2 DEF AcceptedMeansApplied
      <4> QED BY <2>9, <4>1, AppliedStays
    <3> QED BY <3>1, <3>2
  <2>16. AcceptedMeansApplied'
    BY <2>11, <2>15 DEF AcceptedMeansApplied
  <2>17. \A i \in DOMAIN proposals :
              \/ proposals'[i] = proposals[i]
              \/ proposals'[i].status = "accepted" /\ proposals'[i].result # 0
    BY <2>2, <2>8, <2>10
  <2> QED BY <2>9, <2>11, <2>12, <2>16, <2>17
<1> QED BY <1>1, <1>2

LEMMA RejectTables ==
  ASSUME Criteria, Proposals, AcceptedMeansApplied, NEW s \in Sessions, SessionKept(s), CommitReject(s)
  PROVE  /\ Criteria' /\ Proposals' /\ AcceptedMeansApplied' /\ VersionsStay /\ ProposalsStay
         /\ DOMAIN proposals' = DOMAIN proposals /\ Len(proposals') = Len(proposals)
         /\ \A i \in DOMAIN proposals :
              \/ proposals'[i] = proposals[i]
              \/ proposals'[i].status = "rejected" /\ proposals'[i].result = proposals[i].result
<1> DEFINE id == session[s].id
           x == [proposals[id] EXCEPT !.status = "rejected"]
<1>1. id \in DOMAIN proposals /\ UNCHANGED criteria
  BY DEF SessionKept, CommitReject
<1>2. proposals' = [proposals EXCEPT ![id] = [@ EXCEPT !.status = "rejected"]]
  BY DEF CommitReject
<1>3. proposals' = [i \in DOMAIN proposals |-> IF i = id THEN x ELSE proposals[i]]
  BY <1>1, <1>2
<1>4. /\ IsProposal(x) /\ SameProposal(x, proposals[id])
      /\ x.status = "rejected" /\ x.result = proposals[id].result
  BY <1>1 DEF Proposals, IsProposal, SameProposal
<1> HIDE DEF x, id
<1>5. Proposals' /\ DOMAIN proposals' = DOMAIN proposals /\ Len(proposals') = Len(proposals)
  BY <1>3, <1>4, Stamped
<1>6. ProposalsStay
  BY <1>3, <1>4, <1>5 DEF ProposalsStay, SameProposal
<1>7. Criteria' /\ VersionsStay
  <2>1. Cardinality(criteria) \in Nat
    BY OneRowEach
  <2> QED BY <1>1, <2>1 DEF Criteria, NewestIsActive, PayloadsValid, VersionsStay
<1>8. ASSUME NEW i \in DOMAIN proposals PROVE Applied(proposals'[i], criteria')
  <2>1. /\ Applied(proposals[i], criteria) /\ proposals[i].field = proposals'[i].field
        /\ proposals[i].proposed_value = proposals'[i].proposed_value
        /\ proposals[i].result = proposals'[i].result
        /\ proposals'[i].status # "accepted" \/ proposals[i].status = "accepted"
    BY <1>3, <1>4 DEF AcceptedMeansApplied, SameProposal
  <2> QED BY <1>7, <2>1, AppliedStays
<1>9. AcceptedMeansApplied'
  BY <1>5, <1>8 DEF AcceptedMeansApplied
<1> QED BY <1>3, <1>4, <1>5, <1>6, <1>7, <1>9

LEMMA Listed ==
  ASSUME NEW S, IsFiniteSet(S)
  PROVE  /\ Cardinality(S) \in Nat /\ SetToSeq(S) \in [1..Cardinality(S) -> S]
         /\ \A i, k \in 1..Cardinality(S) : SetToSeq(S)[i] = SetToSeq(S)[k] => i = k
<1>1. Cardinality(S) \in Nat /\ \E f : f \in Bijection(1..Cardinality(S), S)
  BY FS_CardinalityType DEF ExistsBijection
<1>2. \E f \in [1..Cardinality(S) -> S] : IsInjective(f)
  BY <1>1 DEF Bijection, Injection
<1>3. SetToSeq(S) \in [1..Cardinality(S) -> S] /\ IsInjective(SetToSeq(S))
  BY <1>2 DEF SetToSeq
<1> QED BY <1>1, <1>3 DEF IsInjective

\* A pass adds its proposals, each of them once, behind those that are there.
LEMMA PassTables ==
  ASSUME Criteria, Proposals, AcceptedMeansApplied, NEW p \in Passes, PassKept(p), CommitPass(p)
  PROVE  /\ Criteria' /\ Proposals' /\ AcceptedMeansApplied' /\ VersionsStay /\ ProposalsStay
         /\ Len(proposals) \in Nat /\ Len(proposals') \in Nat /\ Len(proposals) <= Len(proposals')
         /\ DOMAIN proposals = 1..Len(proposals) /\ DOMAIN proposals' = 1..Len(proposals')
         /\ \A i \in DOMAIN proposals : proposals'[i] = proposals[i]
         /\ \A k \in DOMAIN proposals' \ DOMAIN proposals : proposals'[k] \in pass[p].adding
         /\ \A i, k \in DOMAIN proposals' \ DOMAIN proposals : proposals'[i] = proposals'[k] => i = k
<1> DEFINE S == pass[p].adding
           m == Cardinality(S)
           q == SetToSeq(S)
           n == Len(proposals)
<1>1. /\ IsFiniteSet(S)
      /\ \A x \in S : IsProposal(x) /\ x.run = p /\ x.status = "pending" /\ x.result = 0
      /\ \A x, y \in S : x.field = y.field => x = y
  BY DEF PassKept, CommitPass
<1>2. proposals' = proposals \o q /\ UNCHANGED criteria
  BY DEF CommitPass
<1>3. n \in Nat /\ DOMAIN proposals = 1..n
  BY SeqIs DEF Proposals
<1>4. m \in Nat /\ q \in [1..m -> S] /\ \A i, k \in 1..m : q[i] = q[k] => i = k
  BY <1>1, Listed
<1>5. proposals \in Seq(Range(proposals) \cup S) /\ q \in Seq(Range(proposals) \cup S) /\ Len(q) = m
  <2>1. proposals \in Seq(Range(proposals))
    BY DEF Proposals
  <2> HIDE DEF S, q, m
  <2> QED BY <1>4, <2>1
<1> HIDE DEF S, q, m
<1>6. /\ Len(proposals') = n + m /\ DOMAIN proposals' = 1..(n + m)
      /\ \A i \in 1..n : proposals'[i] = proposals[i]
      /\ \A k \in (n + 1)..(n + m) : proposals'[k] = q[k - n]
  BY <1>2, <1>3, <1>4, <1>5
<1>7. /\ \A k \in DOMAIN proposals' \ DOMAIN proposals : proposals'[k] \in S
      /\ \A i, k \in DOMAIN proposals' \ DOMAIN proposals : proposals'[i] = proposals'[k] => i = k
  <2>1. \A k \in DOMAIN proposals' \ DOMAIN proposals :
          k \in (n + 1)..(n + m) /\ k - n \in 1..m /\ k = (k - n) + n
    BY <1>3, <1>4, <1>6
  <2> QED BY <1>4, <1>6, <2>1
<1>8. \A k \in DOMAIN proposals' \ DOMAIN proposals :
        IsProposal(proposals'[k]) /\ Applied(proposals'[k], criteria')
  BY <1>1, <1>7 DEF Applied
<1>9. VersionsStay /\ Criteria'
  BY <1>2, OneRowEach DEF Criteria, NewestIsActive, PayloadsValid, VersionsStay
<1>10. Proposals'
  <2>1. proposals' \in Seq(Range(proposals) \cup S)
    BY <1>2, <1>5
  <2>2. proposals' \in Seq(Range(proposals'))
    <3>1. proposals' = [i \in 1..(n + m) |-> proposals'[i]]
      BY <1>6, <2>1
    <3> QED BY <1>3, <1>4, <3>1, IsSeq
  <2>3. (Range(proposals))' = Range(proposals')
    BY DEF Range
  <2>4. \A i \in DOMAIN proposals : IsProposal(proposals'[i])
    BY <1>3, <1>6 DEF Proposals
  <2> QED BY <1>8, <2>2, <2>3, <2>4 DEF Proposals
<1>11. ProposalsStay
  <2>1. \A i \in DOMAIN proposals : i \in DOMAIN proposals' /\ proposals'[i] = proposals[i]
    BY <1>3, <1>4, <1>6
  <2> QED BY <2>1 DEF ProposalsStay, SameProposal
<1>12. AcceptedMeansApplied'
  <2>1. \A i \in DOMAIN proposals : proposals'[i] = proposals[i]
    BY <1>3, <1>6
  <2>2. \A i \in DOMAIN proposals : Applied(proposals'[i], criteria')
    BY <1>2, <2>1 DEF AcceptedMeansApplied
  <2> QED BY <1>8, <2>2 DEF AcceptedMeansApplied
<1> QED BY <1>3, <1>4, <1>6, <1>7, <1>9, <1>10, <1>11, <1>12 DEF S

-----------------------------------------------------------------------------
(* The sessions.                                                           *)

Tables == Criteria /\ Proposals /\ AcceptedMeansApplied
SessionType == DOMAIN session = Sessions /\ \A s \in Sessions :
  session[s].at \in {"idle", "loaded", "form", "applied", "numbered", "rejecting"}

\* Whatever happens to the tables, what a session has read stays there.
LEMMA SessionStays ==
  ASSUME Criteria, Criteria', VersionsStay, ProposalsStay, NEW s, session'[s] = session[s],
         SessionKept(s)
  PROVE  SessionKept(s)'
<1> DEFINE x == session[s]
<1>1. Cardinality(criteria) \in Nat /\ Cardinality(criteria') \in Nat
      /\ Cardinality(criteria) <= Cardinality(criteria')
  BY FS_CardinalityType DEF Criteria, VersionsStay
<1>2. x.at \in {"loaded", "rejecting"} => x.id \in DOMAIN proposals'
  BY DEF SessionKept, ProposalsStay
<1>3. ASSUME x.at \in {"applied", "numbered"}
      PROVE  /\ CriteriaPayload(x.payload) /\ x.id \in {0} \cup DOMAIN proposals'
             /\ x.id # 0 => \E q \in criteria' :
                  x.payload = SetLeaf(q.payload, proposals'[x.id].field, proposals'[x.id].proposed_value)
  <2>1. /\ CriteriaPayload(x.payload) /\ x.id \in {0} \cup DOMAIN proposals
        /\ x.id # 0 => \E q \in criteria :
             x.payload = SetLeaf(q.payload, proposals[x.id].field, proposals[x.id].proposed_value)
    BY <1>3 DEF SessionKept
  <2>2. \A i \in DOMAIN proposals :
          /\ i \in DOMAIN proposals' /\ proposals'[i].field = proposals[i].field
          /\ proposals'[i].proposed_value = proposals[i].proposed_value
    BY DEF ProposalsStay, SameProposal
  <2>3. \A q \in criteria : \E r \in criteria' : r.payload = q.payload
    BY DEF VersionsStay
  <2> HIDE DEF x
  <2> QED BY <2>1, <2>2, <2>3
<1>4. x.at = "numbered" => x.version \in 1..(Cardinality(criteria') + 1)
  BY <1>1 DEF SessionKept
<1> QED BY <1>2, <1>3, <1>4 DEF SessionKept

LEMMA OthersStay ==
  ASSUME Criteria, Criteria', VersionsStay, ProposalsStay, SessionType, SessionsKept,
         NEW s \in Sessions, NEW state, Goto(s, state), SessionKept(s)',
         state.at \in {"idle", "loaded", "form", "applied", "numbered", "rejecting"}
  PROVE  SessionType' /\ SessionsKept'
<1>1. \A t \in Sessions : session'[t] = IF t = s THEN state ELSE session[t]
  BY DEF Goto, SessionType
<1>2. SessionType'
  BY <1>1 DEF Goto, SessionType
<1>3. ASSUME NEW t \in Sessions PROVE SessionKept(t)'
  <2>1. CASE t = s
    BY <2>1
  <2>2. CASE t # s
    BY <1>1, <2>2, SessionStays DEF SessionsKept
  <2> QED BY <2>1, <2>2
<1> QED BY <1>2, <1>3 DEF SessionsKept

LEMMA IdleKept ==
  ASSUME NEW s, session'[s] = Idle
  PROVE  SessionKept(s)'
BY DEF SessionKept, Idle

\* The newest version is the active one, and it is in the table.
LEMMA ActiveIs ==
  ASSUME Criteria
  PROVE  /\ Active \in criteria /\ IsVersion(Active) /\ CriteriaPayload(Active.payload)
         /\ Cardinality(criteria) \in Nat \ {0} /\ Max({r.version : r \in criteria}) = Cardinality(criteria)
<1> DEFINE n == Cardinality(criteria)
           V == {r.version : r \in criteria}
<1>1. n \in Nat \ {0} /\ V = 1..n
  BY OneRowEach, FS_EmptySet DEF Criteria, NewestIsActive
<1>2. n \in V /\ \A v \in V : n >= v
  BY <1>1
<1>3. PICK r \in criteria : r.version = n
  BY <1>2
<1>4. r.active
  BY <1>3 DEF Criteria, NewestIsActive
<1>5. Active \in criteria
  BY <1>4 DEF Active
<1>6. IsVersion(Active) /\ CriteriaPayload(Active.payload)
  BY <1>5 DEF Criteria, PayloadsValid
<1>7. Max(V) = n
  <2>1. \A v \in V : v \in Nat
    BY <1>1
  <2>2. \A v \in V : (\A w \in V : v >= w) => v = n
    BY <1>1, <1>2, <2>1
  <2> HIDE DEF V, n
  <2> QED BY <1>2, <2>2 DEF Max
<1> QED BY <1>1, <1>5, <1>6, <1>7

\* What each step of a session leaves it with.
Deciding(s) ==
  \/ \E i \in DOMAIN proposals : LoadToAccept(s, i) \/ LoadToReject(s, i)
  \/ ApplyProposedChange(s) \/ OpenForm(s) \/ \E edit \in ManualEdits : SaveCriteria(s, edit)
  \/ NumberVersion(s)

LEMMA DecidingKeeps ==
  ASSUME Tables, SessionType, SessionsKept, NEW s \in Sessions, Deciding(s)
  PROVE  /\ UNCHANGED <<jobs, criteria, notes, proposals, pass>>
         /\ SessionType' /\ SessionsKept'
<1> DEFINE x == session[s]
<1>1. UNCHANGED <<jobs, criteria, notes, proposals, pass>>
  BY DEF Deciding, LoadToAccept, LoadToReject, ApplyProposedChange, OpenForm, SaveCriteria, NumberVersion
<1>2. Criteria /\ Criteria' /\ VersionsStay /\ ProposalsStay
  BY <1>1, TablesUnchanged DEF Tables
<1>3. SessionKept(s)
  BY DEF SessionsKept
<1>4. \A state : Goto(s, state) => session'[s] = state
  BY DEF Goto, SessionType
<1>5. ASSUME NEW i \in DOMAIN proposals, LoadToAccept(s, i) \/ LoadToReject(s, i)
      PROVE  SessionType' /\ SessionsKept'
  <2>1. PICK state : /\ Goto(s, state) /\ state.at \in {"loaded", "rejecting"} /\ state.id = i
    BY <1>5 DEF LoadToAccept, LoadToReject
  <2>2. session'[s].at \in {"loaded", "rejecting"} /\ session'[s].id = i
    BY <1>4, <2>1
  <2>3. SessionKept(s)'
    BY <1>1, <2>2 DEF SessionKept
  <2> QED BY <1>2, <2>1, <2>3, OthersStay
<1>6. CASE ApplyProposedChange(s)
  <2> DEFINE new == SetLeaf(Active.payload, proposals[x.id].field, proposals[x.id].proposed_value)
  <2>1. x.at = "loaded" /\ x.id \in DOMAIN proposals
    BY <1>3, <1>6 DEF ApplyProposedChange, SessionKept
  <2>2. Active \in criteria
    BY <1>2, ActiveIs
  <2>3. PICK state :
          /\ Goto(s, state)
          /\ \/ state = Idle
             \/ state.at = "applied" /\ state.id = x.id /\ state.payload = new /\ CriteriaPayload(new)
    BY <1>6 DEF ApplyProposedChange
  <2>4. state.at \in {"idle", "applied"} /\ session'[s] = state
    BY <1>4, <2>3 DEF Idle
  <2>5. SessionKept(s)'
    <3>1. CASE state = Idle
      BY <2>4, <3>1, IdleKept
    <3>2. CASE state.at = "applied" /\ state.id = x.id /\ state.payload = new /\ CriteriaPayload(new)
      BY <1>1, <2>1, <2>2, <2>4, <3>2 DEF SessionKept
    <3> QED BY <2>3, <3>1, <3>2
  <2> QED BY <1>1, <1>2, <2>3, <2>4, <2>5, OthersStay
<1>7. CASE OpenForm(s)
  <2>1. PICK state : Goto(s, state) /\ state.at = "form"
    BY <1>7 DEF OpenForm
  <2>2. session'[s].at = "form"
    BY <1>4, <2>1
  <2>3. SessionKept(s)'
    BY <2>2 DEF SessionKept
  <2> QED BY <1>1, <1>2, <2>1, <2>3, OthersStay
<1>8. ASSUME NEW edit \in ManualEdits, SaveCriteria(s, edit) PROVE SessionType' /\ SessionsKept'
  <2>1. PICK state :
          /\ Goto(s, state)
          /\ \/ state = Idle
             \/ state.at = "applied" /\ state.id = 0 /\ CriteriaPayload(state.payload)
    BY <1>8 DEF SaveCriteria
  <2>2. state.at \in {"idle", "applied"} /\ session'[s] = state
    BY <1>4, <2>1 DEF Idle
  <2>3. SessionKept(s)'
    <3>1. CASE state = Idle
      BY <2>2, <3>1, IdleKept
    <3>2. CASE state.at = "applied" /\ state.id = 0 /\ CriteriaPayload(state.payload)
      BY <2>2, <3>2 DEF SessionKept
    <3> QED BY <2>1, <3>1, <3>2
  <2> QED BY <1>2, <2>1, <2>2, <2>3, OthersStay
<1>9. CASE NumberVersion(s)
  <2>1. PICK state : /\ Goto(s, state) /\ state.at = "numbered" /\ state.id = x.id
                     /\ state.payload = x.payload /\ state.version = Max({r.version : r \in criteria}) + 1
    <3>1. PICK next : next = Max({r.version : r \in criteria}) + 1
      OBVIOUS
    <3>2. PICK state : state = [at |-> "numbered", id |-> x.id, payload |-> x.payload, version |-> next]
      OBVIOUS
    <3>3. Goto(s, state)
      BY <1>9, <3>1, <3>2 DEF NumberVersion
    <3>4. state.at = "numbered" /\ state.id = x.id /\ state.payload = x.payload /\ state.version = next
      BY <3>2
    <3> QED BY <3>1, <3>3, <3>4
  <2>2. state.version \in 1..(Cardinality(criteria) + 1)
    BY <1>2, <2>1, ActiveIs
  <2>3. session'[s] = state /\ x.at = "applied"
    BY <1>4, <1>9, <2>1 DEF NumberVersion
  <2>4. SessionKept(s)'
    BY <1>1, <1>3, <2>1, <2>2, <2>3 DEF SessionKept
  <2> QED BY <1>1, <1>2, <2>1, <2>4, OthersStay
<1> QED BY <1>1, <1>5, <1>6, <1>7, <1>8, <1>9 DEF Deciding

-----------------------------------------------------------------------------
(* The passes.                                                             *)

PassType == DOMAIN pass = Passes /\ \A p \in Passes : pass[p].at \in {"idle", "read", "gated", "ready"}

LEMMA PassesStay ==
  ASSUME PassType, PassesKept, UNCHANGED world, NEW p \in Passes, NEW state, Proceed(p, state),
         state.at \in {"idle", "read", "gated", "ready"}, PassKept(p)'
  PROVE  PassType' /\ PassesKept'
<1>1. \A q \in Passes : pass'[q] = IF q = p THEN state ELSE pass[q]
  BY DEF Proceed, PassType
<1>2. PassType'
  BY <1>1 DEF Proceed, PassType
<1>3. ASSUME NEW q \in Passes PROVE PassKept(q)'
  <2>1. CASE q = p
    BY <2>1
  <2>2. CASE q # p
    <3>1. pass'[q] = pass[q] /\ PassKept(q)
      BY <1>1, <2>2 DEF PassesKept
    <3> QED BY <3>1 DEF PassKept, Jobs, listing
  <2> QED BY <2>1, <2>2
<1> QED BY <1>2, <1>3 DEF PassesKept

\* The quotes of the notes do not add a candidate.
LEMMA Folded ==
  ASSUME NEW J, NEW D, Distinct(D, PERMITTED_EDIT_FIELDS, J),
         NEW quotes, \A c \in D : quotes[c.field] \in Nat, NEW G, G \subseteq FoldClaims(D, quotes)
  PROVE  /\ IsFiniteSet(G) /\ \A c \in G : IsCandidate(c, J)
         /\ \A c, d \in G : c.field = d.field => c = d
<1> DEFINE Fold(c) == [c EXCEPT !.quotes = quotes[c.field]]
<1>1. ASSUME NEW c \in D PROVE IsCandidate(Fold(c), J) /\ Fold(c).field = c.field
  <2>1. IsCandidate(c, J) /\ quotes[c.field] \in Nat
    BY DEF Distinct
  <2>2. PICK n \in Nat : n = quotes[c.field]
    BY <2>1
  <2>3. IsCandidate([c EXCEPT !.quotes = n], J) /\ [c EXCEPT !.quotes = n].field = c.field
    BY <2>1 DEF IsCandidate
  <2> QED BY <2>2, <2>3
<1>2. IsFiniteSet(FoldClaims(D, quotes))
  <2>1. IsFiniteSet(D)
    BY DEF Distinct
  <2>2. FoldClaims(D, quotes) = {Fold(c) : c \in D}
    BY DEF FoldClaims
  <2> DEFINE f == [c \in D |-> Fold(c)]
  <2> HIDE DEF Fold
  <2>3. f \in Surjection(D, {Fold(c) : c \in D})
    BY DEF Surjection
  <2>4. IsFiniteSet({Fold(c) : c \in D})
    BY <2>1, <2>3, FS_Surjection
  <2> QED BY <2>2, <2>4
<1>3. IsFiniteSet(G)
  BY <1>2, FS_Subset
<1>4. \A g \in G : \E c \in D : g = Fold(c)
  BY DEF FoldClaims
<1> HIDE DEF Fold
<1>5. \A c, d \in D : c.field = d.field => c = d
  BY DEF Distinct
<1> QED BY <1>1, <1>3, <1>4, <1>5

LEMMA SignalsAreOfJobs ==
  DOMAIN Signals \in SUBSET Jobs
BY DEF Signals

LEMMA JobsFinite ==
  ASSUME world \in DOMAIN Worlds
  PROVE  IsFiniteSet(Jobs)
BY LoopAssumption DEF Jobs, listing

LEMMA DetectKeeps ==
  ASSUME world \in DOMAIN Worlds, PassType, PassesKept, NEW p \in Passes, Detect(p)
  PROVE  PassType' /\ PassesKept'
<1> DEFINE D == DetectCandidates(Signals, listing, flags, Active.payload)
<1>1. PICK quotes \in Claims(D, pass[p].version) :
        LET gated == {c \in FoldClaims(D, quotes) : MeetsThreshold(c)}
        IN Proceed(p, IF gated = {} THEN Idle
                      ELSE [at |-> "gated", base |-> Active.payload, candidates |-> gated])
  BY DEF Detect
<1> DEFINE gated == {c \in FoldClaims(D, quotes) : MeetsThreshold(c)}
<1>2. Distinct(D, PERMITTED_EDIT_FIELDS, Jobs)
  BY DetectIs, SignalsAreOfJobs
<1> HIDE DEF D
<1>3. \A c \in D : quotes[c.field] \in Nat
  <2>1. quotes \in [{c.field : c \in D} -> Nat]
    BY <1>1, LoopAssumption DEF Claims
  <2> QED BY <2>1
<1>4. gated \subseteq FoldClaims(D, quotes)
  OBVIOUS
<1>5. PICK state :
        /\ Proceed(p, state)
        /\ \/ state = Idle
           \/ state.at = "gated" /\ state.candidates = gated
  <2>1. PICK state : state = IF gated = {} THEN Idle
                             ELSE [at |-> "gated", base |-> Active.payload, candidates |-> gated]
    OBVIOUS
  <2>2. Proceed(p, state)
    BY <1>1, <2>1
  <2> HIDE DEF gated
  <2> QED BY <2>1, <2>2
<1> HIDE DEF gated
<1>6. /\ IsFiniteSet(gated) /\ \A c \in gated : IsCandidate(c, Jobs)
      /\ \A c, d \in gated : c.field = d.field => c = d
  BY <1>2, <1>3, <1>4, Folded
<1>7. UNCHANGED world
  BY DEF Detect, jobs
<1>8. Jobs' = Jobs
  BY <1>7 DEF Jobs, listing
<1>9. pass'[p] = state
  BY <1>5 DEF Proceed, PassType
<1>10. PassKept(p)' /\ state.at \in {"idle", "gated"}
  <2>1. CASE state = Idle
    BY <1>9, <2>1 DEF PassKept, Idle
  <2>2. CASE state.at = "gated" /\ state.candidates = gated
    BY <1>6, <1>8, <1>9, <2>2 DEF PassKept
  <2> QED BY <1>5, <2>1, <2>2
<1> QED BY <1>5, <1>7, <1>10, PassesStay

\* What a pass makes of the candidates that the history does not block.
LEMMA AddingIs ==
  ASSUME world \in DOMAIN Worlds, PassType, PassesKept, NEW p \in Passes, ReadHistory(p)
  PROVE  /\ UNCHANGED <<jobs, criteria, notes, proposals, session>>
         /\ PassType' /\ PassesKept' /\ pass[p].at = "gated" /\ pass'[p].at = "ready"
         /\ \A q \in Passes \ {p} : pass'[q] = pass[q]
         /\ \A x \in pass'[p].adding : \E c :
              ~Blocks(c) /\ Signature(c) = Signature(x) /\ ObservationCount(c) = x.count
<1> DEFINE K == {d \in pass[p].candidates : ~Blocks(d)}
           A == {Proposal(p, c) : c \in K}
<1>1. PICK adding : adding = A
  OBVIOUS
<1>2. PICK state : state.at = "ready" /\ state.adding = adding /\ Proceed(p, state)
  <2>1. PICK state : state = [at |-> "ready", base |-> pass[p].base, adding |-> adding]
    OBVIOUS
  <2>2. Proceed(p, state)
    BY <1>1, <2>1 DEF ReadHistory
  <2> QED BY <2>1, <2>2
<1>3. /\ UNCHANGED <<jobs, criteria, notes, proposals, session>> /\ pass[p].at = "gated"
      /\ pass'[p] = state /\ \A q \in Passes \ {p} : pass'[q] = pass[q]
  BY <1>2 DEF ReadHistory, Proceed, PassType
<1>4. UNCHANGED world /\ Jobs' = Jobs
  BY <1>3 DEF jobs, Jobs, listing
<1>5. /\ IsFiniteSet(K) /\ \A c \in K : IsCandidate(c, Jobs)
      /\ \A c, d \in K : c.field = d.field => c = d
  <2>1. /\ IsFiniteSet(pass[p].candidates) /\ \A c \in pass[p].candidates : IsCandidate(c, Jobs)
        /\ \A c, d \in pass[p].candidates : c.field = d.field => c = d
    BY <1>3 DEF PassesKept, PassKept
  <2>2. IsFiniteSet(K)
    BY <2>1, FS_Subset
  <2> QED BY <2>1, <2>2
<1>6. ASSUME NEW c \in K
      PROVE  LET x == Proposal(p, c)
             IN  /\ IsProposal(x) /\ x.run = p /\ x.status = "pending" /\ x.result = 0
                 /\ x.field = c.field /\ Signature(c) = Signature(x) /\ ObservationCount(c) = x.count
  <2>1. IsFiniteSet(c.observations) /\ c.quotes \in Nat /\ c.field \in PERMITTED_EDIT_FIELDS
        /\ c.direction \in {"tighten", "increase"}
    BY <1>5, JobsFinite, FS_Subset DEF IsCandidate
  <2>2. ObservationCount(c) \in Nat
    BY <2>1, FS_CardinalityType DEF ObservationCount
  <2>3. PICK n \in Nat : n = ObservationCount(c)
    BY <2>2
  <2>4. PICK effect : effect = PredictEffect(LoadLiveBacklog(status), listing, c)
    OBVIOUS
  <2> DEFINE x == [field |-> c.field, direction |-> c.direction, current_value |-> c.current_value,
                   proposed_value |-> c.proposed_value, count |-> n, effect |-> effect,
                   run |-> p, status |-> "pending", result |-> 0]
  <2>5. Proposal(p, c) = x
    BY <2>3, <2>4 DEF Proposal
  <2>6. IsProposal(x)
    BY <2>1 DEF IsProposal
  <2> QED BY <2>3, <2>5, <2>6 DEF Signature
<1>7. IsFiniteSet(A)
  <2> DEFINE f == [c \in K |-> Proposal(p, c)]
  <2>1. f \in Surjection(K, A)
    <3> HIDE DEF K
    <3> QED BY DEF Surjection
  <2> HIDE DEF K, A, f
  <2> QED BY <1>5, <2>1, FS_Surjection
<1>8. \A x \in A : \E c \in K : x = Proposal(p, c)
  OBVIOUS
<1>9. \A c \in K : ~Blocks(c)
  OBVIOUS
<1> HIDE DEF K, A
<1>10. PassKept(p)'
  <2>1. \A x \in A : IsProposal(x) /\ x.run = p /\ x.status = "pending" /\ x.result = 0
    BY <1>6, <1>8
  <2>2. \A x, y \in A : x.field = y.field => x = y
    BY <1>5, <1>6, <1>8
  <2>3. pass'[p].at = "ready" /\ pass'[p].adding = A
    BY <1>1, <1>2, <1>3
  <2> QED BY <1>7, <2>1, <2>2, <2>3 DEF PassKept
<1>11. PassType' /\ PassesKept'
  BY <1>2, <1>4, <1>10, PassesStay
<1>12. \A x \in A : \E c :
         ~Blocks(c) /\ Signature(c) = Signature(x) /\ ObservationCount(c) = x.count
  BY <1>6, <1>8, <1>9
<1> QED BY <1>1, <1>2, <1>3, <1>11, <1>12

\* The other steps of a pass: it starts, ends or begins to read.
LEMMA PassMoves ==
  ASSUME PassType, PassesKept, UNCHANGED world, NEW p \in Passes, NEW state, Proceed(p, state),
         state.at \in {"idle", "read"}
  PROVE  PassType' /\ PassesKept' /\ pass'[p].at = state.at
         /\ \A q \in Passes \ {p} : pass'[q] = pass[q]
<1>1. pass'[p] = state /\ \A q \in Passes \ {p} : pass'[q] = pass[q]
  BY DEF Proceed, PassType
<1>2. PassKept(p)'
  BY <1>1 DEF PassKept
<1> QED BY <1>1, <1>2, PassesStay

-----------------------------------------------------------------------------
(* The proposals that wait, and the bar for those that come back.          *)

Counted == DuplicatesCounted /\ BarIsRead /\ BarIsKept

LEMMA FiniteCounts ==
  ASSUME Proposals, NEW sig
  PROVE  /\ IsFiniteSet(Waiting(sig)) /\ Cardinality(Waiting(sig)) \in Nat
         /\ IsFiniteSet(Adding(sig)) /\ Cardinality(Adding(sig)) \in Nat
         /\ IsFiniteSet(Passes) /\ Cardinality(Passes) \in Nat
         /\ Cardinality(Adding(sig)) <= Cardinality(Passes)
<1>1. IsFiniteSet(1..Len(proposals)) /\ DOMAIN proposals = 1..Len(proposals) /\ IsFiniteSet(Passes)
  <2>1. Len(proposals) \in Nat /\ DOMAIN proposals = 1..Len(proposals)
    BY SeqIs DEF Proposals
  <2>2. IsFiniteSet(1..Len(proposals))
    BY <2>1, FS_Interval
  <2> QED BY <2>1, <2>2, LoopAssumption
<1>2. Waiting(sig) \subseteq 1..Len(proposals) /\ Adding(sig) \subseteq Passes
  BY <1>1 DEF Waiting, Adding
<1> QED BY <1>1, <1>2, FS_Subset, FS_CardinalityType

\* No pass reads the history or commits.
LEMMA QuietKeeps ==
  ASSUME Proposals, Counted, UNCHANGED proposals,
         \A q \in Passes : pass'[q].at = "ready" => pass'[q] = pass[q]
  PROVE  Counted'
<1>1. ASSUME NEW sig \in PERMITTED_EDIT_FIELDS \X {"tighten", "increase"}
      PROVE  (Cardinality(Waiting(sig)) + Cardinality(Adding(sig)) <= Cardinality(Passes))'
  <2>1. Waiting(sig)' = Waiting(sig) /\ Adding(sig)' \subseteq Adding(sig)
    BY DEF Waiting, Adding
  <2>2. Cardinality(Waiting(sig)) + Cardinality(Adding(sig)) <= Cardinality(Passes)
    BY DEF Counted, DuplicatesCounted
  <2>3. Cardinality(Adding(sig)') <= Cardinality(Adding(sig)) /\ Cardinality(Adding(sig)') \in Nat
    BY <2>1, FiniteCounts, FS_Subset, FS_CardinalityType
  <2> QED BY <2>1, <2>2, <2>3, FiniteCounts
<1>2. BarIsKept'
  BY DEF Counted, BarIsKept, Settled, Later, Signature
<1>3. BarIsRead'
  BY DEF Counted, BarIsRead, Settled, Later, Signature
<1> QED BY <1>1, <1>2, <1>3 DEF Counted, DuplicatesCounted

\* A decision only takes from those that wait, and only a rejection of a
\* proposal that waited adds a bar.
LEMMA DecisionKeeps ==
  ASSUME Proposals, AcceptedMeansApplied, Counted, ProposalsStay, UNCHANGED pass,
         DOMAIN proposals' = DOMAIN proposals, Len(proposals') = Len(proposals),
         \A i \in DOMAIN proposals :
           \/ proposals'[i] = proposals[i]
           \/ proposals'[i].status = "accepted" /\ proposals'[i].result # 0
           \/ proposals'[i].status = "rejected" /\ proposals'[i].result = proposals[i].result
  PROVE  Counted'
<1>1. \A i \in DOMAIN proposals :
        /\ Signature(proposals'[i]) = Signature(proposals[i])
        /\ proposals'[i].run = proposals[i].run /\ proposals'[i].count = proposals[i].count
        /\ proposals[i].status # "pending" => proposals'[i].status # "pending"
  BY DEF ProposalsStay, SameProposal, Signature
<1>2. ASSUME NEW i \in DOMAIN proposals, proposals[i].status # "pending",
             proposals'[i].status = "rejected", proposals'[i].result = 0
      PROVE  proposals[i].status = "rejected" /\ proposals[i].result = 0
  <2>1. proposals[i].status \in {"accepted", "rejected"} /\ proposals[i].result = 0
    BY <1>2 DEF Proposals, IsProposal
  <2>2. Applied(proposals[i], criteria)
    BY DEF AcceptedMeansApplied
  <2> QED BY <2>1, <2>2 DEF Applied
<1>3. DOMAIN proposals = 1..Len(proposals) /\ Len(proposals) \in Nat
  BY SeqIs DEF Proposals
<1>4. ASSUME NEW i \in DOMAIN proposals, NEW n, n \in Nat, n <= Len(proposals), NEW count, Settled(i, n, count)
      PROVE  /\ proposals'[i].status # "pending"
             /\ proposals'[i].status = "rejected" /\ proposals'[i].result = 0
                  /\ ~(\E m \in i+1..n : Signature(proposals'[m]) = Signature(proposals'[i]))
                  => count > proposals'[i].count
  <2>1. \A m \in i+1..n : m \in DOMAIN proposals
    BY <1>3, <1>4
  <2> QED BY <1>1, <1>2, <1>4, <2>1 DEF Settled, Later
<1>5. ASSUME NEW sig \in PERMITTED_EDIT_FIELDS \X {"tighten", "increase"}
      PROVE  (Cardinality(Waiting(sig)) + Cardinality(Adding(sig)) <= Cardinality(Passes))'
  <2>1. Waiting(sig)' \subseteq Waiting(sig) /\ Adding(sig)' = Adding(sig)
    BY <1>1 DEF Waiting, Adding
  <2>2. Cardinality(Waiting(sig)) + Cardinality(Adding(sig)) <= Cardinality(Passes)
    BY DEF Counted, DuplicatesCounted
  <2>3. Cardinality(Waiting(sig)') <= Cardinality(Waiting(sig)) /\ Cardinality(Waiting(sig)') \in Nat
    BY <2>1, FiniteCounts, FS_Subset, FS_CardinalityType
  <2> QED BY <2>1, <2>2, <2>3, FiniteCounts
<1>6. BarIsKept'
  <2> SUFFICES ASSUME NEW i \in DOMAIN proposals, NEW k \in DOMAIN proposals, i < k,
                      Signature(proposals'[k]) = Signature(proposals'[i]), proposals'[i].run = proposals'[k].run
               PROVE  /\ proposals'[i].status # "pending"
                      /\ proposals'[i].status = "rejected" /\ proposals'[i].result = 0
                           /\ ~(\E m \in i+1..(k - 1) : Signature(proposals'[m]) = Signature(proposals'[i]))
                           => proposals'[k].count > proposals'[i].count
    BY DEF BarIsKept, Settled, Later, Signature
  <2>1. k - 1 \in Nat /\ k - 1 <= Len(proposals)
    BY <1>3
  <2>2. Settled(i, k - 1, proposals[k].count)
    BY <1>1 DEF Counted, BarIsKept
  <2> QED BY <1>1, <1>4, <2>1, <2>2
<1>7. BarIsRead'
  <2> SUFFICES ASSUME NEW p \in Passes, pass[p].at = "ready", NEW x \in pass[p].adding,
                      NEW i \in DOMAIN proposals,
                      Signature(proposals'[i]) = Signature(x), proposals'[i].run = p
               PROVE  /\ proposals'[i].status # "pending"
                      /\ proposals'[i].status = "rejected" /\ proposals'[i].result = 0
                           /\ ~(\E m \in i+1..Len(proposals) : Signature(proposals'[m]) = Signature(proposals'[i]))
                           => x.count > proposals'[i].count
    BY DEF BarIsRead, Settled, Later, Signature
  <2>1. Settled(i, Len(proposals), x.count)
    BY <1>1 DEF Counted, BarIsRead
  <2> QED BY <1>3, <1>4, <2>1
<1> QED BY <1>5, <1>6, <1>7 DEF Counted, DuplicatesCounted

\* What a pass that reads the history is about to add.
LEMMA ReadKeeps ==
  ASSUME Proposals, Counted, world \in DOMAIN Worlds, PassType, PassesKept, NEW p \in Passes, ReadHistory(p)
  PROVE  Counted'
<1>1. /\ UNCHANGED proposals /\ pass[p].at = "gated" /\ pass'[p].at = "ready"
      /\ \A q \in Passes \ {p} : pass'[q] = pass[q]
      /\ \A x \in pass'[p].adding : \E c :
           ~Blocks(c) /\ Signature(c) = Signature(x) /\ ObservationCount(c) = x.count
  BY AddingIs
<1>2. PassKept(p)'
  BY AddingIs DEF PassesKept
<1>3. DOMAIN proposals = 1..Len(proposals) /\ Len(proposals) \in Nat
  BY SeqIs DEF Proposals
<1>4. ASSUME NEW x \in pass'[p].adding, NEW i \in DOMAIN proposals, Signature(proposals[i]) = Signature(x)
      PROVE  Settled(i, Len(proposals), x.count)
  <2>1. PICK c : ~Blocks(c) /\ Signature(c) = Signature(x) /\ ObservationCount(c) = x.count
    BY <1>1
  <2> DEFINE same == {k \in DOMAIN proposals : Signature(proposals[k]) = Signature(c)}
             rejected == {k \in same : proposals[k].status = "rejected"}
  <2>2. /\ \A k \in same : proposals[k].status # "pending"
        /\ rejected # {} => ~(x.count <= proposals[Max(rejected)].count)
    BY <2>1 DEF Blocks
  <2>3. i \in same /\ proposals[i].count \in Nat /\ x.count \in Nat
    BY <1>1, <1>2, <1>4, <2>1 DEF Proposals, IsProposal, PassKept
  <2>4. ASSUME proposals[i].status = "rejected", ~Later(i, Len(proposals))
        PROVE  Max(rejected) = i
    <3>1. \A k \in rejected : k \in Nat /\ k <= i
      BY <1>3, <1>4, <2>1, <2>4 DEF Later
    <3>2. i \in rejected /\ i \in Nat
      BY <1>3, <2>3, <2>4
    <3>3. \A k \in rejected : (\A l \in rejected : k >= l) => k = i
      BY <3>1, <3>2
    <3> HIDE DEF rejected
    <3> QED BY <3>1, <3>2, <3>3 DEF Max
  <2>5. ASSUME proposals[i].status = "rejected", ~Later(i, Len(proposals))
        PROVE  x.count > proposals[i].count
    <3>1. Max(rejected) = i /\ rejected # {}
      BY <2>3, <2>4, <2>5
    <3> HIDE DEF rejected
    <3> QED BY <2>2, <2>3, <3>1
  <2> QED BY <2>2, <2>3, <2>5 DEF Settled
<1>5. ASSUME NEW sig \in PERMITTED_EDIT_FIELDS \X {"tighten", "increase"}
      PROVE  (Cardinality(Waiting(sig)) + Cardinality(Adding(sig)) <= Cardinality(Passes))'
  <2>1. Waiting(sig)' = Waiting(sig)
    BY <1>1 DEF Waiting
  <2>2. CASE \E x \in pass'[p].adding : Signature(x) = sig
    <3>1. Waiting(sig) = {}
      BY <1>4, <2>2 DEF Waiting, Settled
    <3>2. Adding(sig)' \subseteq Passes /\ IsFiniteSet(Passes)
      BY LoopAssumption DEF Adding
    <3>3. Cardinality(Adding(sig)') <= Cardinality(Passes) /\ Cardinality(Adding(sig)') \in Nat
      BY <3>2, FS_Subset, FS_CardinalityType
    <3> QED BY <2>1, <3>1, <3>3, FS_EmptySet
  <2>3. CASE ~\E x \in pass'[p].adding : Signature(x) = sig
    <3>1. Adding(sig)' = Adding(sig)
      BY <1>1, <2>3 DEF Adding
    <3> QED BY <2>1, <3>1 DEF Counted, DuplicatesCounted
  <2> QED BY <2>2, <2>3
<1>6. BarIsKept'
  BY <1>1 DEF Counted, BarIsKept, Settled, Later, Signature
<1>7. BarIsRead'
  <2> SUFFICES ASSUME NEW q \in Passes, pass'[q].at = "ready", NEW x \in pass'[q].adding,
                      NEW i \in DOMAIN proposals, Signature(proposals[i]) = Signature(x), proposals[i].run = q
               PROVE  Settled(i, Len(proposals), x.count)
    BY <1>1 DEF BarIsRead, Settled, Later, Signature
  <2>1. CASE q = p
    BY <1>4, <2>1
  <2>2. CASE q # p
    BY <1>1, <2>2 DEF Counted, BarIsRead
  <2> QED BY <2>1, <2>2
<1> QED BY <1>5, <1>6, <1>7 DEF Counted, DuplicatesCounted

LEMMA CommitKeeps ==
  ASSUME Criteria, Proposals, AcceptedMeansApplied, Counted, PassType, PassesKept,
         NEW p \in Passes, CommitPass(p)
  PROVE  Counted'
<1> DEFINE n == Len(proposals)
           new == DOMAIN proposals' \ DOMAIN proposals
<1>1. /\ Proposals' /\ n \in Nat /\ Len(proposals') \in Nat /\ n <= Len(proposals')
      /\ DOMAIN proposals = 1..n /\ DOMAIN proposals' = 1..Len(proposals')
      /\ \A i \in DOMAIN proposals : proposals'[i] = proposals[i]
      /\ \A k \in new : proposals'[k] \in pass[p].adding
      /\ \A i, k \in new : proposals'[i] = proposals'[k] => i = k
  BY PassTables DEF PassesKept
<1>2. /\ pass[p].at = "ready" /\ pass'[p] = Idle /\ \A q \in Passes \ {p} : pass'[q] = pass[q]
  BY DEF CommitPass, Proceed, PassType
<1>3. /\ \A x \in pass[p].adding : x.run = p /\ x.status = "pending"
      /\ \A x, y \in pass[p].adding : x.field = y.field => x = y
  BY <1>2 DEF PassesKept, PassKept
<1>4. \A k \in new : k \in Nat /\ k - 1 \in Nat /\ n <= k - 1
  BY <1>1
<1> HIDE DEF new, n
<1>5. \A i, k \in new : Signature(proposals'[i]) = Signature(proposals'[k]) => i = k
  BY <1>1, <1>3 DEF Signature
<1>6. ASSUME NEW sig \in PERMITTED_EDIT_FIELDS \X {"tighten", "increase"}
      PROVE  (Cardinality(Waiting(sig)) + Cardinality(Adding(sig)) <= Cardinality(Passes))'
  <2>1. Cardinality(Waiting(sig)) + Cardinality(Adding(sig)) <= Cardinality(Passes)
    BY DEF Counted, DuplicatesCounted
  <2>2. /\ IsFiniteSet(Waiting(sig)) /\ Cardinality(Waiting(sig)) \in Nat
        /\ IsFiniteSet(Adding(sig)) /\ Cardinality(Adding(sig)) \in Nat /\ Cardinality(Passes) \in Nat
    BY FiniteCounts
  <2>3. Adding(sig)' = Adding(sig) \ {p}
    BY <1>2 DEF Adding, Idle
  <2>4. ASSUME NEW k \in new, Signature(proposals'[k]) = sig
        PROVE  /\ Cardinality(Waiting(sig)') <= Cardinality(Waiting(sig)) + 1
               /\ Cardinality(Adding(sig)') = Cardinality(Adding(sig)) - 1
               /\ Cardinality(Waiting(sig)') \in Nat
    <3>1. Waiting(sig)' = Waiting(sig) \cup {k}
      BY <1>1, <1>3, <1>5, <2>4 DEF Waiting, new
    <3>2. p \in Adding(sig)
      BY <1>1, <1>2, <2>4 DEF Adding
    <3>3. Cardinality(Waiting(sig)') \in {Cardinality(Waiting(sig)), Cardinality(Waiting(sig)) + 1}
      <4>1. PICK W : W = Waiting(sig)
        OBVIOUS
      <4>2. Cardinality(W \cup {k}) \in {Cardinality(W), Cardinality(W) + 1}
        BY <2>2, <4>1, FS_AddElement
      <4> QED BY <3>1, <4>1, <4>2
    <3>4. Cardinality(Adding(sig)') = Cardinality(Adding(sig)) - 1
      BY <2>2, <2>3, <3>2, FS_RemoveElement
    <3> QED BY <2>2, <3>3, <3>4
  <2>5. CASE ~\E k \in new : Signature(proposals'[k]) = sig
    <3>1. Waiting(sig)' = Waiting(sig)
      BY <1>1, <2>5 DEF Waiting, new
    <3>2. Cardinality(Adding(sig)') <= Cardinality(Adding(sig)) /\ Cardinality(Adding(sig)') \in Nat
      BY <2>2, <2>3, FS_Subset, FS_CardinalityType
    <3> QED BY <2>1, <2>2, <3>1, <3>2
  <2> QED BY <2>1, <2>2, <2>4, <2>5
<1>7. ASSUME NEW i \in DOMAIN proposals, NEW m \in Nat, m >= n, NEW count, Settled(i, n, count)
      PROVE  /\ proposals'[i].status # "pending"
             /\ proposals'[i].status = "rejected" /\ proposals'[i].result = 0
                  /\ ~(\E l \in i+1..m : Signature(proposals'[l]) = Signature(proposals'[i]))
                  => count > proposals'[i].count
  <2>1. \A l \in i+1..n : l \in i+1..m /\ l \in DOMAIN proposals
    BY <1>1, <1>7
  <2> QED BY <1>1, <1>7, <2>1 DEF Settled, Later
<1>8. BarIsRead'
  <2> SUFFICES ASSUME NEW q \in Passes, pass'[q].at = "ready", NEW x \in pass'[q].adding,
                      NEW i \in DOMAIN proposals', Signature(proposals'[i]) = Signature(x), proposals'[i].run = q
               PROVE  /\ proposals'[i].status # "pending"
                      /\ proposals'[i].status = "rejected" /\ proposals'[i].result = 0
                           /\ ~(\E l \in i+1..Len(proposals') : Signature(proposals'[l]) = Signature(proposals'[i]))
                           => x.count > proposals'[i].count
    BY DEF BarIsRead, Settled, Later, Signature
  <2>1. q # p /\ pass'[q] = pass[q]
    BY <1>2 DEF Idle
  <2>2. i \in DOMAIN proposals
    BY <1>1, <1>3, <2>1 DEF new
  <2>3. Settled(i, n, x.count)
    BY <1>1, <2>1, <2>2 DEF Counted, BarIsRead, n
  <2> QED BY <1>1, <1>7, <2>2, <2>3
<1>9. BarIsKept'
  <2> SUFFICES ASSUME NEW i \in DOMAIN proposals', NEW k \in DOMAIN proposals', i < k,
                      Signature(proposals'[k]) = Signature(proposals'[i]), proposals'[i].run = proposals'[k].run
               PROVE  /\ proposals'[i].status # "pending"
                      /\ proposals'[i].status = "rejected" /\ proposals'[i].result = 0
                           /\ ~(\E l \in i+1..(k - 1) : Signature(proposals'[l]) = Signature(proposals'[i]))
                           => proposals'[k].count > proposals'[i].count
    BY DEF BarIsKept, Settled, Later, Signature
  <2>1. CASE k \in new
    <3>1. i \in DOMAIN proposals
      BY <1>1, <1>5, <2>1 DEF new
    <3>2. proposals[i].run = p /\ proposals'[k] \in pass[p].adding
      BY <1>1, <1>3, <2>1, <3>1
    <3>3. Settled(i, n, proposals'[k].count)
      BY <1>1, <1>2, <3>1, <3>2 DEF Counted, BarIsRead, n
    <3> QED BY <1>4, <1>7, <2>1, <3>1, <3>3
  <2>2. CASE k \notin new
    <3>1. k \in DOMAIN proposals /\ i \in DOMAIN proposals /\ \A l \in i+1..(k - 1) : l \in DOMAIN proposals
      BY <1>1, <2>2 DEF new
    <3>2. Settled(i, k - 1, proposals[k].count)
      BY <1>1, <3>1 DEF Counted, BarIsKept
    <3> QED BY <1>1, <3>1, <3>2 DEF Settled, Later
  <2> QED BY <2>1, <2>2
<1> QED BY <1>6, <1>8, <1>9 DEF Counted, DuplicatesCounted

-----------------------------------------------------------------------------
(* The user's reviews.                                                     *)

Reviewing ==
  /\ world \in DOMAIN Worlds /\ DOMAIN history = Jobs /\ status \in [Jobs -> Statuses]
  /\ DOMAIN flags = Jobs

LEMMA ReviewKeeps ==
  ASSUME Reviewing, Review
  PROVE  /\ UNCHANGED <<criteria, proposals, session, pass>> /\ Reviewing' /\ UNCHANGED world
<1>1. ASSUME NEW j \in Jobs, NEW to \in Reviews, NEW quick, UpdateStatus(j, to, quick)
      PROVE  /\ UNCHANGED <<criteria, proposals, session, pass>> /\ Reviewing' /\ UNCHANGED world
  <2>1. to \in Statuses
    BY LoopAssumption
  <2>2. UNCHANGED <<world, flags, criteria, proposals, session, pass>>
    BY <1>1 DEF UpdateStatus
  <2>3. Jobs' = Jobs
    BY <2>2 DEF Jobs, listing
  <2>4. status' = [status EXCEPT ![j] = to] /\ DOMAIN history' = DOMAIN history
    BY <1>1 DEF UpdateStatus
  <2>5. status' \in [Jobs -> Statuses]
    BY <2>1, <2>4 DEF Reviewing
  <2> QED BY <2>2, <2>3, <2>4, <2>5 DEF Reviewing
<1>2. ASSUME UNCHANGED <<world, status, history>>, DOMAIN flags' = DOMAIN flags
      PROVE  Reviewing'
  BY <1>2 DEF Reviewing, Jobs, listing
<1>3. ASSUME NEW j \in Jobs, NEW late, ScoreAgain(j, late)
      PROVE  /\ UNCHANGED <<criteria, proposals, session, pass>> /\ Reviewing' /\ UNCHANGED world
  BY <1>2, <1>3 DEF ScoreAgain
<1>4. CASE CreateFeedback
  BY <1>2, <1>4 DEF CreateFeedback, jobs
<1> QED BY <1>1, <1>3, <1>4 DEF Review

\* What every step keeps of the rows, and so of what the user was told.
RowsStay == VersionsStay /\ ProposalsStay

LEMMA TableInvParts ==
  /\ TableInv <=> Tables /\ SessionType /\ SessionsKept /\ PassType /\ PassesKept /\ Reviewing /\ Counted
  /\ TableInv' <=> Tables' /\ SessionType' /\ SessionsKept' /\ PassType' /\ PassesKept' /\ Reviewing' /\ Counted'
BY DEF TableInv, TypeOK, Tables, Criteria, Proposals, SessionType, PassType, Reviewing, Counted

LEMMA TableInvInit ==
  ASSUME Init
  PROVE  TableInv
<1>1. Tables
  <2> DEFINE row == [version |-> 1, active |-> TRUE, source |-> "manual_edit", payload |-> FirstPayload]
  <2>1. criteria = {row} /\ proposals = <<>>
    BY DEF Init
  <2>2. IsVersion(row)
    BY DEF IsVersion
  <2>3. row.version = 1 /\ row.active = TRUE /\ CriteriaPayload(row.payload)
    BY FirstPayloadAssumption
  <2> HIDE DEF row
  <2>4. IsFiniteSet(criteria) /\ Cardinality(criteria) = 1
    BY <2>1, FS_Singleton
  <2>5. {r.version : r \in criteria} = 1..Cardinality(criteria)
    BY <2>1, <2>3, <2>4
  <2>6. Criteria
    BY <2>1, <2>2, <2>3, <2>4, <2>5 DEF Criteria, NewestIsActive, PayloadsValid
  <2>7. Proposals /\ AcceptedMeansApplied
    BY <2>1 DEF Proposals, AcceptedMeansApplied, Range
  <2> QED BY <2>6, <2>7 DEF Tables
<1>2. /\ session = [s \in Sessions |-> Idle] /\ pass = [p \in Passes |-> Idle] /\ proposals = <<>>
      /\ Idle.at = "idle"
  BY DEF Init, Idle
<1>3. SessionType /\ SessionsKept /\ PassType /\ PassesKept
  BY <1>2 DEF SessionType, SessionsKept, SessionKept, PassType, PassesKept, PassKept
<1>4. Counted
  <2>1. ASSUME NEW sig PROVE Waiting(sig) = {} /\ Adding(sig) = {}
    BY <1>2 DEF Waiting, Adding
  <2>2. Cardinality(Passes) \in Nat
    BY LoopAssumption, FS_CardinalityType
  <2>3. DuplicatesCounted
    <3>1. \A sig : Cardinality(Waiting(sig)) = 0 /\ Cardinality(Adding(sig)) = 0
      BY <2>1, FS_EmptySet
    <3> QED BY <2>2, <3>1 DEF DuplicatesCounted
  <2>4. BarIsRead /\ BarIsKept
    BY <1>2 DEF BarIsRead, BarIsKept
  <2> QED BY <2>3, <2>4 DEF Counted
<1>5. Reviewing
  <2>1. world \in DOMAIN Worlds /\ history = Worlds[world].history /\ DOMAIN history = Jobs
    BY LoopAssumption DEF Init, Jobs, listing
  <2>2. ASSUME NEW j \in Jobs, history[j] # <<>>
        PROVE  Last(history[j]).to \in Statuses
    <3>1. history[j] \in Seq([from : Statuses, to : Statuses, quick : BOOLEAN])
      BY <2>1, LoopAssumption
    <3>2. history[j][Len(history[j])] \in [from : Statuses, to : Statuses, quick : BOOLEAN]
      <4> DEFINE T == [from : Statuses, to : Statuses, quick : BOOLEAN]
      <4> HIDE DEF T
      <4>1. PICK h \in Seq(T) : h = history[j]
        BY <3>1 DEF T
      <4>2. Len(h) \in Nat /\ DOMAIN h = 1..Len(h) /\ Len(h) # 0
        BY <2>2, <4>1
      <4>3. h[Len(h)] \in T
        BY <4>2
      <4> QED BY <4>1, <4>3 DEF T
    <3> QED BY <3>2 DEF Last
  <2>3. "new" \in Statuses
    BY DEF Statuses, LIVE_STATUSES
  <2>4. status = [j \in Jobs |-> IF history[j] = <<>> THEN "new" ELSE Last(history[j]).to]
    BY DEF Init
  <2>5. status \in [Jobs -> Statuses]
    BY <2>2, <2>3, <2>4
  <2>6. DOMAIN flags = Jobs
    BY DEF Init
  <2> QED BY <2>1, <2>5, <2>6 DEF Reviewing
<1> QED BY <1>1, <1>3, <1>4, <1>5, TableInvParts

LEMMA TableInvStep ==
  ASSUME TableInv, [Next]_vars
  PROVE  TableInv' /\ RowsStay
<1>1. Tables /\ SessionType /\ SessionsKept /\ PassType /\ PassesKept /\ Reviewing /\ Counted
  BY TableInvParts
<1>2. ASSUME UNCHANGED <<criteria, proposals>> PROVE Tables' /\ RowsStay
  BY <1>1, <1>2, TablesUnchanged DEF Tables, AcceptedMeansApplied, Applied, RowsStay
<1>3. ASSUME UNCHANGED <<criteria, proposals, session>> PROVE SessionType' /\ SessionsKept'
  BY <1>1, <1>3 DEF SessionType, SessionsKept, SessionKept
<1>4. ASSUME UNCHANGED <<world, pass>> PROVE PassType' /\ PassesKept'
  BY <1>1, <1>4 DEF PassType, PassesKept, PassKept, Jobs, listing
<1>5. ASSUME UNCHANGED <<world, status, history, flags>> PROVE Reviewing'
  BY <1>1, <1>5 DEF Reviewing, Jobs, listing
<1>6. ASSUME UNCHANGED proposals, \A q \in Passes : pass'[q].at = "ready" => pass'[q] = pass[q]
      PROVE  Counted'
  BY <1>1, <1>6, QuietKeeps DEF Tables
<1>7. ASSUME UNCHANGED vars PROVE TableInv' /\ RowsStay
  BY <1>2, <1>3, <1>4, <1>5, <1>6, <1>7, TableInvParts DEF vars, jobs
<1>8. ASSUME Review PROVE TableInv' /\ RowsStay
  <2>1. UNCHANGED <<criteria, proposals, session, pass>> /\ Reviewing' /\ UNCHANGED world
    BY <1>1, <1>8, ReviewKeeps
  <2> QED BY <1>2, <1>3, <1>4, <1>6, <2>1, TableInvParts
<1>9. ASSUME NEW s \in Sessions, Deciding(s) PROVE TableInv' /\ RowsStay
  <2>1. UNCHANGED <<jobs, criteria, notes, proposals, pass>> /\ SessionType' /\ SessionsKept'
    BY <1>1, <1>9, DecidingKeeps
  <2> QED BY <1>2, <1>4, <1>5, <1>6, <2>1, TableInvParts DEF jobs
<1>10. ASSUME NEW s \in Sessions, CommitVersion(s) \/ CommitReject(s) PROVE TableInv' /\ RowsStay
  <2>1. UNCHANGED <<jobs, notes, pass>> /\ Goto(s, Idle) /\ SessionKept(s)
    BY <1>1, <1>10 DEF CommitVersion, CommitReject, SessionsKept
  <2>2. /\ Criteria' /\ Proposals' /\ AcceptedMeansApplied' /\ VersionsStay /\ ProposalsStay
        /\ DOMAIN proposals' = DOMAIN proposals /\ Len(proposals') = Len(proposals)
        /\ \A i \in DOMAIN proposals :
             \/ proposals'[i] = proposals[i]
             \/ proposals'[i].status = "accepted" /\ proposals'[i].result # 0
             \/ proposals'[i].status = "rejected" /\ proposals'[i].result = proposals[i].result
    BY <1>1, <1>10, <2>1, VersionTables, RejectTables DEF Tables
  <2>3. Counted'
    BY <1>1, <2>1, <2>2, DecisionKeeps DEF Tables
  <2>4. session'[s] = Idle
    BY <1>1, <2>1 DEF Goto, SessionType
  <2>5. SessionType' /\ SessionsKept'
    BY <1>1, <2>1, <2>2, <2>4, IdleKept, OthersStay DEF Tables, Idle
  <2> QED BY <1>4, <1>5, <2>1, <2>2, <2>3, <2>5, TableInvParts DEF Tables, RowsStay, jobs
<1>11. ASSUME NEW p \in Passes, StartPass(p) \/ AbandonPass(p) PROVE TableInv' /\ RowsStay
  <2>1. UNCHANGED <<jobs, criteria, notes, proposals, session>>
    BY <1>11 DEF StartPass, AbandonPass
  <2>2. PICK state : Proceed(p, state) /\ state.at \in {"idle", "read"}
    BY <1>11 DEF StartPass, AbandonPass, Idle
  <2>3. PassType' /\ PassesKept' /\ pass'[p].at = state.at /\ \A q \in Passes \ {p} : pass'[q] = pass[q]
    BY <1>1, <2>1, <2>2, PassMoves DEF jobs
  <2>4. \A q \in Passes : pass'[q].at = "ready" => pass'[q] = pass[q]
    BY <2>2, <2>3
  <2> QED BY <1>2, <1>3, <1>5, <1>6, <2>1, <2>3, <2>4, TableInvParts DEF jobs
<1>12. ASSUME NEW p \in Passes, Detect(p) PROVE TableInv' /\ RowsStay
  <2>1. UNCHANGED <<jobs, criteria, notes, proposals, session>>
    BY <1>12 DEF Detect
  <2>2. PassType' /\ PassesKept'
    BY <1>1, <1>12, DetectKeeps DEF Reviewing
  <2>3. pass'[p].at # "ready" /\ \A q \in Passes \ {p} : pass'[q] = pass[q]
    BY <1>1, <1>12 DEF Detect, Proceed, PassType, Idle
  <2> QED BY <1>2, <1>3, <1>5, <1>6, <2>1, <2>2, <2>3, TableInvParts DEF jobs
<1>13. ASSUME NEW p \in Passes, ReadHistory(p) PROVE TableInv' /\ RowsStay
  <2>1. UNCHANGED <<jobs, criteria, notes, proposals, session>> /\ PassType' /\ PassesKept'
    BY <1>1, <1>13, AddingIs DEF Reviewing
  <2>2. Counted'
    BY <1>1, <1>13, ReadKeeps DEF Tables, Reviewing
  <2> QED BY <1>2, <1>3, <1>5, <2>1, <2>2, TableInvParts DEF jobs
<1>14. ASSUME NEW p \in Passes, CommitPass(p) PROVE TableInv' /\ RowsStay
  <2>1. UNCHANGED <<jobs, criteria, notes, session>> /\ Proceed(p, Idle) /\ PassKept(p)
    BY <1>1, <1>14 DEF CommitPass, PassesKept
  <2>2. Criteria' /\ Proposals' /\ AcceptedMeansApplied' /\ VersionsStay /\ ProposalsStay
    BY <1>1, <1>14, <2>1, PassTables DEF Tables
  <2>3. Counted'
    BY <1>1, <1>14, CommitKeeps DEF Tables
  <2>4. PassType' /\ PassesKept'
    BY <1>1, <2>1, PassMoves DEF Idle, jobs
  <2>5. SessionType' /\ SessionsKept'
    BY <1>1, <2>1, <2>2, SessionStays DEF SessionType, SessionsKept, Tables
  <2> QED BY <1>5, <2>1, <2>2, <2>3, <2>4, <2>5, TableInvParts DEF Tables, RowsStay, jobs
<1> QED BY <1>7, <1>8, <1>9, <1>10, <1>11, <1>12, <1>13, <1>14
        DEF Next, Decide, Deciding, Generate

-----------------------------------------------------------------------------
(* The evidence: what the flags, the passes and the proposals are made of. *)

LEMMA JobsAreListings ==
  ASSUME world \in DOMAIN Worlds
  PROVE  IsFiniteSet(Jobs) /\ \A j \in Jobs : IsListing(listing[j])
BY LoopAssumption DEF Jobs, listing

LEMMA AboveStays ==
  ASSUME VersionsStay, NEW amount, Above(amount, criteria)
  PROVE  Above(amount, criteria')
BY DEF VersionsStay, Above

\* Only the field, the current and the proposed value tell what a candidate
\* or a proposal is made of.
LEMMA MadeAlike ==
  ASSUME NEW x, NEW y, NEW base, NEW versions, MadeOf(x, base, versions),
         y.field = x.field, y.current_value = x.current_value, y.proposed_value = x.proposed_value
  PROVE  MadeOf(y, base, versions)
BY DEF MadeOf, Derived

LEMMA MadeStays ==
  ASSUME VersionsStay, NEW x, NEW base, MadeOf(x, base, criteria)
  PROVE  MadeOf(x, base, criteria')
BY AboveStays DEF MadeOf

\* The flag of a listing that is below the floor.
LEMMA BelowIs ==
  ASSUME NEW c, CriteriaPayload(c), NEW l, IsListing(l), NEW late,
         "comp_below_floor" \in ComputeFlags(l, c, late)
  PROVE  /\ c.compensation_floor.amount # Unset /\ l.comp.min \in Int
         /\ c.compensation_floor.amount > l.comp.min
<1> DEFINE amount == c.compensation_floor.amount
<1>1. CompareToFloor(l.comp, c.compensation_floor) = "below"
  BY DEF ComputeFlags
<1>2. amount # Unset /\ l.comp.min # Unset /\ ~(l.comp.min >= amount)
  BY <1>1 DEF CompareToFloor
<1>3. amount \in {Unset} \cup Int /\ l.comp.min \in {Unset} \cup Int
  BY DEF CriteriaPayload, IsListing
<1> HIDE DEF amount
<1>4. amount > l.comp.min
  BY <1>2, <1>3
<1> QED BY <1>2, <1>3, <1>4 DEF amount

LEMMA FlagsStay ==
  ASSUME FlagsKept, VersionsStay, UNCHANGED <<world, flags>>
  PROVE  FlagsKept'
BY AboveStays DEF FlagsKept, Jobs, listing

LEMMA ScoreKeepsFlags ==
  ASSUME Criteria, Reviewing, FlagsKept, NEW j \in Jobs, NEW late, ScoreAgain(j, late)
  PROVE  FlagsKept'
<1>1. UNCHANGED <<world, criteria>> /\ Jobs' = Jobs /\ listing' = listing
  BY DEF ScoreAgain, Jobs, listing
<1>2. \A k \in Jobs : flags'[k] = IF k = j THEN ComputeFlags(listing[j], Active.payload, late)
                                  ELSE flags[k]
  BY DEF ScoreAgain, Reviewing
<1>3. ASSUME NEW k \in Jobs, "comp_below_floor" \in flags'[k]
      PROVE  Above(listing[k].comp.min, criteria)
  <2>1. CASE k = j
    <3>1. "comp_below_floor" \in ComputeFlags(listing[j], Active.payload, late)
      BY <1>2, <1>3, <2>1
    <3>2. Active \in criteria /\ CriteriaPayload(Active.payload) /\ IsListing(listing[j])
      BY ActiveIs, JobsAreListings DEF Reviewing
    <3>3. /\ Active.payload.compensation_floor.amount # Unset
          /\ Active.payload.compensation_floor.amount > listing[j].comp.min
      BY <3>1, <3>2, BelowIs
    <3> QED BY <2>1, <3>2, <3>3 DEF Above
  <2>2. CASE k # j
    BY <1>2, <1>3, <2>2 DEF FlagsKept
  <2> QED BY <2>1, <2>2
<1> QED BY <1>1, <1>3 DEF FlagsKept

\* What a pass holds after it has detected.
LEMMA DetectMakes ==
  ASSUME Criteria, Reviewing, FlagsKept, PassType, NEW p \in Passes, Detect(p)
  PROVE  /\ \A q \in Passes \ {p} : pass'[q] = pass[q]
         /\ \/ pass'[p].at = "idle"
            \/ /\ pass'[p].at = "gated" /\ pass'[p].base = Active.payload
               /\ \A x \in pass'[p].candidates : MadeOf(x, pass'[p].base, criteria)
<1> DEFINE D == DetectCandidates(Signals, listing, flags, Active.payload)
<1>1. PICK quotes \in Claims(D, pass[p].version) :
        LET gated == {c \in FoldClaims(D, quotes) : MeetsThreshold(c)}
        IN Proceed(p, IF gated = {} THEN Idle
                      ELSE [at |-> "gated", base |-> Active.payload, candidates |-> gated])
  BY DEF Detect
<1> DEFINE gated == {c \in FoldClaims(D, quotes) : MeetsThreshold(c)}
<1>2. PICK base : base = Active.payload
  OBVIOUS
<1>3. CriteriaPayload(base) /\ world \in DOMAIN Worlds
  BY <1>2, ActiveIs DEF Reviewing
<1>4. IsFiniteSet(DOMAIN Signals) /\ DOMAIN Signals \subseteq Jobs
      /\ \A j \in DOMAIN Signals : IsListing(listing[j])
  BY <1>3, SignalsAreOfJobs, JobsAreListings, FS_Subset
<1>5. ASSUME NEW x \in D PROVE MadeOf(x, base, criteria) /\ IsCandidate(x, Jobs)
  <2>1. x \in DetectCandidates(Signals, listing, flags, base)
    BY <1>2
  <2> HIDE DEF D
  <2>2. /\ Derived(x, base)
        /\ x.field = "compensation_floor" =>
             \E j \in DOMAIN Signals :
               /\ "comp_below_floor" \in flags[j] /\ listing[j].comp.min \in Int
               /\ x.proposed_value.amount \in Int /\ x.proposed_value.amount <= listing[j].comp.min
    BY <1>3, <1>4, <2>1, DetectDerives
  <2>3. ASSUME x.field = "compensation_floor" PROVE Above(x.proposed_value.amount, criteria)
    <3>1. PICK j \in DOMAIN Signals :
            /\ "comp_below_floor" \in flags[j] /\ listing[j].comp.min \in Int
            /\ x.proposed_value.amount \in Int /\ x.proposed_value.amount <= listing[j].comp.min
      BY <2>2, <2>3
    <3>2. Above(listing[j].comp.min, criteria)
      BY <1>4, <3>1 DEF FlagsKept
    <3>3. PICK r \in criteria : /\ r.payload.compensation_floor.amount # Unset
                                /\ r.payload.compensation_floor.amount > listing[j].comp.min
      BY <3>2 DEF Above
    <3>4. r.payload.compensation_floor.amount \in Int
      BY <3>3 DEF Criteria, PayloadsValid, CriteriaPayload
    <3>5. r.payload.compensation_floor.amount > x.proposed_value.amount
      BY <3>1, <3>3, <3>4
    <3> QED BY <3>3, <3>5 DEF Above
  <2>4. IsCandidate(x, Jobs)
    BY <2>1, SignalsAreOfJobs, DetectIs DEF Distinct
  <2> QED BY <2>2, <2>3, <2>4 DEF MadeOf
<1> HIDE DEF D
<1>6. ASSUME NEW g \in gated PROVE MadeOf(g, base, criteria)
  <2>1. PICK c \in D : g = [c EXCEPT !.quotes = quotes[c.field]]
    BY DEF FoldClaims
  <2>2. PICK n : g = [c EXCEPT !.quotes = n]
    BY <2>1
  <2>3. MadeOf(c, base, criteria) /\ IsCandidate(c, Jobs)
    BY <1>5
  <2>4. /\ g.field = c.field /\ g.current_value = c.current_value
        /\ g.proposed_value = c.proposed_value
    BY <2>2, <2>3 DEF IsCandidate
  <2> QED BY <2>3, <2>4, MadeAlike
<1>7. PICK state :
        /\ Proceed(p, state)
        /\ \/ state.at = "idle"
           \/ state.at = "gated" /\ state.base = base /\ state.candidates = gated
  <2>1. PICK state : state = IF gated = {} THEN Idle
                             ELSE [at |-> "gated", base |-> base, candidates |-> gated]
    OBVIOUS
  <2>2. Proceed(p, state)
    BY <1>1, <1>2, <2>1
  <2> HIDE DEF gated
  <2> QED BY <2>1, <2>2 DEF Idle
<1> HIDE DEF gated
<1>8. pass'[p] = state /\ \A q \in Passes \ {p} : pass'[q] = pass[q]
  BY <1>7 DEF Proceed, PassType
<1> QED BY <1>2, <1>6, <1>7, <1>8

\* What a pass is about to add is made of its candidates, with the effect
\* that each would have on the listings in play.
LEMMA AddingOf ==
  ASSUME PassType, NEW p \in Passes, ReadHistory(p)
  PROVE  /\ \A q \in Passes \ {p} : pass'[q] = pass[q]
         /\ pass[p].at = "gated" /\ pass'[p].at = "ready" /\ pass'[p].base = pass[p].base
         /\ \A x \in pass'[p].adding : \E c \in pass[p].candidates :
              /\ x.field = c.field /\ x.current_value = c.current_value
              /\ x.proposed_value = c.proposed_value
              /\ x.effect = PredictEffect(LoadLiveBacklog(status), listing, c)
<1> DEFINE A == {Proposal(p, c) : c \in {d \in pass[p].candidates : ~Blocks(d)}}
<1>1. PICK adding : adding = A
  OBVIOUS
<1>2. PICK state : /\ state.at = "ready" /\ state.base = pass[p].base /\ state.adding = adding
                   /\ Proceed(p, state)
  <2>1. PICK state : state = [at |-> "ready", base |-> pass[p].base, adding |-> adding]
    OBVIOUS
  <2>2. Proceed(p, state)
    BY <1>1, <2>1 DEF ReadHistory
  <2> QED BY <2>1, <2>2
<1>3. /\ pass[p].at = "gated" /\ pass'[p] = state /\ \A q \in Passes \ {p} : pass'[q] = pass[q]
  BY <1>2 DEF ReadHistory, Proceed, PassType
<1>4. \A x \in A : \E c \in pass[p].candidates : x = Proposal(p, c)
  OBVIOUS
<1> HIDE DEF A
<1>5. ASSUME NEW x \in A
      PROVE  \E c \in pass[p].candidates :
               /\ x.field = c.field /\ x.current_value = c.current_value
               /\ x.proposed_value = c.proposed_value
               /\ x.effect = PredictEffect(LoadLiveBacklog(status), listing, c)
  <2>1. PICK c \in pass[p].candidates : x = Proposal(p, c)
    BY <1>4
  <2>2. PICK effect : effect = PredictEffect(LoadLiveBacklog(status), listing, c)
    OBVIOUS
  <2>3. PICK n : n = ObservationCount(c)
    OBVIOUS
  <2>4. x = [field |-> c.field, direction |-> c.direction, current_value |-> c.current_value,
             proposed_value |-> c.proposed_value, count |-> n, effect |-> effect,
             run |-> p, status |-> "pending", result |-> 0]
    BY <2>1, <2>2, <2>3 DEF Proposal
  <2>5. /\ x.field = c.field /\ x.current_value = c.current_value
        /\ x.proposed_value = c.proposed_value /\ x.effect = effect
    BY <2>4
  <2> QED BY <2>2, <2>5
<1> QED BY <1>1, <1>2, <1>3, <1>5

\* What a pass holds, it still holds when versions have been added.
Holds(state, versions) ==
  state.at \in {"gated", "ready"} =>
    /\ \E r \in versions : r.payload = state.base
    /\ \A x \in IF state.at = "gated" THEN state.candidates ELSE state.adding :
         MadeOf(x, state.base, versions)

LEMMA HoldsStays ==
  ASSUME VersionsStay, NEW state, Holds(state, criteria)
  PROVE  Holds(state, criteria')
BY MadeStays DEF Holds, VersionsStay

LEMMA EvidenceParts ==
  /\ EvidenceInv <=> FlagsKept /\ FloorOnlyRestored /\ \A p \in Passes : Holds(pass[p], criteria)
  /\ EvidenceInv' <=> FlagsKept' /\ FloorOnlyRestored' /\ \A p \in Passes : Holds(pass'[p], criteria')
BY DEF EvidenceInv, PassesDerive, Holds

LEMMA EvidenceInit ==
  ASSUME Init
  PROVE  EvidenceInv
<1>1. FloorOnlyRestored
  BY DEF Init, FloorOnlyRestored
<1>2. \A p \in Passes : Holds(pass[p], criteria)
  BY DEF Init, Holds, Idle
<1>3. FlagsKept
  <2> SUFFICES ASSUME NEW j \in Jobs, "comp_below_floor" \in flags[j]
               PROVE  Above(listing[j].comp.min, criteria)
    BY DEF FlagsKept
  <2>1. "comp_below_floor" \in ComputeFlags(listing[j], FirstPayload, 0) /\ IsListing(listing[j])
    BY JobsAreListings DEF Init
  <2>2. /\ FirstPayload.compensation_floor.amount # Unset
        /\ FirstPayload.compensation_floor.amount > listing[j].comp.min
    BY <2>1, FirstPayloadAssumption, BelowIs
  <2>3. \E r \in criteria : r.payload = FirstPayload
    BY DEF Init
  <2> QED BY <2>2, <2>3 DEF Above
<1> QED BY <1>1, <1>2, <1>3, EvidenceParts

LEMMA EvidenceStep ==
  ASSUME TableInv, EvidenceInv, [Next]_vars
  PROVE  EvidenceInv'
<1>1. /\ Criteria /\ Proposals /\ AcceptedMeansApplied /\ SessionsKept
      /\ PassType /\ PassesKept /\ Reviewing
  BY TableInvParts DEF Tables
<1>2. VersionsStay /\ ProposalsStay
  BY TableInvStep DEF RowsStay
<1>3. FlagsKept /\ FloorOnlyRestored /\ \A p \in Passes : Holds(pass[p], criteria)
  BY EvidenceParts
<1>4. ASSUME DOMAIN proposals' = DOMAIN proposals PROVE FloorOnlyRestored'
  <2> SUFFICES ASSUME NEW i \in DOMAIN proposals, proposals'[i].field = "compensation_floor"
               PROVE  Above(proposals'[i].proposed_value.amount, criteria')
    BY <1>4 DEF FloorOnlyRestored
  <2>1. SameProposal(proposals'[i], proposals[i])
    BY <1>2 DEF ProposalsStay
  <2>2. Above(proposals[i].proposed_value.amount, criteria)
    BY <1>3, <2>1 DEF FloorOnlyRestored, SameProposal
  <2> QED BY <1>2, <2>1, <2>2, AboveStays DEF SameProposal
<1>5. ASSUME NEW p \in Passes, \A q \in Passes \ {p} : pass'[q] = pass[q], Holds(pass'[p], criteria')
      PROVE  \A q \in Passes : Holds(pass'[q], criteria')
  BY <1>2, <1>3, <1>5, HoldsStays
<1>6. ASSUME UNCHANGED pass PROVE \A q \in Passes : Holds(pass'[q], criteria')
  BY <1>2, <1>3, <1>6, HoldsStays
<1>7. ASSUME UNCHANGED <<world, flags>> PROVE FlagsKept'
  BY <1>2, <1>3, <1>7, FlagsStay
<1>8. CASE UNCHANGED vars
  BY <1>4, <1>6, <1>7, <1>8, EvidenceParts DEF vars, jobs
<1>9. CASE Review
  <2>1. UNCHANGED <<proposals, pass>>
    BY <1>1, <1>9, ReviewKeeps
  <2>2. FlagsKept'
    <3>1. ASSUME NEW j \in Jobs, NEW late, ScoreAgain(j, late) PROVE FlagsKept'
      BY <1>1, <1>3, <3>1, ScoreKeepsFlags
    <3>2. ASSUME NEW j \in Jobs, NEW to, NEW quick, UpdateStatus(j, to, quick) PROVE FlagsKept'
      BY <1>7, <3>2 DEF UpdateStatus
    <3>3. ASSUME CreateFeedback PROVE FlagsKept'
      BY <1>7, <3>3 DEF CreateFeedback, jobs
    <3> QED BY <1>9, <3>1, <3>2, <3>3 DEF Review
  <2> QED BY <1>4, <1>6, <2>1, <2>2, EvidenceParts
<1>10. ASSUME NEW s \in Sessions, Decide(s) PROVE EvidenceInv'
  <2>1. UNCHANGED <<jobs, pass>> /\ DOMAIN proposals' = DOMAIN proposals
    <3>1. CASE Deciding(s)
      BY <1>1, <3>1, DecidingKeeps, TableInvParts
    <3>2. CASE CommitVersion(s)
      BY <1>1, <3>2, VersionTables DEF SessionsKept, CommitVersion
    <3>3. CASE CommitReject(s)
      BY <1>1, <3>3, RejectTables DEF SessionsKept, CommitReject
    <3> QED BY <1>10, <3>1, <3>2, <3>3 DEF Decide, Deciding
  <2> QED BY <1>4, <1>6, <1>7, <2>1, EvidenceParts DEF jobs
<1>11. ASSUME NEW p \in Passes, StartPass(p) \/ AbandonPass(p) PROVE EvidenceInv'
  <2>1. UNCHANGED <<jobs, proposals>>
    BY <1>11 DEF StartPass, AbandonPass
  <2>2. PICK state : Proceed(p, state) /\ state.at \in {"idle", "read"}
    BY <1>11 DEF StartPass, AbandonPass, Idle
  <2>3. pass'[p] = state /\ \A q \in Passes \ {p} : pass'[q] = pass[q]
    BY <1>1, <2>2 DEF Proceed, PassType
  <2>4. Holds(pass'[p], criteria')
    BY <2>2, <2>3 DEF Holds
  <2> QED BY <1>4, <1>5, <1>7, <2>1, <2>3, <2>4, EvidenceParts DEF jobs
<1>12. ASSUME NEW p \in Passes, Detect(p) PROVE EvidenceInv'
  <2>1. UNCHANGED <<jobs, criteria, proposals>>
    BY <1>12 DEF Detect
  <2>2. /\ \A q \in Passes \ {p} : pass'[q] = pass[q]
        /\ \/ pass'[p].at = "idle"
           \/ /\ pass'[p].at = "gated" /\ pass'[p].base = Active.payload
              /\ \A x \in pass'[p].candidates : MadeOf(x, pass'[p].base, criteria)
    BY <1>1, <1>3, <1>12, DetectMakes
  <2>3. Active \in criteria
    BY <1>1, ActiveIs
  <2>4. Holds(pass'[p], criteria')
    BY <2>1, <2>2, <2>3 DEF Holds
  <2> QED BY <1>4, <1>5, <1>7, <2>1, <2>2, <2>4, EvidenceParts DEF jobs
<1>13. ASSUME NEW p \in Passes, ReadHistory(p) PROVE EvidenceInv'
  <2>1. UNCHANGED <<jobs, criteria, proposals>>
    BY <1>13 DEF ReadHistory
  <2>2. /\ \A q \in Passes \ {p} : pass'[q] = pass[q]
        /\ pass[p].at = "gated" /\ pass'[p].at = "ready" /\ pass'[p].base = pass[p].base
        /\ \A x \in pass'[p].adding : \E c \in pass[p].candidates :
             /\ x.field = c.field /\ x.current_value = c.current_value
             /\ x.proposed_value = c.proposed_value
    BY <1>1, <1>13, AddingOf
  <2>3. /\ \E r \in criteria : r.payload = pass[p].base
        /\ \A c \in pass[p].candidates : MadeOf(c, pass[p].base, criteria)
    BY <1>3, <2>2 DEF Holds
  <2>4. \A x \in pass'[p].adding : MadeOf(x, pass[p].base, criteria)
    BY <2>2, <2>3, MadeAlike
  <2>5. Holds(pass'[p], criteria')
    BY <2>1, <2>2, <2>3, <2>4 DEF Holds
  <2> QED BY <1>4, <1>5, <1>7, <2>1, <2>2, <2>5, EvidenceParts DEF jobs
<1>14. ASSUME NEW p \in Passes, CommitPass(p) PROVE EvidenceInv'
  <2>1. /\ UNCHANGED <<jobs, criteria>> /\ pass[p].at = "ready" /\ pass'[p] = Idle
        /\ \A q \in Passes \ {p} : pass'[q] = pass[q]
    BY <1>1, <1>14 DEF CommitPass, Proceed, PassType
  <2>2. /\ \A i \in DOMAIN proposals : proposals'[i] = proposals[i]
        /\ \A k \in DOMAIN proposals' \ DOMAIN proposals : proposals'[k] \in pass[p].adding
    BY <1>1, <1>14, PassTables DEF PassesKept
  <2>3. \A x \in pass[p].adding : MadeOf(x, pass[p].base, criteria)
    BY <1>3, <2>1 DEF Holds
  <2>4. FloorOnlyRestored'
    <3> SUFFICES ASSUME NEW i \in DOMAIN proposals', proposals'[i].field = "compensation_floor"
                 PROVE  Above(proposals'[i].proposed_value.amount, criteria)
      BY <2>1 DEF FloorOnlyRestored
    <3>1. CASE i \in DOMAIN proposals
      BY <1>3, <2>2, <3>1 DEF FloorOnlyRestored
    <3>2. CASE i \notin DOMAIN proposals
      BY <2>2, <2>3, <3>2 DEF MadeOf
    <3> QED BY <3>1, <3>2
  <2>5. Holds(pass'[p], criteria')
    BY <2>1 DEF Holds, Idle
  <2> QED BY <1>5, <1>7, <2>1, <2>4, <2>5, EvidenceParts DEF jobs
<1> QED BY <1>8, <1>9, <1>10, <1>11, <1>12, <1>13, <1>14 DEF Next, Generate

\* The inductive invariant: what it says of the tables needs what it says of
\* the sessions (a decision writes what it has validated before), and what it
\* says of the proposals needs the passes that have read but not committed.
THEOREM TablesInvariant == Spec => []TableInv
<1>1. Init => TableInv
  BY TableInvInit
<1>2. TableInv /\ [Next]_vars => TableInv'
  BY TableInvStep
<1> QED BY <1>1, <1>2, PTL DEF Spec

\* And with it what the evidence is: a flag tells of a version there was, and
\* what a pass holds it has made of one.
THEOREM LoopInvariant == Spec => []LoopInv
<1>1. Init => EvidenceInv
  BY EvidenceInit
<1>2. TableInv /\ EvidenceInv /\ [Next]_vars => EvidenceInv'
  BY EvidenceStep
<1>3. LoopInv <=> TableInv /\ EvidenceInv
  BY DEF LoopInv
<1> QED BY <1>1, <1>2, <1>3, TablesInvariant, PTL DEF Spec

\* detect.py, _track_b: the loop never asks for a floor beyond one that the
\* user has had and given up.
THEOREM FloorsOnlyRestored == Spec => []FloorOnlyRestored
<1>1. LoopInv => FloorOnlyRestored
  BY DEF LoopInv, EvidenceInv
<1> QED BY <1>1, LoopInvariant, PTL

\* criteria/loader.py: at any time the versions are 1..n and the newest of
\* them, and no other, is active.
THEOREM NewestAlwaysActive == Spec => []NewestIsActive
<1>1. TableInv => NewestIsActive
  BY DEF TableInv
<1> QED BY <1>1, TablesInvariant, PTL

\* loop/apply.py, schema.py: nothing that does not validate is ever stored.
THEOREM StoredAlwaysValid == Spec => []PayloadsValid
<1>1. TableInv => PayloadsValid
  BY DEF TableInv
<1> QED BY <1>1, TablesInvariant, PTL

\* loop/apply.py: an accepted proposal is a version, an earlier one changed in
\* the one field.
THEOREM AcceptedAlwaysApplied == Spec => []AcceptedMeansApplied
<1>1. TableInv => AcceptedMeansApplied
  BY DEF TableInv
<1> QED BY <1>1, TablesInvariant, PTL

\* generate.py: never more proposals of a signature wait than passes overlap.
THEOREM DuplicatesAlwaysBounded == Spec => []DuplicatesBounded
<1>1. TableInv => DuplicatesBounded
  <2> SUFFICES ASSUME TableInv, NEW i \in DOMAIN proposals
               PROVE  Cardinality(Waiting(Signature(proposals[i]))) <= Cardinality(Passes)
    BY DEF DuplicatesBounded
  <2>1. PICK sig : sig = Signature(proposals[i])
    OBVIOUS
  <2>2. Proposals /\ DuplicatesCounted
    BY TableInvParts DEF Tables, Counted
  <2>3. sig \in PERMITTED_EDIT_FIELDS \X {"tighten", "increase"}
    BY <2>1, <2>2 DEF Proposals, IsProposal, Signature
  <2>4. Cardinality(Waiting(sig)) + Cardinality(Adding(sig)) <= Cardinality(Passes)
    BY <2>2, <2>3 DEF DuplicatesCounted
  <2>5. Cardinality(Waiting(sig)) \in Nat /\ Cardinality(Adding(sig)) \in Nat /\ Cardinality(Passes) \in Nat
    BY <2>2, FiniteCounts
  <2> QED BY <2>1, <2>4, <2>5
<1> QED BY <1>1, TablesInvariant, PTL

\* generate.py, D-10: what was rejected comes back on stronger evidence only.
THEOREM RejectedComesBackStronger == Spec => []StrongerAfterRejection
<1>1. TableInv => StrongerAfterRejection
  BY DEF TableInv, BarIsKept, Settled, StrongerAfterRejection
<1> QED BY <1>1, TablesInvariant, PTL

\* Only a pass that reads the history gets ready, and only one that commits
\* adds proposals.
LEMMA OnlyRead ==
  ASSUME TableInv, [Next]_vars, NEW p \in Passes, pass[p].at = "gated", pass'[p].at = "ready"
  PROVE  ReadHistory(p)
<1>1. PassType /\ Tables /\ SessionType /\ SessionsKept /\ Reviewing
  BY TableInvParts
<1>2. UNCHANGED pass => FALSE
  OBVIOUS
<1>3. ~UNCHANGED vars /\ ~Review
  BY <1>1, <1>2, ReviewKeeps DEF vars
<1>4. ASSUME NEW s \in Sessions, Decide(s) PROVE FALSE
  BY <1>2, <1>4 DEF Decide, LoadToAccept, LoadToReject, ApplyProposedChange, CommitReject, OpenForm,
                    SaveCriteria, NumberVersion, CommitVersion
<1>5. ASSUME NEW q \in Passes, NEW state, Proceed(q, state), state.at # "ready"
      PROVE  FALSE
  BY <1>1, <1>5 DEF Proceed, PassType
<1>6. ASSUME NEW q \in Passes, StartPass(q) \/ AbandonPass(q) \/ CommitPass(q) PROVE FALSE
  <2>1. \E state : Proceed(q, state) /\ state.at # "ready"
    BY <1>6 DEF StartPass, AbandonPass, CommitPass, Idle
  <2> QED BY <1>5, <2>1
<1>7. ASSUME NEW q \in Passes, Detect(q) PROVE FALSE
  <2>1. \E state : Proceed(q, state) /\ state.at # "ready"
    BY <1>7 DEF Detect, Idle
  <2> QED BY <1>5, <2>1
<1>8. ASSUME NEW q \in Passes, ReadHistory(q) PROVE q = p
  BY <1>1, <1>8 DEF ReadHistory, Proceed, PassType
<1> QED BY <1>3, <1>4, <1>6, <1>7, <1>8 DEF Next, Generate

LEMMA OnlyCommit ==
  ASSUME TableInv, [Next]_vars, NEW i \in DOMAIN proposals' \ DOMAIN proposals
  PROVE  \E p \in Passes : CommitPass(p) /\ proposals'[i] \in pass[p].adding
<1>1. Tables /\ SessionType /\ SessionsKept /\ PassType /\ PassesKept /\ Reviewing
  BY TableInvParts
<1>2. DOMAIN proposals' = DOMAIN proposals => FALSE
  OBVIOUS
<1>3. ~UNCHANGED vars /\ ~Review
  BY <1>1, <1>2, ReviewKeeps DEF vars
<1>4. ASSUME NEW s \in Sessions, Decide(s) PROVE FALSE
  <2>1. CASE Deciding(s)
    BY <1>1, <1>2, <2>1, DecidingKeeps
  <2>2. CASE CommitVersion(s)
    BY <1>1, <1>2, <2>2, VersionTables DEF Tables, SessionsKept
  <2>3. CASE CommitReject(s)
    BY <1>1, <1>2, <2>3, RejectTables DEF Tables, SessionsKept
  <2> QED BY <1>4, <2>1, <2>2, <2>3 DEF Decide, Deciding
<1>5. ASSUME NEW p \in Passes, StartPass(p) \/ AbandonPass(p) \/ Detect(p) \/ ReadHistory(p) PROVE FALSE
  BY <1>2, <1>5 DEF StartPass, AbandonPass, Detect, ReadHistory
<1>6. ASSUME NEW p \in Passes, CommitPass(p) PROVE proposals'[i] \in pass[p].adding
  BY <1>1, <1>6, PassTables DEF Tables, PassesKept
<1> QED BY <1>3, <1>4, <1>5, <1>6 DEF Next, Generate

\* detect.py: every proposal was, against the version it was derived from, a
\* valid change that narrows, whichever track, listings and thresholds made
\* it.
THEOREM ProposalsAlwaysNarrow == Spec => ProposalsNarrow
<1> DEFINE Step ==
      \A i \in DOMAIN proposals' \ DOMAIN proposals : \E r \in criteria :
        LET x == proposals'[i]
        IN /\ ResolveField(r.payload, x.field) = x.current_value
           /\ Narrows(x, r.payload, SetLeaf(r.payload, x.field, x.proposed_value))
<1>1. LoopInv /\ [Next]_vars => Step
  <2> SUFFICES ASSUME LoopInv, [Next]_vars, NEW i \in DOMAIN proposals' \ DOMAIN proposals
               PROVE  \E r \in criteria :
                        LET x == proposals'[i]
                        IN /\ ResolveField(r.payload, x.field) = x.current_value
                           /\ Narrows(x, r.payload, SetLeaf(r.payload, x.field, x.proposed_value))
    OBVIOUS
  <2>1. TableInv /\ EvidenceInv
    BY DEF LoopInv
  <2>2. PICK p \in Passes : CommitPass(p) /\ proposals'[i] \in pass[p].adding
    BY <2>1, OnlyCommit
  <2>3. pass[p].at = "ready" /\ Holds(pass[p], criteria)
    BY <2>1, <2>2, EvidenceParts DEF CommitPass
  <2>4. PICK r \in criteria : r.payload = pass[p].base
    BY <2>3 DEF Holds
  <2>5. Derived(proposals'[i], r.payload)
    BY <2>2, <2>3, <2>4 DEF Holds, MadeOf
  <2>6. CriteriaPayload(r.payload) /\ world \in DOMAIN Worlds
    BY <2>1, TableInvParts DEF Tables, Criteria, PayloadsValid, Reviewing
  <2> QED BY <2>5, <2>6, DerivedNarrows
<1>2. [][Step]_vars => ProposalsNarrow
  BY PTL DEF ProposalsNarrow
<1> QED BY <1>1, <1>2, LoopInvariant, PTL DEF Spec

\* predicted_effect.py, filters.py, flags.py: what a pass predicts is what the
\* filters and the scorer would do.
THEOREM EffectsAlwaysHonest == Spec => EffectsHonest
<1> DEFINE Step ==
      \A p \in Passes : pass[p].at = "gated" /\ pass'[p].at = "ready" =>
        \A x \in pass'[p].adding : EffectHonest(x, pass[p].base, LoadLiveBacklog(status))
<1>1. LoopInv /\ [Next]_vars => Step
  <2> SUFFICES ASSUME LoopInv, [Next]_vars, NEW p \in Passes, pass[p].at = "gated", pass'[p].at = "ready",
                      NEW x \in pass'[p].adding
               PROVE  EffectHonest(x, pass[p].base, LoadLiveBacklog(status))
    OBVIOUS
  <2>1. TableInv /\ EvidenceInv
    BY DEF LoopInv
  <2>2. ReadHistory(p) /\ PassType /\ Reviewing /\ Criteria /\ Holds(pass[p], criteria)
    BY <2>1, OnlyRead, TableInvParts, EvidenceParts DEF Tables
  <2>3. PICK c \in pass[p].candidates :
          /\ x.field = c.field /\ x.current_value = c.current_value
          /\ x.proposed_value = c.proposed_value
          /\ x.effect = PredictEffect(LoadLiveBacklog(status), listing, c)
    BY <2>2, AddingOf
  <2>4. PICK base : base = pass[p].base
    OBVIOUS
  <2>5. CriteriaPayload(base) /\ Derived(c, base)
    BY <2>2, <2>3, <2>4 DEF Holds, MadeOf, Criteria, PayloadsValid
  <2>6. Derived(x, base)
    BY <2>3, <2>5 DEF Derived
  <2>7. LoadLiveBacklog(status) \in SUBSET Jobs /\ world \in DOMAIN Worlds
    BY <2>2 DEF LoadLiveBacklog, Reviewing
  <2> QED BY <2>3, <2>4, <2>5, <2>6, <2>7, PredictedIs
<1>2. [][Step]_vars => EffectsHonest
  BY PTL DEF EffectsHonest
<1> QED BY <1>1, <1>2, LoopInvariant, PTL DEF Spec

-----------------------------------------------------------------------------
(* What is decided stays decided.                                          *)

\* What a step leaves of a decided proposal and of the sessions that decide it.
DoorShut(i) ==
  /\ proposals'[i].status # "pending" /\ proposals'[i].result >= proposals[i].result
  /\ Deciders(i)' \subseteq Deciders(i)
  /\ proposals'[i] # proposals[i] => Deciders(i)' # Deciders(i)

LEMMA DoorUntouched ==
  ASSUME Proposals, NEW i \in DOMAIN proposals, proposals[i].status # "pending",
         UNCHANGED session, proposals'[i] = proposals[i]
  PROVE  DoorShut(i)
<1>1. proposals[i].result \in Nat
  BY DEF Proposals, IsProposal
<1> QED BY <1>1 DEF DoorShut, Deciders

\* A session that moves on keeps the proposal it has loaded, or leaves it; only
\* one that waits can be loaded.
LEMMA DoorWhileDeciding ==
  ASSUME Proposals, SessionType, NEW s \in Sessions, Deciding(s),
         NEW i \in DOMAIN proposals, proposals[i].status # "pending"
  PROVE  DoorShut(i)
<1> DEFINE Decides == {"loaded", "applied", "numbered", "rejecting"}
<1>1. UNCHANGED proposals /\ proposals[i].result \in Nat
  BY DEF Deciding, LoadToAccept, LoadToReject, ApplyProposedChange, OpenForm, SaveCriteria,
         NumberVersion, Proposals, IsProposal
<1>2. PICK state : /\ Goto(s, state)
                   /\ state.at \in Decides /\ state.id = i =>
                        session[s].at \in Decides /\ session[s].id = i
  <2>1. CASE \E k \in DOMAIN proposals : LoadToAccept(s, k) \/ LoadToReject(s, k)
    <3>1. PICK k \in DOMAIN proposals : LoadToAccept(s, k) \/ LoadToReject(s, k)
      BY <2>1
    <3>2. k # i
      BY <3>1 DEF LoadToAccept, LoadToReject
    <3> QED BY <3>1, <3>2 DEF LoadToAccept, LoadToReject
  <2>2. CASE ApplyProposedChange(s)
    BY <2>2 DEF ApplyProposedChange, Idle
  <2>3. CASE OpenForm(s)
    BY <2>3 DEF OpenForm
  <2>4. CASE \E edit \in ManualEdits : SaveCriteria(s, edit)
    <3>1. i # 0
      BY SeqIs DEF Proposals
    <3> QED BY <2>4, <3>1 DEF SaveCriteria, Idle
  <2>5. CASE NumberVersion(s)
    BY <2>5 DEF NumberVersion
  <2> QED BY <2>1, <2>2, <2>3, <2>4, <2>5 DEF Deciding
<1>3. \A t \in Sessions : session'[t] = IF t = s THEN state ELSE session[t]
  BY <1>2 DEF Goto, SessionType
<1>4. Deciders(i)' \subseteq Deciders(i)
  BY <1>2, <1>3 DEF Deciders
<1> QED BY <1>1, <1>4 DEF DoorShut

\* The decision of a session that had loaded the proposal before: it is one less
\* from then on, and the version it writes is the newest.
LEMMA DoorAtDecision ==
  ASSUME Tables, SessionType, NEW s \in Sessions, SessionKept(s),
         CommitVersion(s) \/ CommitReject(s),
         NEW i \in DOMAIN proposals, proposals[i].status # "pending"
  PROVE  DoorShut(i)
<1> DEFINE id == session[s].id
           n == Cardinality(criteria)
<1>1. /\ IsProposal(proposals[i]) /\ proposals[i].result \in Nat
      /\ n \in Nat /\ {r.version : r \in criteria} = 1..n
  BY OneRowEach DEF Tables, Proposals, IsProposal, Criteria, NewestIsActive
<1>2. \A t \in Sessions : session'[t] = IF t = s THEN Idle ELSE session[t]
  BY DEF CommitVersion, CommitReject, Goto, SessionType
<1>3. Deciders(i)' = Deciders(i) \ {s}
  BY <1>2 DEF Deciders, Idle
<1>4. proposals'[i] # proposals[i] => i = id /\ s \in Deciders(i)
  BY DEF CommitVersion, CommitReject, Deciders
<1>5. proposals'[i].status # "pending" /\ proposals'[i].result >= proposals[i].result
  <2>1. CASE proposals'[i] = proposals[i]
    BY <1>1, <2>1
  <2>2. CASE CommitReject(s) /\ i = id
    <3>1. proposals'[i] = [proposals[i] EXCEPT !.status = "rejected"]
      BY <2>2 DEF CommitReject
    <3>2. proposals'[i].status = "rejected" /\ proposals'[i].result = proposals[i].result
      BY <1>1, <3>1 DEF IsProposal
    <3> QED BY <1>1, <3>2
  <2>3. CASE CommitVersion(s) /\ ~Taken(s) /\ i = id
    <3>1. proposals'[i] = [proposals[i] EXCEPT !.status = "accepted", !.result = session[s].version]
      BY <2>3 DEF CommitVersion
    <3>2. proposals'[i].status = "accepted" /\ proposals'[i].result = session[s].version
      BY <1>1, <3>1 DEF IsProposal
    <3>3. session[s].version \in 1..(n + 1) /\ session[s].version \notin 1..n
      BY <1>1, <2>3 DEF CommitVersion, SessionKept, Taken
    <3>4. proposals[i].result \in 0..n
      BY <1>1 DEF Tables, AcceptedMeansApplied, Applied
    <3> HIDE DEF n
    <3> QED BY <1>1, <3>2, <3>3, <3>4
  <2> QED BY <1>4, <2>1, <2>2, <2>3 DEF CommitVersion
<1> QED BY <1>3, <1>4, <1>5 DEF DoorShut

\* loader.py, apply.py: no step of anyone rewrites a version or what a proposal
\* says, and a proposal that is decided stays so: only the sessions that had
\* loaded it before may decide it again, each of them once.
THEOREM HistoryAlwaysKept == Spec => HistoryKept
<1> DEFINE Step ==
      /\ \A r \in criteria : \E q \in criteria' :
           q.version = r.version /\ q.payload = r.payload /\ q.source = r.source
      /\ \A i \in DOMAIN proposals :
           /\ i \in DOMAIN proposals'
           /\ [proposals'[i] EXCEPT !.status = "", !.result = 0]
                = [proposals[i] EXCEPT !.status = "", !.result = 0]
           /\ proposals[i].status # "pending" =>
                /\ proposals'[i].status # "pending" /\ proposals'[i].result >= proposals[i].result
                /\ Deciders(i)' \subseteq Deciders(i)
                /\ proposals'[i] # proposals[i] => Deciders(i)' # Deciders(i)
<1>1. TableInv /\ [Next]_vars => Step
  <2> SUFFICES ASSUME TableInv, [Next]_vars PROVE Step
    OBVIOUS
  <2>1. RowsStay /\ Proposals /\ Proposals'
    BY TableInvStep, TableInvParts DEF Tables
  <2>2. ASSUME NEW x, NEW y, IsProposal(x), IsProposal(y), SameProposal(x, y)
        PROVE  [x EXCEPT !.status = "", !.result = 0] = [y EXCEPT !.status = "", !.result = 0]
    BY <2>2 DEF IsProposal, SameProposal
  <2>3. \A i \in DOMAIN proposals :
          i \in DOMAIN proposals' /\ IsProposal(proposals[i]) /\ IsProposal(proposals'[i])
    BY <2>1 DEF RowsStay, ProposalsStay, Proposals
  <2>4. \A i \in DOMAIN proposals :
          [proposals'[i] EXCEPT !.status = "", !.result = 0]
            = [proposals[i] EXCEPT !.status = "", !.result = 0]
    <3> TAKE i \in DOMAIN proposals
    <3>1. SameProposal(proposals'[i], proposals[i])
      BY <2>1 DEF RowsStay, ProposalsStay
    <3> QED BY <2>2, <2>3, <3>1
  <2>5. ASSUME NEW i \in DOMAIN proposals, proposals[i].status # "pending" PROVE DoorShut(i)
    <3>1. Tables /\ SessionType /\ SessionsKept /\ PassesKept /\ Reviewing
      BY TableInvParts
    <3>2. CASE UNCHANGED vars
      BY <2>1, <2>5, <3>2, DoorUntouched DEF vars
    <3>3. CASE Review
      BY <2>1, <2>5, <3>1, <3>3, ReviewKeeps, DoorUntouched
    <3>4. ASSUME NEW s \in Sessions, Decide(s) PROVE DoorShut(i)
      BY <2>1, <2>5, <3>1, <3>4, DoorWhileDeciding, DoorAtDecision
         DEF Decide, Deciding, SessionsKept
    <3>5. ASSUME NEW p \in Passes, Generate(p) PROVE DoorShut(i)
      <4>1. CASE CommitPass(p)
        <5>1. UNCHANGED session /\ proposals'[i] = proposals[i]
          BY <3>1, <4>1, PassTables DEF Tables, PassesKept, CommitPass
        <5> QED BY <2>1, <2>5, <5>1, DoorUntouched
      <4>2. CASE ~CommitPass(p)
        <5>1. UNCHANGED session /\ proposals'[i] = proposals[i]
          BY <3>5, <4>2 DEF Generate, StartPass, Detect, ReadHistory, AbandonPass
        <5> QED BY <2>1, <2>5, <5>1, DoorUntouched
      <4> QED BY <4>1, <4>2
    <3> QED BY <3>2, <3>3, <3>4, <3>5 DEF Next
  <2> QED BY <2>1, <2>4, <2>5 DEF RowsStay, VersionsStay, ProposalsStay, DoorShut
<1>2. [][Step]_vars => HistoryKept
  BY PTL DEF HistoryKept
<1> QED BY <1>1, <1>2, TablesInvariant, PTL DEF Spec
=============================================================================
