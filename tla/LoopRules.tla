----------------------------- MODULE LoopRules -----------------------------
(***************************************************************************)
(* The rules the feedback loop computes with, as operators: the criteria   *)
(* schema, the filters and flags a listing gets when it is scored, the     *)
(* classification of its status history, the detection tracks, and the     *)
(* predicted effect of a change.  Nothing here has state.                  *)
(*                                                                         *)
(* A listing is a record: its rung on the seniority ladder (0 when the     *)
(* title names none), its title with the words of it and what it mentions  *)
(* (the terms that occur anywhere in it, in a word too), its employer, its *)
(* compensation [min, unit] (unit is the currency with the period), its    *)
(* age in days or Undated, its place, and the shape of its stored          *)
(* dimension scores.  Criteria are a record with the fields of             *)
(* CriteriaPayload; the profile text and the preferred cities are left     *)
(* out, no rule reads them.                                                *)
(***************************************************************************)
EXTENDS Integers, Sequences, FiniteSets, FiniteSetsExt

CONSTANTS Rungs,            \* the length of SENIORITY_LADDER
          MinObservations,  \* the count each field needs to become a proposal
          AgeFloor,         \* POSTING_AGE_FLOOR_DAYS
          Undated,          \* a posting without a date
          Unset             \* a value that is None

ASSUME RungsAssumption == Rungs \in Nat \ {0}
ASSUME AgeFloorAssumption == AgeFloor \in Nat \ {0} /\ Undated \notin Nat
ASSUME UnsetAssumption == Unset \notin Int

PERMITTED_EDIT_FIELDS ==
  {"seniority_min", "seniority_max", "posting_age_days", "locations",
   "compensation_floor", "exclusions.title_keywords", "exclusions.employers",
   "work_authorization", "dimension_weights"}

ASSUME MinimumsAssumption == MinObservations \in [PERMITTED_EDIT_FIELDS -> Nat \ {0}]

----------------------------------------------------------------------------
(* The schema.  A rung is 1..Rungs, and 0 is an absent bound.              *)

\* Its two validators; the weights are numbers.
DimensionWeights(w) == w \in [DOMAIN w -> Nat] /\ \E d \in DOMAIN w : w[d] # 0

\* CriteriaPayload.model_validate: the fields there are and no other ("extra" is
\* forbidden), and every validator that can fail for the values the model has.
CriteriaPayload(c) ==
  /\ c \in [seniority_min : 0..Rungs, seniority_max : 0..Rungs, posting_age_days : Nat \ {0},
            locations : {c.locations}, work_authorization : {c.work_authorization},
            compensation_floor : [amount : {Unset} \cup Int, unit : {c.compensation_floor.unit}],
            exclusions : [title_keywords : {c.exclusions.title_keywords},
                          employers : {c.exclusions.employers}],
            dimension_weights : {c.dimension_weights}]
  /\ IsFiniteSet(c.exclusions.title_keywords) /\ IsFiniteSet(c.exclusions.employers)
  /\ c.seniority_min # 0 /\ c.seniority_max # 0 => c.seniority_min <= c.seniority_max
  /\ DimensionWeights(c.dimension_weights)

\* What the rules read of a listing as a number.
IsListing(l) ==
  /\ l.rung \in 0..Rungs /\ l.age \in {Undated} \cup Nat
  /\ l.comp.min \in {Unset} \cup Int

\* _set_leaf: one field, or one list of the exclusions, as a whole.
SetLeaf(c, field, value) ==
  CASE field = "exclusions.title_keywords" -> [c EXCEPT !.exclusions.title_keywords = value]
    [] field = "exclusions.employers" -> [c EXCEPT !.exclusions.employers = value]
    [] OTHER -> [c EXCEPT ![field] = value]

ResolveField(c, field) ==
  CASE field = "exclusions.title_keywords" -> c.exclusions.title_keywords
    [] field = "exclusions.employers" -> c.exclusions.employers
    [] OTHER -> c[field]

----------------------------------------------------------------------------
(* What discovery decides about a listing: the deterministic filters and   *)
(* the advisory flags.                                                     *)

\* check_posting_age: only a date that is known and too old drops.
TooOld(age, limit) == age # Undated /\ age > limit

\* check_geography, in its order: filter off, worldwide, region, country,
\* region without a country, unresolved.
OutOfPlace(place, loc) ==
  /\ loc.countries # {} \/ loc.regions # {}
  /\ ~place.worldwide
  /\ place.region \notin loc.regions
  /\ \/ place.country # Unset /\ loc.countries # {} /\ place.country \notin loc.countries
     \/ place.country = Unset /\ place.region # Unset /\ loc.regions # {}

\* apply_deterministic_filters
PassesFilters(l, c) == ~TooOld(l.age, c.posting_age_days) /\ ~OutOfPlace(l.place, c.locations)

CompareToFloor(comp, floor) ==
  IF floor.amount = Unset \/ comp.min = Unset THEN "no_data"
  ELSE IF floor.unit = Unset \/ comp.unit # floor.unit THEN "not_comparable"
  ELSE IF comp.min >= floor.amount THEN "above" ELSE "below"

\* compute_flags for the four flags a field is mapped to; late is the time
\* in days that has passed since the filters judged the same listing.
ComputeFlags(l, c, late) ==
  LET stretch == l.rung # 0 /\ c.seniority_max # 0 /\ l.rung > c.seniority_max
      below == l.rung # 0 /\ c.seniority_min # 0 /\ l.rung < c.seniority_min
  IN {f \in {"stretch_role", "step_down", "comp_below_floor", "posting_stale"} :
        \/ f = "stretch_role" /\ stretch
        \/ f = "step_down" /\ ~stretch /\ below
        \/ f = "comp_below_floor"
           /\ CompareToFloor(l.comp, c.compensation_floor) = "below"
        \/ f = "posting_stale"
           /\ (l.age = Undated \/ l.age + late > c.posting_age_days)}

----------------------------------------------------------------------------
(* signals.py: one listing's history, a sequence of events                 *)
(* [from, to, quick] where quick says that at most FAST_REJECT_DWELL_DAYS  *)
(* passed since the event before it (or since the listing was first seen). *)

PROGRESSION_DEPTH(status) ==
  CASE status = "shortlisted" -> 1 [] status = "applied" -> 2
    [] status = "interviewing" -> 3 [] status = "offer" -> 4 [] OTHER -> 0

ClassifyTransitions(events, status) ==
  LET last == events[Len(events)]
      depth == Max({PROGRESSION_DEPTH(events[i].to) : i \in DOMAIN events})
  IN CASE events = <<>> \/ status = "withdrawn" -> "neutral"
       [] events # <<>> /\ status # "withdrawn" /\ last.to = "rejected" ->
            IF last.from \in {"applied", "interviewing"} THEN "late_reject"
            ELSE IF last.from \in {"new", "shortlisted"} /\ last.quick THEN "fast_reject"
            ELSE "neutral"
       [] OTHER -> IF depth >= 2 THEN "progressed" ELSE "neutral"

----------------------------------------------------------------------------
(* detect.py.  A candidate is [field, direction, current_value,            *)
(* proposed_value, observations, quotes]: observations is the set of       *)
(* listings it names, quotes the number of feedback quotes.                *)

Candidate(field, direction, c, value, seen) ==
  [field |-> field, direction |-> direction, current_value |-> ResolveField(c, field),
   proposed_value |-> value, observations |-> seen, quotes |-> 0]

\* What every track returns, of listings among jobs.
IsCandidate(x, jobs) ==
  /\ x = [field |-> x.field, direction |-> x.direction, current_value |-> x.current_value,
          proposed_value |-> x.proposed_value, observations |-> x.observations,
          quotes |-> x.quotes]
  /\ x.field \in PERMITTED_EDIT_FIELDS /\ x.direction \in {"tighten", "increase"}
  /\ x.observations \subseteq jobs /\ x.quotes \in Nat

\* attribute_dimension reads the entries that are plain numbers; Unset is
\* Python's None.  The tie-break by DIMENSION_ORDER is left to CHOOSE.
AttributeDimension(dims) ==
  LET numeric == {d \in DOMAIN dims : dims[d].kind = "number"}
  IN IF numeric = {} THEN Unset
     ELSE CHOOSE d \in numeric : \A e \in numeric : dims[d].score <= dims[e].score

\* _track_a: the most frequent suspect, if it explains half of those that
\* have one, gets one more unit of weight.
TrackA(fast, listing, c) ==
  LET suspect == [j \in fast |-> AttributeDimension(listing[j].dims)]
      attributable == {j \in fast : suspect[j] # Unset}
      Share(d) == Cardinality({j \in attributable : suspect[j] = d})
      modal == CHOOSE d \in DOMAIN c.dimension_weights :
                 \A e \in DOMAIN c.dimension_weights : Share(e) <= Share(d)
      more == [c.dimension_weights EXCEPT ![modal] = @ + 1]
  IN IF attributable = {} \/ 2 * Share(modal) < Cardinality(attributable)
        \/ ~DimensionWeights(more) THEN {}
     ELSE {Candidate("dimension_weights", "increase", c, more,
                     {j \in attributable : suspect[j] = modal})}

\* Mutant: an even number of values takes the sum of the two middle ones.
MedianUnhalved(S, f) ==
  LET Ranked(k) == CHOOSE v \in {f[x] : x \in S} :
                     /\ Cardinality({x \in S : f[x] < v}) < k
                     /\ Cardinality({x \in S : f[x] <= v}) >= k
      n == Cardinality(S)
  IN IF n % 2 = 1 THEN Ranked((n + 1) \div 2) ELSE Ranked(n \div 2) + Ranked(n \div 2 + 1)

\* _median of f over S: the element of rank k has fewer than k below it and
\* at least k up to it; an even number of values takes the mean of two.
Median(S, f) ==
  LET Ranked(k) == CHOOSE v \in {f[x] : x \in S} :
                     /\ Cardinality({x \in S : f[x] < v}) < k
                     /\ Cardinality({x \in S : f[x] <= v}) >= k
      n == Cardinality(S)
  IN IF n % 2 = 1 THEN Ranked((n + 1) \div 2)
     ELSE (Ranked(n \div 2) + Ranked(n \div 2 + 1)) \div 2

LowerCeiling(seen, c) ==
  IF /\ seen # {} /\ c.seniority_max > 1
     /\ c.seniority_min = 0 \/ c.seniority_max - 1 >= c.seniority_min
  THEN {Candidate("seniority_max", "tighten", c, c.seniority_max - 1, seen)} ELSE {}

\* Mutant: the two bounds may cross.
RaiseBottomBlindly(seen, c) ==
  IF seen # {} /\ c.seniority_min # 0 /\ c.seniority_min < Rungs
  THEN {Candidate("seniority_min", "tighten", c, c.seniority_min + 1, seen)} ELSE {}

RaiseBottom(seen, c) ==
  IF /\ seen # {} /\ c.seniority_min # 0 /\ c.seniority_min < Rungs
     /\ c.seniority_max = 0 \/ c.seniority_min + 1 <= c.seniority_max
  THEN {Candidate("seniority_min", "tighten", c, c.seniority_min + 1, seen)} ELSE {}

\* One listing in another unit drops the whole set.
RaiseFloor(seen, listing, c) ==
  LET floor == c.compensation_floor
      priced == {j \in seen : listing[j].comp.min # Unset}
      comparable == IF \A j \in priced : listing[j].comp.unit = floor.unit THEN priced ELSE {}
      amount == Median(comparable, [j \in comparable |-> listing[j].comp.min])
  IN IF /\ floor.amount # Unset /\ floor.unit # Unset
        /\ Cardinality(comparable) >= 2 /\ amount > floor.amount
     THEN {Candidate("compensation_floor", "tighten", c,
                     [amount |-> amount, unit |-> floor.unit], seen)} ELSE {}

ShortenAge(seen, c) ==
  LET days == Max({AgeFloor, (c.posting_age_days * 2) \div 3})
  IN IF seen # {} /\ days < c.posting_age_days
     THEN {Candidate("posting_age_days", "tighten", c, days, seen)} ELSE {}

\* _track_b; flags[j] are the flags stored on the listing.
TrackB(fast, listing, flags, c) ==
  LET Flagged(f) == {j \in fast : f \in flags[j]}
  IN LowerCeiling(Flagged("stretch_role"), c) \cup RaiseBottom(Flagged("step_down"), c)
     \cup RaiseFloor(Flagged("comp_below_floor"), listing, c)
     \cup ShortenAge(Flagged("posting_stale"), c)

\* The strongest of the qualifying terms becomes one more exclusion.
Exclude(field, terms, Weight(_), Naming(_), c) ==
  IF terms = {} THEN {}
  ELSE LET term == CHOOSE t \in terms : \A u \in terms : Weight(u) <= Weight(t)
       IN {Candidate(field, "tighten", c, ResolveField(c, field) \cup {term}, Naming(term))}

\* _track_c: a word in enough distinct titles, an employer with enough
\* listings, neither of them seen on a listing that progressed.
TrackC(fast, progressed, listing, c) ==
  LET Words(S) == UNION {listing[j].words : j \in S}
      Titles(w) == {listing[j].title : j \in {k \in fast : w \in listing[k].words}}
      Of(e) == {j \in fast : listing[j].company = e}
      Naming(w) == {j \in fast : w \in listing[j].words}
      TitleWeight(w) == Cardinality(Titles(w))
      OfWeight(e) == Cardinality(Of(e))
      words == {w \in Words(fast) \ (Words(progressed) \cup c.exclusions.title_keywords) :
                  TitleWeight(w) >= MinObservations["exclusions.title_keywords"]}
      employers == {e \in {listing[j].company : j \in fast}
                         \ ({listing[j].company : j \in progressed} \cup c.exclusions.employers) :
                      OfWeight(e) >= MinObservations["exclusions.employers"]}
  IN Exclude("exclusions.title_keywords", words, TitleWeight, Naming, c)
     \cup Exclude("exclusions.employers", employers, OfWeight, Of, c)

\* detect_candidates over the listings, given the signal of each.
DetectCandidates(signal, listing, flags, c) ==
  LET fast == {j \in DOMAIN signal : signal[j] = "fast_reject"}
      progressed == {j \in DOMAIN signal : signal[j] = "progressed"}
  IN TrackA(fast, listing, c) \cup TrackB(fast, listing, flags, c)
     \cup TrackC(fast, progressed, listing, c)

ObservationCount(cand) == Cardinality(cand.observations) + cand.quotes

\* gate
MeetsThreshold(cand) == ObservationCount(cand) >= MinObservations[cand.field]

----------------------------------------------------------------------------
(* predicted_effect.py: what a change would do to the listings in play.    *)
(* added and removed are would_exclude and would_include, or would_flag    *)
(* and would_unflag; matches is the literal count.                         *)

LIVE_STATUSES == {"new", "shortlisted", "applied", "interviewing", "offer"}

LoadLiveBacklog(status) == {j \in DOMAIN status : status[j] \in LIVE_STATUSES}

PredictFilterChange(live, listing, field, current, proposed) ==
  LET Drops(j, value) == IF field = "posting_age_days" THEN TooOld(listing[j].age, value)
                         ELSE OutOfPlace(listing[j].place, value)
  IN [added |-> {j \in live : ~Drops(j, current) /\ Drops(j, proposed)},
      removed |-> {j \in live : Drops(j, current) /\ ~Drops(j, proposed)}]

\* Mutant: a listing on the bound itself counts as beyond it.
FlagVerdictInclusive(l, field, value) ==
  IF field = "compensation_floor"
  THEN CASE CompareToFloor(l.comp, value) = "below" -> "raised"
         [] CompareToFloor(l.comp, value) = "above" -> "clear"
         [] OTHER -> "unknown"
  ELSE IF l.rung = 0 THEN "unknown"
  ELSE IF value # 0 /\ (IF field = "seniority_max" THEN l.rung >= value ELSE l.rung <= value)
       THEN "raised" ELSE "clear"

\* _comp_below_floor and _seniority_flag_raised: "unknown" is their None.
FlagVerdict(l, field, value) ==
  IF field = "compensation_floor"
  THEN CASE CompareToFloor(l.comp, value) = "below" -> "raised"
         [] CompareToFloor(l.comp, value) = "above" -> "clear"
         [] OTHER -> "unknown"
  ELSE IF l.rung = 0 THEN "unknown"
  ELSE IF value # 0 /\ (IF field = "seniority_max" THEN l.rung > value ELSE l.rung < value)
       THEN "raised" ELSE "clear"

PredictFlagChange(live, listing, field, current, proposed) ==
  LET Moves(a, b) == {j \in live : /\ FlagVerdict(listing[j], field, current) = a
                                   /\ FlagVerdict(listing[j], field, proposed) = b}
  IN [added |-> Moves("clear", "raised"), removed |-> Moves("raised", "clear")]

\* The listings that mention the term a list gains; work_authorization is
\* never proposed, no track names it.
PredictLiteralCount(live, listing, field, current, proposed) ==
  [matches |-> {j \in live : \E t \in proposed \ current :
                  IF field = "exclusions.title_keywords" THEN t \in listing[j].mentions
                  ELSE t = listing[j].company}]

\* FIELD_TIERS and predict_effect.  The score recompute of a weights change
\* is left out: it reads scores the model does not have.
PredictEffect(live, listing, cand) ==
  LET field == cand.field
      current == cand.current_value
      proposed == cand.proposed_value
  IN CASE field \in {"posting_age_days", "locations"} ->
            PredictFilterChange(live, listing, field, current, proposed)
       [] field \in {"seniority_min", "seniority_max", "compensation_floor"} ->
            PredictFlagChange(live, listing, field, current, proposed)
       [] field \in {"exclusions.title_keywords", "exclusions.employers"} ->
            PredictLiteralCount(live, listing, field, current, proposed)
       [] OTHER -> [matches |-> {}]
=============================================================================
