---------------------------- MODULE CriteriaLoop ----------------------------
(***************************************************************************)
(* The feedback loop: the user reviews listings and leaves notes; the tail *)
(* of a run turns that history into proposals; the user accepts or rejects *)
(* them, or saves the criteria form, and each change of the criteria is a  *)
(* new version.                                                            *)
(*                                                                         *)
(* The actors are API sessions, which decide and save, and passes, the     *)
(* tails of runs.  A pass starts when its run's row is already terminal    *)
(* (finalize_run has committed), so the overlap guard lets the next run    *)
(* start, and two passes may be under way at once.  Neither SQLite's       *)
(* driver nor READ COMMITTED gives a session one snapshot: each statement  *)
(* that reads is a step, and what is flushed and committed together is     *)
(* one step, since a second writer waits.                                  *)
(***************************************************************************)
EXTENDS LoopRules, SequencesExt

CONSTANTS Sessions,      \* API and CLI sessions that decide or save
          Passes,        \* runs whose tails may overlap
          Worlds,        \* name -> the [listing, history, notes] to start from
          FirstPayload,  \* the payload of version 1
          ManualEdits,   \* the [field, value] edits the user may save
          Reviews,       \* the statuses the user sets
          MaxVersions,   \* bound: no session starts with more versions
          MaxProposals,  \* bound: no pass starts with more proposals, in each world
          MaxEvents,     \* bound: status events in all
          MaxNotes,      \* bound: feedback notes
          MaxQuotes      \* bound: claims of one extraction for one field

Statuses == LIVE_STATUSES \cup {"rejected", "withdrawn"}

ASSUME FirstPayloadAssumption == CriteriaPayload(FirstPayload)
ASSUME LoopAssumption ==
  /\ IsFiniteSet(Passes) /\ Reviews \subseteq Statuses /\ MaxQuotes \in Nat
  /\ \A w \in DOMAIN Worlds :
       /\ IsFiniteSet(DOMAIN Worlds[w].listing)
       /\ \A j \in DOMAIN Worlds[w].listing : IsListing(Worlds[w].listing[j])
       /\ DOMAIN Worlds[w].history = DOMAIN Worlds[w].listing
       /\ \A j \in DOMAIN Worlds[w].history :
            Worlds[w].history[j] \in Seq([from : Statuses, to : Statuses, quick : BOOLEAN])

VARIABLES
  world,      \* the stored listings; only what is below changes of them
  status,     \* jobs.status
  history,    \* status_events of each listing
  flags,      \* jobs.score_flags: the raised ones
  criteria,   \* the rows of criteria
  notes,      \* the chat notes: the newest version when each was written
  proposals,  \* criteria_proposals, oldest first
  session,    \* what each session has read so far
  pass        \* what each pass has read so far

jobs == <<world, status, history, flags>>
vars == <<jobs, criteria, notes, proposals, session, pass>>

listing == Worlds[world].listing
Jobs == DOMAIN listing
Idle == [at |-> "idle"]

\* get_active_criteria
Active == CHOOSE r \in criteria : r.active

\* A row of each of the two tables.
IsVersion(r) ==
  r \in [version : Nat \ {0}, active : BOOLEAN, payload : {r.payload},
         source : {"manual_edit", "proposal_accepted"}]
IsProposal(x) ==
  x \in [field : PERMITTED_EDIT_FIELDS, direction : {"tighten", "increase"},
         current_value : {x.current_value}, proposed_value : {x.proposed_value},
         count : Nat, effect : {x.effect}, run : Passes,
         status : {"pending", "accepted", "rejected"}, result : Nat]

TypeOK ==
  /\ world \in DOMAIN Worlds /\ DOMAIN history = Jobs /\ status \in [Jobs -> Statuses]
  /\ DOMAIN flags = Jobs
  /\ criteria # {} /\ IsFiniteSet(criteria) /\ \A r \in criteria : IsVersion(r)
  /\ proposals \in Seq(Range(proposals)) /\ \A i \in DOMAIN proposals : IsProposal(proposals[i])
  /\ DOMAIN session = Sessions /\ DOMAIN pass = Passes
  /\ \A s \in Sessions :
       session[s].at \in {"idle", "loaded", "form", "applied", "numbered", "rejecting"}
  /\ \A p \in Passes : pass[p].at \in {"idle", "read", "gated", "ready"}

Init ==
  /\ world \in DOMAIN Worlds /\ history = Worlds[world].history /\ notes = Worlds[world].notes
  /\ status = [j \in Jobs |-> IF history[j] = <<>> THEN "new" ELSE Last(history[j]).to]
  /\ flags = [j \in Jobs |-> IF PassesFilters(listing[j], FirstPayload)
                             THEN ComputeFlags(listing[j], FirstPayload, 0) ELSE {}]
  /\ criteria = {[version |-> 1, active |-> TRUE, source |-> "manual_edit",
                  payload |-> FirstPayload]}
  /\ proposals = <<>>
  /\ session = [s \in Sessions |-> Idle]
  /\ pass = [p \in Passes |-> Idle]

----------------------------------------------------------------------------
(* The user's history: status changes and feedback, and what a run that    *)
(* scores a listing again leaves on it.                                    *)

\* update_status through JobRepository.set_status: any status, at any time,
\* with its event.  How quick it was matters to a rejection only.
UpdateStatus(j, to, quick) ==
  /\ ReduceSet(LAMBDA k, n : n + Len(history[k]), Jobs, 0) < MaxEvents
  /\ status' = [status EXCEPT ![j] = to]
  /\ history' = [history EXCEPT ![j] =
                   Append(@, [from |-> status[j], to |-> to, quick |-> quick])]
  /\ UNCHANGED <<world, flags, criteria, notes, proposals, session, pass>>

CreateFeedback ==
  /\ Len(notes) < MaxNotes
  /\ notes' = Append(notes, Cardinality(criteria))
  /\ UNCHANGED <<jobs, criteria, proposals, session, pass>>

\* A run finds the listing again: write_listing stores the flags computed
\* with the criteria of now, unless a filter drops the listing.
ScoreAgain(j, late) ==
  /\ PassesFilters(listing[j], Active.payload)
  /\ flags[j] # ComputeFlags(listing[j], Active.payload, late)
  /\ flags' = [flags EXCEPT ![j] = ComputeFlags(listing[j], Active.payload, late)]
  /\ UNCHANGED <<world, status, history, criteria, notes, proposals, session, pass>>

----------------------------------------------------------------------------
(* Decisions and saves.                                                    *)

Goto(s, state) == session' = [session EXCEPT ![s] = state]

\* _load, and the check of the loaded row that accept_proposal begins with:
\* a row that is no longer PENDING answers 409.
LoadToAccept(s, i) ==
  /\ session[s] = Idle /\ Cardinality(criteria) < MaxVersions
  /\ proposals[i].status = "pending"
  /\ Goto(s, [at |-> "loaded", id |-> i])
  /\ UNCHANGED <<jobs, criteria, notes, proposals, pass>>

\* Mutant: the changed payload is not validated again.
ApplyUnvalidated(s) ==
  /\ session[s].at = "loaded"
  /\ LET i == session[s].id
     IN Goto(s, [at |-> "applied", id |-> i,
                 payload |-> SetLeaf(Active.payload, proposals[i].field,
                                     proposals[i].proposed_value)])
  /\ UNCHANGED <<jobs, criteria, notes, proposals, pass>>

\* accept_proposal up to the writer: the active payload, the change, its
\* validation; 422 when it does not validate.
ApplyProposedChange(s) ==
  /\ session[s].at = "loaded"
  /\ LET i == session[s].id
         new == SetLeaf(Active.payload, proposals[i].field, proposals[i].proposed_value)
     IN Goto(s, IF CriteriaPayload(new)
                THEN [at |-> "applied", id |-> i, payload |-> new] ELSE Idle)
  /\ UNCHANGED <<jobs, criteria, notes, proposals, pass>>

\* The form shows the active criteria until the user saves them; id 0 is a
\* save, by the form or by huntloop criteria load.
OpenForm(s) ==
  /\ session[s] = Idle /\ Cardinality(criteria) < MaxVersions
  /\ Goto(s, [at |-> "form", payload |-> Active.payload])
  /\ UNCHANGED <<jobs, criteria, notes, proposals, pass>>

SaveCriteria(s, edit) ==
  /\ session[s].at = "form"
  /\ LET new == SetLeaf(session[s].payload, edit.field, edit.value)
     IN Goto(s, IF CriteriaPayload(new)
                THEN [at |-> "applied", id |-> 0, payload |-> new] ELSE Idle)
  /\ UNCHANGED <<jobs, criteria, notes, proposals, pass>>

\* save_new_criteria_version: SELECT max(version) ...
NumberVersion(s) ==
  /\ session[s].at = "applied"
  /\ Goto(s, [at |-> "numbered", id |-> session[s].id, payload |-> session[s].payload,
              version |-> Max({r.version : r \in criteria}) + 1])
  /\ UNCHANGED <<jobs, criteria, notes, proposals, pass>>

NewRow(s) ==
  [version |-> session[s].version, active |-> TRUE, payload |-> session[s].payload,
   source |-> IF session[s].id = 0 THEN "manual_edit" ELSE "proposal_accepted"]

\* Mutant: the column has no unique constraint.
NeverTaken(s) == FALSE

\* uq_criteria_version
Taken(s) == \E r \in criteria : r.version = session[s].version

\* Mutant: the proposal is stamped in a transaction of its own, first.
StampApart(s) ==
  /\ session[s].at = "numbered"
  /\ Goto(s, Idle)
  /\ criteria' = IF Taken(s) THEN criteria
                 ELSE {[r EXCEPT !.active = FALSE] : r \in criteria} \cup {NewRow(s)}
  /\ proposals' = [i \in DOMAIN proposals |->
       IF i = session[s].id
       THEN [proposals[i] EXCEPT !.status = "accepted", !.result = session[s].version]
       ELSE proposals[i]]
  /\ UNCHANGED <<jobs, notes, pass>>

\* ... and UPDATE is_active, INSERT, the proposal's stamp and the commit.
\* The unique version refuses the whole transaction (a 500).
CommitVersion(s) ==
  /\ session[s].at = "numbered"
  /\ Goto(s, Idle)
  /\ IF Taken(s) THEN UNCHANGED <<criteria, proposals>>
     ELSE /\ criteria' = {[r EXCEPT !.active = FALSE] : r \in criteria} \cup {NewRow(s)}
          /\ proposals' = [i \in DOMAIN proposals |->
               IF i = session[s].id
               THEN [proposals[i] EXCEPT !.status = "accepted", !.result = session[s].version]
               ELSE proposals[i]]
  /\ UNCHANGED <<jobs, notes, pass>>

\* Mutant: the status of the loaded row is not checked.
LoadUnchecked(s, i) ==
  /\ session[s] = Idle
  /\ Goto(s, [at |-> "rejecting", id |-> i])
  /\ UNCHANGED <<jobs, criteria, notes, proposals, pass>>

\* _load, and reject_proposal's check of the loaded row.
LoadToReject(s, i) ==
  /\ session[s] = Idle /\ proposals[i].status = "pending"
  /\ Goto(s, [at |-> "rejecting", id |-> i])
  /\ UNCHANGED <<jobs, criteria, notes, proposals, pass>>

\* Mutant: a status the column does not know.
CommitDeclined(s) ==
  /\ session[s].at = "rejecting"
  /\ proposals' = [proposals EXCEPT ![session[s].id].status = "declined"]
  /\ Goto(s, Idle)
  /\ UNCHANGED <<jobs, criteria, notes, pass>>

\* reject_proposal: the UPDATE names the row by its key only.
CommitReject(s) ==
  /\ session[s].at = "rejecting"
  /\ proposals' = [proposals EXCEPT ![session[s].id].status = "rejected"]
  /\ Goto(s, Idle)
  /\ UNCHANGED <<jobs, criteria, notes, pass>>

----------------------------------------------------------------------------
(* generate_proposals.                                                     *)

Proceed(p, state) == pass' = [pass EXCEPT ![p] = state]

\* The version that bounds the feedback to read.
StartPass(p) ==
  /\ pass[p] = Idle /\ Len(proposals) < MaxProposals[world]
  /\ Proceed(p, [at |-> "read", version |-> Active.version])
  /\ UNCHANGED <<jobs, criteria, notes, proposals, session>>

\* collect_signals: the listings that have a history.
Signals == [j \in {k \in Jobs : history[k] # <<>>} |->
              ClassifyTransitions(history[j], status[j])]

\* _unconsumed_notes: those written since the version was created.
Unconsumed(version) == {n \in DOMAIN notes : notes[n] >= version}

\* extract_feedback_claims, which asks the model only if there is a note: how
\* often a candidate's field and direction get quoted.  _claims_from_call
\* keeps claims on permitted fields; one note may be quoted more than once.
Claims(candidates, version) ==
  [{c.field : c \in candidates} -> 0..IF Unconsumed(version) = {} THEN 0 ELSE MaxQuotes]

\* _fold_claims: a claim that no candidate has is dropped.
FoldClaims(candidates, quotes) == {[c EXCEPT !.quotes = quotes[c.field]] : c \in candidates}

\* detect_candidates reads the criteria again; then the extraction and gate.
\* Nothing left ends the pass.
Detect(p) ==
  /\ pass[p].at = "read"
  /\ LET candidates == DetectCandidates(Signals, listing, flags, Active.payload)
     IN \E quotes \in Claims(candidates, pass[p].version) :
          LET gated == {c \in FoldClaims(candidates, quotes) : MeetsThreshold(c)}
          IN Proceed(p, IF gated = {} THEN Idle
                        ELSE [at |-> "gated", base |-> Active.payload, candidates |-> gated])
  /\ UNCHANGED <<jobs, criteria, notes, proposals, session>>

Signature(x) == <<x.field, x.direction>>

\* Mutant: a proposal that waits does not block another.
BlocksRejectedOnly(cand) ==
  LET rejected == {i \in DOMAIN proposals : /\ Signature(proposals[i]) = Signature(cand)
                                            /\ proposals[i].status = "rejected"}
  IN rejected # {} /\ ObservationCount(cand) <= proposals[Max(rejected)].count

\* Mutant: as much evidence as last time is enough.
BlocksLess(cand) ==
  LET same == {i \in DOMAIN proposals : Signature(proposals[i]) = Signature(cand)}
      rejected == {i \in same : proposals[i].status = "rejected"}
  IN \/ \E i \in same : proposals[i].status = "pending"
     \/ rejected # {} /\ ObservationCount(cand) < proposals[Max(rejected)].count

\* _StoredHistory.blocks: a PENDING proposal of the signature, or as many
\* observations as the newest REJECTED one had.
Blocks(cand) ==
  LET same == {i \in DOMAIN proposals : Signature(proposals[i]) = Signature(cand)}
      rejected == {i \in same : proposals[i].status = "rejected"}
  IN \/ \E i \in same : proposals[i].status = "pending"
     \/ rejected # {} /\ ObservationCount(cand) <= proposals[Max(rejected)].count

\* A survivor with its evidence and its predicted effect (the rationale may
\* be a model call).
Proposal(p, c) ==
  [field |-> c.field, direction |-> c.direction, current_value |-> c.current_value,
   proposed_value |-> c.proposed_value, count |-> ObservationCount(c),
   effect |-> PredictEffect(LoadLiveBacklog(status), listing, c),
   run |-> p, status |-> "pending", result |-> 0]

\* _stored_history, and a proposal for each candidate it does not block.
ReadHistory(p) ==
  /\ pass[p].at = "gated"
  /\ Proceed(p, [at |-> "ready", base |-> pass[p].base,
                 adding |-> {Proposal(p, c) : c \in {d \in pass[p].candidates : ~Blocks(d)}}])
  /\ UNCHANGED <<jobs, criteria, notes, proposals, session>>

\* One commit for the pass; a crash before it leaves nothing behind.
CommitPass(p) ==
  /\ pass[p].at = "ready"
  /\ proposals' = proposals \o SetToSeq(pass[p].adding)
  /\ Proceed(p, Idle)
  /\ UNCHANGED <<jobs, criteria, notes, session>>

\* The process dies, or a statement of the pass raises: run_discovery logs
\* it and the session rolls back.
AbandonPass(p) ==
  /\ pass[p] # Idle
  /\ Proceed(p, Idle)
  /\ UNCHANGED <<jobs, criteria, notes, proposals, session>>

----------------------------------------------------------------------------
Review ==
  \/ \E j \in Jobs, to \in Reviews :
       \E quick \in IF to = "rejected" THEN BOOLEAN ELSE {TRUE} : UpdateStatus(j, to, quick)
  \/ \E j \in Jobs, late \in 0..1 : ScoreAgain(j, late)
  \/ CreateFeedback

Decide(s) ==
  \/ \E i \in DOMAIN proposals : LoadToAccept(s, i) \/ LoadToReject(s, i)
  \/ ApplyProposedChange(s) \/ CommitReject(s)
  \/ OpenForm(s) \/ \E edit \in ManualEdits : SaveCriteria(s, edit)
  \/ NumberVersion(s) \/ CommitVersion(s)

Generate(p) ==
  StartPass(p) \/ Detect(p) \/ ReadHistory(p) \/ CommitPass(p) \/ AbandonPass(p)

Next == Review \/ (\E s \in Sessions : Decide(s)) \/ (\E p \in Passes : Generate(p))

Spec == Init /\ [][Next]_vars

----------------------------------------------------------------------------
(* Properties.                                                             *)

\* criteria/loader.py: the versions are 1..n without a gap, and the newest,
\* and only the newest, is active, whoever saves and decides at once (the
\* index uq_criteria_single_active, the constraint uq_criteria_version).
NewestIsActive ==
  /\ {r.version : r \in criteria} = 1..Cardinality(criteria)
  /\ \A r \in criteria : r.active <=> r.version = Cardinality(criteria)

\* loop/apply.py and schema.py: no decision or save ever stores criteria
\* that do not validate, though two proposals that are each valid can be
\* invalid together (a floor and a ceiling that cross).
PayloadsValid == \A r \in criteria : CriteriaPayload(r.payload)

\* accept_proposal: a proposal that names a resulting version has that
\* version in the table, and it is some earlier version with the one field
\* of the proposal set, whatever was saved or decided meanwhile; and
\* ACCEPTED is never without a version.
Applied(x, versions) ==
  /\ x.status = "accepted" => x.result # 0
  /\ x.result # 0 =>
       \E r, q \in versions :
         /\ r.version = x.result /\ q.version < r.version /\ r.source = "proposal_accepted"
         /\ r.payload = SetLeaf(q.payload, x.field, x.proposed_value)
AcceptedMeansApplied == \A i \in DOMAIN proposals : Applied(proposals[i], criteria)

\* The proposals of a signature that wait for the user.
Waiting(sig) == {k \in DOMAIN proposals : proposals[k].status = "pending"
                                           /\ Signature(proposals[k]) = sig}

\* generate.py, D-10: the history is read before the proposals are added, so
\* "a PENDING proposal is never duplicated" holds of one pass; of passes
\* that overlap, no more proposals with one signature wait for the user
\* than there are passes.
DuplicatesBounded ==
  \A i \in DOMAIN proposals : Cardinality(Waiting(Signature(proposals[i]))) <= Cardinality(Passes)

\* Another of the signature, up to the one in place n.
Later(i, n) ==
  \E m \in i+1..n : Signature(proposals[m]) = Signature(proposals[i])

\* generate.py, D-10: what the user has rejected comes back only on strictly
\* stronger evidence: if the next proposal of a signature after a rejected
\* one (that no racing session had accepted) is of a run that does not
\* overlap its run, it counts more observations.  A pass that overlaps can
\* bring it back on less, and then that lower count is the bar.
StrongerAfterRejection ==
  \A i, k \in DOMAIN proposals :
    /\ i < k /\ Signature(proposals[k]) = Signature(proposals[i]) /\ ~Later(i, k - 1)
    /\ proposals[i].run = proposals[k].run
    /\ proposals[i].status = "rejected" /\ proposals[i].result = 0
    => proposals[k].count > proposals[i].count

\* What a session has loaded is there, and what it will write is valid and
\* made of a version that is there; the number it has read may be taken, but
\* leaves no gap.
SessionKept(s) ==
  LET x == session[s]
  IN /\ x.at \in {"loaded", "rejecting"} => x.id \in DOMAIN proposals
     /\ x.at \in {"applied", "numbered"} =>
          /\ CriteriaPayload(x.payload) /\ x.id \in {0} \cup DOMAIN proposals
          /\ x.id # 0 => \E q \in criteria :
               x.payload = SetLeaf(q.payload, proposals[x.id].field, proposals[x.id].proposed_value)
     /\ x.at = "numbered" => x.version \in 1..(Cardinality(criteria) + 1)
SessionsKept == \A s \in Sessions : SessionKept(s)

\* What a pass is about to add: one proposal at most of each signature, new
\* ones of its own run.
PassKept(p) ==
  /\ pass[p].at = "gated" =>
       /\ IsFiniteSet(pass[p].candidates) /\ \A c \in pass[p].candidates : IsCandidate(c, Jobs)
       /\ \A c, d \in pass[p].candidates : c.field = d.field => c = d
  /\ pass[p].at = "ready" =>
       /\ IsFiniteSet(pass[p].adding)
       /\ \A x \in pass[p].adding :
            IsProposal(x) /\ x.run = p /\ x.status = "pending" /\ x.result = 0
       /\ \A x, y \in pass[p].adding : x.field = y.field => x = y
PassesKept == \A p \in Passes : PassKept(p)

\* With those that wait, the passes that are about to add one more, having
\* seen none that waits.
Adding(sig) == {p \in Passes : pass[p].at = "ready"
                                 /\ \E x \in pass[p].adding : Signature(x) = sig}
DuplicatesCounted ==
  \A sig \in PERMITTED_EDIT_FIELDS \X {"tighten", "increase"} :
    Cardinality(Waiting(sig)) + Cardinality(Adding(sig)) <= Cardinality(Passes)

\* A proposal that a pass of its own run has read does not wait, and is the
\* bar if it was rejected and is the last of its signature: as long as the
\* pass goes on, and for what the pass has added in place n + 1.
Settled(i, n, count) ==
  /\ proposals[i].status # "pending"
  /\ proposals[i].status = "rejected" /\ proposals[i].result = 0 /\ ~Later(i, n) =>
       count > proposals[i].count
BarIsRead ==
  \A p \in Passes : pass[p].at = "ready" =>
    \A x \in pass[p].adding, i \in DOMAIN proposals :
      Signature(proposals[i]) = Signature(x) /\ proposals[i].run = p =>
        Settled(i, Len(proposals), x.count)
BarIsKept ==
  \A i, k \in DOMAIN proposals :
    i < k /\ Signature(proposals[k]) = Signature(proposals[i]) /\ proposals[i].run = proposals[k].run
    => Settled(i, k - 1, proposals[k].count)

TableInv ==
  /\ TypeOK /\ NewestIsActive /\ PayloadsValid /\ AcceptedMeansApplied
  /\ SessionsKept /\ PassesKept /\ DuplicatesCounted /\ BarIsRead /\ BarIsKept

\* detect.py: what a track makes of the criteria, for a candidate and for the
\* proposal it becomes; no track names the other two fields.
Derived(x, c) ==
  /\ x.current_value = ResolveField(c, x.field)
  /\ \/ /\ x.field = "seniority_max" /\ c.seniority_max > 1
        /\ x.proposed_value = c.seniority_max - 1
        /\ c.seniority_min = 0 \/ c.seniority_min <= x.proposed_value
     \/ /\ x.field = "seniority_min" /\ c.seniority_min \in 1..(Rungs - 1)
        /\ x.proposed_value = c.seniority_min + 1
        /\ c.seniority_max = 0 \/ x.proposed_value <= c.seniority_max
     \/ /\ x.field = "compensation_floor" /\ c.compensation_floor.amount # Unset
        /\ x.proposed_value \in [amount : Int, unit : {c.compensation_floor.unit}]
        /\ x.proposed_value.amount > c.compensation_floor.amount
     \/ /\ x.field = "posting_age_days"
        /\ x.proposed_value \in Nat \ {0} /\ x.proposed_value < c.posting_age_days
     \/ /\ x.field \in {"exclusions.title_keywords", "exclusions.employers"}
        /\ \E term \in x.proposed_value \ x.current_value :
             x.proposed_value = x.current_value \cup {term}
     \/ /\ x.field = "dimension_weights" /\ x.proposed_value # x.current_value
        /\ DimensionWeights(x.proposed_value)

\* Some version had a higher floor.
Above(amount, versions) ==
  \E r \in versions : /\ r.payload.compensation_floor.amount # Unset
                      /\ r.payload.compensation_floor.amount > amount

\* detect.py, _track_b: only listings that were below a floor vote for a
\* higher one, so the loop never proposes a floor beyond the highest the
\* user has had: it can only ask for one that was given up.
FloorOnlyRestored ==
  \A i \in DOMAIN proposals :
    proposals[i].field = "compensation_floor" => Above(proposals[i].proposed_value.amount, criteria)

\* A flag tells of some version; what a pass has made, it has made of one.
FlagsKept ==
  \A j \in Jobs : "comp_below_floor" \in flags[j] => Above(listing[j].comp.min, criteria)
MadeOf(x, base, versions) ==
  /\ Derived(x, base)
  /\ x.field = "compensation_floor" => Above(x.proposed_value.amount, versions)
PassesDerive ==
  \A p \in Passes : pass[p].at \in {"gated", "ready"} =>
    /\ \E r \in criteria : r.payload = pass[p].base
    /\ \A x \in IF pass[p].at = "gated" THEN pass[p].candidates ELSE pass[p].adding :
         MadeOf(x, pass[p].base, criteria)

EvidenceInv == FlagsKept /\ PassesDerive /\ FloorOnlyRestored

LoopInv == TableInv /\ EvidenceInv

\* predicted_effect.py against filters.py and flags.py: when a pass predicts
\* an effect, a filter's count names every listing in play that the whole
\* filter chain would newly drop, and a flag's count is exactly the listings
\* whose flag the scorer would newly raise ("cannot drift apart").
EffectHonest(x, c, live) ==
  LET new == SetLeaf(c, x.field, x.proposed_value)
      Raised(d, j) == ComputeFlags(listing[j], d, 0) \ {"posting_stale"}
  IN CASE x.field = "posting_age_days" ->
            {j \in live : PassesFilters(listing[j], c) /\ ~PassesFilters(listing[j], new)}
              \subseteq x.effect.added
       [] x.field \in {"seniority_min", "seniority_max", "compensation_floor"} ->
            x.effect.added = {j \in live : Raised(new, j) \ Raised(c, j) # {}}
       [] OTHER -> TRUE
EffectsHonest ==
  [][\A p \in Passes : pass[p].at = "gated" /\ pass'[p].at = "ready" =>
       \A x \in pass'[p].adding : EffectHonest(x, pass[p].base, LoadLiveBacklog(status))]_vars

\* detect.py: every proposal was, against the criteria it was derived from, a
\* valid change that narrows: what a filter dropped or a flag marked before,
\* it drops or marks after, and a list only grows, by one.
Narrows(x, c, d) ==
  /\ c # d /\ CriteriaPayload(d)
  /\ \A j \in Jobs : /\ TooOld(listing[j].age, c.posting_age_days)
                         => TooOld(listing[j].age, d.posting_age_days)
                     /\ ComputeFlags(listing[j], c, 0) \subseteq ComputeFlags(listing[j], d, 0)
  /\ x.field \in {"exclusions.title_keywords", "exclusions.employers"} =>
       /\ x.current_value \subseteq x.proposed_value
       /\ Cardinality(x.proposed_value) = Cardinality(x.current_value) + 1

ProposalsNarrow ==
  [][\A i \in DOMAIN proposals' \ DOMAIN proposals : \E r \in criteria :
       LET x == proposals'[i]
       IN /\ ResolveField(r.payload, x.field) = x.current_value
          /\ Narrows(x, r.payload, SetLeaf(r.payload, x.field, x.proposed_value))]_vars

\* The sessions that loaded a proposal and have not answered yet.
Deciders(i) ==
  {s \in Sessions : /\ session[s].at \in {"loaded", "applied", "numbered", "rejecting"}
                    /\ session[s].id = i}

\* loader.py ("never UPDATEs an existing criteria row"): the payload and source
\* of a version are never rewritten.  apply.py, "a decision is a one-way door":
\* what a proposal says never changes, and once it is decided it never waits
\* again, names no older version than before, no new session gets to decide it,
\* and a session that had loaded it before may still do so, once.  (Such a
\* session can turn an acceptance into a rejection, a rejection into an
\* acceptance, or one resulting version into a later one.)
HistoryKept ==
  [][/\ \A r \in criteria : \E q \in criteria' :
         q.version = r.version /\ q.payload = r.payload /\ q.source = r.source
     /\ \A i \in DOMAIN proposals :
         /\ i \in DOMAIN proposals'
         /\ [proposals'[i] EXCEPT !.status = "", !.result = 0]
              = [proposals[i] EXCEPT !.status = "", !.result = 0]
         /\ proposals[i].status # "pending" =>
              /\ proposals'[i].status # "pending" /\ proposals'[i].result >= proposals[i].result
              /\ Deciders(i)' \subseteq Deciders(i)
              /\ proposals'[i] # proposals[i] => Deciders(i)' # Deciders(i)]_vars
=============================================================================
