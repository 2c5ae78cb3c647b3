--------------------------- MODULE MCCriteriaLoop ---------------------------
(* A small instance of CriteriaLoop: four worlds of listings, two for the  *)
(* seniority bounds, one for the floor and the age, one for the exclusions.*)
EXTENDS CriteriaLoop, TLC

CONSTANTS ja, jb, jc, Keyword, Employer, Other

Weights == [role_fit |-> 1, seniority_fit |-> 1]
Anywhere == [worldwide |-> FALSE, region |-> Unset, country |-> Unset]
Scored == [role_fit |-> [kind |-> "object", score |-> 2],
           seniority_fit |-> [kind |-> "object", score |-> 4]]
NoPay == [min |-> Unset, unit |-> Unset]

Listing(rung, title, words, company, pay, age, place) ==
  [rung |-> rung, title |-> title, words |-> words, mentions |-> words,
   company |-> company, comp |-> pay, age |-> age, place |-> place, dims |-> Scored]

Pay(n) == [min |-> n, unit |-> "eur"]
Abroad == [worldwide |-> FALSE, region |-> "EU", country |-> "DE"]

Ceiling == ja :> Listing(4, "staff", {}, Employer, NoPay, 1, Anywhere)
        @@ jb :> Listing(3, "senior", {}, Employer, NoPay, 1, Anywhere)
Seniority == ja :> Listing(4, "staff", {}, Employer, NoPay, 1, Anywhere)
          @@ jb :> Listing(1, "junior", {}, Employer, NoPay, 1, Anywhere)
Money == ja :> Listing(0, "a", {}, Employer, Pay(6), Undated, Anywhere)
      @@ jb :> Listing(0, "b", {}, Other, Pay(8), Undated, Anywhere)
      @@ jc :> Listing(0, "c", {}, Other, Pay(4), 3, Abroad)
Terms == ja :> Listing(0, "a", {Keyword}, Employer, NoPay, 1, Anywhere)
      @@ jb :> Listing(0, "b", {Keyword}, Other, NoPay, 1, Anywhere)

Moved(from, to) == [from |-> from, to |-> to, quick |-> TRUE]
Rejected == <<Moved("new", "rejected")>>
Hesitated == <<Moved("new", "shortlisted"), Moved("shortlisted", "new"), Moved("new", "rejected")>>
Dropped == <<Moved("new", "shortlisted"), Moved("shortlisted", "rejected")>>

\* The user has rejected the listings named.  With MaxEvents = 3 one more
\* review follows in the world of the exclusions; with MaxNotes = 1 a note is
\* written in the world of the ceiling, the others have one that is older
\* than the criteria.
MCWorlds ==
  [Ceiling |-> [listing |-> Ceiling, notes |-> <<>>, history |-> ja :> Hesitated @@ jb :> <<>>],
   Seniority |-> [listing |-> Seniority, notes |-> <<0>>,
                  history |-> ja :> Dropped @@ jb :> Rejected],
   Money |-> [listing |-> Money, notes |-> <<0>>,
              history |-> ja :> Dropped @@ jb :> Rejected @@ jc :> <<>>],
   Terms |-> [listing |-> Terms, notes |-> <<0>>, history |-> ja :> Rejected @@ jb :> Rejected]]

MCPayload ==
  [seniority_min |-> 2, seniority_max |-> 3, posting_age_days |-> 3,
   locations |-> [countries |-> {}, regions |-> {}],
   compensation_floor |-> [amount |-> 9, unit |-> "eur"],
   exclusions |-> [title_keywords |-> {}, employers |-> {}],
   work_authorization |-> {}, dimension_weights |-> Weights]

MCEdits ==
  {[field |-> "compensation_floor", value |-> [amount |-> 5, unit |-> "eur"]]}

MCMinimums ==
  [f \in PERMITTED_EDIT_FIELDS |-> IF f \in {"seniority_min", "seniority_max"} THEN 1 ELSE 2]

\* A second generation of proposals only where a rejected one comes back.
MCProposals == [w \in DOMAIN MCWorlds |-> IF w = "Ceiling" THEN 2 ELSE 1]

MCSymmetry == Permutations(Sessions) \cup Permutations(Passes)
=============================================================================
