------------------------------- MODULE RunRow -------------------------------
(***************************************************************************)
(* What the table of runs promises to its readers, whoever writes it: a    *)
(* row is created once, it leaves "running" for a verdict, it never comes  *)
(* back to "running", and the only writer that may put a verdict on a row  *)
(* is one that saw the row running beforehand and has not settled since.   *)
(*                                                                         *)
(* finish_if_running reads the row and later updates it with no condition, *)
(* so a row that is already terminal may get a second verdict from a       *)
(* writer that looked at it earlier.  The abstract row allows that, and    *)
(* nothing more: a writer that looks at a terminal row can never change    *)
(* it.                                                                     *)
(***************************************************************************)
CONSTANTS Runs, Writers

VARIABLES row,    \* row[r]: "none", "running" or the verdict
          obs     \* obs[w]: the rows w saw running and may still settle

vars == <<row, obs>>

\* A verdict merges runs.status with the kind of runs.error_summary: the two
\* FAILED verdicts are "failed" (the pipeline aborted) and "interrupted".
Verdicts == {"completed", "failed", "interrupted", "stopped", "skipped"}

Init == /\ row = [r \in Runs |-> "none"]
        /\ obs = [w \in Writers |-> {}]

\* A run starts; or a skip is recorded, which is terminal from the start.
Create(r) == /\ row[r] = "none"
             /\ row' = [row EXCEPT ![r] = "running"]
             /\ UNCHANGED obs

Skip(r) == /\ row[r] = "none"
           /\ row' = [row EXCEPT ![r] = "skipped"]
           /\ UNCHANGED obs

Running == {r \in Runs : row[r] = "running"}

\* A writer looks at the table and sees rows R running.
Observe(w, R) == /\ R \subseteq Running
                 /\ obs' = [obs EXCEPT ![w] = R]
                 /\ UNCHANGED row

\* A writer settles rows it saw running, and is done with them.
Settle(w, R, v) == /\ R \subseteq obs[w]
                   /\ row' = [r \in Runs |-> IF r \in R THEN v ELSE row[r]]
                   /\ obs' = [obs EXCEPT ![w] = {}]

\* Writers give up some or all of the rows they looked at (a row judged
\* live, an exception, a crash).
Forget == /\ obs' \in [Writers -> SUBSET Runs]
          /\ \A w \in Writers : obs'[w] \subseteq obs[w]
          /\ UNCHANGED row

Next == \/ Forget
        \/ \E r \in Runs : Create(r) \/ Skip(r)
        \/ \E w \in Writers :
             \/ \E R \in SUBSET Running : Observe(w, R)
             \/ \E R \in SUBSET obs[w], v \in Verdicts \ {"skipped"} :
                  Settle(w, R, v)

Spec == Init /\ [][Next]_vars
=============================================================================
