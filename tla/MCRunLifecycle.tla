--------------------------- MODULE MCRunLifecycle ---------------------------
(* RunLifecycle for TLC: interchangeable runs and requests.                *)
EXTENDS RunLifecycle, TLC

Symmetry == Permutations(Runs) \cup Permutations(Requests)
=============================================================================
