\* Two branches that check before either of them has recorded.
SPECIFICATION Spec
CONSTANTS
  Employers = {e1, e2}
  Nobody = Nobody
  Concurrency = 2
  Cap = 2
  NoCap = NoCap
  MaxCost = 2
  MaxListings = 1
  MaxAttempts = 1
SYMMETRY Symmetry
INVARIANT OneCallOvershoot
