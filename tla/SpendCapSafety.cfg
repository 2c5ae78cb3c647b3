\* Three employers, two at a time, and calls that may cost more than the cap.
SPECIFICATION FairSpec
CONSTANTS
  Employers = {e1, e2, e3}
  Nobody = Nobody
  Concurrency = 2
  Cap = 1
  NoCap = NoCap
  MaxCost = 2
  MaxListings = 1
  MaxAttempts = 2
INVARIANTS TypeOK OvershootBounded SpendInv LedgerExact
PROPERTIES CapIsSticky AllBranchesEnd
