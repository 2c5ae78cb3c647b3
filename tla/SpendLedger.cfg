\* One crawled employer is enough.
SPECIFICATION Spec
CONSTANTS
  Employers = {e1}
  Nobody = Nobody
  Concurrency = 2
  Cap = 2
  NoCap = NoCap
  MaxCost = 2
  MaxListings = 1
  MaxAttempts = 1
INVARIANT EveryCallRecorded
