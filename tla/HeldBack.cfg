SPECIFICATION Spec
CONSTANTS
  Ats = Ats
  Careers = Careers
  la = la
  lb = lb
  lc = lc
  Free = Free
  Employers = {Ats, Careers}
  Crawled = {Careers}
  Posts <- TwoPostings
  Tiers = {"deterministic", "full"}
  Backends = {"sqlite"}
  Slots = 2
  Attempts = 1
  MaxRuns = 2
  MaxEvents = 0
INVARIANT HeldBackPickedUp
CHECK_DEADLOCK FALSE
