SPECIFICATION Spec
CONSTANTS
  Ats = Ats
  Careers = Careers
  la = la
  lb = lb
  lc = lc
  Free = Free
  Employers = {Ats, Careers}
  Crawled = {Careers}
  Posts <- OnePosting
  Tiers = {"deterministic", "full"}
  Backends = {"sqlite", "postgresql"}
  Slots = 2
  Attempts = 2
  MaxRuns = 2
  MaxEvents = 1
INVARIANTS PipelineInv SkipKeepsRead HeldBackFetchedAgain
PROPERTIES NothingAfterVerdict RowsKept StampNotAhead RunsEnd
CHECK_DEADLOCK FALSE
