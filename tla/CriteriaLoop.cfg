SPECIFICATION Spec
CONSTANTS
  Unset = Unset
  Undated = Undated
  ja = ja
  jb = jb
  jc = jc
  Keyword = Keyword
  Employer = Employer
  Other = Other
  s1 = s1
  s2 = s2
  p1 = p1
  p2 = p2
  Sessions = {s1, s2}
  Passes = {p1, p2}
  Rungs = 4
  AgeFloor = 2
  MinObservations <- MCMinimums
  Worlds <- MCWorlds
  FirstPayload <- MCPayload
  ManualEdits <- MCEdits
  Reviews = {"rejected", "applied"}
  MaxVersions = 2
  MaxProposals <- MCProposals
  MaxEvents = 3
  MaxNotes = 1
  MaxQuotes = 1
SYMMETRY MCSymmetry
INVARIANTS LoopInv NewestIsActive PayloadsValid AcceptedMeansApplied DuplicatesBounded StrongerAfterRejection FloorOnlyRestored
PROPERTIES EffectsHonest ProposalsNarrow HistoryKept
CHECK_DEADLOCK FALSE
