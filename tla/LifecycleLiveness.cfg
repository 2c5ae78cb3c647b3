\* Two command-line runs, and a Runs page that keeps polling.
SPECIFICATION FairSpec
CONSTANTS
  Runs = {r1, r2}
  NoRun = NoRun
  Requests = {q1}
  Fires = {}
  Callers = {"list", "cli"}
  StaleAfter = 1
  Grace = 0
  BeatLimit = 1
  MaxStops = 1
  MaxCrashes = 0
PROPERTIES StopHonoured OrphanReaped
