\* One manual trigger beside one scheduled fire.
SPECIFICATION Spec
CONSTANTS
  Runs = {r1, r2}
  NoRun = NoRun
  Requests = {q1}
  Fires = {f1}
  Callers = {"trigger", "fire"}
  StaleAfter = 1
  Grace = 0
  BeatLimit = 1
  MaxStops = 0
  MaxCrashes = 0
INVARIANT ManualAndScheduledExclude
CHECK_DEADLOCK FALSE
