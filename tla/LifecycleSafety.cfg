\* Triggers and stops beside the scheduler's fires: two stops, so the second may
\* overwrite the marker of the first, and a crash of any process.
SPECIFICATION Spec
CONSTANTS
  Runs = {r1, r2}
  NoRun = NoRun
  Requests = {q1}
  Fires = {f1}
  Callers = {"trigger", "fire"}
  StaleAfter = 1
  Grace = 0
  BeatLimit = 1
  MaxStops = 2
  MaxCrashes = 1
SYMMETRY Symmetry
INVARIANTS TypeOK LifecycleInv
PROPERTIES NoFalseKill StopNotLost OnlyUserStops RowsImplementRunRow
