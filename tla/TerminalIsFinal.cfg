\* One command-line run and one polling request are enough.
SPECIFICATION Spec
CONSTANTS
  Runs = {r1}
  NoRun = NoRun
  Requests = {q1}
  Fires = {}
  Callers = {"cli", "list"}
  StaleAfter = 1
  Grace = 0
  BeatLimit = 1
  MaxStops = 1
  MaxCrashes = 0
PROPERTY TerminalIsFinal
CHECK_DEADLOCK FALSE
