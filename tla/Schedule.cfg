SPECIFICATION Spec
CONSTANTS
  early = early
  late = late
  even = even
  summer = summer
  None = None
  RunAts = {early, late}
  Zones = {even, summer}
  Fires <- MCFires
  Day = 4
  Skew = 1
  Horizon = 6
  MaxSaves = 2
  MaxCrashes = 2
INVARIANT ScheduleInv
PROPERTIES OccurrenceKept CatchUpOnce LabelTruthful SettingFollowed
CHECK_DEADLOCK FALSE
