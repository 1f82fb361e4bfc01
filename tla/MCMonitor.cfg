CONSTANTS
  Files <- MCFiles
  Zones <- MCZones
  HostZones <- MCHostZones
  Utc = "utc"
  Null = null
  Interval = 2
  MaxDelay = 1
  MaxStarts = 2
  Horizon = 24

SPECIFICATION Spec
INVARIANT MonitorTypeOK
INVARIANT DeadIsNoticed
INVARIANT AliveIsShown
INVARIANT ClockIsRight
CHECK_DEADLOCK FALSE
