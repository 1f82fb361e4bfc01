CONSTANTS
  g1 = g1
  g2 = g2
  Guids = {g1, g2}
  NoGuid = none
  NoRow = norow
  Rows <- MCRows
  DaySets <- SomeDays
  DaySeconds = 2
  PerSecond = 2
  Jumps <- MCJumps

SPECIFICATION Spec
SYMMETRY Symmetry
INVARIANT TimeTypeOK
INVARIANT ArmedForNext
INVARIANT TriggersOnTime
INVARIANT NoneMissed
