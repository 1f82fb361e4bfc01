CONSTANTS
  s1 = s1
  s2 = s2
  s3 = s3
  s4 = s4
  s5 = s5
  Sockets = {s1, s2, s3, s4}
  NoSocket = nosocket
  None = none
  Users = {"gncd"}
  MaxInbound = 1
  MaxChanges = 0

SPECIFICATION Spec
SYMMETRY Symmetry
INVARIANT NothingNullIsUsed
