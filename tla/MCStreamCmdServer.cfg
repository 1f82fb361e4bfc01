CONSTANTS
  s1 = s1
  s2 = s2
  s3 = s3
  s4 = s4
  s5 = s5
  Sockets = {s1, s2, s3, s4}
  NoSocket = nosocket
  None = none
  Users = {"gnmd", "gncd"}
  MaxInbound = 2
  MaxChanges = 1

SPECIFICATION Spec
SYMMETRY Symmetry
INVARIANT ServerTypeOK
INVARIANT SocketIsRead
INVARIANT KnownIsUp
INVARIANT OneConnection
INVARIANT NoneForgotten
CHECK_DEADLOCK FALSE
