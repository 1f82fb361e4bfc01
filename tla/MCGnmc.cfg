CONSTANTS
  a = a
  b = b
  u1 = u1
  u2 = u2
  f1 = f1
  f2 = f2
  e1 = e1
  Sessions = {a, b}
  Users = {u1, u2}
  Feeds = {f1, f2}
  Events = {e1}
  Nobody = nobody
  MaxUrl = 2
  MaxOps = 2

SPECIFICATION Spec
SYMMETRY Symmetry
INVARIANT GnmcTypeOK
INVARIANT AnAdministratorIsLeft
INVARIANT PostedUrlIsCurrent
INVARIANT FeedIsThere
CHECK_DEADLOCK FALSE
