CONSTANTS
  a = a
  b = b
  s1 = s1
  c1 = c1
  c2 = c2
  r1 = r1
  r2 = r2
  Sessions = {a, b}
  Sites = {s1}
  Chassis = {c1, c2}
  Receivers = {r1, r2}
  NoId = noid
  Free = free
  MaxSlots = 2
  Quantity <- MCQuantity
  MaxNew = 1
  MaxOps = 2

SPECIFICATION Spec
SYMMETRY Symmetry
INVARIANT InventoryTypeOK
INVARIANT OnePerSlot
INVARIANT Housed
CHECK_DEADLOCK FALSE
