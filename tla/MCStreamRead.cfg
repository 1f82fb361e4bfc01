CONSTANTS
  set = set
  accent = accent
  kana = kana
  exit = exit
  args = args
  garbled = garbled
  cr = cr
  lf = lf
  Commands = {set, accent, kana, exit}
  Excess <- MCExcess
  Args = args
  Garbled = garbled
  CR = cr
  LF = lf
  Exit = exit
  MaxRead = 5
  MaxBurst = 6
  MaxSent = 3
  MaxBreaks = 2

SPECIFICATION ReadSpec
INVARIANT ReadTypeOK
INVARIANT InOrder
INVARIANT NoneStuck
CHECK_DEADLOCK FALSE
