CONSTANTS
  r1 = r1
  r2 = r2
  site = site
  Receivers = {r1, r2}
  Stranger = stranger
  Nowhere = slot
  Sites = {site}
  SiteOf <- MCSiteOf
  NoGuid = none
  NoConn = none
  NoMac = none
  Conns = {0, 1}
  Events = {1, 2}
  MaxVersion = 1
  MaxQueue = 0
  MaxEvents = 2
  MaxPending = 0
  Races = FALSE
  Moves = FALSE
  Blank = {0}
  Garbled = garbled
  Cuts = FALSE
  Stale = FALSE
  Silences = FALSE
  BadStarts = FALSE
  MaxFaults = 1
  MaxPlays = 1
  UserSteps = {}
  Scheduled <- AnEventEach

SPECIFICATION Spec
PROPERTY OthersKeepStatus
