CONSTANTS
  r1 = r1
  r2 = r2
  site = site
  Receivers = {r1}
  Stranger = stranger
  Nowhere = slot
  Sites = {site}
  SiteOf <- MCSiteOf
  NoGuid = none
  NoConn = none
  NoMac = none
  Conns = {0}
  Events = {1}
  MaxVersion = 1
  MaxQueue = 1
  MaxEvents = 1
  MaxPending = 1
  Races = TRUE
  Moves = FALSE
  Blank = {0}
  Garbled = garbled
  Cuts = TRUE
  Stale = FALSE
  Silences = TRUE
  BadStarts = TRUE
  MaxFaults = 1
  MaxPlays = 2
  UserSteps = {"command"}
  Scheduled <- OneEvent

SPECIFICATION FairSpec
INVARIANT TypeOK
INVARIANT ActiveHasEntry
INVARIANT PlayIsBounded
PROPERTY PlayIsNotReplaced
PROPERTY PlayEnds
PROPERTY StatusConverges
PROPERTY Converges
