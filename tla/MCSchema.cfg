CONSTANTS
  c1 = c1
  c2 = c2
  Clients = {c1, c2}
  MaxKills = 1

SPECIFICATION Spec
SYMMETRY Symmetry
INVARIANT SchemaTypeOK
INVARIANT VersionIsTrue
INVARIANT UpgradeAloneSucceeds
