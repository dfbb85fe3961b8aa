SPECIFICATION Spec
CONSTANTS
  Port = {1, 2}
  Module = {1}
  Id = {id1, id2}
  Speeds <- MCSpeeds
  Operated <- MCOperated
  GnmiSets <- MCGnmiSets
  Unset = Unset
CONSTRAINT DriftBound
SYMMETRY Ids
INVARIANTS
  TypeOK
  InterfacesMatchPorts
  TablesFollowHead
  LanesDistinct
  TablesAgree
  ValidatedFits
