SPECIFICATION Spec
CONSTANTS
  Port = {1, 2}
  Module = {1}
  Id = {id1, id2}
  Speeds <- MCSpeeds
  Operated <- MCOperated
  GnmiSets <- MCGnmiSets
  Unset = Unset

INVARIANTS
  BreakoutCreatesInterfaces
