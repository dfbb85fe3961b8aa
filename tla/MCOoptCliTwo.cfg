SPECIFICATION HistorySpec
CONSTANTS
  opt = opt
  intf = intf
  port = port
  root = root
  a = a
  b = b
  Proc = {p1, p2}
  OptEntry = {}
  IntfEntry = {intf}
  PortEntry = {}
  RootEntry = {root}
  Value = {a}
  Unset = Unset
  Lost = Lost
  Empty = Empty
  Mangled = Mangled
  Edits <- TwoEdits
  Valid <- TwoValid
  Default <- TwoDefault
  Options <- NoFlags
  MaxCommits = 3
SYMMETRY MCSymmetry
INVARIANTS
  TypeOK
  CommittedAsValidated
  RollbackRestores
  DeviceFollowsHead
PROPERTIES
  HistoryGrows
  EditKeepsTheRest
  ImplementsVersionedConfig
CHECK_DEADLOCK FALSE
