SPECIFICATION FairHistorySpec
CONSTANTS
  opt = opt
  intf = intf
  port = port
  root = root
  a = a
  b = b
  Proc = {p1}
  OptEntry = {opt}
  IntfEntry = {intf}
  PortEntry = {port}
  RootEntry = {}
  Value = {a, b}
  Unset = Unset
  Lost = Lost
  Empty = Empty
  Mangled = Mangled
  Edits <- OneEdits
  Valid <- OneValid
  Default <- OneDefault
  Options <- AnyFlags
  MaxCommits = 3
INVARIANTS
  DeviceFollowsHead
PROPERTIES
  CommitReachesDevice
  ImplementsVersionedConfig
CHECK_DEADLOCK FALSE
