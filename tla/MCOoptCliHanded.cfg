SPECIFICATION HistorySpec
CONSTANTS
  opt = opt
  intf = intf
  port = port
  root = root
  a = a
  b = b
  Proc = {p1, p2}
  OptEntry = {}
  IntfEntry = {intf}
  PortEntry = {}
  RootEntry = {}
  Value = {a, b}
  Unset = Unset
  Lost = Lost
  Empty = Empty
  Mangled = Mangled
  Edits <- HandedEdits
  Valid <- HandedValid
  Default <- HandedDefault
  Options <- NoFlags
  MaxCommits = 3
SYMMETRY MCSymmetry
INVARIANTS
  HandedConfigIsValid
CHECK_DEADLOCK FALSE
