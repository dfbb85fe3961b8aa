CONSTANTS
  Proc = {p1, p2}
  Module = {1, 2}
  Operated = {1}
  Requested = {1, 2}
  Grids = {"GRID_33GHZ"}
  Channels = {7}
  Intervals = {5}
  Texts = {text}
  Unset = Unset
  Absent = Absent
  MaxCommands = 4
SPECIFICATION Spec
CONSTRAINT OverlapBound
SYMMETRY Procs
INVARIANTS TypeOK StrayFieldsAreOwed RowsComplete
PROPERTIES SolitaryRebootFills CommitDelivers
CHECK_DEADLOCK FALSE
