SPECIFICATION Spec
CONSTANTS
  Proc = {p1, p2}
  Conf = {c1, c2}
  Default = c1
  None = None
  Absent = Absent
  Torn = Torn
  Down = Down
  MaxCommands = 2
INVARIANTS
  TypeOK
  UndisturbedRebootTakes
  ImageFollowsFlag
  NoRowsOfOthers
PROPERTIES
  RerunHeals
  ImplementsAppliance
  RowsArrive
CHECK_DEADLOCK FALSE
