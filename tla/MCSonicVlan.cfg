SPECIFICATION Spec
CONSTANTS
  Intf = {e1, e2}
  OptPort = {o1, o2}
  Vid = {v1, v2}
  Unset = Unset
  Absent = Absent
  Drafts <- MCDrafts
  MaxCommits = 2
SYMMETRY MCSymmetry
INVARIANTS
  TypeOK
  
  PanicIsSecond
PROPERTIES
  UnchangedInterfacesKeepTheirVlan
