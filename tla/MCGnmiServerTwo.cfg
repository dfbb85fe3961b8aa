SPECIFICATION Spec
CONSTANTS
  x = x
  y = y
  z = z
  v = v
  w = w
  Handler = {h1, h2}
  Reader = {r1}
  Leaf = {x, y, z}
  Value = {v, w}
  Unset = Unset
  Path <- Paths
  Root <- RootPath
  Requests <- TwoRequests
  Queries <- MCQueries
  CliEdits <- NoEdits
  Valid <- MCValid
  Initial <- MCInitial
  Empty = Empty
  Mangled = Mangled
SYMMETRY MCSymmetry
INVARIANTS
  FileFollowsServer
  ServerCanRestart
  GetReturnsPublished
PROPERTIES
  ImplementsDatastore
