SPECIFICATION Spec
CONSTANTS
  x = x
  y = y
  z = z
  v = v
  w = w
  Handler = {h1}
  Reader = {}
  Leaf = {x, y, z}
  Value = {v, w}
  Unset = Unset
  Path <- Paths
  Root <- RootPath
  Requests <- AllRequests
  Queries <- MCQueries
  CliEdits <- MCCliEdits
  Valid <- MCValid
  Initial <- MCInitial
  Empty = Empty
  Mangled = Mangled
INVARIANTS
  TypeOK
  FileFollowsServer
  ServerCanRestart
PROPERTIES
  SetTakesEffect
