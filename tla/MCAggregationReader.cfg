CONSTANTS
  t = t
  x = x
  y = y
  new = new
  v = v
  w = w
  z = z
  Files <- MCFiles
  Documents <- MCDocuments
  AggTypes = {"joinExisting", "joinNew", "union"}
  JoinNewDim = new
  JoinNewVars = {v, z}
SPECIFICATION Spec
CHECK_DEADLOCK FALSE
INVARIANTS WholeFilesJoined DeliveredAsAnnounced CoordinatePerPosition
