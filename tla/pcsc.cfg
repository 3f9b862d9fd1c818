CONSTANTS
  Tags2 = {n1}
  Tags4 = {c1, w1}
  Tags5 = {v1}
  Worn = {w1}
  Written = {c1}
  None = None
  Readers = 2
  Watched = {1, 2}
  Tools = {"reader", "writer"}
  Units = 3
  OldLength = 1
  BulkUnits = 2
  MoveMax = 2
  DropMax = 1
SPECIFICATION Spec
INVARIANTS SuccessIsStored
PROPERTIES HandledOnce
CHECK_DEADLOCK FALSE
