SPECIFICATION Spec
CONSTANTS
  r1 = r1
  r2 = r2
  Requestor = {r1, r2}
  MaxRequest = 2
  MaxParts = 1
  MaxTime = 3
  Notify = {TRUE}
INVARIANT
  DoneAfterTransfer
CHECK_DEADLOCK FALSE
