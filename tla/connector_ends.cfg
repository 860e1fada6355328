SPECIFICATION Spec
CONSTANTS
  Main = main
  Worker = {w1}
  MaxEvents = 2
  Backlog = 2
  MaxSubs = 1
  SendMayFail = FALSE
INVARIANT
  EndsInGoodOrder
CHECK_DEADLOCK FALSE
