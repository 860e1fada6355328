SPECIFICATION FairSpec
CONSTANTS
  Main = main
  Worker = {w1, w2}
  MaxEvents = 4
  Backlog = 2
  MaxSubs = 2
  SendMayFail = TRUE
INVARIANTS
  TypeOK
  HandedInOrder
  HandedOnce
  LossIsReported
PROPERTIES
  FeedSpec
  EventuallyHanded
CHECK_DEADLOCK FALSE
