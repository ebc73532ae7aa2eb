SPECIFICATION FairSpec
CONSTANTS
  Processes = {a, b}
  Tasks = {processor, reconciliation}
  Processor = processor
  Reconciliation = reconciliation
  Passes <- Twice
  Nobody = Nobody
  placed = placed
  changed = changed
  huge = huge
  cancels = cancels
  foreign = foreign
  receipt = receipt
  dm = dm
  copy = copy
  Wraps = {w1}
  Rumors = {placed, huge, cancels, foreign, receipt, dm, copy}
  Author <- MCAuthor
  Kind <- MCKind
  Orders = {o1}
  About <- MCAbout
  Body <- MCBody
  Unstorable = {huge}
  DRAIN_BATCH = 1
  NoWrap = NoWrap
  NoRumor = NoRumor
  Moves <- SagaMoves
CHECK_DEADLOCK FALSE
PROPERTIES
  LatePassIsFenced
  EveryMessageEnds
  PaymentIsAsked
