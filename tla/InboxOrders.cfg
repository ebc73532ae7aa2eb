SPECIFICATION Spec
CONSTANTS
  Processes = {a}
  Tasks = {processor, reconciliation}
  Processor = processor
  Reconciliation = reconciliation
  Passes <- Both
  Nobody = Nobody
  placed = placed
  changed = changed
  huge = huge
  cancels = cancels
  foreign = foreign
  receipt = receipt
  dm = dm
  copy = copy
  Wraps = {w1, w2}
  Rumors = {placed, cancels, dm}
  Author <- MCAuthor
  Kind <- MCKind
  Orders = {o1}
  About <- MCAbout
  Body <- MCBody
  Unstorable = {}
  DRAIN_BATCH = 2
  NoWrap = NoWrap
  NoRumor = NoRumor
  Moves <- SagaMoves
SYMMETRY Interchangeable
CHECK_DEADLOCK FALSE
INVARIANTS
  RecordedOnce
  ProcessedTookEffect
  RejectedIsRejected
