SPECIFICATION Spec
CONSTANTS
  o1 = o1
  o2 = o2
  o3 = o3
  p1 = p1
  p2 = p2
  NoOrder = NoOrder
  Orders = {o1, o2}
  Products = {p1, p2}
  Qty <- MCQty
  Tracked = {p1}
  InitialStock <- MCStock
  Requests = {w1}
  Listeners = {w1}
  Reconcilers = {}
  Sweepers = {w1}
  MaxOpen = 3
  MaxHeld = 3
  StatusMoves <- PageMoves
  StockEdits = {1}
  Physical = {}
  ShippingMoves = {}
  Deletable = {p1}
  Archives = FALSE
  Mismatches = FALSE
INVARIANTS
  NeverOversold
  ReservedIsHeld
CHECK_DEADLOCK FALSE
