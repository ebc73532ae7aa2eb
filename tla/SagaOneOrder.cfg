SPECIFICATION Spec
CONSTANTS
  o1 = o1
  o2 = o2
  o3 = o3
  p1 = p1
  p2 = p2
  NoOrder = NoOrder
  Orders = {o1}
  Products = {p1, p2}
  Qty <- MCQty
  Tracked = {p1}
  InitialStock <- MCStock
  Requests = {req}
  Listeners = {lis}
  Reconcilers = {rec}
  Sweepers = {swp}
  MaxOpen = 3
  MaxHeld = 3
  StatusMoves <- PageMoves
  StockEdits = {}
  Physical = {o1}
  ShippingMoves <- ParcelMoves
  Deletable = {}
  Archives = TRUE
  Mismatches = TRUE
INVARIANTS
  TypeOK
  OneInvoice
  HeldOnlyWhileOpen
  StatesAgree
PROPERTIES
  SettledIsVisible
  ReservationFlipsOnce
  KeepsContract
CHECK_DEADLOCK FALSE
