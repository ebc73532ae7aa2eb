SPECIFICATION FairSpec
CONSTANTS
  o1 = o1
  o2 = o2
  o3 = o3
  p1 = p1
  p2 = p2
  NoOrder = NoOrder
  Orders = {o1}
  Products = {p1, p2}
  Qty <- MCQty
  Tracked = {p1}
  InitialStock <- MCStock
  Requests = {req}
  Listeners = {lis}
  Reconcilers = {rec}
  Sweepers = {swp}
  MaxOpen = 3
  MaxHeld = 3
  StatusMoves <- ClosingMoves
  StockEdits = {}
  Physical = {}
  ShippingMoves = {}
  Deletable = {}
  Archives = FALSE
  Mismatches = FALSE
PROPERTIES
  OpenOrderEnds
  PaidIsBooked
  HeldIsResolved
  OnlyEndpointSellsUnpaid
CHECK_DEADLOCK FALSE
