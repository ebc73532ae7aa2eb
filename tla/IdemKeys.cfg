SPECIFICATION CheckoutSpec
CONSTANTS
  Attempts = {a1, a2, a3}
  Keys = {k1}
  b1 = b1
  b2 = b2
  mug = mug
  print = print
  prints = prints
  post = post
  Bodies = {b1, b2}
  Orders = {o1, o2}
  Products = {mug, print, prints}
  Options = {post}
  NoKey = NoKey
  NoBody = NoBody
  NoOrder = NoOrder
  NoParent = NoParent
  NoCurrency = NoCurrency
  NoAddress = NoAddress
  NoRow = NoRow
  SatPerBtc = 100000
  Digits = 2
  MaxItems = 3
  MaxQty = 5
  MaxSat = 1000
  MaxToken = 3
  Request <- MCRequest
  Shelves <- MCShelves
SYMMETRY Alike
INVARIANTS
  OneOrderPerKey
  OneHolder
  AnswerIsItsOrder
  AgreedPrice
PROPERTIES
  CompletedIsKept
CHECK_DEADLOCK FALSE
