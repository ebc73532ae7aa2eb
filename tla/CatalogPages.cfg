SPECIFICATION Spec
CONSTANTS
  tea = tea
  pot = pot
  kitchen = kitchen
  gifts = gifts
  post = post
  van = van
  Products = {tea, pot}
  Collections = {kitchen, gifts}
  Options = {post, van}
  Editors = {e, f}
  NoListing = NoListing
  Keep = Keep
  Contents <- MCContents
  OnSale <- MCOnSale
  SaleMembers <- MCMembers
  SaleShips <- MCShips
  MaxChanges = 3
SYMMETRY Interchangeable
INVARIANTS
  SettledIsShown
  SurvivorsFirst
  ReferencesResolve
CHECK_DEADLOCK FALSE
