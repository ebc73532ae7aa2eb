SPECIFICATION Spec
CONSTANTS
  c1 = c1
  p1 = p1
  Products = {p1}
  Collections = {c1}
  Profiles = {}
  Messages = {}
  Home <- MCHome
  Editors = {e1}
  NoListing = NoListing
  Announced <- OnSale
  Workers = {w1, w2}
  Relays = {o1}
  BuyerRelays = {}
  OwnRelays = {}
  CopyOf <- MCCopyOf
  MaxAttempts = 2
  MaxIntents = 4
  MaxToken = 2
SYMMETRY Interchangeable
INVARIANTS
  SettledIsCurrent
  DependenciesFirst
CHECK_DEADLOCK FALSE
