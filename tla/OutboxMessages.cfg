SPECIFICATION Spec
CONSTANTS
  c1 = c1
  p1 = p1
  Products = {}
  Collections = {}
  Profiles = {f1}
  Messages = {m1}
  Home <- MCHome
  Editors = {}
  NoListing = NoListing
  Announced <- Unpublished
  Workers = {w1, w2}
  Relays = {o1, o2, b1, b2, s1, s2}
  BuyerRelays = {b1, b2}
  OwnRelays = {s1, s2}
  CopyOf <- MCCopyOf
  MaxAttempts = 2
  MaxIntents = 1
  MaxToken = 3
SYMMETRY Interchangeable
INVARIANTS
  PublishedIsDelivered
  OneGoodClaim
PROPERTIES
  
  EndedIsFinal
CHECK_DEADLOCK FALSE
