SPECIFICATION FairSpec
CONSTANTS
  Processes = {a, b}
  Nobody = Nobody
  toBuyer = toBuyer
  toShop = toShop
  trial = trial
  Mails = {toBuyer, trial}
  Channel <- MCChannel
  MaxAttempts = 2
CHECK_DEADLOCK FALSE
INVARIANTS
  OneSender
  TakenOnce
PROPERTIES
  EndedStays
  MailEnds
