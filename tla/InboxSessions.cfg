SPECIFICATION FairSpec
CONSTANTS
  Admins = {a}
  NoRequest = NoRequest
  Operations = {"relays", "enable"}
  Modes = {}
  Relays = {r}
  Configs <- MCConfigs
  Starters <- MCStarters
  MaxIntents = 1
  Listeners = {p}
  Events = {e}
  Back = 1
  Overlap = 1
  Backtrack = 3
  MaxTime = 2
CHECK_DEADLOCK FALSE
INVARIANTS
  CursorCoversStored
PROPERTIES
  EventArrives
