SPECIFICATION AdminSpec
CONSTANTS
  Admins = {a, b}
  NoRequest = NoRequest
  Operations = {"edit", "import", "relays", "publish", "deactivate", "enable", "disable"}
  Modes = {"full", "nostr_only"}
  Relays = {r}
  Configs <- MCConfigs
  Starters <- MCStarters
  MaxIntents = 3
INVARIANTS
  LastWishWins
CHECK_DEADLOCK FALSE
