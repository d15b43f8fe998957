SPECIFICATION ConversationSpec
CONSTANTS
  Rooms = {a, b}
  Suspended = {b}
  Owned = {b}
  Lively = {a}
  Nowhere = nowhere
  MaxPosts = 1
  MaxSelections = 2
  MaxFailures = 0
  MaxWork = 2
INVARIANT ListIsUpToDate
CHECK_DEADLOCK FALSE
