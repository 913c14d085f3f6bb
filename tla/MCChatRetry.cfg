SPECIFICATION Spec
CONSTANTS
  Sizes = {3, 4}
  MAX_TURNS = 60
  MAX_CONTEXT_MESSAGES = 12
  MAX_CONTEXT_CHARS = 24
  MaxConversations = 20
  MaxSends = 5
  MaxReloads = 0
  MaxSwitches = 0
  None = None
INVARIANT
  RetryIsPossible
CHECK_DEADLOCK FALSE
