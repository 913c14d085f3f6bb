SPECIFICATION FairSpec
CONSTANTS
  Sizes = {1, 2}
  MAX_TURNS = 4
  MAX_CONTEXT_MESSAGES = 4
  MAX_CONTEXT_CHARS = 5
  MaxConversations = 2
  MaxSends = 4
  MaxReloads = 1
  MaxSwitches = 1
  None = None
INVARIANTS
  RefusedOnlyForACutQuestion
PROPERTIES
  ReplyStaysUnlessSwitched
  ComposerComesBack
CHECK_DEADLOCK FALSE
