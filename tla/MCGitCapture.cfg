SPECIFICATION MCSpec
CONSTANTS
  Paths <- MCPaths
  DirOf <- MCDirOf
  Above <- MCAbove
  Controls = {"d/g"}
  Ignored = {"d/g"}
  Contents = {1, 2}
  TrackedBy <- MCTrackedBy
  Missing = 0
  MaxFiles = 2
  Budgets <- MCBudgets
INVARIANTS
  
  QuietTreeIsCaptured
CHECK_DEADLOCK FALSE
