SPECIFICATION FairSpec
CONSTANTS
  Calls <- MCCalls
  Issues <- MCIssues
  Wanted <- MCWanted
  Initial <- MCInitial
  MaxRedirects = 1
  EditedLabels = {"BUSINESS_READY", "DESIGNING", "unknown"}
  MaxEdits = 1
INVARIANTS
  TypeOK
  EachEntryLeftOnce
  OutcomeTellsEffect
PROPERTY
  EveryCallReturns
