SPECIFICATION SessionSpec
CONSTANTS
  None = None
  a0 = a0
  a1 = a1
  foreign = foreign
  doer = doer
  rev = rev
  c1 = c1
  c2 = c2
  gap = gap
  f1 = f1
  f2 = f2
  f3 = f3
  e1 = e1
  e2 = e2
  Artifacts = {a0, a1}
  InitialArtifact = a0
  Registered = {a0, a1}
  ProducersOf <- MCProducersOf
  Models <- MCModels
  FamilyOf <- MCFamilyOf
  Producers = {doer, rev}
  Inspectors = {rev}
  OriginalDoer = doer
  Reviewers = {rev}
  FamilyRequired = TRUE
  Criteria = {c1, c2}
  Mandatory = {c1}
  Fingerprints <- MCFingerprints
  CriterionOf <- MCCriterionOf
  Evidence = {e1, e2}
  MinReviewPasses = 3
  MaxReviewPasses = 3
  MaxRepairs = 1
  SameFailureLimit = 2
  MaxInvocations = 4
  MaxTokens = 5
  MaxCost = 5
  MaxElapsed = 2
  Second = 2
  IdBase = 0
  ForeignExecutions = {}
  Holds <- LimitHolds
  Usages <- LimitUsages
  ReportBodies <- LimitBodies
  ResolutionLists <- LimitResolutionLists
CHECK_DEADLOCK FALSE
INVARIANTS
  OverrunIsTerminal
  AskedWorkIsAdmissible
  RepairLeavesAReview
