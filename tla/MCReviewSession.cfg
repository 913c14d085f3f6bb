SPECIFICATION SessionSpec
CONSTANTS
  None = None
  a0 = a0
  a1 = a1
  foreign = foreign
  doer = doer
  rev = rev
  c1 = c1
  c2 = c2
  gap = gap
  f1 = f1
  f2 = f2
  f3 = f3
  e1 = e1
  e2 = e2
  Artifacts <- MCArtifacts
  InitialArtifact = a0
  Registered <- MCArtifacts
  ProducersOf <- MCProducersOf
  Models <- MCModels
  FamilyOf <- MCFamilyOf
  Producers = {doer, rev}
  Inspectors = {rev}
  OriginalDoer = doer
  Reviewers = {rev}
  FamilyRequired = TRUE
  Criteria = {c1, c2}
  Mandatory = {c1}
  Fingerprints <- MCFingerprints
  CriterionOf <- MCCriterionOf
  Evidence = {e1, e2}
  MinReviewPasses = 2
  MaxReviewPasses = 3
  MaxRepairs = 1
  SameFailureLimit = 2
  MaxInvocations = 4
  MaxTokens = 9
  MaxCost = 9
  MaxElapsed = 2
  Second = 1
  IdBase = 0
  ForeignExecutions = {}
  Holds <- MCHolds
  Usages <- MCUsages
  ReportBodies <- MCReportBodies
  ResolutionLists <- MCResolutionLists
CHECK_DEADLOCK FALSE
INVARIANTS
  SessionTypeOK
  ClosedByRecheckOfRepair
  EligibleAnsweredEveryBlocker
  ReviewersStayIndependent
PROPERTY
  EndedSessionsAreFrozen
