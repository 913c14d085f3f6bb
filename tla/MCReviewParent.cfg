SPECIFICATION Spec
CONSTANTS
  None = None
  a0 = a0
  a1 = a1
  doer = doer
  rev = rev
  c1 = c1
  f1 = f1
  e1 = e1
  u1 = u1
  u2 = u2
  w1 = w1
  w2 = w2
  Artifacts = {a0}
  InitialArtifact = a0
  Registered = {a0}
  ProducersOf <- MCProducersOf
  Models = {doer, rev}
  FamilyOf <- MCFamilyOf
  Producers = {doer}
  Inspectors = {rev}
  OriginalDoer = doer
  Reviewers = {rev}
  FirstReviewer = rev
  FamilyRequired = TRUE
  Criteria = {c1}
  Mandatory = {c1}
  Fingerprints = {f1}
  CriterionOf <- MCCriterionOf
  Evidence = {e1}
  MinReviewPasses = 2
  MaxReviewPasses = 2
  MaxRepairs = 1
  SameFailureLimit = 2
  MaxInvocations = 2
  MaxTokens = 4
  MaxCost = 9
  MaxElapsed = 1
  Second = 1
  MaxSteps = 1
  ReportBodies <- PlainBodies
  ResolutionLists <- MCResolutionLists
  Workers = {w1, w2}
  Units = {u1, u2}
  UnitOf <- SplitUnitOf
  HoldOf <- SplitHoldOf
  IdBases <- SplitIdBases
  Parent <- TightParent
  MaxSkew = 1
  Usages <- SplitUsages
INVARIANTS
  ParentIsSumOfUnits
  ParentCeilingsHold
  ExecutionSettledOnce
