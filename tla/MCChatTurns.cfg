SPECIFICATION FairSpec
CONSTANTS
  None = None
  Unlimited = Unlimited
  r1 = r1
  r2 = r2
  r3 = r3
  alice = alice
  bob = bob
  carol = carol
  eve = eve
  acme = acme
  other = other
  repo = repo
  foreign = foreign
  gpt = gpt
  claude = claude
  Requests = {r1, r2, r3}
  Principals = {alice, bob, carol, eve}
  TenantOf <- MCTenantOf
  Operators = {alice, bob, eve}
  Allowlist = {repo}
  Inputs <- MCInputs
  Settings <- MCSettings
  MaxRounds = 2
INVARIANTS
  TypeOK
  TurnsWithinLimit
  TraceIsReadable
  EveryModelCallIsReserved
  RepliesAreReviewedAndRecorded
PROPERTIES
  StoreIsALog
  EveryRequestIsAnswered
