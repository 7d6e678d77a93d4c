SPECIFICATION FairSagaSpec
CONSTANTS
  Proposals = {p1}
  Nonces = {n1, n2, n3}
  SubmittedTypes <- MCSubmitted
  Quota <- MCQuota
  FingerprintOf <- MCFingerprintOf
  MaxAttempts = 4
  MaxCrashes = 3
  MaxLosses = 2
INVARIANTS
  SagaTypeOK
  OnePlanPerRequest
  AskedAboutPlanInForce
PROPERTIES
  VerdictIsFollowed
CHECK_DEADLOCK FALSE
