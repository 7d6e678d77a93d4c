SPECIFICATION Spec
CONSTANTS
  Proposals = {p1}
  Nonces = {n1, n2}
  SubmittedTypes <- MCSubmitted
  Quota <- MCQuota
  FingerprintOf <- MCFingerprintOf
PROPERTY NewPlanAnswersRevision
CHECK_DEADLOCK FALSE
