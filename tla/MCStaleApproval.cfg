SPECIFICATION Spec
CONSTANTS
  Proposals = {p1}
  Nonces = {n1, n2}
  SubmittedTypes <- MCSubmitted
  Quota <- MCQuota
  FingerprintOf <- MCFingerprintOf
INVARIANT ApprovalIsForPlanInForce
CHECK_DEADLOCK FALSE
