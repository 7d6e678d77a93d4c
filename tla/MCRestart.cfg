SPECIFICATION RestartSpec
CONSTANTS
  Proposals = {p1}
  Nonces = {n1, n2}
  SubmittedTypes <- MCSubmitted
  Quota <- MCQuota
  FingerprintOf <- MCFingerprintOf
SYMMETRY MCNonceSymmetry
INVARIANT SpentPlanIsInForce
PROPERTY GrantFreezesPlan
CHECK_DEADLOCK FALSE
