SPECIFICATION RestartSpec
CONSTANTS
  Proposals = {p1}
  Nonces = {n1, n2}
  SubmittedTypes <- MCSubmitted
  Quota <- MCQuota
  FingerprintOf <- MCFingerprintOf
INVARIANT OneGrantPerProposal
CHECK_DEADLOCK FALSE
