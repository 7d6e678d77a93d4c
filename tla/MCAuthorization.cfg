SPECIFICATION Spec
CONSTANTS
  Proposals = {p1}
  Nonces = {n1, n2}
  SubmittedTypes <- MCSubmitted
  Quota <- MCQuota
  FingerprintOf <- MCFingerprintOf
SYMMETRY MCNonceSymmetry
INVARIANTS
  OneGrantPerProposal
  GrantExplainsState
  OneDecisionPerNonce
  GrantIsVisible
  PendingCanBeRetried
PROPERTIES
  ExecutesWhatWasGranted
CHECK_DEADLOCK FALSE
