SPECIFICATION FairOperatorSpec
CONSTANTS
  Proposals = {p1}
  Nonces = {n1}
  SubmittedTypes <- MCSubmitted
  Quota <- MCQuota
  FingerprintOf <- MCFingerprintOf
  EnvelopeCount = 2
  MaxRetries = 1
  MaxMessages = 3
  MaxCrashes = 1
  MaxLosses = 1
INVARIANTS
  BroadcastOnce
  BroadcastIsAuthorized
  ReceiptIsBacked
PROPERTIES
  GrantIsHonoured
CHECK_DEADLOCK FALSE
