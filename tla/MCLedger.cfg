SPECIFICATION MCSpec
CONSTANTS
  Proposals = {p1}
  Nonces = {n1}
  SubmittedTypes <- MCAllTypes
  Quota <- MCQuota
INVARIANTS
  StateIsReplayOfChain
  ChainIsLegalPath
  AuthorityIsNeverReopened
  OneReceiptPerProposal
CHECK_DEADLOCK FALSE
