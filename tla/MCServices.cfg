SPECIFICATION MCSpec
CONSTANTS
  s1 = s1
  s2 = s2
  s3 = s3
  q1 = q1
  fa = fa
  fb = fb
  Clients = {c1, c2}
  Limit = 2
  Window = 2
  MaxTime = 5
  Processes = {w1, w2, w3}
  DailyLimit = 3
  Estimates = {1, 2}
  Tokens = {0, 2, 3}
  MaxCalls = 3
  MaxDays = 2
  MaxDeaths = 1
  MaxTears = 1
  Signals = {s1, s2, s3, q1}
  Prints = {fa, fb}
  PrintOf <- MCPrintOf
  Urgent = {q1}
  Triagers = {t1, t2}
  MaxSuppressions = 2
  MaxRules = 2
  MaxLostAnswers = 1
  Payments = {good, bad}
  Good = {good}
  Requests = {r1, r2}
  Attempts = 4
  MaxLag = 2
  ProviderLag = 2
  MaxLostRequests = 2
  Demos = {d1, d2, d3}
  MaxFailures = 3
  MaxRestarts = 1
  Deploys = {operator, wallet}
  Relayed = {wallet}
  Views = 4
  Rounds = 2
  Callers = {x1, x2, x3, x4}
  Proposals = {p1, p2}
  m1 = m1
  e1 = e1
  e2 = e2
  Roots = {e1, e2}
  Contents = {m1, m2}
  RootOf <- MCRootOf
  NoEnvelope = none
  NoReceipt = none
  o = o
  a1 = a1
  a2 = a2
  a3 = a3
  a4 = a4
  a5 = a5
  P1 = P1
  P2 = P2
  Zero = Zero
  None = None
  Accounts = {o, a1, a2, a3, a4, a5}
  ProposalIds = {P1, P2}
  Envelopes <- MCEnvelopes
  Installations <- MCInstallations
INVARIANTS
  ServicesTypeOK
  LimitIsExact
  BudgetIsKept
  PrintIsBounded
  PaymentIsJudged
  FinalityIsTrue
  ReceiptHasQuorum
  FinalizedByQuorum
  ActionAuthorizedOnce
  TransferWithinRequest
PROPERTIES
  SessionIsWhole
  ReceiptIsFinal
  NothingHangs
CHECK_DEADLOCK FALSE
