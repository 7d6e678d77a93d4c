SPECIFICATION OdraSpec
CONSTANTS
  m1 = m1
  e1 = e1
  e2 = e2
  Callers = {x1, x2}
  Proposals = {p1}
  Roots = {e1, e2}
  Contents = {m1, m2}
  RootOf <- MCRootOf
  NoEnvelope = none
  NoReceipt = none
INVARIANT ReceiptReferencesEnvelope
CHECK_DEADLOCK FALSE
