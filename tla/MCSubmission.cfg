SPECIFICATION MCSpec
CONSTANTS
  p1 = p1
  p2 = p2
  Proposals = {p1, p2}
  r1 = r1
  r2 = r2
  Chambers = {r1, r2}
  NoRoom = NoRoom
  NoProposal = NoProposal
  Nonces = {}
  k1 = k1
  k2 = k2
  k3 = k3
  k4 = k4
  k5 = k5
  k6 = k6
  ClientKeys = {c1, c2, c3}
  Keys = {c1, c2, c3, k1, k2, k3, k4, k5, k6}
  Takes = {w}
  Clients = {"recorder", "triage", "gateway"}
  MaxMessages = 6
  SubmittedTypes <- MCSubmitted
  Quota <- MCQuota
SYMMETRY MCSymmetry
INVARIANTS
  ConfirmedCardIsInRoom
  FloorStands
PROPERTIES
  HonoursIntents
CHECK_DEADLOCK FALSE
