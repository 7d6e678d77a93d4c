SPECIFICATION FairCouncilSpec
CONSTANTS
  Proposals = {p1}
  Nonces = {}
  SubmittedTypes <- MCSubmitted
  Quota <- MCQuota
  Keys <- MCKeys
  Takes <- MCTakes
  Clients <- MCClients
  Chambers = {c1}
  NoRoom = NoRoom
  NoProposal = NoProposal
  Impacts <- MCImpacts
  MaxAttempts <- MCAttempts
  MaxMessages = 7
  ReviewMode = "tool"
  MaxChallenges = 1
  MaxCrashes = 1
  MaxLosses = 1
INVARIANTS
  CouncilTypeOK
  ChallengesAreBounded
  VerdictJudgesLatestAssessment
PROPERTY SignalIsSettled
CHECK_DEADLOCK FALSE
