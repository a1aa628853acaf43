\* Compositions of up to four candidates under every kind of budget.
CONSTANTS
  w1 = w1  w2 = w2
  Unlimited = Unlimited
  NeverAccessed = NeverAccessed
  Offers <- MCOffers
  RecallRequests <- MCRecallRequests
  Quotas = {50, 150}
  MmrLambda = 70
  DiversityCutSimilarity = 50
  ReplayFragile = 80
  ReplayStaleFragile = 50
  StaleDays = 30
  OmittedCap = 1
SPECIFICATION ComposeSpec
INVARIANTS
  CompositionIsAccepted
  TheBestThatFitsIsChosen
  ReplayIsReserved
CHECK_DEADLOCK FALSE
