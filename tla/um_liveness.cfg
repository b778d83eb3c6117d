SPECIFICATION FairSpec
CONSTANTS
  c1 = c1
  c2 = c2
  p1 = p1
  d1 = d1
  None = None
  Clients <- TwoClients
  Pollers <- OnePoller
  Daemons <- Nobody
  Versions <- OneVersion
  Crashes = TRUE
  Suspends = TRUE
PROPERTY PreparationResolves RequestResolves CommandsEnd
