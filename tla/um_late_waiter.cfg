SPECIFICATION Spec
CONSTANTS
  c1 = c1
  c2 = c2
  p1 = p1
  d1 = d1
  None = None
  Clients <- OneClient
  Pollers <- OnePoller
  Daemons <- Nobody
  Versions <- TwoVersions
  Crashes = FALSE
  Suspends = TRUE
PROPERTY InstallConsented
