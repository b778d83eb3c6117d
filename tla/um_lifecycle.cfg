SPECIFICATION Spec
CONSTANTS
  c1 = c1
  c2 = c2
  p1 = p1
  d1 = d1
  None = None
  Clients <- OneClient
  Pollers <- OnePoller
  Daemons <- OneDaemon
  Versions <- TwoVersions
  Crashes = TRUE
  Suspends = FALSE
INVARIANT IndInv HolderIsCurrent CandidateRetained
PROPERTY ImplementsLifecycle OnlyDeadOperationsRecovered InstallConsented
PROPERTY RetainedUntilUsedOrDiscarded InstalledIsVerified RecordAsRead
