SPECIFICATION FairSpec
CONSTANTS
  t1 = t1
  t2 = t2
  r1 = r1
  r2 = r2
  None = None
  Ticks <- OneTick
  Calls <- OneCall
  Retries = 1
  Outages = 0
  Contention = FALSE
  Deaths = TRUE
PROPERTY WaitingUpdateQuits CancelledQuitReleases
