SPECIFICATION Spec
CONSTANTS
  h1 = h1
  h2 = h2
  k1 = k1
  k2 = k2
  k3 = k3
  a1 = a1
  a2 = a2
  None = None
  Procs <- TwoHelpers
  Packages <- TwoPackages
  Approvals <- OneApproval
  VersionOf <- Version
  Limit = 1
  ClockJumps = FALSE
  Crashes = TRUE
SYMMETRY HelperSymmetry
INVARIANT TypeOK RollbackIsServed KnownGoodIsVerified OnlyValidatedInstalled ApprovalUsedOnce
PROPERTY ReportIsTrue ApprovedOnlyUpgrades InstalledIsRetained
