SPECIFICATION BuildSpec
CONSTANTS
    Absent = Absent
    Bundles <- MCBundles
    Strays <- MCStrays
    Formats <- MCFormats
    MaxRuns = 2
INVARIANTS AcceptedIsValid AcceptedIsStable EndsPaired NothingIsLost InspectedIsPatched
CHECK_DEADLOCK FALSE
