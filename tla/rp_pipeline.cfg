SPECIFICATION FairSpec
CONSTANTS
  r1 = r1
  r2 = r2
  Versions <- ThreeVersions
  Initial = 1
  Revisions <- OneRevision
  Runs <- TwoRuns
  Hands = 1
INVARIANT AcceptedIsPublished
PROPERTY AcceptedNeverRegresses LatestIsReleased
