SPECIFICATION Spec
CONSTANTS
    None = None
    NoSuffix = "none"
    Cores <- MCCores
    Suffixes <- MCSuffixes
    TextRank <- MCTextRank
    SemRank <- MCSemRank
    NumberOf <- MCNumberOf
    Revisions <- MCRevisions
    First <- MCFirst
INVARIANTS InstalledIsRead
PROPERTIES RecordFollowsReleases UpdatesMoveForward
