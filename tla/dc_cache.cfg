SPECIFICATION FairSpec
CONSTANTS
    p1 = p1
    p2 = p2
    v1 = v1
    v2 = v2
    d1 = d1
    d2 = d2
    Absent = Absent
    Junk = Junk
    Whole = Whole
    Process <- MCProcess
    KindsOf <- MCKindsOf
    Version <- MCVersion
    Blob <- MCBlob
    VersionOf <- MCVersionOf
    Accepted <- MCAccepted
    Wanted <- MCWanted
    MaxAborts = 1
INVARIANTS TypeOK IndexedIsAccepted BlobsAreWhole
PROPERTIES Recovers
