CONSTANTS
    s1 = s1
    b1 = b1
    b2 = b2
    u1 = u1
    u2 = u2
    NoScan = NoScan
    Nobody = Nobody
    Scans <- MCScans
    Submits <- MCSubmits
    Slugs <- MCSlugs
    MaxAttempts = 2
SPECIFICATION FairSpec
INVARIANT TypeOK
INVARIANT RowsKeepImages
INVARIANT NothingLeftBehind
INVARIANT ReviewSurvivesFailure
INVARIANT SplitsPerSubmit
PROPERTY SubmitsEnd
CHECK_DEADLOCK FALSE
