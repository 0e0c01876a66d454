CONSTANTS
    old = old
    new = new
    l1 = l1
    l2 = l2
    Kids <- MCKids
    Lookups <- MCLookups
    Window = 2
SPECIFICATION FairSpec
INVARIANT TypeOK
PROPERTY InstallsSpaced
PROPERTY RejectionsExcused
PROPERTY RotationHandled
