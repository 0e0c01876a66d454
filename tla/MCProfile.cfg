CONSTANTS
    r1 = r1
    r2 = r2
    Requests <- MCRequests
SYMMETRY MCSymmetry
SPECIFICATION PSpec
INVARIANT PTypeOK
INVARIANT FriendsSeeQr
INVARIANT RedirectsEnd
