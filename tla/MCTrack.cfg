CONSTANTS
    alice = alice
    bob = bob
    owner = owner
    rice = rice
    h1 = h1
    h2 = h2
    Friends <- MCFriends
    Owner <- owner
    Items <- MCItems
    Included <- MCItems
    LineTotal <- Free
    TaxTotal = 10
    Calls <- MCCalls
    Capacity = 1
SPECIFICATION FairSpec
INVARIANT TTypeOK
INVARIANT PaidShownOrComing
PROPERTY PageCatchesUp
CHECK_DEADLOCK FALSE
