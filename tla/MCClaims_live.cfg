CONSTANTS
    alice = alice
    bob = bob
    owner = owner
    rice = rice
    tea = tea
    wine = wine
    t1 = t1
    t2 = t2
    Friends <- MCFriends
    Owner <- owner
    Items <- OneItem
    Included <- OneItem
    LineTotal <- MCLineTotal
    TaxTotal = 16
    Txs <- MCTxs
SPECIFICATION FairSpec
PROPERTY SetClaimsEnds
CHECK_DEADLOCK FALSE
