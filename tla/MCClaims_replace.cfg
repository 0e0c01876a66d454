CONSTANTS
    alice = alice
    bob = bob
    owner = owner
    rice = rice
    tea = tea
    wine = wine
    t1 = t1
    t2 = t2
    Friends <- MCFriends
    Owner <- owner
    Items <- MCItems
    Included <- MCItems
    LineTotal <- MCLineTotal
    TaxTotal = 16
    Txs <- MCTxs
SYMMETRY Symmetry
SPECIFICATION Spec
PROPERTY ClaimsReplaced
CHECK_DEADLOCK FALSE
