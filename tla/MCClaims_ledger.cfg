CONSTANTS
    alice = alice
    bob = bob
    owner = owner
    rice = rice
    tea = tea
    wine = wine
    t1 = t1
    t2 = t2
    Friends <- MCFriends
    Owner <- owner
    Items <- ThreeItems
    Included <- MCItems
    LineTotal <- MCLineTotal
    TaxTotal = 16
    Txs <- OneTx
SPECIFICATION Spec
PROPERTY Ledger
CHECK_DEADLOCK FALSE
