CONSTANTS
    alice = alice
    bob = bob
    owner = owner
    rice = rice
    tea = tea
    wine = wine
    t1 = t1
    t2 = t2
    Friends <- MCFriends
    Owner <- owner
    Items <- MCItems
    Included <- MCItems
    LineTotal <- MCLineTotal
    TaxTotal = 16
    Txs <- MCTxs
SYMMETRY Symmetry
VIEW WithoutWant
SPECIFICATION Spec
INVARIANT NonClaimantsOweNothing
INVARIANT IInv
PROPERTY FreshCommitIsExact
PROPERTY OverlapsAllowed
CHECK_DEADLOCK FALSE
