CONSTANTS
    alice = alice
    bob = bob
    owner = owner
    rice = rice
    tea = tea
    ali = ali
    bo = bo
    s1 = s1
    s2 = s2
    api = api
    Friends <- MCFriends
    Owner <- owner
    Items <- MCItems
    Included <- MCItems
    LineTotal <- MCLineTotal
    TaxTotal = 16
    Pagers <- MCPagers
    Names <- MCNames
    Saves <- MCSaves
    Txs <- MCTxs
SYMMETRY Symmetry
SPECIFICATION MCSpec
INVARIANT FTypeOK
INVARIANT SavedAsSelected
INVARIANT EstimateExact
INVARIANT BreakdownAddsUp
INVARIANT PaidAsAsked
CHECK_DEADLOCK FALSE
