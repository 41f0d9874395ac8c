CONSTANTS
    alice = alice
    bob = bob
    carol = carol
    shop = shop
    junk = junk
    t1 = t1
    t2 = t2
    t3 = t3
    p1 = p1
    p2 = p2
    Coin = "BTC"
    Phones = {alice, bob}
    Foreign = {shop}
    Nobody = Nobody
    TxIds = {t1, t2}
    Amounts = {1, 2}
    MaxFee = 1
    Procs = {p1, p2}
    NoTx = NoTx
    InitialWallets = {alice}
    Genesis <- AliceHasTwo
    Invalid = {}
    MaxDeposits = 1
    MaxFailures = 1
SPECIFICATION Spec
SYMMETRY SymmetryIdsProcs
INVARIANT TypeOK
INVARIANT ClaimedStayPending
INVARIANT SettledOnChain
INVARIANT Solvency
PROPERTY StatusesFollowLifecycle
