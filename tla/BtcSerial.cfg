CONSTANTS
    alice = alice
    bob = bob
    carol = carol
    shop = shop
    junk = junk
    t1 = t1
    t2 = t2
    t3 = t3
    p1 = p1
    p2 = p2
    Coin = "BTC"
    Phones = {alice, bob, carol}
    Foreign = {shop, junk}
    Nobody = Nobody
    TxIds = {t1, t2, t3}
    Amounts = {1, 2}
    MaxFee = 1
    Procs = {p1}
    NoTx = NoTx
    InitialWallets = {alice, bob}
    Genesis <- AliceHasTwo
    Invalid = {junk}
    MaxDeposits = 0
    MaxFailures = 0
SPECIFICATION Spec
SYMMETRY SymmetryIdsProcs
INVARIANT NoOverdraft
INVARIANT Conservation
INVARIANT NoForgottenPending
