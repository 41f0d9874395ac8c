CONSTANTS
    h1 = h1
    h2 = h2
    alice = alice
    Coins = {"BTC", "ETH"}
    Hashes = {h1, h2}
    Wallets = {alice}
    Nobody = Nobody
    Window = 2
    MaxFailures = 1
SPECIFICATION FairSpec
INVARIANT TypeOK
INVARIANT RowsAgreeWithChain
PROPERTY StatusesFollowLifecycle
PROPERTY RecordedOnce
PROPERTY IncomingRecorded
PROPERTY WaitingResolves
