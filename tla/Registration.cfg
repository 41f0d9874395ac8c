CONSTANTS
    e1 = e1
    e2 = e2
    h1 = h1
    h2 = h2
    r = r
    Adapter <- BtcAndZam
    Testnet = TRUE
    Coins = {"BTC", "ZAM"}
    Events = {e1, e2}
    Payloads <- OneIsGood
    Handlers = {h1, h2}
    Requests = {r}
    Reporting = {r}
    Nothing = Nothing
    MaxFailures = 1
SPECIFICATION FairSpec
INVARIANT TypeOK
INVARIANT AckedMeansServed
INVARIANT AccountsNotWasted
INVARIANT WalletHasAccount
INVARIANT ToldUnlessFailed
PROPERTY RegistrationServed
