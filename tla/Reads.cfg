CONSTANTS
    w1 = w1
    w2 = w2
    w3 = w3
    t1 = t1
    t2 = t2
    t3 = t3
    me = me
    bob = bob
    shop = shop
    Wallets = {w1, w2, w3}
    WalletCoin <- Coins
    Balance <- EthAndZam
    Counts = {1, 2}
    WalletConverters <- WithoutIt
    MaxRetries = 1
    Nobody = Nobody
    Txs = {t1, t2, t3}
    Sent <- Payments
    FirstStatus <- Statuses
    Earlier <- FromOutside
    Me = me
    TxRequests <- ManyRequests
    TxConverters <- TheFallback
    a = a
    b = b
    c = c
    Jobs = {a, b, c}
    Calls = {"wallets", "ethBalance", "ethIncoming"}
    MaxLimits = 2
SPECIFICATION Spec
INVARIANT WalletTypeOK
INVARIANT WalletWalkComplete
INVARIANT MoreAreCounted
INVARIANT OutageCovered
INVARIANT TxTypeOK
INVARIANT TxWalkFaithful
INVARIANT OwnSide
INVARIANT GroupsCorrect
INVARIANT TxOutageCovered
INVARIANT CallTypeOK
INVARIANT NoSendAfterClose
PROPERTY WalletWalkEnds
PROPERTY TxWalkEnds
PROPERTY ImplementsGather
PROPERTY CallReturns
