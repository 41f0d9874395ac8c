-------------------------------- MODULE MCReads --------------------------------
(***************************************************************************)
(* Small instances of the two listings and of the concurrent node calls    *)
(* for TLC.  None of the three reads what another does, so a behaviour     *)
(* follows the client of one of them.                                      *)
(***************************************************************************)
EXTENDS WalletListing, TxListing, FanIn

CONSTANTS w1, w2, w3, t1, t2, t3, me, bob, shop, a, b, c

VARIABLE api

Init ==
    /\ api \in {"wallets", "txs", "calls"} /\ WalletInit /\ TxInit /\ CallInit
    /\ api # "calls" => call = "wallets"

Next ==
    /\ UNCHANGED api
    /\ \/ api = "wallets" /\ WalletNext /\ UNCHANGED <<txVars, callVars>>
       \/ api = "txs" /\ TxNext /\ UNCHANGED <<walletVars, callVars>>
       \/ api = "calls" /\ CallNext /\ UNCHANGED <<walletVars, txVars>>

Spec ==
    /\ Init /\ [][Next]_<<api, walletVars, txVars, callVars>>
    /\ WalletFairness /\ TxFairness /\ CallFairness

-----------------------------------------------------------------------------
Coins == [w \in Wallets |-> IF w = w1 THEN "BTC" ELSE IF w = w2 THEN "ETH" ELSE "ZAM"]

EthAndZam == [w \in Wallets |-> IF w = w1 THEN 0 ELSE 1]

TheFallback == {[main |-> "icex", fallback |-> "cryptocompare"]}

WithoutIt == TheFallback \cup {[main |-> "icex", fallback |-> "none"]}

-----------------------------------------------------------------------------
Payment(payer, toWallet, toPhone, toAddress, type, coin, amount) ==
    [from |-> payer, toWallet |-> toWallet, toPhone |-> toPhone, toAddress |-> toAddress,
     type |-> type, coin |-> coin, amount |-> amount]

(* From bob, who knows the phone; to a shop; from outside. *)
Payments ==
    [t \in Txs |->
        IF t = t1 THEN Payment(bob, Nobody, me, Nobody, "internal", "BTC", 1)
        ELSE IF t = t2 THEN Payment(me, Nobody, Nobody, shop, "external", "ETH", 1)
        ELSE Payment(Nobody, me, Nobody, Nobody, "external", "BTC", 2)]

Statuses ==
    [t \in Txs |-> IF t = t1 THEN {"pending"} ELSE IF t = t2 THEN {"waiting"} ELSE {"success"}]

FromOutside == <<t3>>

Unfiltered == [coin |-> "any", status |-> "any", direction |-> "any", wallet |-> "any",
        recipient |-> "any", since |-> 0, until |-> 9]

List(n, group, zone) ==
    [kind |-> "list", filter |-> Unfiltered, limit |-> n, group |-> group, zone |-> zone]

ManyRequests ==
    {List(1, "day", 0), List(2, "none", 0), List(0, "day", 1),
     [List(1, "none", 0) EXCEPT !.filter.direction = "incoming"],
     [List(1, "none", 0) EXCEPT !.filter.coin = "BTC", !.filter.status = "success",
                                !.filter.since = 1, !.filter.wallet = me,
                                !.filter.recipient = me],
     [List(1, "none", 0) EXCEPT !.kind = "get"], [List(1, "none", 0) EXCEPT !.kind = "send"]}
================================================================================
