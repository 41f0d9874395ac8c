------------------------------- MODULE WalletListing -------------------------------
(***************************************************************************)
(* The wallets of a user as the API shows them: pages that follow a cursor *)
(* of ids, one wallet, and the total of all of them, while wallets of the  *)
(* user are created.  A request is several statements, each of which sees  *)
(* what is committed when it runs.                                         *)
(*                                                                         *)
(* The client walks from page to page, and asks again for one that failed. *)
(***************************************************************************)
EXTENDS Naturals, FiniteSets, Rates

CONSTANTS
    Wallets,      \* rows of the table that belong to the user
    WalletCoin,   \* the coin of each
    Balance,      \* the balance that its coin's node has for each
    Counts,       \* limits that clients ask for, 0 for none
    WalletConverters,  \* the configured converters
    MaxRetries    \* bound: requests that fail because a node does

ASSUME WalletsAssumption == IsFiniteSet(Wallets)
ASSUME WalletCoinAssumption == Balance \in [Wallets -> Nat] /\ DOMAIN WalletCoin = Wallets
ASSUME CountsAssumption == Counts \subseteq Nat /\ MaxRetries \in Nat
ASSUME WalletConvertersAssumption == WalletConverters \subseteq Converters

VARIABLES
    row,        \* where each row is: inserted in an open transaction, committed
    id,         \* its id, once it has been inserted
    lastId,     \* of the table's sequence
    at,         \* where the request is
    request,    \* "list", "get" or "stat"
    limit,      \* Count of the walk
    cursor,     \* FromID
    page,       \* the wallets that were read
    total,      \* of the wallets from the cursor on
    more,       \* the flag hasNext
    quoted,     \* the coins whose rates were asked for and were got, and whether
                \* one of the converters was able to answer
    due,        \* committed when the walk began
    shown,      \* how often the walk has shown each, 2 for more than once
    retries     \* so far

rowVars == <<row, id, lastId>>
walkVars == <<limit, cursor, due, shown>>
walletVars == <<rowVars, walkVars, at, request, page, total, more, quoted, retries>>

NoQuote == [coins |-> {}, rates |-> {}, covered |-> FALSE]

WalletTypeOK ==
    /\ row \in [Wallets -> {"none", "open", "committed", "gone"}]
    /\ id \in [Wallets -> Nat] /\ lastId \in Nat
    /\ at \in {"idle", "select", "count", "balances", "rates", "answered", "failed"}
    /\ request \in {"list", "get", "stat"}
    /\ limit \in Counts \cup {0} /\ cursor \in Nat
    /\ page \subseteq Wallets /\ total \in Nat /\ more \in BOOLEAN
    /\ quoted.rates \subseteq quoted.coins
    /\ due \subseteq Wallets /\ shown \in [Wallets -> 0 .. 2]
    /\ retries \in Nat

WalletInit ==
    /\ row = [w \in Wallets |-> "none"]
    /\ id = [w \in Wallets |-> 0] /\ lastId = 0
    /\ at = "idle" /\ request = "list"
    /\ limit = 0 /\ cursor = 0
    /\ page = {} /\ total = 0 /\ more = FALSE /\ quoted = NoQuote
    /\ due = {} /\ shown = [w \in Wallets |-> 0]
    /\ retries = 0

-----------------------------------------------------------------------------
(* The wallets: CreateWallet's transaction *)

InsertWallet(w) ==
    /\ row[w] = "none"
    /\ row' = [row EXCEPT ![w] = "open"]
    /\ id' = [id EXCEPT ![w] = lastId + 1] /\ lastId' = lastId + 1
    /\ UNCHANGED <<walkVars, at, request, page, total, more, quoted, retries>>

WalletEnds(w, end) ==
    /\ row[w] = "open"
    /\ row' = [row EXCEPT ![w] = end]
    /\ UNCHANGED <<id, lastId, walkVars, at, request, page, total, more, quoted, retries>>

CommitWallet(w) == WalletEnds(w, "committed")
RollBackWallet(w) == WalletEnds(w, "gone")

-----------------------------------------------------------------------------
(* GetWallets *)

\* Mutant of InClause: the cursor's wallet is on the next page as well.
InClauseFromCursor(w) ==
    row[w] = "committed" /\ (request = "list" /\ cursor # 0 => id[w] >= cursor)

(* The clause that both statements share. *)
InClause(w) ==
    row[w] = "committed" /\ (request = "list" /\ cursor # 0 => id[w] > cursor)

\* Mutant of IsWalletPage: the page is not ordered.
UnorderedPage(P, n) ==
    LET left == {w \in Wallets : InClause(w)} \ P
    IN  /\ \A w \in P : InClause(w)
        /\ n # 0 => Cardinality(P) <= n
        /\ left # {} => n # 0 /\ Cardinality(P) = n

(* The first wallets by id, as many as the limit has. *)
IsWalletPage(P, n) ==
    LET left == {w \in Wallets : InClause(w)} \ P
    IN  /\ \A w \in P : InClause(w)
        /\ \A v \in P, w \in left : id[v] < id[w]
        /\ n # 0 => Cardinality(P) <= n
        /\ left # {} => n # 0 /\ Cardinality(P) = n

WalletLimit == IF request = "list" THEN limit ELSE 0

IsLastWallet(w, P) == w \in P /\ \A v \in P : id[v] <= id[w]

SelectWallets ==
    /\ at = "select" /\ request # "get"
    /\ page' \in {P \in SUBSET Wallets : IsWalletPage(P, WalletLimit)}
    /\ at' = "count"
    /\ UNCHANGED <<rowVars, walkVars, request, total, more, quoted, retries>>

\* Mutant of CountWallets: the limit counts for the count as well.
CountLimited ==
    LET n == Cardinality({w \in Wallets : InClause(w)})
    IN  /\ at = "count"
        /\ total' = IF WalletLimit # 0 /\ n > WalletLimit THEN WalletLimit ELSE n
        /\ IF page = {} /\ n # 0
           THEN at' = "failed" /\ more' = FALSE
           ELSE /\ at' = "balances"
                /\ more' = \E w \in Wallets : InClause(w) /\ \A v \in page : id[v] < id[w]
        /\ UNCHANGED <<rowVars, walkVars, request, page, quoted, retries>>

(* The last of all is compared with the last of the page.  It panics when  *)
(* the page is empty and a wallet has been committed since; gin answers    *)
(* that with an error.                                                     *)
CountWallets ==
    /\ at = "count"
    /\ total' = Cardinality({w \in Wallets : InClause(w)})
    /\ IF page = {} /\ \E w \in Wallets : InClause(w)
       THEN at' = "failed" /\ more' = FALSE
       ELSE /\ at' = "balances"
            /\ more' = \E w \in Wallets : InClause(w) /\ \A v \in page : id[v] < id[w]
    /\ UNCHANGED <<rowVars, walkVars, request, page, quoted, retries>>

(* The only wallet of the request, if it is there. *)
GetWallet ==
    /\ at = "select" /\ request = "get"
    /\ \E w \in Wallets :
          IF row[w] = "committed" THEN page' = {w} /\ at' = "balances"
          ELSE page' = {} /\ at' = "failed"
    /\ UNCHANGED <<rowVars, walkVars, request, total, more, quoted, retries>>

-----------------------------------------------------------------------------
(* Balances and rates *)

QueryBalancesFails ==
    /\ at = "balances" /\ page # {}
    /\ retries < MaxRetries /\ retries' = retries + 1
    /\ at' = "failed"
    /\ UNCHANGED <<rowVars, walkVars, request, page, total, more, quoted>>

QueryBalances ==
    /\ at = "balances"
    /\ at' = "rates"
    /\ UNCHANGED <<rowVars, walkVars, request, page, total, more, quoted, retries>>

NonZeroWallets == {w \in page : Balance[w] # 0}

(* A wallet alone is converted also when it is empty. *)
WalletCoins ==
    LET coins == {WalletCoin[w] : w \in IF request = "get" THEN page ELSE NonZeroWallets}
    IN  coins \cup (IF request = "stat" /\ NonZeroWallets # {} THEN {DefaultCoin} ELSE {})

Quoted(quote, conv, fiat, answers) ==
    quoted' = [coins |-> WalletCoins, rates |-> quote.rates,
               covered |-> Covered(conv, WalletCoins, fiat, answers)]

(* One wallet, also without its rate. *)
RepresentWallet(conv, fiat, answers) ==
    /\ request = "get"
    /\ \E coin \in WalletCoins :
          Quoted(GetRateDefaultFiat(conv, coin, fiat, answers), conv, fiat, answers)
    /\ at' = "answered"
    /\ UNCHANGED <<rowVars, walkVars, request, page, total, more, retries>>

WalletQuote(conv, fiat, answers) ==
    IF WalletCoins = {} THEN Result({}, "none")
    ELSE GetMultiRateDefaultFiat(conv, WalletCoins, fiat, answers)

(* A page of them, also without rates. *)
RepresentPage(conv, fiat, answers) ==
    /\ request = "list"
    /\ Quoted(WalletQuote(conv, fiat, answers), conv, fiat, answers)
    /\ at' = "answered"
    /\ shown' = [w \in Wallets |-> IF w \notin page THEN shown[w]
                                  ELSE IF shown[w] = 0 THEN 1 ELSE 2]
    /\ UNCHANGED <<rowVars, limit, cursor, due, request, page, total, more, retries>>

(* The total fails with the converter, and panics over a missing rate. *)
RepresentTotal(conv, fiat, answers) ==
    /\ request = "stat"
    /\ LET quote == WalletQuote(conv, fiat, answers)
       IN  /\ Quoted(quote, conv, fiat, answers)
           /\ at' = IF quote.error = "none" /\ WalletCoins \subseteq quote.rates
                    THEN "answered" ELSE "failed"
    /\ UNCHANGED <<rowVars, walkVars, request, page, total, more, retries>>

-----------------------------------------------------------------------------
(* The client *)

WalletsCleared ==
    /\ page' = {} /\ total' = 0 /\ more' = FALSE /\ quoted' = NoQuote

(* Next is empty when there is none, and the walk is over. *)
StartWalletWalk ==
    /\ at = "idle"
    /\ at' = "select" /\ request' = "list"
    /\ limit' \in Counts /\ cursor' = 0
    /\ due' = {w \in Wallets : row[w] = "committed"}
    /\ shown' = [w \in Wallets |-> 0]
    /\ UNCHANGED <<rowVars, page, total, more, quoted, retries>>

NextWallets ==
    /\ at = "answered" /\ request = "list" /\ page # {} /\ more
    /\ at' = "select"
    /\ \E w \in page : IsLastWallet(w, page) /\ cursor' = id[w]
    /\ WalletsCleared
    /\ UNCHANGED <<rowVars, limit, due, shown, request, retries>>

RetryWallets ==
    /\ at = "failed" /\ request = "list"
    /\ at' = "select"
    /\ WalletsCleared
    /\ UNCHANGED <<rowVars, walkVars, request, retries>>

AskWallets ==
    /\ at = "idle"
    /\ at' = "select" /\ request' \in {"get", "stat"}
    /\ UNCHANGED <<rowVars, walkVars, page, total, more, quoted, retries>>

WalletsOver ==
    \/ at = "answered" /\ ~(request = "list" /\ page # {} /\ more)
    \/ at = "failed" /\ request # "list"

FinishWallets ==
    /\ WalletsOver
    /\ at' = "idle" /\ request' = "list" /\ limit' = 0 /\ cursor' = 0
    /\ due' = {} /\ shown' = [w \in Wallets |-> 0]
    /\ WalletsCleared
    /\ UNCHANGED <<rowVars, retries>>

-----------------------------------------------------------------------------
ServeWallets ==
    \/ SelectWallets \/ GetWallet \/ CountWallets \/ QueryBalances
    \/ /\ at = "rates"
       /\ \E conv \in WalletConverters, fiat \in {"known", "unknown"},
             answers \in [Providers -> Answers] :
             \/ RepresentWallet(conv, fiat, answers)
             \/ RepresentPage(conv, fiat, answers)
             \/ RepresentTotal(conv, fiat, answers)

WalkWallets == NextWallets \/ RetryWallets \/ FinishWallets

WalletNext ==
    \/ \E w \in Wallets : InsertWallet(w) \/ CommitWallet(w) \/ RollBackWallet(w)
    \/ StartWalletWalk \/ AskWallets \/ ServeWallets \/ QueryBalancesFails \/ WalkWallets

WalletSpec == WalletInit /\ [][WalletNext]_walletVars

(* Handlers run, and the client goes on. *)
WalletFairness == WF_walletVars(ServeWallets) /\ WF_walletVars(WalkWallets)

-----------------------------------------------------------------------------
(* Properties *)

(* A walk over the pages shows every wallet that the user had when it      *)
(* began, and no wallet twice, whatever is committed between its requests  *)
(* and their statements, in whatever order (queries.go:268).               *)
WalletWalkComplete ==
    /\ \A w \in Wallets : shown[w] <= 1
    /\ at = "answered" /\ request = "list" /\ WalletsOver =>
          \A w \in due : shown[w] = 1

(* "Detect has next flag by querying last wallet id" (queries.go:247-248): *)
(* what remains behind a page with a successor has been counted as well.   *)
MoreAreCounted == more => total > Cardinality(page)

(* When the main converter is out and the fallback is not, every wallet    *)
(* with coins has its value in the currency, and the total of all of them  *)
(* is answered (fallback/impl.go:52).                                      *)
OutageCovered ==
    quoted.covered => quoted.coins \subseteq quoted.rates /\ at = "answered"

(* Every walk ends, also one that other requests add wallets to. *)
WalletWalkEnds == at = "select" ~> at = "idle"
===================================================================================
