--------------------------------- MODULE ListingProofs ---------------------------------
(* Theorems on the two listings, for any number of rows and any requests. *)
EXTENDS WalletListing, TxListing, SumLemmas, FiniteSetTheorems, TLAPS

-----------------------------------------------------------------------------
(* Rates: no more coins than were asked for, and all of them in an outage  *)
(* of the main converter that the fallback can cover.                      *)

LEMMA IcexGets ==
    ASSUME NEW coins, NEW renamed, NEW fiat, NEW answer
    PROVE  IcexRates(coins, renamed, fiat, answer).rates \subseteq coins
BY DEF IcexRates, Result

LEMMA CryptocompareGets ==
    ASSUME NEW coins, NEW coin, NEW fiat, NEW answer
    PROVE  /\ CryptocompareRate(coin, fiat, answer).rates \subseteq {coin}
           /\ CryptocompareRates(coins, fiat, answer).rates \subseteq coins
BY DEF CryptocompareRate, CryptocompareRates, Response, Result

LEMMA RateGets ==
    ASSUME NEW conv, NEW coin, NEW fiat, NEW answers
    PROVE  GetRateDefaultFiat(conv, coin, fiat, answers).rates \subseteq {coin}
<1>1. ASSUME NEW provider, NEW f PROVE RateOf(provider, coin, f, answers).rates \subseteq {coin}
  BY IcexGets, CryptocompareGets DEF RateOf
<1>2. ASSUME NEW f PROVE GetRate(conv, coin, f, answers).rates \subseteq {coin}
  BY <1>1 DEF GetRate, Falls
<1> QED
  BY <1>2 DEF GetRateDefaultFiat

LEMMA MultiRateGets ==
    ASSUME NEW conv, NEW coins, NEW fiat, NEW answers
    PROVE  GetMultiRateDefaultFiat(conv, coins, fiat, answers).rates \subseteq coins
<1>1. ASSUME NEW provider, NEW renamed, NEW f
      PROVE  RatesOf(provider, coins, renamed, f, answers).rates \subseteq coins
  BY IcexGets, CryptocompareGets DEF RatesOf
<1>2. ASSUME NEW renamed, NEW f
      PROVE  GetMultiRate(conv, coins, renamed, f, answers).rates \subseteq coins
  BY <1>1 DEF GetMultiRate, Falls
<1> QED
  BY <1>2 DEF GetMultiRateDefaultFiat

LEMMA RateCovers ==
    ASSUME NEW conv, NEW coin, NEW fiat, NEW answers, Covered(conv, {coin}, fiat, answers)
    PROVE  GetRateDefaultFiat(conv, coin, fiat, answers) = Result({coin}, "none")
<1>1. /\ conv.main = "icex" /\ conv.fallback = "cryptocompare"
      /\ coin \in IcexCoins /\ coin \in Listed /\ fiat = "known"
      /\ answers["cryptocompare"] = "ok"
      /\ answers["icex"] \in {"ok", "badStatus", "unreachable"}
  BY DEF Covered, IcexCoins, Listed
<1>2. RateOf("cryptocompare", coin, fiat, answers) = Result({coin}, "none")
  BY <1>1 DEF RateOf, CryptocompareRate, Response
<1>3. RateOf("icex", coin, fiat, answers) =
        Result(IF answers["icex"] = "ok" THEN {coin} ELSE {},
               IF answers["icex"] = "ok" THEN "none"
               ELSE IF answers["icex"] = "unreachable" THEN "net" ELSE "unavailable")
  BY <1>1 DEF RateOf, IcexRates
<1>4. GetRate(conv, coin, fiat, answers) = Result({coin}, "none")
  BY <1>1, <1>2, <1>3 DEF GetRate, Falls, GoesOn, Result
<1> QED
  BY <1>4 DEF GetRateDefaultFiat, Result

LEMMA MultiRateCovers ==
    ASSUME NEW conv, NEW coins, NEW fiat, NEW answers, coins # {},
           Covered(conv, coins, fiat, answers)
    PROVE  GetMultiRateDefaultFiat(conv, coins, fiat, answers) = Result(coins, "none")
<1>1. /\ conv.main = "icex" /\ conv.fallback = "cryptocompare"
      /\ coins \subseteq IcexCoins /\ coins \subseteq Listed /\ fiat = "known"
      /\ answers["cryptocompare"] = "ok"
      /\ answers["icex"] \in {"ok", "badStatus", "unreachable"}
  BY DEF Covered, IcexCoins, Listed
<1>2. RatesOf("cryptocompare", coins, FALSE, fiat, answers) = Result(coins, "none")
  <2>1. {c \in coins : (c \in Listed /\ fiat = "known") \/ c = "ZAM"} = coins
    BY <1>1
  <2> QED
    BY <1>1, <2>1 DEF RatesOf, CryptocompareRates
<1> DEFINE main == RatesOf("icex", coins, FALSE, fiat, answers)
           quote == GetMultiRate(conv, coins, FALSE, fiat, answers)
<1>3. main = IcexRates(coins, FALSE, fiat, answers["icex"])
  BY DEF RatesOf
<1> HIDE DEF main
<1>4. main = Result(coins, "none") \/ GoesOn(main.error)
  <2>1. CASE answers["icex"] = "ok"
    BY <1>1, <1>3, <2>1 DEF IcexRates
  <2>2. CASE answers["icex"] = "badStatus"
    <3>1. main = Result({}, "unavailable")
      BY <1>1, <1>3, <2>2 DEF IcexRates
    <3> QED
      BY <3>1 DEF Result, GoesOn
  <2>3. CASE answers["icex"] = "unreachable"
    <3>1. main = Result({}, "net")
      BY <1>1, <1>3, <2>3 DEF IcexRates
    <3> QED
      BY <3>1 DEF Result, GoesOn
  <2> QED
    BY <1>1, <2>1, <2>2, <2>3
<1>5. Falls(conv, main, Result(coins, "none")) = Result(coins, "none")
  BY <1>1, <1>4 DEF Falls
<1>6. quote = Result(coins, "none")
  BY <1>1, <1>2, <1>5, Zenon DEF GetMultiRate, main
<1>7. quote.error # "fiat"
  <2> HIDE DEF quote
  <2> QED
    BY <1>6 DEF Result
<1> QED
  BY <1>6, <1>7, Zenon DEF GetMultiRateDefaultFiat

-----------------------------------------------------------------------------
(***************************************************************************)
(* What holds between the statements of a request and between the requests *)
(* of a walk.  A wallet that was shown has an id up to the cursor, and so  *)
(* has none that is due and was not; the page in hand lies beyond the      *)
(* cursor, and what is due and not on it lies beyond the page.             *)
(***************************************************************************)
Types ==
    /\ row \in [Wallets -> {"none", "open", "committed", "gone"}]
    /\ id \in [Wallets -> Nat] /\ lastId \in Nat
    /\ at \in {"idle", "select", "count", "balances", "rates", "answered", "failed"}
    /\ request \in {"list", "get", "stat"}
    /\ limit \in Nat /\ cursor \in Nat
    /\ page \subseteq Wallets /\ more \in BOOLEAN
    /\ due \subseteq Wallets /\ shown \in [Wallets -> 0 .. 2]

HasPage == at \in {"count", "balances", "rates", "answered"}

RowsInv == \A w \in Wallets : row[w] \in {"open", "committed"} => id[w] > 0

DueInv == \A w \in due : row[w] = "committed"

PageInv ==
    HasPage => \A v \in page : row[v] = "committed" /\ (request = "list" => id[v] > cursor)

QuietInv ==
    /\ at = "idle" => request = "list"
    /\ at = "idle" \/ request # "list" => \A w \in Wallets : shown[w] = 0

(* The wallets that the walk has passed. *)
Passed(w) == id[w] <= cursor \/ (at = "answered" /\ w \in page)

ShownInv ==
    request = "list" /\ at # "idle" =>
        \A w \in Wallets :
            /\ shown[w] # 0 => shown[w] = 1 /\ row[w] = "committed" /\ Passed(w)
            /\ w \in due /\ Passed(w) => shown[w] = 1

Left(w) == id[w] > cursor /\ w \notin page

LeftInv ==
    request = "list" =>
        \A w \in due :
            /\ HasPage /\ Left(w) => page # {} /\ \A v \in page : id[v] < id[w]
            /\ at \in {"balances", "rates", "answered"} /\ Left(w) => more

IInv ==
    /\ Types /\ RowsInv /\ DueInv /\ PageInv /\ QuietInv /\ ShownInv /\ LeftInv

-----------------------------------------------------------------------------
LEMMA InitInv == WalletInit => IInv
<1> SUFFICES ASSUME WalletInit PROVE IInv
  OBVIOUS
<1>1. Types
  <2>1. /\ row \in [Wallets -> {"none", "open", "committed", "gone"}]
        /\ id \in [Wallets -> Nat]
    BY DEF WalletInit
  <2>2. shown \in [Wallets -> 0 .. 2]
    BY DEF WalletInit
  <2> QED
    BY <2>1, <2>2 DEF WalletInit, Types
<1>2. RowsInv /\ DueInv /\ PageInv /\ QuietInv /\ ShownInv /\ LeftInv
  BY DEF WalletInit, RowsInv, DueInv, PageInv, HasPage, QuietInv, ShownInv, LeftInv
<1> QED
  BY <1>1, <1>2 DEF IInv

(* The table changes in one row that nobody has read as committed. *)
LEMMA TableStep ==
    ASSUME IInv, UNCHANGED <<walkVars, at, request, page, more>>,
           row' \in [Wallets -> {"none", "open", "committed", "gone"}],
           id' \in [Wallets -> Nat], lastId' \in Nat,
           \A w \in Wallets : row[w] = "committed" => row'[w] = "committed" /\ id'[w] = id[w],
           \A w \in Wallets : row'[w] \in {"open", "committed"} => id'[w] > 0,
           \A w \in Wallets : row'[w] = "committed" => id'[w] = id[w]
    PROVE  IInv'
<1> USE DEF walkVars
<1>1. Types' /\ RowsInv' /\ DueInv' /\ QuietInv'
  BY DEF IInv, Types, RowsInv, DueInv, QuietInv
<1>2. PageInv'
  BY DEF IInv, Types, PageInv, HasPage
<1>3. ShownInv'
  BY DEF IInv, Types, DueInv, ShownInv, Passed
<1>4. LeftInv'
  <2>1. \A w \in due : row[w] = "committed" /\ id'[w] = id[w]
    BY DEF IInv, Types, DueInv
  <2>2. HasPage => \A v \in page : id'[v] = id[v]
    BY DEF IInv, Types, PageInv
  <2> QED
    BY <2>1, <2>2 DEF IInv, LeftInv, Left, HasPage
<1> QED
  BY <1>1, <1>2, <1>3, <1>4 DEF IInv

LEMMA RowStep ==
    ASSUME IInv, NEW w \in Wallets, InsertWallet(w) \/ CommitWallet(w) \/ RollBackWallet(w)
    PROVE  IInv'
<1>1. CASE InsertWallet(w)
  <2>1. lastId + 1 \in Nat /\ lastId + 1 > 0
    BY DEF IInv, Types
  <2> QED
    BY <1>1, <2>1, TableStep DEF InsertWallet, IInv, Types, RowsInv
<1>2. CASE CommitWallet(w) \/ RollBackWallet(w)
  BY <1>2, TableStep DEF CommitWallet, RollBackWallet, WalletEnds, IInv, Types, RowsInv
<1> QED
  BY <1>1, <1>2

(* The first statement reads a page beyond the cursor, with all that is    *)
(* due up to its end.                                                      *)
LEMMA SelectStep == ASSUME IInv, SelectWallets PROVE IInv'
<1> USE DEF rowVars, walkVars
<1>1. PICK P \in SUBSET Wallets : IsWalletPage(P, WalletLimit) /\ page' = P
  BY DEF SelectWallets
<1>2. at = "select" /\ at' = "count" /\ UNCHANGED <<rowVars, walkVars, request, more>>
  BY DEF SelectWallets
<1>3. Types' /\ RowsInv' /\ DueInv' /\ QuietInv'
  BY <1>1, <1>2 DEF IInv, Types, RowsInv, DueInv, QuietInv
<1>4. PageInv'
  <2>1. \A v \in P : InClause(v)
    BY <1>1 DEF IsWalletPage
  <2> QED
    BY <1>1, <1>2, <2>1 DEF IInv, Types, RowsInv, PageInv, InClause
<1>5. ShownInv'
  BY <1>2 DEF IInv, ShownInv, Passed
<1>6. LeftInv'
  <2> SUFFICES ASSUME request = "list", NEW w \in due, id[w] > cursor, w \notin P
               PROVE  P # {} /\ \A v \in P : id[v] < id[w]
    BY <1>1, <1>2 DEF LeftInv, Left
  <2>1. InClause(w) /\ w \in Wallets
    BY DEF InClause, IInv, Types, DueInv
  <2>2. WalletLimit # 0 /\ Cardinality(P) = WalletLimit /\ \A v \in P : id[v] < id[w]
    BY <1>1, <2>1 DEF IsWalletPage
  <2> QED
    BY <2>2, FS_EmptySet
<1> QED
  BY <1>3, <1>4, <1>5, <1>6 DEF IInv

(* The second one knows of everything due beyond the page. *)
LEMMA CountStep == ASSUME IInv, CountWallets PROVE IInv'
<1> USE DEF rowVars, walkVars
<1>1. at = "count" /\ UNCHANGED <<rowVars, walkVars, request, page>>
        /\ at' \in {"failed", "balances"}
  BY DEF CountWallets
<1>2. at' = "balances" =>
         more' = \E w \in Wallets : InClause(w) /\ \A v \in page : id[v] < id[w]
  BY DEF CountWallets
<1>3. Types' /\ RowsInv' /\ DueInv' /\ QuietInv' /\ PageInv'
  <2>1. more' \in BOOLEAN
    BY DEF CountWallets
  <2> QED
    BY <1>1, <2>1 DEF IInv, Types, RowsInv, DueInv, QuietInv, PageInv, HasPage
<1>4. ShownInv'
  BY <1>1 DEF IInv, ShownInv, Passed
<1>5. LeftInv'
  <2> SUFFICES ASSUME request = "list", NEW w \in due, at' = "balances", Left(w)
               PROVE  page # {} /\ (\A v \in page : id[v] < id[w]) /\ more'
    BY <1>1 DEF LeftInv, Left, HasPage
  <2>1. page # {} /\ \A v \in page : id[v] < id[w]
    BY <1>1 DEF IInv, LeftInv, HasPage
  <2>2. InClause(w) /\ w \in Wallets
    BY DEF InClause, IInv, Types, DueInv, Left
  <2> QED
    BY <1>2, <2>1, <2>2
<1> QED
  BY <1>3, <1>4, <1>5 DEF IInv

LEMMA GetStep == ASSUME IInv, GetWallet PROVE IInv'
<1> USE DEF rowVars, walkVars
<1>1. /\ request = "get" /\ at' \in {"balances", "failed"}
      /\ UNCHANGED <<rowVars, walkVars, request, more>>
      /\ page' \subseteq Wallets /\ \A v \in page' : row[v] = "committed"
  BY DEF GetWallet
<1> QED
  BY <1>1 DEF IInv, Types, RowsInv, DueInv, QuietInv, PageInv, ShownInv, LeftInv

(* Steps that change nothing but where the request is. *)
LEMMA MoveStep ==
    ASSUME IInv, UNCHANGED <<rowVars, walkVars, request, page, more>>,
           at \in {"balances", "rates"},
           at' \in {"rates", "failed"} \/ (at' = "answered" /\ request # "list")
    PROVE  IInv'
BY DEF IInv, Types, RowsInv, DueInv, PageInv, HasPage, QuietInv, ShownInv, Passed,
       LeftInv, Left, rowVars, walkVars

(* A page is shown. *)
LEMMA PageStep ==
    ASSUME IInv, at = "rates", NEW conv, NEW fiat, NEW answers,
           RepresentPage(conv, fiat, answers)
    PROVE  IInv'
<1> USE DEF rowVars
<1>1. /\ request = "list" /\ at' = "answered"
      /\ UNCHANGED <<rowVars, limit, cursor, due, request, page, more>>
      /\ shown' = [w \in Wallets |-> IF w \notin page THEN shown[w]
                                     ELSE IF shown[w] = 0 THEN 1 ELSE 2]
  BY DEF RepresentPage
<1>2. Types' /\ RowsInv' /\ DueInv' /\ QuietInv' /\ PageInv' /\ LeftInv'
  BY <1>1 DEF IInv, Types, RowsInv, DueInv, QuietInv, PageInv, HasPage, LeftInv, Left
<1>3. ShownInv'
  <2> SUFFICES ASSUME NEW w \in Wallets
               PROVE  /\ shown'[w] # 0 =>
                             shown'[w] = 1 /\ row[w] = "committed"
                               /\ (id[w] <= cursor \/ w \in page)
                      /\ w \in due /\ (id[w] <= cursor \/ w \in page) => shown'[w] = 1
    BY <1>1 DEF ShownInv, Passed
  <2>1. CASE w \in page
    <3>1. id[w] > cursor /\ row[w] = "committed"
      BY <1>1, <2>1 DEF IInv, PageInv, HasPage
    <3>2. shown[w] = 0
      BY <1>1, <3>1 DEF IInv, Types, ShownInv, Passed
    <3> QED
      BY <1>1, <2>1, <3>1, <3>2
  <2>2. CASE w \notin page
    BY <1>1, <2>2 DEF IInv, ShownInv, Passed
  <2> QED
    BY <2>1, <2>2
<1> QED
  BY <1>2, <1>3 DEF IInv

LEMMA StartStep == ASSUME IInv, StartWalletWalk \/ AskWallets PROVE IInv'
<1> USE DEF rowVars, walkVars
<1>1. CASE StartWalletWalk
  <2>1. Types'
    BY <1>1, CountsAssumption DEF StartWalletWalk, IInv, Types
  <2>2. RowsInv' /\ DueInv' /\ PageInv' /\ QuietInv'
    BY <1>1 DEF StartWalletWalk, IInv, Types, RowsInv, DueInv, PageInv, HasPage, QuietInv
  <2>3. ShownInv' /\ LeftInv'
    BY <1>1 DEF StartWalletWalk, IInv, Types, RowsInv, ShownInv, Passed, LeftInv, HasPage
  <2> QED
    BY <2>1, <2>2, <2>3 DEF IInv
<1>2. CASE AskWallets
  BY <1>2 DEF AskWallets, IInv, Types, RowsInv, DueInv, PageInv, HasPage, QuietInv,
     ShownInv, LeftInv
<1> QED
  BY <1>1, <1>2

(* The cursor moves to the end of the page: all that is due up to there    *)
(* has been shown.                                                         *)
LEMMA NextStep == ASSUME IInv, NextWallets PROVE IInv'
<1> USE DEF rowVars
<1>1. PICK w \in page : IsLastWallet(w, page) /\ cursor' = id[w]
  BY DEF NextWallets
<1>2. /\ at = "answered" /\ request = "list" /\ at' = "select"
      /\ page' = {} /\ more' = FALSE
      /\ UNCHANGED <<rowVars, limit, due, shown, request>>
  BY DEF NextWallets, WalletsCleared
<1>3. cursor \in Nat /\ id[w] \in Nat /\ cursor < id[w] /\ w \in Wallets
  BY <1>1, <1>2 DEF IInv, Types, PageInv, HasPage
<1>4. Types' /\ RowsInv' /\ DueInv' /\ QuietInv' /\ PageInv' /\ LeftInv'
  BY <1>1, <1>2, <1>3 DEF IInv, Types, RowsInv, DueInv, QuietInv, PageInv, HasPage, LeftInv
<1>5. ShownInv'
  <2> SUFFICES ASSUME NEW x \in Wallets
               PROVE  /\ shown[x] # 0 => shown[x] = 1 /\ row[x] = "committed" /\ id[x] <= id[w]
                      /\ x \in due /\ id[x] <= id[w] => shown[x] = 1
    BY <1>1, <1>2 DEF ShownInv, Passed
  <2>1. id[x] \in Nat /\ (x \in page => id[x] <= id[w])
    BY <1>1 DEF IInv, Types, IsLastWallet
  <2>2. shown[x] # 0 => shown[x] = 1 /\ row[x] = "committed" /\ Passed(x)
    BY <1>2 DEF IInv, ShownInv
  <2>3. x \in due /\ Passed(x) => shown[x] = 1
    BY <1>2 DEF IInv, ShownInv
  <2>4. x \in due /\ id[x] <= id[w] => Passed(x)
    <3>1. x \in due /\ Left(x) => id[w] < id[x]
      BY <1>1, <1>2 DEF IInv, LeftInv, HasPage
    <3> QED
      BY <1>2, <1>3, <2>1, <3>1 DEF Left, Passed
  <2> QED
    BY <1>3, <2>1, <2>2, <2>3, <2>4 DEF Passed
<1> QED
  BY <1>4, <1>5 DEF IInv

LEMMA EndStep == ASSUME IInv, RetryWallets \/ FinishWallets PROVE IInv'
<1> USE DEF rowVars, walkVars, WalletsCleared
<1>1. CASE RetryWallets
  BY <1>1 DEF RetryWallets, IInv, Types, RowsInv, DueInv, PageInv, HasPage, QuietInv,
     ShownInv, Passed, LeftInv
<1>2. CASE FinishWallets
  <2>1. shown' \in [Wallets -> 0 .. 2] /\ \A w \in Wallets : shown'[w] = 0
    BY <1>2 DEF FinishWallets
  <2> QED
    BY <1>2, <2>1 DEF FinishWallets, IInv, Types, RowsInv, DueInv, PageInv, HasPage,
       QuietInv, ShownInv, LeftInv
<1> QED
  BY <1>1, <1>2

LEMMA NextInv == IInv /\ [WalletNext]_walletVars => IInv'
<1> SUFFICES ASSUME IInv, [WalletNext]_walletVars PROVE IInv'
  OBVIOUS
<1>1. ASSUME NEW conv, NEW fiat, NEW answers, at = "rates",
             RepresentWallet(conv, fiat, answers) \/ RepresentTotal(conv, fiat, answers)
      PROVE  IInv'
  BY <1>1, MoveStep DEF RepresentWallet, RepresentTotal
<1>2. CASE QueryBalances \/ QueryBalancesFails
  BY <1>2, MoveStep DEF QueryBalances, QueryBalancesFails
<1>3. CASE UNCHANGED walletVars
  BY <1>3 DEF walletVars, rowVars, walkVars, IInv, Types, RowsInv, DueInv, PageInv, HasPage,
     QuietInv, ShownInv, Passed, LeftInv, Left
<1>4. CASE ServeWallets
  BY <1>1, <1>2, <1>4, SelectStep, GetStep, CountStep, PageStep DEF ServeWallets
<1>5. CASE WalkWallets
  BY <1>5, NextStep, EndStep DEF WalkWallets
<1> QED
  BY <1>2, <1>3, <1>4, <1>5, RowStep, StartStep DEF WalletNext

-----------------------------------------------------------------------------
(* A walk shows every wallet the user had, and none twice                  *)
(* (WalletWalkComplete), for any number of wallets and any limit, whatever *)
(* is committed between its statements.                                    *)
THEOREM WalksComplete == WalletSpec => []WalletWalkComplete
<1>1. IInv => WalletWalkComplete
  <2> SUFFICES ASSUME IInv PROVE WalletWalkComplete
    OBVIOUS
  <2>1. \A w \in Wallets : shown[w] <= 1
    BY DEF IInv, QuietInv, ShownInv
  <2>2. ASSUME at = "answered", request = "list", WalletsOver, NEW w \in due
        PROVE  shown[w] = 1
    <3>1. page = {} \/ ~more
      BY <2>2 DEF WalletsOver
    <3>2. ~Left(w)
      BY <2>2, <3>1 DEF IInv, LeftInv, HasPage
    <3>3. w \in Wallets /\ id[w] \in Nat /\ cursor \in Nat
      BY <2>2 DEF IInv, Types
    <3> QED
      BY <2>2, <3>2, <3>3 DEF IInv, ShownInv, Passed, Left
  <2> QED
    BY <2>1, <2>2 DEF WalletWalkComplete
<1> QED
  BY <1>1, InitInv, NextInv, PTL DEF WalletSpec

-----------------------------------------------------------------------------
(* What a request has counted and what it was quoted.  A page of a wallet  *)
(* alone is one wallet, so its only coin is the one that was asked for.    *)

CountsInv ==
    /\ limit \in Counts \cup {0} /\ total \in Nat /\ retries \in Nat
    /\ more => at \in {"balances", "rates", "answered", "failed"} /\ total > Cardinality(page)

QuoteInv ==
    /\ at = "count" => request # "get"
    /\ request = "get" /\ at \in {"balances", "rates"} => \E w \in Wallets : page = {w}
    /\ quoted.rates \subseteq quoted.coins
    /\ quoted.covered => quoted.coins \subseteq quoted.rates /\ at = "answered"

LEMMA QuoteInit == WalletInit => CountsInv /\ QuoteInv
BY DEF WalletInit, CountsInv, QuoteInv, NoQuote

(* A wallet behind the page has been counted beside those on it. *)
LEMMA CountsMore ==
    ASSUME IInv, CountWallets, more'
    PROVE  at' = "balances" /\ page' = page /\ total' > Cardinality(page)
<1> DEFINE all == {w \in Wallets : InClause(w)}
<1>1. /\ at = "count" /\ at' = "balances" /\ page' = page /\ total' = Cardinality(all)
      /\ \E w \in Wallets : InClause(w) /\ \A v \in page : id[v] < id[w]
  BY DEF CountWallets
<1>2. PICK w \in all : \A v \in page : id[v] < id[w]
  BY <1>1
<1>3. page \subseteq all /\ w \notin page
  <2>1. page \subseteq Wallets /\ \A v \in Wallets : id[v] \in Nat
    BY DEF IInv, Types
  <2>2. \A v \in page : row[v] = "committed" /\ (request = "list" => id[v] > cursor)
    BY <1>1 DEF IInv, PageInv, HasPage
  <2> QED
    BY <1>2, <2>1, <2>2 DEF InClause
<1>4. IsFiniteSet(all)
  BY WalletsAssumption, FS_Subset
<1>5. Cardinality(page) < Cardinality(all)
  <2> HIDE DEF all
  <2>1. page # all
    BY <1>3
  <2>2. Cardinality(page) <= Cardinality(all) /\ Cardinality(page) # Cardinality(all)
    BY <1>3, <1>4, <2>1, FS_Subset
  <2>3. Cardinality(page) \in Nat /\ Cardinality(all) \in Nat
    BY <1>3, <1>4, FS_Subset, FS_CardinalityType
  <2> QED
    BY <2>2, <2>3
<1> QED
  BY <1>1, <1>5

LEMMA CountsNat == Cardinality({w \in Wallets : InClause(w)}) \in Nat
<1>1. {w \in Wallets : InClause(w)} \subseteq Wallets
  OBVIOUS
<1> QED
  BY <1>1, WalletsAssumption, FS_Subset, FS_CardinalityType

LEMMA CountsNext == IInv /\ CountsInv /\ [WalletNext]_walletVars => CountsInv'
<1> SUFFICES ASSUME IInv, CountsInv, [WalletNext]_walletVars PROVE CountsInv'
  OBVIOUS
<1> USE DEF rowVars, walkVars, CountsInv
<1>1. ASSUME NEW w \in Wallets, InsertWallet(w) \/ CommitWallet(w) \/ RollBackWallet(w)
      PROVE  CountsInv'
  BY <1>1 DEF InsertWallet, CommitWallet, RollBackWallet, WalletEnds
<1>2. CASE SelectWallets \/ GetWallet
  <2>1. at = "select" /\ ~more
    BY <1>2 DEF SelectWallets, GetWallet
  <2> QED
    BY <1>2, <2>1 DEF SelectWallets, GetWallet
<1>3. CASE CountWallets
  <2>1. total' \in Nat /\ UNCHANGED <<limit, retries>>
    BY <1>3, CountsNat DEF CountWallets
  <2> QED
    BY <1>3, <2>1, CountsMore
<1>4. CASE QueryBalances \/ QueryBalancesFails
  BY <1>4 DEF QueryBalances, QueryBalancesFails
<1>5. ASSUME NEW conv, NEW fiat, NEW answers, at = "rates",
             RepresentWallet(conv, fiat, answers) \/ RepresentPage(conv, fiat, answers)
                \/ RepresentTotal(conv, fiat, answers)
      PROVE  CountsInv'
  <2>1. UNCHANGED <<limit, total, retries, more, page>> /\ at' \in {"answered", "failed"}
    BY <1>5 DEF RepresentWallet, RepresentPage, RepresentTotal
  <2> QED
    BY <2>1
<1>6. CASE StartWalletWalk \/ AskWallets
  BY <1>6 DEF StartWalletWalk, AskWallets
<1>7. CASE WalkWallets
  BY <1>7 DEF WalkWallets, NextWallets, RetryWallets, FinishWallets, WalletsCleared
<1>8. CASE UNCHANGED walletVars
  BY <1>8 DEF walletVars
<1> QED
  BY <1>1, <1>2, <1>3, <1>4, <1>5, <1>6, <1>7, <1>8 DEF WalletNext, ServeWallets

(* The quote of a page or of a total. *)
LEMMA WalletQuoteGets ==
    ASSUME NEW conv, NEW fiat, NEW answers
    PROVE  /\ WalletQuote(conv, fiat, answers).rates \subseteq WalletCoins
           /\ Covered(conv, WalletCoins, fiat, answers) =>
                 WalletQuote(conv, fiat, answers) = Result(WalletCoins, "none")
<1>1. CASE WalletCoins = {}
  BY <1>1 DEF WalletQuote, Result
<1>2. CASE WalletCoins # {}
  BY <1>2, MultiRateGets, MultiRateCovers DEF WalletQuote
<1> QED
  BY <1>1, <1>2

LEMMA RepresentQuotes ==
    ASSUME QuoteInv, at = "rates", NEW conv, NEW fiat, NEW answers,
           RepresentWallet(conv, fiat, answers) \/ RepresentPage(conv, fiat, answers)
              \/ RepresentTotal(conv, fiat, answers)
    PROVE  QuoteInv'
<1>1. CASE RepresentWallet(conv, fiat, answers)
  <2>1. PICK coin \in WalletCoins :
           Quoted(GetRateDefaultFiat(conv, coin, fiat, answers), conv, fiat, answers)
    BY <1>1 DEF RepresentWallet
  <2>2. PICK w \in Wallets : page = {w}
    BY <1>1 DEF QuoteInv, RepresentWallet
  <2>3. WalletCoins = {coin}
    BY <1>1, <2>1, <2>2 DEF WalletCoins, RepresentWallet
  <2>4. at' = "answered"
    BY <1>1 DEF RepresentWallet
  <2>5. Covered(conv, {coin}, fiat, answers) =>
           GetRateDefaultFiat(conv, coin, fiat, answers).rates = {coin}
    BY RateCovers DEF Result
  <2> QED
    BY <2>1, <2>3, <2>4, <2>5, RateGets DEF QuoteInv, Quoted
<1>2. CASE RepresentPage(conv, fiat, answers) \/ RepresentTotal(conv, fiat, answers)
  <2> DEFINE quote == WalletQuote(conv, fiat, answers)
  <2>1. /\ at' \in {"answered", "failed"}
        /\ quoted' = [coins |-> WalletCoins, rates |-> quote.rates,
                      covered |-> Covered(conv, WalletCoins, fiat, answers)]
        /\ at' = "failed" => quote.error # "none" \/ ~(WalletCoins \subseteq quote.rates)
    BY <1>2 DEF RepresentPage, RepresentTotal, Quoted
  <2>2. quote.rates \subseteq WalletCoins
    BY WalletQuoteGets
  <2>3. Covered(conv, WalletCoins, fiat, answers) =>
           quote.rates = WalletCoins /\ quote.error = "none"
    BY WalletQuoteGets DEF Result
  <2> HIDE DEF quote
  <2> QED
    BY <2>1, <2>2, <2>3 DEF QuoteInv
<1> QED
  BY <1>1, <1>2

LEMMA QuoteNext == QuoteInv /\ [WalletNext]_walletVars => QuoteInv'
<1> SUFFICES ASSUME QuoteInv, [WalletNext]_walletVars PROVE QuoteInv'
  OBVIOUS
<1> USE DEF rowVars, walkVars
<1>1. ASSUME NEW w \in Wallets, InsertWallet(w) \/ CommitWallet(w) \/ RollBackWallet(w)
      PROVE  QuoteInv'
  BY <1>1 DEF InsertWallet, CommitWallet, RollBackWallet, WalletEnds, QuoteInv
<1>2. CASE SelectWallets \/ GetWallet
  BY <1>2 DEF SelectWallets, GetWallet, QuoteInv
<1>3. CASE CountWallets \/ QueryBalances \/ QueryBalancesFails
  <2>1. at \in {"count", "balances"} /\ at' \in {"balances", "rates", "failed"}
          /\ UNCHANGED <<request, page, quoted>>
    BY <1>3 DEF CountWallets, QueryBalances, QueryBalancesFails
  <2> QED
    BY <2>1 DEF QuoteInv
<1>4. ASSUME NEW conv, NEW fiat, NEW answers, at = "rates",
             RepresentWallet(conv, fiat, answers) \/ RepresentPage(conv, fiat, answers)
                \/ RepresentTotal(conv, fiat, answers)
      PROVE  QuoteInv'
  BY <1>4, RepresentQuotes
<1>5. CASE StartWalletWalk \/ AskWallets
  BY <1>5 DEF StartWalletWalk, AskWallets, QuoteInv
<1>6. CASE WalkWallets
  BY <1>6 DEF WalkWallets, NextWallets, RetryWallets, FinishWallets, WalletsCleared, NoQuote,
     QuoteInv
<1>7. CASE UNCHANGED walletVars
  BY <1>7 DEF walletVars, QuoteInv
<1> QED
  BY <1>1, <1>2, <1>3, <1>4, <1>5, <1>6, <1>7 DEF WalletNext, ServeWallets

-----------------------------------------------------------------------------
LEMMA WalletInv == WalletSpec => [](IInv /\ CountsInv /\ QuoteInv)
<1>1. WalletInit => IInv /\ CountsInv /\ QuoteInv
  BY InitInv, QuoteInit
<1>2. IInv /\ CountsInv /\ QuoteInv /\ [WalletNext]_walletVars
         => (IInv /\ CountsInv /\ QuoteInv)'
  BY NextInv, CountsNext, QuoteNext
<1> QED
  BY <1>1, <1>2, PTL DEF WalletSpec

(* Every variable keeps its type (WalletTypeOK), and no rate is held of a  *)
(* coin that was not asked for.                                            *)
THEOREM WalletTypes == WalletSpec => []WalletTypeOK
<1>1. IInv /\ CountsInv /\ QuoteInv => WalletTypeOK
  BY DEF IInv, Types, CountsInv, QuoteInv, WalletTypeOK
<1> QED
  BY <1>1, WalletInv, PTL

(* A page that says that there are more has been counted as a part of      *)
(* more, though the page, the count and the last wallet are read by three  *)
(* statements between which wallets are committed (MoreAreCounted).        *)
THEOREM MoreCounted == WalletSpec => []MoreAreCounted
<1>1. CountsInv => MoreAreCounted
  BY DEF CountsInv, MoreAreCounted
<1> QED
  BY <1>1, WalletInv, PTL

(* When the main converter is out and the fallback is not, all the coins   *)
(* that a request asks about get their rates, and a total is answered      *)
(* (OutageCovered), for any wallets, balances and sets of converters.      *)
THEOREM OutagesCovered == WalletSpec => []OutageCovered
<1>1. QuoteInv => OutageCovered
  BY DEF QuoteInv, OutageCovered
<1> QED
  BY <1>1, WalletInv, PTL

-----------------------------------------------------------------------------
(***************************************************************************)
(* The transactions.  Ids are given in order and never twice; a page holds *)
(* committed rows as they were read, in the order of their times and with  *)
(* ids below the cursor.                                                   *)
(***************************************************************************)
Inserted == {u \in Txs : txId[u] # 0}

TxTypes ==
    /\ place \in [Txs -> {"none", "timed", "open", "committed", "gone"}]
    /\ created \in [Txs -> Nat] /\ txId \in [Txs -> Nat]
    /\ status \in [Txs -> Lifecycle!Statuses]
    /\ step \in {"idle", "first", "count", "find", "rates", "answered", "failed"}
    /\ asked \in TxRequests \cup {Nobody}
    /\ from \in Nat /\ first \in Nat /\ txMore \in BOOLEAN
    /\ owed \subseteq Txs /\ seen \in [Txs -> 0 .. 2]

IdsInv ==
    \A t \in Txs :
        /\ txId[t] = 0 <=> place[t] \in {"none", "timed"}
        /\ txId[t] <= Cardinality(Inserted)
        /\ \A u \in Txs : txId[u] = txId[t] => u = t \/ txId[t] = 0

SelfInv ==
    \A t \in Txs :
        place[t] = "committed" /\ Model!IsSelfTx(Sent[t]) => status[t] = "decline"

StepInv ==
    /\ step # "idle" => asked \in TxRequests
    /\ step = "idle" => owed = {} /\ \A t \in Txs : seen[t] = 0
    /\ step \in {"count", "find"} => asked.kind = "list"
    /\ from # 0 => asked.kind = "list"
    /\ step \in {"idle", "first", "count", "find"} => txPage = <<>> /\ ~txMore
    /\ step \in {"rates", "answered"} /\ asked.kind # "list" => Len(txPage) = 1
    /\ txMore => Len(txPage) # 0

(* A row of the page, as it was read. *)
IsRead(r) ==
    /\ r.tx \in Txs /\ place[r.tx] = "committed"
    /\ r.status \in Lifecycle!Statuses /\ r = Row(r.tx, r.status)
    /\ BelowCursor(r.tx)
    /\ IsParty(r, asked.filter.direction) \/ (asked.kind = "send" /\ r.from = Me)
    /\ Model!IsSelfTx(Sent[r.tx]) => r.status = "decline"

TxPageInv ==
    /\ Len(txPage) \in Nat /\ DOMAIN txPage = 1 .. Len(txPage)
    /\ \A i \in DOMAIN txPage : IsRead(txPage[i])
    /\ \A i, j \in DOMAIN txPage :
          /\ txPage[i].tx = txPage[j].tx => i = j
          /\ i <= j => created[txPage[j].tx] <= created[txPage[i].tx]

TxQuoteInv ==
    /\ txQuoted.rates \subseteq txQuoted.coins
    /\ txQuoted.covered => txQuoted.coins \subseteq txQuoted.rates /\ step = "answered"
    /\ step = "failed" /\ asked.kind = "list" => Grouped

(***************************************************************************)
(* The walk.  Of a row whose id is in the order of the times: once shown   *)
(* it is behind the cursor; owed and not yet shown it is before it, so the *)
(* first statement has found it, or one before it, and a page that ends    *)
(* before it says that there are more.                                     *)
(***************************************************************************)
OnPage(t) == \E i \in DOMAIN txPage : txPage[i].tx = t

LastId == txPage[Len(txPage)].id

SeenInv ==
    \A t \in Txs :
        seen[t] # 0 =>
            /\ place[t] = "committed" /\ asked.kind = "list"
            /\ \/ Disordered(t)
               \/ seen[t] = 1 /\ (~BelowCursor(t) \/ (step = "answered" /\ OnPage(t)))

Ahead(t) ==
    /\ step \in {"first", "count", "find"} => BelowCursor(t)
    /\ step \in {"count", "find"} => first <= txId[t]
    /\ step \in {"rates", "answered"} =>
          (step = "rates" /\ OnPage(t)) \/ (txMore /\ txId[t] < LastId)

OwedInv ==
    \A t \in owed :
        /\ InListing(t)
        /\ asked.kind = "list" => Disordered(t) \/ seen[t] = 1 \/ Ahead(t)

TxIInv ==
    /\ TxTypes /\ IdsInv /\ SelfInv /\ StepInv /\ TxPageInv /\ TxQuoteInv
    /\ SeenInv /\ OwedInv

-----------------------------------------------------------------------------
(* The helpers *)

LEMMA MinFound ==
    ASSUME NEW S, IsFiniteSet(S), S \subseteq Nat, S # {}
    PROVE  Min(S) \in S /\ \A x \in S : Min(S) <= x
<1> DEFINE Good == {T \in SUBSET S : T = {} \/ \E m \in T : \A x \in T : m <= x}
<1>1. {} \in Good
  OBVIOUS
<1>2. ASSUME NEW T \in SUBSET S, NEW x \in T, T \ {x} \in Good PROVE T \in Good
  <2>1. CASE T \ {x} = {}
    BY <2>1
  <2>2. CASE T \ {x} # {}
    <3>1. PICK m \in T \ {x} : \A y \in T \ {x} : m <= y
      BY <1>2, <2>2
    <3>2. CASE m <= x
      BY <3>1, <3>2
    <3>3. CASE x < m
      <4>1. \A y \in T : x <= y
        BY <3>1, <3>3
      <4> QED
        BY <4>1
    <3> QED
      BY <3>2, <3>3
  <2> QED
    BY <2>1, <2>2
<1>3. S \in Good
  <2> HIDE DEF Good
  <2> QED
    BY <1>1, <1>2, ElementInduction
<1>4. \E m \in S : \A x \in S : m <= x
  BY <1>3
<1> QED
  BY <1>4 DEF Min

LEMMA MaxFound ==
    ASSUME NEW S, IsFiniteSet(S), S \subseteq Nat, S # {}
    PROVE  Max(S) \in S /\ \A x \in S : Max(S) >= x
<1> DEFINE Good == {T \in SUBSET S : T = {} \/ \E m \in T : \A x \in T : m >= x}
<1>1. {} \in Good
  OBVIOUS
<1>2. ASSUME NEW T \in SUBSET S, NEW x \in T, T \ {x} \in Good PROVE T \in Good
  <2>1. CASE T \ {x} = {}
    BY <2>1
  <2>2. CASE T \ {x} # {}
    <3>1. PICK m \in T \ {x} : \A y \in T \ {x} : m >= y
      BY <1>2, <2>2
    <3>2. CASE m >= x
      BY <3>1, <3>2
    <3>3. CASE x > m
      <4>1. \A y \in T : x >= y
        BY <3>1, <3>3
      <4> QED
        BY <4>1
    <3> QED
      BY <3>2, <3>3
  <2> QED
    BY <2>1, <2>2
<1>3. S \in Good
  <2> HIDE DEF Good
  <2> QED
    BY <1>1, <1>2, ElementInduction
<1>4. \E m \in S : \A x \in S : m >= x
  BY <1>3
<1> QED
  BY <1>4 DEF Max

LEMMA SeqOfLength ==
    ASSUME NEW n \in Nat, NEW s, DOMAIN s = 1 .. n, s = [i \in 1 .. n |-> s[i]]
    PROVE  Len(s) = n
<1>1. s \in Seq({s[i] : i \in 1 .. n})
  OBVIOUS
<1> QED
  BY <1>1

(* The table only grows, and its order of a row with the others is for     *)
(* good.                                                                   *)
TableGrows ==
    \A u \in Txs :
        /\ txId[u] # 0 => txId'[u] = txId[u] /\ created'[u] = created[u]
        /\ place[u] = "committed" => place'[u] = "committed"

LEMMA DisorderedStays ==
    ASSUME TxTypes, TxTypes', TableGrows, NEW t \in Txs, txId[t] # 0, Disordered(t)
    PROVE  Disordered(t)'
<1>1. PICK u \in Txs \ {t} :
         /\ txId[u] # 0
         /\ \/ txId[u] < txId[t] /\ created[u] >= created[t]
            \/ txId[u] > txId[t] /\ created[u] <= created[t]
  BY DEF Disordered
<1>2. /\ txId'[u] = txId[u] /\ created'[u] = created[u]
      /\ txId'[t] = txId[t] /\ created'[t] = created[t]
  BY <1>1 DEF TableGrows
<1> QED
  BY <1>1, <1>2 DEF Disordered

LEMMA RowStays ==
    ASSUME NEW t, NEW s, txId'[t] = txId[t], created'[t] = created[t]
    PROVE  Row(t, s)' = Row(t, s)
BY DEF Row

LEMMA CommittedHasId == ASSUME IdsInv, NEW t \in Txs, place[t] = "committed" PROVE txId[t] # 0
BY DEF IdsInv

(* A row that is read again has not changed but for its status. *)
LEMMA ReadStays ==
    ASSUME IdsInv, TableGrows, UNCHANGED <<asked, from>>, NEW r, IsRead(r)
    PROVE  IsRead(r)'
<1>1. txId[r.tx] # 0 /\ r.tx \in Txs
  BY CommittedHasId DEF IsRead
<1>2. /\ txId'[r.tx] = txId[r.tx] /\ created'[r.tx] = created[r.tx]
      /\ place'[r.tx] = "committed"
  BY <1>1 DEF TableGrows, IsRead
<1>3. Row(r.tx, r.status)' = Row(r.tx, r.status)
  BY <1>2, RowStays
<1> QED
  BY <1>2, <1>3 DEF IsRead, BelowCursor, IsParty

-----------------------------------------------------------------------------
(* The table *)

LEMMA TxTableStep ==
    ASSUME TxIInv, TxTypes', IdsInv', SelfInv', TableGrows, UNCHANGED <<requestVars, seen>>,
           owed' \subseteq owed, \A t \in owed' : InListing(t)'
    PROVE  TxIInv'
<1> USE DEF requestVars
<1>1. StepInv' /\ TxQuoteInv'
  BY DEF TxIInv, StepInv, TxQuoteInv, Grouped
<1>2. TxPageInv'
  <2>1. \A i \in DOMAIN txPage : IsRead(txPage[i])'
    BY ReadStays DEF TxIInv, TxPageInv
  <2>2. \A i \in DOMAIN txPage : created'[txPage[i].tx] = created[txPage[i].tx]
    BY CommittedHasId DEF TxIInv, TxPageInv, IsRead, TableGrows
  <2> QED
    BY <2>1, <2>2 DEF TxIInv, TxPageInv
<1>3. ASSUME NEW t \in Txs, place[t] = "committed"
      PROVE  /\ txId'[t] = txId[t] /\ BelowCursor(t)' = BelowCursor(t)
             /\ place'[t] = "committed"
             /\ Disordered(t) => Disordered(t)'
  <2>1. txId[t] # 0
    BY <1>3, CommittedHasId DEF TxIInv
  <2>2. txId'[t] = txId[t] /\ place'[t] = "committed"
    BY <1>3, <2>1 DEF TableGrows
  <2> QED
    BY <2>1, <2>2, DisorderedStays DEF TxIInv, BelowCursor
<1>4. SeenInv'
  BY <1>3 DEF TxIInv, SeenInv, OnPage
<1>5. OwedInv'
  <2> SUFFICES ASSUME NEW t \in owed', asked.kind = "list"
               PROVE  Disordered(t)' \/ seen[t] = 1 \/ Ahead(t)'
    BY DEF OwedInv
  <2>1. t \in Txs /\ place[t] = "committed"
    BY DEF TxIInv, TxTypes, OwedInv, InListing
  <2>2. Disordered(t) \/ seen[t] = 1 \/ Ahead(t)
    BY DEF TxIInv, OwedInv
  <2>3. Ahead(t)' = Ahead(t)
    BY <1>3, <2>1 DEF Ahead, OnPage, LastId
  <2> QED
    BY <1>3, <2>1, <2>2, <2>3
<1> QED
  BY <1>1, <1>2, <1>4, <1>5 DEF TxIInv

(* What does not touch a committed row leaves the listing as it was. *)
LEMMA ListingStays ==
    ASSUME TxIInv, TableGrows, UNCHANGED asked,
           \A u \in Txs : place[u] = "committed" => status'[u] = status[u],
           NEW t \in owed
    PROVE  InListing(t)'
<1>1. t \in Txs /\ place[t] = "committed" /\ InListing(t)
  BY DEF TxIInv, TxTypes, OwedInv, InListing
<1>2. txId[t] # 0
  BY <1>1, CommittedHasId DEF TxIInv
<1>3. /\ place'[t] = "committed" /\ status'[t] = status[t]
      /\ txId'[t] = txId[t] /\ created'[t] = created[t]
  BY <1>1, <1>2 DEF TableGrows
<1>4. Row(t, status[t])' = Row(t, status[t])
  BY <1>3 DEF Row
<1> QED
  BY <1>1, <1>3, <1>4 DEF InListing, Passes, IsParty

LEMMA TimeStep == ASSUME TxIInv, NEW t \in Txs, TakeTime(t) PROVE TxIInv'
<1>1. /\ place[t] = "none" /\ place' = [place EXCEPT ![t] = "timed"]
      /\ UNCHANGED <<txId, status, requestVars, owed, seen>>
  BY DEF TakeTime
<1>2. PICK pause \in {0, 1} :
         created' = [created EXCEPT ![t] = Max({1} \cup Range(created)) + pause]
  BY DEF TakeTime
<1>3. Max({1} \cup Range(created)) \in Nat
  <2>1. {1} \cup Range(created) \subseteq Nat
    BY DEF TxIInv, TxTypes, Range
  <2>2. IsFiniteSet({1} \cup Range(created))
    <3>1. created \in Surjection(Txs, Range(created))
      BY DEF TxIInv, TxTypes, Range, Surjection
    <3>2. IsFiniteSet(Range(created))
      BY <3>1, TxsAssumption, FS_Surjection
    <3> QED
      BY <3>2, FS_Singleton, FS_Union
  <2> HIDE DEF Range
  <2> QED
    BY <2>1, <2>2, MaxFound
<1>4. TxTypes'
  BY <1>1, <1>2, <1>3 DEF TxIInv, TxTypes, requestVars
<1>5. IdsInv' /\ SelfInv' /\ TableGrows
  BY <1>1, <1>2 DEF TxIInv, TxTypes, IdsInv, SelfInv, TableGrows, Inserted
<1>6. UNCHANGED asked /\ \A u \in Txs : place[u] = "committed" => status'[u] = status[u]
  BY <1>1 DEF requestVars
<1> QED
  BY <1>1, <1>4, <1>5, <1>6, ListingStays, TxTableStep

LEMMA InsertedFinite == IsFiniteSet(Inserted) /\ Cardinality(Inserted) \in Nat
<1>1. Inserted \subseteq Txs
  BY DEF Inserted
<1> QED
  BY <1>1, TxsAssumption, FS_Subset, FS_CardinalityType

LEMMA InsertStep == ASSUME TxIInv, NEW t \in Txs, InsertTx(t) PROVE TxIInv'
<1> DEFINE n == Cardinality(Inserted)
<1>1. /\ place[t] = "timed" /\ place' = [place EXCEPT ![t] = "open"]
      /\ txId' = [txId EXCEPT ![t] = n + 1]
      /\ UNCHANGED <<created, status, requestVars, owed, seen>>
  BY DEF InsertTx, Inserted
<1>2. n \in Nat /\ txId[t] = 0
  BY <1>1, InsertedFinite DEF TxIInv, IdsInv
<1>3. Cardinality(Inserted') = n + 1
  <2>1. Inserted' = Inserted \cup {t}
    <3> HIDE DEF n
    <3> QED
      BY <1>1, <1>2 DEF Inserted, TxIInv, TxTypes
  <2>2. t \notin Inserted
    BY <1>2 DEF Inserted
  <2> QED
    BY <2>1, <2>2, InsertedFinite, FS_AddElement
<1> HIDE DEF n
<1>4. TxTypes'
  BY <1>1, <1>2 DEF TxIInv, TxTypes, requestVars
<1>5. IdsInv'
  <2>1. \A u \in Txs : txId[u] \in Nat /\ txId[u] <= n
    BY DEF TxIInv, TxTypes, IdsInv, n
  <2> QED
    BY <1>1, <1>2, <1>3, <2>1 DEF TxIInv, TxTypes, IdsInv
<1>6. SelfInv' /\ TableGrows
  BY <1>1, <1>2 DEF TxIInv, TxTypes, SelfInv, TableGrows
<1>7. UNCHANGED asked /\ \A u \in Txs : place[u] = "committed" => status'[u] = status[u]
  BY <1>1 DEF requestVars
<1> QED
  BY <1>1, <1>4, <1>5, <1>6, <1>7, ListingStays, TxTableStep

LEMMA EndsStep == ASSUME TxIInv, NEW t \in Txs, CommitTx(t) \/ RollBackTx(t) PROVE TxIInv'
<1>1. /\ place[t] = "open" /\ UNCHANGED <<created, txId, requestVars, owed, seen>>
      /\ place' = [place EXCEPT ![t] = "committed"] \/ place' = [place EXCEPT ![t] = "gone"]
  BY DEF CommitTx, RollBackTx
<1>2. /\ status' \in [Txs -> Lifecycle!Statuses]
      /\ \A u \in Txs \ {t} : status'[u] = status[u]
      /\ place'[t] = "committed" => status'[t] \in FirstStatus[t]
  <2>1. CASE CommitTx(t)
    <3>1. PICK s \in FirstStatus[t] :
             <<"absent", s>> \in Lifecycle!Edges /\ status' = [status EXCEPT ![t] = s]
      BY <2>1 DEF CommitTx
    <3>2. s \in Lifecycle!Statuses
      BY <3>1 DEF Lifecycle!Edges, Lifecycle!Statuses
    <3> QED
      BY <3>1, <3>2 DEF TxIInv, TxTypes
  <2>2. CASE RollBackTx(t)
    BY <2>2 DEF RollBackTx, TxIInv, TxTypes
  <2> QED
    BY <2>1, <2>2
<1>3. TxTypes'
  BY <1>1, <1>2 DEF TxIInv, TxTypes, requestVars
<1>4. IdsInv' /\ TableGrows
  BY <1>1 DEF TxIInv, TxTypes, IdsInv, TableGrows, Inserted
<1>5. SelfInv'
  BY <1>1, <1>2, SentAssumption DEF TxIInv, TxTypes, SelfInv
<1>6. UNCHANGED asked /\ \A u \in Txs : place[u] = "committed" => status'[u] = status[u]
  BY <1>1, <1>2 DEF requestVars
<1> QED
  BY <1>1, <1>3, <1>4, <1>5, <1>6, ListingStays, TxTableStep

LEMMA SettleStep == ASSUME TxIInv, NEW t \in Txs, Settle(t) PROVE TxIInv'
<1>1. PICK s \in Lifecycle!Statuses :
         <<status[t], s>> \in Lifecycle!Edges /\ status' = [status EXCEPT ![t] = s]
  BY DEF Settle
<1>2. /\ UNCHANGED <<place, created, txId, requestVars, seen>>
      /\ owed' = {u \in owed : InListing(u)'}
  BY DEF Settle
<1>3. TxTypes'
  BY <1>1, <1>2 DEF TxIInv, TxTypes, requestVars
<1>4. IdsInv' /\ TableGrows
  BY <1>2 DEF TxIInv, IdsInv, TableGrows, Inserted
<1>5. SelfInv'
  <2>1. status[t] # "decline"
    BY <1>1 DEF Lifecycle!Edges
  <2> QED
    BY <1>1, <1>2, <2>1 DEF TxIInv, TxTypes, SelfInv
<1>6. owed' \subseteq owed /\ \A u \in owed' : InListing(u)'
  BY <1>2
<1> QED
  BY <1>2, <1>3, <1>4, <1>5, <1>6, TxTableStep

-----------------------------------------------------------------------------
(* The first rows are numbered as they come. *)
LEMMA NumbersGiven ==
    /\ \A t \in Txs : Number(t) \in 0 .. Len(Earlier)
    /\ \A t \in Txs : Number(t) = 0 <=> t \notin Range(Earlier)
    /\ \A t, u \in Txs : Number(t) = Number(u) => t = u \/ Number(t) = 0
    /\ Cardinality({t \in Txs : Number(t) # 0}) = Len(Earlier) /\ Len(Earlier) \in Nat
<1> DEFINE N == Len(Earlier)
<1>1. N \in Nat /\ DOMAIN Earlier = 1 .. N /\ Earlier \in [1 .. N -> Txs] /\ IsInjective(Earlier)
  BY EarlierAssumption
<1>2. ASSUME NEW t \in Txs
      PROVE  /\ t \notin Range(Earlier) => Number(t) = 0
             /\ t \in Range(Earlier) => Number(t) \in 1 .. N /\ Earlier[Number(t)] = t
  <2>1. t \in Range(Earlier) => \E i \in DOMAIN Earlier : Earlier[i] = t
    BY DEF Range
  <2> QED
    BY <1>1, <2>1 DEF Number
<1>3. {t \in Txs : Number(t) # 0} = Range(Earlier)
  BY <1>1, <1>2 DEF Range
<1>4. Cardinality(Range(Earlier)) = N
  <2>1. Earlier \in Surjection(1 .. N, Range(Earlier))
    BY <1>1 DEF Surjection, Range
  <2>2. Earlier \in Injection(1 .. N, Range(Earlier))
    BY <1>1, <2>1 DEF Surjection, Injection
  <2>3. IsFiniteSet(1 .. N) /\ Cardinality(1 .. N) = N
    BY <1>1, FS_Interval
  <2> QED
    BY <2>1, <2>2, <2>3, FS_Surjection
<1>5. ASSUME NEW t \in Txs
      PROVE  Number(t) \in 0 .. N /\ (Number(t) = 0 <=> t \notin Range(Earlier))
  <2> HIDE DEF N
  <2> QED
    BY <1>1, <1>2
<1>6. ASSUME NEW t \in Txs, NEW u \in Txs, Number(t) = Number(u)
      PROVE  t = u \/ Number(t) = 0
  <2> HIDE DEF N
  <2> QED
    BY <1>2, <1>6
<1> QED
  BY <1>1, <1>3, <1>4, <1>5, <1>6

LEMMA TxInitInv == TxInit => TxIInv
<1> SUFFICES ASSUME TxInit PROVE TxIInv
  OBVIOUS
<1>1. /\ place = [t \in Txs |-> IF t \in Range(Earlier) THEN "committed" ELSE "none"]
      /\ created = [t \in Txs |-> Number(t)] /\ txId = [t \in Txs |-> Number(t)]
      /\ status \in [Txs -> Lifecycle!Statuses]
      /\ \A t \in Txs : t \in Range(Earlier) => status[t] \in FirstStatus[t]
      /\ step = "idle" /\ asked = Nobody /\ from = 0 /\ first = 0
      /\ txPage = <<>> /\ txMore = FALSE /\ txQuoted = NoTxQuote
      /\ owed = {} /\ seen = [t \in Txs |-> 0]
  BY DEF TxInit
<1>2. TxTypes
  <2>1. \A t \in Txs : Number(t) \in Nat
    BY NumbersGiven
  <2>2. created \in [Txs -> Nat] /\ txId \in [Txs -> Nat]
    BY <1>1, <2>1
  <2>3. seen \in [Txs -> 0 .. 2]
    BY <1>1
  <2>4. place \in [Txs -> {"none", "timed", "open", "committed", "gone"}]
    BY <1>1
  <2> QED
    BY <1>1, <2>2, <2>3, <2>4 DEF TxTypes
<1>3. IdsInv
  <2>1. Inserted = {t \in Txs : Number(t) # 0}
    BY <1>1 DEF Inserted
  <2>2. \A t \in Txs :
          txId[t] = Number(t) /\ (place[t] \in {"none", "timed"} <=> t \notin Range(Earlier))
    BY <1>1
  <2> QED
    BY <2>1, <2>2, NumbersGiven DEF IdsInv
<1>4. SelfInv
  BY <1>1, SentAssumption DEF SelfInv
<1>5. StepInv /\ TxPageInv /\ SeenInv /\ OwedInv
  BY <1>1 DEF StepInv, TxPageInv, SeenInv, OwedInv
<1>6. TxQuoteInv
  BY <1>1 DEF TxQuoteInv, NoTxQuote
<1> QED
  BY <1>2, <1>3, <1>4, <1>5, <1>6 DEF TxIInv

-----------------------------------------------------------------------------
(* The statements of a request *)

LEMMA TableSame ==
    ASSUME TxIInv, UNCHANGED tableVars
    PROVE  /\ IdsInv' /\ SelfInv' /\ TableGrows
           /\ \A t : Disordered(t)' = Disordered(t)
           /\ \A t, s : Row(t, s)' = Row(t, s)
<1> USE DEF tableVars
<1>1. IdsInv' /\ SelfInv' /\ TableGrows
  BY DEF TxIInv, IdsInv, SelfInv, TableGrows, Inserted
<1>2. \A t : Disordered(t)' = Disordered(t)
  BY DEF Disordered
<1>3. \A t, s : Row(t, s)' = Row(t, s)
  BY DEF Row
<1> QED
  BY <1>1, <1>2, <1>3

LEMMA ListingSame ==
    ASSUME UNCHANGED <<tableVars, asked>>, NEW t
    PROVE  InListing(t)' = InListing(t)
BY DEF tableVars, InListing, Row, Passes, IsParty

LEMMA PageSame ==
    ASSUME TxIInv, UNCHANGED <<tableVars, asked, from, txPage>>
    PROVE  TxPageInv'
<1>1. \A i \in DOMAIN txPage : IsRead(txPage[i])'
  BY TableSame, ReadStays DEF TxIInv, TxPageInv
<1> QED
  BY <1>1 DEF TxIInv, TxPageInv, tableVars

LEMMA ReadNow ==
    ASSUME TxIInv, UNCHANGED <<tableVars, asked, from>>, NEW t \in Txs, BelowCursor(t),
           place[t] = "committed",
           \/ IsParty(Row(t, status[t]), asked.filter.direction)
           \/ asked.kind = "send" /\ Sent[t].from = Me
    PROVE  IsRead(Row(t, status[t]))'
<1>1. PICK r : r = Row(t, status[t])
  OBVIOUS
<1>2. r.tx = t /\ r.status = status[t] /\ r.from = Sent[t].from
  BY <1>1 DEF Row
<1>3. status[t] \in Lifecycle!Statuses /\ (Model!IsSelfTx(Sent[t]) => status[t] = "decline")
  BY DEF TxIInv, TxTypes, SelfInv
<1>4. IsRead(r)
  BY <1>1, <1>2, <1>3 DEF IsRead
<1>5. IsRead(r)'
  BY <1>4, TableSame, ReadStays DEF TxIInv
<1>6. Row(t, status[t])' = r
  BY <1>1 DEF Row, tableVars
<1> QED
  BY <1>5, <1>6

LEMMA FirstStep == ASSUME TxIInv, SelectFirst PROVE TxIInv'
<1>1. /\ step = "first" /\ asked.kind = "list"
      /\ UNCHANGED <<tableVars, asked, from, txPage, txMore, txQuoted, owed, seen>>
  BY DEF SelectFirst
<1> DEFINE Found == {t \in Txs : Listed1(t)}
           ids == {txId[t] : t \in Found}
<1>2. CASE Found # {}
  <2>1. step' = "count" /\ first' = Min(ids)
    BY <1>2 DEF SelectFirst
  <2>2. ids \subseteq Nat /\ ids # {}
    BY <1>2 DEF TxIInv, TxTypes
  <2>3. IsFiniteSet(ids)
    <3>1. IsFiniteSet(Found)
      BY TxsAssumption, FS_Subset
    <3>2. [t \in Found |-> txId[t]] \in Surjection(Found, ids)
      BY DEF Surjection
    <3> QED
      BY <3>1, <3>2, FS_Surjection
  <2>4. first' \in Nat /\ \A t \in Found : first' <= txId[t]
    <3> HIDE DEF ids
    <3>1. Min(ids) \in ids /\ \A x \in ids : Min(ids) <= x
      BY <2>2, <2>3, MinFound
    <3>2. \A t \in Found : txId[t] \in ids
      BY DEF ids
    <3> QED
      BY <2>1, <2>2, <3>1, <3>2
  <2>5. TxTypes' /\ StepInv' /\ TxQuoteInv'
    BY <1>1, <2>1, <2>4 DEF TxIInv, TxTypes, StepInv, TxQuoteInv, tableVars
  <2>6. SeenInv'
    BY <1>1, <2>1, TableSame DEF TxIInv, SeenInv, BelowCursor, tableVars
  <2>7. OwedInv'
    <3>1. ASSUME NEW t \in owed, Ahead(t) PROVE Ahead(t)'
      <4>1. t \in Found /\ BelowCursor(t)
        BY <1>1, <3>1 DEF TxIInv, TxTypes, OwedInv, Listed1, Ahead
      <4> QED
        BY <1>1, <2>1, <2>4, <4>1 DEF Ahead, BelowCursor, tableVars
    <3> QED
      BY <1>1, <3>1, TableSame, ListingSame DEF TxIInv, OwedInv
  <2> QED
    BY <1>1, <2>5, <2>6, <2>7, TableSame, PageSame DEF TxIInv
<1>3. CASE Found = {}
  <2>1. step' = "rates" /\ first' = 0
    BY <1>3 DEF SelectFirst
  <2>2. TxTypes' /\ StepInv' /\ TxQuoteInv'
    BY <1>1, <2>1 DEF TxIInv, TxTypes, StepInv, TxQuoteInv, tableVars
  <2>3. SeenInv'
    BY <1>1, <2>1, TableSame DEF TxIInv, SeenInv, BelowCursor, tableVars
  <2>4. OwedInv'
    <3>1. ASSUME NEW t \in owed, Ahead(t) PROVE FALSE
      <4>1. t \in Found
        BY <1>1, <3>1 DEF TxIInv, TxTypes, OwedInv, Listed1, Ahead
      <4> QED
        BY <1>3, <4>1
    <3> QED
      BY <1>1, <3>1, TableSame, ListingSame DEF TxIInv, OwedInv
  <2> QED
    BY <1>1, <2>2, <2>3, <2>4, TableSame, PageSame DEF TxIInv
<1> QED
  BY <1>2, <1>3

LEMMA CountTxsStep == ASSUME TxIInv, CountTxs PROVE TxIInv'
<1>1. /\ step = "count" /\ step' \in {"find", "rates"}
      /\ step' = "rates" => ~\E t \in Txs : InListing(t)
      /\ UNCHANGED <<tableVars, asked, from, first, txPage, txMore, txQuoted, owed, seen>>
  BY DEF CountTxs
<1>2. TxTypes' /\ StepInv' /\ TxQuoteInv'
  BY <1>1 DEF TxIInv, TxTypes, StepInv, TxQuoteInv, tableVars
<1>3. SeenInv'
  BY <1>1, TableSame DEF TxIInv, SeenInv, BelowCursor, tableVars
<1>4. OwedInv'
  <2>1. ASSUME NEW t \in owed, Ahead(t) PROVE Ahead(t)'
    <3>1. InListing(t) /\ t \in Txs
      BY DEF TxIInv, TxTypes, OwedInv
    <3> QED
      BY <1>1, <2>1, <3>1 DEF Ahead, BelowCursor, tableVars
  <2> QED
    BY <1>1, <2>1, TableSame, ListingSame DEF TxIInv, OwedInv
<1> QED
  BY <1>1, <1>2, <1>3, <1>4, TableSame, PageSame DEF TxIInv

(* A page, as a sequence of rows. *)
LEMMA PageFound ==
    ASSUME NEW p \in SeqOf(Txs, Cardinality(Txs)), NEW n, IsTxPage(p, n)
    PROVE  /\ Len(p) \in Nat /\ DOMAIN p = 1 .. Len(p) /\ p \in [1 .. Len(p) -> Txs]
           /\ IsInjective(p) /\ \A i \in DOMAIN p : Listed1(p[i])
           /\ \A i \in DOMAIN p : \A j \in 1 .. i : created[p[j]] >= created[p[i]]
           /\ \A t \in Txs :
                 Listed1(t) => \/ \E i \in DOMAIN p : p[i] = t
                               \/ Len(p) # 0 /\ created[p[Len(p)]] >= created[t]
<1>1. PICK m \in 0 .. Cardinality(Txs) : p \in [1 .. m -> Txs]
  BY DEF SeqOf
<1>2. m \in Nat
  BY <1>1, TxsAssumption, FS_CardinalityType
<1>3. p \in Seq(Txs) /\ Len(p) = m /\ DOMAIN p = 1 .. m
  BY <1>1, <1>2
<1> DEFINE Found == {t \in Txs : Listed1(t)}
<1>4. /\ IsInjective(p) /\ Range(p) \subseteq Found
      /\ Range(p) # Found => n # 0 /\ Len(p) = n
      /\ \A i \in DOMAIN p : \A j \in 1 .. i : created[p[j]] >= created[p[i]]
      /\ \A i \in DOMAIN p, t \in Found \ Range(p) : created[p[i]] >= created[t]
  BY DEF IsTxPage
<1>5. \A i \in DOMAIN p : Listed1(p[i])
  BY <1>4 DEF Range
<1>6. ASSUME NEW t \in Txs, Listed1(t), ~\E i \in DOMAIN p : p[i] = t
      PROVE  Len(p) # 0 /\ created[p[Len(p)]] >= created[t]
  <2>1. t \in Found \ Range(p)
    BY <1>6 DEF Range
  <2>2. Len(p) # 0
    BY <1>4, <2>1
  <2>3. Len(p) \in DOMAIN p
    BY <1>2, <1>3, <2>2
  <2> QED
    BY <1>4, <2>1, <2>2, <2>3
<1> QED
  BY <1>1, <1>2, <1>3, <1>4, <1>5, <1>6

LEMMA FindStep == ASSUME TxIInv, FindTxs PROVE TxIInv'
<1>1. PICK p \in SeqOf(Txs, Cardinality(Txs)) :
         /\ IsTxPage(p, asked.limit)
         /\ txPage' = [i \in DOMAIN p |-> Row(p[i], status[p[i]])]
         /\ txMore' = (p # <<>> /\ first < txId[p[Len(p)]])
  BY DEF FindTxs
<1>2. /\ step = "find" /\ step' = "rates"
      /\ UNCHANGED <<tableVars, asked, from, first, txQuoted, owed, seen>>
  BY DEF FindTxs
<1>3. /\ Len(p) \in Nat /\ DOMAIN p = 1 .. Len(p) /\ p \in [1 .. Len(p) -> Txs]
      /\ IsInjective(p) /\ \A i \in DOMAIN p : Listed1(p[i])
      /\ \A i \in DOMAIN p : \A j \in 1 .. i : created[p[j]] >= created[p[i]]
  BY <1>1, PageFound
<1>4. DOMAIN txPage' = 1 .. Len(p) /\ Len(txPage') = Len(p)
  <2>1. DOMAIN txPage' = 1 .. Len(p) /\ txPage' = [i \in 1 .. Len(p) |-> txPage'[i]]
    BY <1>1, <1>3
  <2> QED
    BY <1>3, <2>1, SeqOfLength
<1>5. \A i \in DOMAIN p : txPage'[i].tx = p[i] /\ txPage'[i].id = txId[p[i]]
  BY <1>1 DEF Row
<1>6. txMore' => Len(p) # 0
  <2>1. Len(p) = 0 => p = <<>>
    BY <1>3
  <2> QED
    BY <1>1, <2>1
<1>7. asked.kind = "list"
  BY <1>2 DEF TxIInv, StepInv
<1>8. TxTypes' /\ StepInv' /\ TxQuoteInv'
  <2>1. txMore' \in BOOLEAN
    BY <1>1
  <2> QED
    BY <1>2, <1>4, <1>6, <1>7, <2>1 DEF TxIInv, TxTypes, StepInv, TxQuoteInv, tableVars
<1>9. TxPageInv'
  <2>1. ASSUME NEW i \in DOMAIN p PROVE IsRead(txPage[i])'
    <3>1. /\ p[i] \in Txs /\ place[p[i]] = "committed" /\ BelowCursor(p[i])
          /\ IsParty(Row(p[i], status[p[i]]), asked.filter.direction)
      BY <1>3, <2>1 DEF Listed1, InListing, Passes
    <3>2. PICK t : t = p[i]
      OBVIOUS
    <3>3. IsRead(Row(t, status[t]))'
      BY <1>2, <3>1, <3>2, ReadNow
    <3>4. txPage'[i] = Row(t, status[t])'
      BY <1>1, <1>2, <2>1, <3>2, TableSame DEF tableVars
    <3> QED
      BY <3>3, <3>4
  <2>2. \A i, j \in DOMAIN p : p[i] = p[j] => i = j
    BY <1>3 DEF IsInjective
  <2>3. \A i, j \in DOMAIN p : i <= j => created[p[j]] <= created[p[i]]
    <3>1. \A i \in DOMAIN p : created[p[i]] \in Nat
      BY <1>3 DEF TxIInv, TxTypes
    <3> QED
      BY <1>3, <3>1
  <2> QED
    BY <1>2, <1>3, <1>4, <1>5, <2>1, <2>2, <2>3 DEF TxPageInv, tableVars
<1>10. SeenInv'
  BY <1>2, TableSame DEF TxIInv, SeenInv, BelowCursor, tableVars
<1>11. OwedInv'
  <2>1. ASSUME NEW t \in owed, Ahead(t), ~Disordered(t) PROVE Ahead(t)'
    <3>1. Listed1(t) /\ first <= txId[t] /\ t \in Txs /\ place[t] = "committed"
      BY <1>2, <2>1 DEF TxIInv, TxTypes, OwedInv, Listed1, Ahead, InListing
    <3>2. CASE \E i \in DOMAIN p : p[i] = t
      BY <1>2, <1>3, <1>4, <1>5, <3>2 DEF Ahead, OnPage
    <3>3. CASE ~\E i \in DOMAIN p : p[i] = t
      <4> DEFINE l == p[Len(p)]
      <4>1. Len(p) # 0 /\ created[l] >= created[t]
        BY <1>1, <3>1, <3>3, PageFound
      <4>2. Len(p) \in DOMAIN p /\ l \in Txs /\ l # t
        BY <1>3, <3>3, <4>1
      <4>3. place[l] = "committed"
        BY <1>3, <4>2 DEF Listed1, InListing
      <4>4. txId[l] # 0 /\ txId[t] # 0 /\ txId[l] # txId[t]
        BY <3>1, <4>2, <4>3 DEF TxIInv, IdsInv
      <4>5. txId[t] < txId[l]
        BY <2>1, <3>1, <4>1, <4>2, <4>4 DEF Disordered, TxIInv, TxTypes
      <4>6. txMore'
        <5>1. p # <<>>
          BY <4>1
        <5>2. first < txId[l]
          BY <3>1, <4>2, <4>5 DEF TxIInv, TxTypes
        <5> QED
          BY <1>1, <5>1, <5>2
      <4>7. LastId' = txId[l]
        BY <1>4, <1>5, <4>2 DEF LastId
      <4> QED
        BY <1>2, <4>5, <4>6, <4>7 DEF Ahead, tableVars
    <3> QED
      BY <3>2, <3>3
  <2> QED
    BY <1>2, <2>1, TableSame, ListingSame DEF TxIInv, OwedInv
<1> QED
  BY <1>2, <1>8, <1>9, <1>10, <1>11, TableSame DEF TxIInv

(* One transaction of a request, or none. *)
LEMMA OneStep == ASSUME TxIInv, GetTx \/ ReturnSent PROVE TxIInv'
<1>1. /\ step = "first" /\ asked.kind # "list"
      /\ UNCHANGED <<tableVars, asked, from, first, txMore, txQuoted, owed, seen>>
      /\ step' \in {"rates", "failed"}
  BY DEF GetTx, ReturnSent
<1>2. \/ txPage' = <<>> /\ step' = "failed"
      \/ \E t \in Txs : /\ txPage' = <<Row(t, status[t])>> /\ place[t] = "committed"
                        /\ \/ IsParty(Row(t, status[t]), asked.filter.direction)
                           \/ asked.kind = "send" /\ Sent[t].from = Me
  BY DEF GetTx, ReturnSent, InListing, Passes
<1>3. Len(txPage') = 1 \/ (txPage' = <<>> /\ step' = "failed")
  BY <1>2
<1>4. TxTypes' /\ StepInv' /\ TxQuoteInv'
  BY <1>1, <1>3 DEF TxIInv, TxTypes, StepInv, TxQuoteInv, tableVars
<1>5. TxPageInv'
  <2>1. CASE txPage' = <<>>
    BY <2>1 DEF TxPageInv
  <2>2. ASSUME NEW t \in Txs, txPage' = <<Row(t, status[t])>>, place[t] = "committed",
               \/ IsParty(Row(t, status[t]), asked.filter.direction)
               \/ asked.kind = "send" /\ Sent[t].from = Me
        PROVE  TxPageInv'
    <3>1. BelowCursor(t)
      BY <1>1 DEF TxIInv, StepInv, BelowCursor
    <3>2. IsRead(Row(t, status[t]))'
      BY <1>1, <2>2, <3>1, ReadNow
    <3>3. Row(t, status[t])' = Row(t, status[t])
      BY <1>1, TableSame DEF tableVars
    <3>4. Len(txPage') = 1 /\ DOMAIN txPage' = 1 .. 1 /\ txPage'[1] = Row(t, status[t])'
      BY <2>2, <3>3
    <3>5. created'[txPage'[1].tx] <= created'[txPage'[1].tx]
      <4>1. txPage'[1].tx = t
        BY <2>2 DEF Row
      <4> QED
        BY <1>1, <4>1 DEF TxIInv, TxTypes, tableVars
    <3>6. \A i \in DOMAIN txPage' : i = 1
      BY <3>4
    <3> QED
      BY <3>2, <3>4, <3>5, <3>6 DEF TxPageInv
  <2> QED
    BY <1>2, <2>1, <2>2
<1>6. SeenInv' /\ OwedInv'
  BY <1>1, TableSame, ListingSame DEF TxIInv, SeenInv, OwedInv, tableVars
<1> QED
  BY <1>1, <1>4, <1>5, <1>6, TableSame DEF TxIInv

-----------------------------------------------------------------------------
(* Rates *)

LEMMA SingleQuoted ==
    ASSUME TxIInv, step = "rates", NEW conv, NEW fiat, NEW answers, asked.kind # "list"
    PROVE  /\ SingleQuote(conv, fiat, answers) \subseteq CoinsOfTxs
           /\ Covered(conv, CoinsOfTxs, fiat, answers) =>
                 CoinsOfTxs \subseteq SingleQuote(conv, fiat, answers)
<1> DEFINE coin == txPage[1].coin
           quote == GetRateDefaultFiat(conv, coin, fiat, answers)
<1>1. CoinsOfTxs = {coin}
  <2>1. DOMAIN txPage = 1 .. 1
    BY DEF TxIInv, StepInv, TxPageInv
  <2>2. {txPage[i].coin : i \in DOMAIN txPage} = {coin}
    BY <2>1
  <2> QED
    BY <2>2 DEF CoinsOfTxs
<1>2. quote.rates \subseteq {coin}
  BY RateGets
<1>3. Covered(conv, {coin}, fiat, answers) => quote.rates = {coin} /\ quote.error = "none"
  BY RateCovers DEF Result
<1>4. SingleQuote(conv, fiat, answers) = IF quote.error = "none" THEN quote.rates ELSE {}
  BY DEF SingleQuote
<1> HIDE DEF quote, coin
<1> QED
  BY <1>1, <1>2, <1>3, <1>4

LEMMA PageQuoted ==
    ASSUME TxIInv, NEW conv, NEW fiat, NEW answers, asked.kind = "list"
    PROVE  /\ TxQuote(conv, fiat, answers) \subseteq CoinsOfTxs
           /\ Covered(conv, CoinsOfTxs, fiat, answers) =>
                 /\ CoinsOfTxs \subseteq TxQuote(conv, fiat, answers)
                 /\ ~GroupsPanic(TxQuote(conv, fiat, answers))
<1> DEFINE quote == GetMultiRateDefaultFiat(conv, CoinsOfTxs, fiat, answers)
           rates == TxQuote(conv, fiat, answers)
<1>1. rates = IF txPage # <<>> /\ quote.error = "none" THEN quote.rates ELSE {}
  BY DEF TxQuote
<1>2. quote.rates \subseteq CoinsOfTxs
  BY MultiRateGets
<1>3. txPage # <<>> => DefaultCoin \in CoinsOfTxs /\ GroupsNeed(txPage) \subseteq CoinsOfTxs
  BY DEF CoinsOfTxs, GroupsNeed
<1>4. txPage = <<>> => CoinsOfTxs = {}
  BY DEF CoinsOfTxs
<1>5. CoinsOfTxs # {} /\ Covered(conv, CoinsOfTxs, fiat, answers) =>
         quote.rates = CoinsOfTxs /\ quote.error = "none"
  BY MultiRateCovers DEF Result
<1> HIDE DEF quote, rates
<1>6. rates \subseteq CoinsOfTxs
  BY <1>1, <1>2
<1>7. Covered(conv, CoinsOfTxs, fiat, answers) => CoinsOfTxs \subseteq rates
  BY <1>1, <1>3, <1>4, <1>5
<1>8. CoinsOfTxs \subseteq rates => ~GroupsPanic(rates)
  BY <1>3 DEF GroupsPanic
<1> QED
  BY <1>6, <1>7, <1>8 DEF rates

LEMMA RepresentTxStep ==
    ASSUME TxIInv, step = "rates", NEW conv, NEW fiat, NEW answers,
           RepresentTx(conv, fiat, answers)
    PROVE  TxIInv'
<1> DEFINE rates == SingleQuote(conv, fiat, answers)
<1>1. /\ asked.kind # "list" /\ step' = "answered"
      /\ UNCHANGED <<tableVars, asked, from, first, txPage, txMore, owed, seen>>
      /\ txQuoted' = [coins |-> CoinsOfTxs, rates |-> rates,
                      covered |-> Covered(conv, CoinsOfTxs, fiat, answers)]
  BY DEF RepresentTx, TxQuoted
<1>2. /\ rates \subseteq CoinsOfTxs
      /\ Covered(conv, CoinsOfTxs, fiat, answers) => CoinsOfTxs \subseteq rates
  BY <1>1, SingleQuoted
<1> HIDE DEF rates
<1>3. TxTypes' /\ StepInv' /\ TxQuoteInv'
  BY <1>1, <1>2 DEF TxIInv, TxTypes, StepInv, TxQuoteInv, tableVars
<1>4. SeenInv' /\ OwedInv'
  BY <1>1, TableSame, ListingSame DEF TxIInv, SeenInv, OwedInv, tableVars
<1> QED
  BY <1>1, <1>3, <1>4, TableSame, PageSame DEF TxIInv

(* A page has each row once. *)
LEMMA SeenAfter ==
    ASSUME TxIInv, NEW t \in Txs
    PROVE  Min({2, seen[t] + Cardinality({i \in DOMAIN txPage : txPage[i].tx = t})})
              = IF ~OnPage(t) THEN seen[t] ELSE IF seen[t] = 0 THEN 1 ELSE 2
<1> DEFINE places == {i \in DOMAIN txPage : txPage[i].tx = t}
           n == seen[t] + Cardinality(places)
<1>1. seen[t] \in 0 .. 2
  BY DEF TxIInv, TxTypes
<1>2. Cardinality(places) = IF OnPage(t) THEN 1 ELSE 0
  <2>1. CASE ~OnPage(t)
    <3>1. places = {}
      BY <2>1 DEF OnPage
    <3> QED
      BY <2>1, <3>1, FS_EmptySet
  <2>2. CASE OnPage(t)
    <3>1. PICK i \in DOMAIN txPage : txPage[i].tx = t
      BY <2>2 DEF OnPage
    <3>2. places = {i}
      BY <3>1 DEF TxIInv, TxPageInv
    <3> QED
      BY <2>2, <3>2, FS_Singleton
  <2> QED
    BY <2>1, <2>2
<1> HIDE DEF places
<1>3. n \in Nat
  BY <1>1, <1>2
<1>4. Min({2, n}) \in {2, n} /\ Min({2, n}) <= 2 /\ Min({2, n}) <= n
  <2> HIDE DEF n
  <2>1. IsFiniteSet({2, n}) /\ {2, n} \subseteq Nat /\ {2, n} # {}
    <3>1. {2, n} = {2} \cup {n}
      OBVIOUS
    <3>2. IsFiniteSet({2} \cup {n})
      BY FS_Singleton, FS_AddElement
    <3> QED
      BY <1>3, <3>1, <3>2
  <2> QED
    BY <2>1, MinFound
<1>5. Min({2, n}) = IF ~OnPage(t) THEN seen[t] ELSE IF seen[t] = 0 THEN 1 ELSE 2
  <2>1. n = IF OnPage(t) THEN seen[t] + 1 ELSE seen[t]
    BY <1>1, <1>2
  <2>2. PICK m : m = Min({2, n})
    OBVIOUS
  <2> HIDE DEF n
  <2> QED
    BY <1>1, <1>4, <2>1, <2>2
<1> QED
  BY <1>5 DEF places

LEMMA RepresentTxsStep ==
    ASSUME TxIInv, step = "rates", NEW conv, NEW fiat, NEW answers,
           RepresentTxs(conv, fiat, answers)
    PROVE  TxIInv'
<1> DEFINE rates == TxQuote(conv, fiat, answers)
<1>1. /\ asked.kind = "list"
      /\ UNCHANGED <<tableVars, asked, from, first, txPage, txMore, owed>>
      /\ txQuoted' = [coins |-> CoinsOfTxs, rates |-> rates,
                      covered |-> Covered(conv, CoinsOfTxs, fiat, answers)]
  BY DEF RepresentTxs, TxQuoted
<1>2. /\ rates \subseteq CoinsOfTxs
      /\ Covered(conv, CoinsOfTxs, fiat, answers) =>
            CoinsOfTxs \subseteq rates /\ ~GroupsPanic(rates)
  BY <1>1, PageQuoted
<1>3. txQuoted'.rates = rates
  BY <1>1
<1>4. CASE GroupsPanic(rates)
  <2>1. step' = "failed" /\ seen' = seen /\ Grouped
    BY <1>3, <1>4 DEF RepresentTxs, GroupsPanic
  <2>2. ~Covered(conv, CoinsOfTxs, fiat, answers)
    BY <1>2, <1>4
  <2> HIDE DEF rates
  <2>3. TxTypes' /\ StepInv' /\ TxQuoteInv'
    BY <1>1, <1>2, <2>1, <2>2 DEF TxIInv, TxTypes, StepInv, TxQuoteInv, Grouped, tableVars
  <2>4. SeenInv'
    BY <1>1, <2>1, TableSame DEF TxIInv, SeenInv, BelowCursor, tableVars
  <2>5. OwedInv'
    BY <1>1, <2>1, TableSame, ListingSame DEF TxIInv, OwedInv, Ahead
  <2> QED
    BY <1>1, <2>3, <2>4, <2>5, TableSame, PageSame DEF TxIInv
<1>5. CASE ~GroupsPanic(rates)
  <2>1. /\ step' = "answered"
        /\ seen' = [t \in Txs |-> Min({2, seen[t]
                        + Cardinality({i \in DOMAIN txPage : txPage[i].tx = t})})]
    BY <1>3, <1>5 DEF RepresentTxs
  <2>2. ASSUME NEW t \in Txs
        PROVE  seen'[t] = IF ~OnPage(t) THEN seen[t] ELSE IF seen[t] = 0 THEN 1 ELSE 2
    BY <2>1, SeenAfter
  <2>3. TxTypes'
    <3>1. \A t \in Txs : seen'[t] \in 0 .. 2
      BY <2>2 DEF TxIInv, TxTypes
    <3>2. seen' \in [Txs -> 0 .. 2]
      BY <2>1, <3>1
    <3> QED
      BY <1>1, <2>1, <3>2 DEF TxIInv, TxTypes, tableVars
  <2> HIDE DEF rates
  <2>4. StepInv' /\ TxQuoteInv'
    BY <1>1, <1>2, <2>1 DEF TxIInv, StepInv, TxQuoteInv
  <2>5. ASSUME NEW t \in Txs, OnPage(t)
        PROVE  place[t] = "committed" /\ BelowCursor(t)
    BY <2>5 DEF OnPage, TxIInv, TxPageInv, IsRead
  <2>6. \A t : OnPage(t)' = OnPage(t)
    BY <1>1 DEF OnPage
  <2>7. SeenInv'
    <3> SUFFICES ASSUME NEW t \in Txs, seen'[t] # 0
                 PROVE  /\ place[t] = "committed"
                        /\ Disordered(t) \/ (seen'[t] = 1 /\ (~BelowCursor(t) \/ OnPage(t)))
      BY <1>1, <2>1, <2>6, TableSame DEF SeenInv, BelowCursor, tableVars
    <3>1. CASE OnPage(t)
      <4>1. seen[t] # 0 => Disordered(t)
        BY <2>5, <3>1 DEF TxIInv, SeenInv
      <4> QED
        BY <2>2, <2>5, <3>1, <4>1
    <3>2. CASE ~OnPage(t)
      BY <2>2, <3>2 DEF TxIInv, SeenInv
    <3> QED
      BY <3>1, <3>2
  <2>8. OwedInv'
    <3> SUFFICES ASSUME NEW t \in owed, ~Disordered(t), seen'[t] # 1
                 PROVE  txMore /\ txId[t] < LastId
      BY <1>1, <2>1, TableSame, ListingSame
      DEF TxIInv, OwedInv, Ahead, LastId, tableVars
    <3>1. t \in Txs
      BY DEF TxIInv, TxTypes
    <3>2. CASE OnPage(t)
      <4>1. seen[t] = 0
        BY <2>5, <3>1, <3>2 DEF TxIInv, SeenInv
      <4> QED
        BY <2>2, <3>1, <3>2, <4>1
    <3>3. CASE ~OnPage(t)
      <4>1. seen[t] # 1
        BY <2>2, <3>1, <3>3
      <4> QED
        BY <1>1, <3>3, <4>1 DEF TxIInv, OwedInv, Ahead
    <3> QED
      BY <3>2, <3>3
  <2> QED
    BY <1>1, <2>3, <2>4, <2>7, <2>8, TableSame, PageSame DEF TxIInv
<1> QED
  BY <1>4, <1>5

-----------------------------------------------------------------------------
(* The client *)

LEMMA PageCleared == ASSUME txPage' = <<>> PROVE TxPageInv'
BY DEF TxPageInv

LEMMA AskTxsStep == ASSUME TxIInv, AskTxs PROVE TxIInv'
<1>1. /\ step = "idle" /\ step' = "first" /\ from' = 0 /\ asked' \in TxRequests
      /\ UNCHANGED <<tableVars, first, txPage, txMore, txQuoted>>
      /\ owed' = {t \in Txs : InListing(t)'}
      /\ seen' = [t \in Txs |-> 0]
  BY DEF AskTxs
<1>2. txPage' = <<>> /\ ~txMore
  BY <1>1 DEF TxIInv, StepInv
<1>3. TxTypes'
  <2>1. seen' \in [Txs -> 0 .. 2]
    BY <1>1
  <2> QED
    BY <1>1, <2>1 DEF TxIInv, TxTypes, tableVars
<1>4. StepInv' /\ TxQuoteInv'
  BY <1>1, <1>2 DEF TxIInv, StepInv, TxQuoteInv
<1>5. SeenInv'
  BY <1>1 DEF SeenInv
<1>6. OwedInv'
  BY <1>1 DEF OwedInv, Ahead, BelowCursor
<1> QED
  BY <1>1, <1>2, <1>3, <1>4, <1>5, <1>6, TableSame, PageCleared DEF TxIInv

(* The last row of a page has the least id of those in order. *)
LEMMA LastOfPage ==
    ASSUME TxIInv, Len(txPage) # 0
    PROVE  /\ LastId \in Nat /\ LastId # 0 /\ (from # 0 => LastId < from)
           /\ \A t \in Txs : OnPage(t) /\ ~Disordered(t) => LastId <= txId[t]
<1> DEFINE n == Len(txPage)
           l == txPage[n].tx
<1>1. n \in DOMAIN txPage /\ IsRead(txPage[n])
  BY DEF TxIInv, TxPageInv
<1>2. l \in Txs /\ place[l] = "committed" /\ BelowCursor(l) /\ LastId = txId[l]
  <2>1. txPage[n] = Row(l, txPage[n].status)
    BY <1>1 DEF IsRead
  <2>2. txPage[n].id = txId[l]
    BY <2>1 DEF Row
  <2> QED
    BY <1>1, <2>2 DEF IsRead, LastId
<1>3. LastId \in Nat /\ LastId # 0 /\ (from # 0 => LastId < from)
  BY <1>2, CommittedHasId DEF TxIInv, TxTypes, BelowCursor
<1>4. ASSUME NEW t \in Txs, OnPage(t), ~Disordered(t) PROVE LastId <= txId[t]
  <2>1. PICK i \in DOMAIN txPage : txPage[i].tx = t
    BY <1>4 DEF OnPage
  <2>2. i <= n /\ created[l] <= created[t]
    BY <1>1, <2>1 DEF TxIInv, TxPageInv
  <2>3. txId[t] < txId[l] => created[t] < created[l]
    <3>1. txId[l] # 0 /\ created[t] \in Nat /\ created[l] \in Nat
            /\ txId[t] \in Nat /\ txId[l] \in Nat
      BY <1>2, <1>3 DEF TxIInv, TxTypes
    <3> QED
      BY <1>2, <1>4, <3>1 DEF Disordered
  <2> QED
    BY <1>2, <1>4, <2>2, <2>3 DEF TxIInv, TxTypes
<1> QED
  BY <1>3, <1>4

LEMMA NextTxsStep == ASSUME TxIInv, NextTxs PROVE TxIInv'
<1>1. /\ step = "answered" /\ asked.kind = "list" /\ txMore
      /\ step' = "first" /\ from' = LastId
      /\ first' = 0 /\ txPage' = <<>> /\ txMore' = FALSE /\ txQuoted' = NoTxQuote
      /\ UNCHANGED <<tableVars, asked, owed, seen>>
  BY DEF NextTxs, TxCleared, LastId
<1>2. /\ LastId \in Nat /\ LastId # 0 /\ (from # 0 => LastId < from)
      /\ \A t \in Txs : OnPage(t) /\ ~Disordered(t) => LastId <= txId[t]
  BY <1>1, LastOfPage DEF TxIInv, StepInv
<1>3. TxTypes' /\ StepInv'
  BY <1>1, <1>2 DEF TxIInv, TxTypes, StepInv, tableVars
<1>4. TxQuoteInv'
  BY <1>1 DEF TxQuoteInv, NoTxQuote
<1>5. SeenInv'
  <2> SUFFICES ASSUME NEW t \in Txs, seen[t] # 0, ~Disordered(t)
               PROVE  seen[t] = 1 /\ ~(txId[t] < LastId)
    BY <1>1, <1>2, TableSame DEF TxIInv, SeenInv, BelowCursor, tableVars
  <2>1. seen[t] = 1 /\ (~BelowCursor(t) \/ OnPage(t))
    BY DEF TxIInv, SeenInv
  <2> QED
    BY <1>2, <2>1 DEF TxIInv, TxTypes, BelowCursor
<1>6. OwedInv'
  <2> SUFFICES ASSUME NEW t \in owed, Ahead(t)
               PROVE  txId[t] < LastId
    BY <1>1, TableSame, ListingSame DEF TxIInv, OwedInv, Ahead, BelowCursor, tableVars
  <2> QED
    BY <1>1 DEF Ahead
<1> QED
  BY <1>1, <1>3, <1>4, <1>5, <1>6, TableSame, PageCleared DEF TxIInv

LEMMA FinishTxsStep == ASSUME TxIInv, FinishTxs PROVE TxIInv'
<1>1. /\ step' = "idle" /\ asked' = Nobody /\ from' = 0
      /\ owed' = {} /\ seen' = [t \in Txs |-> 0]
      /\ first' = 0 /\ txPage' = <<>> /\ txMore' = FALSE /\ txQuoted' = NoTxQuote
      /\ UNCHANGED tableVars
  BY DEF FinishTxs, TxCleared
<1>2. TxTypes'
  <2>1. seen' \in [Txs -> 0 .. 2]
    BY <1>1
  <2> QED
    BY <1>1, <2>1 DEF TxIInv, TxTypes, tableVars
<1>3. StepInv' /\ TxQuoteInv' /\ SeenInv' /\ OwedInv'
  BY <1>1 DEF StepInv, TxQuoteInv, NoTxQuote, SeenInv, OwedInv
<1> QED
  BY <1>1, <1>2, <1>3, TableSame, PageCleared DEF TxIInv

LEMMA TxSameStep == ASSUME TxIInv, UNCHANGED txVars PROVE TxIInv'
<1>1. UNCHANGED <<tableVars, asked, from, first, txPage, txMore, txQuoted, step, owed, seen>>
  BY DEF txVars, tableVars, requestVars
<1>2. TxTypes' /\ StepInv' /\ TxQuoteInv'
  BY <1>1 DEF TxIInv, TxTypes, StepInv, TxQuoteInv, Grouped, tableVars
<1>3. SeenInv'
  BY <1>1, TableSame DEF TxIInv, SeenInv, BelowCursor, OnPage, tableVars
<1>4. OwedInv'
  BY <1>1, TableSame, ListingSame
  DEF TxIInv, OwedInv, Ahead, BelowCursor, OnPage, LastId, tableVars
<1> QED
  BY <1>1, <1>2, <1>3, <1>4, TableSame, PageSame DEF TxIInv

LEMMA TxNextInv == TxIInv /\ [TxNext]_txVars => TxIInv'
<1> SUFFICES ASSUME TxIInv, [TxNext]_txVars PROVE TxIInv'
  OBVIOUS
<1>1. ASSUME NEW t \in Txs,
             TakeTime(t) \/ InsertTx(t) \/ CommitTx(t) \/ RollBackTx(t) \/ Settle(t)
      PROVE  TxIInv'
  BY <1>1, TimeStep, InsertStep, EndsStep, SettleStep
<1>2. CASE ServeTxs
  BY <1>2, FirstStep, CountTxsStep, FindStep, OneStep, RepresentTxStep, RepresentTxsStep
  DEF ServeTxs
<1>3. CASE WalkTxs
  BY <1>3, NextTxsStep, FinishTxsStep DEF WalkTxs
<1>4. CASE AskTxs
  BY <1>4, AskTxsStep
<1>5. CASE UNCHANGED txVars
  BY <1>5, TxSameStep
<1> QED
  BY <1>1, <1>2, <1>3, <1>4, <1>5 DEF TxNext

LEMMA TxInv == TxSpec => []TxIInv
BY TxInitInv, TxNextInv, PTL DEF TxSpec

-----------------------------------------------------------------------------
(* Every variable keeps its type (TxTypeOK): ids up to the number of rows, *)
(* rows of the table on the page, and no rate of a coin that was not asked *)
(* for.                                                                    *)
THEOREM TxTypesKept == TxSpec => []TxTypeOK
<1>1. TxIInv => TxTypeOK
  <2> SUFFICES ASSUME TxIInv PROVE TxTypeOK
    OBVIOUS
  <2>1. Cardinality(Inserted) <= Cardinality(Txs)
    <3>1. Inserted \subseteq Txs
      BY DEF Inserted
    <3> QED
      BY <3>1, TxsAssumption, FS_Subset
  <2>2. Cardinality(Txs) \in Nat /\ Cardinality(Inserted) \in Nat
    BY TxsAssumption, InsertedFinite, FS_CardinalityType
  <2>3. txId \in [Txs -> 0 .. Cardinality(Txs)]
    <3>1. \A t \in Txs : txId[t] \in 0 .. Cardinality(Txs)
      BY <2>1, <2>2 DEF TxIInv, TxTypes, IdsInv
    <3> QED
      BY <3>1 DEF TxIInv, TxTypes
  <2>4. \A i \in DOMAIN txPage : txPage[i].tx \in Txs
    BY DEF TxIInv, TxPageInv, IsRead
  <2> QED
    BY <2>3, <2>4 DEF TxIInv, TxTypes, TxQuoteInv, TxTypeOK
<1> QED
  BY <1>1, TxInv, PTL

(* A walk shows every transaction that stays in the listing, and none      *)
(* twice, but for those whose ids and times are in another order than      *)
(* another row's (TxWalkFaithful): any number of rows, of requests and of  *)
(* steps between the three statements of a page.                           *)
THEOREM TxWalksFaithful == TxSpec => []TxWalkFaithful
<1>1. TxIInv => TxWalkFaithful
  <2> SUFFICES ASSUME TxIInv PROVE TxWalkFaithful
    OBVIOUS
  <2>1. \A t \in Txs : seen[t] <= 1 \/ Disordered(t)
    BY DEF TxIInv, SeenInv
  <2>2. ASSUME TxsOver, asked.kind = "list", NEW t \in owed
        PROVE  seen[t] = 1 \/ Disordered(t)
    BY <2>2 DEF TxIInv, OwedInv, Ahead, TxsOver
  <2> QED
    BY <2>1, <2>2 DEF TxWalkFaithful
<1> QED
  BY <1>1, TxInv, PTL

(* Whoever asks is shown the own wallet, and the direction asked for       *)
(* (OwnSide): that the filter decides by one column and the view by        *)
(* another makes no difference, because nobody's transaction to oneself    *)
(* gets further than being declined.                                       *)
THEOREM OwnSideShown == TxSpec => []OwnSide
<1>1. TxIInv => OwnSide
  <2> SUFFICES ASSUME TxIInv, step = "answered", NEW i \in DOMAIN txPage
               PROVE  /\ Views[i].wallet = Me
                      /\ asked.filter.direction \in {"any", Views[i].direction}
    BY DEF OwnSide, Views, ToAllView
  <2> DEFINE r == txPage[i]
             direction == asked.filter.direction
  <2>1. asked \in TxRequests
    BY DEF TxIInv, StepInv
  <2>2. /\ direction \in {"any", "incoming", "outgoing"}
        /\ asked.kind = "send" => direction = "any"
    BY <2>1, TxRequestsAssumption
  <2>3. IsRead(r)
    BY DEF TxIInv, TxPageInv
  <2>4. r = Row(r.tx, r.status)
    BY <2>3 DEF IsRead
  <2>5. r.from = Sent[r.tx].from
          /\ r.toWallet \in {Sent[r.tx].toWallet, Sent[r.tx].toPhone}
    BY <2>4 DEF Row
  <2>6. IsOutgoingForSide(r, Me) <=> r.from = Me
    BY MeAssumption DEF IsOutgoingForSide
  <2>7. r.from = Me /\ r.toWallet = Me => r.status = "decline"
    <3>1. r.from = Me /\ r.toWallet = Me => Model!IsSelfTx(Sent[r.tx])
      BY <2>5, MeAssumption DEF Model!IsSelfTx
    <3> QED
      BY <2>3, <3>1 DEF IsRead
  <2>8. IsParty(r, direction) \/ (asked.kind = "send" /\ r.from = Me)
    BY <2>3 DEF IsRead
  <2>9. /\ Views[i].wallet = IF r.from = Me THEN r.from ELSE r.toWallet
        /\ Views[i].direction = IF r.from = Me THEN "outgoing" ELSE "incoming"
    BY <2>6 DEF Views, ToAllView, ToView
  <2> HIDE DEF r, direction
  <2>10. CASE r.from = Me
    BY <2>2, <2>7, <2>8, <2>9, <2>10 DEF IsParty, direction
  <2>11. CASE r.from # Me
    BY <2>2, <2>8, <2>9, <2>11 DEF IsParty, direction
  <2> QED
    BY <2>10, <2>11
<1> QED
  BY <1>1, TxInv, PTL

(* When the main converter is out and the fallback is not, one transaction *)
(* and a page have all their rates, and only the totals of groups ever     *)
(* fail for the want of one (TxOutageCovered).                             *)
THEOREM TxOutagesCovered == TxSpec => []TxOutageCovered
<1>1. TxIInv => TxOutageCovered
  BY DEF TxIInv, TxQuoteInv, TxOutageCovered
<1> QED
  BY <1>1, TxInv, PTL

================================================================================
