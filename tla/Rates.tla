---------------------------------- MODULE Rates ----------------------------------
(***************************************************************************)
(* Rates of coins in a currency: the two converters, the fallback from one *)
(* to the other, the retry with the default currency, and what is made of  *)
(* the rates.  Pure operators, no state.                                   *)
(*                                                                         *)
(* A currency is "known" to both services, as the default is, or           *)
(* "unknown".  A service answers "ok", with a "badStatus", with "garbled"  *)
(* text or not at all.  The result of a call is the coins whose rate it    *)
(* holds, and its error.                                                   *)
(***************************************************************************)
EXTENDS Naturals

Answers == {"ok", "badStatus", "garbled", "unreachable"}

Providers == {"icex", "cryptocompare"}

(* A main converter, and one to fall back to unless it is "none". *)
Converters == [main : Providers, fallback : Providers \cup {"none"}]

DefaultCoin == "BTC"

Result(coins, error) == [rates |-> coins, error |-> error]

-----------------------------------------------------------------------------
(* icex *)

IcexCoins == {"BTC", "BCH", "ETH"}

\* Mutant of IcexRates: coins that it does not know are passed over.
IcexKnownRates(coins, renamed, fiat, answer) ==
    IF fiat = "unknown" THEN Result({}, "fiat")
    ELSE IF answer = "ok" THEN Result(IcexCoins, "none") ELSE Result({}, "unavailable")

(* getRates gives the coins icex's names in the caller's own list.  Names  *)
(* that have been renamed are not names of coins.                          *)
IcexRates(coins, renamed, fiat, answer) ==
    IF renamed \/ ~(coins \subseteq IcexCoins) THEN Result({}, "coin")
    ELSE IF coins = {} THEN Result({}, "other")
    ELSE IF fiat = "unknown" THEN Result({}, "fiat")
    ELSE IF answer = "ok" THEN Result(coins, "none")
    ELSE Result({}, IF answer = "unreachable" THEN "net"
                    ELSE IF answer = "badStatus" THEN "unavailable" ELSE "other")

-----------------------------------------------------------------------------
(* cryptocompare *)

(* The coins that the service knows. *)
Listed == {"BTC", "BCH", "ETH"}

(* The error of doQuery, and the coins in its response. *)
QueryError(answer) ==
    IF answer = "ok" THEN "none" ELSE IF answer = "unreachable" THEN "net" ELSE "other"
Response(coins, answer) == IF answer = "ok" THEN coins \cap Listed ELSE {}

(* Every other outcome overwrites the query's error, and ZAM's rate is     *)
(* returned beside it.                                                     *)
CryptocompareRate(coin, fiat, answer) ==
    IF coin \in Response({coin}, answer)
    THEN IF fiat = "known" THEN Result({coin}, "none") ELSE Result({}, "fiat")
    ELSE IF coin = "ZAM" THEN Result({coin}, QueryError(answer))
    ELSE Result({}, "coin")

(* Coins without a rate in the currency are left out, without an error. *)
CryptocompareRates(coins, fiat, answer) ==
    IF answer # "ok" THEN Result({}, QueryError(answer))
    ELSE Result({c \in coins : (c \in Listed /\ fiat = "known") \/ c = "ZAM"},
                IF coins \subseteq Listed \cup {"ZAM"} THEN "none" ELSE "coin")

-----------------------------------------------------------------------------
(* The fallback *)

\* Mutant of GoesOn: a wrapped error is not looked into.
OnlyUnavailable(error) == error = "unavailable"

(* Only errors that stand for an outage are passed on to the fallback. *)
GoesOn(error) == error \in {"net", "unavailable"}

Falls(conv, first, second) ==
    IF conv.fallback # "none" /\ GoesOn(first.error) THEN second ELSE first

RateOf(provider, coin, fiat, answers) ==
    IF provider = "icex" THEN IcexRates({coin}, FALSE, fiat, answers["icex"])
    ELSE CryptocompareRate(coin, fiat, answers["cryptocompare"])

RatesOf(provider, coins, renamed, fiat, answers) ==
    IF provider = "icex" THEN IcexRates(coins, renamed, fiat, answers["icex"])
    ELSE CryptocompareRates(coins, fiat, answers["cryptocompare"])

GetRate(conv, coin, fiat, answers) ==
    Falls(conv, RateOf(conv.main, coin, fiat, answers),
                RateOf(conv.fallback, coin, fiat, answers))

(* The fallback's wrapper copies the list for each converter. *)
GetMultiRate(conv, coins, renamed, fiat, answers) ==
    Falls(conv, RatesOf(conv.main, coins, renamed, fiat, answers),
                RatesOf(conv.fallback, coins, FALSE, fiat, answers))

-----------------------------------------------------------------------------
(* The default currency; both attempts find the services alike. *)

GetRateDefaultFiat(conv, coin, fiat, answers) ==
    LET first == GetRate(conv, coin, fiat, answers)
    IN  IF first.error = "fiat" THEN GetRate(conv, coin, "known", answers) ELSE first

(* Without the wrapper the first attempt has renamed the coins. *)
GetMultiRateDefaultFiat(conv, coins, fiat, answers) ==
    LET first == GetMultiRate(conv, coins, FALSE, fiat, answers)
        renamed == conv.fallback = "none" /\ conv.main = "icex"
    IN  IF first.error = "fiat" THEN GetMultiRate(conv, coins, renamed, "known", answers)
        ELSE first

-----------------------------------------------------------------------------
(* RepresentBalance: the amount in the currency, 0 when it has no rate. *)

Price(coin) == IF coin = "BTC" THEN 2 ELSE IF coin = "ETH" THEN 3 ELSE 1

InFiat(coin, amount, rates) == IF coin \in rates THEN amount * Price(coin) ELSE 0

(* The main converter is out, the fallback is not, and both know what they *)
(* are asked.                                                              *)
Covered(conv, coins, fiat, answers) ==
    /\ conv = [main |-> "icex", fallback |-> "cryptocompare"]
    /\ coins \subseteq IcexCoins /\ fiat = "known"
    /\ answers["cryptocompare"] = "ok"
    /\ answers["icex"] \in {"ok", "badStatus", "unreachable"}
===================================================================================
