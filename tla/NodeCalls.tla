-------------------------------- MODULE NodeCalls ---------------------------------
(***************************************************************************)
(* What may come of a call on a coin's node: the coordinator that finds    *)
(* the adapter, the wrapper that reports panics, and the adapters' own     *)
(* ways to fail.  Pure operators, no state.                                *)
(*                                                                         *)
(* An outcome is "ok", "error", "panic" (which the caller's process may    *)
(* recover from), "exit" (log.Fatal) or "empty": success without a value.  *)
(***************************************************************************)

CONSTANTS
    Adapter,  \* the adapter of each coin that was dialed
    Testnet   \* whether the nodes are those of the test networks

ASSUME AdapterAssumption ==
    \A c \in DOMAIN Adapter : Adapter[c] \in {"btc", "eth", "zam"}
ASSUME TestnetAssumption == Testnet \in BOOLEAN

(* Dial sorts an adapter by the interfaces it implements; zam has neither  *)
(* a list of transactions nor a watcher.                                   *)
Services(adapter) ==
    {"generator", "observer", "account", "sender", "txs", "loop"}
        \ (IF adapter = "zam" THEN {"account", "txs", "loop"} ELSE {})

(* Generator, Observer, AccountObserver, TxsObserver, TxsSender, and       *)
(* WatcherLoop, which returns its errors.                                  *)
Getter(coin, service) ==
    IF coin \notin DOMAIN Adapter
    THEN IF service = "loop" THEN "error" ELSE "panic"
    ELSE IF service \in Services(Adapter[coin]) THEN "adapter" ELSE "error"

(* Making an account.  Zam's pays the new account on the main network,     *)
(* where each failure ends the process; on the test network it asks a      *)
(* robot, and uses the response of a request that may have failed.  Then   *)
(* the new account has to trust the asset.                                 *)
Created(adapter) ==
    IF adapter = "zam"
    THEN {"ok", "error", "exit"} \cup (IF Testnet THEN {"panic"} ELSE {})
    ELSE {"ok", "error"}

(* The wrapper, if it is configured, captures a panic after which the      *)
(* named results are as they were: nothing, and no error.                  *)
SafeInvoke(reporting, outcome) ==
    IF reporting /\ outcome = "panic" THEN "empty" ELSE outcome

Through(coin, service, outcomes, reporting) ==
    IF Getter(coin, service) # "adapter" THEN {Getter(coin, service)}
    ELSE {SafeInvoke(reporting, o) : o \in outcomes}

Create(coin, reporting) ==
    Through(coin, "generator", Created(Adapter[coin]), reporting)
===================================================================================
