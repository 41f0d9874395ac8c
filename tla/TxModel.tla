-------------------------------- MODULE TxModel --------------------------------
(***************************************************************************)
(* The data of internal/processing for one coin: the rows of table txs,    *)
(* the predicates on them (models.go), the verdict of onValidateTxState    *)
(* (sm.go) and the ledger sums of GetTxsesSum (api.go).  Pure operators,   *)
(* no state.                                                               *)
(*                                                                         *)
(* The pair (user_phone, coin_id) is unique in table wallets, so with one  *)
(* coin a wallet, its id and its blockchain address are all named by the   *)
(* phone of its owner.                                                     *)
(***************************************************************************)
EXTENDS Integers, FiniteSets, Functions

CONSTANTS
    Coin,       \* the coin: "BTC" (bch behaves alike), "ETH" or "Zam"
    Phones,     \* users
    Foreign,    \* blockchain addresses that belong to no wallet of the service
    Nobody,     \* the SQL null of the recipient columns
    TxIds,      \* ids of rows of txs
    Amounts,    \* amounts that requests ask to send
    MaxFee      \* bound on a blockchain fee

ASSUME CoinAssumption == Coin \in {"BTC", "ETH", "Zam"}
ASSUME PartiesAssumption ==
    Nobody \notin Phones \cup Foreign /\ Phones \cap Foreign = {}
ASSUME AmountsAssumption == Amounts \subseteq Nat \ {0} /\ MaxFee \in Nat
ASSUME TablesAssumption == IsFiniteSet(Phones) /\ IsFiniteSet(TxIds)

-----------------------------------------------------------------------------
(* Rows *)

Statuses == {"absent", "validation", "send_external", "pending", "waiting",
             "success", "decline", "cancel"}

Rows == [from      : Phones \cup {Nobody},
         toWallet  : Phones \cup {Nobody},
         toPhone   : Phones \cup {Nobody},
         toAddress : Phones \cup Foreign \cup {Nobody},
         type      : {"internal", "external"},
         amount    : Nat,
         fee       : Nat,
         status    : Statuses]

(* No committed row has this id. *)
NoRow == [from |-> Nobody, toWallet |-> Nobody, toPhone |-> Nobody,
          toAddress |-> Nobody, type |-> "internal", amount |-> 0, fee |-> 0,
          status |-> "absent"]

(* A row as Send builds it from the recipient candidates. *)
NewTx(from, recipient, amount) ==
    [NoRow EXCEPT !.from = from,
                  !.toWallet = recipient.toWallet,
                  !.toPhone = recipient.toPhone,
                  !.toAddress = recipient.toAddress,
                  !.amount = amount,
                  !.status = "validation"]

PhoneRecipient(p) == [toWallet |-> Nobody, toPhone |-> p, toAddress |-> Nobody]
AddressRecipient(a) == [toWallet |-> Nobody, toPhone |-> Nobody, toAddress |-> a]

(* A wallet the service knows, with its address as the fallback candidate. *)
WalletRecipient(p) == [toWallet |-> p, toPhone |-> Nobody, toAddress |-> p]

SendByPhone(tx) == tx.toPhone # Nobody /\ tx.toWallet = Nobody
SendByWallet(tx) == tx.toWallet # Nobody
SendByAddress(tx) == tx.toAddress # Nobody

IsSelfTx(tx) ==
    \/ tx.toWallet # Nobody /\ tx.from = tx.toWallet
    \/ tx.toPhone # Nobody /\ tx.from = tx.toPhone

(* The amount of such a transaction cannot be spent again. *)
IsHoldsAmount(tx) == tx.status \notin {"absent", "decline", "cancel"}

-----------------------------------------------------------------------------
(* The coin *)

(* btc and bch settle transfers between wallets in the database only. *)
SupportInternalTxs == Coin = "BTC"

-----------------------------------------------------------------------------
(* onValidateTxState *)

ErrorNames == {"ErrSelfTxForbidden", "ErrTxAmountToBig", "ErrInsufficientFunds",
               "ErrInvalidWalletBalance"}

\* Mutant of ValidationErrs: the wallet balance is not compared with the amount.
ErrsWithoutWalletBalance(tx, accountBalance, walletBalance) ==
    {e \in {"ErrSelfTxForbidden", "ErrTxAmountToBig"} :
        \/ e = "ErrSelfTxForbidden" /\ IsSelfTx(tx)
        \/ e = "ErrTxAmountToBig" /\ accountBalance < tx.amount}

(* All failed checks are reported together. *)
ValidationErrs(tx, accountBalance, walletBalance) ==
    {e \in ErrorNames :
        \/ e = "ErrSelfTxForbidden" /\ IsSelfTx(tx)
        \/ e = "ErrTxAmountToBig" /\ accountBalance < tx.amount
        \/ e = "ErrInsufficientFunds" /\ walletBalance < tx.amount
        \/ e = "ErrInvalidWalletBalance" /\ walletBalance > accountBalance}

(* How to send: a wallet when the coin settles internally, else an address, *)
(* else a phone whose owner has no wallet yet.                              *)
SendDecision(tx) ==
    IF SendByWallet(tx) /\ SupportInternalTxs THEN "sendWallet"
    ELSE IF SendByAddress(tx) THEN "sendAddress" ELSE "sendPhone"

(* The row after validation; the type is set even when it is declined. *)
Validated(tx, failed) ==
    [tx EXCEPT
        !.type = IF SendDecision(tx) = "sendAddress" THEN "external" ELSE "internal",
        !.status = IF failed # {} THEN "decline"
                   ELSE CASE SendDecision(tx) = "sendWallet" -> "success"
                          [] SendDecision(tx) = "sendPhone" -> "pending"
                          [] SendDecision(tx) = "sendAddress" -> "send_external"]

-----------------------------------------------------------------------------
(* onRecipientWalletCreated *)

(* The branch for coins without internal transactions assigns send_external *)
(* to newState, and the last statement overwrites it.                       *)
RecipientWalletCreated(tx) == [tx EXCEPT !.status = "success"]

-----------------------------------------------------------------------------
(* aggregateTxsesQuery over a table: rows is a function on TxIds *)

Total(S, val) == SumFunctionOnSet(val, S)

Income(w, rows) ==
    Total({t \in TxIds : /\ rows[t].toWallet = w
                         /\ rows[t].type = "internal"
                         /\ rows[t].status = "success"},
          [t \in TxIds |-> rows[t].amount])

Outcome(w, rows) ==
    Total({t \in TxIds : rows[t].from = w /\ IsHoldsAmount(rows[t])},
          [t \in TxIds |-> rows[t].amount + rows[t].fee])

TxsesSum(w, rows) == Income(w, rows) - Outcome(w, rows)
================================================================================
