------------------------------- MODULE Processing -------------------------------
(***************************************************************************)
(* The transaction core of the service: sending from a wallet, creating a  *)
(* wallet and waking the transactions that await it, cancelling those that *)
(* waited too long, and following external transactions on the blockchain. *)
(*                                                                         *)
(* Request handlers of the servers and of the listener (Procs), the worker *)
(* and one watcher share the database and the coin's node.  The database   *)
(* runs at READ COMMITTED: a statement sees what is committed when it      *)
(* starts and the rows its own transaction wrote; an UPDATE waits for the  *)
(* row locks of other transactions.  So an action is one statement or one  *)
(* node call, a transaction's writes stay in the handler's own variables   *)
(* until it commits, and rows it has updated are listed as claimed.        *)
(***************************************************************************)
EXTENDS TxModel

CONSTANTS
    Procs,           \* request handlers (goroutines of servers and listener)
    NoTx,            \* "no row", not an element of TxIds
    InitialWallets,  \* phones whose wallets exist at the start
    Genesis,         \* the coins each address has received at the start
    Invalid,         \* foreign addresses the node refuses
    MaxDeposits,     \* bound: coins that arrive from outside
    MaxFailures      \* bound: crashes and failed calls

ASSUME ProcessingAssumption ==
    /\ NoTx \notin TxIds
    /\ InitialWallets \subseteq Phones
    /\ Genesis \in [Phones -> Nat]
    /\ Invalid \subseteq Foreign
    /\ MaxDeposits \in Nat /\ MaxFailures \in Nat

VARIABLES
    wallets,    \* committed rows of wallets
    txs,        \* committed rows of txs
    aged,       \* rows with updated_at older than TimeToWaitRecipient
    pc,         \* where each handler is
    send,       \* the row and the errors of a handler inside Send
    seen,       \* the balances it has read
    notify,     \* what a handler inside NotifyUserCreatesWallet knows
    verdict,    \* the watcher's answers about external transactions
    chain,      \* what was broadcast for a row, and what became of it
    received,   \* coins from outside that an address has received
    arriving,   \* the same, not confirmed often enough yet
    failures    \* failures so far

dbVars == <<wallets, txs, aged>>
procVars == <<pc, send, seen, notify>>
chainVars == <<chain, received, arriving>>
vars == <<dbVars, procVars, verdict, chainVars, failures>>

NoSend == [tx |-> NoTx, row |-> NoRow, errs |-> {}]
NoBalances == [account |-> 0, address |-> 0]
NoNotify == [wallet |-> Nobody, claimed |-> {}, selected |-> {}]
NoChainTx == [state |-> "none", from |-> Nobody, to |-> Nobody, amount |-> 0, fee |-> 0]

SendSteps == {"lookedUp", "account", "address", "recheck", "broadcast", "commit"}
NotifySteps == {"created", "claimed", "selected"}

SendRecords ==
    [tx : TxIds \cup {NoTx}, row : Rows, errs : SUBSET ErrorNames]
NotifyRecords ==
    [wallet : Phones \cup {Nobody}, claimed : SUBSET TxIds, selected : SUBSET TxIds]
ChainRecords ==
    [state : {"none", "mempool", "mined", "dropped"}, from : Phones \cup {Nobody},
     to : Phones \cup Foreign \cup {Nobody}, amount : Nat, fee : Nat]

TypeOK ==
    /\ wallets \subseteq Phones
    /\ txs \in [TxIds -> Rows]
    /\ aged \subseteq TxIds
    /\ pc \in [Procs -> {"idle"} \cup SendSteps \cup NotifySteps]
    /\ send \in [Procs -> SendRecords]
    /\ DOMAIN seen = Procs
    /\ notify \in [Procs -> NotifyRecords]
    /\ verdict \in [TxIds -> {"none", "asked", "neither", "confirmed",
                              "abandoned", "error"}]
    /\ chain \in [TxIds -> ChainRecords]
    /\ received \in [Phones -> Nat]
    /\ arriving \in [Phones -> Nat]
    /\ failures \in Nat

Init ==
    /\ wallets = InitialWallets
    /\ txs = [t \in TxIds |-> NoRow]
    /\ aged = {}
    /\ pc = [p \in Procs |-> "idle"]
    /\ send = [p \in Procs |-> NoSend]
    /\ seen = [p \in Procs |-> NoBalances]
    /\ notify = [p \in Procs |-> NoNotify]
    /\ verdict = [t \in TxIds |-> "none"]
    /\ chain = [t \in TxIds |-> NoChainTx]
    /\ received = Genesis
    /\ arriving = [w \in Phones |-> 0]
    /\ failures = 0

-----------------------------------------------------------------------------
(* Balances *)

Mined == {t \in TxIds : chain[t].state = "mined"}
Live == {t \in TxIds : chain[t].state \in {"mempool", "mined"}}

(* Balance of an address.  getreceivedbyaddress counts confirmed coins and *)
(* never goes down; the other nodes answer what is left at the address in  *)
(* their latest state.                                                     *)
AddressBalance(w) ==
    IF SupportInternalTxs THEN received[w]
    ELSE received[w] + arriving[w]
           + Total({t \in Mined : chain[t].to = w}, [t \in TxIds |-> chain[t].amount])
           - Total({t \in Mined : chain[t].from = w},
                   [t \in TxIds |-> chain[t].amount + chain[t].fee])

Deposited == Total(Phones, [w \in Phones |-> received[w] + arriving[w]])

(* GetBalance: the balance of the btc node's wallet, in which a broadcast  *)
(* counts at once and whose fee is taken from the amount; the sum over the *)
(* addresses of the eth node; for Zam a constant no balance exceeds.       *)
AccountBalance ==
    CASE Coin = "BTC" -> Deposited - Total(Live, [t \in TxIds |-> chain[t].amount])
      [] Coin = "ETH" -> Total(Phones, [w \in Phones |-> AddressBalance(w)])
      [] Coin = "Zam" -> Deposited + MaxDeposits + Total(Amounts, [a \in Amounts |-> a])

(* TotalWalletBalanceCtx, of an address balance read before the txs' sum. *)
TotalWalletBalance(w, address) ==
    IF SupportInternalTxs THEN address + TxsesSum(w, txs) ELSE address

-----------------------------------------------------------------------------
(* SendToPhone, SentToAddress and Send *)

FreeIds == {t \in TxIds : /\ txs[t] = NoRow
                          /\ chain[t] = NoChainTx
                          /\ \A q \in Procs : send[q].tx # t}

StartSend(p, from, recipient, amount) ==
    /\ pc[p] = "idle"
    /\ from \in wallets
    /\ \E t \in FreeIds :
          send' = [send EXCEPT ![p] = [NoSend EXCEPT
                      !.tx = t, !.row = NewTx(from, recipient, amount)]]
    /\ pc' = [pc EXCEPT ![p] = "lookedUp"]
    /\ UNCHANGED <<dbVars, seen, notify, verdict, chainVars, failures>>

(* Looks both wallets up in a transaction of its own, before Send's. *)
SendToPhone(p, from, to, amount) ==
    /\ from # to
    /\ StartSend(p, from,
                 IF to \in wallets THEN WalletRecipient(to) ELSE PhoneRecipient(to),
                 amount)

(* An address of a wallet of the service is sent to as that wallet. *)
SentToAddress(p, from, address, amount) ==
    /\ address \in Foreign \cup (wallets \ {from})
    /\ StartSend(p, from,
                 IF address \in wallets THEN WalletRecipient(address)
                                        ELSE AddressRecipient(address),
                 amount)

(* onValidateTxState makes three reads: the node's account, the address,  *)
(* and (with the verdict, in Validate) the sum of the wallet's txs, which *)
(* is read in another connection's transaction.                           *)
ReadAccountBalance(p) ==
    /\ pc[p] = "lookedUp"
    /\ seen' = [seen EXCEPT ![p].account = AccountBalance]
    /\ pc' = [pc EXCEPT ![p] = "account"]
    /\ UNCHANGED <<dbVars, send, notify, verdict, chainVars, failures>>

ReadAddressBalance(p) ==
    /\ pc[p] = "account"
    /\ seen' = [seen EXCEPT ![p].address = AddressBalance(send[p].row.from)]
    /\ pc' = [pc EXCEPT ![p] = "address"]
    /\ UNCHANGED <<dbVars, send, notify, verdict, chainVars, failures>>

Validate(p) ==
    LET s == send[p]
        failed == ValidationErrs(s.row, seen[p].account,
                                 TotalWalletBalance(s.row.from, seen[p].address))
        row == Validated(s.row, failed)
    IN  /\ pc[p] = "address"
        /\ send' = [send EXCEPT ![p].row = row, ![p].errs = failed]
        /\ seen' = [seen EXCEPT ![p] = NoBalances]
        /\ pc' = [pc EXCEPT ![p] = IF row.status = "send_external"
                                   THEN "recheck" ELSE "commit"]
        /\ UNCHANGED <<dbVars, notify, verdict, chainVars, failures>>

(* onSendExternalTx reports a balance that no longer suffices, and goes on. *)
Recheck(p) ==
    LET s == send[p]
        balance == TotalWalletBalance(s.row.from, AddressBalance(s.row.from))
    IN  /\ pc[p] = "recheck"
        /\ send' = [send EXCEPT ![p].errs =
                       IF balance < s.row.amount THEN {"ErrInsufficientFunds"} ELSE {}]
        /\ pc' = [pc EXCEPT ![p] = "broadcast"]
        /\ UNCHANGED <<dbVars, seen, notify, verdict, chainVars, failures>>

(* What the node has to spend: btc spends from its common wallet, the      *)
(* others from the sender's address, which also pays the fee.              *)
NodeAccepts(row, fee) ==
    /\ row.toAddress \notin Invalid
    /\ CASE Coin = "BTC" -> fee <= row.amount /\ row.amount <= AccountBalance
         [] Coin = "ETH" -> row.amount + fee <= AddressBalance(row.from)
         [] Coin = "Zam" -> fee = 0 /\ row.amount <= AddressBalance(row.from)

(* A Zam payment is in the ledger when SubmitTransaction returns. *)
Announced(row, fee) ==
    [state |-> IF Coin = "Zam" THEN "mined" ELSE "mempool",
     from |-> row.from, to |-> row.toAddress, amount |-> row.amount, fee |-> fee]

\* Mutant of Sent: the fee keeps the sign bitcoind gives it.
SentWithSignedFee(row, fee) == [row EXCEPT !.fee = -fee, !.status = "waiting"]

(* The row after onSendExternalTx; StepTx does not await Zam confirmations. *)
Sent(row, fee) ==
    [row EXCEPT !.fee = fee,
                !.status = IF Coin = "Zam" THEN "success" ELSE "waiting"]

Broadcast(p) ==
    LET s == send[p]
    IN  /\ pc[p] = "broadcast"
        /\ \E fee \in 0 .. MaxFee :
              /\ NodeAccepts(s.row, fee)
              /\ chain' = [chain EXCEPT ![s.tx] = Announced(s.row, fee)]
              /\ send' = [send EXCEPT ![p].row = Sent(s.row, fee)]
        /\ pc' = [pc EXCEPT ![p] = "commit"]
        /\ UNCHANGED <<dbVars, seen, notify, verdict, received, arriving, failures>>

(* The node's error rolls the transaction back.  StepTx would decline the  *)
(* row and keep it on ErrAddressInvalid, which no adapter's Send returns:  *)
(* btc replaces it with the error of its second call, eth and zam answer   *)
(* other errors.                                                           *)
NodeRefuses(p) ==
    /\ pc[p] = "broadcast"
    /\ \A fee \in 0 .. MaxFee : ~NodeAccepts(send[p].row, fee)
    /\ send' = [send EXCEPT ![p] = NoSend]
    /\ pc' = [pc EXCEPT ![p] = "idle"]
    /\ UNCHANGED <<dbVars, seen, notify, verdict, chainVars, failures>>

(* The node has sent the coins, and the call that asks it for the fee fails. *)
BroadcastThenFail(p) ==
    /\ pc[p] = "broadcast"
    /\ failures < MaxFailures
    /\ \E fee \in 0 .. MaxFee :
          /\ NodeAccepts(send[p].row, fee)
          /\ chain' = [chain EXCEPT ![send[p].tx] = Announced(send[p].row, fee)]
    /\ send' = [send EXCEPT ![p] = NoSend]
    /\ pc' = [pc EXCEPT ![p] = "idle"]
    /\ failures' = failures + 1
    /\ UNCHANGED <<dbVars, seen, notify, verdict, received, arriving>>

(* Declined rows are committed as well. *)
CommitSend(p) ==
    /\ pc[p] = "commit"
    /\ txs' = [txs EXCEPT ![send[p].tx] = send[p].row]
    /\ send' = [send EXCEPT ![p] = NoSend]
    /\ pc' = [pc EXCEPT ![p] = "idle"]
    /\ UNCHANGED <<wallets, aged, seen, notify, verdict, chainVars, failures>>

(* A failed statement, node call, notification or commit, or the death of  *)
(* the process: the open transaction is rolled back, and nobody goes on    *)
(* with what the handler had left to do.                                   *)
Abort(p) ==
    /\ pc[p] # "idle"
    /\ failures < MaxFailures
    /\ send' = [send EXCEPT ![p] = NoSend]
    /\ seen' = [seen EXCEPT ![p] = NoBalances]
    /\ notify' = [notify EXCEPT ![p] = NoNotify]
    /\ pc' = [pc EXCEPT ![p] = "idle"]
    /\ failures' = failures + 1
    /\ UNCHANGED <<dbVars, verdict, chainVars>>

-----------------------------------------------------------------------------
(* CreateWallet and NotifyUserCreatesWallet *)

(* The insert, the new address and the commit; a second wallet of the same *)
(* user is rejected by the unique constraint.  The notification follows    *)
(* the commit.                                                             *)
CreateWallet(p, w) ==
    /\ pc[p] = "idle"
    /\ w \notin wallets
    /\ wallets' = wallets \cup {w}
    /\ notify' = [notify EXCEPT ![p].wallet = w]
    /\ pc' = [pc EXCEPT ![p] = "created"]
    /\ UNCHANGED <<txs, aged, send, seen, verdict, chainVars, failures>>

\* Mutant of Awaiting: only rows that are not outdated are woken.
AwaitingFresh(w) ==
    {t \in TxIds \ aged : txs[t].status = "pending" /\ txs[t].toPhone = w}

\* Mutant of Awaiting: the status of the row is not looked at.
AwaitingAnyStatus(w) == {t \in TxIds : txs[t].toPhone = w}

Awaiting(w) == {t \in TxIds : txs[t].status = "pending" /\ txs[t].toPhone = w}

(* First statement: to_wallet_id of the rows that await w.  The rows stay  *)
(* locked, and others still read them without it.                          *)
ClaimAwaiting(p) ==
    /\ pc[p] = "created"
    /\ notify' = [notify EXCEPT ![p].claimed = Awaiting(notify[p].wallet)]
    /\ pc' = [pc EXCEPT ![p] = "claimed"]
    /\ UNCHANGED <<dbVars, send, seen, verdict, chainVars, failures>>

(* Second statement, with a snapshot of its own: the rows to step. *)
SelectAwaiting(p) ==
    /\ pc[p] = "claimed"
    /\ notify' = [notify EXCEPT ![p].selected = Awaiting(notify[p].wallet)]
    /\ pc' = [pc EXCEPT ![p] = "selected"]
    /\ UNCHANGED <<dbVars, send, seen, verdict, chainVars, failures>>

\* Mutant of Woken: the recipient's wallet is not recorded.
WokenUnclaimed(t, n) == RecipientWalletCreated(txs[t])

(* StepTx's update writes the row back as the second statement read it. *)
Woken(t, n) ==
    [RecipientWalletCreated(txs[t]) EXCEPT
        !.toWallet = IF t \in n.claimed THEN n.wallet ELSE @]

CommitNotify(p) ==
    /\ pc[p] = "selected"
    /\ txs' = [t \in TxIds |-> IF t \in notify[p].selected
                               THEN Woken(t, notify[p]) ELSE txs[t]]
    /\ aged' = aged \ notify[p].selected
    /\ notify' = [notify EXCEPT ![p] = NoNotify]
    /\ pc' = [pc EXCEPT ![p] = "idle"]
    /\ UNCHANGED <<wallets, send, seen, verdict, chainVars, failures>>

-----------------------------------------------------------------------------
(* The worker *)

(* A row ages TimeToWaitRecipient after its last update.  No transaction   *)
(* stays open that long: a row that was committed while its recipient's    *)
(* notification was open does not age before that ends.                    *)
Age(t) ==
    /\ t \notin aged
    /\ txs[t].status = "pending"
    /\ \A p \in Procs :
          /\ pc[p] \in {"claimed", "selected"}
          /\ notify[p].wallet = txs[t].toPhone
          => t \in notify[p].claimed
    /\ aged' = aged \cup {t}
    /\ UNCHANGED <<wallets, txs, procVars, verdict, chainVars, failures>>

\* Mutant of Outdated: the null test of the recipient's phone is inverted.
OutdatedWithoutPhone(t) ==
    t \in aged /\ txs[t].status = "pending" /\ txs[t].toPhone = Nobody

Outdated(t) ==
    /\ t \in aged
    /\ txs[t].status = "pending"
    /\ txs[t].type = "internal"
    /\ txs[t].toWallet = Nobody /\ txs[t].toAddress = Nobody
    /\ txs[t].toPhone # Nobody

(* An UPDATE waits for rows that another transaction has updated. *)
RowLocks(ts) == \A p \in Procs : notify[p].claimed \cap ts = {}

OnCheckOutdated ==
    LET due == {t \in TxIds : Outdated(t)}
    IN  /\ RowLocks(due)
        /\ txs' = [t \in TxIds |->
                      IF t \in due THEN [txs[t] EXCEPT !.status = "cancel"] ELSE txs[t]]
        /\ aged' = aged \ due
        /\ UNCHANGED <<wallets, procVars, verdict, chainVars, failures>>

-----------------------------------------------------------------------------
(* The watcher: watchConfirmations *)

Asked == {t \in TxIds : verdict[t] # "none"}

(* Snapshot of the external transactions that wait; one goroutine for each. *)
WatchConfirmations ==
    /\ Asked = {}
    /\ verdict' = [t \in TxIds |->
                      IF txs[t].type = "external" /\ txs[t].status = "waiting"
                      THEN "asked" ELSE "none"]
    /\ UNCHANGED <<dbVars, procVars, chainVars, failures>>

\* Mutant of Observed: an abandoned transaction is not reported.
ObservedConfirmations(t) ==
    IF chain[t].state = "mined" THEN "confirmed" ELSE "neither"

(* What IsConfirmed makes of the node's answer; the eth adapter never      *)
(* reports an abandoned transaction.                                       *)
Observed(t) ==
    CASE chain[t].state = "mined" -> "confirmed"
      [] chain[t].state = "dropped" /\ Coin = "BTC" -> "abandoned"
      [] OTHER -> "neither"

IsConfirmed(t) ==
    /\ verdict[t] = "asked"
    /\ verdict' = [verdict EXCEPT ![t] = Observed(t)]
    /\ UNCHANGED <<dbVars, procVars, chainVars, failures>>

IsConfirmedFails(t) ==
    /\ verdict[t] = "asked"
    /\ failures < MaxFailures
    /\ verdict' = [verdict EXCEPT ![t] = "error"]
    /\ failures' = failures + 1
    /\ UNCHANGED <<dbVars, procVars, chainVars>>

\* Mutant of Settled: an abandoned transaction is taken for a confirmed one.
SettledAnyAnswer(t) ==
    IF verdict[t] \in {"confirmed", "abandoned"}
    THEN [txs[t] EXCEPT !.status = "success"] ELSE txs[t]

\* Mutant of Settled: a transaction without confirmations is declined.
SettledUnconfirmed(t) ==
    CASE verdict[t] = "confirmed" -> [txs[t] EXCEPT !.status = "success"]
      [] verdict[t] \in {"abandoned", "neither"} -> [txs[t] EXCEPT !.status = "decline"]
      [] OTHER -> txs[t]

(* updateTxsStatus goes by id and does not look at the status it replaces. *)
Settled(t) ==
    CASE verdict[t] = "confirmed" -> [txs[t] EXCEPT !.status = "success"]
      [] verdict[t] = "abandoned" -> [txs[t] EXCEPT !.status = "decline"]
      [] OTHER -> txs[t]

(* All answers are in: one transaction updates the confirmed and the       *)
(* abandoned rows.  Rows without an answer are asked about again later.    *)
UpdateConfirmed ==
    /\ Asked # {}
    /\ \A t \in TxIds : verdict[t] # "asked"
    /\ txs' = [t \in TxIds |-> Settled(t)]
    /\ verdict' = [t \in TxIds |-> "none"]
    /\ UNCHANGED <<wallets, aged, procVars, chainVars, failures>>

(* The watcher dies, or its update fails: the answers are forgotten. *)
WatcherFails ==
    /\ Asked # {}
    /\ failures < MaxFailures
    /\ verdict' = [t \in TxIds |-> "none"]
    /\ failures' = failures + 1
    /\ UNCHANGED <<dbVars, procVars, chainVars>>

-----------------------------------------------------------------------------
(* The blockchain *)

(* A transaction is mined, deep enough to be confirmed; eth mines a        *)
(* transfer only while the sender's balance covers it.                     *)
Mine(t) ==
    /\ chain[t].state = "mempool"
    /\ Coin = "ETH" => chain[t].amount + chain[t].fee <= AddressBalance(chain[t].from)
    /\ chain' = [chain EXCEPT ![t].state = "mined"]
    /\ UNCHANGED <<dbVars, procVars, verdict, received, arriving, failures>>

(* It is abandoned (btc) or falls out of the pool (eth). *)
Drop(t) ==
    /\ chain[t].state = "mempool"
    /\ chain' = [chain EXCEPT ![t].state = "dropped"]
    /\ UNCHANGED <<dbVars, procVars, verdict, received, arriving, failures>>

Deposit(w) ==
    /\ w \in wallets
    /\ Deposited < Total(Phones, Genesis) + MaxDeposits
    /\ arriving' = [arriving EXCEPT ![w] = @ + 1]
    /\ UNCHANGED <<dbVars, procVars, verdict, chain, received, failures>>

ConfirmDeposit(w) ==
    /\ arriving[w] > 0
    /\ received' = [received EXCEPT ![w] = @ + arriving[w]]
    /\ arriving' = [arriving EXCEPT ![w] = 0]
    /\ UNCHANGED <<dbVars, procVars, verdict, chain, failures>>

-----------------------------------------------------------------------------
HandlerStep(p) ==
    \/ ReadAccountBalance(p) \/ ReadAddressBalance(p) \/ Validate(p) \/ Recheck(p)
    \/ Broadcast(p) \/ NodeRefuses(p) \/ CommitSend(p)
    \/ ClaimAwaiting(p) \/ SelectAwaiting(p) \/ CommitNotify(p)

Request(p) ==
    \/ \E from, to \in Phones, amount \in Amounts : SendToPhone(p, from, to, amount)
    \/ \E from \in Phones, address \in Phones \cup Foreign, amount \in Amounts :
          SentToAddress(p, from, address, amount)
    \/ \E w \in Phones : CreateWallet(p, w)

Next ==
    \/ \E p \in Procs : Request(p) \/ HandlerStep(p) \/ BroadcastThenFail(p) \/ Abort(p)
    \/ \E t \in TxIds : Age(t) \/ IsConfirmed(t) \/ IsConfirmedFails(t) \/ Mine(t) \/ Drop(t)
    \/ OnCheckOutdated \/ WatchConfirmations \/ UpdateConfirmed \/ WatcherFails
    \/ \E w \in Phones : Deposit(w) \/ ConfirmDeposit(w)

Spec == Init /\ [][Next]_vars

(***************************************************************************)
(* Fairness: handlers run to their end, the worker calls OnCheckOutdated   *)
(* every hour and time passes, the watcher polls and every query is        *)
(* answered.  Nothing is assumed of users, of the blockchain, nor of       *)
(* failures, which may happen up to their bound.                           *)
(***************************************************************************)
Fairness ==
    /\ \A p \in Procs : WF_vars(HandlerStep(p))
    /\ \A t \in TxIds : WF_vars(Age(t)) /\ WF_vars(IsConfirmed(t))
    /\ WF_vars(OnCheckOutdated)
    /\ WF_vars(WatchConfirmations) /\ WF_vars(UpdateConfirmed)

FairSpec == Spec /\ Fairness

-----------------------------------------------------------------------------
(* Properties *)

Lifecycle == INSTANCE TxLifecycle WITH status <- [t \in TxIds |-> txs[t].status]

(* The committed statuses move along the edges of TxLifecycle only: no row *)
(* leaves success, decline or cancel, although StepTx's last update and    *)
(* updateTxsStatus overwrite whatever status the row has (sm.go:89,        *)
(* notifiers.go:202), and the intermediate states are never committed.     *)
StatusesFollowLifecycle == Lifecycle!Spec

(* Rows that NotifyUserCreatesWallet has claimed stay pending, unassigned  *)
(* and addressed to that wallet until it commits: the hourly cancellation  *)
(* cannot slip between its statements (api.go:267-301).                    *)
ClaimedStayPending ==
    \A p \in Procs : \A t \in notify[p].claimed :
        /\ txs[t].status = "pending"
        /\ txs[t].toPhone = notify[p].wallet
        /\ txs[t].toWallet = Nobody

(* What a committed row says of the blockchain is so: a waiting row was    *)
(* broadcast, a successful external row was mined, a declined one moves    *)
(* nothing; and a broadcast never belongs to a row of another kind.  The   *)
(* watcher acts on answers that may be old (notifiers.go:160-188).         *)
SettledOnChain ==
    \A t \in TxIds :
        /\ txs[t].status = "waiting" => chain[t].state # "none"
        /\ txs[t].type = "external" /\ txs[t].status = "success"
              => chain[t].state = "mined"
        /\ txs[t].status \in {"decline", "cancel", "pending"}
              => chain[t].state \in {"none", "dropped"}
        /\ txs[t].status # "absent" /\ chain[t].state # "none"
              => /\ txs[t].type = "external"
                 /\ chain[t].from = txs[t].from
                 /\ chain[t].amount = txs[t].amount

LedgerBalance(w) == TotalWalletBalance(w, AddressBalance(w))
LedgerTotal == Total(Phones, [w \in Phones |-> LedgerBalance(w)])

(* Broadcasts that no committed row accounts for (yet). *)
Unrecorded ==
    Total({t \in Live : txs[t].status = "absent"}, [t \in TxIds |-> chain[t].amount])

(* The wallets together never claim more coins than the node holds, up to  *)
(* broadcasts whose row is not committed ("wallet total balance should not *)
(* exceed general balance", sm.go:251).                                    *)
Solvency == LedgerTotal <= AccountBalance + Unrecorded

(* No wallet spends more than it has, up to the fee that is charged on top *)
(* of an amount that was compared with the balance alone: amounts of live  *)
(* transactions "cannot be spent again" (models.go:116, sm.go:241).        *)
NoOverdraft == \A w \in wallets : LedgerBalance(w) >= -MaxFee

InStatus(statuses) == {t \in TxIds : txs[t].status \in statuses}
Held == [t \in TxIds |-> txs[t].amount + txs[t].fee]

(* Transfers between wallets neither create nor destroy coins: what was    *)
(* received is in some wallet, reserved by a pending transaction, or sent  *)
(* out ("general balance should remain unchanged",                         *)
(* processing_suite_test.go:273).                                          *)
Conservation ==
    LET out == {t \in InStatus({"waiting", "success"}) : txs[t].type = "external"}
    IN  LedgerTotal + Total(InStatus({"pending"}) \cup out, Held)
          = Total(Phones, received)

(* A transaction is pending only as long as its recipient has no wallet,   *)
(* or that wallet's notification is still under way (docs/api/index.yaml:  *)
(* 384, wallets/api.go:222).                                               *)
NoForgottenPending ==
    \A t \in InStatus({"pending"}) :
        txs[t].toPhone \in wallets
          => \E p \in Procs : /\ pc[p] \in NotifySteps
                              /\ notify[p].wallet = txs[t].toPhone

(* A request whose answer names validation errors leaves a declined row:   *)
(* "error due to which transaction has been declined, one of: processing:  *)
(* insufficient funds" (docs/isc/events.md:41; sm.go:286 declines then,    *)
(* and api.go:178 returns the errors).  Nothing of it has been sent.       *)
ErrorsMeanDecline ==
    \A p \in Procs :
        pc[p] = "commit" /\ send[p].errs # {} => send[p].row.status = "decline"

(* A successful transaction has moved the coins: to the wallet it names in *)
(* the ledger of a coin that settles internally, else on the blockchain    *)
(* ("transaction has been successfully performed", docs/api/index.yaml:    *)
(* 386).                                                                   *)
SuccessMoved ==
    \A t \in InStatus({"success"}) :
        \/ chain[t].state = "mined"
        \/ SupportInternalTxs /\ txs[t].toWallet \in wallets

(* Coins on their way have a row, or the handler that sent them is about   *)
(* to commit it ("should not broke the transaction sending if second       *)
(* request occurs error", btc/node.go:212).                                *)
NoLostBroadcast ==
    \A t \in Live :
        txs[t].status = "absent" => \E p \in Procs : send[p].tx = t

(* Every pending transaction ends, by its recipient's wallet or by the     *)
(* worker (cmd/worker/command.go:48).                                      *)
PendingResolves ==
    \A t \in TxIds : txs[t].status = "pending" ~> txs[t].status # "pending"

(* Once the blockchain has decided on a waiting transaction, its row       *)
(* follows (notifiers.go:86).                                              *)
WaitingResolves ==
    \A t \in TxIds :
        txs[t].status = "waiting" /\ chain[t].state \in {"mined", "dropped"}
          ~> txs[t].status # "waiting"
================================================================================
