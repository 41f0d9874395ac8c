# Verification of zam-wallet-api

Specifications in TLA+ of zam-wallet-api: transaction processing, the
blockchain watcher, registration and creation of wallets, concurrent node
queries, and the listings of the API; the TLC configurations that check them on
small instances, and proofs that TLAPS checks for every value of the constants. File
names without a directory are below `src/internal/processing/`, or belong to this
directory.

    tlc -workers 2 -config BtcConcurrent.cfg MCProcessing.tla
    tlc -workers 2 -config Watcher.cfg MCWatcher.tla
    tlc -workers 2 -config Registration.cfg MCRegistration.tla
    tlc -workers 2 -config Reads.cfg MCReads.tla
    tlapm ProcessingProofs.tla

DoubleSpend, RefusedButSent, Phantom, LostWakeup, LostBroadcast, EthPending,
BtcSerial and BtcLiveness are further configurations of MCProcessing; LedgerProofs, SumLemmas,
WatcherProofs, FanInProofs, RegistrationProofs, ListingProofs and GroupProofs hold
the other proofs.

## 1. The system

zam-wallet-api is the backend of a custodial wallet for BTC, BCH, ETH and ZAM.
Four kinds of processes share one PostgreSQL database (READ COMMITTED) and one
blockchain node per coin:

| process | what it runs | code |
| --- | --- | --- |
| server (several, load balanced) | HTTP requests: create a wallet, send, list | `internal/server`, `internal/wallets`, `internal/processing`, `internal/txs` |
| listener | the registration event of a user: a wallet for each default coin | `cmd/listener`, `internal/isc` |
| worker | every hour: cancel transactions whose recipient never came | `cmd/worker`, `notifiers.go` OnCheckOutdated |
| watcher (one per coin) | on a new block: confirmations, incoming transactions | `cmd/watcher`, `internal/services/nodes/*/loop.go`, `notifiers.go` |

### Components, their state and what makes them correct

| component | state | operations | correct when |
| --- | --- | --- | --- |
| processing API and state machine (`api.go`, `sm.go`, `models.go`) | table txs; the row a request works on | Send, StepTx and its state functions, NotifyUserCreatesWallet, GetTxsesSum | statuses follow the lifecycle; nobody spends what he has not got; transfers conserve money; a pending transaction is continued when its recipient arrives |
| balances (`internal/helpers/balance`) | none; reads txs and the node | AccountBalanceCtx, TotalWalletBalanceCtx | what the wallets claim, the node holds |
| cancellation (`notifiers.go:50`) | txs | OnCheckOutdated | only unclaimed rows are cancelled, and every one of them in the end |
| confirmations (`notifiers.go:86`) | a snapshot of waiting rows, answers | watchConfirmations, updateTxsStatus | a row says what became of its broadcast; every decided row follows |
| incoming transactions (`notifiers.go:207`) | txs, txs_external | watchNewTxs | each incoming transaction is recorded once, none of our own twice |
| wallets API (`internal/wallets`) | table wallets | CreateWallet, GetWallet(s), SendToPhone, SentToAddress | one wallet per user and coin, with an address; pages and balances belong together |
| node adapters (`internal/services/nodes`) | connections | Create, Balance, GetBalance, Send, IsConfirmed, GetIncoming | an error is never mistaken for an answer and a sent payment never for an error; calls end |
| block loops (`btc/loop.go`, `eth/loop.go`) | last block seen | Run | each new block is announced |
| call wrappers (`nodes/wrappers/report.go`) | none | every node call | a failure remains a failure |
| registration (`internal/isc`) | broker deliveries | WrapHandler, RegistrationCompletedFactory | redelivery is harmless, an unfinished delivery comes back |
| listing (`internal/txs`, `server/handlers/txs`) | none; reads txs | Get, GetFiltered, ToGroupViews | pages neither repeat nor omit a transaction; groups partition the page |
| rates (`pkg/services/convert`) | none | GetRate, GetMultiRate, fallback | what the main converter cannot answer because it is out, the fallback answers |
| HTTP handlers (`server/handlers`) | none | lists, single items, the user's total | the views are the user's own side, and groups add up |
| authentication, configuration | none | | not modelled |

### How they interact

* Request → database: one transaction per request (`db.TransactionCtx`), except
  that SendToPhone/SentToAddress look the wallets up in a transaction that ends
  before Send's begins, and that the balance inside Send is read in a further
  connection, outside Send's transaction.
* CreateWallet → processing: a call after the commit of the wallet.
* worker, watcher → database: UPDATEs that compete with the requests' rows.
* Everyone → node: calls outside any transaction, which no rollback undoes.
* Processing → other services: notifications through the broker, sent before
  the commit.

The hard behaviours are thus: checks of values read in other snapshots than the
write; a commit and a node call that cannot be atomic together; rows written
without looking at the status they replace; two statements of one transaction
with two snapshots; a call lost between two commits. They are listed with their
lines under "hazards" in PROJECT.json, each with the properties that watch it,
or with the reason why none does.

## 2. Modules

| module | what it is |
| --- | --- |
| `TxModel` | the data of processing for one coin: rows of txs, the predicates of `models.go`, the verdict of onValidateTxState, the ledger sums. Operators only |
| `TxLifecycle` | abstract specification: the status of a transaction as other processes and clients see it |
| `Processing` | request handlers, worker, watcher, node and blockchain over one database |
| `MCProcessing` | instances for TLC |
| `Watcher` | the loop of the watcher, with both halves of its rounds: confirmations and incoming transactions, beside requests that insert hashes |
| `MCWatcher` | instances for TLC |
| `NodeCalls` | what may come of a call on a node: the coordinator's lookup, the adapters' failures, the wrapper that captures panics. Operators only |
| `Registration` | deliveries of the registration event to the listener's handlers, requests to the server, and CreateWallet statement by statement |
| `Gather` | abstract specification: what the caller of a concurrent node query may rely on |
| `FanIn` | goroutines, channel and wait group of GetWallets, and of GetBalance and GetIncoming of the eth adapter |
| `Rates` | the two converters, the fallback, the retry with the default currency. Operators only |
| `WalletListing` | pages, single wallets and totals, while wallets are created |
| `TxViews` | how rows are shown: views and groups. Operators only |
| `TxListing` | pages, single transactions and answers of sends, while rows commit and settle |
| `MCRegistration`, `MCReads` | instances for TLC; MCReads composes both listings and FanIn |
| `SumLemmas` | lemmas about sums over finite sets |
| `ProcessingProofs`, `LedgerProofs`, `WatcherProofs`, `FanInProofs`, `RegistrationProofs`, `ListingProofs`, `GroupProofs` | theorems for all constants |

Processing looks at requests and lets a reduced watcher act at any time; Watcher
looks at the watcher's rounds and reduces a request to the insert of its hash.
Both implement TxLifecycle. What they share, watchConfirmations, is modelled in
both: in Processing the watcher competes with the requests for rows, in Watcher
its outcome decides whether the round goes on. CreateWallet is one step of
Processing, where the rows it wakes matter, and several of Registration, where
it competes with itself. GetIncoming is one step of Watcher and several of
FanIn. Registration takes the outcomes of Create from NodeCalls; both listings
take rates from Rates, and TxListing takes the statuses and their edges from
TxLifecycle, and the predicates on rows from TxModel.

### State and code: Processing

| variable of Processing | in the code |
| --- | --- |
| `wallets`, `txs` | the committed rows of the tables; a wallet, its id and its address are named by the phone of the owner (unique for a coin) |
| `aged` | rows whose updated_at is older than TimeToWaitRecipient |
| `pc`, `send`, `seen`, `notify` | local variables and open transaction of each request handler: the row Send works on, balances read, rows NotifyUserCreatesWallet has updated (and locked) and selected |
| `verdict` | the watcher's snapshot and its goroutines' answers |
| `chain` | external: what was broadcast for a row and what became of it |
| `received`, `arriving` | external: coins that came to an address from outside, confirmed or not |
| `failures` | bound on crashes and errors |

An action is one SQL statement, one node call, or one commit, with the
computation around it. What an open transaction wrote stays in the handler's
variables until the action that commits. Which statement belongs to which
action:

* `SendToPhone`, `SentToAddress`: the lookup of both wallets; the row that Send
  will insert. The row's id is reserved here; an aborted request burns it, as a
  sequence does.
* `ReadAccountBalance`, `ReadAddressBalance`, `Validate`: the three reads of
  onValidateTxState and its verdict with the step to the next state.
* `Recheck`, `Broadcast`, `NodeRefuses`, `BroadcastThenFail`: onSendExternalTx.
  `BroadcastThenFail` is btc's Send whose second call, for the fee, fails.
* `CommitSend`: the last update of StepTx and the commit.
* `CreateWallet`: the insert, the node's new address and the commit;
  `ClaimAwaiting`, `SelectAwaiting`, `CommitNotify`: UPDATE, SELECT, and the
  StepTx of each selected row with the commit of NotifyUserCreatesWallet.
* `Abort`: any failed statement, call, notification or commit, and the death of
  the process. Everything not committed is gone; the handler's caller is told,
  and nobody retries.
* `OnCheckOutdated`: the worker's UPDATE, which waits for locked rows.
* `WatchConfirmations`, `IsConfirmed`, `IsConfirmedFails`, `UpdateConfirmed`,
  `WatcherFails`: snapshot, each goroutine's query, the two updates in one
  transaction.
* `Age`, `Mine`, `Drop`, `Deposit`, `ConfirmDeposit`: time and the blockchain.

The coin decides what the node answers (`AccountBalance`, `AddressBalance`,
`NodeAccepts`, `Announced`, `Observed`) and whether transfers between wallets
settle in the database (`SupportInternalTxs`, btc and bch only).

### State and code: Watcher

| variable of Watcher | in the code |
| --- | --- |
| `coin` | the argument of the watcher; one behaviour is about one coin |
| `rows` | the rows of txs that have a row in txs_external, by their hash: whether a request or the watcher recorded it, the recipient's wallet, the status |
| `sender` | the request that sends this transaction: broadcast (`sent`), hash inserted in an open transaction, committed, failed |
| `pc`, `lastBlock`, `verdict`, `listing`, `new`, `created` | local variables of Run, watchConfirmations and watchNewTxs: the answers, incomingTxsMap, newTxsHashes, the rows its open transaction has inserted |
| `chain`, `own`, `reverted`, `log` | external: what became of a blockchain transaction, who sent it, whether it was mined and failed, the outputs in the order the node learned of them |

`Poll`, `WatchConfirmations` ... `CommitIncoming` follow the text of
btc/loop.go, eth/loop.go and OnNewConfirmation. A wait for the unique index is
a guard (`CreateOwn`, `CreateIncoming`), a violated constraint ends the
transaction (`CreateOwn` to `failed`, `CreateIncomingRejected`). The INSERT into
txs has no effect of its own, since its rows are seen together with those of
txs_external. `merrors.Append(nil)` without errors is taken to be nil, so a
round without waiting transactions goes on. The explorer is asked per address;
since an ethereum transfer is listed at one address, one step stands for all
queries, and `RoundFails` for one that fails. The node may have addresses that no
wallet has (`Nobody` in `log`): watchNewTxs keys entries by hash first and joins
them with wallets afterwards, so the last output of a hash decides. A received
bitcoin transaction that is gone is declined only while bitcoind lists it with -1
confirmations, and else recorded as waiting (`EntryStatus`). A node that cannot list its
addresses would make GetIncoming wait for ever (FanIn, `ListAddressesFails`);
Watcher assumes that it can.

### State and code: Registration

| variable of Registration | in the code |
| --- | --- |
| `kind` | what an event holds: a good phone, one that coercePhoneNumber rejects, none, or text that is not JSON |
| `message`, `holder` | external: the broker's queue, and the handler whose answer it will take |
| `pc`, `event`, `todo`, `coin`, `made`, `failed` | local variables of a handler (or a request): its delivery, coins it has not come to, the coin of its open transaction, what Create returned, the collected error |
| `wallet` | committed rows of wallets for the user: none, with an address, or with an empty one |
| `told` | coins for which NotifyUserCreatesWallet has been called |
| `accounts` | external: accounts made at the nodes |
| `failures` | bound on crashes, errors, panics and exits |

`Deliver` is WrapHandler up to the handler, with its parse errors; `Answer` is
its end. `SelectWallets` and `CountWallets` are the two statements of
GetWallets; the second one panics (`CountPanics`) if the first found nothing and
the second does. `Insert` ... `Commit` are the transaction of CreateWallet; an
insert waits while another transaction has the coin's row. `GenerateOk`,
`GenerateEmpty`, `GenerateFails` and `GenerateEnds` are the outcomes that
NodeCalls gives Create: success, a captured panic, an error, a panic or an exit.
A panic ends the listener, which does not recover, and fails one request of
the server, where gin recovers.

Assumed: the broker returns what is answered by Nack or was in the hands of a
process that ended, and after closing a channel returns what was delivered on
it; every default coin is dialed; the reporter is configured per process
(`Reporting`).

### State and code: FanIn

| variable of FanIn | in the code |
| --- | --- |
| `call`, `jobs` | the call and its wallets or addresses |
| `lister` | foreachAddress: before, after, or failed in eth_accounts |
| `worker`, `answer` | each goroutine, and what the node answered it |
| `stored`, `collected` | the slice `wts`; what was received from the channel |
| `channel`, `caller`, `result` | the channel, the caller, the error it returns |
| `limits` | bound on the explorer's answers 403 |

`Ask` is the node call of a worker, `RateLimited` and `Retry` the loop of
eth/node.go:278, `Finish` is wg.Done, `Close` the goroutine behind wg.Wait. A
send on the unbuffered channel and its receive are one step (`Receive`). The
contexts of all callers are without an end, so the branch of line 280 for an
ended one is never taken and is no action.

### State and code: the listings

| variable of WalletListing | of TxListing | in the code |
| --- | --- | --- |
| `row`, `id`, `lastId` | `place`, `created`, `txId`, `status` | rows of the table, with those of open transactions |
| `at`, `request`, `limit`, `cursor` | `step`, `asked`, `from` | the request and its parameters |
| `page`, `total`, `more` | `first`, `txPage`, `txMore` | local variables of GetWallets and of GetFiltered |
| `quoted` | `txQuoted` | what was asked of the converter and what it gave |
| `due`, `shown` | `owed`, `seen` | of the client: what it may expect, what it has seen |
| `retries` | | bound on failing balance queries |

An action is one statement, or one call of the converter with the response made
from it. A wallet's page is two statements (`SelectWallets`, `CountWallets`),
one of transactions three (`SelectFirst`, `CountTxs`, `FindTxs`). `TakeTime` and
`InsertTx` are two steps, since gorm takes created_at before the row gets its
id. The table of transactions keeps only what the listing reads: `Settle` lets a
status take any edge of TxLifecycle. Ordering by created_at leaves rows of the
same time in any order.

Left out: the filter by coin of wallets, which leaves at most one wallet; the
"count" of transactions, which is presentation; filters by address. A filter
that is not asked for is "any". A wallet is named by its owner. A row from
a user to himself can only be a declined one (`SentAssumption`); the run has none. cryptocompare is taken to list BTC, BCH and
ETH, icex what its table has; both attempts of the retry with the default
currency find the services in the same state.

### Abstractions of Processing

* One coin; coins share no row and no address.
* A request that is refused before any state changes (zero or negative amount,
  own wallet, malformed phone, unknown wallet) is not an action; its guard is.
* The two lookups of SendToPhone and SentToAddress are one step: wallets are
  never deleted, so only the recipient's matters. The two reads of `Recheck`
  are one step; they only affect what is reported.
* A statement is atomic, and an UPDATE waits for row locks. A deadlock that
  PostgreSQL breaks is an `Abort`.
* StepTx's Update writes every non-blank column by id. That includes what the
  handler read earlier; so `Woken` builds on the selected row, and
  `CommitNotify` resets `aged` (gorm refreshes updated_at).
* No transaction stays open for TimeToWaitRecipient (72 h by default): the guard
  of `Age`.
* "Mined" means deep enough that the adapter calls it confirmed; there are no
  reorganisations of that depth. getreceivedbyaddress never decreases.
* Duplicates in the watcher's join and its early return for "nothing to update"
  do not change what is written.
* The branch of onSendExternalTx for ErrAddressInvalid is not an action: no
  adapter's Send returns it (see section 3). A failing Send of Zam panics, which
  rolls back; the process is taken to have no error reporting, whose wrapper
  swallows the panic. NodeCalls models the wrapper, and Registration what it
  does to Create.
* watchNewTxs, and with it the clash of hashes, is left to Watcher.

## 3. Properties and runs

Each module ends with its properties; each comment names its lines.

| property | says |
| --- | --- |
| `StatusesFollowLifecycle` | refinement: the committed statuses behave as TxLifecycle. Not by construction: StepTx and updateTxsStatus overwrite a status without looking at it |
| `ClaimedStayPending` | rows claimed by a notification are neither cancelled nor woken nor readdressed by others before it commits |
| `SettledOnChain` | a committed row says what became of its broadcast |
| `Solvency` | the wallets never claim more than the node holds, up to broadcasts that have no committed row: yet, or because they are lost for good |
| `NoOverdraft` | no ledger balance falls below zero by more than one fee, which is charged on top of an amount that was checked without it |
| `Conservation` | what was received is in a wallet, reserved, or sent out |
| `NoForgottenPending` | pending only while the recipient has no wallet, or its notification is under way |
| `ErrorsMeanDecline` | a request that is answered with validation errors has been declined, and has sent nothing |
| `PendingResolves`, `WaitingResolves` | liveness |
| `RowsAgreeWithChain` (Watcher) | success was confirmed, decline moves nothing |
| `RecordedOnce` (Watcher) | whoever commits a hash first, the row keeps its side and its wallet |
| `IncomingRecorded` (Watcher) | a listed transaction whose last listed output pays a wallet is recorded, unless it is pushed out of the list |
| `NoSendAfterClose` (FanIn) | no goroutine can send on the closed channel |
| `ImplementsGather` (FanIn) | refinement: the call is one query; no answer is lost or counted that is not one, one error is the error of all |
| `CallReturns` (FanIn) | liveness: a call returns, unless the node could not list its addresses |
| `AckedMeansServed` (Registration) | an event is given up only when the user has a wallet of every default coin |
| `AccountsNotWasted` (Registration) | concurrent creations make one account; each lost account costs a failure |
| `WalletHasAccount` (Registration) | an empty address needs a captured panic of zam's adapter |
| `ToldUnlessFailed` (Registration) | without failures every wallet is announced to the processing |
| `RegistrationServed` (Registration) | liveness: every good event is given up in the end |
| `WalletWalkComplete` | a walk shows each wallet there was at its beginning, and none twice |
| `MoreAreCounted` | a page that has a successor has a total larger than itself |
| `OutageCovered`, `TxOutageCovered` | the main converter's outage is not seen; TxOutageCovered admits that groups fail for the want of the rate their total needs |
| `TxWalkFaithful` | a walk shows what stays in the listing once, except rows whose ids and times are in different orders |
| `OwnSide` | views have the user's wallet, and the direction that was asked for |
| `GroupsCorrect` | groups are the page divided by periods, with their totals |
| `WalletWalkEnds`, `TxWalkEnds` | liveness: walks end |

### Runs that pass

* **BtcConcurrent**: two handlers, worker, watcher and blockchain in all
  interleavings; 2 users, 1 foreign address, 2 rows, amounts {1, 2}, fee up to
  1, one deposit, one failure. Two handlers and two rows are what every race of
  the hazards needs (two sends; a send and a notification; a notification
  beside the worker or the watcher). Checks what holds under concurrency. 0.6 M states.
* **BtcSerial**: one handler, so requests do not overlap, beside worker,
  watcher and blockchain; 3 users, 3 rows, so that a send can follow a received
  transfer and a recipient may have several pending rows; one address the node
  refuses. Checks the ledger properties, which concurrent handlers break. 0.6 M states.
* **BtcLiveness**: two handlers, two rows, amount 1, one failure, `FairSpec`. No
  symmetry, since the properties are temporal.

* **Watcher**: both coins, 2 hashes, 1 wallet, a list of 2 entries, so that a
  second transaction of two outputs pushes the first one out, 1 failure, `FairSpec`.
  Two hashes because a round commits all or none of its list, so a clash on one
  decides on the other; a bitcoin transaction may pay the wallet twice, or pay it
  and an address of the node that no wallet has, in any order. The mutant of
  IncomingRecorded stores the last block as the loop's comment has it, and shows
  that the polls that are rounds for no new block are what makes failed rounds
  good. 0.27 M states.
* **Registration**: two events, the first good and the second of any kind, two
  handlers of the listener, one request of the server, a coin of bitcoind and
  ZAM on the test network (the one whose Create may panic, err and end the
  process), reporting in the server only, so that panics are captured in one
  process and not in the other; one failure, `FairSpec`. Two handlers and a
  request are one more than a clash on a coin needs. 0.18 M states.
* **Reads**: what clients read. Of the listings, 3 wallets (ETH and ZAM with a balance, BTC empty) and pages of 1
  or 2; 3 transactions (one that waited for the user's phone, one to an
  address outside, one from outside that is there at first), pages of 1, 2 or
  all, with and without groups, zones, each filter, single items; every answer
  of both rate services, with and without a fallback for wallets. Three rows are
  a page, its successor, and one that commits late with a smaller id. Of the
  queries behind GetWallets and the eth adapter (FanIn), all three calls, one
  after the other, over any subset of 3 items, with two rate limits: three items
  leave one to fail, one to succeed and one to be limited. A behaviour follows
  the client of one of the three modules, since they share no state. 0.1 M states.

The passing runs of Processing are about btc, the only kind of coin whose ledger
is in the database and has something to lose there. For ETH and Zam the same
actions run in EthPending, and `ProcessingProofs` is about every coin.

Deadlock is checked in every run, and cannot happen: worker and watcher never
stop. What could hang is a request, and liveness says that it does not. Failures are counted by `failures`, so each bound says how many errors or
crashes a behaviour may contain, at any place.

### Runs that show a disagreement

Each checks one property that a comment, a document or a test states.

| run | what happens | stated in |
| --- | --- | --- |
| DoubleSpend | two sends from one wallet are validated against the same committed sum and both commit | `models.go:116`, `sm.go:241` |
| RefusedButSent | a second send commits between a request's validation and the comparison that onSendExternalTx repeats: the request is answered with insufficient funds, the coins are sent all the same, and the row waits for its confirmations | `docs/isc/events.md:41`, `docs/api/index.yaml:383`, `sm.go:286` |
| Phantom | a send commits between UPDATE and SELECT of NotifyUserCreatesWallet: the row becomes success with no recipient wallet, and its amount is nobody's | `processing_suite_test.go:273` |
| LostWakeup | the recipient's wallet is created and notified between the lookup and the commit of a send: the row is pending although the wallet exists, until it is cancelled | `docs/api/index.yaml:384` |
| LostBroadcast | btc's Send fails after the coins were sent: row and hash are rolled back | `btc/node.go:212` |
| EthPending | without internal transactions, the awaited row becomes success and nothing is sent | `docs/api/index.yaml:386`, `sm.go:132` |

`NoOverdraft`, `Conservation` and `NoForgottenPending` are in both lists: they
hold for one handler and fail for two, which separates the ledger arithmetic
(right) from the isolation it needs (missing).

Further disagreements have no run:

* `sm.go:172` keeps a declined row for an address the node refuses, and
  `nodes/txs.go:40` promises the error for it; no adapter's Send returns it, so
  the transaction is rolled back.
* `api.go:187` says that a wallet's input is all internal and external
  transactions; the query counts internal ones only, external income being the
  node's.
* The page of transactions ends where an id is, and is ordered by time
  (`txs/impl.go:102`): TxWalkFaithful states the rows it is right for.
* The coin filter joins the sender's wallet, so incoming transactions from
  outside never pass it; the status filter is validated in lower case and
  compared as it was spelled; a sender outside is shown by the address that was
  paid, the user's own.
* The total of wallets counts from the cursor on, so it shrinks from page to page.
* "ignore error" (`handlers/txs/handlers.go:241`): groups and the user's total
  dereference the missing rate. With icex alone, or with any coin it does not
  know, such as ZAM, there is no rate and no fallback either.
* icex renames the coins in its caller's list, so that a retry with the default
  currency fails without the fallback's wrapper, which copies the list.
* The default of the user's total, "BTC", is used as the name of a currency.
* `Close` of the reporting coordinator calls itself (`report.go:47`).
* A captured panic of Create commits a wallet with an empty address
  (`GenerateEmpty`), and a wallet committed without its notification is never
  announced later (`ToldUnlessFailed`).
* A registration whose phone cannot be parsed is delivered again for ever
  (`PhoneRejected`); it keeps nobody else from being served.

### Fairness

`Fairness` is weak fairness of every step of a handler that has begun (a
goroutine runs to its end), of the worker and of the watcher's steps (both loop
for ever), of time passing for a row (`Age`), and of the answer to each
confirmation query (the btc client's HTTP calls end). Nothing is assumed of
users, of the blockchain, of deposits or of failures. Watcher assumes the same:
polls, the steps of a round, and requests that insert or commit. Weak fairness suffices:
each of these actions stays enabled until it is taken or its purpose is gone; an
UPDATE that waits for a lock is waiting for a handler that ends.

FanIn assumes that as long as one of its goroutines can go on, one does, and that
HTTP calls end; each has a bounded number of steps, so nothing more is needed. It
assumes nothing of the explorer: its limits are bounded by `limits`, for a worker
that is limited for ever waits for ever. Registration assumes that goroutines run, and that the
broker delivers an event that is queued again and again; this is strong
fairness, for a handler may be busy, and be free again, with other events.
The listings assume that a request's statements end and that the client goes on;
nothing is assumed of those who write.

## 4. Proofs

### Processing

`ProcessingProofs` proves, for any number of handlers, users, rows and failures
and for every coin:

| theorem | statement |
| --- | --- |
| `TypeCorrect` | Spec => []TypeOK |
| `ClaimsHold` | Spec => []ClaimedStayPending |
| `RowsAgreeWithChain` | Spec => []SettledOnChain |
| `LifecycleImplemented` | Spec => StatusesFollowLifecycle |

None of these invariants is inductive. `SettledOnChain`, say, is preserved by
UpdateConfirmed only if an answer "confirmed" is about a row that still waits
and whose broadcast was mined, and by CommitSend only if the row in the
handler's hands agrees with what it broadcast. `IInv` says what each actor may
rely on between its steps:

* `RowsWellFormed`: which statuses, kinds and recipients occur together in a
  committed row;
* `ChainAgrees`: how committed rows and broadcasts belong together;
* `Sending(p)`: per step of Send, the status and kind of the row in hand and
  whether its broadcast exists; `SendsDistinct`: no two handlers share a row id,
  and no handler's row is committed;
* `Notifying(p)`: claimed rows are pending and addressed to the wallet; selected
  rows are pending, and those not claimed came after the claim;
  `NotifiesDistinct`: no two handlers notify the same wallet;
* `AnswersHold`: the watcher's rows are external and still waiting, and its
  answers are still true, because only it moves a waiting row and mined or
  dropped is final.

TLC checked `IInv` as an invariant of BTC and ETH instances before the proof.
The proof has one lemma per action over the update lemmas `RowUpdates`,
`StatusUpdates` and `RecordUpdates`, and `InvHolds` collects them; the
refinement needs `IInv` in every step that commits. The proofs rest on the
named assumptions of TxModel and Processing alone (disjointness of names,
positive amounts, natural bounds).

### Watcher

`WatcherProofs` proves `TypeCorrect`, `RowsAgree` (Spec => []RowsAgreeWithChain),
`OnceRecorded` (Spec => RecordedOnce) and `LifecycleImplemented` for any hashes,
wallets, length of the list and number of failures. Its `IInv` is a conjunction
per hash: a row says the truth (`RowInv`); of the request and the round that
record a hash at most one has inserted it, and neither when it is committed
(`HashInv`); an answer is about a row that still waits, and is still true
(`VerdictInv`); an entry of the list is still true (`ListingInv`). RecordedOnce
alone is not inductive: it holds because a hash in `new` that is committed
meanwhile is not in `created`, so the round cannot commit. `RowStep` derives
from `IInv` what a step may do to a row, and gives RecordedOnce and the
refinement.

### FanIn

`FanInProofs` proves `TypeCorrect` (CallSpec => []CallTypeOK), `ChannelSafe` (CallSpec
=> []NoSendAfterClose) and `GatherImplemented` (CallSpec => ImplementsGather) for any
items. The invariant
says per item that it has an answer exactly when its worker is past asking, and
that a worker past sending has sent what was to be sent; a closed channel means
that all are done. The refinement maps every step of a worker to a stutter,
except the answer of the node (Decide), and Return to Answer: when the channel
is closed, all answers are decided, and those received or stored are all values.

### Registration

`RegistrationProofs` proves `TypeCorrect`, `AckedServed` (Spec =>
[]AckedMeansServed), `OneAccount` (Spec => []AccountsNotWasted), `ToldOfWallets`
(Spec => []ToldUnlessFailed) and `EmptyNeedsPanic` (Spec => []WalletHasAccount)
for any coins, events, handlers, requests and failures. AckedMeansServed follows from
`ServedInv`: a handler without an error has left behind only coins whose wallet
exists. That a row waits for the open one of the same coin is `LockInv`, and with it
each account is in a committed wallet, in the hands of the goroutine that has
the open row, or lost by a failure. ToldUnlessFailed is inductive with the
types: between Commit and Notify a goroutine answers for its wallet.
WalletHasAccount needs `EmptyInv`, that an empty address in hand came from zam's
adapter under error reporting.

### Ledger

`LedgerProofs` proves what the runs of BtcSerial and BtcConcurrent check of the
money:

| theorem | for | statement |
| --- | --- | --- |
| `LedgerSolvent` | BTC, any handlers | Spec => []Solvency |
| `CoinsConserved` | BTC, one handler | Spec => []Conservation |
| `WalletsCovered` | BTC, one handler | Spec => []NoOverdraft |
| `PendingRemembered` | every coin, one handler, no failures | Spec => []NoForgottenPending |

The hypotheses are not for the sake of the proofs. For ETH and Zam the balance
is the node's, and the ledger in the database is about nothing. With two handlers
NoOverdraft, Conservation and NoForgottenPending are false, which the runs
DoubleSpend, Phantom and LostWakeup show; ErrorsMeanDecline is false then as well
(RefusedButSent), and is no theorem: with one handler the second comparison of
onSendExternalTx cannot fail, and nothing would be left to say. A notification
that fails is not taken up again, so NoForgottenPending needs that none fails;
the other three hold with any number of failures.

Solvency and Conservation compare sums over wallets of sums over rows.
`SumLemmas` exchanges the order of summation (`SumByKey`): all wallets together
are one sum over rows, in which each row stands for what it adds to its
recipient's wallet and takes from its sender's. What is left is a fact about each
row, which follows from `IInv` with `LInv` (senders are users, transfers inside
the service are free). Broadcasts without a committed row are on the node's side of
Solvency, so it does not say that there are none: NoLostBroadcast does, and fails. Conservation adds `AloneInv`: a successful internal row
names the wallet it went to, and the two statements of NotifyUserCreatesWallet
find the same rows. NoOverdraft adds `SendCovered`, what a request in validation
knows: from the read of the balance to the commit the sender's balance does not
go down (`HandStep`, `RowStep` say what each action does to the row in hand and
to the committed ones), so it still covers the amount when the row is committed.

`SumLemmas` proves the facts about `SumFunctionOnSet` this rests on: that a sum
is an integer, that any element may be taken out of it, that it is monotonic,
that it does not depend on elements that add nothing, and the exchange. tlapm
cannot use an induction theorem that takes a predicate as a parameter; so the
induction over finite sets is stated once about a set of subsets
(`SubsetInduction`, `ElementInduction`) and is proved by a smallest subset that
is not in it. The tables are assumed to be finite (`TablesAssumption`).

### Listings

`ListingProofs` and `GroupProofs` prove of the wallets (WalletSpec) and of the transactions
(TxSpec), for any rows, limits, requests and sets of converters:

| theorem | states |
| --- | --- |
| `WalletTypes`, `TxTypesKept` | []WalletTypeOK, []TxTypeOK |
| `WalksComplete` | []WalletWalkComplete |
| `MoreCounted` | []MoreAreCounted |
| `OutagesCovered`, `TxOutagesCovered` | []OutageCovered, []TxOutageCovered |
| `TxWalksFaithful` | []TxWalkFaithful |
| `OwnSideShown` | []OwnSide |
| `GroupsRight` | []GroupsCorrect |

Wallets: what was shown has an id up to the cursor; the page in hand lies beyond
the cursor; a wallet that is due and neither shown nor on the page lies beyond
the page and keeps `more` true (`IInv`). A wallet committed during the walk may
have an id the cursor has passed, because ids are given before the commit; it is
not due, and is never shown twice either. `CountsInv` is MoreAreCounted with the
steps it holds in: the wallet that makes `more` true was counted beside the page.
`QuoteInv` says which coins were asked for and got; the lemmas `RateCovers` and
`MultiRateCovers` say when the fallback and the retry of Rates give all of them.

Transactions: `TxIInv` says that ids are given once and in order (`IdsInv`); that
each row of the page is a committed one as it was read, below the cursor, and the
page in the order of the times (`TxPageInv`); and for a row whose id is in the
order of the times, that once shown it lies behind the cursor (`SeenInv`), and
owed and not shown yet it is `Ahead`: below the cursor, not before what the first
statement found, and on the page or below its last id with txMore true
(`OwedInv`). Rows that are `Disordered` stay so, since neither ids nor times
change. OwnSide needs `SelfInv`: a row from the user to himself would pass the
filter as incoming and be shown as outgoing. Two assumptions say what is asked and written:
`SentAssumption`, that Processing declines a transaction to oneself (sm.go:227),
and `TxRequestsAssumption`, that a direction is one of the two or none. TLC
checked the invariants on the instance of the run before their proof.

Groups: ToGroupViews is a recursive function, from the end of the page to its
beginning. `ChainExists` and `ChainIsCut` say of every function of that form that
its value is the sequence of what is built at each of a number of cuts, the first
at 1, the last behind the page, each the successor of the one before. `Upwards`
and `Downwards` are the induction over numbers this takes, stated about a set like
those of SumLemmas. So the groups are the parts between cuts (`GroupsCut`,
`PageGroup`). `PartFound`, `LengthsSum` and `PartsFlattened` say of any cuts that
each index is in one part, the one `GroupOf` finds by sums of lengths, and that the
parts joined are the whole. What remains is about the times: `InPeriod`, that
all from a cut to the next are in the period of the first, and `PastPeriod`, that
the next is in an earlier one, for which the page must descend in time
(`TxPageInv`). The totals need that a row that is shown is a status the listing
knows (`StatedInv`), and that amounts and rates are integers. Assumed of the
constants: that requests for a list have a zone, and that no row begins as absent
or has a negative amount (`TxRequestsAssumption`, `RowsAssumption`).

### What is only model-checked

Every safety property of a passing run is a theorem, of the specification or, for
the ledger, of it with the hypotheses of the table above. Liveness under fairness
is out of the prover's reach: `PendingResolves`, `WaitingResolves`, `IncomingRecorded`,
`CallReturns`, `RegistrationServed`, `WalletWalkEnds`, `TxWalkEnds`.

## 5. Plan

In this order; the modules marked (proof) are written without recursive
operators, to be proved about.

1. `TxModel`, `TxLifecycle`, `Processing`, `ProcessingProofs`: done.
2. `Watcher`, `WatcherProofs`: done.
3. `NodeCalls`, `Registration`, `RegistrationProofs`: done.
4. `Gather`, `FanIn`, `FanInProofs`: done.
5. `Rates`, `WalletListing`, `TxViews`, `TxListing`: done.
6. `SumLemmas`, `LedgerProofs` (theorems about Spec with one handler as their
   hypothesis) and `ListingProofs`: done.
7. `GroupProofs`: done.
8. `ConnectionPool`: requests that hold one connection and wait for a second.

Not modelled and not planned: parsing of HTTP requests, authentication, status
codes and texts; key handling, encoding of amounts and of calls in the adapters;
configuration and start-up; the broker's and the database's clients; what other
services do with messages. They keep no state of their own, and their failures
are failures of the calls that are modelled. Zam's Send under error reporting
(a captured panic commits a row with an empty hash) is left out of Processing,
whose rows are named by what was broadcast.
