--------------------------------- MODULE TxListing ---------------------------------
(***************************************************************************)
(* The transactions of a user as the API shows them, while rows are        *)
(* written and change their status: one of them, the answer to a request   *)
(* that has sent one, and pages, which are cut by id and ordered by the    *)
(* time created.  A page is three statements, each of which sees what is   *)
(* committed when it runs.                                                 *)
(***************************************************************************)
EXTENDS TxViews, FiniteSets, FiniteSetsExt, Functions, SequencesExt

CONSTANTS
    Txs,           \* rows of the table
    Sent,          \* of each row, what does not change
    FirstStatus,   \* the statuses each may be committed with
    Earlier,       \* the rows that are in the table at first, in order
    Me,            \* the user
    TxRequests,    \* what clients ask for
    TxConverters   \* the configured converters

ASSUME TxsAssumption == IsFiniteSet(Txs)
ASSUME EarlierAssumption == Earlier \in Seq(Txs) /\ IsInjective(Earlier)
ASSUME MeAssumption == Me # Nobody
(* Processing declines a transaction to oneself (sm.go:227). *)
ASSUME SentAssumption ==
    \A t \in Txs : Model!IsSelfTx(Sent[t]) => FirstStatus[t] \subseteq {"decline"}
(* A committed row has a status, and no row a negative amount. *)
ASSUME RowsAssumption ==
    \A t \in Txs : "absent" \notin FirstStatus[t] /\ Sent[t].amount \in Nat
(* Any other word for the direction is none, and who sends has no filter.  *)
ASSUME TxRequestsAssumption ==
    \A r \in TxRequests : /\ r.filter.direction \in {"any", "incoming", "outgoing"}
                          /\ r.kind = "send" => r.filter.direction = "any"
                          /\ r.kind = "list" => r.zone \in Int
ASSUME TxConvertersAssumption == TxConverters \subseteq Converters

VARIABLES
    place,     \* where each row is: timed, inserted in an open transaction, committed
    created,   \* created_at
    txId,      \* ids, in the order of the inserts
    status,    \* statuses of the committed rows
    step,      \* where the request is
    asked,     \* what it asks for
    from,      \* FromID
    first,     \* the smallest id that the first statement has found
    txPage,    \* what was read
    txMore,    \* the flag hasNext
    txQuoted,  \* the coins whose rates were asked for and were got, and whether
               \* one of the converters was able to answer
    owed,      \* in the listing since the walk began
    seen       \* how often the walk has shown each, 2 for more than once

Lifecycle == INSTANCE TxLifecycle WITH TxIds <- Txs

tableVars == <<place, created, txId, status>>
requestVars == <<step, asked, from, first, txPage, txMore, txQuoted>>
txVars == <<tableVars, requestVars, owed, seen>>

NoTxQuote == [coins |-> {}, rates |-> {}, covered |-> FALSE]

TxTypeOK ==
    /\ place \in [Txs -> {"none", "timed", "open", "committed", "gone"}]
    /\ created \in [Txs -> Nat]
    /\ txId \in [Txs -> 0 .. Cardinality(Txs)]
    /\ status \in [Txs -> Lifecycle!Statuses]
    /\ step \in {"idle", "first", "count", "find", "rates", "answered", "failed"}
    /\ asked \in TxRequests \cup {Nobody}
    /\ from \in Nat /\ first \in Nat /\ txMore \in BOOLEAN
    /\ \A i \in DOMAIN txPage : txPage[i].tx \in Txs
    /\ txQuoted.rates \subseteq txQuoted.coins
    /\ owed \subseteq Txs /\ seen \in [Txs -> 0 .. 2]

Number(t) ==
    IF t \in Range(Earlier) THEN CHOOSE i \in DOMAIN Earlier : Earlier[i] = t ELSE 0

TxInit ==
    /\ place = [t \in Txs |-> IF t \in Range(Earlier) THEN "committed" ELSE "none"]
    /\ created = [t \in Txs |-> Number(t)] /\ txId = [t \in Txs |-> Number(t)]
    /\ status \in [Txs -> Lifecycle!Statuses]
    /\ \A t \in Txs : status[t] \in IF t \in Range(Earlier) THEN FirstStatus[t] ELSE {"absent"}
    /\ step = "idle" /\ asked = Nobody
    /\ from = 0 /\ first = 0
    /\ txPage = <<>> /\ txMore = FALSE /\ txQuoted = NoTxQuote
    /\ owed = {} /\ seen = [t \in Txs |-> 0]

(* A row with a status; a transaction that waited for its recipient has    *)
(* got the wallet when it is over.                                         *)
Row(t, s) ==
    LET tx == Sent[t]
    IN  [tx |-> t, id |-> txId[t], created |-> created[t], status |-> s,
         from |-> tx.from, toPhone |-> tx.toPhone, toAddress |-> tx.toAddress,
         toWallet |-> IF tx.toWallet = Nobody /\ s = "success" THEN tx.toPhone
                      ELSE tx.toWallet,
         type |-> tx.type, coin |-> tx.coin, amount |-> tx.amount]

-----------------------------------------------------------------------------
(* Filters; a request that leaves one out has "any". *)

IsParty(tx, direction) ==
    LET receives == tx.toWallet = Me /\ tx.status \in {"waiting", "success"}
    IN  IF direction = "incoming" THEN receives
        ELSE IF direction = "outgoing" THEN tx.from = Me
        ELSE tx.from = Me \/ receives

(* The coin is that of the wallet it comes from; the name of the status is *)
(* compared as it was spelled.                                             *)
Passes(tx, f) ==
    /\ f.coin = "any" \/ (tx.from # Nobody /\ tx.coin = f.coin)
    /\ f.status = "any" \/ tx.status = f.status
    /\ f.wallet = "any" \/ f.wallet \in {tx.from, tx.toWallet}
    /\ f.recipient = "any" \/ f.recipient \in {tx.toWallet, tx.toPhone}
    /\ f.since <= tx.created /\ tx.created <= f.until
    /\ IsParty(tx, f.direction)

InListing(t) == place[t] = "committed" /\ Passes(Row(t, status[t]), asked.filter)

\* Mutant of BelowCursor: the page's last transaction is on the next one as well.
UpToCursor(t) == from # 0 => txId[t] <= from

(* Pager *)
BelowCursor(t) == from # 0 => txId[t] < from

Listed1(t) == InListing(t) /\ BelowCursor(t)

-----------------------------------------------------------------------------
(* The table *)

(* The time is taken first; two rows may get the same. *)
TakeTime(t) ==
    /\ place[t] = "none"
    /\ place' = [place EXCEPT ![t] = "timed"]
    /\ \E pause \in {0, 1} :
          created' = [created EXCEPT ![t] = Max({1} \cup Range(created)) + pause]
    /\ UNCHANGED <<txId, status, requestVars, owed, seen>>

InsertTx(t) ==
    /\ place[t] = "timed"
    /\ place' = [place EXCEPT ![t] = "open"]
    /\ txId' = [txId EXCEPT ![t] = Cardinality({u \in Txs : txId[u] # 0}) + 1]
    /\ UNCHANGED <<created, status, requestVars, owed, seen>>

CommitTx(t) ==
    /\ place[t] = "open"
    /\ place' = [place EXCEPT ![t] = "committed"]
    /\ \E s \in FirstStatus[t] :
          <<"absent", s>> \in Lifecycle!Edges /\ status' = [status EXCEPT ![t] = s]
    /\ UNCHANGED <<created, txId, requestVars, owed, seen>>

RollBackTx(t) ==
    /\ place[t] = "open"
    /\ place' = [place EXCEPT ![t] = "gone"]
    /\ UNCHANGED <<created, txId, status, requestVars, owed, seen>>

Settle(t) ==
    /\ place[t] = "committed"
    /\ \E s \in Lifecycle!Statuses :
          <<status[t], s>> \in Lifecycle!Edges /\ status' = [status EXCEPT ![t] = s]
    /\ UNCHANGED <<place, created, txId, requestVars, seen>>
    /\ owed' = {u \in owed : InListing(u)'}

-----------------------------------------------------------------------------
(* GetFiltered *)

SelectFirst ==
    /\ step = "first" /\ asked.kind = "list"
    /\ IF \E t \in Txs : Listed1(t)
       THEN /\ first' = Min({txId[t] : t \in {u \in Txs : Listed1(u)}})
            /\ step' = "count"
       ELSE first' = 0 /\ step' = "rates"
    /\ UNCHANGED <<tableVars, asked, from, txPage, txMore, txQuoted, owed, seen>>

(* The count leaves out the cursor. *)
CountTxs ==
    /\ step = "count"
    /\ step' = IF \E t \in Txs : InListing(t) THEN "find" ELSE "rates"
    /\ UNCHANGED <<tableVars, asked, from, first, txPage, txMore, txQuoted, owed, seen>>

(* The latest rows, in any order of those with the same time. *)
IsTxPage(p, n) ==
    LET found == {t \in Txs : Listed1(t)}
    IN  /\ IsInjective(p) /\ Range(p) \subseteq found
        /\ n # 0 => Len(p) <= n
        /\ Range(p) # found => n # 0 /\ Len(p) = n
        /\ \A i \in DOMAIN p : \A j \in 1 .. i : created[p[j]] >= created[p[i]]
        /\ \A i \in DOMAIN p, t \in found \ Range(p) : created[p[i]] >= created[t]

FindTxs ==
    /\ step = "find"
    /\ \E p \in SeqOf(Txs, Cardinality(Txs)) :
          /\ IsTxPage(p, asked.limit)
          /\ txPage' = [i \in DOMAIN p |-> Row(p[i], status[p[i]])]
          /\ txMore' = (p # <<>> /\ first < txId[p[Len(p)]])
    /\ step' = "rates"
    /\ UNCHANGED <<tableVars, asked, from, first, txQuoted, owed, seen>>

(* Get: a row of somebody else is not found. *)
GetTx ==
    /\ step = "first" /\ asked.kind = "get"
    /\ \E t \in Txs :
          IF InListing(t)
          THEN txPage' = <<Row(t, status[t])>> /\ step' = "rates"
          ELSE txPage' = <<>> /\ step' = "failed"
    /\ UNCHANGED <<tableVars, asked, from, first, txMore, txQuoted, owed, seen>>

(* Send has committed it and returns it. *)
ReturnSent ==
    /\ step = "first" /\ asked.kind = "send"
    /\ \/ \E t \in Txs :
             /\ place[t] = "committed" /\ Sent[t].from = Me
             /\ txPage' = <<Row(t, status[t])>>
          /\ step' = "rates"
       \/ txPage' = <<>> /\ step' = "failed"
    /\ UNCHANGED <<tableVars, asked, from, first, txMore, txQuoted, owed, seen>>

-----------------------------------------------------------------------------
(* Rates and views *)

\* Mutant of CoinsOfTxs: the default coin is not asked for.
CoinsOfRowsOnly == {txPage[i].coin : i \in DOMAIN txPage}

CoinsOfTxs ==
    {txPage[i].coin : i \in DOMAIN txPage}
        \cup (IF asked.kind = "list" /\ txPage # <<>> THEN {DefaultCoin} ELSE {})

(* An error leaves them without rates. *)
TxQuote(conv, fiat, answers) ==
    LET quote == GetMultiRateDefaultFiat(conv, CoinsOfTxs, fiat, answers)
    IN  IF txPage # <<>> /\ quote.error = "none" THEN quote.rates ELSE {}

SingleQuote(conv, fiat, answers) ==
    LET quote == GetRateDefaultFiat(conv, txPage[1].coin, fiat, answers)
    IN  IF quote.error = "none" THEN quote.rates ELSE {}

TxQuoted(rates, conv, fiat, answers) ==
    txQuoted' = [coins |-> CoinsOfTxs, rates |-> rates,
                 covered |-> Covered(conv, CoinsOfTxs, fiat, answers)]

(* One of them, looked up or sent. *)
RepresentTx(conv, fiat, answers) ==
    /\ asked.kind # "list"
    /\ TxQuoted(SingleQuote(conv, fiat, answers), conv, fiat, answers)
    /\ step' = "answered"
    /\ UNCHANGED <<tableVars, asked, from, first, txPage, txMore, owed, seen>>

Grouped == asked.kind = "list" /\ asked.group # "none"

GroupsPanic(rates) == Grouped /\ txPage # <<>> /\ ~(GroupsNeed(txPage) \subseteq rates)

RepresentTxs(conv, fiat, answers) ==
    /\ asked.kind = "list"
    /\ TxQuoted(TxQuote(conv, fiat, answers), conv, fiat, answers)
    /\ IF GroupsPanic(txQuoted'.rates)
       THEN step' = "failed" /\ UNCHANGED seen
       ELSE /\ step' = "answered"
            /\ seen' = [t \in Txs |-> Min({2, seen[t]
                            + Cardinality({i \in DOMAIN txPage : txPage[i].tx = t})})]
    /\ UNCHANGED <<tableVars, asked, from, first, txPage, txMore, owed>>

(* What the client gets. *)
Views == ToAllView(txPage, Me, txQuoted.rates)
Groups == ToGroupViews(txPage, Me, txQuoted.rates, asked.zone)

-----------------------------------------------------------------------------
(* The client *)

TxCleared == first' = 0 /\ txPage' = <<>> /\ txMore' = FALSE /\ txQuoted' = NoTxQuote

AskTxs ==
    /\ step = "idle"
    /\ step' = "first" /\ from' = 0
    /\ asked' \in TxRequests
    /\ UNCHANGED <<tableVars, first, txPage, txMore, txQuoted>>
    /\ owed' = {t \in Txs : InListing(t)'}
    /\ seen' = [t \in Txs |-> 0]

NextTxs ==
    /\ step = "answered" /\ asked.kind = "list" /\ txMore
    /\ step' = "first" /\ from' = txPage[Len(txPage)].id
    /\ TxCleared
    /\ UNCHANGED <<tableVars, asked, owed, seen>>

TxsOver == step = "answered" /\ ~(asked.kind = "list" /\ txMore)

FinishTxs ==
    /\ TxsOver \/ step = "failed"
    /\ step' = "idle" /\ asked' = Nobody /\ from' = 0
    /\ owed' = {} /\ seen' = [t \in Txs |-> 0]
    /\ TxCleared
    /\ UNCHANGED tableVars

-----------------------------------------------------------------------------
ServeTxs ==
    \/ SelectFirst \/ CountTxs \/ FindTxs \/ GetTx \/ ReturnSent
    \/ /\ step = "rates"
       /\ \E conv \in TxConverters, fiat \in {"known", "unknown"},
             answers \in [Providers -> Answers] :
             RepresentTx(conv, fiat, answers) \/ RepresentTxs(conv, fiat, answers)

WalkTxs == NextTxs \/ FinishTxs

TxNext ==
    \/ \E t \in Txs : TakeTime(t) \/ InsertTx(t) \/ CommitTx(t) \/ RollBackTx(t) \/ Settle(t)
    \/ AskTxs \/ ServeTxs \/ WalkTxs

TxSpec == TxInit /\ [][TxNext]_txVars

(* Handlers run, and the client goes on. *)
TxFairness == WF_txVars(ServeTxs) /\ WF_txVars(WalkTxs)

-----------------------------------------------------------------------------
(* Properties *)

(* Another row whose id and time are not in the same order. *)
Disordered(t) ==
    \E u \in Txs \ {t} :
        /\ txId[u] # 0
        /\ \/ txId[u] < txId[t] /\ created[u] >= created[t]
           \/ txId[u] > txId[t] /\ created[u] <= created[t]

(* A walk shows every transaction that is in the listing from its begin to *)
(* its end, once, unless a row of a later time has got an earlier id: then *)
(* pages that are cut by id and ordered by time may repeat it or leave it  *)
(* out (impl.go:102).                                                      *)
TxWalkFaithful ==
    /\ \A t \in Txs : seen[t] <= 1 \/ Disordered(t)
    /\ TxsOver /\ asked.kind = "list" =>
          \A t \in owed : seen[t] = 1 \/ Disordered(t)

(* Whoever asks sees the own side: the own wallet, never one of the other  *)
(* party, and a direction that is the one asked for.  The filter decides   *)
(* by one column and the view by another (impl.go:185, models.go:102).     *)
OwnSide ==
    step = "answered" =>
        \A i \in DOMAIN Views :
            /\ Views[i].wallet = Me
            /\ asked.filter.direction \in {"any", Views[i].direction}

Period(tx) == (tx.created + asked.zone) \div PeriodLength

(* Of each transaction of the page the group that it is in. *)
GroupOf(groups) ==
    LET sizes == [g \in DOMAIN groups |-> Len(groups[g].items)]
    IN  [i \in DOMAIN txPage |->
            Min({g \in DOMAIN groups : SumFunctionOnSet(sizes, 1 .. g) >= i})]

(* What it has moved, as its view shows it. *)
Moved(i) ==
    IF txPage[i].status \in {"decline", "cancel"} THEN 0
    ELSE IF txPage[i].from = Me THEN 0 - Views[i].fiat ELSE Views[i].fiat

(* Groups divide the page into the periods it has, in its order, each with *)
(* begin and end around its transactions and the sum of what they moved    *)
(* (models.go:158).                                                        *)
GroupsCorrect ==
    step = "answered" /\ Grouped =>
        LET groups == Groups
            groupOf == GroupOf(groups)
        IN  /\ FlattenSeq([g \in DOMAIN groups |-> groups[g].items]) = Views
            /\ \A i, j \in DOMAIN txPage :
                  groupOf[i] = groupOf[j] <=> Period(txPage[i]) = Period(txPage[j])
            /\ \A g \in DOMAIN groups :
                  LET items == {i \in DOMAIN txPage : groupOf[i] = g}
                  IN  /\ groups[g].total = SumFunctionOnSet([i \in items |-> Moved(i)], items)
                      /\ \A i \in items : /\ groups[g].start <= txPage[i].created
                                          /\ txPage[i].created < groups[g].end

(* When the main converter is out and the fallback is not, transactions    *)
(* have their value in the currency and groups their totals.  Without the  *)
(* rates a list does without them, and groups panic (models.go:215).       *)
TxOutageCovered ==
    /\ txQuoted.covered => txQuoted.coins \subseteq txQuoted.rates /\ step = "answered"
    /\ step = "failed" /\ asked.kind = "list" => Grouped

(* Every walk ends. *)
TxWalkEnds == step = "first" ~> step = "idle"
===================================================================================
