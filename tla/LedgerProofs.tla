----------------------------- MODULE LedgerProofs -----------------------------
(***************************************************************************)
(* Proofs about the ledger of Processing.  Sums over wallets of sums over  *)
(* rows are exchanged into one sum over the rows, in which each row stands *)
(* for what it adds to its recipient's wallet and takes from its sender's. *)
(* So Solvency and Conservation are facts about single rows.               *)
(***************************************************************************)
EXTENDS ProcessingProofs, SumLemmas

-----------------------------------------------------------------------------
(* One row in the ledger *)

(* Who gets a row's amount, and how much; who pays it, and how much. *)
Payee(rows) == [t \in TxIds |-> rows[t].toWallet]
Paid(rows) ==
    [t \in TxIds |-> IF rows[t].type = "internal" /\ rows[t].status = "success"
                     THEN rows[t].amount ELSE 0]
Payer(rows) == [t \in TxIds |-> rows[t].from]
Reserved(rows) ==
    [t \in TxIds |-> IF IsHoldsAmount(rows[t]) THEN rows[t].amount + rows[t].fee ELSE 0]

(* What a row adds to the wallet w and takes from it. *)
Credit(w, rows) == OfKey(Payee(rows), Paid(rows), TxIds, w)
Debit(w, rows) == OfKey(Payer(rows), Reserved(rows), TxIds, w)

(* The same for all wallets. *)
AllCredit(rows) == OfKeys(Payee(rows), Paid(rows), Phones, TxIds)
AllDebit(rows) == OfKeys(Payer(rows), Reserved(rows), Phones, TxIds)

LEMMA RowNumbers ==
    ASSUME NEW rows \in [TxIds -> Rows], NEW t \in TxIds
    PROVE  /\ rows[t].amount \in Nat /\ rows[t].fee \in Nat
           /\ AllCredit(rows)[t] \in Nat /\ AllDebit(rows)[t] \in Nat
           /\ \A w : Credit(w, rows)[t] \in Nat /\ Debit(w, rows)[t] \in Nat
<1>1. rows[t].amount \in Nat /\ rows[t].fee \in Nat
  BY DEF Rows
<1> QED
  BY <1>1 DEF Credit, Debit, AllCredit, AllDebit, OfKey, OfKeys, Payee, Paid, Payer, Reserved

LEMMA IncomeIsCredit ==
    ASSUME NEW rows \in [TxIds -> Rows], NEW w
    PROVE  Income(w, rows) = Total(TxIds, Credit(w, rows)) /\ Income(w, rows) \in Nat
<1> DEFINE paid == {t \in TxIds : /\ rows[t].toWallet = w
                                  /\ rows[t].type = "internal"
                                  /\ rows[t].status = "success"}
           amounts == [t \in TxIds |-> rows[t].amount]
           credit == Credit(w, rows)
<1>1. \A t \in paid : amounts[t] \in Int /\ credit[t] = amounts[t]
  BY RowNumbers DEF Credit, OfKey, Payee, Paid
<1>2. \A t \in TxIds \ paid : credit[t] = 0
  BY DEF Credit, OfKey, Payee, Paid
<1>3. Income(w, rows) = SumFunctionOnSet(amounts, paid)
  BY DEF Income, Total
<1>4. \A t \in TxIds : credit[t] \in Nat
  BY RowNumbers
<1>5. paid \in SUBSET TxIds
  OBVIOUS
<1> HIDE DEF paid, amounts, credit
<1>6. SumFunctionOnSet(amounts, paid) = SumFunctionOnSet(credit, TxIds)
  BY <1>1, <1>2, <1>5, SumOfPart, TablesAssumption
<1>7. SumFunctionOnSet(credit, TxIds) \in Nat
  BY <1>4, SumNat, TablesAssumption
<1> QED
  BY <1>3, <1>6, <1>7 DEF Total, credit

LEMMA OutcomeIsDebit ==
    ASSUME NEW rows \in [TxIds -> Rows], NEW w
    PROVE  Outcome(w, rows) = Total(TxIds, Debit(w, rows)) /\ Outcome(w, rows) \in Nat
<1> DEFINE held == {t \in TxIds : rows[t].from = w /\ IsHoldsAmount(rows[t])}
           amounts == [t \in TxIds |-> rows[t].amount + rows[t].fee]
           debit == Debit(w, rows)
<1>1. \A t \in held : amounts[t] \in Int /\ debit[t] = amounts[t]
  BY RowNumbers DEF Debit, OfKey, Payer, Reserved
<1>2. \A t \in TxIds \ held : debit[t] = 0
  BY DEF Debit, OfKey, Payer, Reserved
<1>3. Outcome(w, rows) = SumFunctionOnSet(amounts, held)
  BY DEF Outcome, Total
<1>4. \A t \in TxIds : debit[t] \in Nat
  BY RowNumbers
<1>5. held \in SUBSET TxIds
  OBVIOUS
<1> HIDE DEF held, amounts, debit
<1>6. SumFunctionOnSet(amounts, held) = SumFunctionOnSet(debit, TxIds)
  BY <1>1, <1>2, <1>5, SumOfPart, TablesAssumption
<1>7. SumFunctionOnSet(debit, TxIds) \in Nat
  BY <1>4, SumNat, TablesAssumption
<1> QED
  BY <1>3, <1>6, <1>7 DEF Total, debit

LEMMA IncomesSum ==
    ASSUME NEW rows \in [TxIds -> Rows]
    PROVE  Total(Phones, [w \in Phones |-> Income(w, rows)]) = Total(TxIds, AllCredit(rows))
<1>1. [w \in Phones |-> Income(w, rows)] = KeySums(Payee(rows), Paid(rows), Phones, TxIds)
  BY IncomeIsCredit DEF Total, KeySums, Credit
<1>2. \A t \in TxIds : Paid(rows)[t] \in Int
  BY RowNumbers DEF Paid
<1>3. SumFunctionOnSet(KeySums(Payee(rows), Paid(rows), Phones, TxIds), Phones)
        = SumFunctionOnSet(AllCredit(rows), TxIds)
  BY <1>2, SumByKey, TablesAssumption DEF AllCredit
<1> QED
  BY <1>1, <1>3 DEF Total

LEMMA OutcomesSum ==
    ASSUME NEW rows \in [TxIds -> Rows]
    PROVE  Total(Phones, [w \in Phones |-> Outcome(w, rows)]) = Total(TxIds, AllDebit(rows))
<1>1. [w \in Phones |-> Outcome(w, rows)] = KeySums(Payer(rows), Reserved(rows), Phones, TxIds)
  BY OutcomeIsDebit DEF Total, KeySums, Debit
<1>2. \A t \in TxIds : Reserved(rows)[t] \in Int
  BY RowNumbers DEF Reserved
<1>3. SumFunctionOnSet(KeySums(Payer(rows), Reserved(rows), Phones, TxIds), Phones)
        = SumFunctionOnSet(AllDebit(rows), TxIds)
  BY <1>2, SumByKey, TablesAssumption DEF AllDebit
<1> QED
  BY <1>1, <1>3 DEF Total

-----------------------------------------------------------------------------
(* The row in a handler's hand *)

(* Requests are made by owners of wallets, to parties other than themselves; *)
(* who has no wallet yet is addressed by phone.                              *)
Begun(p) ==
    /\ pc'[p] = "lookedUp" /\ wallets' = wallets
    /\ \E from \in wallets, recipient \in Recipients, amount \in Amounts :
          /\ send'[p].row = NewTx(from, recipient, amount)
          /\ recipient.toWallet = Nobody => recipient.toPhone \notin wallets

LEMMA HandBegun ==
    ASSUME IInv, NEW p \in Procs, NEW q \in Procs, Request(q), pc'[p] \in SendSteps,
           pc'[p] # pc[p] \/ send'[p] # send[p]
    PROVE  Begun(p)
<1>1. /\ wallets \subseteq Phones /\ Nobody \notin wallets
      /\ pc[p] \in {"idle"} \cup SendSteps \cup NotifySteps
  BY PartiesAssumption DEF IInv, TypeOK
<1>2. ASSUME NEW from \in wallets, NEW recipient \in Recipients, NEW amount \in Amounts,
             recipient.toWallet = Nobody => recipient.toPhone \notin wallets,
             StartSend(q, from, recipient, amount)
      PROVE  Begun(p)
  <2>1. PICK t \in FreeIds : send' = [send EXCEPT ![q] =
            [NoSend EXCEPT !.tx = t, !.row = NewTx(from, recipient, amount)]]
    BY <1>2 DEF StartSend
  <2>2. pc' = [pc EXCEPT ![q] = "lookedUp"] /\ wallets' = wallets
    BY <1>2 DEF StartSend, dbVars
  <2>3. q = p
    BY <2>1, <2>2 DEF IInv, TypeOK
  <2>4. send'[p].row = NewTx(from, recipient, amount) /\ pc'[p] = "lookedUp"
    BY <2>1, <2>2, <2>3 DEF IInv, TypeOK, NoSend
  <2> QED
    BY <1>2, <2>2, <2>4 DEF Begun
<1>3. ASSUME NEW from \in Phones, NEW to \in Phones, NEW amount \in Amounts,
             SendToPhone(q, from, to, amount)
      PROVE  Begun(p)
  <2>1. from \in wallets
    BY <1>3 DEF SendToPhone, StartSend
  <2>2. CASE to \in wallets
    BY <1>1, <1>2, <1>3, <2>1, <2>2, RecipientsFacts DEF SendToPhone, WalletRecipient
  <2>3. CASE to \notin wallets
    BY <1>2, <1>3, <2>1, <2>3, RecipientsFacts DEF SendToPhone, PhoneRecipient
  <2> QED
    BY <2>2, <2>3
<1>4. ASSUME NEW from \in Phones, NEW address \in Phones \cup Foreign, NEW amount \in Amounts,
             SentToAddress(q, from, address, amount)
      PROVE  Begun(p)
  <2>1. from \in wallets
    BY <1>4 DEF SentToAddress, StartSend
  <2>2. CASE address \in wallets
    BY <1>1, <1>2, <1>4, <2>1, <2>2, RecipientsFacts DEF SentToAddress, WalletRecipient
  <2>3. CASE address \notin wallets
    <3>1. address \in Foreign
      BY <1>4, <2>3 DEF SentToAddress
    <3> QED
      BY <1>1, <1>2, <1>4, <2>1, <2>3, <3>1, RecipientsFacts DEF SentToAddress, AddressRecipient
  <2> QED
    BY <2>2, <2>3
<1>5. ASSUME NEW w \in Phones, CreateWallet(q, w) PROVE FALSE
  BY <1>1, <1>5 DEF IInv, TypeOK, CreateWallet, SendSteps, NotifySteps
<1> QED
  BY <1>3, <1>4, <1>5 DEF Request

(* What a step does to the row in a handler's hand: the row is as it was (and *)
(* as much decided as it was), new, validated or broadcast.                   *)
SameHand(p) ==
    /\ pc[p] \in SendSteps
    /\ send'[p].row = send[p].row
    /\ pc[p] = "commit" <=> pc'[p] = "commit"
    /\ \/ /\ send'[p].errs = send[p].errs
          /\ pc'[p] = pc[p] \/ pc'[p] \in {"account", "address"}
       \/ /\ pc[p] = "recheck" /\ pc'[p] = "broadcast"
          /\ ~(LedgerBalance(send[p].row.from) < send[p].row.amount) => send'[p].errs = {}

BroadcastHand(p) ==
    /\ Broadcast(p) /\ pc[p] = "broadcast" /\ pc'[p] = "commit"
    /\ \E fee \in 0 .. MaxFee : send'[p].row = Sent(send[p].row, fee)
    /\ send'[p].errs = send[p].errs

Verdict(p) ==
    ValidationErrs(send[p].row, seen[p].account,
                   TotalWalletBalance(send[p].row.from, seen[p].address))

ValidatedHand(p) ==
    /\ Validate(p) /\ pc[p] = "address" /\ pc'[p] \in {"recheck", "commit"}
    /\ send'[p].row = Validated(send[p].row, Verdict(p))
    /\ send'[p].errs = Verdict(p)
    /\ pc'[p] = "recheck" <=> send'[p].row.status = "send_external"

LEMMA HandStep ==
    ASSUME IInv, [Next]_vars, NEW p \in Procs, pc'[p] \in SendSteps
    PROVE  SameHand(p) \/ Begun(p) \/ ValidatedHand(p) \/ BroadcastHand(p)
<1>1. ASSUME pc'[p] = pc[p], send'[p] = send[p] PROVE SameHand(p)
  BY <1>1 DEF SameHand
<1>2. ASSUME NEW q \in Procs, Request(q) PROVE SameHand(p) \/ Begun(p)
  BY <1>1, <1>2, HandBegun
<1>3. pc \in [Procs -> {"idle"} \cup SendSteps \cup NotifySteps] /\ send \in [Procs -> SendRecords]
  BY DEF IInv, TypeOK
<1>4. ASSUME NEW q \in Procs, HandlerStep(q), q # p PROVE SameHand(p)
  <2>1. pc'[p] = pc[p] /\ send'[p] = send[p]
    BY <1>3, <1>4 DEF HandlerStep, ReadAccountBalance, ReadAddressBalance, Validate, Recheck,
       Broadcast, NodeRefuses, CommitSend, ClaimAwaiting, SelectAwaiting, CommitNotify
  <2> QED
    BY <1>1, <2>1
<1>5. CASE ReadAccountBalance(p) \/ ReadAddressBalance(p)
  BY <1>3, <1>5 DEF ReadAccountBalance, ReadAddressBalance, SameHand, SendSteps
<1>6. CASE Validate(p)
  <2> DEFINE failed == Verdict(p)
             row == Validated(send[p].row, failed)
             s == [send[p] EXCEPT !.row = row, !.errs = failed]
  <2>1. send' = [send EXCEPT ![p] = s] /\ pc[p] = "address"
        /\ pc' = [pc EXCEPT ![p] = IF row.status = "send_external" THEN "recheck" ELSE "commit"]
    BY <1>6 DEF Validate, Verdict
  <2>2. s.row = row /\ s.errs = failed
    BY <1>3 DEF SendRecords
  <2> HIDE DEF row, failed, s
  <2>3. send'[p] = s /\ pc'[p] = IF row.status = "send_external" THEN "recheck" ELSE "commit"
    BY <1>3, <2>1
  <2> QED
    BY <1>6, <2>1, <2>2, <2>3 DEF ValidatedHand, row, failed
<1>7. CASE Recheck(p)
  <2> DEFINE balance == LedgerBalance(send[p].row.from)
  <2>1. send' = [send EXCEPT ![p].errs = IF balance < send[p].row.amount
                                         THEN {"ErrInsufficientFunds"} ELSE {}]
    BY <1>7 DEF Recheck, LedgerBalance
  <2> HIDE DEF balance
  <2>2. /\ send'[p].row = send[p].row
        /\ send'[p].errs = IF balance < send[p].row.amount THEN {"ErrInsufficientFunds"} ELSE {}
    BY <1>3, <2>1 DEF SendRecords
  <2>3. pc[p] = "recheck" /\ pc'[p] = "broadcast"
    BY <1>3, <1>7 DEF Recheck
  <2> QED
    BY <2>2, <2>3 DEF SameHand, SendSteps, balance
<1>8. CASE Broadcast(p)
  <2>1. PICK fee \in 0 .. MaxFee : send' = [send EXCEPT ![p].row = Sent(send[p].row, fee)]
    BY <1>8 DEF Broadcast
  <2>2. send'[p].row = Sent(send[p].row, fee) /\ send'[p].errs = send[p].errs
    BY <1>3, <2>1 DEF SendRecords
  <2> QED
    BY <1>3, <1>8, <2>2 DEF Broadcast, BroadcastHand
<1>9. CASE \/ NodeRefuses(p) \/ CommitSend(p)
           \/ ClaimAwaiting(p) \/ SelectAwaiting(p) \/ CommitNotify(p)
  BY <1>3, <1>9 DEF NodeRefuses, CommitSend, ClaimAwaiting, SelectAwaiting, CommitNotify, SendSteps
<1>10. CASE Elsewhere
  <2>1. ASSUME NEW q \in Procs, BroadcastThenFail(q) \/ Abort(q) PROVE SameHand(p)
    BY <1>1, <1>3, <2>1 DEF BroadcastThenFail, Abort, SendSteps
  <2>2. (\E q \in Procs : BroadcastThenFail(q) \/ Abort(q)) \/ UNCHANGED <<pc, send>>
    BY <1>10 DEF Elsewhere, Age, IsConfirmed, IsConfirmedFails, Mine, Drop, OnCheckOutdated,
       WatchConfirmations, UpdateConfirmed, WatcherFails, Deposit, ConfirmDeposit, procVars
  <2> QED
    BY <1>1, <2>1, <2>2
<1>11. CASE UNCHANGED vars
  BY <1>1, <1>11 DEF vars, procVars
<1> QED
  BY <1>2, <1>4, <1>5, <1>6, <1>7, <1>8, <1>9, <1>10, <1>11, NextSplits DEF HandlerStep

-----------------------------------------------------------------------------
(* What is known of the amounts of every row, for any number of handlers *)

SendersKnown ==
    /\ \A t \in TxIds : txs[t].status # "absent" => txs[t].from \in Phones
    /\ \A p \in Procs : pc[p] \in SendSteps => send[p].row.from \in Phones

(* Transfers inside the service are free of charge. *)
FreeInside(row) == row.type = "internal" => row.fee = 0

FeesKnown ==
    /\ \A t \in TxIds : FreeInside(txs[t])
    /\ \A p \in Procs : pc[p] \in SendSteps =>
          /\ FreeInside(send[p].row)
          /\ send[p].row.fee \in 0 .. MaxFee
          /\ pc[p] # "commit" => send[p].row.fee = 0

LInv == SendersKnown /\ FeesKnown

LEMMA LedgerInit == Init => LInv
BY DEF Init, NoRow, LInv, SendersKnown, FeesKnown, FreeInside, SendSteps

LEMMA HandTyped ==
    ASSUME IInv, NEW p \in Procs
    PROVE  /\ send[p].row \in Rows /\ send[p].errs \in SUBSET ErrorNames
           /\ pc[p] \in {"idle"} \cup SendSteps \cup NotifySteps
BY DEF IInv, TypeOK, SendRecords

LEMMA BegunFacts ==
    ASSUME IInv, NEW p \in Procs, Begun(p)
    PROVE  LET row == send'[p].row
           IN  /\ row.from \in wallets /\ wallets \subseteq Phones
               /\ row.fee = 0 /\ row.status = "validation" /\ row.type = "internal"
               /\ row.amount \in Nat
               /\ row.toWallet = Nobody => row.toPhone \notin wallets
<1>1. PICK from \in wallets, recipient \in Recipients, amount \in Amounts :
          /\ send'[p].row = NewTx(from, recipient, amount)
          /\ recipient.toWallet = Nobody => recipient.toPhone \notin wallets
  BY DEF Begun
<1>2. wallets \subseteq Phones
  BY DEF IInv, TypeOK
<1> QED
  BY <1>1, <1>2, AmountsAssumption DEF NewTx, NoRow

LEMMA BroadcastFacts ==
    ASSUME IInv, NEW p \in Procs, BroadcastHand(p)
    PROVE  LET row == send'[p].row
           IN  /\ row.from = send[p].row.from /\ row.amount = send[p].row.amount
               /\ row.toWallet = send[p].row.toWallet /\ row.toPhone = send[p].row.toPhone
               /\ row.type = "external" /\ row.status \in {"waiting", "success"}
               /\ row.fee \in 0 .. MaxFee
<1>1. PICK fee \in 0 .. MaxFee : send'[p].row = Sent(send[p].row, fee)
  BY DEF BroadcastHand
<1>2. send[p].row \in Rows /\ send[p].row.type = "external"
  BY HandTyped DEF IInv, Sending, BroadcastHand
<1> QED
  BY <1>1, <1>2 DEF Rows, Sent

(* Rows that are cancelled, or follow the blockchain, change in status only. *)
LEMMA CancelledFollows ==
    ASSUME NEW t \in TxIds, txs[t] \in Rows, Cancelled(t) \/ Follows(t)
    PROVE  /\ txs'[t].from = txs[t].from /\ txs'[t].amount = txs[t].amount
           /\ txs'[t].fee = txs[t].fee /\ txs'[t].type = txs[t].type
           /\ txs'[t].toWallet = txs[t].toWallet /\ txs'[t].toPhone = txs[t].toPhone
           /\ \/ txs[t].status = "pending" /\ txs'[t].status = "cancel"
              \/ /\ txs[t].status = "waiting" /\ txs[t].type = "external"
                 /\ txs'[t].status \in {"success", "decline"}
<1>1. ASSUME Cancelled(t)
      PROVE  txs[t].status = "pending" /\ txs'[t] = [txs[t] EXCEPT !.status = "cancel"]
  BY <1>1 DEF Cancelled
<1>2. ASSUME Follows(t)
      PROVE  /\ txs[t].status = "waiting" /\ txs[t].type = "external"
             /\ \E s \in {"success", "decline"} : txs'[t] = [txs[t] EXCEPT !.status = s]
  BY <1>2 DEF Follows
<1> QED
  BY <1>1, <1>2 DEF Rows

LEMMA LedgerStep == ASSUME IInv, LInv, [Next]_vars PROVE LInv'
<1>1. ASSUME NEW p \in Procs, pc'[p] \in SendSteps
      PROVE  /\ send'[p].row.from \in Phones
             /\ FreeInside(send'[p].row) /\ send'[p].row.fee \in 0 .. MaxFee
             /\ pc'[p] # "commit" => send'[p].row.fee = 0
  <2>1. send[p].row \in Rows
    BY HandTyped
  <2>2. CASE SameHand(p)
    BY <2>2 DEF SameHand, LInv, SendersKnown, FeesKnown
  <2>3. CASE Begun(p)
    BY <2>3, BegunFacts, AmountsAssumption DEF FreeInside
  <2>4. CASE ValidatedHand(p)
    <3>1. send[p].row.from \in Phones /\ send[p].row.fee = 0
      BY <2>4 DEF ValidatedHand, SendSteps, LInv, SendersKnown, FeesKnown
    <3> QED
      BY <2>1, <2>4, <3>1, ValidatedFacts, AmountsAssumption DEF ValidatedHand, FreeInside
  <2>5. CASE BroadcastHand(p)
    <3>1. send[p].row.from \in Phones /\ pc'[p] = "commit"
      BY <2>5 DEF BroadcastHand, SendSteps, LInv, SendersKnown
    <3> QED
      BY <2>5, <3>1, BroadcastFacts DEF FreeInside
  <2> QED
    BY <1>1, <2>2, <2>3, <2>4, <2>5, HandStep
<1>2. ASSUME NEW t \in TxIds
      PROVE  /\ txs'[t].status # "absent" => txs'[t].from \in Phones
             /\ FreeInside(txs'[t])
  <2>1. /\ txs[t] \in Rows /\ FreeInside(txs[t])
        /\ txs[t].status # "absent" => txs[t].from \in Phones
    BY DEF IInv, TypeOK, LInv, SendersKnown, FeesKnown
  <2>2. ASSUME NEW p \in Procs, Inserted(p, t)
        PROVE  txs'[t].from \in Phones /\ FreeInside(txs'[t])
    BY <2>2 DEF Inserted, SendSteps, LInv, SendersKnown, FeesKnown
  <2>3. ASSUME NEW p \in Procs, Wakes(p, t)
        PROVE  txs'[t].from = txs[t].from /\ FreeInside(txs'[t]) /\ txs[t].status # "absent"
    <3>1. notify[p].wallet \in Phones \cup {Nobody}
      BY DEF IInv, TypeOK, NotifyRecords
    <3> QED
      BY <2>1, <2>3, <3>1, WokenFacts DEF Wakes, FreeInside
  <2>4. ASSUME Cancelled(t) \/ Follows(t)
        PROVE  txs'[t].from = txs[t].from /\ FreeInside(txs'[t]) /\ txs[t].status # "absent"
    BY <2>1, <2>4, CancelledFollows DEF FreeInside
  <2> QED
    BY <2>1, <2>2, <2>3, <2>4, RowStep
<1> QED
  BY <1>1, <1>2 DEF LInv, SendersKnown, FeesKnown

LEMMA LedgerHolds == Spec => [](IInv /\ LInv)
BY InvInit, InvStep, LedgerInit, LedgerStep, PTL DEF Spec

-----------------------------------------------------------------------------
(* Solvency and Conservation *)

(* The sum over the wallets, exchanged into a sum over the rows. *)
LEMMA LedgerTotalIs ==
    ASSUME TypeOK, Coin = "BTC"
    PROVE  /\ LedgerTotal = Total(Phones, received)
                              + (Total(TxIds, AllCredit(txs)) - Total(TxIds, AllDebit(txs)))
           /\ Total(Phones, received) \in Nat
           /\ Total(TxIds, AllCredit(txs)) \in Nat
           /\ Total(TxIds, AllDebit(txs)) \in Nat
<1> DEFINE in == [w \in Phones |-> Income(w, txs)]
           out == [w \in Phones |-> Outcome(w, txs)]
           net == [w \in Phones |-> Outcome(w, txs) - Income(w, txs)]
           ledger == [w \in Phones |-> LedgerBalance(w)]
<1>1. txs \in [TxIds -> Rows] /\ received \in [Phones -> Nat]
  BY DEF TypeOK
<1>2. \A w \in Phones :
          /\ in[w] \in Nat /\ out[w] \in Nat /\ received[w] \in Nat
          /\ net[w] = out[w] - in[w] /\ ledger[w] = received[w] - net[w]
  <2> TAKE w \in Phones
  <2>1. Income(w, txs) \in Nat /\ Outcome(w, txs) \in Nat /\ received[w] \in Nat
    BY <1>1, IncomeIsCredit, OutcomeIsDebit
  <2>2. LedgerBalance(w) = received[w] + (Income(w, txs) - Outcome(w, txs))
    BY DEF LedgerBalance, TotalWalletBalance, AddressBalance, SupportInternalTxs, TxsesSum
  <2> QED
    BY <2>1, <2>2
<1>3. LedgerTotal = SumFunctionOnSet(ledger, Phones)
  BY DEF LedgerTotal, Total
<1>4. /\ SumFunctionOnSet(in, Phones) = Total(TxIds, AllCredit(txs))
      /\ SumFunctionOnSet(out, Phones) = Total(TxIds, AllDebit(txs))
  BY <1>1, IncomesSum, OutcomesSum DEF Total
<1> HIDE DEF in, out, net, ledger
<1>5. \A w \in Phones : net[w] \in Int
  BY <1>2
<1>6. SumFunctionOnSet(net, Phones) = SumFunctionOnSet(out, Phones) - SumFunctionOnSet(in, Phones)
  BY <1>2, SumMinus, TablesAssumption
<1>7. SumFunctionOnSet(ledger, Phones)
        = SumFunctionOnSet(received, Phones) - SumFunctionOnSet(net, Phones)
  BY <1>2, <1>5, SumMinus, TablesAssumption
<1>8. /\ SumFunctionOnSet(in, Phones) \in Nat /\ SumFunctionOnSet(out, Phones) \in Nat
      /\ SumFunctionOnSet(received, Phones) \in Nat
  BY <1>2, SumNat, TablesAssumption
<1> QED
  BY <1>3, <1>4, <1>6, <1>7, <1>8 DEF Total

(* What a row's broadcast has taken from the node's wallet. *)
SentOut ==
    [t \in TxIds |-> IF t \in Live /\ txs[t].status # "absent" THEN chain[t].amount ELSE 0]

(* A row takes from the ledger at least what it gives there and has sent out. *)
LEMMA RowSolvent ==
    ASSUME IInv, LInv, NEW t \in TxIds
    PROVE  /\ SentOut[t] \in Nat
           /\ SentOut[t] <= AllDebit(txs)[t] - AllCredit(txs)[t]
<1>1. txs[t] \in Rows /\ chain[t] \in ChainRecords
  BY DEF IInv, TypeOK
<1>2. /\ txs[t].amount \in Nat /\ txs[t].fee \in Nat /\ chain[t].amount \in Nat
      /\ txs[t].status \in CommittedStatuses
  BY <1>1 DEF Rows, ChainRecords, IInv, RowsWellFormed
<1>3. SettledRow(txs[t], chain[t])
  BY DEF IInv, ChainAgrees
<1>4. AllCredit(txs)[t] \in {0, txs[t].amount}
      /\ (AllCredit(txs)[t] # 0 => txs[t].type = "internal" /\ txs[t].status = "success")
  BY DEF AllCredit, OfKeys, Payee, Paid
<1>5. AllDebit(txs)[t] = IF IsHoldsAmount(txs[t]) THEN txs[t].amount + txs[t].fee ELSE 0
  BY DEF LInv, SendersKnown, AllDebit, OfKeys, Payer, Reserved, IsHoldsAmount
<1>6. /\ SentOut[t] \in {0, chain[t].amount}
      /\ SentOut[t] # 0 => /\ txs[t].status \in {"waiting", "success"}
                           /\ txs[t].type = "external" /\ chain[t].amount = txs[t].amount
  BY <1>2, <1>3 DEF SentOut, Live, SettledRow, CommittedStatuses
<1> QED
  BY <1>2, <1>4, <1>5, <1>6 DEF IsHoldsAmount

(* The wallets together never claim more than the node's wallet holds, for   *)
(* any number of senders, with crashes and lost answers: what a broadcast    *)
(* takes from the node stays reserved in the ledger as long as it may be     *)
(* mined.  (A broadcast whose row was lost counts separately.)               *)
THEOREM LedgerSolvent ==
    ASSUME Coin = "BTC"
    PROVE  Spec => []Solvency
<1>1. ASSUME IInv, LInv PROVE Solvency
  <2> DEFINE all == [w \in Phones |-> received[w] + arriving[w]]
             broadcast == [t \in TxIds |-> IF t \in Live THEN chain[t].amount ELSE 0]
             unrecorded == [t \in TxIds |-> IF t \in Live /\ txs[t].status = "absent"
                                            THEN chain[t].amount ELSE 0]
             amounts == [t \in TxIds |-> chain[t].amount]
             sent == SentOut
             credit == AllCredit(txs)
             debit == AllDebit(txs)
             net == [t \in TxIds |-> debit[t] - credit[t]]
             lost == {t \in Live : txs[t].status = "absent"}
  <2>1. /\ txs \in [TxIds -> Rows] /\ received \in [Phones -> Nat]
        /\ arriving \in [Phones -> Nat] /\ \A t \in TxIds : chain[t].amount \in Nat
    BY <1>1 DEF IInv, TypeOK, ChainRecords
  <2>2. \A w \in Phones : /\ received[w] \in Int /\ all[w] \in Int
                          /\ received[w] <= all[w]
    BY <2>1
  <2>3. \A t \in TxIds : /\ broadcast[t] \in Int /\ unrecorded[t] \in Int
                         /\ sent[t] \in Int /\ sent[t] = broadcast[t] - unrecorded[t]
                         /\ credit[t] \in Int /\ debit[t] \in Int
                         /\ net[t] = debit[t] - credit[t] /\ net[t] \in Int
                         /\ sent[t] <= net[t]
    <3> TAKE t \in TxIds
    <3>1. chain[t].amount \in Int
      BY <2>1
    <3>2. credit[t] \in Int /\ debit[t] \in Int
      BY <2>1, RowNumbers
    <3>3. sent[t] <= debit[t] - credit[t]
      BY <1>1, RowSolvent
    <3> HIDE DEF credit, debit
    <3> QED
      BY <3>1, <3>2, <3>3 DEF SentOut
  <2>4. /\ Live \in SUBSET TxIds /\ lost \in SUBSET TxIds
        /\ \A t \in Live : amounts[t] \in Int /\ broadcast[t] = amounts[t]
        /\ \A t \in TxIds \ Live : broadcast[t] = 0
        /\ \A t \in lost : amounts[t] \in Int /\ unrecorded[t] = amounts[t]
        /\ \A t \in TxIds \ lost : unrecorded[t] = 0
    BY <2>1 DEF Live
  <2>5. /\ AccountBalance = SumFunctionOnSet(all, Phones) - SumFunctionOnSet(amounts, Live)
        /\ Unrecorded = SumFunctionOnSet(amounts, lost)
    BY DEF AccountBalance, Deposited, Unrecorded, Total
  <2>6. LedgerTotal = SumFunctionOnSet(received, Phones)
          + (SumFunctionOnSet(credit, TxIds) - SumFunctionOnSet(debit, TxIds))
    BY <1>1, LedgerTotalIs DEF Total, IInv
  <2> HIDE DEF all, broadcast, unrecorded, amounts, sent, credit, debit, net, lost
  <2>7. SumFunctionOnSet(received, Phones) <= SumFunctionOnSet(all, Phones)
    BY <2>2, SumAtMost, TablesAssumption
  <2>8. SumFunctionOnSet(amounts, Live) = SumFunctionOnSet(broadcast, TxIds)
    BY <2>4, SumOfPart, TablesAssumption
  <2>9. SumFunctionOnSet(amounts, lost) = SumFunctionOnSet(unrecorded, TxIds)
    BY <2>4, SumOfPart, TablesAssumption
  <2>10. SumFunctionOnSet(sent, TxIds)
           = SumFunctionOnSet(broadcast, TxIds) - SumFunctionOnSet(unrecorded, TxIds)
    BY <2>3, SumMinus, TablesAssumption
  <2>11. SumFunctionOnSet(net, TxIds)
           = SumFunctionOnSet(debit, TxIds) - SumFunctionOnSet(credit, TxIds)
    BY <2>3, SumMinus, TablesAssumption
  <2>12. SumFunctionOnSet(sent, TxIds) <= SumFunctionOnSet(net, TxIds)
    BY <2>3, SumAtMost, TablesAssumption
  <2>13. /\ SumFunctionOnSet(received, Phones) \in Int /\ SumFunctionOnSet(all, Phones) \in Int
         /\ SumFunctionOnSet(broadcast, TxIds) \in Int
         /\ SumFunctionOnSet(unrecorded, TxIds) \in Int
         /\ SumFunctionOnSet(credit, TxIds) \in Int /\ SumFunctionOnSet(debit, TxIds) \in Int
    BY <2>2, <2>3, SumInt, TablesAssumption
  <2> QED
    BY <2>5, <2>6, <2>7, <2>8, <2>9, <2>10, <2>11, <2>12, <2>13 DEF Solvency
<1> QED
  BY <1>1, LedgerHolds, PTL

-----------------------------------------------------------------------------
(* One handler at a time *)

(* What follows needs that requests are not handled concurrently; the runs   *)
(* DoubleSpend, Phantom and LostWakeup show what two handlers make of it.    *)
OneHandler == \A p, q \in Procs : p = q

(* A successful transfer inside the service names the wallet it went to. *)
PaidInside(row) ==
    row.type = "internal" /\ row.status = "success" => row.toWallet \in Phones

RecipientsPaid ==
    /\ \A t \in TxIds : PaidInside(txs[t])
    /\ \A p \in Procs : pc[p] = "commit" => PaidInside(send[p].row)

(* The two statements of NotifyUserCreatesWallet find the same rows, and     *)
(* leave none out.                                                           *)
AwaitingKnown ==
    \A p \in Procs :
        /\ pc[p] \in {"claimed", "selected"} =>
              Awaiting(notify[p].wallet) \subseteq notify[p].claimed
        /\ pc[p] = "selected" =>
              /\ notify[p].selected \subseteq notify[p].claimed
              /\ Awaiting(notify[p].wallet) \subseteq notify[p].selected

(* What Send learned of its recipient's wallet is still so. *)
NoWalletYet ==
    \A p \in Procs : pc[p] \in SendSteps /\ send[p].row.toWallet = Nobody =>
        send[p].row.toPhone \notin wallets

AloneInv == RecipientsPaid /\ AwaitingKnown /\ NoWalletYet

LEMMA AloneInit == Init => AloneInv
BY DEF Init, NoRow, AloneInv, RecipientsPaid, PaidInside, AwaitingKnown, NoWalletYet, SendSteps

(* Only the handler itself inserts a row, wakes one or creates a wallet. *)
LEMMA WalletsChange ==
    ASSUME [Next]_vars, wallets' # wallets
    PROVE  \E p \in Procs, w \in Phones : CreateWallet(p, w)
<1>1. CASE Elsewhere
  BY <1>1 DEF Elsewhere, BroadcastThenFail, Abort, Age, IsConfirmed, IsConfirmedFails, Mine, Drop,
     OnCheckOutdated, WatchConfirmations, UpdateConfirmed, WatcherFails, Deposit, ConfirmDeposit,
     dbVars
<1>2. ASSUME NEW p \in Procs, HandlerStep(p) PROVE FALSE
  BY <1>2 DEF HandlerStep, ReadAccountBalance, ReadAddressBalance, Validate, Recheck, Broadcast,
     NodeRefuses, CommitSend, ClaimAwaiting, SelectAwaiting, CommitNotify, dbVars
<1>3. ASSUME NEW p \in Procs, Request(p) PROVE \E w \in Phones : CreateWallet(p, w)
  BY <1>3 DEF Request, SendToPhone, SentToAddress, StartSend, dbVars
<1>4. CASE UNCHANGED vars
  BY <1>4 DEF vars, dbVars
<1> QED
  BY <1>1, <1>2, <1>3, <1>4, NextSplits

LEMMA NotifyStep ==
    ASSUME IInv, [Next]_vars, NEW p \in Procs, pc'[p] \in {"claimed", "selected"}
    PROVE  \/ pc'[p] = pc[p] /\ notify'[p] = notify[p]
           \/ ClaimAwaiting(p) /\ pc'[p] = "claimed"
           \/ SelectAwaiting(p) /\ pc[p] = "claimed" /\ pc'[p] = "selected"
<1>1. /\ pc \in [Procs -> {"idle"} \cup SendSteps \cup NotifySteps]
      /\ notify \in [Procs -> NotifyRecords]
  BY DEF IInv, TypeOK
<1>2. ASSUME NEW q \in Procs, Request(q) PROVE pc'[p] = pc[p] /\ notify'[p] = notify[p]
  BY <1>1, <1>2 DEF Request, SendToPhone, SentToAddress, StartSend, CreateWallet
<1>3. ASSUME NEW q \in Procs, HandlerStep(q), q # p
      PROVE  pc'[p] = pc[p] /\ notify'[p] = notify[p]
  BY <1>1, <1>3 DEF HandlerStep, ReadAccountBalance, ReadAddressBalance, Validate, Recheck,
     Broadcast, NodeRefuses, CommitSend, ClaimAwaiting, SelectAwaiting, CommitNotify
<1>4. ASSUME HandlerStep(p)
      PROVE  \/ ClaimAwaiting(p) /\ pc'[p] = "claimed"
             \/ SelectAwaiting(p) /\ pc[p] = "claimed" /\ pc'[p] = "selected"
  BY <1>1, <1>4 DEF HandlerStep, ReadAccountBalance, ReadAddressBalance, Validate, Recheck,
     Broadcast, NodeRefuses, CommitSend, ClaimAwaiting, SelectAwaiting, CommitNotify
<1>5. CASE Elsewhere
  BY <1>1, <1>5 DEF Elsewhere, BroadcastThenFail, Abort, Age, IsConfirmed, IsConfirmedFails, Mine,
     Drop, OnCheckOutdated, WatchConfirmations, UpdateConfirmed, WatcherFails, Deposit,
     ConfirmDeposit, procVars
<1>6. CASE UNCHANGED vars
  BY <1>6 DEF vars, procVars
<1> QED
  BY <1>2, <1>3, <1>4, <1>5, <1>6, NextSplits

LEMMA AloneStep ==
    ASSUME OneHandler, IInv, LInv, AloneInv, [Next]_vars
    PROVE  AloneInv'
<1>1. ASSUME NEW p \in Procs, pc'[p] = "commit" PROVE PaidInside(send'[p].row)
  <2>1. send[p].row \in Rows
    BY HandTyped
  <2>2. CASE SameHand(p)
    BY <1>1, <2>2 DEF SameHand, AloneInv, RecipientsPaid
  <2>3. CASE ValidatedHand(p)
    <3>1. Validated(send[p].row, Verdict(p)).status = "success" =>
              Validated(send[p].row, Verdict(p)).toWallet \in Phones
      BY <2>1, ValidatedFacts DEF Rows
    <3> QED
      BY <2>3, <3>1 DEF ValidatedHand, PaidInside
  <2>4. CASE BroadcastHand(p)
    BY <2>4, BroadcastFacts DEF PaidInside
  <2> QED
    BY <1>1, <2>2, <2>3, <2>4, HandStep DEF SendSteps, Begun
<1>2. ASSUME NEW t \in TxIds PROVE PaidInside(txs'[t])
  <2>1. txs[t] \in Rows /\ PaidInside(txs[t])
    BY DEF IInv, TypeOK, AloneInv, RecipientsPaid
  <2>2. ASSUME NEW p \in Procs, Inserted(p, t) PROVE PaidInside(txs'[t])
    BY <2>2 DEF Inserted, AloneInv, RecipientsPaid
  <2>3. ASSUME NEW p \in Procs, Wakes(p, t) PROVE PaidInside(txs'[t])
    <3>1. /\ t \in notify[p].claimed /\ notify[p].wallet \in wallets /\ wallets \subseteq Phones
      BY <2>3 DEF Wakes, AloneInv, AwaitingKnown, IInv, TypeOK, Notifying, NotifySteps
    <3>2. notify[p].wallet \in Phones \cup {Nobody}
      BY <3>1
    <3>3. txs'[t].toWallet = notify[p].wallet
      BY <2>1, <2>3, <3>1, <3>2, WokenFacts DEF Wakes
    <3> QED
      BY <3>1, <3>3 DEF PaidInside
  <2>4. ASSUME Cancelled(t) \/ Follows(t) PROVE PaidInside(txs'[t])
    BY <2>1, <2>4, CancelledFollows DEF PaidInside
  <2> QED
    BY <2>1, <2>2, <2>3, <2>4, RowStep
<1>3. ASSUME NEW p \in Procs, pc'[p] \in {"claimed", "selected"}
      PROVE  \A w : Awaiting(w)' \subseteq Awaiting(w)
  <2>1. ASSUME NEW t \in TxIds, txs'[t].status = "pending" PROVE txs'[t] = txs[t]
    <3>0. txs[t] \in Rows
      BY DEF IInv, TypeOK
    <3>1. ASSUME NEW q \in Procs, Inserted(q, t) PROVE FALSE
      BY <1>3, <3>1 DEF OneHandler, Inserted, CommitSend, IInv, TypeOK
    <3>2. ASSUME NEW q \in Procs, Wakes(q, t) PROVE txs'[t].status = "success"
      <4>1. notify[q].wallet \in Phones \cup {Nobody}
        BY DEF IInv, TypeOK, NotifyRecords
      <4> QED
        BY <3>0, <3>2, <4>1, WokenFacts DEF Wakes
    <3>3. ASSUME Cancelled(t) \/ Follows(t) PROVE FALSE
      BY <2>1, <3>0, <3>3, CancelledFollows
    <3> QED
      BY <2>1, <3>1, <3>2, <3>3, RowStep
  <2> QED
    BY <2>1 DEF Awaiting
<1>4. AwaitingKnown'
  <2> SUFFICES ASSUME NEW p \in Procs, pc'[p] \in {"claimed", "selected"}
               PROVE  /\ Awaiting(notify[p].wallet)' \subseteq notify'[p].claimed
                      /\ pc'[p] = "selected" =>
                            /\ notify'[p].selected \subseteq notify'[p].claimed
                            /\ Awaiting(notify[p].wallet)' \subseteq notify'[p].selected
    BY DEF AwaitingKnown
  <2>1. CASE pc'[p] = pc[p] /\ notify'[p] = notify[p]
    <3>1. Awaiting(notify[p].wallet)' \subseteq Awaiting(notify[p].wallet)
      BY <1>3, <2>1 DEF Awaiting
    <3> QED
      BY <2>1, <3>1 DEF AloneInv, AwaitingKnown
  <2>2. CASE ClaimAwaiting(p) /\ pc'[p] = "claimed"
    <3>1. /\ notify'[p].claimed = Awaiting(notify[p].wallet)
          /\ notify'[p].wallet = notify[p].wallet
      BY <2>2 DEF ClaimAwaiting, IInv, TypeOK, NotifyRecords
    <3>2. Awaiting(notify[p].wallet)' \subseteq Awaiting(notify[p].wallet)
      BY <1>3, <3>1 DEF Awaiting
    <3> QED
      BY <2>2, <3>1, <3>2
  <2>3. CASE SelectAwaiting(p) /\ pc[p] = "claimed" /\ pc'[p] = "selected"
    <3>1. /\ notify'[p].selected = Awaiting(notify[p].wallet)
          /\ notify'[p].claimed = notify[p].claimed
          /\ notify'[p].wallet = notify[p].wallet
      BY <2>3 DEF SelectAwaiting, IInv, TypeOK, NotifyRecords
    <3>2. Awaiting(notify[p].wallet)' \subseteq Awaiting(notify[p].wallet)
      BY <1>3, <3>1 DEF Awaiting
    <3> QED
      BY <2>3, <3>1, <3>2 DEF AloneInv, AwaitingKnown
  <2> QED
    BY <2>1, <2>2, <2>3, NotifyStep
<1>5. ASSUME NEW p \in Procs, pc'[p] \in SendSteps, send'[p].row.toWallet = Nobody
      PROVE  send'[p].row.toPhone \notin wallets'
  <2>1. wallets' = wallets
    <3>1. ASSUME NEW q \in Procs, NEW w \in Phones, CreateWallet(q, w) PROVE FALSE
      BY <1>5, <3>1 DEF OneHandler, CreateWallet, IInv, TypeOK, SendSteps
    <3> QED
      BY <3>1, WalletsChange
  <2>2. send[p].row \in Rows
    BY HandTyped
  <2>3. CASE SameHand(p)
    BY <1>5, <2>1, <2>3 DEF SameHand, AloneInv, NoWalletYet
  <2>4. CASE Begun(p)
    BY <1>5, <2>1, <2>4, BegunFacts
  <2>5. CASE ValidatedHand(p)
    BY <1>5, <2>1, <2>2, <2>5, ValidatedFacts
       DEF ValidatedHand, AloneInv, NoWalletYet, SendSteps
  <2>6. CASE BroadcastHand(p)
    BY <1>5, <2>1, <2>6, BroadcastFacts DEF BroadcastHand, AloneInv, NoWalletYet, SendSteps
  <2> QED
    BY <1>5, <2>3, <2>4, <2>5, <2>6, HandStep
<1> QED
  BY <1>1, <1>2, <1>4, <1>5 DEF AloneInv, RecipientsPaid, NoWalletYet

LEMMA AloneHolds ==
    ASSUME OneHandler
    PROVE  Spec => [](IInv /\ LInv /\ AloneInv)
BY InvInit, InvStep, LedgerInit, LedgerStep, AloneInit, AloneStep, PTL DEF Spec

(* What a row holds of its sender's coins, outside every wallet. *)
HeldOutside ==
    [t \in TxIds |-> IF \/ txs[t].status = "pending"
                        \/ txs[t].status \in {"waiting", "success"} /\ txs[t].type = "external"
                     THEN Held[t] ELSE 0]

(* The books of one row balance: what it takes from its sender it holds or   *)
(* has given to its recipient.                                               *)
LEMMA RowConserves ==
    ASSUME IInv, LInv, RecipientsPaid, NEW t \in TxIds
    PROVE  /\ HeldOutside[t] \in Nat
           /\ HeldOutside[t] = AllDebit(txs)[t] - AllCredit(txs)[t]
<1>1. txs[t] \in Rows
  BY DEF IInv, TypeOK
<1>2. /\ txs[t].amount \in Nat /\ txs[t].fee \in Nat
      /\ txs[t].status \in CommittedStatuses /\ txs[t].type \in {"internal", "external"}
      /\ txs[t].status = "pending" => txs[t].type = "internal"
  BY <1>1 DEF Rows, IInv, RowsWellFormed
<1>3. txs[t].status = "waiting" => txs[t].type = "external"
  BY DEF IInv, ChainAgrees, SettledRow
<1>4. AllCredit(txs)[t] = IF txs[t].type = "internal" /\ txs[t].status = "success"
                          THEN txs[t].amount ELSE 0
  BY DEF RecipientsPaid, PaidInside, AllCredit, OfKeys, Payee, Paid
<1>5. AllDebit(txs)[t] = IF IsHoldsAmount(txs[t]) THEN txs[t].amount + txs[t].fee ELSE 0
  BY DEF LInv, SendersKnown, AllDebit, OfKeys, Payer, Reserved, IsHoldsAmount
<1>6. txs[t].type = "internal" => txs[t].fee = 0
  BY DEF LInv, FeesKnown, FreeInside
<1>7. Held[t] = txs[t].amount + txs[t].fee
  BY DEF Held
<1> QED
  BY <1>2, <1>3, <1>4, <1>5, <1>6, <1>7 DEF HeldOutside, IsHoldsAmount, CommittedStatuses

(* Coins move between wallets, into pending transactions and out of the      *)
(* service, and none appear or vanish, whatever fails in between.  With      *)
(* several handlers a row may be woken without its recipient (run Phantom).  *)
THEOREM CoinsConserved ==
    ASSUME Coin = "BTC", OneHandler
    PROVE  Spec => []Conservation
<1>1. ASSUME IInv, LInv, AloneInv PROVE Conservation
  <2> DEFINE out == {t \in InStatus({"waiting", "success"}) : txs[t].type = "external"}
             outside == InStatus({"pending"}) \cup out
             credit == AllCredit(txs)
             debit == AllDebit(txs)
             held == HeldOutside
             amounts == Held
  <2>1. txs \in [TxIds -> Rows]
    BY <1>1 DEF IInv, TypeOK
  <2>2. \A t \in TxIds : /\ credit[t] \in Int /\ debit[t] \in Int /\ held[t] \in Int
                         /\ held[t] = debit[t] - credit[t]
    <3> TAKE t \in TxIds
    <3>1. credit[t] \in Int /\ debit[t] \in Int
      BY <2>1, RowNumbers
    <3>2. held[t] \in Nat /\ held[t] = debit[t] - credit[t]
      BY <1>1, RowConserves DEF AloneInv
    <3> QED
      BY <3>1, <3>2
  <2>3. /\ outside \in SUBSET TxIds
        /\ \A t \in outside : amounts[t] \in Int /\ held[t] = amounts[t]
        /\ \A t \in TxIds \ outside : held[t] = 0
    <3>1. outside \in SUBSET TxIds
      BY DEF InStatus
    <3>2. \A t \in TxIds : amounts[t] \in Int
      BY <2>1 DEF Held, Rows
    <3>3. \A t \in TxIds : held[t] = IF t \in outside THEN amounts[t] ELSE 0
      BY DEF HeldOutside, InStatus
    <3> QED
      BY <3>1, <3>2, <3>3
  <2>4. LedgerTotal = SumFunctionOnSet(received, Phones)
          + (SumFunctionOnSet(credit, TxIds) - SumFunctionOnSet(debit, TxIds))
        /\ SumFunctionOnSet(received, Phones) \in Nat
    BY <1>1, LedgerTotalIs DEF Total, IInv
  <2>5. Conservation <=> LedgerTotal + SumFunctionOnSet(amounts, outside)
                           = SumFunctionOnSet(received, Phones)
    BY DEF Conservation, Total
  <2> HIDE DEF outside, credit, debit, held, amounts
  <2>6. SumFunctionOnSet(amounts, outside) = SumFunctionOnSet(held, TxIds)
    BY <2>3, SumOfPart, TablesAssumption
  <2>7. SumFunctionOnSet(held, TxIds)
          = SumFunctionOnSet(debit, TxIds) - SumFunctionOnSet(credit, TxIds)
    BY <2>2, SumMinus, TablesAssumption
  <2>8. SumFunctionOnSet(credit, TxIds) \in Int /\ SumFunctionOnSet(debit, TxIds) \in Int
    BY <2>2, SumInt, TablesAssumption
  <2> QED
    BY <2>4, <2>5, <2>6, <2>7, <2>8
<1> QED
  BY <1>1, AloneHolds, PTL

-----------------------------------------------------------------------------
(* Pending transactions are not forgotten *)

(* While a handler notifies, a step keeps it at it or ends it with its commit. *)
LEMMA NotifyGoesOn ==
    ASSUME IInv, [Next]_vars, MaxFailures = 0, NEW p \in Procs, pc[p] \in NotifySteps
    PROVE  \/ pc'[p] \in NotifySteps /\ notify'[p].wallet = notify[p].wallet
           \/ CommitNotify(p)
<1>1. /\ pc \in [Procs -> {"idle"} \cup SendSteps \cup NotifySteps]
      /\ notify \in [Procs -> NotifyRecords] /\ failures \in Nat
  BY DEF IInv, TypeOK
<1>2. ASSUME NEW q \in Procs, Request(q) PROVE pc'[p] = pc[p] /\ notify'[p] = notify[p]
  BY <1>1, <1>2 DEF Request, SendToPhone, SentToAddress, StartSend, CreateWallet, NotifySteps
<1>3. ASSUME NEW q \in Procs, HandlerStep(q), q # p
      PROVE  pc'[p] = pc[p] /\ notify'[p] = notify[p]
  BY <1>1, <1>3 DEF HandlerStep, ReadAccountBalance, ReadAddressBalance, Validate, Recheck,
     Broadcast, NodeRefuses, CommitSend, ClaimAwaiting, SelectAwaiting, CommitNotify
<1>4. CASE ClaimAwaiting(p) \/ SelectAwaiting(p)
  <2>1. PICK ts \in SUBSET TxIds :
            \/ notify' = [notify EXCEPT ![p].claimed = ts]
            \/ notify' = [notify EXCEPT ![p].selected = ts]
    BY <1>4 DEF ClaimAwaiting, SelectAwaiting, Awaiting
  <2>2. notify'[p].wallet = notify[p].wallet
    BY <1>1, <2>1 DEF NotifyRecords
  <2> QED
    BY <1>1, <1>4, <2>2 DEF ClaimAwaiting, SelectAwaiting, NotifySteps
<1>5. ASSUME HandlerStep(p)
      PROVE  ClaimAwaiting(p) \/ SelectAwaiting(p) \/ CommitNotify(p)
  BY <1>5 DEF HandlerStep, ReadAccountBalance, ReadAddressBalance, Validate, Recheck, Broadcast,
     NodeRefuses, CommitSend, NotifySteps
<1>6. CASE Elsewhere
  BY <1>1, <1>6 DEF Elsewhere, BroadcastThenFail, Abort, Age, IsConfirmed, IsConfirmedFails, Mine,
     Drop, OnCheckOutdated, WatchConfirmations, UpdateConfirmed, WatcherFails, Deposit,
     ConfirmDeposit, procVars
<1>7. CASE UNCHANGED vars
  BY <1>7 DEF vars, procVars
<1> QED
  BY <1>2, <1>3, <1>4, <1>5, <1>6, <1>7, NextSplits

LEMMA PendingStep ==
    ASSUME OneHandler, MaxFailures = 0, IInv, AloneInv, NoForgottenPending, [Next]_vars,
           IInv', AloneInv'
    PROVE  NoForgottenPending'
<1> SUFFICES ASSUME NEW t \in TxIds, txs'[t].status = "pending", txs'[t].toPhone \in wallets'
             PROVE  \E p \in Procs : /\ pc'[p] \in NotifySteps
                                     /\ notify'[p].wallet = txs'[t].toPhone
  BY DEF NoForgottenPending, InStatus
<1>1. txs[t] \in Rows
  BY DEF IInv, TypeOK
<1>2. ASSUME NEW p \in Procs, NEW w \in Phones, CreateWallet(p, w)
      PROVE  /\ pc'[p] \in NotifySteps /\ notify'[p].wallet = w
             /\ wallets' = wallets \cup {w} /\ txs' = txs
  <2>1. notify[p] \in NotifyRecords
    BY DEF IInv, TypeOK
  <2> QED
    BY <1>2, <2>1 DEF CreateWallet, NotifySteps, NotifyRecords, IInv, TypeOK
<1>3. ASSUME NEW p \in Procs, Inserted(p, t) PROVE FALSE
  <2>1. /\ txs'[t] = send[p].row /\ pc[p] = "commit" /\ send[p].row.toWallet = Nobody
        /\ wallets' = wallets
    BY <1>3 DEF Inserted, CommitSend, IInv, Sending
  <2> QED
    BY <2>1 DEF AloneInv, NoWalletYet, SendSteps
<1>4. ASSUME NEW p \in Procs, Wakes(p, t) PROVE FALSE
  <2>1. notify[p].wallet \in Phones \cup {Nobody}
    BY DEF IInv, TypeOK, NotifyRecords
  <2> QED
    BY <1>1, <1>4, <2>1, WokenFacts DEF Wakes
<1>5. ASSUME Cancelled(t) \/ Follows(t) PROVE FALSE
  BY <1>1, <1>5, CancelledFollows
<1>6. txs'[t] = txs[t]
  BY <1>3, <1>4, <1>5, RowStep
<1>7. CASE txs[t].toPhone \notin wallets
  <2>1. PICK p \in Procs, w \in Phones : CreateWallet(p, w)
    BY <1>6, <1>7, WalletsChange
  <2> QED
    BY <1>2, <1>6, <1>7, <2>1
<1>8. CASE txs[t].toPhone \in wallets
  <2>1. PICK p \in Procs : pc[p] \in NotifySteps /\ notify[p].wallet = txs[t].toPhone
    BY <1>6, <1>8 DEF NoForgottenPending, InStatus
  <2>2. CASE CommitNotify(p)
    <3>1. t \in notify[p].selected
      BY <1>6, <2>1, <2>2 DEF CommitNotify, AloneInv, AwaitingKnown, Awaiting
    <3>2. txs'[t] = Woken(t, notify[p]) /\ notify[p].wallet \in Phones \cup {Nobody}
      BY <2>2, <3>1 DEF CommitNotify, IInv, TypeOK, NotifyRecords
    <3> QED
      BY <1>1, <3>2, WokenFacts
  <2> QED
    BY <1>6, <2>1, <2>2, NotifyGoesOn
<1> QED
  BY <1>7, <1>8

(* As long as nothing fails and requests come one after the other, no        *)
(* transaction is left pending for a user who has a wallet                   *)
(* (NoForgottenPending).  A notification that fails is not taken up again,   *)
(* hence no failures; run LostWakeup shows why one handler.                  *)
THEOREM PendingRemembered ==
    ASSUME OneHandler, MaxFailures = 0
    PROVE  Spec => []NoForgottenPending
<1>1. Init => NoForgottenPending
  BY DEF Init, NoRow, NoForgottenPending, InStatus
<1>2. IInv /\ LInv /\ AloneInv /\ NoForgottenPending /\ [Next]_vars
        => (IInv /\ LInv /\ AloneInv /\ NoForgottenPending)'
  BY InvStep, LedgerStep, AloneStep, PendingStep
<1> QED
  BY <1>1, <1>2, InvInit, LedgerInit, AloneInit, PTL DEF Spec

-----------------------------------------------------------------------------
(* What a step does to the balance of one wallet *)

LEMMA TxsesSumAtLeast ==
    ASSUME NEW old \in [TxIds -> Rows], NEW new \in [TxIds -> Rows], NEW w, NEW extra,
           \A t \in TxIds : /\ extra[t] \in Int
                            /\ Credit(w, old)[t] <= Credit(w, new)[t]
                            /\ Debit(w, new)[t] <= Debit(w, old)[t] + extra[t]
    PROVE  /\ TxsesSum(w, old) \in Int /\ TxsesSum(w, new) \in Int
           /\ Total(TxIds, extra) \in Int
           /\ TxsesSum(w, old) - Total(TxIds, extra) <= TxsesSum(w, new)
<1> DEFINE c == Credit(w, old)
           d == Credit(w, new)
           e == Debit(w, old)
           f == Debit(w, new)
           g == [t \in TxIds |-> e[t] + extra[t]]
<1>1. \A t \in TxIds : /\ c[t] \in Int /\ d[t] \in Int /\ e[t] \in Int /\ f[t] \in Int
                       /\ g[t] \in Int /\ extra[t] \in Int /\ e[t] = g[t] - extra[t]
                       /\ c[t] <= d[t] /\ f[t] <= g[t]
  <2> TAKE t \in TxIds
  <2>1. c[t] \in Int /\ d[t] \in Int /\ e[t] \in Int /\ f[t] \in Int
    BY RowNumbers
  <2>2. extra[t] \in Int /\ c[t] <= d[t] /\ f[t] <= e[t] + extra[t]
    OBVIOUS
  <2> HIDE DEF c, d, e, f
  <2> QED
    BY <2>1, <2>2
<1>2. /\ TxsesSum(w, old) = Total(TxIds, c) - Total(TxIds, e)
      /\ TxsesSum(w, new) = Total(TxIds, d) - Total(TxIds, f)
  BY IncomeIsCredit, OutcomeIsDebit DEF TxsesSum
<1> HIDE DEF c, d, e, f, g
<1>3. Total(TxIds, c) <= Total(TxIds, d) /\ Total(TxIds, f) <= Total(TxIds, g)
  BY <1>1, SumAtMost, TablesAssumption DEF Total
<1>4. Total(TxIds, e) = Total(TxIds, g) - Total(TxIds, extra)
  BY <1>1, SumMinus, TablesAssumption DEF Total
<1>5. /\ Total(TxIds, c) \in Int /\ Total(TxIds, d) \in Int /\ Total(TxIds, e) \in Int
      /\ Total(TxIds, f) \in Int /\ Total(TxIds, g) \in Int /\ Total(TxIds, extra) \in Int
  BY <1>1, SumInt, TablesAssumption DEF Total
<1> QED
  BY <1>2, <1>3, <1>4, <1>5

(* What an address has received is never taken back. *)
LEMMA ReceivedGrows ==
    ASSUME IInv, [Next]_vars, NEW w \in Phones
    PROVE  received[w] \in Nat /\ received'[w] \in Nat /\ received[w] <= received'[w]
<1>1. received \in [Phones -> Nat] /\ arriving \in [Phones -> Nat]
  BY DEF IInv, TypeOK
<1>2. ASSUME NEW v \in Phones, ConfirmDeposit(v)
      PROVE  received'[w] = IF w = v THEN received[v] + arriving[v] ELSE received[w]
  BY <1>1, <1>2 DEF ConfirmDeposit
<1>3. received' = received \/ \E v \in Phones : ConfirmDeposit(v)
  <2>1. CASE Elsewhere
    BY <2>1 DEF Elsewhere, BroadcastThenFail, Abort, Age, IsConfirmed, IsConfirmedFails, Mine, Drop,
       OnCheckOutdated, WatchConfirmations, UpdateConfirmed, WatcherFails, Deposit, chainVars
  <2>2. ASSUME NEW p \in Procs, HandlerStep(p) PROVE received' = received
    BY <2>2 DEF HandlerStep, ReadAccountBalance, ReadAddressBalance, Validate, Recheck, Broadcast,
       NodeRefuses, CommitSend, ClaimAwaiting, SelectAwaiting, CommitNotify, chainVars
  <2>3. ASSUME NEW p \in Procs, Request(p) PROVE received' = received
    BY <2>3 DEF Request, SendToPhone, SentToAddress, StartSend, CreateWallet, chainVars
  <2>4. CASE UNCHANGED vars
    BY <2>4 DEF vars, chainVars
  <2> QED
    BY <2>1, <2>2, <2>3, <2>4, NextSplits
<1> QED
  BY <1>1, <1>2, <1>3

(* One row before and after a step, in the ledger of w. *)
LEMMA RowInLedger ==
    ASSUME IInv, [Next]_vars, NEW w \in Phones, NEW t \in TxIds, txs'[t] \in Rows,
           \A p \in Procs : Inserted(p, t) => send[p].row.from # w
    PROVE  /\ Credit(w, txs)[t] <= Credit(w, txs')[t]
           /\ Debit(w, txs')[t] <= Debit(w, txs)[t]
<1>1. txs[t] \in Rows
  BY DEF IInv, TypeOK
<1>2. /\ txs[t].amount \in Nat /\ txs[t].fee \in Nat
      /\ txs'[t].amount \in Nat /\ txs'[t].fee \in Nat
  BY <1>1 DEF Rows
<1> DEFINE credit(row) == IF /\ row.toWallet = w /\ row.type = "internal"
                             /\ row.status = "success" THEN row.amount ELSE 0
           debit(row) == IF row.from = w /\ IsHoldsAmount(row) THEN row.amount + row.fee ELSE 0
<1>3. /\ Credit(w, txs)[t] = credit(txs[t]) /\ Credit(w, txs')[t] = credit(txs'[t])
      /\ Debit(w, txs)[t] = debit(txs[t]) /\ Debit(w, txs')[t] = debit(txs'[t])
  BY DEF Credit, Debit, OfKey, Payee, Paid, Payer, Reserved
<1>4. CASE txs'[t] = txs[t]
  BY <1>2, <1>3, <1>4
<1>5. ASSUME NEW p \in Procs, Inserted(p, t) PROVE credit(txs[t]) = 0 /\ debit(txs'[t]) = 0
  BY <1>5 DEF Inserted, NoRow
<1>6. ASSUME NEW p \in Procs, Wakes(p, t)
      PROVE  credit(txs[t]) = 0 /\ debit(txs'[t]) = debit(txs[t])
  <2>1. notify[p].wallet \in Phones \cup {Nobody}
    BY DEF IInv, TypeOK, NotifyRecords
  <2>2. /\ txs'[t].status = "success" /\ txs'[t].from = txs[t].from
        /\ txs'[t].amount = txs[t].amount /\ txs'[t].fee = txs[t].fee
        /\ txs[t].status = "pending"
    BY <1>1, <1>6, <2>1, WokenFacts DEF Wakes
  <2> QED
    BY <2>2 DEF IsHoldsAmount
<1>7. ASSUME Cancelled(t) \/ Follows(t)
      PROVE  credit(txs[t]) = 0 /\ debit(txs'[t]) <= debit(txs[t])
  <2>1. /\ txs'[t].from = txs[t].from /\ txs'[t].amount = txs[t].amount
        /\ txs'[t].fee = txs[t].fee /\ txs[t].status \in {"pending", "waiting"}
    BY <1>1, <1>7, CancelledFollows
  <2> QED
    BY <1>2, <2>1 DEF IsHoldsAmount
<1>8. /\ credit(txs[t]) \in Nat /\ credit(txs'[t]) \in Nat
      /\ debit(txs[t]) \in Nat /\ debit(txs'[t]) \in Nat
  BY <1>2
<1> HIDE DEF credit, debit
<1> QED
  BY <1>3, <1>4, <1>5, <1>6, <1>7, <1>8, RowStep

LEMMA LedgerBalanceIs ==
    ASSUME Coin = "BTC", NEW w
    PROVE  LedgerBalance(w) = received[w] + TxsesSum(w, txs)
BY DEF LedgerBalance, TotalWalletBalance, AddressBalance, SupportInternalTxs

(* A balance goes down only by what its owner sends. *)
LEMMA BalanceKept ==
    ASSUME Coin = "BTC", IInv, IInv', [Next]_vars, NEW w \in Phones,
           \A p \in Procs : CommitSend(p) => send[p].row.from # w
    PROVE  /\ LedgerBalance(w) \in Int /\ LedgerBalance(w)' \in Int
           /\ LedgerBalance(w) <= LedgerBalance(w)'
           /\ TxsesSum(w, txs) <= TxsesSum(w, txs')
<1> DEFINE extra == [t \in TxIds |-> 0]
<1>1. txs \in [TxIds -> Rows] /\ txs' \in [TxIds -> Rows]
  BY DEF IInv, TypeOK
<1>2. \A t \in TxIds : /\ extra[t] \in Int
                       /\ Credit(w, txs)[t] <= Credit(w, txs')[t]
                       /\ Debit(w, txs')[t] <= Debit(w, txs)[t] + extra[t]
  <2> TAKE t \in TxIds
  <2>1. \A p \in Procs : Inserted(p, t) => send[p].row.from # w
    BY DEF Inserted
  <2>2. Debit(w, txs)[t] \in Nat /\ Debit(w, txs')[t] \in Nat
    BY <1>1, RowNumbers
  <2>3. Credit(w, txs)[t] <= Credit(w, txs')[t] /\ Debit(w, txs')[t] <= Debit(w, txs)[t]
    BY <1>1, <2>1, RowInLedger
  <2> QED
    BY <2>2, <2>3
<1>3. Total(TxIds, extra) = 0
  BY SumOfZeros, TablesAssumption DEF Total
<1> HIDE DEF extra
<1>4. /\ TxsesSum(w, txs) \in Int /\ TxsesSum(w, txs') \in Int
      /\ TxsesSum(w, txs) - 0 <= TxsesSum(w, txs')
  BY <1>1, <1>2, <1>3, TxsesSumAtLeast
<1>5. LedgerBalance(w)' = received'[w] + TxsesSum(w, txs')
  BY DEF LedgerBalance, TotalWalletBalance, AddressBalance, SupportInternalTxs, TxsesSum, Income,
         Outcome
<1> QED
  BY <1>4, <1>5, LedgerBalanceIs, ReceivedGrows

LEMMA BalanceSpent ==
    ASSUME Coin = "BTC", IInv, IInv', NEW p \in Procs, CommitSend(p),
           NEW w \in Phones, w = send[p].row.from
    PROVE  LET row == send[p].row
               cost == IF row.status = "decline" THEN 0 ELSE row.amount + row.fee
           IN  /\ LedgerBalance(w) \in Int /\ LedgerBalance(w)' \in Int
               /\ LedgerBalance(w) - cost <= LedgerBalance(w)'
<1> DEFINE row == send[p].row
           cost == IF row.status = "decline" THEN 0 ELSE row.amount + row.fee
           u == send[p].tx
           extra == [t \in TxIds |-> IF t = u THEN cost ELSE 0]
<1>1. txs \in [TxIds -> Rows] /\ txs' \in [TxIds -> Rows] /\ row \in Rows
  BY HandTyped DEF IInv, TypeOK
<1>2. /\ u \in TxIds /\ txs[u] = NoRow
      /\ row.status \in {"pending", "waiting", "success", "decline"}
      /\ txs' = [txs EXCEPT ![u] = row] /\ received' = received
  BY DEF CommitSend, IInv, Sending, SendSteps, chainVars
<1>3. txs'[u] = row /\ \A t \in TxIds : t # u => txs'[t] = txs[t]
  BY <1>1, <1>2
<1>4. row.amount \in Nat /\ row.fee \in Nat /\ cost \in Nat
  BY <1>1 DEF Rows
<1>5. \A t \in TxIds : /\ extra[t] \in Int
                       /\ Credit(w, txs)[t] <= Credit(w, txs')[t]
                       /\ Debit(w, txs')[t] <= Debit(w, txs)[t] + extra[t]
  <2> TAKE t \in TxIds
  <2>1. /\ Credit(w, txs)[t] \in Nat /\ Credit(w, txs')[t] \in Nat
        /\ Debit(w, txs)[t] \in Nat /\ Debit(w, txs')[t] \in Nat
    BY <1>1, RowNumbers
  <2>2. CASE t = u
    <3>1. Credit(w, txs)[t] = 0
      BY <1>2, <2>2 DEF Credit, OfKey, Payee, Paid, NoRow
    <3>2. Debit(w, txs')[t] = cost
      BY <1>2, <1>3, <2>2 DEF Debit, OfKey, Payer, Reserved, IsHoldsAmount
    <3> HIDE DEF cost
    <3> QED
      BY <1>4, <2>1, <2>2, <3>1, <3>2
  <2>3. CASE t # u
    <3>1. /\ Credit(w, txs')[t] = Credit(w, txs)[t]
          /\ Debit(w, txs')[t] = Debit(w, txs)[t]
      BY <1>3, <2>3 DEF Credit, Debit, OfKey, Payee, Paid, Payer, Reserved
    <3> QED
      BY <2>1, <2>3, <3>1
  <2> QED
    BY <2>2, <2>3
<1>6. extra[u] = cost /\ \A t \in TxIds \ {u} : extra[t] = 0
  BY <1>2
<1> HIDE DEF extra, cost, u
<1>7. Total(TxIds, extra) = cost
  BY <1>2, <1>4, <1>6, SumOfOne, TablesAssumption DEF Total
<1>8. /\ TxsesSum(w, txs) \in Int /\ TxsesSum(w, txs') \in Int
      /\ TxsesSum(w, txs) - cost <= TxsesSum(w, txs')
  BY <1>1, <1>5, <1>7, TxsesSumAtLeast
<1>9. LedgerBalance(w) = received[w] + TxsesSum(w, txs)
  BY LedgerBalanceIs
<1>10. LedgerBalance(w)' = received[w] + TxsesSum(w, txs')
  BY <1>2 DEF LedgerBalance, TotalWalletBalance, AddressBalance, SupportInternalTxs, TxsesSum,
     Income, Outcome
<1>11. received[w] \in Nat
  BY DEF IInv, TypeOK
<1>12. /\ LedgerBalance(w) \in Int /\ LedgerBalance(w)' \in Int
       /\ LedgerBalance(w) - cost <= LedgerBalance(w)'
  BY <1>4, <1>8, <1>9, <1>10, <1>11
<1> QED
  BY <1>12 DEF cost

-----------------------------------------------------------------------------
(* No overdraft *)

Affordable(row) == row.amount <= LedgerBalance(row.from)

(* The balances a handler has read still bound what its sender has. *)
SendCovered ==
    \A p \in Procs :
        /\ seen[p] \in [account : Int, address : Int]
        /\ pc[p] = "address" => seen[p].address <= received[send[p].row.from]
        /\ pc[p] \in {"recheck", "broadcast"} =>
              send[p].errs = {} /\ Affordable(send[p].row)
        /\ pc[p] = "commit" =>
              /\ send[p].errs # {} <=> send[p].row.status = "decline"
              /\ send[p].row.status # "decline" => Affordable(send[p].row)

AllCovered == \A w \in Phones : LedgerBalance(w) >= -MaxFee

LEMMA CoveredInit == ASSUME Coin = "BTC", Init PROVE SendCovered /\ AllCovered
<1>1. SendCovered
  BY DEF Init, SendCovered, NoBalances
<1>2. ASSUME NEW w \in Phones PROVE LedgerBalance(w) >= -MaxFee
  <2> DEFINE credit == Credit(w, txs)
             debit == Debit(w, txs)
  <2>1. TypeOK /\ txs \in [TxIds -> Rows]
    BY TypeInit DEF TypeOK
  <2>2. \A t \in TxIds : credit[t] = 0 /\ debit[t] = 0
    BY DEF Init, NoRow, Credit, Debit, OfKey, Payee, Paid, Payer, Reserved, IsHoldsAmount
  <2>3. TxsesSum(w, txs) = Total(TxIds, credit) - Total(TxIds, debit)
    BY <2>1, IncomeIsCredit, OutcomeIsDebit DEF TxsesSum
  <2> HIDE DEF credit, debit
  <2>4. Total(TxIds, credit) = 0 /\ Total(TxIds, debit) = 0
    BY <2>2, SumOfZeros, TablesAssumption DEF Total
  <2>5. received[w] \in Nat /\ MaxFee \in Nat
    BY <2>1, AmountsAssumption DEF TypeOK
  <2> QED
    BY <2>3, <2>4, <2>5, LedgerBalanceIs
<1> QED
  BY <1>1, <1>2 DEF AllCovered

(* What a step does to the balances that a handler has read. *)
LEMMA SeenStep ==
    ASSUME IInv, [Next]_vars, NEW p \in Procs, DOMAIN seen = Procs
    PROVE  \/ /\ seen'[p] = seen[p]
              /\ pc'[p] = "address" => pc[p] = "address" /\ send'[p] = send[p]
           \/ seen'[p] = NoBalances /\ pc'[p] # "address"
           \/ seen'[p] = [seen[p] EXCEPT !.account = AccountBalance] /\ pc'[p] = "account"
           \/ /\ seen'[p] = [seen[p] EXCEPT !.address = AddressBalance(send[p].row.from)]
              /\ pc[p] = "account" /\ send'[p] = send[p] /\ received' = received
<1>1. /\ pc \in [Procs -> {"idle"} \cup SendSteps \cup NotifySteps]
      /\ send \in [Procs -> SendRecords]
  BY DEF IInv, TypeOK
<1> DEFINE Kept == /\ seen'[p] = seen[p]
                   /\ pc'[p] = "address" => pc[p] = "address" /\ send'[p] = send[p]
<1>2. ASSUME NEW q \in Procs, Request(q) PROVE Kept
  BY <1>1, <1>2 DEF Request, SendToPhone, SentToAddress, StartSend, CreateWallet
<1>3. ASSUME NEW q \in Procs, HandlerStep(q), q # p PROVE Kept
  BY <1>1, <1>3 DEF HandlerStep, ReadAccountBalance, ReadAddressBalance, Validate, Recheck,
     Broadcast, NodeRefuses, CommitSend, ClaimAwaiting, SelectAwaiting, CommitNotify
<1>4. CASE ReadAccountBalance(p)
  BY <1>1, <1>4 DEF ReadAccountBalance
<1>5. CASE ReadAddressBalance(p)
  BY <1>1, <1>5 DEF ReadAddressBalance, chainVars
<1>6. CASE Validate(p)
  <2>1. /\ seen' = [seen EXCEPT ![p] = NoBalances]
        /\ \E step \in {"recheck", "commit"} : pc' = [pc EXCEPT ![p] = step]
    BY <1>6 DEF Validate
  <2> QED
    BY <1>1, <2>1
<1>7. CASE \/ Recheck(p) \/ Broadcast(p) \/ NodeRefuses(p) \/ CommitSend(p)
           \/ ClaimAwaiting(p) \/ SelectAwaiting(p) \/ CommitNotify(p)
  BY <1>1, <1>7 DEF Recheck, Broadcast, NodeRefuses, CommitSend, ClaimAwaiting, SelectAwaiting,
     CommitNotify
<1>8. ASSUME NEW q \in Procs, Abort(q) PROVE Kept \/ (seen'[p] = NoBalances /\ pc'[p] # "address")
  BY <1>1, <1>8 DEF Abort
<1>9. ASSUME NEW q \in Procs, BroadcastThenFail(q) PROVE Kept
  BY <1>1, <1>9 DEF BroadcastThenFail
<1>10. CASE Elsewhere
  <2>1. \/ \E q \in Procs : BroadcastThenFail(q) \/ Abort(q)
        \/ UNCHANGED <<pc, send, seen>>
    BY <1>10 DEF Elsewhere, Age, IsConfirmed, IsConfirmedFails, Mine, Drop, OnCheckOutdated,
       WatchConfirmations, UpdateConfirmed, WatcherFails, Deposit, ConfirmDeposit, procVars
  <2> QED
    BY <1>8, <1>9, <2>1
<1>11. CASE UNCHANGED vars
  BY <1>11 DEF vars, procVars
<1> QED
  BY <1>2, <1>3, <1>4, <1>5, <1>6, <1>7, <1>8, <1>10, <1>11, NextSplits DEF HandlerStep

LEMMA AccountBalanceInt == ASSUME TypeOK, Coin = "BTC" PROVE AccountBalance \in Int
<1> DEFINE all == [w \in Phones |-> received[w] + arriving[w]]
           amounts == [t \in TxIds |-> chain[t].amount]
<1>1. /\ \A w \in Phones : all[w] \in Int
      /\ \A t \in Live : amounts[t] \in Int
      /\ IsFiniteSet(Live)
  BY TablesAssumption, FS_Subset DEF TypeOK, Live, ChainRecords
<1>2. AccountBalance = SumFunctionOnSet(all, Phones) - SumFunctionOnSet(amounts, Live)
  BY DEF AccountBalance, Deposited, Total
<1> HIDE DEF all, amounts
<1> QED
  BY <1>1, <1>2, SumInt, TablesAssumption

(* While a handler is inside Send its sender's balance does not go down. *)
LEMMA SenderKeeps ==
    ASSUME OneHandler, Coin = "BTC", IInv, IInv', [Next]_vars,
           NEW p \in Procs, pc'[p] \in SendSteps, pc[p] \in SendSteps, NEW w \in Phones
    PROVE  /\ received[w] \in Nat /\ TxsesSum(w, txs) \in Int
           /\ LedgerBalance(w) = received[w] + TxsesSum(w, txs)
           /\ LedgerBalance(w)' \in Int
           /\ LedgerBalance(w) <= LedgerBalance(w)'
<1>1. ASSUME NEW q \in Procs, CommitSend(q) PROVE FALSE
  BY <1>1 DEF OneHandler, CommitSend, IInv, TypeOK, SendSteps
<1>2. LedgerBalance(w)' \in Int /\ LedgerBalance(w) <= LedgerBalance(w)'
  BY <1>1, BalanceKept
<1>3. received[w] \in Nat /\ LedgerBalance(w) = received[w] + TxsesSum(w, txs)
  BY LedgerBalanceIs DEF IInv, TypeOK
<1>4. Income(w, txs) \in Nat /\ Outcome(w, txs) \in Nat
  BY IncomeIsCredit, OutcomeIsDebit DEF IInv, TypeOK
<1> QED
  BY <1>2, <1>3, <1>4 DEF TxsesSum

(* What validation without errors says of the sender's balance. *)
LEMMA VerdictCovers ==
    ASSUME Coin = "BTC", NEW p \in Procs, Verdict(p) = {}
    PROVE  ~(seen[p].address + TxsesSum(send[p].row.from, txs) < send[p].row.amount)
BY DEF Verdict, ValidationErrs, ErrorNames, TotalWalletBalance, SupportInternalTxs

LEMMA SeenCoveredStep ==
    ASSUME Coin = "BTC", IInv, LInv, SendCovered, [Next]_vars, NEW p \in Procs
    PROVE  /\ seen'[p] \in [account : Int, address : Int]
           /\ pc'[p] = "address" => seen'[p].address <= received'[send'[p].row.from]
<1>1. seen[p] \in [account : Int, address : Int]
  BY DEF SendCovered
<1>2. CASE /\ seen'[p] = seen[p]
           /\ pc'[p] = "address" => pc[p] = "address" /\ send'[p] = send[p]
  <2>1. ASSUME pc'[p] = "address" PROVE seen'[p].address <= received'[send'[p].row.from]
    <3>1. PICK w \in Phones : w = send[p].row.from
      BY <1>2, <2>1 DEF LInv, SendersKnown, SendSteps
    <3>2. received[w] \in Nat /\ received'[w] \in Nat /\ received[w] <= received'[w]
      BY ReceivedGrows
    <3>3. seen[p].address <= received[w] /\ seen[p].address \in Int
      BY <1>1, <1>2, <2>1, <3>1 DEF SendCovered
    <3>4. seen'[p] = seen[p] /\ send'[p] = send[p]
      BY <1>2, <2>1
    <3> QED
      BY <3>1, <3>2, <3>3, <3>4
  <2> QED
    BY <1>1, <1>2, <2>1
<1>3. CASE seen'[p] = NoBalances /\ pc'[p] # "address"
  BY <1>3 DEF NoBalances
<1>4. CASE seen'[p] = [seen[p] EXCEPT !.account = AccountBalance] /\ pc'[p] = "account"
  <2>1. AccountBalance \in Int
    BY AccountBalanceInt DEF IInv
  <2> QED
    BY <1>1, <1>4, <2>1
<1>5. CASE /\ seen'[p] = [seen[p] EXCEPT !.address = AddressBalance(send[p].row.from)]
           /\ pc[p] = "account" /\ send'[p] = send[p] /\ received' = received
  <2>1. /\ send[p].row.from \in Phones /\ received[send[p].row.from] \in Nat
        /\ AddressBalance(send[p].row.from) = received[send[p].row.from]
    BY <1>5 DEF LInv, SendersKnown, SendSteps, IInv, TypeOK, AddressBalance, SupportInternalTxs
  <2> QED
    BY <1>1, <1>5, <2>1
<1> QED
  BY <1>2, <1>3, <1>4, <1>5, SeenStep DEF IInv, TypeOK

LEMMA HandCoveredStep ==
    ASSUME OneHandler, Coin = "BTC", IInv, IInv', LInv, SendCovered, [Next]_vars, NEW p \in Procs
    PROVE  /\ pc'[p] \in {"recheck", "broadcast"} =>
                 send'[p].errs = {} /\ Affordable(send[p].row)'
           /\ pc'[p] = "commit" =>
                 /\ send'[p].errs # {} <=> send'[p].row.status = "decline"
                 /\ send'[p].row.status # "decline" => Affordable(send[p].row)'
<1> SUFFICES ASSUME pc'[p] \in {"recheck", "broadcast", "commit"}
             PROVE  /\ pc'[p] \in {"recheck", "broadcast"} =>
                          send'[p].errs = {} /\ Affordable(send[p].row)'
                    /\ pc'[p] = "commit" =>
                          /\ send'[p].errs # {} <=> send'[p].row.status = "decline"
                          /\ send'[p].row.status # "decline" => Affordable(send[p].row)'
  OBVIOUS
<1>1. pc'[p] \in SendSteps /\ ~Begun(p)
  BY DEF SendSteps, Begun
<1>2. pc[p] \in SendSteps
  BY <1>1, HandStep DEF SameHand, ValidatedHand, BroadcastHand, SendSteps
<1>3. PICK w \in Phones : w = send[p].row.from
  BY <1>2 DEF LInv, SendersKnown
<1>4. /\ received[w] \in Nat /\ TxsesSum(w, txs) \in Int
      /\ LedgerBalance(w) = received[w] + TxsesSum(w, txs)
      /\ LedgerBalance(w)' \in Int /\ LedgerBalance(w) <= LedgerBalance(w)'
  BY <1>1, <1>2, SenderKeeps
<1>5. send[p].row \in Rows /\ send[p].row.amount \in Nat
  BY HandTyped DEF Rows
<1>6. LedgerBalance(w)' = received'[w] + TxsesSum(w, txs')
  BY DEF LedgerBalance, TotalWalletBalance, AddressBalance, SupportInternalTxs, TxsesSum, Income,
         Outcome
<1>7. ASSUME send'[p].row.from = w, send'[p].row.amount = send[p].row.amount,
             send[p].row.amount <= LedgerBalance(w)
      PROVE  Affordable(send[p].row)'
  <2>1. send'[p].row.amount <= received'[w] + TxsesSum(w, txs')
    BY <1>4, <1>5, <1>6, <1>7
  <2> QED
    BY <1>7, <2>1
       DEF Affordable, LedgerBalance, TotalWalletBalance, AddressBalance, SupportInternalTxs,
           TxsesSum, Income, Outcome
<1>8. Affordable(send[p].row) => send[p].row.amount <= LedgerBalance(w)
  BY <1>3 DEF Affordable
<1>9. CASE SameHand(p)
  <2>1. ASSUME Affordable(send[p].row) PROVE Affordable(send[p].row)'
    BY <1>3, <1>7, <1>8, <1>9, <2>1 DEF SameHand
  <2>2. CASE pc'[p] = "commit"
    BY <1>9, <2>1, <2>2 DEF SameHand, SendCovered
  <2>3. CASE pc'[p] # "commit"
    <3>1. pc[p] \in {"recheck", "broadcast"}
      BY <1>9, <2>3 DEF SameHand
    <3>2. Affordable(send[p].row) /\ send[p].errs = {}
      BY <3>1 DEF SendCovered
    <3>3. ~(LedgerBalance(send[p].row.from) < send[p].row.amount)
      BY <1>3, <1>4, <1>5, <1>8, <3>2
    <3> QED
      BY <1>9, <2>1, <2>3, <3>2, <3>3 DEF SameHand
  <2> QED
    BY <2>2, <2>3
<1>10. CASE ValidatedHand(p)
  <2>1. /\ send'[p].row = Validated(send[p].row, Verdict(p))
        /\ send'[p].errs = Verdict(p) /\ pc[p] = "address"
        /\ pc'[p] = "recheck" <=> send'[p].row.status = "send_external"
        /\ pc'[p] \in {"recheck", "commit"}
    BY <1>10 DEF ValidatedHand
  <2>2. /\ send'[p].row.from = w /\ send'[p].row.amount = send[p].row.amount
        /\ send'[p].row.status = "decline" <=> Verdict(p) # {}
    BY <1>3, <1>5, <2>1, ValidatedFacts
  <2>3. ASSUME Verdict(p) = {} PROVE Affordable(send[p].row)'
    <3>1. ~(seen[p].address + TxsesSum(w, txs) < send[p].row.amount)
      BY <1>3, <2>3, VerdictCovers
    <3>2. seen[p].address \in Int /\ seen[p].address <= received[w]
      BY <1>3, <2>1 DEF SendCovered
    <3>3. send[p].row.amount <= LedgerBalance(w)
      BY <1>4, <1>5, <3>1, <3>2
    <3> QED
      BY <1>7, <2>2, <3>3
  <2> QED
    BY <2>1, <2>2, <2>3
<1>11. CASE BroadcastHand(p)
  <2>1. /\ send'[p].row.from = w /\ send'[p].row.amount = send[p].row.amount
        /\ send'[p].row.status # "decline"
    BY <1>3, <1>11, BroadcastFacts
  <2>2. /\ send'[p].errs = send[p].errs /\ pc[p] = "broadcast" /\ pc'[p] = "commit"
    BY <1>11 DEF BroadcastHand
  <2>3. send[p].errs = {} /\ Affordable(send[p].row)
    BY <2>2 DEF SendCovered
  <2> QED
    BY <1>7, <1>8, <2>1, <2>2, <2>3
<1> QED
  BY <1>1, <1>9, <1>10, <1>11, HandStep

LEMMA AllCoveredStep ==
    ASSUME Coin = "BTC", IInv, IInv', LInv, SendCovered, AllCovered, [Next]_vars
    PROVE  AllCovered'
<1> SUFFICES ASSUME NEW w \in Phones PROVE LedgerBalance(w)' >= -MaxFee
  BY DEF AllCovered
<1>1. LedgerBalance(w) >= -MaxFee /\ MaxFee \in Nat
  BY AmountsAssumption DEF AllCovered
<1>2. CASE \A p \in Procs : CommitSend(p) => send[p].row.from # w
  <2>1. /\ LedgerBalance(w) \in Int /\ LedgerBalance(w)' \in Int
        /\ LedgerBalance(w) <= LedgerBalance(w)'
    BY <1>2, BalanceKept
  <2> QED
    BY <1>1, <2>1
<1>3. ASSUME NEW p \in Procs, CommitSend(p), send[p].row.from = w
      PROVE  LedgerBalance(w)' >= -MaxFee
  <2> DEFINE row == send[p].row
             cost == IF row.status = "decline" THEN 0 ELSE row.amount + row.fee
  <2>1. /\ LedgerBalance(w) \in Int /\ LedgerBalance(w)' \in Int
        /\ LedgerBalance(w) - cost <= LedgerBalance(w)'
    BY <1>3, BalanceSpent
  <2>2. /\ row.fee \in 0 .. MaxFee /\ row.amount \in Nat
        /\ row.status # "decline" => row.amount <= LedgerBalance(w)
    BY <1>3, HandTyped DEF CommitSend, SendSteps, LInv, FeesKnown, SendCovered, Affordable, Rows
  <2> HIDE DEF row
  <2> QED
    BY <1>1, <2>1, <2>2
<1> QED
  BY <1>2, <1>3

LEMMA CoveredHolds ==
    ASSUME OneHandler, Coin = "BTC"
    PROVE  Spec => [](SendCovered /\ AllCovered)
<1>1. IInv /\ LInv /\ SendCovered /\ AllCovered /\ [Next]_vars
        => (IInv /\ LInv /\ SendCovered /\ AllCovered)'
  <2> SUFFICES ASSUME IInv, LInv, SendCovered, AllCovered, [Next]_vars
               PROVE  (IInv /\ LInv /\ SendCovered /\ AllCovered)'
    OBVIOUS
  <2>1. IInv' /\ LInv'
    BY InvStep, LedgerStep
  <2>2. SendCovered'
    BY <2>1, SeenCoveredStep, HandCoveredStep DEF SendCovered
  <2>3. AllCovered'
    BY <2>1, AllCoveredStep
  <2> QED
    BY <2>1, <2>2, <2>3
<1> QED
  BY <1>1, InvInit, LedgerInit, CoveredInit, PTL DEF Spec

(* Requests that come one after the other never take a wallet below zero by  *)
(* more than one fee, which the service pays without having checked for it.  *)
(* (Two at once may: run DoubleSpend.)                                       *)
THEOREM WalletsCovered ==
    ASSUME OneHandler, Coin = "BTC"
    PROVE  Spec => []NoOverdraft
<1>1. IInv /\ AllCovered => NoOverdraft
  BY DEF IInv, TypeOK, AllCovered, NoOverdraft
<1> QED
  BY <1>1, InvHolds, CoveredHolds, PTL

================================================================================
