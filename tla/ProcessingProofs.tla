--------------------------- MODULE ProcessingProofs ---------------------------
(***************************************************************************)
(* Proofs about Processing, for every coin, any sets of users, handlers,   *)
(* ids and amounts, and any number of deposits and failures.               *)
(*                                                                         *)
(* The invariants of Processing are not inductive.  The inductive one,     *)
(* IInv, adds what each handler knows of the row it works on: a row being  *)
(* sent is not committed yet and belongs to one handler; rows claimed or   *)
(* selected for a new wallet cannot be cancelled under the handler, since  *)
(* the worker waits for the claimed ones and the others are too young; an  *)
(* answer the watcher holds is about a row that still waits, because a     *)
(* transaction that is mined or dropped stays so.                          *)
(***************************************************************************)
EXTENDS Processing, TLAPS

CommittedStatuses ==
    {"absent", "pending", "waiting", "success", "decline", "cancel"}

RowsWellFormed ==
    \A t \in TxIds :
        /\ txs[t].status \in CommittedStatuses
        /\ txs[t].status = "absent" => txs[t] = NoRow
        /\ txs[t].status = "pending" =>
              txs[t].type = "internal" /\ txs[t].toWallet = Nobody
        /\ t \in aged => txs[t].status = "pending"

(* What SettledOnChain says of one row and its broadcast. *)
SettledRow(row, c) ==
    /\ row.status = "waiting" => c.state # "none"
    /\ row.type = "external" /\ row.status = "success" => c.state = "mined"
    /\ row.status \in {"decline", "cancel", "pending"} => c.state \in {"none", "dropped"}
    /\ row.status # "absent" /\ c.state # "none"
          => row.type = "external" /\ c.from = row.from /\ c.amount = row.amount

ChainAgrees == \A t \in TxIds : SettledRow(txs[t], chain[t])

(* The handlers inside Send. *)
Unvalidated == {"lookedUp", "account", "address"}

Sending(p) ==
    /\ pc[p] \notin SendSteps => send[p].tx = NoTx
    /\ pc[p] \in SendSteps => send[p].tx \in TxIds /\ txs[send[p].tx] = NoRow
    /\ pc[p] \in SendSteps \ {"commit"} => chain[send[p].tx] = NoChainTx
    /\ pc[p] \in Unvalidated /\ send[p].row.toWallet # Nobody =>
          send[p].row.toAddress # Nobody
    /\ pc[p] \in {"recheck", "broadcast"} => send[p].row.type = "external"
    /\ pc[p] = "commit" =>
          /\ send[p].row.status \in {"pending", "waiting", "success", "decline"}
          /\ send[p].row.status = "pending" =>
                send[p].row.type = "internal" /\ send[p].row.toWallet = Nobody
          /\ SettledRow(send[p].row, chain[send[p].tx])

SendsDistinct ==
    \A p, q \in Procs : p # q /\ send[p].tx = send[q].tx => send[p].tx = NoTx

(* The handlers inside NotifyUserCreatesWallet. *)
Notifying(p) ==
    /\ pc[p] \notin NotifySteps => notify[p] = NoNotify
    /\ pc[p] \in NotifySteps => notify[p].wallet \in wallets
    /\ pc[p] = "created" => notify[p].claimed = {}
    /\ \A t \in notify[p].claimed : txs[t].status = "pending" /\ txs[t].toPhone = notify[p].wallet
    /\ pc[p] = "selected" => \A t \in notify[p].selected :
          txs[t].status = "pending" /\ txs[t].toPhone = notify[p].wallet
    /\ pc[p] \in {"claimed", "selected"} => \A t \in TxIds \ notify[p].claimed :
          txs[t].status = "pending" /\ txs[t].toPhone = notify[p].wallet => t \notin aged

NotifiesDistinct ==
    \A p, q \in Procs : p # q /\ notify[p].wallet = notify[q].wallet
                          => notify[p].wallet = Nobody

(* The watcher. *)
AnswersHold ==
    \A t \in TxIds :
        /\ verdict[t] # "none" => txs[t].type = "external" /\ txs[t].status = "waiting"
        /\ verdict[t] = "confirmed" => chain[t].state = "mined"
        /\ verdict[t] = "abandoned" => chain[t].state = "dropped"

IInv ==
    /\ TypeOK
    /\ RowsWellFormed
    /\ ChainAgrees
    /\ \A p \in Procs : Sending(p)
    /\ SendsDistinct
    /\ \A p \in Procs : Notifying(p)
    /\ NotifiesDistinct
    /\ AnswersHold

-----------------------------------------------------------------------------
(* Lemmas about the operators of TxModel *)

(* Who a transaction may be sent to; a known wallet comes with its address. *)
Recipients ==
    {r \in [toWallet : Phones \cup {Nobody}, toPhone : Phones \cup {Nobody},
            toAddress : Phones \cup Foreign \cup {Nobody}] :
        r.toWallet # Nobody => r.toAddress # Nobody}

LEMMA NewTxFacts ==
    ASSUME NEW from \in Phones, NEW amount \in Nat, NEW recipient \in Recipients
    PROVE  LET row == NewTx(from, recipient, amount)
           IN  row \in Rows /\ (row.toWallet # Nobody => row.toAddress # Nobody)
BY DEF NewTx, NoRow, Rows, Statuses, Recipients

LEMMA RecipientsFacts ==
    /\ \A q \in Phones : WalletRecipient(q) \in Recipients /\ PhoneRecipient(q) \in Recipients
    /\ \A a \in Foreign : AddressRecipient(a) \in Recipients
BY PartiesAssumption
   DEF WalletRecipient, PhoneRecipient, AddressRecipient, Recipients

LEMMA ValidatedFacts ==
    ASSUME NEW tx \in Rows, NEW failed
    PROVE  LET row == Validated(tx, failed)
           IN  /\ row \in Rows
               /\ row.status \in {"decline", "success", "pending", "send_external"}
               /\ row.from = tx.from /\ row.amount = tx.amount /\ row.fee = tx.fee
               /\ row.toWallet = tx.toWallet /\ row.toPhone = tx.toPhone
               /\ row.status = "send_external" => row.type = "external"
               /\ row.status = "success" => row.type = "internal" /\ tx.toWallet # Nobody
               /\ row.status = "pending" => row.type = "internal" /\ tx.toAddress = Nobody
               /\ row.status = "decline" <=> failed # {}
BY DEF Validated, Rows, Statuses, SendDecision, SendByAddress, SendByWallet

-----------------------------------------------------------------------------
(* Type correctness *)

LEMMA NothingsTyped ==
    NoRow \in Rows /\ NoSend \in SendRecords /\ NoNotify \in NotifyRecords
        /\ NoChainTx \in ChainRecords
BY DEF NoRow, Rows, Statuses, NoSend, SendRecords, NoNotify, NotifyRecords,
       NoChainTx, ChainRecords

LEMMA RecordUpdates ==
    /\ \A s \in SendRecords : \A row \in Rows : [s EXCEPT !.row = row] \in SendRecords
    /\ \A s \in SendRecords : \A e \in SUBSET ErrorNames : [s EXCEPT !.errs = e] \in SendRecords
    /\ \A n \in NotifyRecords : \A w \in Phones : [n EXCEPT !.wallet = w] \in NotifyRecords
    /\ \A n \in NotifyRecords : \A ts \in SUBSET TxIds :
          /\ [n EXCEPT !.claimed = ts] \in NotifyRecords
          /\ [n EXCEPT !.selected = ts] \in NotifyRecords
BY DEF SendRecords, NotifyRecords

LEMMA StatusUpdates ==
    ASSUME NEW row \in Rows, NEW status \in Statuses
    PROVE  LET new == [row EXCEPT !.status = status]
           IN  /\ new \in Rows /\ new.status = status /\ new.type = row.type
               /\ new.from = row.from /\ new.amount = row.amount /\ new.fee = row.fee
               /\ new.toWallet = row.toWallet /\ new.toPhone = row.toPhone
<1> DEFINE new == [row EXCEPT !.status = status]
<1>1. new \in Rows
  BY DEF Rows
<1>2. /\ new.status = status /\ new.type = row.type
      /\ new.from = row.from /\ new.amount = row.amount /\ new.fee = row.fee
      /\ new.toWallet = row.toWallet /\ new.toPhone = row.toPhone
  BY DEF Rows
<1> QED
  BY <1>1, <1>2

LEMMA RowUpdates ==
    ASSUME NEW row \in Rows, NEW fee \in Nat
    PROVE  Sent(row, fee) \in Rows /\ Announced(row, fee) \in ChainRecords
<1>1. Sent(row, fee) \in Rows
  BY DEF Rows, Statuses, Sent
<1>2. Announced(row, fee) \in ChainRecords
  BY DEF Rows, Announced, ChainRecords
<1> QED
  BY <1>1, <1>2

(* Lemma: a woken row keeps its parties and its amount and becomes successful. *)
LEMMA WokenFacts ==
    ASSUME NEW t \in TxIds, txs[t] \in Rows,
           NEW n, n.wallet \in Phones \cup {Nobody}
    PROVE  LET row == Woken(t, n)
           IN  /\ row \in Rows
               /\ row.status = "success"
               /\ row.type = txs[t].type
               /\ row.from = txs[t].from /\ row.amount = txs[t].amount
               /\ row.fee = txs[t].fee /\ row.toPhone = txs[t].toPhone
               /\ row.toWallet = IF t \in n.claimed THEN n.wallet ELSE txs[t].toWallet
<1> DEFINE awake == RecipientWalletCreated(txs[t])
<1>1. /\ awake \in Rows /\ awake.status = "success" /\ awake.type = txs[t].type
      /\ awake.from = txs[t].from /\ awake.amount = txs[t].amount
      /\ awake.fee = txs[t].fee /\ awake.toPhone = txs[t].toPhone
      /\ awake.toWallet = txs[t].toWallet
  BY StatusUpdates DEF RecipientWalletCreated, Statuses
<1>2. Woken(t, n) = [awake EXCEPT !.toWallet = IF t \in n.claimed THEN n.wallet ELSE @]
  BY DEF Woken
<1> HIDE DEF awake
<1> QED
  BY <1>1, <1>2 DEF Rows

LEMMA TypeInit == Init => TypeOK
BY NothingsTyped, ProcessingAssumption DEF Init, TypeOK

(* What the handlers leave in their variables and in the tables has its type. *)
LEMMA TypeHandler ==
    ASSUME TypeOK, NEW p \in Procs, Request(p) \/ HandlerStep(p)
    PROVE  TypeOK'
<1> USE DEF TypeOK, dbVars, chainVars
<1>1. ASSUME NEW from \in Phones, NEW recipient \in Recipients, NEW amount \in Amounts,
             StartSend(p, from, recipient, amount)
      PROVE  TypeOK'
  <2>1. PICK t \in TxIds : send' = [send EXCEPT ![p] =
            [NoSend EXCEPT !.tx = t, !.row = NewTx(from, recipient, amount)]]
    BY <1>1 DEF StartSend, FreeIds
  <2>2. [NoSend EXCEPT !.tx = t, !.row = NewTx(from, recipient, amount)] \in SendRecords
    BY NewTxFacts, AmountsAssumption DEF NoSend, SendRecords
  <2> QED
    BY <1>1, <2>1, <2>2 DEF StartSend, SendSteps
<1>2. ASSUME NEW from \in Phones, NEW to \in Phones, NEW amount \in Amounts,
             SendToPhone(p, from, to, amount)
      PROVE  TypeOK'
  BY <1>1, <1>2, RecipientsFacts DEF SendToPhone
<1>3. ASSUME NEW from \in Phones, NEW address \in Phones \cup Foreign,
             NEW amount \in Amounts, SentToAddress(p, from, address, amount)
      PROVE  TypeOK'
  BY <1>1, <1>3, RecipientsFacts DEF SentToAddress
<1>4. ASSUME NEW w \in Phones, CreateWallet(p, w) PROVE TypeOK'
  <2>1. [notify[p] EXCEPT !.wallet = w] \in NotifyRecords
    BY RecordUpdates
  <2> QED
    BY <1>4, <2>1 DEF CreateWallet, NotifySteps
<1>5. CASE ReadAccountBalance(p)
  BY <1>5 DEF ReadAccountBalance, SendSteps
<1>6. CASE ReadAddressBalance(p)
  BY <1>6 DEF ReadAddressBalance, SendSteps
<1>7. CASE Validate(p)
  <2> DEFINE failed == ValidationErrs(send[p].row, seen[p].account,
                           TotalWalletBalance(send[p].row.from, seen[p].address))
             row == Validated(send[p].row, failed)
             s == [send[p] EXCEPT !.row = row]
  <2>1. send[p].row \in Rows
    BY DEF SendRecords
  <2>2. row \in Rows
    BY <2>1, ValidatedFacts
  <2>3. failed \in SUBSET ErrorNames
    BY DEF ValidationErrs
  <2>4. send' = [send EXCEPT ![p].row = row, ![p].errs = failed]
    BY <1>7 DEF Validate
  <2>5. pc' \in [Procs -> {"idle"} \cup SendSteps \cup NotifySteps]
    BY <1>7 DEF Validate, SendSteps
  <2> HIDE DEF failed, row
  <2>6. send' = [send EXCEPT ![p] = [s EXCEPT !.errs = failed]]
    BY <2>4
  <2>7. [s EXCEPT !.errs = failed] \in SendRecords
    BY <2>2, <2>3, RecordUpdates
  <2>8. send' \in [Procs -> SendRecords]
    BY <2>6, <2>7
  <2> QED
    BY <1>7, <2>5, <2>8 DEF Validate
<1>8. CASE Recheck(p)
  <2>1. PICK failed \in SUBSET ErrorNames : send' = [send EXCEPT ![p].errs = failed]
    BY <1>8 DEF Recheck, ErrorNames
  <2>2. [send[p] EXCEPT !.errs = failed] \in SendRecords
    BY RecordUpdates
  <2> QED
    BY <1>8, <2>1, <2>2 DEF Recheck, SendSteps
<1>9. CASE Broadcast(p)
  <2>1. PICK fee \in 0 .. MaxFee :
            /\ chain' = [chain EXCEPT ![send[p].tx] = Announced(send[p].row, fee)]
            /\ send' = [send EXCEPT ![p].row = Sent(send[p].row, fee)]
    BY <1>9 DEF Broadcast
  <2>2. fee \in Nat /\ send[p].row \in Rows
    BY AmountsAssumption DEF SendRecords
  <2>3. /\ [send[p] EXCEPT !.row = Sent(send[p].row, fee)] \in SendRecords
        /\ Announced(send[p].row, fee) \in ChainRecords
    BY <2>2, RowUpdates, RecordUpdates
  <2> QED
    BY <1>9, <2>1, <2>3 DEF Broadcast, SendSteps
<1>10. CASE NodeRefuses(p)
  BY <1>10, NothingsTyped DEF NodeRefuses
<1>11. CASE CommitSend(p)
  <2>1. send[p].row \in Rows
    BY DEF SendRecords
  <2> QED
    BY <1>11, <2>1, NothingsTyped DEF CommitSend
<1>12. CASE ClaimAwaiting(p)
  <2>1. [notify[p] EXCEPT !.claimed = Awaiting(notify[p].wallet)] \in NotifyRecords
    BY RecordUpdates DEF Awaiting
  <2> QED
    BY <1>12, <2>1 DEF ClaimAwaiting, NotifySteps
<1>13. CASE SelectAwaiting(p)
  <2>1. [notify[p] EXCEPT !.selected = Awaiting(notify[p].wallet)] \in NotifyRecords
    BY RecordUpdates DEF Awaiting
  <2> QED
    BY <1>13, <2>1 DEF SelectAwaiting, NotifySteps
<1>14. CASE CommitNotify(p)
  <2>1. \A t \in TxIds : Woken(t, notify[p]) \in Rows
    <3> TAKE t \in TxIds
    <3>1. txs[t] \in Rows /\ notify[p].wallet \in Phones \cup {Nobody}
      BY DEF NotifyRecords
    <3> QED
      BY <3>1, WokenFacts
  <2> QED
    BY <1>14, <2>1, NothingsTyped DEF CommitNotify
<1> QED
  BY <1>2, <1>3, <1>4, <1>5, <1>6, <1>7, <1>8, <1>9, <1>10, <1>11, <1>12, <1>13, <1>14
     DEF Request, HandlerStep

(* Failures, the worker, the watcher and the blockchain. *)
Elsewhere ==
    \/ \E p \in Procs : BroadcastThenFail(p) \/ Abort(p)
    \/ \E t \in TxIds : Age(t) \/ IsConfirmed(t) \/ IsConfirmedFails(t) \/ Mine(t) \/ Drop(t)
    \/ OnCheckOutdated \/ WatchConfirmations \/ UpdateConfirmed \/ WatcherFails
    \/ \E w \in Phones : Deposit(w) \/ ConfirmDeposit(w)

LEMMA NextSplits ==
    Next <=> Elsewhere \/ \E p \in Procs : Request(p) \/ HandlerStep(p)
BY DEF Next, Elsewhere

LEMMA TypeElsewhere ==
    ASSUME TypeOK, Elsewhere
    PROVE  TypeOK'
<1> USE DEF TypeOK, dbVars, procVars, chainVars
<1>1. ASSUME NEW p \in Procs, BroadcastThenFail(p) PROVE TypeOK'
  <2>1. PICK fee \in 0 .. MaxFee :
            chain' = [chain EXCEPT ![send[p].tx] = Announced(send[p].row, fee)]
    BY <1>1 DEF BroadcastThenFail
  <2>2. fee \in Nat /\ send[p].row \in Rows
    BY AmountsAssumption DEF SendRecords
  <2>3. Announced(send[p].row, fee) \in ChainRecords
    BY <2>2, RowUpdates
  <2>4. chain' \in [TxIds -> ChainRecords]
    BY <2>1, <2>3
  <2>5. send' \in [Procs -> SendRecords] /\ failures' \in Nat
    BY <1>1, NothingsTyped DEF BroadcastThenFail
  <2>6. pc' \in [Procs -> {"idle"} \cup SendSteps \cup NotifySteps]
    BY <1>1 DEF BroadcastThenFail
  <2> QED
    BY <1>1, <2>4, <2>5, <2>6 DEF BroadcastThenFail
<1>2. ASSUME NEW p \in Procs, Abort(p) PROVE TypeOK'
  BY <1>2, NothingsTyped DEF Abort
<1>3. ASSUME NEW t \in TxIds, Age(t) PROVE TypeOK'
  BY <1>3 DEF Age
<1>4. ASSUME NEW t \in TxIds, IsConfirmed(t) PROVE TypeOK'
  BY <1>4 DEF IsConfirmed, Observed
<1>5. ASSUME NEW t \in TxIds, IsConfirmedFails(t) PROVE TypeOK'
  BY <1>5 DEF IsConfirmedFails
<1>6. ASSUME NEW t \in TxIds, NEW state \in {"mined", "dropped"},
             chain' = [chain EXCEPT ![t].state = state]
      PROVE  chain' \in [TxIds -> ChainRecords]
  BY <1>6 DEF ChainRecords
<1>7. ASSUME NEW t \in TxIds, Mine(t) \/ Drop(t) PROVE TypeOK'
  BY <1>6, <1>7 DEF Mine, Drop
<1>8. CASE OnCheckOutdated
  <2>1. \A t \in TxIds : [txs[t] EXCEPT !.status = "cancel"] \in Rows
    BY StatusUpdates DEF Statuses
  <2> QED
    BY <1>8, <2>1 DEF OnCheckOutdated
<1>9. CASE WatchConfirmations
  BY <1>9 DEF WatchConfirmations
<1>10. CASE UpdateConfirmed
  <2>1. \A t \in TxIds : Settled(t) \in Rows
    <3> TAKE t \in TxIds
    <3>1. /\ [txs[t] EXCEPT !.status = "success"] \in Rows
          /\ [txs[t] EXCEPT !.status = "decline"] \in Rows
      BY StatusUpdates DEF Statuses
    <3> QED
      BY <3>1 DEF Settled
  <2> QED
    BY <1>10, <2>1 DEF UpdateConfirmed
<1>11. CASE WatcherFails
  BY <1>11 DEF WatcherFails
<1>12. ASSUME NEW w \in Phones, Deposit(w) \/ ConfirmDeposit(w) PROVE TypeOK'
  BY <1>12 DEF Deposit, ConfirmDeposit
<1> QED
  BY <1>1, <1>2, <1>3, <1>4, <1>5, <1>7, <1>8, <1>9, <1>10, <1>11, <1>12 DEF Elsewhere

LEMMA TypeStutter == ASSUME TypeOK, UNCHANGED vars PROVE TypeOK'
BY DEF TypeOK, vars, dbVars, procVars, chainVars

LEMMA TypeStep == ASSUME TypeOK, [Next]_vars PROVE TypeOK'
BY TypeHandler, TypeElsewhere, TypeStutter, NextSplits

(* Every variable keeps its type; the amounts in rows and on the blockchain *)
(* never become negative.                                                   *)
THEOREM TypeCorrect == Spec => []TypeOK
BY TypeInit, TypeStep, PTL DEF Spec

-----------------------------------------------------------------------------
(* The inductive invariant *)

LEMMA InvInit == Init => IInv
<1> SUFFICES ASSUME Init PROVE IInv
  OBVIOUS
<1>1. TypeOK
  BY TypeInit
<1>2. RowsWellFormed /\ ChainAgrees /\ AnswersHold
  BY DEF Init, NoRow, NoChainTx, CommittedStatuses, RowsWellFormed, SettledRow,
         ChainAgrees, AnswersHold
<1>3. (\A p \in Procs : Sending(p)) /\ SendsDistinct
  BY DEF Init, NoSend, SendSteps, Unvalidated, Sending, SendsDistinct
<1>4. (\A p \in Procs : Notifying(p)) /\ NotifiesDistinct
  BY DEF Init, NoNotify, NotifySteps, Notifying, NotifiesDistinct
<1> QED
  BY <1>1, <1>2, <1>3, <1>4 DEF IInv

(* A step of a handler inside Send that touches its own variables only. *)
LEMMA SendFrame ==
    ASSUME IInv, TypeOK', NEW p \in Procs,
           NEW step \in {"idle"} \cup SendSteps, pc[p] \notin NotifySteps,
           pc' = [pc EXCEPT ![p] = step],
           NEW s, send' = [send EXCEPT ![p] = s],
           s.tx # NoTx => \A q \in Procs \ {p} : send[q].tx # s.tx,
           UNCHANGED <<wallets, txs, aged, notify, verdict, chain>>,
           Sending(p)'
    PROVE  IInv'
<1>1. RowsWellFormed' /\ ChainAgrees' /\ AnswersHold'
  BY DEF IInv, RowsWellFormed, ChainAgrees, SettledRow, AnswersHold
<1>2. ASSUME NEW q \in Procs PROVE Sending(q)'
  <2>1. CASE q = p
    BY <2>1
  <2>2. CASE q # p
    <3>1. pc'[q] = pc[q] /\ send'[q] = send[q]
      BY <2>2 DEF IInv, TypeOK
    <3> QED
      BY <3>1 DEF IInv, Sending, SettledRow
  <2> QED
    BY <2>1, <2>2
<1>3. SendsDistinct'
  BY DEF IInv, TypeOK, SendsDistinct
<1>4. ASSUME NEW q \in Procs PROVE Notifying(q)'
  <2>1. pc'[q] = pc[q] \/ (pc[q] \notin NotifySteps /\ pc'[q] \notin NotifySteps)
    BY DEF IInv, TypeOK, SendSteps, NotifySteps
  <2>2. /\ Notifying(q) /\ notify'[q] = notify[q]
        /\ txs' = txs /\ aged' = aged /\ wallets' = wallets
    BY DEF IInv
  <2>3. CASE pc'[q] = pc[q]
    BY <2>2, <2>3 DEF Notifying
  <2>4. CASE pc[q] \notin NotifySteps /\ pc'[q] \notin NotifySteps
    BY <2>2, <2>4 DEF Notifying, NotifySteps
  <2> QED
    BY <2>1, <2>3, <2>4
<1>5. NotifiesDistinct'
  BY DEF IInv, NotifiesDistinct
<1> QED
  BY <1>1, <1>2, <1>3, <1>4, <1>5 DEF IInv

LEMMA InvStartSend ==
    ASSUME IInv, TypeOK', NEW p \in Procs, NEW from \in Phones,
           NEW recipient \in Recipients, NEW amount \in Amounts,
           StartSend(p, from, recipient, amount)
    PROVE  IInv'
<1>1. PICK t \in FreeIds : send' = [send EXCEPT ![p] =
          [NoSend EXCEPT !.tx = t, !.row = NewTx(from, recipient, amount)]]
  BY DEF StartSend
<1> DEFINE s == [NoSend EXCEPT !.tx = t, !.row = NewTx(from, recipient, amount)]
<1>2. /\ s.tx = t /\ s.row = NewTx(from, recipient, amount)
      /\ s.row.toWallet # Nobody => s.row.toAddress # Nobody
  BY NewTxFacts, AmountsAssumption DEF NoSend
<1>3. /\ t \in TxIds /\ txs[t] = NoRow /\ chain[t] = NoChainTx
      /\ \A q \in Procs : send[q].tx # t
  BY DEF FreeIds
<1>4. /\ pc[p] \notin NotifySteps /\ pc' = [pc EXCEPT ![p] = "lookedUp"]
      /\ UNCHANGED <<wallets, txs, aged, notify, verdict, chain>>
  BY DEF StartSend, NotifySteps, dbVars, chainVars
<1> HIDE DEF s
<1>5. send' = [send EXCEPT ![p] = s]
  BY <1>1 DEF s
<1>6. send'[p] = s /\ pc'[p] = "lookedUp"
  BY <1>4, <1>5 DEF IInv, TypeOK
<1>7. Sending(p)'
  BY <1>2, <1>3, <1>4, <1>6 DEF Sending, SendSteps, Unvalidated
<1> QED
  BY <1>2, <1>3, <1>4, <1>5, <1>7, SendFrame DEF SendSteps

(* The three reads, and the verdict. *)
LEMMA InvValidation ==
    ASSUME IInv, TypeOK', NEW p \in Procs,
           ReadAccountBalance(p) \/ ReadAddressBalance(p) \/ Validate(p) \/ Recheck(p)
    PROVE  IInv'
<1>1. UNCHANGED <<wallets, txs, aged, notify, verdict, chain>>
  BY DEF ReadAccountBalance, ReadAddressBalance, Validate, Recheck, dbVars, chainVars
<1>2. send[p] \in SendRecords /\ Sending(p) /\ p \in DOMAIN send /\ p \in DOMAIN pc
  BY DEF IInv, TypeOK
<1>3. ASSUME pc[p] \in SendSteps
      PROVE  \A q \in Procs \ {p} : send[q].tx # send[p].tx
  BY <1>2, <1>3, ProcessingAssumption DEF IInv, SendsDistinct, Sending
<1>4. CASE ReadAccountBalance(p) \/ ReadAddressBalance(p)
  <2>1. PICK step \in {"account", "address"} : pc' = [pc EXCEPT ![p] = step]
    BY <1>4 DEF ReadAccountBalance, ReadAddressBalance
  <2>2. send' = [send EXCEPT ![p] = send[p]] /\ pc[p] \in {"lookedUp", "account"}
    BY <1>4 DEF IInv, TypeOK, ReadAccountBalance, ReadAddressBalance
  <2>3. pc'[p] \in {"account", "address"} /\ send'[p] = send[p]
    BY <1>2, <2>1, <2>2
  <2>4. Sending(p)'
    BY <1>1, <1>2, <2>2, <2>3 DEF Sending, SendSteps, Unvalidated
  <2> QED
    BY <1>1, <1>3, <2>1, <2>2, <2>4, SendFrame DEF SendSteps, NotifySteps
<1>5. CASE Validate(p)
  <2> DEFINE failed == ValidationErrs(send[p].row, seen[p].account,
                           TotalWalletBalance(send[p].row.from, seen[p].address))
             row == Validated(send[p].row, failed)
             s == [send[p] EXCEPT !.row = row, !.errs = failed]
             step == IF row.status = "send_external" THEN "recheck" ELSE "commit"
  <2>1. /\ send' = [send EXCEPT ![p] = s] /\ pc' = [pc EXCEPT ![p] = step]
        /\ pc[p] = "address"
    BY <1>5 DEF Validate
  <2>2. s.tx = send[p].tx /\ s.row = row
    BY <1>2 DEF SendRecords
  <2>3. send[p].row \in Rows
    BY <1>2 DEF SendRecords
  <2>4. /\ row.status \in {"decline", "success", "pending", "send_external"}
        /\ row.toWallet = send[p].row.toWallet
        /\ row.status = "send_external" => row.type = "external"
        /\ row.status = "success" => row.type = "internal"
        /\ row.status = "pending" =>
              row.type = "internal" /\ send[p].row.toAddress = Nobody
    BY <2>3, ValidatedFacts
  <2> HIDE DEF row, failed, s
  <2>5. step \in {"recheck", "commit"} /\ pc'[p] = step /\ send'[p] = s
    BY <1>2, <2>1
  <2>6. chain[s.tx] = NoChainTx /\ txs[s.tx] = NoRow /\ s.tx \in TxIds
    BY <1>2, <2>1, <2>2 DEF Sending, SendSteps
  <2>7. row.status = "pending" => row.toWallet = Nobody
    BY <1>2, <2>1, <2>4 DEF Sending, Unvalidated
  <2>8. step = "commit" =>
           row.status \in {"pending", "success", "decline"} /\ SettledRow(row, chain[s.tx])
    BY <2>4, <2>6 DEF SettledRow, NoChainTx
  <2> HIDE DEF step
  <2>9. step = "recheck" => row.type = "external"
    BY <2>4 DEF step
  <2>10. Sending(p)'
    BY <1>1, <2>2, <2>4, <2>5, <2>6, <2>7, <2>8, <2>9
       DEF Sending, SendSteps, Unvalidated, SettledRow
  <2> QED
    BY <1>1, <1>3, <2>1, <2>2, <2>5, <2>10, SendFrame DEF SendSteps, NotifySteps
<1>6. CASE Recheck(p)
  <2>1. PICK failed : send' = [send EXCEPT ![p] = [send[p] EXCEPT !.errs = failed]]
    BY <1>6 DEF Recheck
  <2> DEFINE s == [send[p] EXCEPT !.errs = failed]
  <2>2. s.tx = send[p].tx /\ s.row = send[p].row
    BY <1>2 DEF SendRecords
  <2> HIDE DEF s
  <2>3. send' = [send EXCEPT ![p] = s]
    BY <2>1 DEF s
  <2>4. pc[p] = "recheck" /\ pc' = [pc EXCEPT ![p] = "broadcast"]
    BY <1>6 DEF Recheck
  <2>5. send'[p] = s /\ pc'[p] = "broadcast"
    BY <1>2, <2>3, <2>4
  <2>6. Sending(p)'
    BY <1>1, <1>2, <2>2, <2>4, <2>5 DEF Sending, SendSteps, Unvalidated
  <2> QED
    BY <1>1, <1>3, <2>2, <2>3, <2>4, <2>6, SendFrame DEF SendSteps, NotifySteps
<1> QED
  BY <1>4, <1>5, <1>6

(* A broadcast, whether the handler goes on to commit it or not. *)
LEMMA BroadcastFrame ==
    ASSUME IInv, TypeOK', NEW p \in Procs, pc[p] = "broadcast",
           NEW c \in ChainRecords, chain' = [chain EXCEPT ![send[p].tx] = c],
           NEW step \in {"idle", "commit"}, pc' = [pc EXCEPT ![p] = step],
           NEW s, send' = [send EXCEPT ![p] = s],
           s.tx \in {send[p].tx, NoTx},
           UNCHANGED <<wallets, txs, aged, notify, verdict>>,
           Sending(p)'
    PROVE  IInv'
<1> DEFINE t == send[p].tx
<1>1. t \in TxIds /\ txs[t] = NoRow
  BY DEF IInv, Sending, SendSteps
<1>2. \A u \in TxIds : u # t => chain'[u] = chain[u]
  BY DEF IInv, TypeOK
<1>3. \A q \in Procs \ {p} : send[q].tx # t
  BY <1>1, ProcessingAssumption DEF IInv, SendsDistinct
<1> HIDE DEF t
<1>4. RowsWellFormed'
  BY DEF IInv, RowsWellFormed
<1>5. ASSUME NEW u \in TxIds PROVE SettledRow(txs[u], chain[u])'
  <2>1. CASE u = t
    BY <1>1, <2>1 DEF SettledRow, NoRow
  <2>2. CASE u # t
    BY <1>2, <2>2 DEF IInv, ChainAgrees, SettledRow
  <2> QED
    BY <2>1, <2>2
<1>6. AnswersHold'
  BY <1>1, <1>2 DEF IInv, AnswersHold, NoRow
<1>7. ASSUME NEW q \in Procs PROVE Sending(q)'
  <2>1. CASE q = p
    BY <2>1
  <2>2. CASE q # p
    <3>1. pc'[q] = pc[q] /\ send'[q] = send[q] /\ send[q].tx # t /\ Sending(q)
      BY <1>3, <2>2 DEF IInv, TypeOK
    <3>2. CASE pc[q] \in SendSteps
      <4>1. send[q].tx \in TxIds /\ chain'[send[q].tx] = chain[send[q].tx]
        BY <1>2, <3>1, <3>2 DEF Sending
      <4> QED
        BY <3>1, <4>1 DEF Sending, SettledRow
    <3>3. CASE pc[q] \notin SendSteps
      BY <3>1, <3>3 DEF Sending, SendSteps, Unvalidated
    <3> QED
      BY <3>2, <3>3
  <2> QED
    BY <2>1, <2>2
<1>8. SendsDistinct'
  BY <1>3 DEF IInv, TypeOK, SendsDistinct, t
<1>9. ASSUME NEW q \in Procs PROVE Notifying(q)'
  <2>1. pc'[q] = pc[q] \/ (pc[q] \notin NotifySteps /\ pc'[q] \notin NotifySteps)
    BY DEF IInv, TypeOK, NotifySteps
  <2>2. Notifying(q)
    BY DEF IInv
  <2>3. CASE pc'[q] = pc[q]
    BY <2>2, <2>3 DEF Notifying
  <2>4. CASE pc[q] \notin NotifySteps /\ pc'[q] \notin NotifySteps
    BY <2>2, <2>4 DEF Notifying, NotifySteps
  <2> QED
    BY <2>1, <2>3, <2>4
<1>10. NotifiesDistinct'
  BY DEF IInv, NotifiesDistinct
<1> QED
  BY <1>4, <1>5, <1>6, <1>7, <1>8, <1>9, <1>10 DEF IInv, ChainAgrees

LEMMA InvBroadcast ==
    ASSUME IInv, TypeOK', NEW p \in Procs, Broadcast(p) \/ BroadcastThenFail(p)
    PROVE  IInv'
<1>1. /\ pc[p] = "broadcast" /\ send[p] \in SendRecords /\ p \in DOMAIN send
      /\ p \in DOMAIN pc /\ Sending(p)
      /\ UNCHANGED <<wallets, txs, aged, notify, verdict>>
  BY DEF IInv, TypeOK, Broadcast, BroadcastThenFail, dbVars
<1>2. PICK fee \in 0 .. MaxFee :
          /\ chain' = [chain EXCEPT ![send[p].tx] = Announced(send[p].row, fee)]
          /\ Broadcast(p) => send' = [send EXCEPT ![p].row = Sent(send[p].row, fee)]
  BY DEF Broadcast, BroadcastThenFail
<1> DEFINE row == Sent(send[p].row, fee)
           c == Announced(send[p].row, fee)
<1>3. /\ send[p].row \in Rows /\ fee \in Nat /\ send[p].tx \in TxIds
      /\ send[p].row.type = "external" /\ txs[send[p].tx] = NoRow
  BY <1>1, AmountsAssumption DEF SendRecords, Sending, SendSteps
<1>4. c \in ChainRecords
  BY <1>3, RowUpdates
<1>5. /\ row.status \in {"waiting", "success"} /\ row.type = "external"
      /\ SettledRow(row, c)
  BY <1>3 DEF SettledRow, Sent, Announced, Rows
<1>6. chain'[send[p].tx] = c
  BY <1>2, <1>3 DEF IInv, TypeOK
<1> HIDE DEF row, c
<1>7. CASE Broadcast(p)
  <2> DEFINE s == [send[p] EXCEPT !.row = row]
  <2>1. send' = [send EXCEPT ![p] = s] /\ pc' = [pc EXCEPT ![p] = "commit"]
    BY <1>2, <1>7 DEF Broadcast, row
  <2>2. s.tx = send[p].tx /\ s.row = row
    BY <1>1 DEF SendRecords
  <2> HIDE DEF s
  <2>3. send'[p] = s /\ pc'[p] = "commit"
    BY <1>1, <2>1
  <2>4. Sending(p)'
    BY <1>1, <1>3, <1>5, <1>6, <2>2, <2>3 DEF Sending, SendSteps, Unvalidated, SettledRow
  <2> QED
    BY <1>1, <1>2, <1>4, <2>1, <2>2, <2>4, BroadcastFrame DEF c
<1>8. CASE BroadcastThenFail(p)
  <2>1. send' = [send EXCEPT ![p] = NoSend] /\ pc' = [pc EXCEPT ![p] = "idle"]
    BY <1>8 DEF BroadcastThenFail
  <2>2. send'[p] = NoSend /\ pc'[p] = "idle" /\ NoSend.tx = NoTx
    BY <1>1, <2>1 DEF NoSend
  <2>3. Sending(p)'
    BY <2>2 DEF Sending, SendSteps, Unvalidated
  <2> QED
    BY <1>1, <1>2, <1>4, <2>1, <2>2, <2>3, BroadcastFrame DEF c
<1> QED
  BY <1>7, <1>8

LEMMA InvNodeRefuses ==
    ASSUME IInv, TypeOK', NEW p \in Procs, NodeRefuses(p)
    PROVE  IInv'
<1>1. /\ send' = [send EXCEPT ![p] = NoSend] /\ pc' = [pc EXCEPT ![p] = "idle"]
      /\ pc[p] = "broadcast" /\ UNCHANGED <<wallets, txs, aged, notify, verdict, chain>>
  BY DEF NodeRefuses, dbVars, chainVars
<1>2. send'[p] = NoSend /\ pc'[p] = "idle" /\ NoSend.tx = NoTx
  BY <1>1 DEF IInv, TypeOK, NoSend
<1>3. Sending(p)'
  BY <1>2 DEF Sending, SendSteps, Unvalidated
<1> QED
  BY <1>1, <1>2, <1>3, SendFrame DEF NotifySteps

LEMMA InvCommitSend ==
    ASSUME IInv, TypeOK', NEW p \in Procs, CommitSend(p)
    PROVE  IInv'
<1> DEFINE t == send[p].tx
           row == send[p].row
<1>1. /\ pc[p] = "commit" /\ pc' = [pc EXCEPT ![p] = "idle"]
      /\ send' = [send EXCEPT ![p] = NoSend] /\ txs' = [txs EXCEPT ![t] = row]
      /\ UNCHANGED <<wallets, aged, notify, verdict, chain>>
  BY DEF CommitSend, chainVars
<1>2. /\ t \in TxIds /\ txs[t] = NoRow /\ SettledRow(row, chain[t])
      /\ row.status \in {"pending", "waiting", "success", "decline"}
      /\ row.status = "pending" => row.type = "internal" /\ row.toWallet = Nobody
  BY <1>1 DEF IInv, Sending, SendSteps
<1>3. \A q \in Procs \ {p} : send[q].tx # t
  BY <1>2, ProcessingAssumption DEF IInv, SendsDistinct
<1> HIDE DEF t, row
<1>4. txs'[t] = row /\ \A u \in TxIds : u # t => txs'[u] = txs[u]
  BY <1>1, <1>2 DEF IInv, TypeOK
<1>5. txs[t].status = "absent" /\ t \notin aged /\ verdict[t] = "none"
  BY <1>2 DEF IInv, RowsWellFormed, AnswersHold, NoRow
<1>6. RowsWellFormed'
  <2> SUFFICES ASSUME NEW u \in TxIds
               PROVE  /\ txs'[u].status \in CommittedStatuses
                      /\ txs'[u].status = "absent" => txs'[u] = NoRow
                      /\ txs'[u].status = "pending" =>
                            txs'[u].type = "internal" /\ txs'[u].toWallet = Nobody
                      /\ u \in aged => txs'[u].status = "pending"
    BY <1>1 DEF RowsWellFormed
  <2>1. CASE u = t
    BY <1>2, <1>4, <1>5, <2>1 DEF CommittedStatuses
  <2>2. CASE u # t
    BY <1>4, <2>2 DEF IInv, RowsWellFormed
  <2> QED
    BY <2>1, <2>2
<1>7. ASSUME NEW u \in TxIds PROVE SettledRow(txs[u], chain[u])'
  <2>1. CASE u = t
    BY <1>1, <1>2, <1>4, <2>1 DEF SettledRow
  <2>2. CASE u # t
    BY <1>1, <1>4, <2>2 DEF IInv, ChainAgrees, SettledRow
  <2> QED
    BY <2>1, <2>2
<1>8. AnswersHold'
  BY <1>1, <1>4, <1>5 DEF IInv, AnswersHold
<1>9. ASSUME NEW q \in Procs PROVE Sending(q)'
  <2>1. CASE q = p
    <3>1. send'[q] = NoSend /\ pc'[q] = "idle"
      BY <1>1, <2>1 DEF IInv, TypeOK
    <3> QED
      BY <3>1 DEF Sending, SendSteps, Unvalidated, NoSend
  <2>2. CASE q # p
    <3>1. pc'[q] = pc[q] /\ send'[q] = send[q] /\ send[q].tx # t /\ Sending(q)
      BY <1>1, <1>3, <2>2 DEF IInv, TypeOK
    <3>2. pc[q] \in SendSteps => txs'[send[q].tx] = NoRow
      BY <1>4, <3>1 DEF Sending
    <3> QED
      BY <1>1, <3>1, <3>2 DEF Sending, SettledRow
  <2> QED
    BY <2>1, <2>2
<1>10. SendsDistinct'
  BY <1>1 DEF IInv, TypeOK, SendsDistinct, NoSend
<1>11. ASSUME NEW q \in Procs PROVE Notifying(q)'
  <2>1. Notifying(q) /\ notify[q] \in NotifyRecords
    BY DEF IInv, TypeOK
  <2>2. notify'[q] = notify[q] /\ wallets' = wallets /\ aged' = aged
    BY <1>1
  <2>3. pc'[q] = pc[q] \/ (pc[q] \notin NotifySteps /\ pc'[q] \notin NotifySteps)
    BY <1>1 DEF IInv, TypeOK, NotifySteps
  <2>4. \A u \in TxIds : txs[u].status = "pending" => txs'[u] = txs[u]
    BY <1>4, <1>5
  <2>5. \A u \in TxIds : u \in aged => txs'[u] = txs[u]
    BY <1>4, <1>5
  <2>6. notify[q].claimed \subseteq TxIds /\ notify[q].selected \subseteq TxIds
    BY <2>1 DEF NotifyRecords
  <2>7. CASE pc'[q] = pc[q]
    BY <2>1, <2>2, <2>4, <2>5, <2>6, <2>7 DEF Notifying
  <2>8. CASE pc[q] \notin NotifySteps /\ pc'[q] \notin NotifySteps
    BY <2>1, <2>2, <2>8 DEF Notifying, NotifySteps, NoNotify
  <2> QED
    BY <2>3, <2>7, <2>8
<1>12. NotifiesDistinct'
  BY <1>1 DEF IInv, NotifiesDistinct
<1> QED
  BY <1>6, <1>7, <1>8, <1>9, <1>10, <1>11, <1>12 DEF IInv, ChainAgrees

(* A step of a handler that leaves txs and the other handlers alone; what it *)
(* may change is its own notification, the wallets and the aged rows.        *)
LEMMA NotifyFrame ==
    ASSUME IInv, TypeOK', NEW p \in Procs,
           NEW step \in {"idle"} \cup NotifySteps, pc' = [pc EXCEPT ![p] = step],
           NEW n, notify' = [notify EXCEPT ![p] = n],
           n.wallet # Nobody =>
              \A q \in Procs \ {p} : notify[q].wallet # n.wallet,
           UNCHANGED <<txs, aged, verdict, chain>>, wallets \subseteq wallets',
           \/ pc[p] \notin SendSteps /\ send' = send
           \/ send' = [send EXCEPT ![p] = NoSend],
           Notifying(p)'
    PROVE  IInv'
<1>1. RowsWellFormed' /\ ChainAgrees' /\ AnswersHold'
  BY DEF IInv, RowsWellFormed, ChainAgrees, SettledRow, AnswersHold
<1>2. ASSUME NEW q \in Procs PROVE Sending(q)'
  <2>1. Sending(q)
    BY DEF IInv
  <2>2. CASE q = p
    <3>1. pc'[q] \notin SendSteps
      BY <2>2 DEF IInv, TypeOK, SendSteps, NotifySteps
    <3>2. send'[q].tx = NoTx
      BY <2>1, <2>2 DEF IInv, TypeOK, Sending, NoSend
    <3> QED
      BY <3>1, <3>2 DEF Sending, SendSteps, Unvalidated
  <2>3. CASE q # p
    <3>1. pc'[q] = pc[q] /\ send'[q] = send[q]
      BY <2>3 DEF IInv, TypeOK
    <3> QED
      BY <2>1, <3>1 DEF Sending, SettledRow
  <2> QED
    BY <2>2, <2>3
<1>3. SendsDistinct'
  BY DEF IInv, TypeOK, SendsDistinct, NoSend
<1>4. ASSUME NEW q \in Procs PROVE Notifying(q)'
  <2>1. CASE q = p
    BY <2>1
  <2>2. CASE q # p
    <3>1. pc'[q] = pc[q] /\ notify'[q] = notify[q] /\ Notifying(q)
      BY <2>2 DEF IInv, TypeOK
    <3> QED
      BY <3>1 DEF Notifying
  <2> QED
    BY <2>1, <2>2
<1>5. NotifiesDistinct'
  BY DEF IInv, TypeOK, NotifiesDistinct
<1> QED
  BY <1>1, <1>2, <1>3, <1>4, <1>5 DEF IInv

LEMMA InvAbort ==
    ASSUME IInv, TypeOK', NEW p \in Procs, Abort(p)
    PROVE  IInv'
<1>1. /\ pc' = [pc EXCEPT ![p] = "idle"] /\ send' = [send EXCEPT ![p] = NoSend]
      /\ notify' = [notify EXCEPT ![p] = NoNotify]
      /\ UNCHANGED <<wallets, txs, aged, verdict, chain>>
  BY DEF Abort, dbVars, chainVars
<1>2. notify'[p] = NoNotify /\ pc'[p] = "idle"
  BY <1>1 DEF IInv, TypeOK
<1>3. Notifying(p)'
  BY <1>2 DEF Notifying, NotifySteps, NoNotify
<1>4. NoNotify.wallet = Nobody
  BY DEF NoNotify
<1> QED
  BY <1>1, <1>3, <1>4, NotifyFrame

LEMMA InvNotify ==
    ASSUME IInv, TypeOK', NEW p \in Procs,
           \/ \E w \in Phones : CreateWallet(p, w)
           \/ ClaimAwaiting(p) \/ SelectAwaiting(p)
    PROVE  IInv'
<1>1. /\ notify[p] \in NotifyRecords /\ Notifying(p) /\ p \in DOMAIN notify
      /\ p \in DOMAIN pc
  BY DEF IInv, TypeOK
<1>2. ASSUME NEW w \in Phones, CreateWallet(p, w) PROVE IInv'
  <2> DEFINE n == [notify[p] EXCEPT !.wallet = w]
  <2>1. /\ notify' = [notify EXCEPT ![p] = n] /\ pc' = [pc EXCEPT ![p] = "created"]
        /\ wallets' = wallets \cup {w} /\ w \notin wallets /\ pc[p] = "idle"
        /\ UNCHANGED <<txs, aged, verdict, chain, send>>
    BY <1>2 DEF CreateWallet, chainVars
  <2>2. n.wallet = w /\ n.claimed = {} /\ notify'[p] = n /\ pc'[p] = "created"
    BY <1>1, <2>1 DEF Notifying, NotifySteps, NoNotify
  <2> HIDE DEF n
  <2>3. Notifying(p)'
    BY <2>1, <2>2 DEF Notifying, NotifySteps
  <2>4. ASSUME NEW q \in Procs \ {p} PROVE notify[q].wallet # w
    <3>1. Notifying(q)
      BY DEF IInv
    <3>2. notify[q].wallet \in wallets \cup {Nobody}
      BY <3>1 DEF Notifying, NoNotify
    <3> QED
      BY <2>1, <3>2, PartiesAssumption
  <2> QED
    BY <2>1, <2>2, <2>3, <2>4, NotifyFrame DEF NotifySteps, SendSteps
<1>3. ASSUME pc[p] \in NotifySteps
      PROVE  \A q \in Procs \ {p} : notify[q].wallet # notify[p].wallet
  <2>1. notify[p].wallet # Nobody
    BY <1>1, <1>3, PartiesAssumption DEF IInv, TypeOK, Notifying
  <2> QED
    BY <2>1 DEF IInv, NotifiesDistinct
<1>4. CASE ClaimAwaiting(p)
  <2> DEFINE n == [notify[p] EXCEPT !.claimed = Awaiting(notify[p].wallet)]
  <2>1. /\ notify' = [notify EXCEPT ![p] = n] /\ pc' = [pc EXCEPT ![p] = "claimed"]
        /\ pc[p] = "created" /\ UNCHANGED <<wallets, txs, aged, verdict, chain, send>>
    BY <1>4 DEF ClaimAwaiting, dbVars, chainVars
  <2>2. /\ n.wallet = notify[p].wallet /\ n.claimed = Awaiting(notify[p].wallet)
        /\ notify'[p] = n /\ pc'[p] = "claimed"
    BY <1>1, <2>1 DEF NotifyRecords
  <2> HIDE DEF n
  <2>3. Notifying(p)'
    BY <1>1, <2>1, <2>2 DEF Notifying, NotifySteps, Awaiting
  <2> QED
    BY <1>3, <2>1, <2>2, <2>3, NotifyFrame DEF NotifySteps, SendSteps
<1>5. CASE SelectAwaiting(p)
  <2> DEFINE n == [notify[p] EXCEPT !.selected = Awaiting(notify[p].wallet)]
  <2>1. /\ notify' = [notify EXCEPT ![p] = n] /\ pc' = [pc EXCEPT ![p] = "selected"]
        /\ pc[p] = "claimed" /\ UNCHANGED <<wallets, txs, aged, verdict, chain, send>>
    BY <1>5 DEF SelectAwaiting, dbVars, chainVars
  <2>2. /\ n.wallet = notify[p].wallet /\ n.claimed = notify[p].claimed
        /\ n.selected = Awaiting(notify[p].wallet)
        /\ notify'[p] = n /\ pc'[p] = "selected"
    BY <1>1, <2>1 DEF NotifyRecords
  <2> HIDE DEF n
  <2>3. Notifying(p)'
    BY <1>1, <2>1, <2>2 DEF Notifying, NotifySteps, Awaiting
  <2> QED
    BY <1>3, <2>1, <2>2, <2>3, NotifyFrame DEF NotifySteps, SendSteps
<1> QED
  BY <1>2, <1>4, <1>5

LEMMA InvCommitNotify ==
    ASSUME IInv, TypeOK', NEW p \in Procs, CommitNotify(p)
    PROVE  IInv'
<1> DEFINE woken == notify[p].selected
<1>1. /\ pc[p] = "selected" /\ pc' = [pc EXCEPT ![p] = "idle"]
      /\ notify' = [notify EXCEPT ![p] = NoNotify] /\ aged' = aged \ woken
      /\ \A t \in TxIds : txs'[t] = IF t \in woken THEN Woken(t, notify[p]) ELSE txs[t]
      /\ UNCHANGED <<wallets, send, verdict, chain>>
  BY DEF CommitNotify, chainVars
<1>2. notify[p] \in NotifyRecords /\ Notifying(p) /\ woken \subseteq TxIds
  BY DEF IInv, TypeOK, NotifyRecords
<1>3. \A t \in woken : /\ txs[t].status = "pending"
                       /\ txs[t].toPhone = notify[p].wallet
                       /\ txs[t].type = "internal" /\ chain[t].state = "none"
  <2> TAKE t \in woken
  <2>1. txs[t].status = "pending" /\ txs[t].toPhone = notify[p].wallet
    BY <1>1, <1>2 DEF Notifying
  <2>2. txs[t].type = "internal" /\ SettledRow(txs[t], chain[t])
    BY <1>2, <2>1 DEF IInv, RowsWellFormed, ChainAgrees
  <2> QED
    BY <2>1, <2>2 DEF SettledRow
<1>4. \A t \in woken : txs'[t].status = "success" /\ txs'[t].type = "internal"
  <2> TAKE t \in woken
  <2>1. txs[t] \in Rows /\ notify[p].wallet \in Phones \cup {Nobody}
    BY <1>2 DEF IInv, TypeOK, NotifyRecords
  <2> QED
    BY <1>1, <1>2, <1>3, <2>1, WokenFacts
<1>5. \A t \in TxIds \ woken : txs'[t] = txs[t]
  BY <1>1
<1> HIDE DEF woken
<1>6. RowsWellFormed'
  BY <1>1, <1>4, <1>5 DEF IInv, RowsWellFormed, CommittedStatuses
<1>7. ASSUME NEW t \in TxIds PROVE SettledRow(txs[t], chain[t])'
  <2>1. CASE t \in woken
    BY <1>1, <1>3, <1>4, <2>1 DEF SettledRow
  <2>2. CASE t \notin woken
    BY <1>1, <1>5, <2>2 DEF IInv, ChainAgrees, SettledRow
  <2> QED
    BY <2>1, <2>2
<1>8. AnswersHold'
  BY <1>1, <1>3, <1>5 DEF IInv, AnswersHold
<1>9. ASSUME NEW q \in Procs PROVE Sending(q)'
  <2>1. Sending(q) /\ send'[q] = send[q]
    BY <1>1 DEF IInv
  <2>2. CASE q = p
    BY <1>1, <2>1, <2>2 DEF IInv, TypeOK, Sending, SendSteps, Unvalidated
  <2>3. CASE q # p
    <3>1. pc'[q] = pc[q]
      BY <1>1, <2>3 DEF IInv, TypeOK
    <3>2. pc[q] \in SendSteps => send[q].tx \in TxIds \ woken
      BY <1>3, <2>1 DEF Sending, NoRow
    <3> QED
      BY <1>1, <1>5, <2>1, <3>1, <3>2 DEF Sending, SettledRow
  <2> QED
    BY <2>2, <2>3
<1>10. SendsDistinct'
  BY <1>1 DEF IInv, SendsDistinct
<1>11. ASSUME NEW q \in Procs PROVE Notifying(q)'
  <2>1. CASE q = p
    <3>1. notify'[q] = NoNotify /\ pc'[q] = "idle"
      BY <1>1, <2>1 DEF IInv, TypeOK
    <3> QED
      BY <3>1 DEF Notifying, NotifySteps, NoNotify
  <2>2. CASE q # p
    <3>1. /\ pc'[q] = pc[q] /\ notify'[q] = notify[q] /\ Notifying(q)
          /\ notify[q] \in NotifyRecords
      BY <1>1, <2>2 DEF IInv, TypeOK
    <3>2. notify[p].wallet # Nobody /\ notify[q].wallet # notify[p].wallet
      BY <1>1, <1>2, <2>2, PartiesAssumption
         DEF IInv, TypeOK, NotifiesDistinct, Notifying, NotifySteps
    <3>3. /\ \A t \in TxIds : txs[t].toPhone = notify[q].wallet => txs'[t] = txs[t]
          /\ \A t \in TxIds : txs'[t].status = "pending" => txs'[t] = txs[t]
      BY <1>3, <1>4, <1>5, <3>2
    <3>4. notify[q].claimed \subseteq TxIds /\ notify[q].selected \subseteq TxIds
      BY <3>1 DEF NotifyRecords
    <3> QED
      BY <1>1, <3>1, <3>3, <3>4 DEF Notifying
  <2> QED
    BY <2>1, <2>2
<1>12. NotifiesDistinct'
  BY <1>1 DEF IInv, TypeOK, NotifiesDistinct, NoNotify
<1> QED
  BY <1>6, <1>7, <1>8, <1>9, <1>10, <1>11, <1>12 DEF IInv, ChainAgrees

(* Steps of the watcher that only change its answers, and deposits. *)
LEMMA InvWatch ==
    ASSUME IInv, TypeOK',
           \/ \E t \in TxIds : IsConfirmed(t) \/ IsConfirmedFails(t)
           \/ WatchConfirmations \/ WatcherFails
           \/ \E w \in Phones : Deposit(w) \/ ConfirmDeposit(w)
    PROVE  IInv'
<1>1. UNCHANGED <<wallets, txs, aged, pc, send, notify, chain>>
  BY DEF IsConfirmed, IsConfirmedFails, WatchConfirmations, WatcherFails, Deposit,
         ConfirmDeposit, dbVars, procVars, chainVars
<1>2. AnswersHold'
  <2>1. ASSUME NEW t \in TxIds, IsConfirmed(t) \/ IsConfirmedFails(t) PROVE AnswersHold'
    BY <1>1, <2>1 DEF IInv, TypeOK, AnswersHold, IsConfirmed, IsConfirmedFails, Observed
  <2>2. CASE WatchConfirmations
    BY <1>1, <2>2 DEF AnswersHold, WatchConfirmations
  <2>3. CASE WatcherFails
    BY <1>1, <2>3 DEF AnswersHold, WatcherFails
  <2>4. ASSUME NEW w \in Phones, Deposit(w) \/ ConfirmDeposit(w) PROVE AnswersHold'
    BY <1>1, <2>4 DEF IInv, AnswersHold, Deposit, ConfirmDeposit
  <2> QED
    BY <2>1, <2>2, <2>3, <2>4
<1>3. RowsWellFormed' /\ ChainAgrees'
  BY <1>1 DEF IInv, RowsWellFormed, ChainAgrees, SettledRow
<1>4. (\A p \in Procs : Sending(p)') /\ SendsDistinct'
  BY <1>1 DEF IInv, Sending, SendsDistinct, SettledRow
<1>5. (\A p \in Procs : Notifying(p)') /\ NotifiesDistinct'
  BY <1>1 DEF IInv, Notifying, NotifiesDistinct
<1> QED
  BY <1>2, <1>3, <1>4, <1>5 DEF IInv

LEMMA InvAge ==
    ASSUME IInv, TypeOK', NEW t \in TxIds, Age(t)
    PROVE  IInv'
<1>1. UNCHANGED <<wallets, txs, pc, send, notify, verdict, chain>> /\ aged' = aged \cup {t}
  BY DEF Age, procVars, chainVars
<1>2. RowsWellFormed'
  BY <1>1 DEF IInv, RowsWellFormed, Age
<1>3. ChainAgrees' /\ AnswersHold'
  BY <1>1 DEF IInv, ChainAgrees, SettledRow, AnswersHold
<1>4. (\A p \in Procs : Sending(p)') /\ SendsDistinct'
  BY <1>1 DEF IInv, Sending, SendsDistinct, SettledRow
<1>5. \A p \in Procs : Notifying(p)'
  BY <1>1 DEF IInv, Notifying, Age
<1>6. NotifiesDistinct'
  BY <1>1 DEF IInv, NotifiesDistinct
<1> QED
  BY <1>2, <1>3, <1>4, <1>5, <1>6 DEF IInv

LEMMA InvOnCheckOutdated ==
    ASSUME IInv, TypeOK', OnCheckOutdated
    PROVE  IInv'
<1> DEFINE due == {t \in TxIds : Outdated(t)}
<1>1. /\ \A p \in Procs : notify[p].claimed \cap due = {}
      /\ txs' = [t \in TxIds |->
                    IF t \in due THEN [txs[t] EXCEPT !.status = "cancel"] ELSE txs[t]]
      /\ aged' = aged \ due
      /\ UNCHANGED <<wallets, pc, send, notify, verdict, chain>>
  BY DEF OnCheckOutdated, RowLocks, procVars, chainVars
<1>2. \A t \in due : /\ t \in aged /\ txs[t].status = "pending"
                     /\ txs[t].type = "internal" /\ chain[t].state = "none"
  <2> TAKE t \in due
  <2>1. t \in TxIds /\ t \in aged /\ txs[t].status = "pending" /\ txs[t].type = "internal"
    BY DEF Outdated
  <2>2. SettledRow(txs[t], chain[t])
    BY <2>1 DEF IInv, ChainAgrees
  <2> QED
    BY <2>1, <2>2 DEF SettledRow
<1>3. \A t \in due : txs'[t].status = "cancel" /\ txs'[t].type = "internal"
  BY <1>1, <1>2 DEF IInv, TypeOK, Rows
<1>4. \A t \in TxIds \ due : txs'[t] = txs[t]
  BY <1>1
<1> HIDE DEF due
<1>5. RowsWellFormed'
  BY <1>1, <1>3, <1>4 DEF IInv, RowsWellFormed, CommittedStatuses
<1>6. ASSUME NEW t \in TxIds PROVE SettledRow(txs[t], chain[t])'
  <2>1. CASE t \in due
    BY <1>1, <1>2, <1>3, <2>1 DEF SettledRow
  <2>2. CASE t \notin due
    BY <1>1, <1>4, <2>2 DEF IInv, ChainAgrees, SettledRow
  <2> QED
    BY <2>1, <2>2
<1>7. AnswersHold'
  BY <1>1, <1>2, <1>4 DEF IInv, AnswersHold
<1>8. ASSUME NEW p \in Procs PROVE Sending(p)'
  <2>1. Sending(p)
    BY DEF IInv
  <2>2. pc[p] \in SendSteps => send[p].tx \in TxIds \ due
    BY <1>2, <2>1 DEF Sending, NoRow
  <2> QED
    BY <1>1, <1>4, <2>1, <2>2 DEF Sending, SettledRow
<1>9. ASSUME NEW p \in Procs PROVE Notifying(p)'
  <2>1. Notifying(p) /\ notify[p] \in NotifyRecords
    BY DEF IInv, TypeOK
  <2>2. notify[p].claimed \subseteq TxIds \ due
    BY <1>1, <2>1 DEF NotifyRecords
  <2>3. pc[p] = "selected" => notify[p].selected \subseteq TxIds \ due
    <3> SUFFICES ASSUME pc[p] = "selected", NEW t \in notify[p].selected
                 PROVE  t \in TxIds \ due
      OBVIOUS
    <3>1. t \in TxIds /\ txs[t].status = "pending" /\ txs[t].toPhone = notify[p].wallet
      BY <2>1 DEF Notifying, NotifyRecords
    <3>2. t \in notify[p].claimed \/ t \notin aged
      BY <2>1, <3>1 DEF Notifying
    <3> QED
      BY <1>2, <2>2, <3>1, <3>2
  <2>4. \A t \in TxIds : txs'[t].status = "pending" => txs'[t] = txs[t]
    BY <1>3, <1>4
  <2>5. UNCHANGED <<wallets, pc, notify>> /\ aged' \subseteq aged
    BY <1>1
  <2>6. /\ \A t \in notify[p].claimed : txs'[t] = txs[t]
        /\ pc[p] = "selected" => \A t \in notify[p].selected : txs'[t] = txs[t]
    BY <1>4, <2>2, <2>3
  <2> QED
    BY <2>1, <2>4, <2>5, <2>6 DEF Notifying
<1>10. SendsDistinct' /\ NotifiesDistinct'
  BY <1>1 DEF IInv, SendsDistinct, NotifiesDistinct
<1> QED
  BY <1>5, <1>6, <1>7, <1>8, <1>9, <1>10 DEF IInv, ChainAgrees

LEMMA InvUpdateConfirmed ==
    ASSUME IInv, TypeOK', UpdateConfirmed
    PROVE  IInv'
<1>1. /\ txs' = [t \in TxIds |-> Settled(t)]
      /\ verdict' = [t \in TxIds |-> "none"]
      /\ UNCHANGED <<wallets, aged, pc, send, notify, chain>>
  BY DEF UpdateConfirmed, procVars, chainVars
<1>2. ASSUME NEW t \in TxIds
      PROVE  \/ txs'[t] = txs[t]
             \/ /\ txs[t].status = "waiting" /\ txs'[t].type = "external"
                /\ txs'[t].from = txs[t].from /\ txs'[t].amount = txs[t].amount
                /\ \/ txs'[t].status = "success" /\ chain[t].state = "mined"
                   \/ txs'[t].status = "decline" /\ chain[t].state = "dropped"
  <2>1. txs'[t] = Settled(t) /\ txs[t] \in Rows
    BY <1>1 DEF IInv, TypeOK
  <2>2. CASE verdict[t] = "confirmed"
    BY <2>1, <2>2 DEF IInv, AnswersHold, Settled, Rows
  <2>3. CASE verdict[t] = "abandoned"
    BY <2>1, <2>3 DEF IInv, AnswersHold, Settled, Rows
  <2>4. CASE verdict[t] \notin {"confirmed", "abandoned"}
    BY <2>1, <2>4 DEF Settled
  <2> QED
    BY <2>2, <2>3, <2>4
<1>3. RowsWellFormed'
  BY <1>1, <1>2 DEF IInv, RowsWellFormed, CommittedStatuses
<1>4. ASSUME NEW t \in TxIds PROVE SettledRow(txs[t], chain[t])'
  <2>1. SettledRow(txs[t], chain[t]) /\ chain'[t] = chain[t]
    BY <1>1 DEF IInv, ChainAgrees
  <2> QED
    BY <1>2, <2>1 DEF SettledRow
<1>5. AnswersHold'
  BY <1>1 DEF AnswersHold
<1>6. ASSUME NEW p \in Procs PROVE Sending(p)'
  <2>1. Sending(p)
    BY DEF IInv
  <2>2. pc[p] \in SendSteps => txs'[send[p].tx] = txs[send[p].tx]
    BY <1>2, <2>1 DEF Sending, NoRow
  <2> QED
    BY <1>1, <2>1, <2>2 DEF Sending, SettledRow
<1>7. ASSUME NEW p \in Procs PROVE Notifying(p)'
  <2>1. Notifying(p) /\ notify[p] \in NotifyRecords
    BY DEF IInv, TypeOK
  <2>2. \A t \in TxIds :
            txs[t].status = "pending" \/ txs'[t].status = "pending" => txs'[t] = txs[t]
    BY <1>2
  <2>3. notify[p].claimed \subseteq TxIds /\ notify[p].selected \subseteq TxIds
    BY <2>1 DEF NotifyRecords
  <2> QED
    BY <1>1, <2>1, <2>2, <2>3 DEF Notifying
<1>8. SendsDistinct' /\ NotifiesDistinct'
  BY <1>1 DEF IInv, SendsDistinct, NotifiesDistinct
<1> QED
  BY <1>3, <1>4, <1>5, <1>6, <1>7, <1>8 DEF IInv, ChainAgrees

(* The blockchain decides on a broadcast: only a waiting row knows of it. *)
LEMMA DecidedRow ==
    ASSUME NEW row, NEW c \in ChainRecords, SettledRow(row, c), c.state = "mempool",
           row.status \in CommittedStatuses, NEW state \in {"mined", "dropped"}
    PROVE  SettledRow(row, [c EXCEPT !.state = state])
BY DEF SettledRow, ChainRecords, CommittedStatuses

LEMMA InvDecided ==
    ASSUME IInv, TypeOK', NEW t \in TxIds, Mine(t) \/ Drop(t)
    PROVE  IInv'
<1>1. PICK state \in {"mined", "dropped"} : chain' = [chain EXCEPT ![t].state = state]
  BY DEF Mine, Drop
<1>2. /\ chain[t].state = "mempool" /\ chain[t] \in ChainRecords
      /\ UNCHANGED <<wallets, txs, aged, pc, send, notify, verdict>>
  BY DEF IInv, TypeOK, Mine, Drop, dbVars, procVars
<1>3. /\ chain'[t] = [chain[t] EXCEPT !.state = state]
      /\ \A u \in TxIds \ {t} : chain'[u] = chain[u]
  BY <1>1 DEF IInv, TypeOK
<1>4. RowsWellFormed'
  BY <1>2 DEF IInv, RowsWellFormed
<1>5. ASSUME NEW u \in TxIds PROVE SettledRow(txs[u], chain[u])'
  <2>1. SettledRow(txs[u], chain[u]) /\ txs[u].status \in CommittedStatuses
    BY DEF IInv, ChainAgrees, RowsWellFormed
  <2>2. CASE u = t
    <3>1. SettledRow(txs[u], [chain[t] EXCEPT !.state = state])
      BY <1>2, <2>1, <2>2, DecidedRow
    <3> QED
      BY <1>2, <1>3, <2>2, <3>1 DEF SettledRow
  <2>3. CASE u # t
    BY <1>2, <1>3, <2>1, <2>3 DEF SettledRow
  <2> QED
    BY <2>2, <2>3
<1>6. AnswersHold'
  BY <1>2, <1>3 DEF IInv, AnswersHold
<1>7. ASSUME NEW p \in Procs PROVE Sending(p)'
  <2>1. Sending(p)
    BY DEF IInv
  <2>2. pc[p] \in SendSteps \ {"commit"} => chain'[send[p].tx] = chain[send[p].tx]
    BY <1>2, <1>3, <2>1 DEF Sending, NoChainTx
  <2>3. ASSUME pc[p] = "commit" PROVE SettledRow(send[p].row, chain'[send[p].tx])
    <3>1. /\ send[p].tx \in TxIds /\ SettledRow(send[p].row, chain[send[p].tx])
          /\ send[p].row.status \in CommittedStatuses
      BY <2>1, <2>3 DEF Sending, SendSteps, CommittedStatuses
    <3>2. CASE send[p].tx = t
      <4>1. SettledRow(send[p].row, [chain[t] EXCEPT !.state = state])
        BY <1>2, <3>1, <3>2, DecidedRow
      <4> QED
        BY <1>3, <3>2, <4>1
    <3>3. CASE send[p].tx # t
      BY <1>3, <3>1, <3>3
    <3> QED
      BY <3>2, <3>3
  <2> QED
    BY <1>2, <2>1, <2>2, <2>3 DEF Sending, SettledRow
<1>8. \A p \in Procs : Notifying(p)'
  BY <1>2 DEF IInv, Notifying
<1>9. SendsDistinct' /\ NotifiesDistinct'
  BY <1>2 DEF IInv, SendsDistinct, NotifiesDistinct
<1> QED
  BY <1>4, <1>5, <1>6, <1>7, <1>8, <1>9 DEF IInv, ChainAgrees

LEMMA InvStutter ==
    ASSUME IInv, TypeOK', UNCHANGED vars
    PROVE  IInv'
<1>1. UNCHANGED <<wallets, txs, aged, pc, send, notify, verdict, chain>>
  BY DEF vars, dbVars, procVars, chainVars
<1>2. RowsWellFormed' /\ ChainAgrees' /\ AnswersHold'
  BY <1>1 DEF IInv, RowsWellFormed, ChainAgrees, SettledRow, AnswersHold
<1>3. (\A p \in Procs : Sending(p)') /\ SendsDistinct'
  BY <1>1 DEF IInv, Sending, SendsDistinct, SettledRow
<1>4. (\A p \in Procs : Notifying(p)') /\ NotifiesDistinct'
  BY <1>1 DEF IInv, Notifying, NotifiesDistinct
<1> QED
  BY <1>2, <1>3, <1>4 DEF IInv

LEMMA InvStep == ASSUME IInv, [Next]_vars PROVE IInv'
<1>1. TypeOK'
  BY TypeStep DEF IInv
<1>2. ASSUME NEW p \in Procs, NEW from \in Phones, NEW to \in Phones, NEW amount \in Amounts,
             SendToPhone(p, from, to, amount)
      PROVE  IInv'
  <2>1. PICK recipient \in Recipients : StartSend(p, from, recipient, amount)
    BY <1>2, RecipientsFacts DEF SendToPhone
  <2> QED
    BY <1>1, <2>1, InvStartSend
<1>3. ASSUME NEW p \in Procs, NEW from \in Phones, NEW address \in Phones \cup Foreign,
             NEW amount \in Amounts, SentToAddress(p, from, address, amount)
      PROVE  IInv'
  <2>1. PICK recipient \in Recipients : StartSend(p, from, recipient, amount)
    <3>1. address \in wallets => address \in Phones
      BY DEF IInv, TypeOK
    <3>2. CASE address \in wallets
      BY <1>3, <3>1, <3>2, RecipientsFacts DEF SentToAddress
    <3>3. CASE address \notin wallets
      <4>1. address \in Foreign
        BY <1>3, <3>3 DEF SentToAddress
      <4> QED
        BY <1>3, <3>3, <4>1, RecipientsFacts DEF SentToAddress
    <3> QED
      BY <3>2, <3>3
  <2> QED
    BY <1>1, <2>1, InvStartSend
<1>4. ASSUME NEW p \in Procs, Request(p) PROVE IInv'
  BY <1>1, <1>2, <1>3, <1>4, InvNotify DEF Request
<1>5. ASSUME NEW p \in Procs, HandlerStep(p) PROVE IInv'
  BY <1>1, <1>5, InvValidation, InvBroadcast, InvNodeRefuses, InvCommitSend, InvNotify,
     InvCommitNotify DEF HandlerStep
<1>6. CASE Elsewhere
  BY <1>1, <1>6, InvBroadcast, InvAbort, InvAge, InvWatch, InvDecided, InvOnCheckOutdated,
     InvUpdateConfirmed DEF Elsewhere
<1>7. CASE UNCHANGED vars
  BY <1>1, <1>7, InvStutter
<1> QED
  BY <1>4, <1>5, <1>6, <1>7, NextSplits

LEMMA InvHolds == Spec => []IInv
BY InvInit, InvStep, PTL DEF Spec

-----------------------------------------------------------------------------
(* The properties *)

(* Between the statements of NotifyUserCreatesWallet nobody cancels, wakes   *)
(* or readdresses the rows it has claimed.                                   *)
THEOREM ClaimsHold == Spec => []ClaimedStayPending
<1>1. IInv => ClaimedStayPending
  <2> SUFFICES ASSUME IInv, NEW p \in Procs, NEW t \in notify[p].claimed
               PROVE  /\ txs[t].status = "pending"
                      /\ txs[t].toPhone = notify[p].wallet
                      /\ txs[t].toWallet = Nobody
    BY DEF ClaimedStayPending
  <2>1. t \in TxIds /\ Notifying(p)
    BY DEF IInv, TypeOK, NotifyRecords
  <2> QED
    BY <2>1 DEF IInv, Notifying, RowsWellFormed
<1> QED
  BY <1>1, InvHolds, PTL

(* Whatever the interleaving of senders, watcher and blockchain, and however *)
(* old the watcher's answers are, a committed row says what became of its    *)
(* broadcast; for every coin.                                                *)
THEOREM RowsAgreeWithChain == Spec => []SettledOnChain
<1>1. IInv => SettledOnChain
  BY DEF IInv, ChainAgrees, SettledRow, SettledOnChain
<1> QED
  BY <1>1, InvHolds, PTL

(* The four actions that write rows of txs. *)
LEMMA RowWriters ==
    ASSUME [Next]_vars, txs' # txs
    PROVE  \/ \E p \in Procs : CommitSend(p) \/ CommitNotify(p)
           \/ OnCheckOutdated \/ UpdateConfirmed
<1>1. CASE Elsewhere
  BY <1>1 DEF Elsewhere, BroadcastThenFail, Abort, Age, IsConfirmed,
        IsConfirmedFails, Mine, Drop, WatchConfirmations, WatcherFails, Deposit,
        ConfirmDeposit, dbVars
<1>2. ASSUME NEW p \in Procs, HandlerStep(p) PROVE CommitSend(p) \/ CommitNotify(p)
  BY <1>2 DEF HandlerStep, ReadAccountBalance, ReadAddressBalance, Validate,
        Recheck, Broadcast, NodeRefuses, ClaimAwaiting, SelectAwaiting, dbVars
<1>3. ASSUME NEW p \in Procs, Request(p) PROVE FALSE
  BY <1>3 DEF Request, SendToPhone, SentToAddress, StartSend, CreateWallet, dbVars
<1>4. CASE UNCHANGED vars
  BY <1>4 DEF vars, dbVars
<1> QED
  BY <1>1, <1>2, <1>3, <1>4, NextSplits

(* What a step does to one row. *)
Inserted(p, t) ==
    /\ CommitSend(p) /\ pc[p] = "commit"
    /\ t = send[p].tx /\ txs[t] = NoRow /\ txs'[t] = send[p].row
    /\ send[p].row.status \in {"pending", "waiting", "success", "decline"}

Wakes(p, t) ==
    /\ CommitNotify(p) /\ pc[p] = "selected" /\ t \in notify[p].selected
    /\ txs[t].status = "pending" /\ txs'[t] = Woken(t, notify[p])

Cancelled(t) == txs[t].status = "pending" /\ txs'[t] = [txs[t] EXCEPT !.status = "cancel"]

Follows(t) ==
    /\ txs[t].status = "waiting" /\ txs[t].type = "external"
    /\ \E s \in {"success", "decline"} : txs'[t] = [txs[t] EXCEPT !.status = s]

LEMMA RowStep ==
    ASSUME IInv, [Next]_vars, NEW t \in TxIds
    PROVE  \/ txs'[t] = txs[t]
           \/ \E p \in Procs : Inserted(p, t) \/ Wakes(p, t)
           \/ Cancelled(t) \/ Follows(t)
<1>1. ASSUME NEW p \in Procs, CommitSend(p)
      PROVE  txs'[t] = txs[t] \/ Inserted(p, t)
  <2>1. /\ pc[p] = "commit" /\ txs[send[p].tx] = NoRow
        /\ send[p].row.status \in {"pending", "waiting", "success", "decline"}
    BY <1>1 DEF IInv, Sending, SendSteps, CommitSend
  <2> QED
    BY <1>1, <2>1 DEF IInv, TypeOK, CommitSend, Inserted
<1>2. ASSUME NEW p \in Procs, CommitNotify(p)
      PROVE  txs'[t] = txs[t] \/ Wakes(p, t)
  <2>1. CASE t \in notify[p].selected
    <3>1. pc[p] = "selected" /\ txs[t].status = "pending"
      BY <1>2, <2>1 DEF IInv, Notifying, CommitNotify
    <3>2. txs'[t] = Woken(t, notify[p])
      BY <1>2, <2>1 DEF CommitNotify
    <3> QED
      BY <1>2, <2>1, <3>1, <3>2 DEF Wakes
  <2>2. CASE t \notin notify[p].selected
    BY <1>2, <2>2 DEF CommitNotify
  <2> QED
    BY <2>1, <2>2
<1>3. ASSUME OnCheckOutdated PROVE txs'[t] = txs[t] \/ Cancelled(t)
  BY <1>3 DEF OnCheckOutdated, Outdated, Cancelled
<1>4. ASSUME UpdateConfirmed PROVE txs'[t] = txs[t] \/ Follows(t)
  <2>1. txs'[t] = Settled(t)
    BY <1>4 DEF UpdateConfirmed
  <2> QED
    BY <2>1 DEF IInv, AnswersHold, Settled, Follows
<1>5. CASE txs' = txs
  BY <1>5
<1> QED
  BY <1>1, <1>2, <1>3, <1>4, <1>5, RowWriters

(* Lemma: a step moves every row along an edge of TxLifecycle, or not at all. *)
LEMMA StepFollowsEdges ==
    ASSUME IInv, [Next]_vars, NEW t \in TxIds
    PROVE  \/ txs'[t].status = txs[t].status
           \/ <<txs[t].status, txs'[t].status>> \in Lifecycle!Edges
<1> USE DEF Lifecycle!Edges
<1>0. txs[t] \in Rows
  BY DEF IInv, TypeOK
<1>1. ASSUME NEW p \in Procs, Inserted(p, t)
      PROVE  <<txs[t].status, txs'[t].status>> \in Lifecycle!Edges
  BY <1>1 DEF Inserted, NoRow
<1>2. ASSUME NEW p \in Procs, Wakes(p, t)
      PROVE  <<txs[t].status, txs'[t].status>> \in Lifecycle!Edges
  <2>1. notify[p].wallet \in Phones \cup {Nobody}
    BY DEF IInv, TypeOK, NotifyRecords
  <2>2. txs'[t].status = "success"
    BY <1>0, <1>2, <2>1, WokenFacts DEF Wakes
  <2> QED
    BY <1>2, <2>2 DEF Wakes
<1>3. ASSUME Cancelled(t) PROVE <<txs[t].status, txs'[t].status>> \in Lifecycle!Edges
  <2>1. txs'[t].status = "cancel"
    BY <1>0, <1>3 DEF Cancelled, Rows
  <2> QED
    BY <1>3, <2>1 DEF Cancelled
<1>4. ASSUME Follows(t) PROVE <<txs[t].status, txs'[t].status>> \in Lifecycle!Edges
  <2>1. txs'[t].status \in {"success", "decline"}
    BY <1>0, <1>4 DEF Follows, Rows
  <2> QED
    BY <1>4, <2>1 DEF Follows
<1> QED
  BY <1>1, <1>2, <1>3, <1>4, RowStep

(* The system implements TxLifecycle: no committed status is left or reached *)
(* but along its edges, although the last writes of StepTx and of the        *)
(* watcher do not look at the status they replace.                           *)
THEOREM LifecycleImplemented == Spec => StatusesFollowLifecycle
<1>1. Init => Lifecycle!Init
  BY DEF Init, NoRow, Lifecycle!Init
<1>2. IInv /\ IInv' /\ [Next]_vars
        => [Lifecycle!Next]_([t \in TxIds |-> txs[t].status])
  <2> SUFFICES ASSUME IInv, IInv', [Next]_vars PROVE Lifecycle!Next
    OBVIOUS
  <2>1. [t \in TxIds |-> txs[t].status]' \in [TxIds -> Lifecycle!Statuses]
    BY DEF IInv, RowsWellFormed, CommittedStatuses, Lifecycle!Statuses
  <2>2. \A t \in TxIds : \/ txs'[t].status = txs[t].status
                         \/ <<txs[t].status, txs'[t].status>> \in Lifecycle!Edges
    BY StepFollowsEdges
  <2> QED
    BY <2>1, <2>2 DEF Lifecycle!Next
<1> QED
  BY <1>1, <1>2, InvHolds, PTL DEF Spec, StatusesFollowLifecycle, Lifecycle!Spec

================================================================================
