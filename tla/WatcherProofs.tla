----------------------------- MODULE WatcherProofs -----------------------------
(***************************************************************************)
(* Proofs about Watcher, for both coins, any hashes, wallets, length of    *)
(* the node's list and number of failures.                                 *)
(*                                                                         *)
(* The inductive invariant says, hash by hash, that what the loop has in   *)
(* hand stays true until it is written: an answer is about a row that      *)
(* still waits, since only the loop moves waiting rows, and confirmed,     *)
(* failed or abandoned transactions stay so; and that of a request and a   *)
(* round that record one hash at most one has inserted it.                 *)
(***************************************************************************)
EXTENDS Watcher, TLAPS

(* A row, or the entry of a list that becomes one, agrees with the chain. *)
Agrees(status, h) ==
    /\ status = "success" => chain[h] = "deep"
    /\ status = "decline" => chain[h] = "gone" \/ h \in reverted

RowInv(h) ==
    /\ rows[h].status = "absent" => rows[h] = NoRow
    /\ Agrees(rows[h].status, h)

HashInv(h) ==
    /\ sender[h] = "inserted" => rows[h] = NoRow /\ h \notin created
    /\ h \in created => rows[h] = NoRow

VerdictInv(h) ==
    /\ verdict[h] # "none" => Waiting(h)
    /\ verdict[h] = "confirmed" => chain[h] = "deep"
    /\ verdict[h] = "abandoned" => chain[h] = "gone"

ListingInv(h) ==
    /\ listing[h].status = "absent" => listing[h] = NoEntry
    /\ Agrees(listing[h].status, h)
    /\ h \in new => listing[h].status # "absent" /\ pc = "inserting"

IInv ==
    /\ TypeOK
    /\ \A h \in Hashes : RowInv(h) /\ HashInv(h) /\ VerdictInv(h)
                           /\ ListingInv(h)

-----------------------------------------------------------------------------
(* Type correctness *)

LEMMA NothingsTyped ==
    NoRow \in Rows /\ NoEntry \in Entries
        /\ NothingAsked \in [Hashes -> {"none"}]
        /\ NothingListed \in [Hashes -> Entries]
BY DEF NoRow, Rows, NoEntry, Entries, RowStatuses, NothingAsked, NothingListed

(* Lemma: settling keeps the parties of a row. *)
LEMMA SettledFacts ==
    ASSUME NEW h \in Hashes, rows[h] \in Rows
    PROVE  /\ Settled(h) \in Rows
           /\ Settled(h).side = rows[h].side /\ Settled(h).wallet = rows[h].wallet
           /\ Settled(h).status = CASE verdict[h] = "confirmed" -> "success"
                                    [] verdict[h] = "abandoned" -> "decline"
                                    [] OTHER -> rows[h].status
<1>1. CASE verdict[h] = "confirmed"
  BY <1>1 DEF Settled, Rows, RowStatuses
<1>2. CASE verdict[h] = "abandoned"
  BY <1>2 DEF Settled, Rows, RowStatuses
<1>3. CASE verdict[h] \notin {"confirmed", "abandoned"}
  BY <1>3 DEF Settled
<1> QED
  BY <1>1, <1>2, <1>3

LEMMA TypeInit == Init => TypeOK
BY NothingsTyped DEF Init, TypeOK, NothingAsked

(* Lemma: the requests and the blockchain keep the types. *)
LEMMA TypeEnvironment ==
    ASSUME TypeOK, NEW h \in Hashes,
           \/ \E outputs \in Outputs : Receive(h, outputs)
           \/ \E recipient \in Wallets \cup {Nobody} : Send(h, recipient)
           \/ Blockchain(h) \/ CreateOwn(h) \/ CommitOwn(h) \/ SenderFails(h)
    PROVE  TypeOK'
<1> USE DEF TypeOK, chainVars, roundVars
<1>1. ASSUME NEW outputs \in Outputs, Receive(h, outputs) PROVE TypeOK'
  <2> DEFINE more == [i \in DOMAIN outputs |-> <<h, outputs[i]>>]
  <2>1. more \in Seq(Outs)
    <3>1. CASE \E w \in Payees : outputs = <<w>>
      <4>1. /\ DOMAIN more = 1 .. 1
            /\ \A i \in 1 .. 1 : more[i] \in Outs
        BY <3>1 DEF Outs, Payees
      <4> QED
        BY <4>1
    <3>2. CASE \E v, w \in Payees : outputs = <<v, w>>
      <4>1. /\ DOMAIN more = 1 .. 2
            /\ \A i \in 1 .. 2 : more[i] \in Outs
        BY <3>2 DEF Outs, Payees
      <4> QED
        BY <4>1
    <3> QED
      BY <3>1, <3>2 DEF Outputs
  <2>2. log' = log \o more
    BY <1>1 DEF Receive
  <2> HIDE DEF more
  <2>3. log' \in Seq(Outs)
    BY <2>1, <2>2
  <2> QED
    BY <1>1, <2>3 DEF Receive
<1>2. ASSUME NEW recipient \in Wallets \cup {Nobody}, Send(h, recipient) PROVE TypeOK'
  <2>1. log' \in Seq(Outs)
    BY <1>2 DEF Send, Outs
  <2> QED
    BY <1>2, <2>1 DEF Send
<1>3. CASE Blockchain(h)
  BY <1>3 DEF Blockchain, Mine, Deepen, Vanish
<1>4. CASE CreateOwn(h) \/ SenderFails(h)
  BY <1>4 DEF CreateOwn, SenderFails
<1>5. CASE CommitOwn(h)
  <2>1. \A w \in Wallets \cup {Nobody} :
           [side |-> "own", wallet |-> w, status |-> "waiting"] \in Rows
    BY DEF Rows, RowStatuses
  <2>2. rows' \in [Hashes -> Rows]
    BY <1>5, <2>1 DEF CommitOwn
  <2> QED
    BY <1>5, <2>2 DEF CommitOwn
<1> QED
  BY <1>1, <1>2, <1>3, <1>4, <1>5

(* Lemma: so do the loop and its rounds. *)
LEMMA TypeLoop ==
    ASSUME TypeOK,
           \/ Poll \/ RoundFails \/ Round
           \/ \E h \in Hashes : IsConfirmedFails(h)
    PROVE  TypeOK'
<1> USE DEF TypeOK, chainVars, roundVars
<1>1. CASE Poll \/ RoundFails \/ AllQueriesFailed
  BY <1>1, NothingsTyped DEF Poll, Remembered, RoundFails, AllQueriesFailed
<1>2. CASE WatchConfirmations
  BY <1>2 DEF WatchConfirmations
<1>3. CASE UpdateConfirmed
  <2>1. rows' \in [Hashes -> Rows]
    BY <1>3, SettledFacts DEF UpdateConfirmed
  <2> QED
    BY <1>3, <2>1, NothingsTyped DEF UpdateConfirmed
<1>4. CASE GetIncoming
  <2>1. PICK last \in [{h \in Hashes : IsListed(h)} -> DOMAIN log],
             replaced \in SUBSET {h \in Hashes : chain[h] = "gone"} :
           listing' = [h \in Hashes |->
              IF IsListed(h)
              THEN [wallet |-> log[last[h]][2], status |-> EntryStatus(h, replaced)]
              ELSE NoEntry]
    BY <1>4 DEF GetIncoming
  <2>2. \A i \in DOMAIN log : log[i][2] \in Wallets \cup {Nobody}
    BY DEF Outs
  <2>3. \A h \in Hashes : EntryStatus(h, replaced) \in RowStatuses
    BY DEF EntryStatus, RowStatuses
  <2>4. \A h \in Hashes : listing'[h] \in Entries
    BY <2>1, <2>2, <2>3, NothingsTyped DEF Entries
  <2>5. listing' \in [Hashes -> Entries]
    BY <2>1, <2>4
  <2> QED
    BY <1>4, <2>5 DEF GetIncoming
<1>5. CASE SelectNew
  BY <1>5, NothingsTyped DEF SelectNew
<1>6. CASE CommitIncoming
  <2>1. \A h \in Hashes :
           [side |-> "incoming", wallet |-> listing[h].wallet, status |-> listing[h].status]
              \in Rows
    BY DEF Rows, Entries
  <2>2. rows' \in [Hashes -> Rows]
    BY <1>6, <2>1 DEF CommitIncoming
  <2> QED
    BY <1>6, <2>2, NothingsTyped DEF CommitIncoming
<1>7. ASSUME NEW h \in Hashes,
             \/ IsConfirmed(h) \/ IsConfirmedFails(h)
             \/ CreateIncoming(h) \/ CreateIncomingRejected(h)
      PROVE  TypeOK'
  BY <1>7, NothingsTyped DEF IsConfirmed, Observed, IsConfirmedFails, CreateIncoming,
     CreateIncomingRejected
<1> QED
  BY <1>1, <1>2, <1>3, <1>4, <1>5, <1>6, <1>7 DEF Round

LEMMA TypeStep == ASSUME TypeOK, [Next]_vars PROVE TypeOK'
<1>1. CASE UNCHANGED vars
  BY <1>1 DEF TypeOK, vars, chainVars, roundVars
<1> QED
  BY <1>1, TypeEnvironment, TypeLoop DEF Next

(* Every variable keeps its type: in particular whatever the node lists, an  *)
(* entry and the row made of it have a status external transactions may have *)
(* (the case of notifiers.go:269-273 is exhaustive).                         *)
THEOREM TypeCorrect == Spec => []TypeOK
BY TypeInit, TypeStep, PTL DEF Spec

-----------------------------------------------------------------------------
(* The inductive invariant *)

LEMMA InvInit == Init => IInv
BY TypeInit DEF Init, IInv, RowInv, HashInv, VerdictInv, ListingInv, Agrees,
   NothingAsked, NothingListed, NoRow, NoEntry

(* Lemma: a decided transaction stays decided. *)
LEMMA ChainStep ==
    ASSUME IInv, NEW h \in Hashes, NEW g \in Hashes,
           \/ \E outputs \in Outputs : Receive(g, outputs)
           \/ \E recipient \in Wallets \cup {Nobody} : Send(g, recipient)
           \/ Blockchain(g)
    PROVE  /\ chain[h] \in {"deep", "gone"} => chain'[h] = chain[h]
           /\ h \in reverted => h \in reverted'
           /\ sender[h] # sender'[h] => sender'[h] = "sent"
           /\ UNCHANGED <<rows, pc, verdict, listing, new, created>>
BY DEF IInv, TypeOK, Receive, Send, Blockchain, Mine, Deepen, Vanish, roundVars

LEMMA InvChain ==
    ASSUME IInv, TypeOK', NEW g \in Hashes,
           \/ \E outputs \in Outputs : Receive(g, outputs)
           \/ \E recipient \in Wallets \cup {Nobody} : Send(g, recipient)
           \/ Blockchain(g)
    PROVE  IInv'
<1> SUFFICES ASSUME NEW h \in Hashes
             PROVE  (RowInv(h) /\ HashInv(h) /\ VerdictInv(h) /\ ListingInv(h))'
  BY DEF IInv
<1>1. /\ chain[h] \in {"deep", "gone"} => chain'[h] = chain[h]
      /\ h \in reverted => h \in reverted'
      /\ sender[h] # sender'[h] => sender'[h] = "sent"
      /\ UNCHANGED <<rows, pc, verdict, listing, new, created>>
  BY ChainStep
<1> QED
  BY <1>1 DEF IInv, RowInv, HashInv, VerdictInv, ListingInv, Agrees, Waiting

(* Lemma: of a request and a round that record one hash, one waits. *)
LEMMA InvRequest ==
    ASSUME IInv, TypeOK', NEW g \in Hashes,
           CreateOwn(g) \/ CommitOwn(g) \/ SenderFails(g)
    PROVE  IInv'
<1> SUFFICES ASSUME NEW h \in Hashes
             PROVE  (RowInv(h) /\ HashInv(h) /\ VerdictInv(h) /\ ListingInv(h))'
  BY DEF IInv
<1> USE DEF chainVars, roundVars, IInv, TypeOK
<1>1. CASE CreateOwn(g)
  BY <1>1 DEF CreateOwn, Committed, RowInv, HashInv, VerdictInv, ListingInv, Agrees, Waiting
<1>2. CASE CommitOwn(g)
  <2>1. rows[g] = NoRow /\ g \notin created
    BY <1>2 DEF CommitOwn, HashInv
  <2>2. PICK w \in Wallets \cup {Nobody} :
           rows' = [rows EXCEPT ![g] = [side |-> "own", wallet |-> w, status |-> "waiting"]]
    BY <1>2 DEF CommitOwn
  <2>3. verdict[g] = "none"
    BY <2>1 DEF VerdictInv, Waiting, NoRow
  <2>4. CASE h = g
    BY <1>2, <2>1, <2>2, <2>3, <2>4
       DEF CommitOwn, RowInv, HashInv, VerdictInv, ListingInv, Agrees, Waiting
  <2>5. CASE h # g
    <3>1. rows'[h] = rows[h] /\ sender'[h] = sender[h]
      BY <1>2, <2>2, <2>5 DEF CommitOwn
    <3> QED
      BY <1>2, <3>1 DEF CommitOwn, RowInv, HashInv, VerdictInv, ListingInv, Agrees, Waiting
  <2> QED
    BY <2>4, <2>5
<1>3. CASE SenderFails(g)
  BY <1>3 DEF SenderFails, RowInv, HashInv, VerdictInv, ListingInv, Agrees, Waiting
<1> QED
  BY <1>1, <1>2, <1>3

(* Lemma: an answer is about a row that waits, and is true from then on. *)
LEMMA InvConfirmations ==
    ASSUME IInv, TypeOK',
           \/ Poll \/ RoundFails
           \/ WatchConfirmations \/ AllQueriesFailed \/ UpdateConfirmed
           \/ \E g \in Hashes : IsConfirmed(g) \/ IsConfirmedFails(g)
    PROVE  IInv'
<1> SUFFICES ASSUME NEW h \in Hashes
             PROVE  (RowInv(h) /\ HashInv(h) /\ VerdictInv(h) /\ ListingInv(h))'
  BY DEF IInv
<1> USE DEF chainVars, roundVars, IInv, TypeOK
<1>1. CASE Poll
  BY <1>1 DEF Poll, RowInv, HashInv, VerdictInv, ListingInv, Agrees, Waiting
<1>2. CASE RoundFails
  BY <1>2 DEF RoundFails, NothingAsked, NothingListed, NoEntry, RowInv, HashInv,
     VerdictInv, ListingInv, Agrees, Waiting
<1>3. CASE WatchConfirmations \/ AllQueriesFailed
  BY <1>3 DEF WatchConfirmations, AllQueriesFailed, NothingAsked, RowInv, HashInv,
     VerdictInv, ListingInv, Agrees, Waiting
<1>4. ASSUME NEW g \in Hashes, IsConfirmed(g) \/ IsConfirmedFails(g)
      PROVE  (RowInv(h) /\ HashInv(h) /\ VerdictInv(h) /\ ListingInv(h))'
  <2>1. /\ Observed(g) = "confirmed" => chain[g] = "deep"
        /\ Observed(g) = "abandoned" => chain[g] = "gone"
    BY DEF Observed
  <2> QED
    BY <1>4, <2>1 DEF IsConfirmed, IsConfirmedFails, RowInv, HashInv, VerdictInv,
       ListingInv, Agrees, Waiting
<1>5. CASE UpdateConfirmed
  <2>1. rows'[h] = Settled(h) /\ rows[h] \in Rows /\ verdict'[h] = "none"
    BY <1>5 DEF UpdateConfirmed, NothingAsked
  <2>2. CASE verdict[h] \in {"confirmed", "abandoned"}
    <3>1. rows[h] # NoRow
      BY <2>2 DEF VerdictInv, Waiting, NoRow
    <3> QED
      BY <1>5, <2>1, <2>2, <3>1, SettledFacts
         DEF UpdateConfirmed, RowInv, HashInv, VerdictInv, ListingInv, Agrees
  <2>3. CASE verdict[h] \notin {"confirmed", "abandoned"}
    <3>1. rows'[h] = rows[h]
      BY <2>1, <2>3 DEF Settled
    <3> QED
      BY <1>5, <2>1, <3>1 DEF UpdateConfirmed, RowInv, HashInv, VerdictInv, ListingInv, Agrees
  <2> QED
    BY <2>2, <2>3
<1> QED
  BY <1>1, <1>2, <1>3, <1>4, <1>5

(* Lemma: what is listed stays true, and only unknown hashes are inserted. *)
LEMMA InvIncoming ==
    ASSUME IInv, TypeOK',
           \/ GetIncoming \/ SelectNew \/ CommitIncoming
           \/ \E g \in Hashes : CreateIncoming(g) \/ CreateIncomingRejected(g)
    PROVE  IInv'
<1> SUFFICES ASSUME NEW h \in Hashes
             PROVE  (RowInv(h) /\ HashInv(h) /\ VerdictInv(h) /\ ListingInv(h))'
  BY DEF IInv
<1> USE DEF chainVars, roundVars, IInv, TypeOK
<1>1. CASE GetIncoming
  <2>1. PICK replaced \in SUBSET {g \in Hashes : chain[g] = "gone"} :
           listing'[h] = NoEntry \/ listing'[h].status = EntryStatus(h, replaced)
    BY <1>1 DEF GetIncoming
  <2>2. /\ EntryStatus(h, replaced) # "absent"
        /\ EntryStatus(h, replaced) = "success" => chain[h] = "deep"
        /\ EntryStatus(h, replaced) = "decline" => chain[h] = "gone" \/ h \in reverted
    BY DEF EntryStatus
  <2> QED
    BY <1>1, <2>1, <2>2 DEF GetIncoming, NoEntry, RowInv, HashInv, VerdictInv, ListingInv,
       Agrees, Waiting
<1>2. CASE SelectNew
  BY <1>2 DEF SelectNew, NothingListed, NoEntry, RowInv, HashInv, VerdictInv, ListingInv,
     Agrees, Waiting
<1>3. CASE CommitIncoming
  <2>1. CASE h \in new
    <3>1. /\ rows[h] = NoRow /\ sender[h] # "inserted"
          /\ listing[h].status # "absent"
      BY <1>3, <2>1 DEF CommitIncoming, HashInv, ListingInv
    <3>2. rows'[h] = [side |-> "incoming", wallet |-> listing[h].wallet,
                      status |-> listing[h].status]
      BY <1>3, <2>1 DEF CommitIncoming
    <3>3. verdict[h] = "none"
      BY <3>1 DEF VerdictInv, Waiting, NoRow
    <3> QED
      BY <1>3, <3>1, <3>2, <3>3 DEF CommitIncoming, NothingListed, NoEntry, RowInv, HashInv,
         VerdictInv, ListingInv, Agrees
  <2>2. CASE h \notin new
    <3>1. rows'[h] = rows[h]
      BY <1>3, <2>2 DEF CommitIncoming
    <3> QED
      BY <1>3, <3>1 DEF CommitIncoming, NothingListed, NoEntry, RowInv, HashInv, VerdictInv,
         ListingInv, Agrees, Waiting
  <2> QED
    BY <2>1, <2>2
<1>4. ASSUME NEW g \in Hashes, CreateIncoming(g) \/ CreateIncomingRejected(g)
      PROVE  (RowInv(h) /\ HashInv(h) /\ VerdictInv(h) /\ ListingInv(h))'
  BY <1>4 DEF CreateIncoming, CreateIncomingRejected, Taken, Committed, NothingListed,
     NoEntry, RowInv, HashInv, VerdictInv, ListingInv, Agrees, Waiting
<1> QED
  BY <1>1, <1>2, <1>3, <1>4

LEMMA InvStep == ASSUME IInv, [Next]_vars PROVE IInv'
<1>1. TypeOK'
  BY TypeStep DEF IInv
<1>2. CASE UNCHANGED vars
  BY <1>1, <1>2 DEF vars, chainVars, roundVars, IInv, RowInv, HashInv, VerdictInv,
     ListingInv, Agrees, Waiting
<1> QED
  BY <1>1, <1>2, InvChain, InvRequest, InvConfirmations, InvIncoming DEF Next, Round

LEMMA InvHolds == Spec => []IInv
BY InvInit, InvStep, PTL DEF Spec

-----------------------------------------------------------------------------
(* The properties *)

(* A row that says success was confirmed, one that says decline will never   *)
(* move coins, for any number of failed rounds and failed queries.           *)
THEOREM RowsAgree == Spec => []RowsAgreeWithChain
<1>1. IInv => RowsAgreeWithChain
  BY DEF IInv, RowInv, Agrees, RowsAgreeWithChain
<1> QED
  BY <1>1, InvHolds, PTL

(* Lemma: what a step does to a row: it is recorded, or settled once. *)
LEMMA RowStep ==
    ASSUME IInv, [Next]_vars, NEW h \in Hashes
    PROVE  \/ rows'[h] = rows[h]
           \/ rows[h] = NoRow /\ rows'[h].status \in {"waiting", "success", "decline"}
           \/ /\ rows[h].status = "waiting" /\ rows'[h].status \in {"success", "decline"}
              /\ rows'[h].side = rows[h].side /\ rows'[h].wallet = rows[h].wallet
<1> USE DEF IInv, TypeOK
<1>1. ASSUME NEW g \in Hashes, CommitOwn(g)
      PROVE  rows'[h] = rows[h] \/ (rows[h] = NoRow /\ rows'[h].status = "waiting")
  <2>1. rows[g] = NoRow
    BY <1>1 DEF CommitOwn, HashInv
  <2> QED
    BY <1>1, <2>1 DEF CommitOwn
<1>2. ASSUME UpdateConfirmed
      PROVE  \/ rows'[h] = rows[h]
             \/ /\ rows[h].status = "waiting" /\ rows'[h].status \in {"success", "decline"}
                /\ rows'[h].side = rows[h].side /\ rows'[h].wallet = rows[h].wallet
  <2>1. rows'[h] = Settled(h) /\ rows[h] \in Rows
    BY <1>2 DEF UpdateConfirmed
  <2>2. CASE verdict[h] \in {"confirmed", "abandoned"}
    BY <2>1, <2>2, SettledFacts DEF VerdictInv, Waiting
  <2>3. CASE verdict[h] \notin {"confirmed", "abandoned"}
    BY <2>1, <2>3 DEF Settled
  <2> QED
    BY <2>2, <2>3
<1>3. ASSUME CommitIncoming
      PROVE  \/ rows'[h] = rows[h]
             \/ rows[h] = NoRow /\ rows'[h].status \in {"waiting", "success", "decline"}
  <2>1. CASE h \in new
    <3>1. rows[h] = NoRow /\ listing[h].status # "absent"
      BY <1>3, <2>1 DEF CommitIncoming, HashInv, ListingInv
    <3>2. listing[h].status \in RowStatuses
      BY DEF Entries
    <3>3. rows'[h].status = listing[h].status
      BY <1>3, <2>1 DEF CommitIncoming
    <3> QED
      BY <3>1, <3>2, <3>3 DEF RowStatuses
  <2>2. CASE h \notin new
    BY <1>3, <2>2 DEF CommitIncoming
  <2> QED
    BY <2>1, <2>2
<1>4. ASSUME rows' # rows
      PROVE  UpdateConfirmed \/ CommitIncoming \/ \E g \in Hashes : CommitOwn(g)
  BY <1>4 DEF Next, vars, chainVars, roundVars, Round, Receive, Send, Blockchain, Mine,
     Deepen, Vanish, CreateOwn, SenderFails, IsConfirmedFails, Poll, RoundFails,
     WatchConfirmations, AllQueriesFailed, GetIncoming, SelectNew, IsConfirmed,
     CreateIncoming, CreateIncomingRejected
<1> QED
  BY <1>1, <1>2, <1>3, <1>4

(* Whoever commits a hash first, request or round, the row keeps its side    *)
(* and its wallet: the other is rolled back.                                 *)
THEOREM OnceRecorded == Spec => RecordedOnce
<1>1. IInv /\ [Next]_vars
        => [\A h \in Hashes : Committed(h) => /\ rows'[h].side = rows[h].side
                                              /\ rows'[h].wallet = rows[h].wallet]_vars
  BY RowStep DEF Committed
<1> QED
  BY <1>1, InvHolds, PTL DEF Spec, RecordedOnce

(* The watcher and the requests implement TxLifecycle: what a listing and    *)
(* the answers about it say at different moments never moves a row twice.    *)
THEOREM LifecycleImplemented == Spec => StatusesFollowLifecycle
<1>1. Init => Lifecycle!Init
  BY DEF Init, NoRow, Lifecycle!Init
<1>2. IInv /\ IInv' /\ [Next]_vars
        => [Lifecycle!Next]_([h \in Hashes |-> rows[h].status])
  <2> SUFFICES ASSUME IInv, IInv', [Next]_vars PROVE Lifecycle!Next
    OBVIOUS
  <2>1. \A h \in Hashes : rows'[h].status \in RowStatuses
    BY DEF IInv, TypeOK, Rows
  <2>2. [h \in Hashes |-> rows[h].status]' \in [Hashes -> Lifecycle!Statuses]
    BY <2>1 DEF RowStatuses, Lifecycle!Statuses
  <2>3. \A h \in Hashes : \/ rows'[h].status = rows[h].status
                          \/ <<rows[h].status, rows'[h].status>> \in Lifecycle!Edges
    BY RowStep DEF NoRow, Lifecycle!Edges
  <2> QED
    BY <2>2, <2>3 DEF Lifecycle!Next
<1> QED
  BY <1>1, <1>2, InvHolds, PTL DEF Spec, StatusesFollowLifecycle, Lifecycle!Spec
================================================================================
