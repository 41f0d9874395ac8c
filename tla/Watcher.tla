--------------------------------- MODULE Watcher ---------------------------------
(***************************************************************************)
(* The watcher of one coin: the loop that polls for blocks, the            *)
(* confirmations of waiting transactions, and the recording of incoming    *)
(* ones, beside requests that send from wallets of the service.            *)
(*                                                                         *)
(* A row of txs with its row of txs_external is named by the hash, which   *)
(* is unique in the table.  An insert of a hash that another open          *)
(* transaction has inserted waits for that transaction; one of a committed *)
(* hash fails, and rolls back all its transaction has done.                *)
(***************************************************************************)
EXTENDS Integers, Sequences, FiniteSets

CONSTANTS
    Coins,       \* coins whose watcher is looked at
    Hashes,      \* blockchain transactions
    Wallets,     \* wallets of the service, named by their addresses
    Nobody,      \* the null of the recipient's wallet
    Window,      \* listtransactions answers this many entries (10)
    MaxFailures  \* bound: crashes and failed calls

ASSUME CoinsAssumption == Coins \subseteq {"BTC", "ETH"}
ASSUME PartiesAssumption == Nobody \notin Wallets
ASSUME BoundsAssumption == Window \in Nat /\ MaxFailures \in Nat

VARIABLES
    coin,       \* the argument of the watcher
    chain,      \* what became of each blockchain transaction
    own,        \* those that wallets of the service have sent
    reverted,   \* those that were mined and have failed
    log,        \* outputs in the order the node learned of them
    rows,       \* committed rows of txs with their txs_external
    sender,     \* where the request is that sends a transaction
    pc,         \* where the watcher is
    lastBlock,  \* the block the loop remembers
    verdict,    \* answers about waiting transactions
    listing,    \* incoming transactions by their hash
    new,        \* hashes that are not in the database yet
    created,    \* hashes inserted by the watcher's open transaction
    failures    \* failures so far

chainVars == <<coin, chain, own, reverted, log>>
roundVars == <<verdict, listing, new, created>>
vars == <<chainVars, rows, sender, pc, lastBlock, roundVars, failures>>

NoRow == [side |-> "none", wallet |-> Nobody, status |-> "absent"]
NoEntry == [wallet |-> Nobody, status |-> "absent"]
NothingAsked == [h \in Hashes |-> "none"]
NothingListed == [h \in Hashes |-> NoEntry]

RowStatuses == {"absent", "waiting", "success", "decline"}

Rows == [side : {"none", "own", "incoming"}, wallet : Wallets \cup {Nobody},
         status : RowStatuses]
Entries == [wallet : Wallets \cup {Nobody}, status : RowStatuses]
Outs == Hashes \X (Wallets \cup {Nobody})

TypeOK ==
    /\ coin \in Coins
    /\ chain \in [Hashes -> {"none", "pool", "mined", "deep", "gone"}]
    /\ own \subseteq Hashes /\ reverted \subseteq Hashes
    /\ log \in Seq(Outs)
    /\ rows \in [Hashes -> Rows]
    /\ sender \in [Hashes -> {"none", "sent", "inserted", "done", "failed"}]
    /\ pc \in {"sleeping", "called", "asking", "confirmed", "listed", "inserting"}
    /\ lastBlock \in Nat
    /\ verdict \in [Hashes -> {"none", "asked", "neither", "confirmed",
                               "abandoned", "error"}]
    /\ listing \in [Hashes -> Entries]
    /\ new \subseteq Hashes /\ created \subseteq Hashes
    /\ failures \in Nat

Init ==
    /\ coin \in Coins
    /\ chain = [h \in Hashes |-> "none"] /\ own = {} /\ reverted = {}
    /\ log = <<>>
    /\ rows = [h \in Hashes |-> NoRow]
    /\ sender = [h \in Hashes |-> "none"]
    /\ pc = "sleeping" /\ lastBlock = 0
    /\ verdict = NothingAsked /\ listing = NothingListed
    /\ new = {} /\ created = {}
    /\ failures = 0

Committed(h) == rows[h] # NoRow

-----------------------------------------------------------------------------
(* The blockchain *)

(* Each block mines a transaction or confirms one; there are blocks before. *)
BestBlock ==
    1 + Cardinality({h \in Hashes : chain[h] \in {"mined", "deep"}})
      + Cardinality({h \in Hashes : chain[h] = "deep"})

Payees == Wallets \cup {Nobody}
Outputs == {<<w>> : w \in Payees} \cup {o \in Payees \X Payees : coin = "BTC"}

(* Somebody else pays an address of the node or, in bitcoin, several, or   *)
(* one twice.  An address need not belong to a wallet of the service.      *)
Receive(h, outputs) ==
    /\ chain[h] = "none"
    /\ chain' = [chain EXCEPT ![h] = "pool"]
    /\ log' = log \o [i \in DOMAIN outputs |-> <<h, outputs[i]>>]
    /\ UNCHANGED <<coin, own, reverted, rows, sender, pc, lastBlock, roundVars, failures>>

(* An ethereum transaction may be mined and have failed. *)
Mine(h) ==
    /\ chain[h] = "pool"
    /\ chain' = [chain EXCEPT ![h] = "mined"]
    /\ \/ UNCHANGED reverted
       \/ coin = "ETH" /\ reverted' = reverted \cup {h}
    /\ UNCHANGED <<coin, own, log, rows, sender, pc, lastBlock, roundVars, failures>>

(* Enough blocks follow. *)
Deepen(h) ==
    /\ chain[h] = "mined"
    /\ chain' = [chain EXCEPT ![h] = "deep"]
    /\ UNCHANGED <<coin, own, reverted, log, rows, sender, pc, lastBlock, roundVars, failures>>

(* A bitcoin transaction is abandoned, or another one spends its inputs. *)
Vanish(h) ==
    /\ coin = "BTC" /\ chain[h] = "pool"
    /\ chain' = [chain EXCEPT ![h] = "gone"]
    /\ UNCHANGED <<coin, own, reverted, log, rows, sender, pc, lastBlock, roundVars, failures>>

-----------------------------------------------------------------------------
(* Requests: onSendExternalTx and the commit of Send *)

(* The node broadcasts.  Bitcoin transfers between wallets of the service  *)
(* are settled in the database, so no wallet receives this one.            *)
Send(h, recipient) ==
    /\ chain[h] = "none"
    /\ recipient \in IF coin = "ETH" THEN Wallets \cup {Nobody} ELSE {Nobody}
    /\ chain' = [chain EXCEPT ![h] = "pool"]
    /\ own' = own \cup {h}
    /\ log' = Append(log, <<h, recipient>>)
    /\ sender' = [sender EXCEPT ![h] = "sent"]
    /\ UNCHANGED <<coin, reverted, rows, pc, lastBlock, roundVars, failures>>

(* The insert into txs_external; a hash that is taken rolls the send back. *)
CreateOwn(h) ==
    /\ sender[h] = "sent"
    /\ h \notin created
    /\ sender' = [sender EXCEPT ![h] = IF Committed(h) THEN "failed" ELSE "inserted"]
    /\ UNCHANGED <<chainVars, rows, pc, lastBlock, roundVars, failures>>

CommitOwn(h) ==
    /\ sender[h] = "inserted"
    /\ \E w \in Wallets \cup {Nobody} :
          /\ \E i \in DOMAIN log : log[i] = <<h, w>>
          /\ rows' = [rows EXCEPT ![h] = [side |-> "own", wallet |-> w, status |-> "waiting"]]
    /\ sender' = [sender EXCEPT ![h] = "done"]
    /\ UNCHANGED <<chainVars, pc, lastBlock, roundVars, failures>>

SenderFails(h) ==
    /\ sender[h] \in {"sent", "inserted"}
    /\ failures < MaxFailures
    /\ sender' = [sender EXCEPT ![h] = "failed"]
    /\ failures' = failures + 1
    /\ UNCHANGED <<chainVars, rows, pc, lastBlock, roundVars>>

-----------------------------------------------------------------------------
(* The loop *)

\* Mutant of Remembered: the loop stores the block it has announced.
RememberedBlock(block) == block

(* The loops of both coins compare the best block with one they never set. *)
Remembered(block) == lastBlock

(* The subscriber is called for a new block.  A poll that fails changes    *)
(* nothing.                                                                *)
Poll ==
    /\ pc = "sleeping"
    /\ pc' = IF BestBlock # lastBlock THEN "called" ELSE "sleeping"
    /\ lastBlock' = Remembered(BestBlock)
    /\ UNCHANGED <<chainVars, rows, sender, roundVars, failures>>

(* An error of any part, or a restart of the watcher, ends the round.  The *)
(* ethereum node is taken to list its addresses (see FanIn otherwise).     *)
RoundFails ==
    /\ pc # "sleeping"
    /\ failures < MaxFailures
    /\ pc' = "sleeping"
    /\ verdict' = NothingAsked /\ listing' = NothingListed
    /\ new' = {} /\ created' = {}
    /\ failures' = failures + 1
    /\ UNCHANGED <<chainVars, rows, sender, lastBlock>>

-----------------------------------------------------------------------------
(* watchConfirmations *)

\* Mutant of Waiting: the status of the row is not looked at.
WaitingOrNot(h) == Committed(h)

Waiting(h) == rows[h].status = "waiting"

WatchConfirmations ==
    /\ pc = "called"
    /\ verdict' = [h \in Hashes |-> IF Waiting(h) THEN "asked" ELSE "none"]
    /\ pc' = "asking"
    /\ UNCHANGED <<chainVars, rows, sender, lastBlock, listing, new, created, failures>>

\* Mutant of Observed: one block is confirmation enough.
ObservedEarly(h) ==
    CASE chain[h] \in {"mined", "deep"} -> "confirmed"
      [] chain[h] = "gone" /\ h \in own -> "abandoned"
      [] OTHER -> "neither"

\* Mutant of Observed: an abandoned transaction is not reported.
ObservedConfirmations(h) ==
    IF chain[h] = "deep" THEN "confirmed" ELSE "neither"

(* bitcoind marks as abandoned only what its own wallet sends, and eth's   *)
(* answer does not say whether the mined transaction failed.               *)
Observed(h) ==
    CASE chain[h] = "deep" -> "confirmed"
      [] chain[h] = "gone" /\ h \in own -> "abandoned"
      [] OTHER -> "neither"

IsConfirmed(h) ==
    /\ pc = "asking" /\ verdict[h] = "asked"
    /\ verdict' = [verdict EXCEPT ![h] = Observed(h)]
    /\ UNCHANGED <<chainVars, rows, sender, pc, lastBlock, listing, new, created, failures>>

IsConfirmedFails(h) ==
    /\ pc = "asking" /\ verdict[h] = "asked"
    /\ failures < MaxFailures
    /\ verdict' = [verdict EXCEPT ![h] = "error"]
    /\ failures' = failures + 1
    /\ UNCHANGED <<chainVars, rows, sender, pc, lastBlock, listing, new, created>>

Asked == {h \in Hashes : verdict[h] # "none"}

(* When every query has failed, the round ends without incoming ones. *)
AllQueriesFailed ==
    /\ pc = "asking"
    /\ Asked # {} /\ \A h \in Asked : verdict[h] = "error"
    /\ verdict' = NothingAsked
    /\ pc' = "sleeping"
    /\ UNCHANGED <<chainVars, rows, sender, lastBlock, listing, new, created, failures>>

Settled(h) ==
    CASE verdict[h] = "confirmed" -> [rows[h] EXCEPT !.status = "success"]
      [] verdict[h] = "abandoned" -> [rows[h] EXCEPT !.status = "decline"]
      [] OTHER -> rows[h]

UpdateConfirmed ==
    /\ pc = "asking"
    /\ \A h \in Asked : verdict[h] # "asked"
    /\ Asked = {} \/ \E h \in Asked : verdict[h] # "error"
    /\ rows' = [h \in Hashes |-> Settled(h)]
    /\ verdict' = NothingAsked
    /\ pc' = "confirmed"
    /\ UNCHANGED <<chainVars, sender, lastBlock, listing, new, created, failures>>

-----------------------------------------------------------------------------
(* watchNewTxs *)

\* Mutant of EntryStatus: what is not confirmed waits for its recipient.
EntryStatusPending(h, replaced) ==
    CASE h \in replaced \cup reverted -> "decline"
      [] chain[h] = "deep" -> "success"
      [] OTHER -> "pending"

(* The status of a new row: abandoned comes before confirmed.  Of the      *)
(* bitcoin transactions that are gone those are replaced which bitcoind    *)
(* lists with -1 confirmations (btc/node.go:285): the conflicting one has  *)
(* been mined, and no block has followed it.                               *)
EntryStatus(h, replaced) ==
    CASE h \in replaced \cup reverted -> "decline"
      [] chain[h] = "deep" -> "success"
      [] OTHER -> "waiting"

(* What GetIncoming looks through: the last entries of bitcoind's wallet,  *)
(* of which it takes the received ones; the explorer's list of each        *)
(* address of the node, of mined transactions.                             *)
IsRecent(i) ==
    CASE coin = "BTC" -> i > Len(log) - Window
      [] coin = "ETH" -> chain[log[i][1]] \in {"mined", "deep"}

Listed(h) ==
    {i \in DOMAIN log : /\ IsRecent(i) /\ log[i][1] = h
                        /\ log[i][2] \in Wallets \/ h \notin own}
IsListed(h) == Listed(h) # {}
IsLastListed(i, h) == i \in Listed(h) /\ \A k \in Listed(h) : k <= i

(* A map by hash: of several outputs the last one is kept, also if it is   *)
(* at an address of no wallet.                                             *)
GetIncoming ==
    /\ pc = "confirmed"
    /\ \E last \in [{h \in Hashes : IsListed(h)} -> DOMAIN log],
          replaced \in SUBSET {h \in Hashes : chain[h] = "gone"} :
          /\ \A h \in DOMAIN last : IsLastListed(last[h], h)
          /\ listing' = [h \in Hashes |->
                IF IsListed(h)
                THEN [wallet |-> log[last[h]][2], status |-> EntryStatus(h, replaced)]
                ELSE NoEntry]
    /\ pc' = IF \E h \in Hashes : IsListed(h) THEN "listed" ELSE "sleeping"
    /\ UNCHANGED <<chainVars, rows, sender, lastBlock, verdict, new, created, failures>>

(* The listed hashes except those in txs_external, and the rows of txs of  *)
(* those that pay a wallet.                                                *)
SelectNew ==
    LET unknown == {h \in Hashes : listing[h] # NoEntry /\ ~Committed(h)}
    IN  /\ pc = "listed"
        /\ new' = {h \in unknown : listing[h].wallet \in Wallets}
        /\ pc' = IF unknown = {} THEN "sleeping" ELSE "inserting"
        /\ listing' = IF unknown = {} THEN NothingListed ELSE listing
        /\ UNCHANGED <<chainVars, rows, sender, lastBlock, verdict, created, failures>>

\* Mutant of Taken: txs_external has no unique constraint.
NeverTaken(h) == FALSE

(* The unique constraint on the hash. *)
Taken(h) == Committed(h)

(* The row of txs_external of one new transaction. *)
CreateIncoming(h) ==
    /\ pc = "inserting"
    /\ h \in new \ created
    /\ sender[h] # "inserted"
    /\ ~Taken(h)
    /\ created' = created \cup {h}
    /\ UNCHANGED <<chainVars, rows, sender, pc, lastBlock, verdict, listing, new, failures>>

(* The hash has been committed since SelectNew: everything is rolled back. *)
CreateIncomingRejected(h) ==
    /\ pc = "inserting"
    /\ h \in new \ created
    /\ Taken(h)
    /\ pc' = "sleeping"
    /\ listing' = NothingListed /\ new' = {} /\ created' = {}
    /\ UNCHANGED <<chainVars, rows, sender, lastBlock, verdict, failures>>

CommitIncoming ==
    /\ pc = "inserting"
    /\ created = new
    /\ rows' = [h \in Hashes |->
                   IF h \in new
                   THEN [side |-> "incoming", wallet |-> listing[h].wallet,
                         status |-> listing[h].status]
                   ELSE rows[h]]
    /\ pc' = "sleeping"
    /\ listing' = NothingListed /\ new' = {} /\ created' = {}
    /\ UNCHANGED <<chainVars, sender, lastBlock, verdict, failures>>

-----------------------------------------------------------------------------
Blockchain(h) == Mine(h) \/ Deepen(h) \/ Vanish(h)

Round ==
    \/ WatchConfirmations \/ AllQueriesFailed \/ UpdateConfirmed
    \/ GetIncoming \/ SelectNew \/ CommitIncoming
    \/ \E h \in Hashes :
          IsConfirmed(h) \/ CreateIncoming(h) \/ CreateIncomingRejected(h)

Next ==
    \/ \E h \in Hashes :
          \/ \E outputs \in Outputs : Receive(h, outputs)
          \/ \E recipient \in Wallets \cup {Nobody} : Send(h, recipient)
          \/ Blockchain(h)
          \/ CreateOwn(h) \/ CommitOwn(h) \/ SenderFails(h) \/ IsConfirmedFails(h)
    \/ Poll \/ RoundFails \/ Round

Spec == Init /\ [][Next]_vars

(* The loop polls for ever and its rounds end, as do requests. *)
Fairness ==
    /\ WF_vars(Poll) /\ WF_vars(Round)
    /\ \A h \in Hashes : WF_vars(CreateOwn(h) \/ CommitOwn(h))

FairSpec == Spec /\ Fairness

-----------------------------------------------------------------------------
(* Properties *)

Lifecycle == INSTANCE TxLifecycle
                WITH TxIds <- Hashes, status <- [h \in Hashes |-> rows[h].status]

(* External transactions, sent or received, follow the lifecycle: a row    *)
(* that the watcher has once decided on is never decided on again, though  *)
(* confirmations and listings are answers about different moments          *)
(* (notifiers.go:105, notifiers.go:202, notifiers.go:269).                 *)
StatusesFollowLifecycle == Lifecycle!Spec

(* A row that says success was confirmed, and one that says decline will   *)
(* never move coins; what a round has in hand is as true when it commits   *)
(* as when it was asked (notifiers.go:160, notifiers.go:269).              *)
RowsAgreeWithChain ==
    \A h \in Hashes :
        /\ rows[h].status = "success" => chain[h] = "deep"
        /\ rows[h].status = "decline" => chain[h] = "gone" \/ h \in reverted

(* A transaction is recorded once: whoever commits its hash first, the     *)
(* other one is rolled back and does not replace the parties of the row    *)
(* (notifiers.go:232-241 reads, notifiers.go:300 writes; the constraint of *)
(* db/migrations/13).                                                      *)
RecordedOnce ==
    [][\A h \in Hashes :
          Committed(h) => /\ rows'[h].side = rows[h].side
                          /\ rows'[h].wallet = rows[h].wallet]_vars

(* An incoming transaction the node lists, the last of its outputs at a    *)
(* wallet, is recorded, unless newer ones push it out of the list first    *)
(* (btc/node.go:270); failed rounds are made good by later ones, even when *)
(* no further block is found (notifiers.go:221, btc/loop.go:52).           *)
PaysWallet(h) == \E i \in Listed(h) : IsLastListed(i, h) /\ log[i][2] \in Wallets

IncomingRecorded ==
    \A h \in Hashes : PaysWallet(h) ~> Committed(h) \/ ~IsListed(h)

(* A waiting row follows the blockchain's decision, for received           *)
(* transactions as for sent ones (notifiers.go:86).                        *)
WaitingResolves ==
    \A h \in Hashes :
        Waiting(h) /\ (chain[h] = "deep" \/ (chain[h] = "gone" /\ h \in own))
          ~> ~Waiting(h)
==================================================================================
