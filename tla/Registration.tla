------------------------------- MODULE Registration -------------------------------
(***************************************************************************)
(* The wallets of one user: the listener's handler of the event that the   *)
(* user has registered, which creates a wallet of every default coin, and  *)
(* requests to the server that create one.                                 *)
(*                                                                         *)
(* An event is delivered until it is answered; a Nack returns it.  A row   *)
(* inserted for a coin makes other inserts of that coin wait until its     *)
(* transaction ends, by the constraint on (user_phone, coin_id).           *)
(***************************************************************************)
EXTENDS Naturals, NodeCalls

CONSTANTS
    Coins,       \* the coins that every user is to have a wallet of
    Events,      \* deliveries about the user
    Payloads,    \* what each of them may hold
    Handlers,    \* goroutines of the listener
    Requests,    \* goroutines of the server
    Reporting,   \* those of both whose process captures panics of the nodes
    Nothing,     \* no coin, no event, nobody
    MaxFailures  \* bound: crashes and failed calls

ASSUME CoinsAssumption == Coins \subseteq DOMAIN Adapter /\ Nothing \notin Coins
ASSUME EventsAssumption ==
    Payloads \subseteq [Events -> {"good", "malformed", "empty", "badPhone"}]
ASSUME ProcsAssumption == Handlers \cap Requests = {} /\ Nothing \notin Handlers
ASSUME FailuresAssumption == MaxFailures \in Nat

Procs == Handlers \cup Requests

VARIABLES
    kind,       \* what each event holds
    message,    \* where each event is
    holder,     \* the handler whose answer counts
    pc,         \* where each goroutine is
    event,      \* what a handler handles
    todo,       \* coins it has still to see to
    coin,       \* the coin it sees to
    made,       \* what Create has given it
    failed,     \* whether it has an error to answer with
    wallet,     \* committed wallets, and what they have for an address
    told,       \* coins whose wallet the processing was told of
    accounts,   \* accounts that were made at the nodes
    failures    \* failures so far

eventVars == <<kind, message, holder>>
procVars == <<pc, event, todo, coin, made, failed>>
dbVars == <<wallet, told, accounts>>
vars == <<eventVars, procVars, dbVars, failures>>

TypeOK ==
    /\ kind \in Payloads
    /\ message \in [Events -> {"queued", "delivered", "gone"}]
    /\ holder \in [Events -> Handlers \cup {Nothing}]
    /\ pc \in [Procs -> {"idle", "select", "count", "choose", "generate", "commit",
                         "notify"}]
    /\ event \in [Procs -> Events \cup {Nothing}]
    /\ todo \in [Procs -> SUBSET Coins]
    /\ coin \in [Procs -> Coins \cup {Nothing}]
    /\ made \in [Procs -> {"none", "account", "empty"}]
    /\ failed \in [Procs -> BOOLEAN]
    /\ wallet \in [Coins -> {"none", "account", "empty"}]
    /\ told \subseteq Coins
    /\ accounts \in [Coins -> Nat]
    /\ failures \in Nat

Init ==
    /\ kind \in Payloads
    /\ message = [e \in Events |-> "queued"]
    /\ holder = [e \in Events |-> Nothing]
    /\ pc = [p \in Procs |-> "idle"]
    /\ event = [p \in Procs |-> Nothing]
    /\ todo = [p \in Procs |-> {}]
    /\ coin = [p \in Procs |-> Nothing]
    /\ made = [p \in Procs |-> "none"]
    /\ failed = [p \in Procs |-> FALSE]
    /\ wallet = [c \in Coins |-> "none"]
    /\ told = {}
    /\ accounts = [c \in Coins |-> 0]
    /\ failures = 0

Fails == failures < MaxFailures /\ failures' = failures + 1

(* The transaction that has inserted the coin's row is open. *)
Inserting(p, c) == pc[p] \in {"generate", "commit"} /\ coin[p] = c

-----------------------------------------------------------------------------
(* Goroutines that end early *)

Forgotten(S, f, value) == [p \in Procs |-> IF p \in S THEN value ELSE f[p]]

(* The goroutines S are gone, and what they had not committed. *)
Gone(S) ==
    /\ pc' = Forgotten(S, pc, "idle")
    /\ event' = Forgotten(S, event, Nothing)
    /\ todo' = Forgotten(S, todo, {})
    /\ coin' = Forgotten(S, coin, Nothing)
    /\ made' = Forgotten(S, made, "none")
    /\ failed' = Forgotten(S, failed, FALSE)

(* What the handlers have not answered is delivered again. *)
Returned ==
    /\ message' = [e \in Events |-> IF message[e] = "delivered" THEN "queued" ELSE message[e]]
    /\ holder' = [e \in Events |-> Nothing]
    /\ UNCHANGED kind

Exits(p) ==
    IF p \in Handlers
    THEN Gone(Handlers) /\ Returned
    ELSE Gone(Requests) /\ UNCHANGED eventVars

(* A panic ends the listener, while gin recovers and fails the request. *)
Panics(p) ==
    IF p \in Handlers THEN Exits(p) ELSE Gone({p}) /\ UNCHANGED eventVars

Crash(p) ==
    /\ pc[p] # "idle" /\ Fails /\ Exits(p)
    /\ UNCHANGED dbVars

-----------------------------------------------------------------------------
(* WrapHandler *)

Goto(p, step) == pc' = [pc EXCEPT ![p] = step]

(* A message that cannot be parsed is rejected by the binder and, when the *)
(* handler returns its error, answered once more; the broker may close the *)
(* channel over that, and deliver again what is still unanswered.  One     *)
(* without a phone is given up.  The handler goes on with others.          *)
Deliver(p, e) ==
    /\ message[e] = "queued" /\ pc[p] = "idle"
    /\ UNCHANGED <<kind, todo, coin, made, failed, dbVars, failures>>
    /\ \/ /\ kind[e] \in {"good", "badPhone"}
          /\ message' = [message EXCEPT ![e] = "delivered"]
          /\ holder' = [holder EXCEPT ![e] = p]
          /\ event' = [event EXCEPT ![p] = e]
          /\ Goto(p, "select")
       \/ /\ kind[e] \in {"malformed", "empty"}
          /\ message' = [message EXCEPT ![e] = "gone"]
          /\ UNCHANGED <<holder, event, pc>>
       \/ /\ kind[e] = "malformed"
          /\ message' = [d \in Events |-> IF d = e THEN "gone"
                                           ELSE IF message[d] = "delivered" THEN "queued"
                                           ELSE message[d]]
          /\ holder' = [d \in Events |-> Nothing]
          /\ UNCHANGED <<event, pc>>

\* Mutant of Answer: an error is not answered.
AckOnly(p, error) ==
    /\ IF holder[event[p]] = p /\ ~error
       THEN /\ message' = [message EXCEPT ![event[p]] = "gone"]
            /\ holder' = [holder EXCEPT ![event[p]] = Nothing]
       ELSE UNCHANGED <<message, holder>>
    /\ UNCHANGED kind
    /\ Gone({p})

(* Nack or Ack, of a delivery that is still this handler's. *)
Answer(p, error) ==
    /\ IF holder[event[p]] = p
       THEN /\ message' = [message EXCEPT ![event[p]] = IF error THEN "queued" ELSE "gone"]
            /\ holder' = [holder EXCEPT ![event[p]] = Nothing]
       ELSE UNCHANGED <<message, holder>>
    /\ UNCHANGED kind
    /\ Gone({p})

-----------------------------------------------------------------------------
(* RegistrationCompletedFactory *)

ReadFails(p) ==
    /\ pc[p] \in {"select", "count"} /\ Fails
    /\ Answer(p, TRUE)
    /\ UNCHANGED dbVars

HasPhone(p) == p \in Handlers => kind[event[p]] = "good"

(* The phone is looked up as it is in the message. *)
HasWallets(p) == HasPhone(p) /\ \E c \in Coins : wallet[c] # "none"

(* The default coins and the user's wallets, whose coins are taken out of  *)
(* a set that nobody reads.                                                *)
SelectWallets(p) ==
    /\ pc[p] = "select"
    /\ todo' = [todo EXCEPT ![p] = Coins]
    /\ Goto(p, IF HasWallets(p) THEN "choose" ELSE "count")
    /\ UNCHANGED <<eventVars, event, coin, made, failed, dbVars, failures>>

(* The second statement of GetWallets compares the last wallet with the    *)
(* last of the page; there is none if one was committed in between.        *)
CountWallets(p) ==
    /\ pc[p] = "count" /\ ~HasWallets(p)
    /\ Goto(p, "choose")
    /\ UNCHANGED <<eventVars, event, todo, coin, made, failed, dbVars, failures>>

CountPanics(p) ==
    /\ pc[p] = "count" /\ HasWallets(p)
    /\ failures' = failures + 1
    /\ Panics(p)
    /\ UNCHANGED dbVars

\* Mutant of Leaves: an error is forgotten when the next coin goes well.
LastOneCounts(p, error) ==
    /\ Goto(p, "choose")
    /\ todo' = [todo EXCEPT ![p] = @ \ {coin[p]}]
    /\ coin' = [coin EXCEPT ![p] = Nothing]
    /\ made' = [made EXCEPT ![p] = "none"]
    /\ failed' = [failed EXCEPT ![p] = error]

(* CreateWallet returns; the handler keeps its error and goes on. *)
Leaves(p, error) ==
    /\ Goto(p, "choose")
    /\ todo' = [todo EXCEPT ![p] = @ \ {coin[p]}]
    /\ coin' = [coin EXCEPT ![p] = Nothing]
    /\ made' = [made EXCEPT ![p] = "none"]
    /\ failed' = [failed EXCEPT ![p] = @ \/ error]

Finish(p) ==
    /\ pc[p] = "choose" /\ todo[p] = {}
    /\ IF p \in Handlers THEN Answer(p, failed[p]) ELSE Gone({p}) /\ UNCHANGED eventVars
    /\ UNCHANGED <<dbVars, failures>>

-----------------------------------------------------------------------------
(* CreateWallet *)

Request(p, c) ==
    /\ pc[p] = "idle"
    /\ Goto(p, "choose")
    /\ todo' = [todo EXCEPT ![p] = {c}]
    /\ UNCHANGED <<eventVars, event, coin, made, failed, dbVars, failures>>

GivesUp(p, c) ==
    /\ pc[p] = "choose" /\ c \in todo[p]
    /\ todo' = [todo EXCEPT ![p] = @ \ {c}]
    /\ failed' = [failed EXCEPT ![p] = TRUE]
    /\ UNCHANGED <<eventVars, pc, event, coin, made, dbVars>>

(* coercePhoneNumber *)
PhoneRejected(p, c) == GivesUp(p, c) /\ ~HasPhone(p) /\ UNCHANGED failures

(* The coin's lookup or the insert fails. *)
InsertFails(p, c) == GivesUp(p, c) /\ Fails

MayInsert(p, c) == pc[p] = "choose" /\ c \in todo[p] /\ HasPhone(p)

\* Mutant of Insert: the address is made before the row is.
InsertWithoutWaiting(p, c) ==
    /\ MayInsert(p, c)
    /\ wallet[c] = "none"
    /\ coin' = [coin EXCEPT ![p] = c]
    /\ Goto(p, "generate")
    /\ UNCHANGED <<eventVars, event, todo, made, failed, dbVars, failures>>

Insert(p, c) ==
    /\ MayInsert(p, c)
    /\ wallet[c] = "none" /\ \A q \in Procs : ~Inserting(q, c)
    /\ coin' = [coin EXCEPT ![p] = c]
    /\ Goto(p, "generate")
    /\ UNCHANGED <<eventVars, event, todo, made, failed, dbVars, failures>>

(* ErrWalletCreationRejected, which the handler passes over. *)
InsertRejected(p, c) ==
    /\ MayInsert(p, c)
    /\ wallet[c] # "none"
    /\ todo' = [todo EXCEPT ![p] = @ \ {c}]
    /\ UNCHANGED <<eventVars, pc, event, coin, made, failed, dbVars, failures>>

(* The account may have been made also when Create fails. *)
Account(c) ==
    \/ accounts' = [accounts EXCEPT ![c] = @ + 1]
    \/ UNCHANGED accounts

GenerateOk(p) ==
    /\ pc[p] = "generate" /\ "ok" \in Create(coin[p], p \in Reporting)
    /\ accounts' = [accounts EXCEPT ![coin[p]] = @ + 1]
    /\ made' = [made EXCEPT ![p] = "account"]
    /\ Goto(p, "commit")
    /\ UNCHANGED <<eventVars, event, todo, coin, failed, wallet, told, failures>>

GenerateEmpty(p) ==
    /\ pc[p] = "generate" /\ "empty" \in Create(coin[p], p \in Reporting)
    /\ Fails /\ Account(coin[p])
    /\ made' = [made EXCEPT ![p] = "empty"]
    /\ Goto(p, "commit")
    /\ UNCHANGED <<eventVars, event, todo, coin, failed, wallet, told>>

\* Mutant of GenerateFails: the closure has an error of its own.
ErrorShadowed(p) ==
    /\ pc[p] = "generate" /\ "error" \in Create(coin[p], p \in Reporting)
    /\ Fails /\ Account(coin[p])
    /\ made' = [made EXCEPT ![p] = "empty"]
    /\ Goto(p, "commit")
    /\ UNCHANGED <<eventVars, event, todo, coin, failed, wallet, told>>

GenerateFails(p) ==
    /\ pc[p] = "generate" /\ "error" \in Create(coin[p], p \in Reporting)
    /\ Fails /\ Account(coin[p])
    /\ Leaves(p, TRUE)
    /\ UNCHANGED <<eventVars, event, wallet, told>>

GenerateEnds(p) ==
    /\ pc[p] = "generate" /\ Fails /\ Account(coin[p])
    /\ \/ "panic" \in Create(coin[p], p \in Reporting) /\ Panics(p)
       \/ "exit" \in Create(coin[p], p \in Reporting) /\ Exits(p)
    /\ UNCHANGED <<wallet, told>>

\* Mutant of Commit: the row is committed as it was inserted.
CommitWithoutUpdate(p) ==
    /\ pc[p] = "commit"
    /\ wallet' = [wallet EXCEPT ![coin[p]] = "unset"]
    /\ Goto(p, "notify")
    /\ UNCHANGED <<eventVars, event, todo, coin, made, failed, told, accounts, failures>>

(* UpdateWallet and the commit *)
Commit(p) ==
    /\ pc[p] = "commit"
    /\ wallet' = [wallet EXCEPT ![coin[p]] = made[p]]
    /\ Goto(p, "notify")
    /\ UNCHANGED <<eventVars, event, todo, coin, made, failed, told, accounts, failures>>

CommitFails(p) ==
    /\ pc[p] = "commit" /\ Fails
    /\ Leaves(p, TRUE)
    /\ UNCHANGED <<eventVars, event, dbVars>>

\* Mutant of Notify: only the server tells.
ServerNotifies(p) ==
    /\ pc[p] = "notify"
    /\ told' = IF p \in Requests THEN told \cup {coin[p]} ELSE told
    /\ Leaves(p, FALSE)
    /\ UNCHANGED <<eventVars, event, wallet, accounts, failures>>

(* NotifyUserCreatesWallet *)
Notify(p) ==
    /\ pc[p] = "notify"
    /\ told' = told \cup {coin[p]}
    /\ Leaves(p, FALSE)
    /\ UNCHANGED <<eventVars, event, wallet, accounts, failures>>

NotifyFails(p) ==
    /\ pc[p] = "notify" /\ Fails
    /\ Leaves(p, TRUE)
    /\ UNCHANGED <<eventVars, event, dbVars>>

-----------------------------------------------------------------------------
Run(p) ==
    \/ SelectWallets(p) \/ CountWallets(p) \/ CountPanics(p) \/ Finish(p)
    \/ GenerateOk(p) \/ Commit(p) \/ Notify(p)
    \/ \E c \in Coins :
          Insert(p, c) \/ InsertRejected(p, c) \/ PhoneRejected(p, c)

Fault(p) ==
    \/ Crash(p) \/ ReadFails(p) \/ GenerateEmpty(p) \/ GenerateFails(p)
    \/ GenerateEnds(p) \/ CommitFails(p) \/ NotifyFails(p)
    \/ \E c \in Coins : InsertFails(p, c)

Next ==
    \/ \E p \in Handlers, e \in Events : Deliver(p, e)
    \/ \E p \in Requests, c \in Coins : Request(p, c)
    \/ \E p \in Procs : Run(p) \/ Fault(p)

Spec == Init /\ [][Next]_vars

(* The broker delivers what is queued; goroutines run. *)
Fairness ==
    /\ \A e \in Events : SF_vars(\E p \in Handlers : Deliver(p, e))
    /\ \A p \in Procs : WF_vars(Run(p))

FairSpec == Spec /\ Fairness

-----------------------------------------------------------------------------
(* Properties *)

(* A registration is given up only when the user has a wallet of every     *)
(* default coin, whoever created it, and however the deliveries of the     *)
(* event overlap, fail or are repeated (users/handlers.go:71,              *)
(* base/handlers.go:42).                                                   *)
AckedMeansServed ==
    \A e \in Events :
        message[e] = "gone" /\ kind[e] = "good"
            => \A c \in Coins : wallet[c] # "none"

InHand(c) == \E p \in Procs : pc[p] = "commit" /\ coin[p] = c /\ made[p] = "account"

(* "While other transactions hang on this call we may safely generate the  *)
(* address" (wallets/api.go:58-66): concurrent creations make one account, *)
(* and each lost account is the loss of one failure.                       *)
AccountsNotWasted ==
    \A c \in Coins :
        accounts[c] <= failures + (IF wallet[c] = "account" \/ InHand(c) THEN 1 ELSE 0)

(* A wallet without an address needs a panic that the wrapper has captured *)
(* (wrappers/report.go:102).                                               *)
WalletHasAccount ==
    \A c \in Coins : wallet[c] = "empty" => Reporting # {} /\ Adapter[c] = "zam"

(* The processing is told of each wallet unless something failed; after a  *)
(* failure nobody tells it later, for a redelivered event finds the wallet *)
(* and passes over it (wallets/api.go:115, users/handlers.go:75).          *)
ToldUnlessFailed ==
    \A c \in Coins :
        wallet[c] # "none" =>
            \/ c \in told \/ failures > 0
            \/ \E p \in Procs : pc[p] = "notify" /\ coin[p] = c

(* Every registration is served in the end: a failed one is returned and   *)
(* tried again, also beside one that can never be (base/handlers.go:37).   *)
RegistrationServed ==
    \A e \in Events : kind[e] = "good" ~> message[e] = "gone"
===================================================================================
