---------------------------------- MODULE FanIn -----------------------------------
(***************************************************************************)
(* The three places where one call asks a node about several items at the  *)
(* same time: GetWallets for the balances of a page of wallets, and        *)
(* GetBalance and GetIncoming of the ethereum adapter for all addresses of *)
(* the node.                                                               *)
(*                                                                         *)
(* Each item has a goroutine (worker) that asks, sends on an unbuffered    *)
(* channel and leaves a wait group.  Another goroutine waits for the group *)
(* and closes the channel; the caller receives until it is closed.  Of the *)
(* wallets only errors are sent, values are stored in a slice; the adapter *)
(* sends values too, except that a list of no transactions is not sent.    *)
(* A send and its receive are one step; a send on a closed channel would   *)
(* be a panic.                                                             *)
(***************************************************************************)
EXTENDS Naturals

CONSTANTS
    Jobs,      \* wallets or addresses
    Calls,     \* the calls looked at
    MaxLimits  \* bound: answers that the rate limit is exceeded

ASSUME CallsAssumption == Calls \subseteq {"wallets", "ethBalance", "ethIncoming"}
ASSUME LimitAssumption == MaxLimits \in Nat

VARIABLES
    call,       \* which of the calls
    jobs,       \* its items
    lister,     \* foreachAddress: whether the items are known yet
    worker,     \* where each goroutine is
    answer,     \* what the node answered it
    stored,     \* items whose value is in the slice wts
    collected,  \* items whose answer was received
    channel,    \* open or closed
    caller,     \* where the caller is
    result,     \* what the call returns: an error or not
    limits      \* rate limits so far

callVars == <<call, jobs, lister, worker, answer, stored, collected, channel, caller,
              result, limits>>

CallTypeOK ==
    /\ call \in Calls
    /\ jobs \subseteq Jobs
    /\ lister \in {"listing", "listed", "failed"}
    /\ worker \in [Jobs -> {"none", "asking", "limited", "sending", "leaving", "done"}]
    /\ answer \in [Jobs -> {"none", "value", "nothing", "error"}]
    /\ stored \subseteq Jobs /\ collected \subseteq Jobs
    /\ channel \in {"open", "closed"}
    /\ caller \in {"idle", "receiving", "returned"}
    /\ result \in {"none", "ok", "error"}
    /\ limits \in Nat

Quiet == [j \in Jobs |-> "none"]

CallInit ==
    /\ call \in Calls
    /\ jobs = {} /\ lister = "listed"
    /\ worker = Quiet /\ answer = Quiet
    /\ stored = {} /\ collected = {} /\ channel = "open"
    /\ caller = "idle" /\ result = "none" /\ limits = 0

-----------------------------------------------------------------------------
(* Beginning: the wallets are known, the addresses are asked for first. *)

Spawned(S) == [j \in Jobs |-> IF j \in S THEN "asking" ELSE "none"]

StartWallets(S) ==
    /\ caller = "idle" /\ caller' = "receiving"
    /\ call' = "wallets" /\ jobs' = S
    /\ worker' = Spawned(S)
    /\ UNCHANGED <<lister, answer, stored, collected, channel, result, limits>>

StartAddresses(c, S) ==
    /\ caller = "idle" /\ caller' = "receiving"
    /\ call' = c /\ jobs' = S
    /\ lister' = "listing"
    /\ UNCHANGED <<worker, answer, stored, collected, channel, result, limits>>

ListAddresses ==
    /\ lister = "listing" /\ lister' = "listed"
    /\ worker' = Spawned(jobs)
    /\ UNCHANGED <<call, jobs, answer, stored, collected, channel, caller, result, limits>>

(* foreachAddress returns the error to the go statement, that is to        *)
(* nobody, without the call that closes the channel.                       *)
ListAddressesFails ==
    /\ lister = "listing" /\ lister' = "failed"
    /\ UNCHANGED <<call, jobs, worker, answer, stored, collected, channel, caller,
                   result, limits>>

-----------------------------------------------------------------------------
(* A worker *)

WalletAnswer(j, a) ==
    /\ a \in {"value", "error"}
    /\ worker' = [worker EXCEPT ![j] = IF a = "error" THEN "sending" ELSE "leaving"]
    /\ stored' = IF a = "value" THEN stored \cup {j} ELSE stored

BalanceAnswer(j, a) ==
    /\ a \in {"value", "error"}
    /\ worker' = [worker EXCEPT ![j] = "sending"]
    /\ UNCHANGED stored

IncomingAnswer(j, a) ==
    /\ a \in {"value", "nothing", "error"}
    /\ worker' = [worker EXCEPT ![j] = IF a = "nothing" THEN "leaving" ELSE "sending"]
    /\ UNCHANGED stored

Ask(j) ==
    /\ worker[j] = "asking"
    /\ \E a \in {"value", "nothing", "error"} :
          /\ answer' = [answer EXCEPT ![j] = a]
          /\ \/ call = "wallets" /\ WalletAnswer(j, a)
             \/ call = "ethBalance" /\ BalanceAnswer(j, a)
             \/ call = "ethIncoming" /\ IncomingAnswer(j, a)
    /\ UNCHANGED <<call, jobs, lister, collected, channel, caller, result, limits>>

\* Mutant of RateLimited: the rate limit is taken for an answer.
RateLimitAnswers(j) ==
    /\ call = "ethIncoming" /\ worker[j] = "asking"
    /\ limits < MaxLimits /\ limits' = limits + 1
    /\ worker' = [worker EXCEPT ![j] = "leaving"]
    /\ answer' = [answer EXCEPT ![j] = "limit"]
    /\ UNCHANGED <<call, jobs, lister, stored, collected, channel, caller, result>>

(* The explorer answers 403.  The worker tries again every second, as long *)
(* as that is the answer; no caller's context ever ends.                   *)
RateLimited(j) ==
    /\ call = "ethIncoming" /\ worker[j] = "asking"
    /\ limits < MaxLimits /\ limits' = limits + 1
    /\ worker' = [worker EXCEPT ![j] = "limited"]
    /\ UNCHANGED <<call, jobs, lister, answer, stored, collected, channel, caller, result>>

Retry(j) ==
    /\ worker[j] = "limited"
    /\ worker' = [worker EXCEPT ![j] = "asking"]
    /\ UNCHANGED <<call, jobs, lister, answer, stored, collected, channel, caller,
                   result, limits>>

(* wg.Done *)
Finish(j) ==
    /\ worker[j] = "leaving"
    /\ worker' = [worker EXCEPT ![j] = "done"]
    /\ UNCHANGED <<call, jobs, lister, answer, stored, collected, channel, caller,
                   result, limits>>

-----------------------------------------------------------------------------
(* The channel *)

\* Mutant of Receive: the caller stops listening at the first error.
ReceiveUntilError(j) ==
    /\ caller = "receiving" /\ worker[j] = "sending"
    /\ \A i \in collected : answer[i] # "error"
    /\ worker' = [worker EXCEPT ![j] = "leaving"]
    /\ collected' = collected \cup {j}
    /\ UNCHANGED <<call, jobs, lister, answer, stored, channel, caller, result, limits>>

Receive(j) ==
    /\ caller = "receiving" /\ worker[j] = "sending"
    /\ worker' = [worker EXCEPT ![j] = "leaving"]
    /\ collected' = collected \cup {j}
    /\ UNCHANGED <<call, jobs, lister, answer, stored, channel, caller, result, limits>>

\* Mutant of Close: wg.Done before the send.
CloseBeforeSend ==
    /\ caller = "receiving" /\ lister = "listed" /\ channel = "open"
    /\ \A j \in jobs : worker[j] \in {"sending", "leaving", "done"}
    /\ channel' = "closed"
    /\ UNCHANGED <<call, jobs, lister, worker, answer, stored, collected, caller,
                   result, limits>>

(* wg.Wait has returned. *)
Close ==
    /\ caller = "receiving" /\ lister = "listed" /\ channel = "open"
    /\ \A j \in jobs : worker[j] = "done"
    /\ channel' = "closed"
    /\ UNCHANGED <<call, jobs, lister, worker, answer, stored, collected, caller,
                   result, limits>>

\* Mutant of Verdict: some answers are good enough.
AnyAnswerWillDo ==
    IF /\ \E j \in collected : answer[j] = "error"
       /\ \A j \in jobs : answer[j] = "error"
    THEN "error" ELSE "ok"

Verdict == IF \E j \in collected : answer[j] = "error" THEN "error" ELSE "ok"

Return ==
    /\ caller = "receiving" /\ channel = "closed"
    /\ caller' = "returned"
    /\ result' = Verdict
    /\ UNCHANGED <<call, jobs, lister, worker, answer, stored, collected, channel, limits>>

(* The caller has used the result; the next call has its own channel. *)
Leave ==
    /\ caller = "returned" /\ caller' = "idle"
    /\ jobs' = {} /\ worker' = Quiet /\ answer' = Quiet
    /\ stored' = {} /\ collected' = {}
    /\ channel' = "open" /\ result' = "none"
    /\ UNCHANGED <<call, lister, limits>>

Start ==
    \E S \in SUBSET Jobs :
        \/ "wallets" \in Calls /\ StartWallets(S)
        \/ \E c \in Calls \ {"wallets"} : StartAddresses(c, S)

(* What the goroutines of a call do by themselves. *)
Proceed ==
    \/ ListAddresses \/ ListAddressesFails \/ Close \/ Return
    \/ \E j \in Jobs : Ask(j) \/ Retry(j) \/ Finish(j) \/ Receive(j)

Step == Proceed \/ Leave \/ \E j \in Jobs : RateLimited(j)

(* The caller waits for the channel; if the addresses could not be listed, *)
(* for ever.                                                               *)
Waits == caller = "receiving" /\ UNCHANGED callVars

CallNext == Start \/ Step \/ Waits

CallSpec == CallInit /\ [][CallNext]_callVars

(* As long as a goroutine can go on, one does, and HTTP calls end.  What   *)
(* each has to do is bounded, so this is enough.                           *)
CallFairness == WF_callVars(Proceed)

-----------------------------------------------------------------------------
(* Properties *)

(* A goroutine that could still send finds the channel open: wallets/      *)
(* api.go:193 and eth/node.go:415 close it only after all have left, for   *)
(* a send on a closed channel panics and ends the process.                 *)
NoSendAfterClose ==
    channel = "closed" =>
        \A j \in jobs : worker[j] \notin {"asking", "limited", "sending"}

(* What the adapter sums up or appends, or the slice of wallets. *)
Included == IF call = "wallets" THEN stored
            ELSE {j \in collected : answer[j] = "value"}

Phase == IF caller = "receiving" /\ lister = "failed" THEN "hung"
         ELSE IF caller = "receiving" THEN "asking" ELSE caller

G == INSTANCE Gather WITH phase <- Phase, outcome <- answer,
                          content <- IF result = "ok" THEN Included ELSE {}

(* Seen from its caller a call is one query: no answer of a worker is lost *)
(* between its channel, the slice and the wait group, a balance is never   *)
(* summed from some of the addresses, and one error is an error of the     *)
(* whole (wallets/api.go:197, eth/node.go:210).                            *)
ImplementsGather == G!Spec

(* A call returns, whatever its workers are answered and however often the *)
(* explorer limits them, unless the node could not list its addresses      *)
(* (eth/node.go:401).                                                      *)
CallReturns ==
    caller = "receiving" ~> (caller = "returned" \/ lister = "failed")
===================================================================================
