------------------------------- MODULE FanInProofs --------------------------------
(* Theorems on FanIn, for any number of items and any of the three calls. *)
EXTENDS FanIn, TLAPS

(***************************************************************************)
(* What holds between the steps.  Of the items in hand, a worker has its   *)
(* answer from the moment it wants to send or leaves; what it has left it  *)
(* has either sent, or it was not to be sent; nothing is collected or      *)
(* stored before it was answered; a closed channel means that all have     *)
(* left.                                                                   *)
(***************************************************************************)
Asked(j) ==
    /\ worker[j] \in {"asking", "limited"} => answer[j] = "none"
    /\ worker[j] \in {"sending", "leaving", "done"} => answer[j] # "none"
    /\ worker[j] = "none" => answer[j] = "none"

Sent(j) ==
    /\ j \in collected => worker[j] \in {"leaving", "done"}
    /\ worker[j] \in {"leaving", "done"} /\ answer[j] = "error" => j \in collected
    /\ worker[j] \in {"leaving", "done"} /\ answer[j] = "value" /\ call # "wallets"
          => j \in collected

Stored(j) == call = "wallets" => (j \in stored <=> answer[j] = "value")

Spread(j) == j \notin jobs => worker[j] = "none"

ListerInv ==
    /\ lister # "listed" => caller = "receiving" /\ channel = "open" /\ worker = Quiet
    /\ lister = "listed" /\ caller = "receiving" => \A j \in jobs : worker[j] # "none"

CallerInv ==
    /\ caller = "idle" =>
          jobs = {} /\ worker = Quiet /\ answer = Quiet /\ stored = {} /\ collected = {}
    /\ caller = "idle" => channel = "open"
    /\ channel = "closed" => \A j \in jobs : worker[j] = "done"
    /\ caller = "returned" <=> result # "none"
    /\ caller = "returned" => channel = "closed"

IInv ==
    /\ CallTypeOK
    /\ \A j \in Jobs : Asked(j) /\ Sent(j) /\ Stored(j) /\ Spread(j)
    /\ ListerInv /\ CallerInv

-----------------------------------------------------------------------------

LEMMA InitHolds == CallInit => IInv
BY DEF CallInit, IInv, CallTypeOK, Asked, Sent, Stored, Spread, ListerInv, CallerInv, Quiet

LEMMA StepHolds == IInv /\ [CallNext]_callVars => IInv'
<1> SUFFICES ASSUME IInv, [CallNext]_callVars PROVE IInv'
  OBVIOUS
<1> USE DEF IInv, CallTypeOK, Asked, Sent, Stored, Spread, ListerInv, CallerInv, Quiet
<1>1. ASSUME NEW S \in SUBSET Jobs, "wallets" \in Calls, StartWallets(S) PROVE IInv'
  BY <1>1, CallsAssumption DEF StartWallets, Spawned
<1>2. ASSUME NEW S \in SUBSET Jobs, NEW c \in Calls \ {"wallets"}, StartAddresses(c, S)
      PROVE IInv'
  BY <1>2 DEF StartAddresses
<1>3. CASE ListAddresses
  BY <1>3 DEF ListAddresses, Spawned
<1>4. CASE ListAddressesFails
  BY <1>4 DEF ListAddressesFails
<1>5. ASSUME NEW j \in Jobs, Ask(j) PROVE IInv'
  BY <1>5 DEF Ask, WalletAnswer, BalanceAnswer, IncomingAnswer
<1>6. ASSUME NEW j \in Jobs, RateLimited(j) PROVE IInv'
  BY <1>6 DEF RateLimited
<1>7. ASSUME NEW j \in Jobs, Retry(j) PROVE IInv'
  BY <1>7 DEF Retry
<1>8. ASSUME NEW j \in Jobs, Finish(j) PROVE IInv'
  BY <1>8 DEF Finish
<1>9. ASSUME NEW j \in Jobs, Receive(j) PROVE IInv'
  BY <1>9 DEF Receive
<1>10. CASE Close
  BY <1>10 DEF Close
<1>11. CASE Return
  BY <1>11 DEF Return, Verdict
<1>12. CASE Leave
  BY <1>12 DEF Leave
<1>13. CASE Waits \/ UNCHANGED callVars
  BY <1>13 DEF Waits, callVars
<1> QED
  BY <1>1, <1>2, <1>3, <1>4, <1>5, <1>6, <1>7, <1>8, <1>9, <1>10, <1>11, <1>12, <1>13
  DEF CallNext, Start, Step, Proceed

LEMMA InvHolds == CallSpec => []IInv
BY InitHolds, StepHolds, PTL DEF CallSpec

(* Every variable keeps its type. *)
THEOREM TypeCorrect == CallSpec => []CallTypeOK
BY InvHolds, PTL DEF IInv

(* No goroutine ever finds the channel closed under it. *)
THEOREM ChannelSafe == CallSpec => []NoSendAfterClose
<1>1. IInv => NoSendAfterClose
  BY DEF IInv, CallerInv, NoSendAfterClose
<1> QED
  BY <1>1, InvHolds, PTL

-----------------------------------------------------------------------------
(* The refinement of Gather *)

LEMMA GatherInit == CallInit => G!Init
BY DEF CallInit, G!Init, Phase, Quiet

LEMMA GatherStep == IInv /\ [CallNext]_callVars => [G!Next]_(G!vars)
<1> SUFFICES ASSUME IInv, [CallNext]_callVars PROVE [G!Next]_(G!vars)
  OBVIOUS
<1> USE DEF IInv, CallTypeOK, ListerInv, CallerInv, Quiet, G!Next, G!vars
<1>1. ASSUME NEW S \in SUBSET Jobs, "wallets" \in Calls, StartWallets(S) PROVE G!Begin
  BY <1>1 DEF StartWallets, G!Begin, Phase, Included
<1>2. ASSUME NEW S \in SUBSET Jobs, NEW c \in Calls \ {"wallets"}, StartAddresses(c, S)
      PROVE G!Begin
  BY <1>2 DEF StartAddresses, G!Begin, Phase, Included
<1>3. CASE ListAddresses
  BY <1>3 DEF ListAddresses, Phase, Included
<1>4. CASE ListAddressesFails
  BY <1>4 DEF ListAddressesFails, G!Hang, Phase, Included, Asked
<1>5. ASSUME NEW j \in Jobs, Ask(j) PROVE G!Decide(j)
  BY <1>5 DEF Ask, WalletAnswer, BalanceAnswer, IncomingAnswer, G!Decide, Phase,
              Included, Asked, Spread
<1>6. ASSUME NEW j \in Jobs, RateLimited(j) \/ Retry(j) \/ Finish(j)
      PROVE UNCHANGED G!vars
  BY <1>6 DEF RateLimited, Retry, Finish, Phase, Included
<1>7. ASSUME NEW j \in Jobs, Receive(j) PROVE UNCHANGED G!vars
  BY <1>7 DEF Receive, Phase, Included
<1>8. CASE Close
  BY <1>8 DEF Close, Phase, Included
<1>9. CASE Return
  <2>1. \A j \in jobs : answer[j] # "none"
    BY <1>9 DEF Return, Asked
  <2>2. \A j \in Jobs : j \in collected => j \in jobs
    BY DEF Sent, Spread
  <2>3. (\E j \in collected : answer[j] = "error") <=> (\E j \in jobs : answer[j] = "error")
    BY <1>9, <2>2 DEF Return, Sent
  <2>4. Included = {j \in jobs : answer[j] = "value"}
    BY <1>9, <2>2 DEF Return, Included, Sent, Stored, Spread, Asked
  <2>5. Included' = Included
    BY <1>9 DEF Return, Included
  <2>6. Phase = "asking" /\ Phase' = "returned"
    BY <1>9 DEF Return, Phase
  <2> QED
    BY <1>9, <2>1, <2>3, <2>4, <2>5, <2>6 DEF Return, Verdict, G!Answer
<1>10. CASE Leave
  BY <1>10 DEF Leave, G!Leave, Phase, Included
<1>11. CASE Waits \/ UNCHANGED callVars
  BY <1>11 DEF Waits, callVars, Phase, Included
<1> QED
  BY <1>1, <1>2, <1>3, <1>4, <1>5, <1>6, <1>7, <1>8, <1>9, <1>10, <1>11
  DEF CallNext, Start, Step, Proceed

(* To its caller the call is one query that answers for all items or fails: *)
(* wallets/api.go:147-214, eth/node.go:180-225 and 257-330.                *)
THEOREM GatherImplemented == CallSpec => ImplementsGather
BY InvHolds, GatherInit, GatherStep, PTL DEF CallSpec, ImplementsGather, G!Spec
===================================================================================
