---------------------------- MODULE RegistrationProofs ----------------------------
(* Theorems on Registration, for any number of coins, events and goroutines. *)
EXTENDS Registration, TLAPS

(***************************************************************************)
(* Two goroutines never have an open row of the same coin, and while one   *)
(* is open no wallet of the coin is committed.  A handler that has had no  *)
(* error leaves behind only coins whose wallet exists.  An account is in   *)
(* a wallet, in the hands of who has the open row, or lost by a failure.   *)
(***************************************************************************)
CoinInv ==
    \A p \in Procs : pc[p] \in {"generate", "commit", "notify"} => coin[p] \in Coins

RowInv ==
    \A p \in Procs :
        /\ pc[p] \in {"generate", "commit"} => wallet[coin[p]] = "none"
        /\ pc[p] = "commit" => made[p] # "none"
        /\ pc[p] = "notify" => wallet[coin[p]] # "none"

LockInv ==
    \A p, q \in Procs :
        /\ pc[p] \in {"generate", "commit"} /\ pc[q] \in {"generate", "commit"}
        /\ coin[p] = coin[q]
        => p = q

ServedInv ==
    /\ \A p \in Handlers :
          /\ pc[p] \in {"count", "choose", "generate", "commit", "notify"}
          /\ kind[event[p]] = "good" /\ ~failed[p]
          => \A c \in Coins : c \in todo[p] \/ wallet[c] # "none"
    /\ \A p \in Handlers : pc[p] \in {"idle", "select", "count"} => ~failed[p]

AckedInv == ServedInv /\ AckedMeansServed

RowsInv == CoinInv /\ RowInv /\ LockInv

-----------------------------------------------------------------------------
(* Every step, one by one *)

LEMMA Steps ==
    ASSUME [Next]_vars
    PROVE  \/ \E p \in Handlers, e \in Events : Deliver(p, e)
           \/ \E p \in Requests, c \in Coins : Request(p, c)
           \/ \E p \in Procs : SelectWallets(p) \/ CountWallets(p) \/ CountPanics(p)
           \/ \E p \in Procs : Finish(p) \/ GenerateOk(p) \/ Commit(p) \/ Notify(p)
           \/ \E p \in Procs, c \in Coins :
                 Insert(p, c) \/ InsertRejected(p, c) \/ PhoneRejected(p, c)
                    \/ InsertFails(p, c)
           \/ \E p \in Procs : Crash(p) \/ ReadFails(p) \/ GenerateEmpty(p)
           \/ \E p \in Procs : GenerateFails(p) \/ GenerateEnds(p) \/ CommitFails(p)
           \/ \E p \in Procs : NotifyFails(p)
           \/ UNCHANGED vars
BY DEF Next, Run, Fault

(* Goroutines that go leave nothing behind. *)
LEMMA GoneTyped ==
    ASSUME TypeOK, NEW S, Gone(S)
    PROVE  /\ pc' \in [Procs -> {"idle", "select", "count", "choose", "generate",
                                 "commit", "notify"}]
           /\ event' \in [Procs -> Events \cup {Nothing}]
           /\ todo' \in [Procs -> SUBSET Coins]
           /\ coin' \in [Procs -> Coins \cup {Nothing}]
           /\ made' \in [Procs -> {"none", "account", "empty"}]
           /\ failed' \in [Procs -> BOOLEAN]
BY DEF TypeOK, Gone, Forgotten

(* Who remains, remains as it was. *)
LEMMA GoneOthers ==
    ASSUME TypeOK, NEW S, Gone(S), NEW p \in Procs
    PROVE  /\ p \in S => pc'[p] = "idle" /\ ~failed'[p]
           /\ p \notin S =>
                 /\ pc'[p] = pc[p] /\ event'[p] = event[p] /\ todo'[p] = todo[p]
                 /\ coin'[p] = coin[p] /\ made'[p] = made[p] /\ failed'[p] = failed[p]
BY DEF TypeOK, Gone, Forgotten

LEMMA StepKinds ==
    ASSUME NEW p \in Procs
    PROVE  /\ CountPanics(p) \/ Crash(p) \/ GenerateEnds(p) \/ Finish(p) \/ ReadFails(p)
                => \E S : Gone(S)
           /\ GenerateFails(p) \/ CommitFails(p) \/ Notify(p) \/ NotifyFails(p)
                => /\ \E error \in BOOLEAN : Leaves(p, error)
                   /\ pc[p] # "idle" /\ event' = event
BY DEF CountPanics, Crash, GenerateEnds, Finish, ReadFails, Answer, Panics, Exits,
       GenerateFails, CommitFails, Notify, NotifyFails

LEMMA EndsGone ==
    ASSUME NEW p \in Procs, Panics(p) \/ Exits(p)
    PROVE  (\E S : Gone(S)) /\ (Returned \/ UNCHANGED eventVars)
BY DEF Panics, Exits

-----------------------------------------------------------------------------
(* Types *)

LEMMA InitTyped == Init => TypeOK /\ CoinInv
BY DEF Init, TypeOK, CoinInv

LEMMA StepTyped == TypeOK /\ CoinInv /\ [Next]_vars => TypeOK'
<1> SUFFICES ASSUME TypeOK, CoinInv, [Next]_vars PROVE TypeOK'
  OBVIOUS
<1> USE DEF TypeOK, eventVars, procVars, dbVars, Goto, Fails, Account, Procs
<1>1. ASSUME NEW p \in Handlers, NEW e \in Events, Deliver(p, e) PROVE TypeOK'
  BY <1>1 DEF Deliver
<1>2. ASSUME NEW p \in Requests, NEW c \in Coins, Request(p, c) PROVE TypeOK'
  BY <1>2 DEF Request
<1>3. ASSUME NEW p \in Procs, SelectWallets(p) \/ CountWallets(p) PROVE TypeOK'
  BY <1>3 DEF SelectWallets, CountWallets
<1>4. ASSUME NEW p \in Procs, CountPanics(p) \/ Crash(p) \/ GenerateEnds(p)
      PROVE TypeOK'
  <2>1. Panics(p) \/ Exits(p)
    BY <1>4 DEF CountPanics, Crash, GenerateEnds
  <2>2. PICK S : Gone(S)
    BY <2>1, EndsGone
  <2>3. kind' \in Payloads /\ message' \in [Events -> {"queued", "delivered", "gone"}]
          /\ holder' \in [Events -> Handlers \cup {Nothing}]
    BY <2>1, EndsGone DEF Returned
  <2>4. wallet' = wallet /\ told' = told /\ accounts' \in [Coins -> Nat]
          /\ failures' \in Nat
    BY <1>4 DEF CountPanics, Crash, GenerateEnds
  <2> QED
    BY <2>2, <2>3, <2>4, GoneTyped
<1>5. ASSUME NEW p \in Procs, Finish(p) \/ ReadFails(p) PROVE TypeOK'
  <2>1. Gone({p})
    BY <1>5 DEF Finish, ReadFails, Answer
  <2>2. kind' \in Payloads /\ message' \in [Events -> {"queued", "delivered", "gone"}]
          /\ holder' \in [Events -> Handlers \cup {Nothing}]
    BY <1>5 DEF Finish, ReadFails, Answer
  <2>3. wallet' = wallet /\ told' = told /\ accounts' = accounts /\ failures' \in Nat
    <3>1. CASE Finish(p)
      BY <3>1 DEF Finish
    <3>2. CASE ReadFails(p)
      BY <3>2 DEF ReadFails
    <3> QED
      BY <1>5, <3>1, <3>2
  <2> QED
    BY <2>1, <2>2, <2>3, GoneTyped
<1>6. ASSUME NEW p \in Procs, GenerateOk(p) \/ GenerateEmpty(p) PROVE TypeOK'
  BY <1>6 DEF GenerateOk, GenerateEmpty
<1>7. ASSUME NEW p \in Procs, Commit(p) PROVE TypeOK'
  BY <1>7 DEF Commit
<1>8. ASSUME NEW p \in Procs,
             Notify(p) \/ NotifyFails(p) \/ CommitFails(p) \/ GenerateFails(p)
      PROVE TypeOK'
  <2>1. failed' \in [Procs -> BOOLEAN]
    BY <1>8 DEF Notify, NotifyFails, CommitFails, GenerateFails, Leaves
  <2>2. kind' \in Payloads /\ UNCHANGED <<message, holder, event, wallet>>
          /\ told' \subseteq Coins /\ accounts' \in [Coins -> Nat] /\ failures' \in Nat
    <3>1. CASE Notify(p)
      BY <3>1 DEF Notify, CoinInv
    <3>2. CASE NotifyFails(p)
      BY <3>2 DEF NotifyFails
    <3>3. CASE CommitFails(p)
      BY <3>3 DEF CommitFails
    <3>4. CASE GenerateFails(p)
      BY <3>4 DEF GenerateFails
    <3> QED
      BY <1>8, <3>1, <3>2, <3>3, <3>4
  <2>3. \E error \in BOOLEAN : Leaves(p, error)
    BY <1>8 DEF Notify, NotifyFails, CommitFails, GenerateFails
  <2>4. pc' \in [Procs -> {"idle", "select", "count", "choose", "generate", "commit",
                          "notify"}]
          /\ todo' \in [Procs -> SUBSET Coins] /\ coin' \in [Procs -> Coins \cup {Nothing}]
          /\ made' \in [Procs -> {"none", "account", "empty"}]
    BY <2>3 DEF Leaves
  <2> QED
    BY <2>1, <2>2, <2>4
<1>9. ASSUME NEW p \in Procs, NEW c \in Coins,
             Insert(p, c) \/ InsertRejected(p, c) \/ PhoneRejected(p, c)
                \/ InsertFails(p, c)
      PROVE TypeOK'
  <2>1. CASE Insert(p, c)
    BY <2>1 DEF Insert
  <2>2. CASE InsertRejected(p, c)
    BY <2>2 DEF InsertRejected
  <2>3. CASE PhoneRejected(p, c)
    BY <2>3 DEF PhoneRejected, GivesUp
  <2>4. CASE InsertFails(p, c)
    BY <2>4 DEF InsertFails, GivesUp
  <2> QED
    BY <1>9, <2>1, <2>2, <2>3, <2>4
<1>10. CASE UNCHANGED vars
  BY <1>10 DEF vars
<1> QED
  BY Steps, <1>1, <1>2, <1>3, <1>4, <1>5, <1>6, <1>7, <1>8, <1>9, <1>10

LEMMA StepCoin == TypeOK /\ CoinInv /\ [Next]_vars => CoinInv'
<1> SUFFICES ASSUME TypeOK, CoinInv, [Next]_vars PROVE CoinInv'
  OBVIOUS
<1> USE DEF TypeOK, CoinInv, Goto, Procs
<1>1. ASSUME NEW p \in Handlers, NEW e \in Events, Deliver(p, e) PROVE CoinInv'
  BY <1>1 DEF Deliver
<1>2. ASSUME NEW p \in Requests, NEW c \in Coins, Request(p, c) PROVE CoinInv'
  BY <1>2 DEF Request
<1>3. ASSUME NEW p \in Procs, SelectWallets(p) \/ CountWallets(p) PROVE CoinInv'
  BY <1>3 DEF SelectWallets, CountWallets
<1>4. ASSUME NEW S, Gone(S) PROVE CoinInv'
  BY <1>4, GoneOthers
<1>5. ASSUME NEW p \in Procs, GenerateOk(p) \/ GenerateEmpty(p) \/ Commit(p)
      PROVE CoinInv'
  BY <1>5 DEF GenerateOk, GenerateEmpty, Commit
<1>6. ASSUME NEW p \in Procs, NEW error \in BOOLEAN, Leaves(p, error) PROVE CoinInv'
  BY <1>6 DEF Leaves
<1>7. ASSUME NEW p \in Procs, NEW c \in Coins,
             Insert(p, c) \/ InsertRejected(p, c) \/ PhoneRejected(p, c)
                \/ InsertFails(p, c)
      PROVE CoinInv'
  BY <1>7 DEF Insert, InsertRejected, PhoneRejected, InsertFails, GivesUp
<1>8. CASE UNCHANGED vars
  BY <1>8 DEF vars, procVars
<1> QED
  BY Steps, StepKinds, <1>1, <1>2, <1>3, <1>4, <1>5, <1>6, <1>7, <1>8

(* Every variable keeps its type. *)
THEOREM TypeCorrect == Spec => []TypeOK
BY InitTyped, StepTyped, StepCoin, PTL DEF Spec

-----------------------------------------------------------------------------
(* One open row of a coin *)

LEMMA StepRows == TypeOK /\ RowsInv /\ [Next]_vars => RowInv' /\ LockInv'
<1> SUFFICES ASSUME TypeOK, RowsInv, [Next]_vars PROVE RowInv' /\ LockInv'
  OBVIOUS
<1> USE DEF TypeOK, RowsInv, CoinInv, RowInv, LockInv, Goto, Procs
<1>1. ASSUME NEW p \in Handlers, NEW e \in Events, Deliver(p, e)
      PROVE  RowInv' /\ LockInv'
  BY <1>1 DEF Deliver, dbVars
<1>2. ASSUME NEW p \in Requests, NEW c \in Coins, Request(p, c)
      PROVE  RowInv' /\ LockInv'
  BY <1>2 DEF Request, dbVars
<1>3. ASSUME NEW p \in Procs, SelectWallets(p) \/ CountWallets(p)
      PROVE  RowInv' /\ LockInv'
  BY <1>3 DEF SelectWallets, CountWallets, dbVars
<1>4. ASSUME NEW S, Gone(S), wallet' = wallet PROVE RowInv' /\ LockInv'
  BY <1>4, GoneOthers
<1>5. ASSUME NEW p \in Procs, NEW error \in BOOLEAN, Leaves(p, error), wallet' = wallet
      PROVE  RowInv' /\ LockInv'
  BY <1>5 DEF Leaves
<1>6. ASSUME NEW p \in Procs, GenerateOk(p) PROVE RowInv' /\ LockInv'
  BY <1>6 DEF GenerateOk
<1>7. ASSUME NEW p \in Procs, GenerateEmpty(p) PROVE RowInv' /\ LockInv'
  BY <1>7 DEF GenerateEmpty
<1>8. ASSUME NEW p \in Procs, Commit(p) PROVE RowInv' /\ LockInv'
  BY <1>8 DEF Commit
<1>9. ASSUME NEW p \in Procs, NEW c \in Coins, Insert(p, c) PROVE RowInv' /\ LockInv'
  BY <1>9 DEF Insert, MayInsert, Inserting, dbVars
<1>10. ASSUME NEW p \in Procs, NEW c \in Coins,
              InsertRejected(p, c) \/ PhoneRejected(p, c) \/ InsertFails(p, c)
       PROVE  RowInv' /\ LockInv'
  BY <1>10 DEF InsertRejected, PhoneRejected, InsertFails, GivesUp, dbVars
<1>11. CASE UNCHANGED vars
  BY <1>11 DEF vars, procVars, dbVars
<1>12. ASSUME NEW p \in Procs,
              CountPanics(p) \/ Crash(p) \/ GenerateEnds(p) \/ Finish(p) \/ ReadFails(p)
                 \/ GenerateFails(p) \/ CommitFails(p) \/ Notify(p) \/ NotifyFails(p)
       PROVE  wallet' = wallet
  BY <1>12 DEF CountPanics, Crash, GenerateEnds, Finish, ReadFails, GenerateFails,
               CommitFails, Notify, NotifyFails, dbVars
<1> QED
  BY Steps, StepKinds, <1>1, <1>2, <1>3, <1>4, <1>5, <1>6, <1>7, <1>8, <1>9, <1>10,
     <1>11, <1>12

LEMMA InitRows == Init => RowsInv
BY DEF Init, RowsInv, CoinInv, RowInv, LockInv

LEMMA RowsCorrect == Spec => [](TypeOK /\ RowsInv)
<1>1. Init => TypeOK /\ RowsInv
  BY InitTyped, InitRows
<1>2. TypeOK /\ RowsInv /\ [Next]_vars => (TypeOK /\ RowsInv)'
  BY StepTyped, StepCoin, StepRows DEF RowsInv
<1> QED
  BY <1>1, <1>2, PTL DEF Spec

-----------------------------------------------------------------------------
(* Nobody is forgotten *)

(* A wallet stays. *)
LEMMA WalletsStay ==
    ASSUME TypeOK, RowsInv, [Next]_vars, NEW c \in Coins, wallet[c] # "none"
    PROVE  wallet'[c] # "none"
<1>1. ASSUME NEW p \in Procs, Commit(p) PROVE wallet'[c] # "none"
  BY <1>1 DEF Commit, TypeOK, RowsInv, CoinInv, RowInv
<1>2. (\E p \in Procs : Commit(p)) \/ wallet' = wallet
  <2>1. ASSUME NEW p \in Handlers, NEW e \in Events, Deliver(p, e) PROVE wallet' = wallet
    BY <2>1 DEF Deliver, dbVars
  <2>2. ASSUME NEW p \in Requests, NEW d \in Coins, Request(p, d) PROVE wallet' = wallet
    BY <2>2 DEF Request, dbVars
  <2>3. ASSUME NEW p \in Procs, NEW d \in Coins,
               Insert(p, d) \/ InsertRejected(p, d) \/ PhoneRejected(p, d)
                  \/ InsertFails(p, d)
        PROVE  wallet' = wallet
    BY <2>3 DEF Insert, InsertRejected, PhoneRejected, InsertFails, GivesUp, dbVars
  <2>4. ASSUME NEW p \in Procs,
               SelectWallets(p) \/ CountWallets(p) \/ CountPanics(p) \/ Finish(p)
                  \/ Crash(p) \/ ReadFails(p)
        PROVE  wallet' = wallet
    BY <2>4 DEF SelectWallets, CountWallets, CountPanics, Finish, Crash, ReadFails, dbVars
  <2>5. ASSUME NEW p \in Procs,
               GenerateOk(p) \/ GenerateEmpty(p) \/ GenerateFails(p) \/ GenerateEnds(p)
                  \/ CommitFails(p) \/ Notify(p) \/ NotifyFails(p)
        PROVE  wallet' = wallet
    BY <2>5 DEF GenerateOk, GenerateEmpty, GenerateFails, GenerateEnds, CommitFails, Notify,
                NotifyFails, dbVars
  <2>6. CASE UNCHANGED vars
    BY <2>6 DEF vars, dbVars
  <2> QED
    BY Steps, <2>1, <2>2, <2>3, <2>4, <2>5, <2>6
<1> QED
  BY <1>1, <1>2

(* What an event holds does not change. *)
LEMMA KindsStay == ASSUME [Next]_vars PROVE kind' = kind
<1>1. ASSUME NEW p \in Handlers, NEW e \in Events, Deliver(p, e) PROVE kind' = kind
  BY <1>1 DEF Deliver
<1>2. ASSUME NEW p \in Requests, NEW c \in Coins, Request(p, c) PROVE kind' = kind
  BY <1>2 DEF Request, eventVars
<1>3. ASSUME NEW p \in Procs, NEW c \in Coins,
             Insert(p, c) \/ InsertRejected(p, c) \/ PhoneRejected(p, c)
                \/ InsertFails(p, c)
      PROVE  kind' = kind
  BY <1>3 DEF Insert, InsertRejected, PhoneRejected, InsertFails, GivesUp, eventVars
<1>4. ASSUME NEW p \in Procs,
             SelectWallets(p) \/ CountWallets(p) \/ GenerateOk(p) \/ GenerateEmpty(p)
                \/ Commit(p) \/ GenerateFails(p) \/ CommitFails(p) \/ Notify(p)
                \/ NotifyFails(p)
      PROVE  kind' = kind
  BY <1>4 DEF SelectWallets, CountWallets, GenerateOk, GenerateEmpty, Commit, GenerateFails,
              CommitFails, Notify, NotifyFails, eventVars
<1>5. ASSUME NEW p \in Procs, CountPanics(p) \/ Crash(p) \/ GenerateEnds(p)
      PROVE  kind' = kind
  BY <1>5, EndsGone DEF CountPanics, Crash, GenerateEnds, Returned, eventVars
<1>6. ASSUME NEW p \in Procs, Finish(p) \/ ReadFails(p) PROVE kind' = kind
  BY <1>6 DEF Finish, ReadFails, Answer, eventVars
<1>7. CASE UNCHANGED vars
  BY <1>7 DEF vars, eventVars
<1> QED
  BY Steps, <1>1, <1>2, <1>3, <1>4, <1>5, <1>6, <1>7

(* A handler without an error leaves no coin behind. *)
LEMMA StepServed == TypeOK /\ RowsInv /\ ServedInv /\ [Next]_vars => ServedInv'
<1> SUFFICES ASSUME TypeOK, RowsInv, ServedInv, [Next]_vars PROVE ServedInv'
  OBVIOUS
<1>1. kind' = kind /\ \A c \in Coins : wallet[c] # "none" => wallet'[c] # "none"
  BY KindsStay, WalletsStay
<1> USE <1>1 DEF TypeOK, ServedInv, Goto, Procs
<1>2. ASSUME NEW p \in Handlers, NEW e \in Events, Deliver(p, e) PROVE ServedInv'
  BY <1>2 DEF Deliver
<1>3. ASSUME NEW p \in Requests, NEW c \in Coins, Request(p, c) PROVE ServedInv'
  BY <1>3, ProcsAssumption DEF Request
<1>4. ASSUME NEW p \in Procs, SelectWallets(p) PROVE ServedInv'
  BY <1>4 DEF SelectWallets
<1>5. ASSUME NEW p \in Procs, CountWallets(p) PROVE ServedInv'
  BY <1>5 DEF CountWallets
<1>6. ASSUME NEW S, Gone(S) PROVE ServedInv'
  BY <1>6, GoneOthers
<1>7. ASSUME NEW p \in Procs, GenerateOk(p) \/ GenerateEmpty(p) \/ Commit(p)
      PROVE  ServedInv'
  BY <1>7 DEF GenerateOk, GenerateEmpty, Commit
<1>8. ASSUME NEW p \in Procs, Leaves(p, TRUE), event' = event PROVE ServedInv'
  BY <1>8 DEF Leaves
<1>9. ASSUME NEW p \in Procs, Notify(p) PROVE ServedInv'
  <2>1. wallet[coin[p]] # "none"
    BY <1>9 DEF Notify, RowsInv, RowInv
  <2> QED
    BY <1>9, <2>1 DEF Notify, Leaves
<1>10. ASSUME NEW p \in Procs, NEW c \in Coins, Insert(p, c) PROVE ServedInv'
  BY <1>10 DEF Insert, MayInsert
<1>11. ASSUME NEW p \in Procs, NEW c \in Coins, InsertRejected(p, c) PROVE ServedInv'
  BY <1>11 DEF InsertRejected, MayInsert
<1>12. ASSUME NEW p \in Procs, NEW c \in Coins, PhoneRejected(p, c) \/ InsertFails(p, c)
       PROVE  ServedInv'
  BY <1>12 DEF PhoneRejected, InsertFails, GivesUp
<1>13. CASE UNCHANGED vars
  BY <1>13 DEF vars, procVars
<1>14. ASSUME NEW p \in Procs, GenerateFails(p) \/ CommitFails(p) \/ NotifyFails(p)
       PROVE  Leaves(p, TRUE) /\ event' = event
  BY <1>14 DEF GenerateFails, CommitFails, NotifyFails
<1> QED
  BY Steps, StepKinds, <1>2, <1>3, <1>4, <1>5, <1>6, <1>7, <1>8, <1>9, <1>10, <1>11,
     <1>12, <1>13, <1>14

(* An event goes when it can never be handled, or when a handler with      *)
(* nothing left to do and no error answers.                                *)
LEMMA EventGoes ==
    ASSUME TypeOK, [Next]_vars, NEW e \in Events, message'[e] = "gone"
    PROVE  \/ message[e] = "gone"
           \/ kind[e] \in {"malformed", "empty"}
           \/ \E p \in Handlers : pc[p] = "choose" /\ todo[p] = {} /\ ~failed[p] /\ event[p] = e
<1> USE DEF TypeOK
<1>1. ASSUME NEW p \in Handlers, NEW d \in Events, Deliver(p, d)
      PROVE  message[e] = "gone" \/ kind[e] \in {"malformed", "empty"}
  BY <1>1 DEF Deliver
<1>2. ASSUME NEW p \in Requests, NEW c \in Coins, Request(p, c) PROVE message[e] = "gone"
  BY <1>2 DEF Request, eventVars
<1>3. ASSUME NEW p \in Procs, NEW c \in Coins,
             Insert(p, c) \/ InsertRejected(p, c) \/ PhoneRejected(p, c)
                \/ InsertFails(p, c)
      PROVE  message[e] = "gone"
  BY <1>3 DEF Insert, InsertRejected, PhoneRejected, InsertFails, GivesUp, eventVars
<1>4. ASSUME NEW p \in Procs,
             SelectWallets(p) \/ CountWallets(p) \/ GenerateOk(p) \/ GenerateEmpty(p)
                \/ Commit(p) \/ GenerateFails(p) \/ CommitFails(p) \/ Notify(p)
                \/ NotifyFails(p)
      PROVE  message[e] = "gone"
  BY <1>4 DEF SelectWallets, CountWallets, GenerateOk, GenerateEmpty, Commit, GenerateFails,
              CommitFails, Notify, NotifyFails, eventVars
<1>5. ASSUME NEW p \in Procs, CountPanics(p) \/ Crash(p) \/ GenerateEnds(p)
      PROVE  message[e] = "gone"
  BY <1>5, EndsGone DEF CountPanics, Crash, GenerateEnds, Returned, eventVars
<1>6. ASSUME NEW p \in Procs, Finish(p)
      PROVE  message[e] = "gone"
                \/ (p \in Handlers /\ pc[p] = "choose" /\ todo[p] = {} /\ ~failed[p]
                       /\ event[p] = e)
  BY <1>6 DEF Finish, Answer, eventVars
<1>7. ASSUME NEW p \in Procs, ReadFails(p) PROVE message[e] = "gone"
  BY <1>7 DEF ReadFails, Answer
<1>8. CASE UNCHANGED vars
  BY <1>8 DEF vars, eventVars
<1> QED
  BY Steps, <1>1, <1>2, <1>3, <1>4, <1>5, <1>6, <1>7, <1>8

LEMMA StepAcked ==
    TypeOK /\ RowsInv /\ AckedInv /\ [Next]_vars => AckedMeansServed'
<1> SUFFICES ASSUME TypeOK, RowsInv, AckedInv, [Next]_vars,
                    NEW e \in Events, message'[e] = "gone", kind'[e] = "good",
                    NEW c \in Coins
             PROVE  wallet'[c] # "none"
  BY DEF AckedMeansServed
<1>1. kind[e] = "good"
  BY KindsStay
<1>2. wallet[c] # "none"
  BY <1>1, EventGoes DEF AckedInv, ServedInv, AckedMeansServed
<1> QED
  BY <1>2, WalletsStay

LEMMA InitAcked == Init => AckedInv
BY DEF Init, AckedInv, ServedInv, AckedMeansServed, Procs

(* A registration that is given up has been served (AckedMeansServed):     *)
(* for any number of deliveries, handlers, coins and failures.             *)
THEOREM AckedServed == Spec => []AckedMeansServed
<1>1. AckedInv /\ TypeOK /\ RowsInv /\ [Next]_vars => AckedInv'
  BY StepServed, StepAcked DEF AckedInv
<1>2. AckedInv => AckedMeansServed
  BY DEF AckedInv
<1> QED
  BY <1>1, <1>2, InitAcked, RowsCorrect, PTL DEF Spec

-----------------------------------------------------------------------------
(* One account of a coin *)

(* Accounts that do not grow, of a coin whose wallet and open row stay. *)
LEMMA NotWastedStays ==
    ASSUME TypeOK, RowsInv, AccountsNotWasted, [Next]_vars,
           accounts' = accounts, failures' \in Nat, failures' >= failures,
           NEW c \in Coins,
           failures' = failures => (wallet[c] = "account" => wallet'[c] = "account"),
           failures' = failures => (InHand(c) => InHand(c)' \/ wallet'[c] = "account")
    PROVE  accounts'[c] <= failures' + (IF wallet'[c] = "account" \/ InHand(c)' THEN 1 ELSE 0)
<1>1. accounts[c] \in Nat /\ failures \in Nat
  BY DEF TypeOK
<1>2. accounts[c] <= failures + (IF wallet[c] = "account" \/ InHand(c) THEN 1 ELSE 0)
  BY DEF AccountsNotWasted
<1>3. CASE failures' = failures
  BY <1>1, <1>2, <1>3
<1>4. CASE failures' > failures
  BY <1>1, <1>2, <1>4
<1> QED
  BY <1>1, <1>3, <1>4

(* A failure pays for one account. *)
LEMMA NotWastedByFailure ==
    ASSUME TypeOK, RowsInv, AccountsNotWasted, failures' = failures + 1,
           NEW p \in Procs, pc[p] \in {"generate", "commit"}, coin[p] \in Coins,
           pc[p] = "generate", Account(coin[p])
    PROVE  AccountsNotWasted'
<1> SUFFICES ASSUME NEW c \in Coins
             PROVE  accounts'[c] <=
                       failures' + (IF wallet'[c] = "account" \/ InHand(c)' THEN 1 ELSE 0)
  BY DEF AccountsNotWasted
<1>1. accounts[c] \in Nat /\ accounts'[c] \in Nat /\ failures \in Nat
  BY DEF TypeOK, Account
<1>2. accounts[c] <= failures + (IF wallet[c] = "account" \/ InHand(c) THEN 1 ELSE 0)
  BY DEF AccountsNotWasted
<1>3. CASE c = coin[p]
  <2>1. wallet[c] = "none" /\ ~InHand(c)
    BY <1>3 DEF RowsInv, RowInv, LockInv, InHand
  <2>2. accounts'[c] <= accounts[c] + 1
    BY <1>1 DEF Account, TypeOK
  <2> QED
    BY <1>1, <1>2, <2>1, <2>2
<1>4. CASE c # coin[p]
  <2>1. accounts'[c] = accounts[c]
    BY <1>4 DEF Account, TypeOK
  <2> QED
    BY <1>1, <1>2, <2>1
<1> QED
  BY <1>3, <1>4

LEMMA StepNotWasted ==
    TypeOK /\ RowsInv /\ AccountsNotWasted /\ [Next]_vars => AccountsNotWasted'
<1> SUFFICES ASSUME TypeOK, RowsInv, AccountsNotWasted, [Next]_vars
             PROVE  AccountsNotWasted'
  OBVIOUS
<1>a. failures \in Nat /\ failures' \in Nat
  BY StepTyped DEF TypeOK, RowsInv
<1>1. ASSUME accounts' = accounts, failures' >= failures,
             failures' = failures => wallet' = wallet,
             failures' = failures =>
                \A q \in Procs : pc[q] = "commit" =>
                   pc'[q] = "commit" /\ coin'[q] = coin[q] /\ made'[q] = made[q]
      PROVE  AccountsNotWasted'
  <2>1. ASSUME NEW c \in Coins, failures' = failures, InHand(c) PROVE InHand(c)'
    BY <1>1, <2>1 DEF InHand
  <2> QED
    BY <1>a, <1>1, <2>1, NotWastedStays DEF AccountsNotWasted
<1> USE <1>a DEF TypeOK, Goto, Procs
<1>2. ASSUME NEW p \in Handlers, NEW e \in Events, Deliver(p, e) PROVE AccountsNotWasted'
  BY <1>1, <1>2 DEF Deliver, dbVars
<1>3. ASSUME NEW p \in Requests, NEW c \in Coins, Request(p, c) PROVE AccountsNotWasted'
  BY <1>1, <1>3 DEF Request, dbVars
<1>4. ASSUME NEW p \in Procs, SelectWallets(p) \/ CountWallets(p) PROVE AccountsNotWasted'
  BY <1>1, <1>4 DEF SelectWallets, CountWallets, dbVars
<1>5. ASSUME NEW p \in Procs, CountPanics(p) \/ Crash(p) \/ CommitFails(p)
                                 \/ NotifyFails(p)
      PROVE  AccountsNotWasted'
  <2>1. accounts' = accounts /\ failures' = failures + 1
    BY <1>5 DEF CountPanics, Crash, CommitFails, NotifyFails, Fails, dbVars
  <2> QED
    BY <1>1, <2>1
<1>6. ASSUME NEW p \in Procs, ReadFails(p) PROVE AccountsNotWasted'
  <2>1. accounts' = accounts /\ failures' = failures + 1
    BY <1>6 DEF ReadFails, Fails, dbVars
  <2> QED
    BY <1>1, <2>1
<1>7. ASSUME NEW p \in Procs, Finish(p) PROVE AccountsNotWasted'
  <2>1. Gone({p}) /\ pc[p] = "choose" /\ UNCHANGED <<accounts, wallet, failures>>
    BY <1>7 DEF Finish, Answer, dbVars
  <2>2. \A q \in Procs : pc[q] = "commit" =>
           pc'[q] = "commit" /\ coin'[q] = coin[q] /\ made'[q] = made[q]
    BY <2>1, GoneOthers
  <2> QED
    BY <1>1, <2>1, <2>2
<1>8. ASSUME NEW p \in Procs, Notify(p) PROVE AccountsNotWasted'
  BY <1>1, <1>8 DEF Notify, Leaves
<1>9. ASSUME NEW p \in Procs, GenerateFails(p) \/ GenerateEmpty(p) \/ GenerateEnds(p)
      PROVE  AccountsNotWasted'
  <2>1. pc[p] = "generate" /\ Account(coin[p]) /\ failures' = failures + 1
    BY <1>9 DEF GenerateFails, GenerateEmpty, GenerateEnds, Fails
  <2>2. coin[p] \in Coins
    BY <2>1 DEF RowsInv, CoinInv
  <2> QED
    BY <2>1, <2>2, NotWastedByFailure
<1>10. ASSUME NEW p \in Procs, GenerateOk(p) PROVE AccountsNotWasted'
  <2> SUFFICES ASSUME NEW c \in Coins
               PROVE  accounts'[c] <=
                         failures' + (IF wallet'[c] = "account" \/ InHand(c)' THEN 1 ELSE 0)
    BY DEF AccountsNotWasted
  <2>1. accounts[c] <= failures + (IF wallet[c] = "account" \/ InHand(c) THEN 1 ELSE 0)
    BY DEF AccountsNotWasted
  <2>2. wallet' = wallet /\ failures' = failures /\ coin' = coin /\ pc[p] = "generate"
    BY <1>10 DEF GenerateOk
  <2>3. CASE c = coin[p]
    <3>1. wallet[c] = "none" /\ ~InHand(c)
      BY <2>2, <2>3 DEF RowsInv, RowInv, LockInv, InHand
    <3>2. accounts'[c] = accounts[c] + 1 /\ InHand(c)'
      BY <1>10, <2>3 DEF GenerateOk, InHand
    <3> QED
      BY <2>1, <2>2, <3>1, <3>2
  <2>4. CASE c # coin[p]
    <3>1. accounts'[c] = accounts[c] /\ (InHand(c)' <=> InHand(c))
      BY <1>10, <2>4 DEF GenerateOk, InHand
    <3> QED
      BY <2>1, <2>2, <3>1
  <2> QED
    BY <2>3, <2>4
<1>11. ASSUME NEW p \in Procs, Commit(p) PROVE AccountsNotWasted'
  <2>1. /\ accounts' = accounts /\ failures' = failures /\ pc[p] = "commit"
        /\ coin[p] \in Coins /\ wallet[coin[p]] = "none"
    BY <1>11 DEF Commit, RowsInv, CoinInv, RowInv
  <2>2. ASSUME NEW c \in Coins, wallet[c] = "account" PROVE wallet'[c] = "account"
    BY <1>11, <2>1, <2>2 DEF Commit
  <2>3. ASSUME NEW c \in Coins, InHand(c) PROVE InHand(c)' \/ wallet'[c] = "account"
    <3>1. CASE c = coin[p]
      <4>1. made[p] = "account"
        BY <2>1, <2>3, <3>1 DEF InHand, RowsInv, LockInv
      <4> QED
        BY <1>11, <2>1, <3>1, <4>1 DEF Commit
    <3>2. CASE c # coin[p]
      BY <1>11, <2>1, <2>3, <3>2 DEF Commit, InHand
    <3> QED
      BY <3>1, <3>2
  <2> QED
    BY <2>1, <2>2, <2>3, NotWastedStays DEF AccountsNotWasted
<1>12. ASSUME NEW p \in Procs, NEW c \in Coins,
              Insert(p, c) \/ InsertRejected(p, c) \/ PhoneRejected(p, c)
       PROVE  AccountsNotWasted'
  BY <1>1, <1>12 DEF Insert, MayInsert, InsertRejected, PhoneRejected, GivesUp, dbVars
<1>13. ASSUME NEW p \in Procs, NEW c \in Coins, InsertFails(p, c)
       PROVE  AccountsNotWasted'
  BY <1>1, <1>13 DEF InsertFails, GivesUp, Fails, dbVars
<1>14. CASE UNCHANGED vars
  BY <1>1, <1>14 DEF vars, procVars, dbVars
<1> QED
  BY Steps, <1>2, <1>3, <1>4, <1>5, <1>6, <1>7, <1>8, <1>9, <1>10, <1>11, <1>12, <1>13, <1>14

LEMMA InitNotWasted == Init => AccountsNotWasted
BY DEF Init, AccountsNotWasted

(* Concurrent creations of a wallet make one account, and every failure    *)
(* loses at most one (AccountsNotWasted).                                  *)
THEOREM OneAccount == Spec => []AccountsNotWasted
BY InitNotWasted, StepNotWasted, RowsCorrect, PTL DEF Spec

-----------------------------------------------------------------------------
(* The processing is told *)

LEMMA StepTold ==
    TypeOK /\ RowsInv /\ ToldUnlessFailed /\ [Next]_vars => ToldUnlessFailed'
<1> SUFFICES ASSUME TypeOK, RowsInv, ToldUnlessFailed, [Next]_vars
             PROVE  ToldUnlessFailed'
  OBVIOUS
<1>a. failures \in Nat
  BY DEF TypeOK
<1>1. ASSUME failures' = failures + 1 PROVE ToldUnlessFailed'
  BY <1>a, <1>1 DEF ToldUnlessFailed
<1>2. ASSUME wallet' = wallet, failures' = failures, told \subseteq told',
             \A q \in Procs : pc[q] = "notify" =>
                 (pc'[q] = "notify" /\ coin'[q] = coin[q]) \/ coin[q] \in told'
      PROVE  ToldUnlessFailed'
  BY <1>2 DEF ToldUnlessFailed
<1> USE DEF TypeOK, Goto
<1>3. ASSUME NEW p \in Handlers, NEW e \in Events, Deliver(p, e) PROVE ToldUnlessFailed'
  BY <1>2, <1>3 DEF Deliver, dbVars, Procs
<1>4. ASSUME NEW p \in Requests, NEW c \in Coins, Request(p, c) PROVE ToldUnlessFailed'
  BY <1>2, <1>4 DEF Request, dbVars, Procs
<1>5. ASSUME NEW p \in Procs, SelectWallets(p) \/ CountWallets(p) PROVE ToldUnlessFailed'
  BY <1>2, <1>5 DEF SelectWallets, CountWallets, dbVars
<1>6. ASSUME NEW p \in Procs, GenerateOk(p) PROVE ToldUnlessFailed'
  BY <1>2, <1>6 DEF GenerateOk
<1>7. ASSUME NEW p \in Procs, Finish(p) PROVE ToldUnlessFailed'
  <2>1. Gone({p}) /\ pc[p] = "choose" /\ UNCHANGED <<wallet, told, failures>>
    BY <1>7 DEF Finish, Answer, dbVars
  <2>2. \A q \in Procs : pc[q] = "notify" => pc'[q] = "notify" /\ coin'[q] = coin[q]
    BY <2>1, GoneOthers
  <2> QED
    BY <1>2, <2>1, <2>2
<1>8. ASSUME NEW p \in Procs, Commit(p) PROVE ToldUnlessFailed'
  <2> SUFFICES ASSUME NEW c \in Coins, wallet'[c] # "none", ~(failures > 0)
               PROVE  c \in told \/ \E q \in Procs : pc'[q] = "notify" /\ coin[q] = c
    BY <1>8 DEF ToldUnlessFailed, Commit
  <2>1. CASE c = coin[p]
    BY <1>8, <2>1 DEF Commit
  <2>2. CASE c # coin[p]
    <3>1. wallet[c] # "none"
      BY <1>8, <2>2 DEF Commit
    <3> QED
      BY <1>8, <3>1 DEF ToldUnlessFailed, Commit
  <2> QED
    BY <2>1, <2>2
<1>9. ASSUME NEW p \in Procs, Notify(p) PROVE ToldUnlessFailed'
  BY <1>2, <1>9 DEF Notify, Leaves
<1>10. ASSUME NEW p \in Procs, NEW c \in Coins,
              Insert(p, c) \/ InsertRejected(p, c) \/ PhoneRejected(p, c)
       PROVE  ToldUnlessFailed'
  BY <1>2, <1>10 DEF Insert, MayInsert, InsertRejected, PhoneRejected, GivesUp, dbVars
<1>11. ASSUME NEW p \in Procs, NEW c \in Coins, InsertFails(p, c)
       PROVE  failures' = failures + 1
  BY <1>11 DEF InsertFails, Fails
<1>12. ASSUME NEW p \in Procs,
              CountPanics(p) \/ Crash(p) \/ ReadFails(p) \/ GenerateEmpty(p)
                 \/ GenerateFails(p) \/ GenerateEnds(p) \/ CommitFails(p) \/ NotifyFails(p)
       PROVE  failures' = failures + 1
  BY <1>12 DEF CountPanics, Crash, ReadFails, GenerateEmpty, GenerateFails, GenerateEnds,
               CommitFails, NotifyFails, Fails
<1>13. CASE UNCHANGED vars
  BY <1>2, <1>13 DEF vars, procVars, dbVars
<1> QED
  BY Steps, <1>1, <1>3, <1>4, <1>5, <1>6, <1>7, <1>8, <1>9, <1>10, <1>11, <1>12, <1>13

LEMMA InitTold == Init => ToldUnlessFailed
BY DEF Init, ToldUnlessFailed

(* Without a failure the processing is told of every wallet                *)
(* (ToldUnlessFailed), whichever of listener and server has created it.    *)
THEOREM ToldOfWallets == Spec => []ToldUnlessFailed
BY InitTold, StepTold, RowsCorrect, PTL DEF Spec

-----------------------------------------------------------------------------
(* Wallets without an address *)

(* An empty account is in the hands of who has a captured panic of zam's. *)
EmptyInv ==
    \A p \in Procs :
        pc[p] = "commit" /\ made[p] = "empty" =>
            Reporting # {} /\ Adapter[coin[p]] = "zam"

LEMMA EmptyCreated ==
    ASSUME NEW c, NEW reporting \in BOOLEAN, "empty" \in Create(c, reporting)
    PROVE  reporting /\ Adapter[c] = "zam"
BY DEF Create, Through, Getter, SafeInvoke, Created

LEMMA StepEmpty ==
    TypeOK /\ RowsInv /\ EmptyInv /\ WalletHasAccount /\ [Next]_vars
        => EmptyInv' /\ WalletHasAccount'
<1> SUFFICES ASSUME TypeOK, RowsInv, EmptyInv, WalletHasAccount, [Next]_vars
             PROVE  EmptyInv' /\ WalletHasAccount'
  OBVIOUS
<1>1. ASSUME wallet' = wallet,
             \A q \in Procs : pc'[q] = "commit" /\ made'[q] = "empty" =>
                 \/ pc[q] = "commit" /\ made[q] = "empty" /\ coin'[q] = coin[q]
                 \/ Reporting # {} /\ Adapter[coin'[q]] = "zam"
      PROVE  EmptyInv' /\ WalletHasAccount'
  BY <1>1 DEF EmptyInv, WalletHasAccount
<1> USE DEF TypeOK, Goto
<1>2. ASSUME NEW p \in Handlers, NEW e \in Events, Deliver(p, e)
      PROVE  EmptyInv' /\ WalletHasAccount'
  BY <1>1, <1>2 DEF Deliver, dbVars, Procs
<1>3. ASSUME NEW p \in Requests, NEW c \in Coins, Request(p, c)
      PROVE  EmptyInv' /\ WalletHasAccount'
  BY <1>1, <1>3 DEF Request, dbVars, Procs
<1>4. ASSUME NEW p \in Procs, SelectWallets(p) \/ CountWallets(p)
      PROVE  EmptyInv' /\ WalletHasAccount'
  BY <1>1, <1>4 DEF SelectWallets, CountWallets, dbVars
<1>5. ASSUME NEW S, Gone(S), wallet' = wallet PROVE EmptyInv' /\ WalletHasAccount'
  BY <1>1, <1>5, GoneOthers
<1>6. ASSUME NEW p \in Procs, NEW error \in BOOLEAN, Leaves(p, error), wallet' = wallet
      PROVE  EmptyInv' /\ WalletHasAccount'
  BY <1>1, <1>6 DEF Leaves
<1>7. ASSUME NEW p \in Procs, GenerateOk(p) PROVE EmptyInv' /\ WalletHasAccount'
  BY <1>1, <1>7 DEF GenerateOk
<1>8. ASSUME NEW p \in Procs, GenerateEmpty(p) PROVE EmptyInv' /\ WalletHasAccount'
  <2>1. p \in Reporting /\ Adapter[coin[p]] = "zam"
    <3>1. (p \in Reporting) \in BOOLEAN /\ "empty" \in Create(coin[p], p \in Reporting)
      BY <1>8 DEF GenerateEmpty
    <3> HIDE DEF TypeOK
    <3> QED
      BY <3>1, EmptyCreated, Zenon
  <2> QED
    BY <1>1, <1>8, <2>1 DEF GenerateEmpty
<1>9. ASSUME NEW p \in Procs, Commit(p) PROVE EmptyInv' /\ WalletHasAccount'
  BY <1>9 DEF Commit, EmptyInv, WalletHasAccount
<1>10. ASSUME NEW p \in Procs, NEW c \in Coins,
              Insert(p, c) \/ InsertRejected(p, c) \/ PhoneRejected(p, c)
                 \/ InsertFails(p, c)
       PROVE  EmptyInv' /\ WalletHasAccount'
  BY <1>1, <1>10 DEF Insert, MayInsert, InsertRejected, PhoneRejected, InsertFails, GivesUp,
                     dbVars
<1>11. CASE UNCHANGED vars
  BY <1>1, <1>11 DEF vars, procVars, dbVars
<1>12. ASSUME NEW p \in Procs,
              CountPanics(p) \/ Crash(p) \/ GenerateEnds(p) \/ Finish(p) \/ ReadFails(p)
                 \/ GenerateFails(p) \/ CommitFails(p) \/ Notify(p) \/ NotifyFails(p)
       PROVE  wallet' = wallet
  BY <1>12 DEF CountPanics, Crash, GenerateEnds, Finish, ReadFails, GenerateFails,
               CommitFails, Notify, NotifyFails, dbVars
<1> QED
  BY Steps, StepKinds, <1>2, <1>3, <1>4, <1>5, <1>6, <1>7, <1>8, <1>9, <1>10, <1>11, <1>12

LEMMA InitEmpty == Init => EmptyInv /\ WalletHasAccount
BY DEF Init, EmptyInv, WalletHasAccount

(* Only a captured panic of zam's adapter leaves a wallet without an       *)
(* address (WalletHasAccount).                                             *)
THEOREM EmptyNeedsPanic == Spec => []WalletHasAccount
BY InitEmpty, StepEmpty, RowsCorrect, PTL DEF Spec

===================================================================================
