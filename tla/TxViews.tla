---------------------------------- MODULE TxViews ----------------------------------
(***************************************************************************)
(* How the API shows rows of txs to one of the parties: alone, in a list,  *)
(* and in groups of one period with their totals.  Pure operators, no      *)
(* state.                                                                  *)
(*                                                                         *)
(* A row is as in TxModel, with its coin, its id and the time created; a   *)
(* wallet is named by its owner.  Time is a number, a period its quotient. *)
(***************************************************************************)
EXTENDS Integers, Sequences, FiniteSetsExt, Functions, Rates

CONSTANT Nobody

Model == INSTANCE TxModel WITH Coin <- "BTC", Phones <- {}, Foreign <- {}, TxIds <- {},
                               Amounts <- {}, MaxFee <- 0

(* An incoming external transaction has no wallet that it comes from. *)
IsOutgoingForSide(tx, phone) ==
    ~(tx.type = "external" /\ tx.from = Nobody) /\ tx.from = phone

\* Mutant of ToView: the wallet is always the sender's.
ViewOfSender(tx, phone, rates) ==
    [id |-> tx.id, wallet |-> tx.from,
     direction |-> IF IsOutgoingForSide(tx, phone) THEN "outgoing" ELSE "incoming",
     party |-> Nobody, status |-> tx.status, coin |-> tx.coin, amount |-> tx.amount,
     fiat |-> InFiat(tx.coin, tx.amount, rates)]

(* The wallet is the party's own.  The other party is shown by what is     *)
(* known of it; a sender outside is shown by the address that was paid,    *)
(* which is the party's own.                                               *)
ToView(tx, phone, rates) ==
    LET outgoing == IsOutgoingForSide(tx, phone)
        recipient == IF Model!SendByPhone(tx) THEN tx.toPhone
                     ELSE IF Model!SendByWallet(tx) THEN tx.toWallet ELSE tx.toAddress
        sender == IF tx.type = "external" THEN tx.toWallet ELSE tx.from
    IN  [id |-> tx.id,
         wallet |-> IF outgoing THEN tx.from ELSE tx.toWallet,
         direction |-> IF outgoing THEN "outgoing" ELSE "incoming",
         party |-> IF outgoing THEN recipient ELSE sender,
         status |-> tx.status, coin |-> tx.coin, amount |-> tx.amount,
         fiat |-> InFiat(tx.coin, tx.amount, rates)]

ToAllView(txs, phone, rates) == [i \in DOMAIN txs |-> ToView(txs[i], phone, rates)]

-----------------------------------------------------------------------------
(* ToGroupViews *)

PeriodLength == 2

(* Begin and end of the period of a time in the zone; an end of the        *)
(* library is two nanoseconds early, which leaves the next begin within.   *)
GroupStart(time, zone) == ((time + zone) \div PeriodLength) * PeriodLength - zone
GroupEnd(time, zone) == GroupStart(time, zone) + PeriodLength

\* Mutant of OutOfGroup: only the end is looked at, as if the list were ascending.
AfterGroup(tx, first, zone) == tx.created > GroupEnd(first.created, zone)

OutOfGroup(tx, first, zone) ==
    \/ tx.created > GroupEnd(first.created, zone)
    \/ tx.created < GroupStart(first.created, zone)

(* A transaction that gives its amount back does not count. *)
FiatMoved(tx, phone, rates) ==
    IF ~Model!IsHoldsAmount(tx) THEN 0
    ELSE IF IsOutgoingForSide(tx, phone) THEN 0 - InFiat(tx.coin, tx.amount, rates)
    ELSE InFiat(tx.coin, tx.amount, rates)

FiatTotal(txs, phone, rates) ==
    SumFunctionOnSet([i \in DOMAIN txs |-> FiatMoved(txs[i], phone, rates)], DOMAIN txs)

Group(txs, phone, rates, zone) ==
    [start |-> GroupStart(txs[1].created, zone),
     end |-> GroupEnd(txs[1].created, zone),
     total |-> FiatTotal(txs, phone, rates),
     items |-> ToAllView(txs, phone, rates)]

(* A group that begins with transaction i goes on to the first one out of  *)
(* it, which begins the next.                                              *)
NextGroup(txs, i, zone) ==
    Min({j \in i + 1 .. Len(txs) : OutOfGroup(txs[j], txs[i], zone)} \cup {Len(txs) + 1})

GroupFrom(txs, i, phone, rates, zone) ==
    Group(SubSeq(txs, i, NextGroup(txs, i, zone) - 1), phone, rates, zone)

ToGroupViews(txs, phone, rates, zone) ==
    LET groups[i \in 1 .. Len(txs) + 1] ==
            IF i > Len(txs) THEN <<>>
            ELSE <<GroupFrom(txs, i, phone, rates, zone)>> \o groups[NextGroup(txs, i, zone)]
    IN  groups[1]

(* The total of each group is converted by the rates of its coins, and     *)
(* shown in the default coin: one that is missing is a nil dereference.    *)
GroupsNeed(txs) ==
    {DefaultCoin} \cup {txs[i].coin : i \in {j \in DOMAIN txs : Model!IsHoldsAmount(txs[j])}}
===================================================================================
