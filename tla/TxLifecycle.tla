------------------------------ MODULE TxLifecycle ------------------------------
(***************************************************************************)
(* What the service promises of the status of a wallet transaction, as the *)
(* other processes and the API's clients see it, i.e. as committed in the  *)
(* table txs.  The names of the statuses are those of the table            *)
(* tx_statuses; "absent" stands for an id no committed row has.            *)
(*                                                                         *)
(* One step of the system may move several rows (NotifyUserCreatesWallet,  *)
(* OnCheckOutdated and watchConfirmations all commit sets of rows), each   *)
(* along one edge.                                                         *)
(***************************************************************************)
CONSTANT TxIds

VARIABLE status

Statuses == {"absent", "pending", "waiting", "success", "decline", "cancel"}

(***************************************************************************)
(* A row is first seen with the outcome of its first steps, waits for the  *)
(* recipient's wallet ("pending") or for the blockchain ("waiting"), and   *)
(* never leaves "success", "decline" and "cancel".                         *)
(***************************************************************************)
Edges ==
    {"absent"} \X {"pending", "waiting", "success", "decline"}
        \cup {"pending"} \X {"success", "cancel"}
        \cup {"waiting"} \X {"success", "decline"}

Init == status = [t \in TxIds |-> "absent"]

Next ==
    /\ status' \in [TxIds -> Statuses]
    /\ \A t \in TxIds :
          status'[t] # status[t] => <<status[t], status'[t]>> \in Edges

Spec == Init /\ [][Next]_status
================================================================================
