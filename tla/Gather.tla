---------------------------------- MODULE Gather ----------------------------------
(***************************************************************************)
(* What a caller of one of the concurrent node queries may rely on: the    *)
(* query is put to every item, and the answer comes once all have          *)
(* answered.  It is an error if one of them failed, and otherwise holds    *)
(* the value of every item that has one.                                   *)
(***************************************************************************)
CONSTANT Jobs

VARIABLES
    phase,    \* of the call
    jobs,     \* the items asked about
    outcome,  \* what became of each
    result,   \* what the call has returned
    content   \* the items whose values it has returned

vars == <<phase, jobs, outcome, result, content>>

Init ==
    /\ phase = "idle" /\ jobs = {}
    /\ outcome = [j \in Jobs |-> "none"]
    /\ result = "none" /\ content = {}

Begin ==
    /\ phase = "idle" /\ phase' = "asking"
    /\ jobs' \in SUBSET Jobs
    /\ UNCHANGED <<outcome, result, content>>

Decide(j) ==
    /\ phase = "asking" /\ j \in jobs /\ outcome[j] = "none"
    /\ \E o \in {"value", "nothing", "error"} :
          outcome' = [outcome EXCEPT ![j] = o]
    /\ UNCHANGED <<phase, jobs, result, content>>

(* The call has nobody to wait for, and waits for ever. *)
Hang ==
    /\ phase = "asking" /\ phase' = "hung"
    /\ \A j \in jobs : outcome[j] = "none"
    /\ UNCHANGED <<jobs, outcome, result, content>>

Answer ==
    /\ phase = "asking" /\ phase' = "returned"
    /\ \A j \in jobs : outcome[j] # "none"
    /\ \/ /\ \E j \in jobs : outcome[j] = "error"
          /\ result' = "error" /\ content' = {}
       \/ /\ \A j \in jobs : outcome[j] # "error"
          /\ result' = "ok" /\ content' = {j \in jobs : outcome[j] = "value"}
    /\ UNCHANGED <<jobs, outcome>>

Leave ==
    /\ phase = "returned" /\ phase' = "idle"
    /\ jobs' = {} /\ outcome' = [j \in Jobs |-> "none"]
    /\ result' = "none" /\ content' = {}

Next == Begin \/ (\E j \in Jobs : Decide(j)) \/ Hang \/ Answer \/ Leave

Spec == Init /\ [][Next]_vars
===================================================================================
