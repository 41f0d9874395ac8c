------------------------------ MODULE MCProcessing ------------------------------
(* Small instances of Processing for TLC. *)
EXTENDS Processing, TLC

CONSTANTS alice, bob, carol, shop, junk, t1, t2, t3, p1, p2

(* All coins arrive at alice's address. *)
AliceHasTwo == [w \in Phones |-> IF w = alice THEN 2 ELSE 0]

SymmetryIdsProcs == Permutations(TxIds) \cup Permutations(Procs)
================================================================================
