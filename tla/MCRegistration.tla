----------------------------- MODULE MCRegistration -----------------------------
(* Small instances of Registration for TLC. *)
EXTENDS Registration

CONSTANTS e1, e2, h1, h2, r

OneIsGood == {f \in [Events -> {"good", "malformed", "empty", "badPhone"}] : f[e1] = "good"}

BtcAndZam == [c \in {"BTC", "ZAM"} |-> IF c = "BTC" THEN "btc" ELSE "zam"]
=================================================================================
