---------------------------- MODULE MCSpendCap ----------------------------
(* Instance of SpendCap for TLC: two attempts of one conversation and one of   *)
(* another, on one account.                                                    *)
EXTENDS SpendCap, TLC

CONSTANTS a1, a2, a3, s1, s2

TwoSessions == (a1 :> s1) @@ (a2 :> s1) @@ (a3 :> s2)
=============================================================================
