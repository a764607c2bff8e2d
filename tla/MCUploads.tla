----------------------------- MODULE MCUploads -----------------------------
(* An instance of Uploads for TLC: a batch of two files and its retry, and a   *)
(* file of another conversation.                                              *)
EXTENDS Uploads, TLC

CONSTANTS f1, f2, f3, c1, c2, c3, s1, s2

MCSessionOf == (c1 :> s1) @@ (c2 :> s1) @@ (c3 :> s2)
MCFilesOf   == (c1 :> {f1, f2}) @@ (c2 :> {f1, f2}) @@ (c3 :> {f3})

\* The event comes to the batch's conversation; the other one shares its counters
\* and its slot.
Undisturbed == session'[s2] = session[s2] /\ ~Withdraw(f3)

MCSpec == Init /\ [][Next /\ Undisturbed]_vars /\ Fairness
=============================================================================
