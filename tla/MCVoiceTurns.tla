---------------------------- MODULE MCVoiceTurns ----------------------------
(* Instance of VoiceTurns for TLC: two turns of one provider session in the    *)
(* first epoch, in the order the person spoke them.                            *)
EXTENDS VoiceTurns, TLC

CONSTANTS t1, t2, r1, r2

TwoOrdinals == (t1 :> 1) @@ (t2 :> 2)
FirstEpoch  == (t1 :> 0) @@ (t2 :> 0)

\* Both readers ask for the first turn, the plain one for the second too.
MCSpec == Init /\ [][Next /\ reader'[r1].turn # t2]_vars /\ Fairness
=============================================================================
