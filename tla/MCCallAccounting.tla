-------------------------- MODULE MCCallAccounting --------------------------
(* Instance of CallAccounting for TLC: two requests of one conversation on one *)
(* account, the second charged less than its ceiling.                         *)
EXTENDS CallAccounting, TLC

CONSTANTS a, b, s

OneSession  == [x \in {a, b} |-> s]
TextLanes   == (a :> "concept") @@ (b :> "understanding")
NoParents   == [x \in {} |-> s]
OneQuote    == {[max |-> 2, vmax |-> 0, exposure |-> 0, vexposure |-> 0]}
TwoCharges  == (a :> 2) @@ (b :> 1)
=============================================================================
