--------------------------- MODULE MCBudgetLedger ---------------------------
(* An instance of BudgetLedger for TLC: either two reasoning attempts, or a    *)
(* voice call with one of its components, in conversations of their own.       *)
EXTENDS BudgetLedger, TLC

CONSTANTS t, p, v, c, s

\* A priced draft (with receipts) beside an unpriced analysis; a voice call and
\* its speech component.
MCSession == [a \in {t, p, v, c} |-> s]
MCLane    == (t :> "concept") @@ (p :> "understanding") @@ (v :> "voice") @@ (c :> "tts")
MCParent  == c :> v

TextQuotes  == [max : {1, 2}, vmax : {0}, exposure : {0}, vexposure : {0}]
VoiceQuotes == {[max |-> 1, vmax |-> 1, exposure |-> 2, vexposure |-> 1],
                [max |-> 1, vmax |-> 0, exposure |-> 0, vexposure |-> 0]}
MCQuotes     == TextQuotes \cup VoiceQuotes
MCExtensions == {[max |-> 2, vmax |-> 1], [max |-> 1, vmax |-> 2]}

\* Calls and analyses are run one without the other, each with its own quotes; the
\* analysis takes the larger one, beside which only the smaller draft fits.
Apart ==
  LET used == {a \in Attempts : row[a].state # "none"}
  IN /\ used \subseteq {t, p} \/ used \subseteq {v, c}
     /\ p \in used => row[p].max = 2
     /\ \A a \in used : IF a \in {t, p} THEN row[a].exposure = 0
                        ELSE row[a].max = 1 \/ row[a].vmax = 1

MCSpec == Init /\ [][Next /\ Apart']_vars
=============================================================================
