-------------------------- MODULE MCVoiceRecovery --------------------------
(* Instance of VoiceRecovery for TLC: all its constants are small numbers. *)
EXTENDS VoiceRecovery

\* After a sleep the person asks for the call again only while its first segment
\* is the only one: sleeps late in a call are not taken up.
Rested == "sleep" \in tab.holds => \A s \in Segments : s > 1 => seg[s].stage = "none"

MCSpec == Init /\ [][Next /\ (Retry => Rested)]_vars /\ Fairness
=============================================================================
