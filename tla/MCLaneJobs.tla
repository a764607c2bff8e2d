----------------------------- MODULE MCLaneJobs -----------------------------
(* A small instance of LaneJobs for TLC. *)
EXTENDS LaneJobs, TLC

CONSTANTS f1, f2, fast, deep

MCFlights == {f1, f2}
MCSelections == {fast, deep}

\* The two choices differ in name only, so it does not matter which comes first.
MCInit == JobsInit /\ session.sel = fast

MCSpec == MCInit /\ [][JobsNext]_jobVars /\ JobsFairness
=============================================================================
