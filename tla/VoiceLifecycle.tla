--------------------------- MODULE VoiceLifecycle ---------------------------
(***************************************************************************)
(* The lifecycle policy of a logical voice call, shared by the server and  *)
(* the browser (packages/core/src/voice-lifecycle.js).  One operator per   *)
(* event of reduceVoiceLifecycle; a call that ended ignores them all.      *)
(* Deadlines and the transcript checkpoint are left out: no transition of  *)
(* the call reads them.                                                    *)
(***************************************************************************)
EXTENDS Naturals

CONSTANT Allowance  \* recovery attempts per outage (3 in the code)

ASSUME AllowanceAssumption == Allowance \in Nat \ {0}

States == {"idle", "connecting", "active", "paused", "recovering", "waiting", "ended"}
Reasons == {"pause", "waiting", "sleep", "wake", "ownership-lost", "server-restart", "takeover", "ended"}

\* provider: the segment last connected (0: none yet); known: all that ever were
Lifecycle == [state : States, holds : SUBSET Reasons, epoch : Nat, provider : Nat, known : SUBSET Nat,
              auth : Nat, needsRecovery : BOOLEAN, attempts : 0..Allowance]

Idle == [state |-> "idle", holds |-> {}, epoch |-> 0, provider |-> 0, known |-> {},
         auth |-> 0, needsRecovery |-> FALSE, attempts |-> 0]

Unless(c, next) == IF c.state = "ended" THEN c ELSE next

Start(c) == IF c.state = "idle" THEN [c EXCEPT !.state = "connecting"] ELSE c

\* A segment that was connected before does not come back.
Connected(c, epoch, p, auth) ==
  IF c.state = "ended" \/ epoch # c.epoch \/ (p \in c.known /\ p # c.provider) THEN c
  ELSE [c EXCEPT !.state = IF c.holds # {} THEN "paused" ELSE "active",
                 !.needsRecovery = FALSE, !.attempts = 0, !.auth = auth,
                 !.provider = p, !.known = @ \cup {p}]

HoldFor(c, reason) ==
  IF c.state \in {"ended", "idle"} THEN c
  ELSE [c EXCEPT !.state = "paused", !.holds = @ \cup {reason}]

RetryRequested(c) == Unless(c, [c EXCEPT !.attempts = 0])

ResumeAcknowledged(c) ==
  Unless(c, [c EXCEPT !.holds = {}, !.state = IF c.needsRecovery THEN "recovering" ELSE "active",
                      !.attempts = IF c.state = "waiting" THEN 0 ELSE @])

TransportLost(c) ==
  Unless(c, [c EXCEPT !.needsRecovery = TRUE, !.state = IF c.holds # {} THEN "paused" ELSE "recovering"])

\* lease-expired, wake, ownership-lost, server-restart
WaitFor(c, reason) ==
  Unless(c, [c EXCEPT !.state = "waiting", !.holds = @ \cup {reason}, !.needsRecovery = TRUE])

RecoveryAttempt(c) == Unless(c, [c EXCEPT !.attempts = @ + 1])

RecoveryFailed(c) == IF c.attempts < Allowance THEN c ELSE WaitFor(c, "waiting")

RecoveryExhausted(c) == Unless(c, [WaitFor(c, "waiting") EXCEPT !.attempts = Allowance])

Sleep(c) == Unless(c, [c EXCEPT !.state = "paused", !.holds = @ \cup {"sleep"}, !.needsRecovery = TRUE])

TakenOver(c) == Unless(c, [WaitFor(c, "takeover") EXCEPT !.epoch = @ + 1])

EndCall(c) ==
  Unless(c, [c EXCEPT !.state = "ended", !.holds = @ \cup {"ended"}, !.needsRecovery = FALSE])
=============================================================================
