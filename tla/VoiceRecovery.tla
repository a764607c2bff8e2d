--------------------------- MODULE VoiceRecovery ---------------------------
(***************************************************************************)
(* A logical voice call and the browser tab that controls it: the outage   *)
(* policy of packages/core/src/voice-lifecycle-controller.js, with the     *)
(* transport of plugins/elevenlabs/src/client.js, drives the server of     *)
(* VoiceCalls.                                                             *)
(*                                                                         *)
(* Every request may be lost on the way there or back, or outlive the      *)
(* deadline the tab waits for; the tab may sleep, be paused, hang up or    *)
(* lose the call to another tab while it recovers.                         *)
(***************************************************************************)
EXTENDS VoiceCalls

CONSTANT MaxUpsets  \* bound on what goes wrong outside: drops, crashes, other tabs

VARIABLES
  tab,     \* the controlling tab's own lifecycle of the call
  grant,   \* the segment of the last receipt it was given (0: none)
  flight,  \* its recovery, or its start, in progress
  unmute,  \* its resume in progress is still wanted
  upsets

tabVars == <<tab, grant, flight, unmute, upsets>>
vars == <<serverVars, tabVars>>

\* of: the segment it replaces; seg: what the server starts or answers for it;
\* left: attempts left; moved: a continuity revision came meanwhile
Flight == [stage : {"none", "preparing", "asking", "waiting", "replied", "failed", "exhausted"},
           of : 0..MaxSegments, seg : 0..MaxSegments, left : 0..Allowance,
           explicit : BOOLEAN, moved : BOOLEAN, fatal : BOOLEAN]

NoFlight == [stage |-> "none", of |-> 0, seg |-> 0, left |-> 0,
             explicit |-> FALSE, moved |-> FALSE, fatal |-> FALSE]

VoiceTypeOK ==
  /\ CallsTypeOK
  /\ tab \in Lifecycle /\ grant \in 0..MaxSegments /\ flight \in Flight
  /\ unmute \in BOOLEAN /\ upsets \in 0..MaxUpsets

Init ==
  /\ CallsInit
  /\ tab = Idle /\ grant = 0 /\ flight = NoFlight /\ unmute = FALSE /\ upsets = 0

-----------------------------------------------------------------------------
(* The tab *)

Upset == upsets < MaxUpsets /\ upsets' = upsets + 1

Flying == flight.stage # "none"

\* A tab that never joined a segment of the call has only its first request.
Joined == tab.provider # 0

\* A tab that takes itself to be connected.
HasMedia == Joined /\ tab.state # "ended" /\ ~tab.needsRecovery /\ ~Flying

\* The request the tab sent is no longer waited for.
Abandoned == {[c EXCEPT !.waited = FALSE] : c \in checks}

\* A hold that comes during a recovery ends it at its next step.
Moved == IF Flying THEN [flight EXCEPT !.moved = TRUE] ELSE flight

Takeoff(explicit) ==
  [NoFlight EXCEPT !.stage = "preparing", !.of = grant, !.left = Allowance, !.explicit = explicit]

FirstCall(s) ==
  /\ grant = 0 /\ ~Flying
  /\ Begin(s)
  /\ flight' = [NoFlight EXCEPT !.stage = "waiting", !.seg = s]
  /\ UNCHANGED <<tab, grant, unmute, upsets>>

\* The transport drops, or a heartbeat fails.  A call that waits or is held
\* needs its person; a recovery in progress is joined.  Only the drops after the
\* first are bounded.
Drop ==
  /\ Joined /\ ~Flying /\ tab.state \notin {"ended", "waiting"} /\ ~tab.needsRecovery
  /\ IF Live(grant) /\ grant # 1 THEN Upset ELSE UNCHANGED upsets
  /\ tab' = TransportLost(tab)
  /\ flight' = IF tab.holds = {} THEN Takeoff(FALSE) ELSE flight
  /\ UNCHANGED <<serverVars, grant, unmute>>

\* The person asks for the call again; a tab that took it over asks at once.
Retry ==
  /\ ~Flying /\ tab.state # "ended" /\ tab.needsRecovery /\ grant # 0
  /\ tab' = TransportLost(RetryRequested(tab))
  /\ flight' = IF Joined THEN Takeoff(TRUE)
                         ELSE [Takeoff(TRUE) EXCEPT !.stage = "asking", !.left = 1]
  /\ UNCHANGED <<serverVars, grant, unmute, upsets>>

\* A command the server hears, or not.
Delivered(command) ==
  \/ command /\ UNCHANGED upsets
  \/ Upset /\ UNCHANGED <<call, seg, slot, consent, paused, hold, record, provider, entry, resume, authority>>

\* beforeRecovery: the old segment is closed, if the server hears of it.
Prepare ==
  /\ flight.stage = "preparing"
  /\ flight' = [flight EXCEPT !.stage = "asking"]
  /\ Delivered(CloseCommand(flight.of))
  /\ UNCHANGED <<checks, tab, grant, unmute>>

Fails(fatal) == flight' = [flight EXCEPT !.stage = "failed", !.fatal = fatal]

\* replace: one request to recover, and what the server makes of it.
Ask ==
  /\ flight.stage = "asking" /\ flight.left > 0 /\ ~flight.moved
  /\ tab' = RecoveryAttempt(tab)
  /\ \/ RecoverForbidden(flight.of, flight.explicit) /\ Fails(TRUE) /\ UNCHANGED serverVars
     \/ RecoverBusy(flight.of, flight.explicit) /\ Fails(FALSE)
     \/ RecoverAsk(flight.of, flight.explicit) /\ flight' = [flight EXCEPT !.stage = "waiting", !.seg = 0]
     \/ \E s \in Segments : RecoverAfresh(flight.of, s, flight.explicit)
                            /\ flight' = [flight EXCEPT !.stage = "waiting", !.seg = s]
  /\ UNCHANGED <<grant, unmute, upsets>>

AskLost ==
  /\ flight.stage = "asking" /\ flight.left > 0 /\ ~flight.moved
  /\ Upset
  /\ tab' = RecoveryAttempt(tab) /\ Fails(FALSE)
  /\ UNCHANGED <<serverVars, grant, unmute>>

Superseded ==
  /\ flight.stage = "asking" /\ flight.moved
  /\ flight' = NoFlight
  /\ UNCHANGED <<serverVars, tab, grant, unmute, upsets>>

\* The receipt arrives and the transport connects.
Receive ==
  /\ flight.stage = "replied"
  /\ tab' = IF flight.moved THEN tab
            ELSE Connected(IF grant = 0 THEN [tab EXCEPT !.epoch = call.epoch] ELSE tab,
                           IF grant = 0 THEN call.epoch ELSE tab.epoch, flight.seg, 0)
  /\ grant' = flight.seg /\ flight' = NoFlight
  /\ UNCHANGED <<serverVars, unmute, upsets>>

\* The transport does not connect: failedReplacement closes the new segment, if
\* the server hears of it.
MediaFails ==
  /\ flight.stage = "replied" /\ Upset
  /\ grant' = flight.seg /\ Fails(FALSE)
  /\ \/ CloseCommand(flight.seg)
     \/ UNCHANGED <<call, seg, slot, consent, paused, hold, record, provider, entry, resume, authority>>
  /\ UNCHANGED <<checks, tab, unmute>>

\* The reply is lost, or later than the tab waits.
GiveUp ==
  /\ flight.stage \in {"waiting", "replied"} /\ Upset
  /\ Fails(FALSE) /\ checks' = Abandoned
  /\ UNCHANGED <<durable, seg, slot, entry, resume, authority, tab, grant, unmute>>

\* Seeded fault: every failed attempt starts the count again.
AttemptUncounted ==
  /\ flight.stage = "failed" /\ Joined /\ ~flight.moved /\ ~flight.fatal
  /\ tab' = RetryRequested(tab)
  /\ flight' = [flight EXCEPT !.stage = "asking", !.seg = 0]
  /\ UNCHANGED <<serverVars, grant, unmute, upsets>>

\* Another attempt, or the last one has failed.
AttemptFailed ==
  /\ flight.stage = "failed" /\ Joined /\ ~flight.moved /\ ~flight.fatal
  /\ tab' = RecoveryFailed(tab)
  /\ flight' = [flight EXCEPT !.stage = IF flight.left = 1 THEN "exhausted" ELSE "asking",
                              !.left = @ - 1, !.seg = 0]
  /\ UNCHANGED <<serverVars, grant, unmute, upsets>>

FailedWhenMoved ==
  /\ flight.stage = "failed" /\ Joined /\ flight.moved
  /\ flight' = NoFlight
  /\ UNCHANGED <<serverVars, tab, grant, unmute, upsets>>

\* The call's authority is gone: the tab ends it.
AuthorityLost ==
  /\ flight.stage = "failed" /\ Joined /\ ~flight.moved /\ flight.fatal
  /\ tab' = EndCall(tab) /\ flight' = NoFlight
  /\ Delivered(EndCommand) /\ checks' = Abandoned
  /\ UNCHANGED <<grant, unmute>>

\* A first request has no second attempt; what it may have opened is closed.
StartFailed ==
  /\ flight.stage = "failed" /\ ~Joined
  /\ flight' = NoFlight
  /\ IF grant = 0 THEN UNCHANGED <<durable, seg, slot, entry, resume, authority, upsets>>
                   ELSE Delivered(IF flight.of = 0 THEN EndCommand ELSE CloseCommand(grant))
  /\ checks' = Abandoned
  /\ UNCHANGED <<tab, grant, unmute>>

\* exhausted: the call waits, and the server is told once.
Exhaust ==
  /\ flight.stage = "exhausted"
  /\ tab' = RecoveryExhausted(tab) /\ flight' = NoFlight
  /\ Delivered(ExhaustedCommand(grant))
  /\ UNCHANGED <<checks, grant, unmute>>

-----------------------------------------------------------------------------
(* Holds of the tab *)

Hold(next) == tab.state # "ended" /\ Joined /\ tab' = next /\ flight' = Moved

LeaseLapses ==
  /\ ~Flying /\ ~tab.needsRecovery /\ Upset
  /\ Hold(WaitFor(tab, "waiting"))
  /\ UNCHANGED <<serverVars, grant, unmute>>

GoToSleep ==
  /\ Upset /\ Hold(Sleep(tab))
  /\ UNCHANGED <<serverVars, grant, unmute>>

WakeUp ==
  /\ "sleep" \in tab.holds /\ "wake" \notin tab.holds
  /\ Hold(WaitFor(tab, "wake"))
  /\ UNCHANGED <<serverVars, grant, unmute, upsets>>

\* The server's event, or a heartbeat it refuses.
HearRestart ==
  /\ "server-restart" \in call.holds \ tab.holds /\ call.state = "waiting"
  /\ call.provider = grant
  /\ Hold(WaitFor(tab, "server-restart"))
  /\ UNCHANGED <<serverVars, grant, unmute, upsets>>

\* Muted at once; the command follows when no recovery is in progress.
Pause ==
  /\ Joined /\ tab.state # "ended" /\ "pause" \notin tab.holds /\ Upset
  /\ tab' = HoldFor(tab, "pause") /\ unmute' = FALSE
  /\ \/ ~Flying /\ PauseCall(TRUE)
     \/ UNCHANGED serverVars
  /\ UNCHANGED <<grant, flight>>

Unpause ==
  /\ Joined /\ ~Flying /\ tab.state # "ended" /\ ~tab.needsRecovery /\ tab.holds # {} /\ ~unmute
  /\ entry = grant /\ ResumeAsk(TRUE)
  /\ unmute' = TRUE
  /\ UNCHANGED <<tab, grant, flight, upsets>>

\* The server acknowledges; only a pause since then keeps the tab muted.
Acknowledge ==
  /\ ResumeAcks
  /\ tab' = IF unmute THEN ResumeAcknowledged(tab) ELSE tab
  /\ unmute' = FALSE
  /\ UNCHANGED <<grant, flight, upsets>>

ResumeLost ==
  /\ ResumeFails /\ unmute' = FALSE
  /\ UNCHANGED <<tab, grant, flight, upsets>>

Hangup ==
  /\ Joined /\ tab.state # "ended"
  /\ tab' = EndCall(tab) /\ flight' = NoFlight /\ unmute' = FALSE
  /\ Delivered(EndCommand) /\ checks' = Abandoned
  /\ UNCHANGED grant

-----------------------------------------------------------------------------
(* The server *)

Waits(s) == flight.stage = "waiting" /\ flight.seg = s

Replied(s) == flight' = [flight EXCEPT !.stage = "replied", !.seg = s]

\* Nothing stands against the start: only a fault of the provider stops it.
Startable(s) ==
  /\ seg[s].auth = consent /\ ~seg[s].closing /\ (s = 1 => ~paused)
  /\ seg[s].stage = "admitting" => Cardinality(Reserved) < Minutes

StartStep(s) ==
  /\ \/ (Admit(s) \/ Consume(s) \/ Dispatch(s)) /\ UNCHANGED flight
     \/ Connect(s) /\ IF Waits(s) THEN Replied(s) ELSE UNCHANGED flight
     \/ Refuse(s) /\ IF Waits(s) THEN Fails(TRUE) ELSE UNCHANGED flight
  /\ UNCHANGED <<tab, grant, unmute, upsets>>

StartRefused(s, confirmed, fatal) ==
  /\ StartFails(s, confirmed)
  /\ IF Waits(s) THEN Fails(fatal) ELSE UNCHANGED flight
  /\ IF confirmed /\ ~Startable(s) THEN UNCHANGED upsets ELSE Upset
  /\ UNCHANGED <<tab, grant, unmute>>

CheckStep(c) ==
  /\ \/ CheckAnswers(c) /\ IF c.waited THEN Replied(c.seg) ELSE UNCHANGED flight
     \/ \E s \in Segments :
          CheckReplaces(c, s) /\ flight' = IF c.waited THEN [flight EXCEPT !.seg = s] ELSE flight
     \/ CheckConflicts(c) /\ IF c.waited THEN Fails(FALSE) ELSE UNCHANGED flight
  /\ UNCHANGED <<tab, grant, unmute, upsets>>

CheckRefused(c) ==
  /\ CheckFails(c)
  /\ IF Authorized(c.seg) THEN Upset ELSE UNCHANGED upsets
  /\ \E fatal \in BOOLEAN : IF c.waited THEN Fails(fatal) ELSE UNCHANGED flight
  /\ UNCHANGED <<tab, grant, unmute>>

CloseStep(s) ==
  /\ CloseSettles(s, TRUE) \/ ProviderEnds(s) \/ Reconcile(s)
  /\ UNCHANGED tabVars

Unconfirmed(s) == CloseSettles(s, FALSE) /\ Upset /\ UNCHANGED <<tab, grant, flight, unmute>>

\* The tab has the segment of its grant, or of the receipt that is on its way.
On(s) == (HasMedia /\ grant = s) \/ (flight.stage = "replied" /\ flight.seg = s)

\* A tab lets its own lease lapse no later than the server, which gave it the
\* deadline: of a receipt that comes too late, as soon as it is connected.
Expire(s) == ~On(s) /\ LeaseExpires(s) /\ Upset /\ UNCHANGED <<tab, grant, flight, unmute>>

PauseRefused == PauseFails /\ Upset /\ UNCHANGED <<tab, grant, flight, unmute>>

\* pause and unpause of the text conversation
TextPause ==
  /\ Upset /\ (PauseCall(FALSE) \/ ResumeAsk(FALSE))
  /\ UNCHANGED <<tab, grant, flight, unmute>>

ResumeStep == ResumeSaves /\ UNCHANGED tabVars

\* Another tab of the person takes the call: the old one stops, the new one
\* knows the call's last segment and waits for its person.
OtherTab ==
  /\ Upset /\ TakeOver
  /\ tab' = [Idle EXCEPT !.state = "paused", !.holds = {"waiting"}, !.needsRecovery = TRUE, !.epoch = call.epoch + 1]
  /\ grant' = call.provider /\ flight' = NoFlight /\ unmute' = FALSE /\ checks' = Abandoned

NewConsent == Upset /\ (ChangeConsent \/ ChangeSettings) /\ UNCHANGED <<tab, grant, flight, unmute>>

Crash ==
  /\ Upset /\ RestartServer /\ checks' = {}
  /\ flight' = IF flight.stage \in {"waiting", "replied"} THEN [flight EXCEPT !.stage = "failed", !.fatal = FALSE] ELSE flight
  /\ unmute' = FALSE
  /\ UNCHANGED <<tab, grant>>

-----------------------------------------------------------------------------

\* What a deadline or a pending answer makes happen.
FlightStep ==
  \/ Prepare \/ Ask \/ Superseded \/ Receive
  \/ AttemptFailed \/ FailedWhenMoved \/ AuthorityLost \/ StartFailed \/ Exhaust

Next ==
  \/ \E s \in Segments : FirstCall(s) \/ StartStep(s) \/ (\E confirmed, fatal \in BOOLEAN : StartRefused(s, confirmed, fatal))
                       \/ CloseStep(s) \/ Unconfirmed(s) \/ Expire(s)
  \/ \E c \in checks : CheckStep(c) \/ CheckRefused(c)
  \/ FlightStep \/ AskLost \/ MediaFails \/ GiveUp
  \/ Drop \/ Retry \/ LeaseLapses \/ GoToSleep \/ WakeUp \/ HearRestart
  \/ Pause \/ Unpause \/ Acknowledge \/ ResumeLost \/ Hangup
  \/ ResumeStep \/ PauseRefused \/ TextPause \/ OtherTab \/ NewConsent \/ Crash

\* What a deadline of the server ends: a start, or the wait for a check.
AnswerStep ==
  \/ \E s \in Segments : StartStep(s) \/ (\E fatal \in BOOLEAN : StartRefused(s, TRUE, fatal))
  \/ \E c \in checks : CheckStep(c) \/ CheckRefused(c)

\* Awaits of the tab and of the server are bounded by deadlines; startup and a
\* timer reconcile what was kept.
Fairness ==
  /\ WF_vars(FlightStep)
  /\ WF_vars(AnswerStep)
  /\ WF_vars(\E s \in Segments : CloseStep(s))

Spec == Init /\ [][Next]_vars /\ Fairness

-----------------------------------------------------------------------------
(* Properties *)

\* A tab that has its media back is on the segment the server uses: no other
\* segment of the call is live behind it.
TabFollows == HasMedia => \A s \in Segments : Live(s) => s = grant

\* A recovery ends, whatever is lost or comes late: with a segment, a call that
\* waits for its person, or an ended one.
RecoveryEnds == Flying ~> ~Flying

\* Voice minutes kept for a saved segment are returned, crashes included.
MinutesReturn ==
  LET Owed == {s \in Segments : hold[s] = "kept" /\ record[s] # "none"}
  IN Owed # {} ~> Owed = {}
=============================================================================
