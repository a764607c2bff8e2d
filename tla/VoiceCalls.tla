----------------------------- MODULE VoiceCalls -----------------------------
(***************************************************************************)
(* One logical voice call on the server: its provider segments, the        *)
(* commands a browser sends about them, and what they hold of the          *)
(* deployment's voice minutes (packages/server/src/voice-handlers.js,      *)
(* storage.js, voice-cap.js, plugin-runtime.js admitVoice).                *)
(*                                                                         *)
(* A segment is admitted, opened at the provider and connected by one      *)
(* request, awaiting at each step; it is closed by another request, by a   *)
(* deadline or by the request that replaces it.  Takeovers, changes of     *)
(* consent and crashes fall between any two steps.  VoiceRecovery composes *)
(* this server with the browser that drives it.                            *)
(***************************************************************************)
EXTENDS VoiceLifecycle, FiniteSets

CONSTANTS
  MaxSegments,  \* bound on the provider segments of the call
  Minutes       \* voice minutes of the deployment, in full segments

Segments == 1..MaxSegments

ASSUME CallAssumption == MaxSegments \in Nat \ {0} /\ Minutes \in Nat

VARIABLES
  call,       \* the durable lifecycle of the call
  seg,        \* what the process keeps of each segment's entry
  slot,       \* sessions.get(sessionId): the segment the session is using, or 0
  entry,      \* calls.get(callId): the segment that takes the call's commands, or 0
  checks,     \* recover requests that wait for the eligibility check
  resume,     \* the resume command in progress
  consent,    \* authorization revision of the session (0 is no revision)
  paused,     \* the session is paused
  authority,  \* the call has an authority its reasoning runs under
  hold,       \* voice minutes of each segment
  record,     \* voice_calls row of each segment
  provider    \* each segment at the provider

durable == <<call, consent, paused, hold, record, provider>>
process == <<seg, slot, entry, checks, resume, authority>>
serverVars == <<durable, process>>

\* "opening": admitted; "consumed": the claim is spent and the provider may be
\* asked; "dispatched": the row is saved; "gone": the request or the close ended
Stages == {"none", "admitting", "opening", "consumed", "dispatched", "live", "gone"}

\* replaces: the segment whose recover request started it (0: none)
Segment == [stage : Stages, closing : BOOLEAN, epoch : Nat, auth : Nat, replaces : 0..MaxSegments]

NoSegment == [stage |-> "none", closing |-> FALSE, epoch |-> 0, auth |-> 0, replaces |-> 0]

\* "sent": dispatched; "kept": closed without confirmation; "settled": to the
\* confirmed duration, or to nothing when it was never dispatched
Holds == {"none", "held", "sent", "kept", "settled"}

\* of: the segment the browser asked to replace; waited: it still wants the answer
Check == [seg : Segments, of : Segments, explicit : BOOLEAN, waited : BOOLEAN]

\* fenced: a command of the call, which reads ownership again after its await
Resume == [stage : {"none", "checking", "saved"}, seg : Segments, fenced : BOOLEAN]

NoResume == [stage |-> "none", seg |-> 1, fenced |-> FALSE]

CallsTypeOK ==
  /\ call \in Lifecycle /\ seg \in [Segments -> Segment]
  /\ slot \in 0..MaxSegments /\ entry \in 0..MaxSegments
  /\ checks \subseteq Check /\ resume \in Resume
  /\ consent \in Nat /\ paused \in BOOLEAN /\ authority \in BOOLEAN
  /\ hold \in [Segments -> Holds]
  /\ record \in [Segments -> {"none", "saved", "unconfirmed", "final"}]
  /\ provider \in [Segments -> {"none", "open", "closed"}]

CallsInit ==
  /\ call = Idle /\ seg = [s \in Segments |-> NoSegment] /\ slot = 0 /\ entry = 0
  /\ checks = {} /\ resume = NoResume /\ consent = 1 /\ paused = FALSE /\ authority = FALSE
  /\ hold = [s \in Segments |-> "none"]
  /\ record = [s \in Segments |-> "none"]
  /\ provider = [s \in Segments |-> "none"]

-----------------------------------------------------------------------------
(* Reading the state *)

Controls(s) == seg[s].epoch = call.epoch

\* sessionFor: ownership and the consent the segment was started under.
Authorized(s) == Controls(s) /\ seg[s].auth = consent

Starting(s) == seg[s].stage \in {"admitting", "opening", "consumed", "dispatched"}

Live(s) == seg[s].stage = "live" /\ ~seg[s].closing

Reserved == {s \in Segments : hold[s] \in {"held", "sent", "kept"}}

\* The next segment has no entry yet.
Unused(s) == seg[s].stage = "none" /\ \A u \in 1..(s - 1) : seg[u].stage # "none"

\* A command finds the entry of its own epoch.
EntryNow == IF entry # 0 /\ Controls(entry) THEN entry ELSE 0

\* Of a segment that is gone only the authorization of its row is read again.
Gone(s) == [seg EXCEPT ![s] = [NoSegment EXCEPT !.stage = "gone", !.closing = TRUE, !.auth = seg[s].auth]]

NotOwn(reference, s) == IF reference = s THEN 0 ELSE reference

-----------------------------------------------------------------------------
(* Starting a segment *)

\* start: the entry takes the session's slot and the call's commands.
Enter(entries, s, replaces) ==
  /\ Unused(s)
  /\ seg' = [entries EXCEPT ![s] = [stage |-> "admitting", closing |-> FALSE, epoch |-> call.epoch,
                                   auth |-> consent, replaces |-> replaces]]
  /\ slot' = s /\ entry' = s /\ authority' = TRUE

Begin(s) ==
  /\ call.state = "idle" /\ slot = 0
  /\ Enter(seg, s, 0)
  /\ call' = Start(call)
  /\ UNCHANGED <<consent, paused, hold, record, provider, checks, resume>>

Move(s, from, to) == seg[s].stage = from /\ seg' = [seg EXCEPT ![s].stage = to]

\* admitVoice and the callback's preparation were awaited: the full length of a
\* segment is reserved.  A replacement may start while the session is paused.
Admit(s) ==
  /\ Move(s, "admitting", "opening")
  /\ seg[s].auth = consent /\ (s = 1 => ~paused) /\ ~seg[s].closing
  /\ Cardinality(Reserved) < Minutes
  /\ hold' = [hold EXCEPT ![s] = "held"]
  /\ UNCHANGED <<call, consent, paused, record, provider, slot, entry, checks, resume, authority>>

\* attempt.consume: consent was awaited, the session is read again.  From here
\* the provider may have the segment.
Consume(s) ==
  /\ Move(s, "opening", "consumed")
  /\ seg[s].auth = consent /\ (s = 1 => ~paused) /\ ~seg[s].closing
  /\ hold' = [hold EXCEPT ![s] = "sent"]
  /\ provider' \in {provider, [provider EXCEPT ![s] = "open"]}
  /\ UNCHANGED <<call, consent, paused, record, slot, entry, checks, resume, authority>>

\* The adapter's row is saved and the segment dispatched.
Dispatch(s) ==
  /\ Move(s, "consumed", "dispatched")
  /\ seg[s].auth = consent /\ ~seg[s].closing
  /\ provider' = [provider EXCEPT ![s] = "open"]
  /\ record' = [record EXCEPT ![s] = "saved"]
  /\ UNCHANGED <<call, consent, paused, hold, slot, entry, checks, resume, authority>>

PauseIf(c) == IF paused THEN HoldFor(c, "pause") ELSE c

\* Seeded fault: what the awaited start found is not read again.
ConnectUnchecked(s) ==
  /\ Move(s, "dispatched", "live")
  /\ call' = PauseIf(Connected(call, seg[s].epoch, s, consent))
  /\ UNCHANGED <<consent, paused, hold, record, provider, slot, entry, checks, resume, authority>>

\* The adapter's start was awaited: ownership, consent and the end of the call
\* are read again.
Connect(s) ==
  /\ Move(s, "dispatched", "live")
  /\ Authorized(s) /\ call.state # "ended"
  /\ call' = PauseIf(Connected(call, seg[s].epoch, s, consent))
  /\ UNCHANGED <<consent, paused, hold, record, provider, slot, entry, checks, resume, authority>>

\* What it found is no longer true: the new segment is closed, and with it a
\* call that still ran.
Refuse(s) ==
  /\ seg[s].stage = "dispatched" /\ ~(Authorized(s) /\ call.state # "ended")
  /\ seg' = [seg EXCEPT ![s].stage = "live", ![s].closing = TRUE]
  /\ call' = IF seg[s].closing THEN call ELSE EndCall(call)
  /\ authority' = (authority /\ seg[s].closing)
  /\ slot' = NotOwn(slot, s) /\ entry' = NotOwn(entry, s)
  /\ UNCHANGED <<consent, paused, hold, record, provider, checks, resume>>

\* What remains of a segment that is closed: nothing if it was not dispatched,
\* its confirmed duration, or all of it until the provider answers.
Settle(s, confirmed) ==
  /\ hold' = [hold EXCEPT ![s] = IF @ = "none" THEN "none" ELSE IF @ = "sent" /\ ~confirmed THEN "kept" ELSE "settled"]
  /\ record' = [record EXCEPT ![s] = IF @ = "none" THEN "none" ELSE IF confirmed THEN "final" ELSE "unconfirmed"]
  /\ provider' = [provider EXCEPT ![s] = IF @ = "open" /\ confirmed THEN "closed" ELSE @]

\* Refused admission, a provider error, a deadline, an abort: the start throws.
\* The adapter closes what it opened.
StartFails(s, confirmed) ==
  /\ Starting(s)
  /\ seg' = Gone(s)
  /\ Settle(s, confirmed)
  /\ slot' = NotOwn(slot, s) /\ entry' = NotOwn(entry, s)
  /\ authority' = (authority /\ s # 1)
  /\ UNCHANGED <<call, consent, paused, checks, resume>>

-----------------------------------------------------------------------------
(* Closing a segment *)

Closed(s) == [seg EXCEPT ![s].closing = TRUE]

\* A recoverable reason leaves the call to be recovered, unless it waits already.
Resumable(c) == IF c.state = "waiting" THEN c ELSE TransportLost(c)

\* close(): the lifecycle first, then the entry, which is closed only once.
CloseEntry(s, after) ==
  /\ call' = IF seg[s].closing THEN call ELSE after
  /\ seg' = Closed(s)
  /\ slot' = NotOwn(slot, s)

\* Seeded fault: a close that was not confirmed settles like one that was.
CloseSettlesUnconfirmed(s, confirmed) ==
  /\ seg[s].stage = "live" /\ seg[s].closing
  /\ seg' = Gone(s)
  /\ hold' = [hold EXCEPT ![s] = "settled"]
  /\ record' = [record EXCEPT ![s] = IF confirmed THEN "final" ELSE "unconfirmed"]
  /\ provider' = [provider EXCEPT ![s] = IF @ = "open" /\ confirmed THEN "closed" ELSE @]
  /\ entry' = NotOwn(entry, s)
  /\ UNCHANGED <<call, consent, paused, slot, checks, resume, authority>>

\* The adapter's close was awaited; an unconfirmed one keeps its maximum.
CloseSettles(s, confirmed) ==
  /\ seg[s].stage = "live" /\ seg[s].closing
  /\ seg' = Gone(s)
  /\ Settle(s, confirmed)
  /\ entry' = NotOwn(entry, s)
  /\ UNCHANGED <<call, consent, paused, slot, checks, resume, authority>>

\* The browser stopped renewing the segment's lease.
LeaseExpires(s) ==
  /\ Live(s)
  /\ CloseEntry(s, IF call.state = "waiting" THEN call ELSE WaitFor(call, "waiting"))
  /\ UNCHANGED <<consent, paused, hold, record, provider, entry, checks, resume, authority>>

\* External: a provider ends what nobody closes, at its own limit.
ProviderEnds(s) ==
  /\ provider[s] = "open" /\ seg[s].stage = "gone"
  /\ provider' = [provider EXCEPT ![s] = "closed"]
  /\ UNCHANGED <<process, call, consent, paused, hold, record>>

\* reconcile: authenticated evidence replaces what was kept.
Reconcile(s) ==
  /\ record[s] = "unconfirmed" /\ provider[s] = "closed"
  /\ hold' = [hold EXCEPT ![s] = "settled"]
  /\ record' = [record EXCEPT ![s] = "final"]
  /\ UNCHANGED <<process, call, consent, paused, provider>>

-----------------------------------------------------------------------------
(* Commands of the browser that controls the call *)

NeedsIntent == {"takeover", "wake", "sleep", "server-restart"}

\* recover is refused for good.
RecoverForbidden(of, explicit) ==
  \/ call.state = "ended"
  \/ ~explicit /\ call.holds \cap NeedsIntent # {}
  \/ call.auth # 0 /\ call.auth # consent
  \/ EntryNow = 0 /\ record[of] # "none" /\ seg[of].auth # consent

\* No entry takes commands: a replacement starts at once.
RecoverAfresh(of, s, explicit) ==
  /\ ~RecoverForbidden(of, explicit) /\ EntryNow = 0 /\ record[of] # "none" /\ slot = 0
  /\ Enter(seg, s, 0)
  /\ UNCHANGED <<durable, checks, resume>>

\* An entry does: its eligibility is checked first.
RecoverAsk(of, explicit) ==
  /\ ~RecoverForbidden(of, explicit) /\ EntryNow # 0 /\ record[of] # "none"
  /\ seg[EntryNow].stage = "live"
  /\ checks' = checks \cup {[seg |-> EntryNow, of |-> of, explicit |-> explicit, waited |-> TRUE]}
  /\ UNCHANGED <<durable, seg, slot, entry, resume, authority>>

\* A start is in progress, the row is unknown or another segment has the slot.
RecoverBusy(of, explicit) ==
  /\ ~RecoverForbidden(of, explicit)
  /\ \/ record[of] = "none"
     \/ EntryNow # 0 /\ seg[EntryNow].stage # "live"
     \/ EntryNow = 0 /\ (slot # 0 \/ ~\E s \in Segments : Unused(s))
  /\ UNCHANGED serverVars

\* The browser asked with an identity that was already replaced.
Answered(c) == c.of # c.seg /\ ~seg[c.seg].closing

\* A request that replaces it is still starting the replacement.
Recovering(s) == \E u \in Segments : Starting(u) /\ seg[u].replaces = s

CheckAnswers(c) ==
  /\ c \in checks /\ Authorized(c.seg) /\ Answered(c)
  /\ checks' = checks \ {c}
  /\ UNCHANGED <<durable, seg, slot, entry, resume, authority>>

\* Seeded fault: the session's slot is not asked for.
CheckReplacesAnyway(c, s) ==
  /\ c \in checks /\ Authorized(c.seg) /\ ~Answered(c) /\ ~Recovering(c.seg)
  /\ call' = IF seg[c.seg].closing THEN call ELSE Resumable(call)
  /\ Enter(Closed(c.seg), s, c.seg)
  /\ checks' = checks \ {c}
  /\ UNCHANGED <<consent, paused, hold, record, provider, resume>>

\* The old segment is closed and its replacement takes the slot.  Whether the
\* call ended during the check is only read when the replacement has started.
CheckReplaces(c, s) ==
  /\ c \in checks /\ Authorized(c.seg) /\ ~Answered(c) /\ ~Recovering(c.seg) /\ NotOwn(slot, c.seg) = 0
  /\ call' = IF seg[c.seg].closing THEN call ELSE Resumable(call)
  /\ Enter(Closed(c.seg), s, c.seg)
  /\ checks' = checks \ {c}
  /\ UNCHANGED <<consent, paused, hold, record, provider, resume>>

\* The slot is taken (or there is no bounded segment left): only the close happens.
CheckConflicts(c) ==
  /\ c \in checks /\ Authorized(c.seg) /\ ~Answered(c)
  /\ Recovering(c.seg) \/ NotOwn(slot, c.seg) # 0 \/ ~\E s \in Segments : Unused(s)
  /\ CloseEntry(c.seg, Resumable(call))
  /\ checks' = checks \ {c}
  /\ UNCHANGED <<consent, paused, hold, record, provider, entry, resume, authority>>

\* Ownership was lost during the check: only the request fails.  Anything else
\* it refuses ends the call.
CheckFails(c) ==
  /\ c \in checks
  /\ \/ Controls(c.seg) /\ CloseEntry(c.seg, EndCall(call)) /\ authority' = (authority /\ seg[c.seg].closing)
     \/ ~Controls(c.seg) /\ UNCHANGED <<call, seg, slot, authority>>
  /\ checks' = checks \ {c}
  /\ UNCHANGED <<consent, paused, hold, record, provider, entry, resume>>

\* resume, or the text conversation's unpause, which is not fenced.
ResumeAsk(fenced) ==
  /\ resume.stage = "none" /\ entry # 0 /\ seg[entry].stage = "live" /\ Authorized(entry)
  /\ resume' = [stage |-> "checking", seg |-> entry, fenced |-> fenced]
  /\ UNCHANGED <<durable, seg, slot, entry, checks, authority>>

\* The segment resumes and saves it.
ResumeSaves ==
  /\ resume.stage = "checking" /\ Live(resume.seg)
  /\ resume.fenced => Authorized(resume.seg)
  /\ seg[resume.seg].auth = consent
  /\ paused' = FALSE /\ resume' = [resume EXCEPT !.stage = "saved"]
  /\ UNCHANGED <<call, consent, hold, record, provider, seg, slot, entry, checks, authority>>

\* Its acknowledgement clears the call's holds.
ResumeAcks ==
  /\ resume.stage = "saved" /\ (resume.fenced => Authorized(resume.seg))
  /\ call' = ResumeAcknowledged(call) /\ resume' = NoResume
  /\ UNCHANGED <<consent, paused, hold, record, provider, seg, slot, entry, checks, authority>>

ResumeFails ==
  /\ resume.stage # "none" /\ resume' = NoResume
  /\ UNCHANGED <<durable, seg, slot, entry, checks, authority>>

\* pause of the call, or of the text conversation: the session stops at once.
PauseCall(ofCall) ==
  /\ entry # 0 /\ Authorized(entry) /\ Live(entry)
  /\ paused' = TRUE /\ call' = IF ofCall THEN HoldFor(call, "pause") ELSE call
  /\ UNCHANGED <<consent, hold, record, provider, process>>

\* The segment did not acknowledge the pause in time.
PauseFails ==
  /\ paused /\ entry # 0 /\ Live(entry)
  /\ CloseEntry(entry, EndCall(call)) /\ authority' = FALSE
  /\ UNCHANGED <<consent, paused, hold, record, provider, entry, checks, resume>>

\* The commands below leave open what becomes of the requests that wait for a
\* check: their browser may have stopped waiting (checks').

\* close with a recoverable reason; without an entry it changes nothing.
CloseCommand(of) ==
  /\ IF EntryNow # 0 /\ EntryNow = of /\ seg[of].stage = "live"
     THEN CloseEntry(of, Resumable(call)) ELSE UNCHANGED <<call, seg, slot>>
  /\ UNCHANGED <<consent, paused, hold, record, provider, entry, resume, authority>>

\* close after the last attempt: the call waits, and so does its segment's end.
ExhaustedCommand(of) ==
  LET c == IF call.provider = of THEN RecoveryExhausted(call) ELSE call
  IN /\ call' = IF EntryNow # 0 /\ EntryNow = of /\ Live(of) THEN Resumable(c) ELSE c
     /\ IF EntryNow # 0 /\ EntryNow = of /\ seg[of].stage = "live"
        THEN seg' = Closed(of) /\ slot' = NotOwn(slot, of) ELSE UNCHANGED <<seg, slot>>
     /\ UNCHANGED <<consent, paused, hold, record, provider, entry, resume, authority>>

\* The entry of the call is closed, whatever it was doing.
CloseWhatRuns ==
  /\ seg' = IF entry # 0 THEN Closed(entry) ELSE seg
  /\ slot' = IF entry # 0 THEN NotOwn(slot, entry) ELSE slot

\* close by the person: terminal whatever runs, a start included.
EndCommand ==
  /\ call' = EndCall(call) /\ authority' = FALSE
  /\ CloseWhatRuns
  /\ UNCHANGED <<consent, paused, hold, record, provider, entry, resume>>

-----------------------------------------------------------------------------
(* Other tabs, the session and the process *)

\* takeover: the epoch commits before the old transport is closed.
TakeOver ==
  /\ call.state \notin {"ended", "idle"}
  /\ call' = TakenOver(call)
  /\ CloseWhatRuns
  /\ UNCHANGED <<consent, paused, hold, record, provider, entry, resume, authority>>

\* Consent, withdrawal or erasure: stopSession ends the calls the process knows.
ChangeConsent ==
  /\ consent' = consent + 1
  /\ seg' = IF slot # 0 THEN Closed(slot) ELSE seg
  /\ slot' = 0
  /\ call' = IF authority \/ (slot # 0 /\ ~seg[slot].closing) THEN EndCall(call) ELSE call
  /\ authority' = FALSE
  /\ UNCHANGED <<paused, hold, record, provider, entry, checks, resume>>

\* Processing choices change only while no segment has the slot.
ChangeSettings ==
  /\ slot = 0 /\ consent' = consent + 1
  /\ UNCHANGED <<call, paused, hold, record, provider, process>>

\* Seeded fault: startup leaves an interrupted row as it found it.
InterruptedForgotten(row) == row

\* Startup marks the row of a segment that nobody closed for reconciliation.
Interrupted(row) == IF row = "saved" THEN "unconfirmed" ELSE row

\* A crash, and startup before requests are served: budget recovery returns what
\* was not dispatched, and a call with rows waits for its person.
RestartServer ==
  /\ seg' = [s \in Segments |-> IF seg[s].stage = "none" THEN seg[s] ELSE Gone(s)[s]]
  /\ slot' = 0 /\ entry' = 0 /\ resume' = NoResume /\ authority' = FALSE
  /\ hold' = [s \in Segments |-> CASE hold[s] = "held" -> "settled" [] hold[s] = "sent" -> "kept"
                                   [] OTHER -> hold[s]]
  /\ record' = [s \in Segments |-> Interrupted(record[s])]
  /\ call' = IF \E s \in Segments : record[s] # "none" THEN WaitFor(call, "server-restart") ELSE call
  /\ UNCHANGED <<consent, paused, provider>>

-----------------------------------------------------------------------------
(* Safety *)

\* However starts, closes, checks, takeovers and restarts interleave, at most
\* one segment is live and not being closed: the one with the session's slot,
\* of the tab that controls the call, under the consent it was started with,
\* in a call that has not ended.
OneLiveSegment ==
  \A s \in Segments : Live(s) =>
    /\ slot = s /\ entry = s
    /\ Authorized(s) /\ call.state # "ended" /\ call.provider = s

\* The deployment's minutes stay reserved for every segment a provider may be
\* running, crashes and unconfirmed closes included, and so bound them all.
OpenSegmentsReserved ==
  /\ \A s \in Segments : provider[s] = "open" => hold[s] \in {"sent", "kept"}
  /\ Cardinality({s \in Segments : provider[s] = "open"}) <= Minutes
=============================================================================
